-------------------------------- MODULE Npm --------------------------------
(***************************************************************************)
(* The npm adapter: a registry whose change feed (replication API) and     *)
(* whose packuments (registry API, behind caches) are two systems, the     *)
(* second one behind the first, and an analysis that reads both page by    *)
(* page while packages go on being published and removed.  Revisions are   *)
(* their generation; the tarball of a version is named by the revision     *)
(* that brought it.                                                        *)
(***************************************************************************)
EXTENDS Analysis

CONSTANTS
    Names,           \* the number of packages; 1..Names in the order of _all_docs
    MaxSeq,          \* bound: changes of the registry
    AllDocsPageSize, \* page sizes of the source's configuration
    ChangePageSize

ASSUME NpmAssumption == {Names, MaxSeq, AllDocsPageSize, ChangePageSize} \subseteq Nat \ {0}

VARIABLES
    doc,    \* replication: the last change of each package
    view,   \* registry: the revision and versions it serves, revision 0 for 404
    scan    \* the local variables of Analyze and its workset

registry == <<doc, view, scan>>
nvars == <<anvars, registry>>

Packages == 1..Names
Packument(p) == <<p, 0>>
Tarball(p, v) == <<p, v>>
Never == [seq |-> 0, rev |-> 0, deleted |-> FALSE, versions |-> {}]
NotFound == [rev |-> 0, files |-> {}]
NoScan == [start |-> 0, since |-> 0, target |-> 0, work |-> <<>>, done |-> {}]

NpmInit ==
    /\ AnalysisInit
    /\ doc = [p \in Packages |-> Never]
    /\ view = [p \in Packages |-> NotFound]
    /\ scan = NoScan

UpdateSeq == Max({doc[p].seq : p \in Packages})

-----------------------------------------------------------------------------
(* The registry: a version is published, the packument is changed without  *)
(* one, or the package is removed (and may be published again).  What the  *)
(* registry serves follows at any time.                                    *)
Changed(p, versions, deleted) ==
    /\ UpdateSeq < MaxSeq
    /\ doc' = [doc EXCEPT ![p] = [seq |-> UpdateSeq + 1, rev |-> @.rev + 1,
                                  deleted |-> deleted, versions |-> versions]]
    /\ UNCHANGED <<anvars, view, scan>>

Publish(p) == Changed(p, doc[p].versions \cup {doc[p].rev + 1}, FALSE)
Unpublish(p) ==
    /\ doc[p].seq > 0 /\ ~doc[p].deleted
    /\ Changed(p, {}, TRUE)

Replicate(p) ==
    /\ view' = [view EXCEPT ![p] =
           IF doc[p].deleted THEN NotFound ELSE [rev |-> doc[p].rev, files |-> doc[p].versions]]
    /\ view' # view
    /\ UNCHANGED <<anvars, doc, scan>>

-----------------------------------------------------------------------------
(* applyChanges has nothing to do when it starts at the target. *)
Changes(s) == IF s.since < s.target THEN "changes" ELSE "packages"

(* Analyze: a first synchronisation enumerates _all_docs between two reads *)
(* of update_seq and applies what has changed in between; every other one  *)
(* applies what has changed since the base cursor.                         *)
StartFull ==
    /\ cursor = 0
    /\ Begin(0, "alldocs")
    /\ scan' = [NoScan EXCEPT !.since = UpdateSeq]
    /\ UNCHANGED <<doc, view>>

StartIncremental ==
    LET s == [NoScan EXCEPT !.since = cursor, !.target = UpdateSeq] IN
    /\ cursor # 0
    /\ Begin(UpdateSeq, Changes(s))
    /\ scan' = s
    /\ UNCHANGED <<doc, view>>

(* enumerateAllDocs: a page starts with the last package of the page       *)
(* before, which is passed over.                                           *)
First(S, n) == {i \in S : Cardinality({j \in S : j < i}) < n}
Live == {p \in Packages : doc[p].seq > 0 /\ ~doc[p].deleted}
DocsPage == First({p \in Live : p >= scan.start}, AllDocsPageSize)
NewRows == DocsPage \ {scan.start}
LastDocsPage == NewRows = {} \/ Cardinality(DocsPage) < AllDocsPageSize

PutWork(work, rows) ==
    Put(work, [p \in rows |-> [rev |-> doc[p].rev, deleted |-> doc[p].deleted]])

EnumerateAllDocs ==
    /\ step = "alldocs"
    /\ scan' = [scan EXCEPT !.work = PutWork(@, NewRows),
                            !.start = IF NewRows = {} THEN @ ELSE Max(NewRows)]
    /\ step' = IF LastDocsPage THEN "endroot" ELSE "alldocs"
    /\ UNCHANGED <<adapter, plan, cursor, catalog, doc, view>>

EndRoot ==
    LET s == [scan EXCEPT !.target = UpdateSeq] IN
    /\ step = "endroot"
    /\ scan' = s
    /\ plan' = [plan EXCEPT !.target = UpdateSeq]
    /\ step' = Changes(s)
    /\ UNCHANGED <<adapter, cursor, catalog, doc, view>>

(* applyChanges, a page: the feed has the last change of each package, so  *)
(* a package that has changed again behind the target does not appear in   *)
(* the pages up to it; its row is left for the next synchronisation.       *)
Seqs == {doc[p].seq : p \in Packages}
SeqsPage == First({q \in Seqs : q > scan.since}, ChangePageSize)
LastSeq == IF Cardinality(SeqsPage) < ChangePageSize THEN UpdateSeq ELSE Max(SeqsPage)
Applied == {p \in Packages : doc[p].seq \in SeqsPage /\ doc[p].seq <= scan.target}

ApplyChanges ==
    /\ step = "changes"
    /\ scan' = [scan EXCEPT !.work = PutWork(@, Applied), !.since = LastSeq]
    /\ step' = IF LastSeq >= scan.target THEN "packages" ELSE "changes"
    /\ UNCHANGED <<adapter, plan, cursor, catalog, doc, view>>

-----------------------------------------------------------------------------
(* planPackage: the packument the registry serves must not be older than   *)
(* the change that was listed; otherwise the analysis is given up, to be   *)
(* started again later.                                                    *)
Visible(p) == view[p].rev # 0 \/ scan.work[p].deleted
Current(p) ==
    LET work == scan.work[p]
        page == view[p]
    IN  IF page.rev = 0 THEN work.deleted
        ELSE IF work.deleted THEN page.rev > work.rev ELSE page.rev >= work.rev

(* planDeletedPackage: the packument goes, its tarballs stay. *)
NoDeletion(p) == NoRow
Deletion(p) ==
    IF Packument(p) \in DOMAIN catalog THEN Row(Packument(p), Tombstone) ELSE NoRow

LatestTarball(p) == {v \in view[p].files : v = view[p].rev}
NewTarballs(p) == {v \in view[p].files : NotListed(Tarball(p, v), Blob)}
MetadataChanged(p) == Needed(Packument(p), view[p])
PackumentUpdate(p) ==
    Put(IF MetadataChanged(p) THEN Row(Packument(p), Add(view[p])) ELSE NoRow,
        [path \in {Tarball(p, v) : v \in NewTarballs(p)} |-> Add(Blob)])

PlanUnit(p, artifacts) ==
    IF DOMAIN artifacts = {} THEN plan
    ELSE With(Declared(plan, p, Cardinality(DOMAIN artifacts)), p, artifacts)

Rest == DOMAIN scan.work \ scan.done

PlanPackage ==
    LET p == Min(Rest) IN
    /\ step = "packages"
    /\ Rest # {}
    /\ IF Current(p)
         THEN /\ plan' = PlanUnit(p, IF view[p].rev = 0 THEN Deletion(p) ELSE PackumentUpdate(p))
              /\ scan' = [scan EXCEPT !.done = @ \cup {p}]
              /\ UNCHANGED step
         ELSE Aborted /\ scan' = NoScan
    /\ UNCHANGED <<adapter, cursor, catalog, doc, view>>

CommitNpm ==
    /\ step = "packages"
    /\ Rest = {}
    /\ Commit
    /\ scan' = NoScan
    /\ UNCHANGED <<doc, view>>

ImportNpm == adapter = "npm" /\ Import /\ UNCHANGED <<doc, view, scan>>

AnalyzeNpm ==
    /\ adapter = "npm"
    /\ \/ StartFull \/ StartIncremental
       \/ EnumerateAllDocs \/ EndRoot \/ ApplyChanges
       \/ PlanPackage \/ CommitNpm

NpmNext ==
    \/ adapter = "npm" /\ \E p \in Packages : Publish(p) \/ Unpublish(p) \/ Replicate(p)
    \/ AnalyzeNpm
    \/ ImportNpm

(* The registry serves every change in the end; the operator goes on       *)
(* analysing, and importing what is planned.                               *)
NpmFairness ==
    /\ \A p \in Packages : WF_nvars(adapter = "npm" /\ Replicate(p))
    /\ WF_nvars(AnalyzeNpm)
    /\ SF_nvars(ImportNpm)

-----------------------------------------------------------------------------
MirroredIn(c, p) ==
    IF doc[p].deleted THEN Packument(p) \notin DOMAIN c
    ELSE /\ Packument(p) \in DOMAIN c
         /\ c[Packument(p)] = [rev |-> doc[p].rev, files |-> doc[p].versions]
Mirrored(p) == MirroredIn(catalog, p)

(* The cursor keeps its word: whatever was published while the analysis    *)
(* was reading, a package whose last change is at or before the mirror's   *)
(* cursor is in the mirror as that change has left it, or gone from it.    *)
(* The next synchronisation only looks behind the cursor: what is missed   *)
(* here is missed until the package changes again.                         *)
NpmFollows ==
    adapter = "npm" => \A p \in Packages : doc[p].seq \in 1..cursor => Mirrored(p)

(* Every version a packument in the mirror lists has its tarball there. *)
NpmServable ==
    adapter = "npm" => \A p \in Packages : Packument(p) \in DOMAIN catalog =>
        \A v \in catalog[Packument(p)].files : Tarball(p, v) \in DOMAIN catalog

(* When the registry comes to rest the mirror becomes equal to it, however *)
(* many analyses were given up on the way.                                 *)
NpmCatchesUp == <>[](adapter = "npm" => \A p \in Packages : doc[p].seq > 0 => Mirrored(p))
=============================================================================
