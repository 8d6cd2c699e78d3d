--------------------------------- MODULE Apt ---------------------------------
(***************************************************************************)
(* The APT adapter with releaseMode "inrelease": InRelease freezes the     *)
(* snapshot by the hashes of the indexes, the indexes that are not in the  *)
(* catalog as they are are read and give the pool files.  Everything but   *)
(* the pool is fetched again when the batch is downloaded.  The suite is   *)
(* updated meanwhile, its indexes before its InRelease.  Alternatives in   *)
(* compression and by-hash names of an index are left out.                 *)
(***************************************************************************)
EXTENDS Analysis

CONSTANTS
    Indexes,   \* the Packages and Sources of the suite
    Release    \* the releases of the suite in order: [index -> pool files]

ASSUME AptAssumption ==
    /\ Release \in [DOMAIN Release -> [Indexes -> SUBSET Nat]]
    /\ DOMAIN Release = 1..Cardinality(DOMAIN Release)
    /\ {"InRelease", "pool"} \cap Indexes = {}

VARIABLES
    suite,   \* what upstream serves: [release, index]
    unread   \* indexes the analysis has yet to parse

archive == <<suite, unread>>
avars == <<anvars, archive>>

InRelease == <<"InRelease", 0>>
IndexPath(i) == <<i, 0>>
Pool(n) == <<"pool", n>>
ReleaseFile(k) == [rev |-> k, files |-> {}]
IndexFile(k, i) == [rev |-> 0, files |-> Release[k][i]]

AptInit ==
    /\ AnalysisInit
    /\ suite = [release |-> 1, index |-> Release[1]]
    /\ unread = {}

-----------------------------------------------------------------------------
(* Upstream writes the indexes of the next release, then its InRelease. *)
PushIndex(i) ==
    /\ suite.release + 1 \in DOMAIN Release
    /\ suite.index[i] # Release[suite.release + 1][i]
    /\ suite' = [suite EXCEPT !.index[i] = Release[suite.release + 1][i]]
    /\ UNCHANGED <<anvars, unread>>

PushRelease ==
    /\ suite.release + 1 \in DOMAIN Release
    /\ suite.index = Release[suite.release + 1]
    /\ suite' = [suite EXCEPT !.release = @ + 1]
    /\ UNCHANGED <<anvars, unread>>

-----------------------------------------------------------------------------
(* Analyze: InRelease is read, the unit of the suite is declared without   *)
(* artifacts, InRelease and the files it lists are added where they        *)
(* differ from the catalog, and those of them that are indexes are parsed. *)
Classify(path, content) == Needed(path, content)
NeedsParse(k) == {i \in Indexes : Classify(IndexPath(i), IndexFile(k, i))}
Metadata(k) ==
    Put([path \in {IndexPath(i) : i \in NeedsParse(k)} |->
            Add(IndexFile(k, CHOOSE i \in Indexes : IndexPath(i) = path))],
        IF Classify(InRelease, ReleaseFile(k)) THEN Row(InRelease, Add(ReleaseFile(k))) ELSE NoRow)

StartApt ==
    LET k == suite.release IN
    /\ step = "idle"
    /\ plan' = With(Declared([NoPlan EXCEPT !.status = "PLANNED", !.target = k], "suite", 0),
                    "suite", Metadata(k))
    /\ step' = "indexes"
    /\ unread' = NeedsParse(k)
    /\ UNCHANGED <<adapter, cursor, catalog, suite>>

(* An index is parsed while it is read, and its hash compared at the end. *)
Unchecked(i) == i \in Indexes
Authentic(i) == suite.index[i] = Release[plan.target][i]
PoolFiles(i) ==
    [path \in {Pool(n) : n \in {n \in suite.index[i] : Classify(Pool(n), Blob)}} |-> Add(Blob)]

ParseIndex(i) ==
    /\ step = "indexes"
    /\ i \in unread
    /\ IF Authentic(i)
         THEN /\ plan' = With(plan, "suite", PoolFiles(i))
              /\ unread' = unread \ {i}
              /\ UNCHANGED step
         ELSE Aborted /\ unread' = {}
    /\ UNCHANGED <<adapter, cursor, catalog, suite>>

(* The unit is declared again, with the number of its artifacts. *)
CommitApt ==
    LET count == Cardinality(DOMAIN plan.artifacts) IN
    /\ step = "indexes"
    /\ unread = {}
    /\ IF Declarable(plan, "suite", count) /\ Consistent(Declared(plan, "suite", count))
         THEN plan' = [Declared(plan, "suite", count) EXCEPT !.status = "COMMITTED"] /\ step' = "idle"
         ELSE Aborted
    /\ UNCHANGED <<adapter, cursor, catalog, suite, unread>>

(* Download and import: what is downloaded must be what was planned. *)
StillServed ==
    /\ InRelease \in DOMAIN plan.artifacts => suite.release = plan.target
    /\ \A i \in Indexes : IndexPath(i) \in DOMAIN plan.artifacts => Authentic(i)

ImportApt ==
    /\ adapter = "apt"
    /\ Import
    /\ StillServed
    /\ UNCHANGED <<suite, unread>>

AnalyzeApt ==
    adapter = "apt" /\ (StartApt \/ (\E i \in Indexes : ParseIndex(i)) \/ CommitApt)

PushApt == adapter = "apt" /\ ((\E i \in Indexes : PushIndex(i)) \/ PushRelease)

AptNext ==
    \/ PushApt
    \/ AnalyzeApt
    \/ ImportApt

(* The operator goes on analysing, and downloading and importing plans. *)
AptFairness ==
    /\ WF_avars(PushApt)
    /\ WF_avars(AnalyzeApt)
    /\ SF_avars(ImportApt)

-----------------------------------------------------------------------------
(* The mirror is a snapshot: whenever its indexes change together with its *)
(* InRelease, they are those the InRelease signs, and every pool file they *)
(* list is there, whatever upstream has published between the requests.    *)
SnapshotIsWhole ==
    adapter = "apt" /\ InRelease \in DOMAIN catalog =>
        \A i \in Indexes :
            /\ IndexPath(i) \in DOMAIN catalog
            /\ catalog[IndexPath(i)] = IndexFile(catalog[InRelease].rev, i)
            /\ \A n \in catalog[IndexPath(i)].files : Pool(n) \in DOMAIN catalog

(* When the suite comes to rest the mirror has its last release. *)
AptCatchesUp ==
    <>[](adapter = "apt" => InRelease \in DOMAIN catalog /\ catalog[InRelease] = ReleaseFile(suite.release))
=============================================================================
