-------------------------- MODULE RegistriesProofs --------------------------
(***************************************************************************)
(* The safety properties of the adapters, for every number of packages,    *)
(* projects and releases and every page size the adapter can page with.    *)
(* Each adapter has an inductive invariant of its own, about the plan it   *)
(* is drawing up: the catalog only changes when a whole plan is imported,  *)
(* so what has to be known is what the plan will make of it.               *)
(***************************************************************************)
EXTENDS Registries, FiniteSetTheorems, WellFoundedInduction, TLAPS

Positive == Nat \ {0}
vars == <<anvars, registry, index, archive>>
Planned == DOMAIN plan.artifacts

(* A plan has its four fields, whatever is assigned to one of them. *)
IsPlan(p) ==
    /\ p = [f \in DOMAIN p |-> p[f]]
    /\ DOMAIN p = {"status", "target", "required", "artifacts"}

(* PyPI and APT never take a file away. *)
OnlyAdds(p) == \A path \in DOMAIN p.artifacts : p.artifacts[path].op = "ADD"

-----------------------------------------------------------------------------
(* npm.  The registry: what it serves of a package is a state the package  *)
(* has been in, and its present one when the revisions are equal.          *)
RegistryInv ==
    /\ doc \in [Packages -> [seq : 0..MaxSeq, rev : Nat, deleted : BOOLEAN,
                             versions : SUBSET Positive]]
    /\ view \in [Packages -> [rev : Nat, files : SUBSET Positive]]
    /\ \A p \in Packages :
          /\ doc[p].seq = 0 <=> doc[p].rev = 0
          /\ view[p].rev <= doc[p].rev
          /\ view[p].rev = doc[p].rev /\ view[p].rev # 0 =>
                ~doc[p].deleted /\ view[p].files = doc[p].versions

(* Its feed only grows, and nobody has read more of it than there is. *)
FeedInv ==
    /\ {cursor, scan.since, scan.target, plan.target} \subseteq Nat
    /\ \A n \in {cursor, scan.since, scan.target, plan.target} : n <= UpdateSeq

IsScan(s) ==
    /\ s = [f \in DOMAIN s |-> s[f]]
    /\ DOMAIN s = {"start", "since", "target", "work", "done"}

(* A row of the workset is a state the package has been in. *)
WorkInv ==
    /\ IsScan(scan)
    /\ scan.start \in Nat
    /\ DOMAIN scan.work \subseteq Packages
    /\ scan.done \subseteq DOMAIN scan.work
    /\ \A p \in DOMAIN scan.work :
          /\ scan.work[p].rev \in Positive
          /\ scan.work[p].rev <= doc[p].rev
          /\ scan.work[p].rev = doc[p].rev => scan.work[p].deleted = doc[p].deleted

(* A package is accounted for when the workset has its last change, or     *)
(* does not have it and the mirror is as that change has left it.          *)
FreshRow(p) ==
    /\ p \in DOMAIN scan.work
    /\ scan.work[p].rev = doc[p].rev
    /\ scan.work[p].deleted = doc[p].deleted
Accounted(p) == IF p \in DOMAIN scan.work THEN FreshRow(p) ELSE Mirrored(p)
WillMirror(p) == MirroredIn(Imported(catalog, plan), p)

(* The changes a cursor n speaks for.  A page of _all_docs that holds only *)
(* the row it starts with brings nothing, and ends the enumeration: with   *)
(* pages of one row nothing is promised.                                   *)
Promised(n) == {k \in 1..n : AllDocsPageSize > 1}

(* Where the analysis is, and what it has seen so far of the changes up to *)
(* its target.                                                             *)
AllDocsInv ==
    /\ cursor = 0 /\ plan.target = 0
    /\ Planned = {} /\ scan.done = {}
    /\ \A p \in Packages : doc[p].seq \in Promised(scan.since) =>
          /\ p \in DOMAIN scan.work => FreshRow(p)
          /\ ~doc[p].deleted /\ p <= scan.start => p \in DOMAIN scan.work
EndRootInv ==
    /\ cursor = 0 /\ plan.target = 0
    /\ Planned = {} /\ scan.done = {}
    /\ \A p \in Packages : doc[p].seq \in Promised(scan.since) => Accounted(p)
ChangesInv ==
    /\ plan.target = scan.target
    /\ scan.target > 0 /\ cursor <= scan.target
    /\ Planned = {} /\ scan.done = {}
    /\ \A p \in Packages :
          doc[p].seq \in Promised(scan.since) /\ doc[p].seq <= scan.target => Accounted(p)
PackagesInv ==
    /\ plan.target = scan.target
    /\ cursor <= scan.target
    /\ DOMAIN scan.work # {} => scan.target > 0
    /\ \A path \in Planned : path[1] \in scan.done
    /\ \A p \in Packages : doc[p].seq \in Promised(scan.target) =>
          Accounted(p) /\ (p \in scan.done => WillMirror(p))
CommittedInv ==
    /\ cursor <= plan.target
    /\ Planned # {} => plan.target > 0
    /\ \A p \in Packages : doc[p].seq \in Promised(plan.target) => WillMirror(p)

AnalysisInv ==
    /\ step \in {"idle", "alldocs", "endroot", "changes", "packages"}
    /\ step = "alldocs" => AllDocsInv
    /\ step = "endroot" => EndRootInv
    /\ step = "changes" => ChangesInv
    /\ step = "packages" => PackagesInv
    /\ step = "idle" /\ plan.status = "COMMITTED" => CommittedInv

(* The mirror, and what the plan brings: the tarballs of a packument come  *)
(* with it unless they are there, and no tarball is ever taken away.       *)
MirrorInv ==
    /\ cursor = 0 => DOMAIN catalog = {}
    /\ \A p \in Packages : doc[p].seq \in Promised(cursor) => Mirrored(p)
    /\ \A p \in Packages : Packument(p) \in DOMAIN catalog =>
          \A v \in catalog[Packument(p)].files :
              v \in Positive /\ Tarball(p, v) \in DOMAIN catalog
PlannedInv ==
    /\ \A path \in Planned :
          /\ path \in Packages \X Nat
          /\ plan.artifacts[path].op = "DELETE" => path[2] = 0
    /\ \A p \in Packages :
          Packument(p) \in Planned /\ plan.artifacts[Packument(p)].op # "DELETE" =>
              \A v \in plan.artifacts[Packument(p)].content.files :
                  v \in Positive /\ Tarball(p, v) \in DOMAIN catalog \cup Planned

NpmInv ==
    /\ RegistryInv /\ FeedInv /\ WorkInv
    /\ AnalysisInv /\ MirrorInv /\ PlannedInv

-----------------------------------------------------------------------------
(* PyPI.  What the index and its cache have is what has been uploaded, and *)
(* a page is planned with those of its files the mirror does not have.     *)
PagesOf(c) == \A p \in AllProjects : PageOf(p) \in DOMAIN c =>
                  \A n \in c[PageOf(p)].files : FileOf(p, n) \in DOMAIN c
PypiInv ==
    /\ serial \in Nat /\ todo \subseteq AllProjects
    /\ DOMAIN project = AllProjects /\ DOMAIN cached = AllProjects
    /\ project = [p \in AllProjects |-> project[p]]
    /\ cached = [p \in AllProjects |-> cached[p]]
    /\ \A p \in AllProjects :
          project[p].page.files \subseteq Positive /\ cached[p].files \subseteq Positive
    /\ OnlyAdds(plan)
    /\ PagesOf(catalog)
    /\ PagesOf(Imported(catalog, plan))

-----------------------------------------------------------------------------
(* APT.  The plan of a suite is a release: what of it the plan does not    *)
(* have is in the catalog already.                                         *)
AptMirrorInv ==
    /\ InRelease \in DOMAIN catalog =>
          \A i \in Indexes : /\ IndexPath(i) \in DOMAIN catalog
                             /\ catalog[IndexPath(i)] = IndexFile(catalog[InRelease].rev, i)
    /\ \A i \in Indexes : IndexPath(i) \in DOMAIN catalog =>
          \A n \in catalog[IndexPath(i)].files : Pool(n) \in DOMAIN catalog
SnapshotInv ==
    LET after == Imported(catalog, plan) IN
    /\ InRelease \in DOMAIN after
    /\ after[InRelease] = ReleaseFile(plan.target)
    /\ \A i \in Indexes :
          /\ IndexPath(i) \in DOMAIN after
          /\ after[IndexPath(i)] = IndexFile(plan.target, i)
          /\ i \notin unread => \A n \in Release[plan.target][i] : Pool(n) \in DOMAIN after
AptInv ==
    /\ OnlyAdds(plan)
    /\ AptMirrorInv
    /\ step \in {"idle", "indexes"}
    /\ step = "indexes" \/ plan.status = "COMMITTED" => SnapshotInv
    /\ step = "idle" => unread = {}

-----------------------------------------------------------------------------
RegistriesInv ==
    /\ IsPlan(plan)
    /\ adapter = "npm" => NpmInv
    /\ adapter = "pypi" => PypiInv
    /\ adapter = "apt" => AptInv
-----------------------------------------------------------------------------
(* Sets of naturals, and pages of them. *)
(* A set of naturals has a least element. *)
LEMMA LeastElement ==
    ASSUME NEW T, T \subseteq Nat, T # {}
    PROVE  \E x \in T : \A y \in T : x <= y
<1>1. IsWellFoundedOn(OpToRel(<, Nat), Nat)
  BY NatLessThanWellFounded, Zenon
<1>2. PICK x \in T : \A y \in T : ~(<<y, x>> \in OpToRel(<, Nat))
  BY <1>1, WFMin, Zenon
<1>3. \A y \in T : ~(y < x)
  BY <1>2 DEF OpToRel
<1> QED BY <1>3

(* Min and Max of a set of naturals, the second of a bounded one. *)
LEMMA LeastIsMin ==
    ASSUME NEW T, T \subseteq Nat, T # {}
    PROVE  Min(T) \in T /\ \A y \in T : Min(T) <= y
BY LeastElement DEF Min

LEMMA GreatestIsMax ==
    ASSUME NEW T, T \subseteq Nat, T # {}, NEW b \in Nat, \A x \in T : x <= b
    PROVE  Max(T) \in T /\ \A y \in T : y <= Max(T)
<1> DEFINE U == {u \in Nat : \A x \in T : x <= u}
<1>1. PICK u \in U : \A y \in U : u <= y
  BY LeastElement
<1>2. u \in T
  <2> SUFFICES ASSUME u \notin T PROVE FALSE
    OBVIOUS
  <2>1. \A x \in T : x \in Nat /\ x < u
    BY <1>1
  <2>2. u \in Nat /\ u > 0
    <3>1. PICK x \in T : x \in Nat /\ x < u
      BY <2>1
    <3> QED BY <3>1, <1>1
  <2>3. \A x \in T : x <= u - 1
    BY <2>1, <2>2
  <2>4. u - 1 \in U
    BY <2>2, <2>3
  <2> QED BY <2>2, <2>4, <1>1
<1>3. \E x \in T : \A y \in T : x >= y
  BY <1>1, <1>2
<1> HIDE DEF U
<1> QED BY <1>3 DEF Max

(* A page (First): what comes before a row of the page is on the page.      *)
LEMMA FirstClosed ==
    ASSUME NEW S, S \subseteq Nat, IsFiniteSet(S), NEW n \in Nat,
           NEW i \in First(S, n), NEW j \in S, j <= i
    PROVE  j \in First(S, n)
<1> DEFINE below(k) == {x \in S : x < k}
<1>1. i \in S /\ Cardinality(below(i)) < n
  BY DEF First
<1>2. below(i) \subseteq S /\ below(j) \subseteq below(i)
  <2> SUFFICES ASSUME NEW x \in S, x < j PROVE x < i
    OBVIOUS
  <2>1. x \in Nat /\ i \in Nat /\ j \in Nat
    BY <1>1
  <2> QED BY <2>1
<1>3. IsFiniteSet(below(i))
  BY <1>2, FS_Subset
<1>4. IsFiniteSet(below(j)) /\ Cardinality(below(j)) <= Cardinality(below(i))
  BY <1>2, <1>3, FS_Subset
<1>5. Cardinality(below(j)) \in Nat /\ Cardinality(below(i)) \in Nat
  BY <1>3, <1>4, FS_CardinalityType
<1>6. Cardinality(below(j)) < n
  BY <1>1, <1>4, <1>5
<1> QED BY <1>6 DEF First

(* A page that is not full is the last: it has everything there is.        *)
LEMMA FirstShort ==
    ASSUME NEW S, S \subseteq Nat, IsFiniteSet(S), NEW n \in Nat,
           Cardinality(First(S, n)) < n
    PROVE  First(S, n) = S
<1> SUFFICES ASSUME First(S, n) # S PROVE FALSE
  OBVIOUS
<1> DEFINE below(k) == {x \in S : x < k}
<1>1. First(S, n) \subseteq S
  BY DEF First
<1>2. PICK m \in S \ First(S, n) : \A y \in S \ First(S, n) : m <= y
  BY <1>1, LeastElement
<1>3. below(m) \subseteq First(S, n)
  <2> SUFFICES ASSUME NEW x \in S, x < m, x \notin First(S, n) PROVE FALSE
    OBVIOUS
  <2> QED BY <1>2
<1>4. IsFiniteSet(First(S, n)) /\ IsFiniteSet(below(m))
  BY <1>1, FS_Subset
<1>5. Cardinality(below(m)) <= Cardinality(First(S, n))
  BY <1>3, <1>4, FS_Subset
<1>6. Cardinality(below(m)) \in Nat /\ Cardinality(First(S, n)) \in Nat
  BY <1>4, FS_CardinalityType
<1>7. Cardinality(below(m)) < n
  BY <1>5, <1>6
<1> QED BY <1>2, <1>7 DEF First

-----------------------------------------------------------------------------
(* What the operators of Analysis do to a plan and to a catalog. *)
(* PutArtifact leaves the other artifacts as they are. *)
LEMMA WithPuts ==
    ASSUME NEW p, IsPlan(p), NEW unit, NEW arts
    PROVE  LET q == With(p, unit, arts) IN
           /\ IsPlan(q) /\ q.status = p.status /\ q.target = p.target
           /\ DOMAIN q.artifacts = DOMAIN arts \cup DOMAIN p.artifacts
           /\ \A path \in DOMAIN arts : /\ q.artifacts[path].op = arts[path].op
                                        /\ q.artifacts[path].content = arts[path].content
           /\ \A path \in DOMAIN p.artifacts \ DOMAIN arts :
                  q.artifacts[path] = p.artifacts[path]
BY DEF With, IsPlan, Put

(* PutPublishUnit leaves the artifacts as they are. *)
LEMMA DeclaredPuts ==
    ASSUME NEW p, IsPlan(p), NEW unit, NEW n
    PROVE  LET q == Declared(p, unit, n) IN
           /\ IsPlan(q) /\ q.status = p.status /\ q.target = p.target
           /\ q.artifacts = p.artifacts
BY DEF Declared, IsPlan

LEMMA StatusPuts ==
    ASSUME NEW p, IsPlan(p), NEW s
    PROVE  LET q == [p EXCEPT !.status = s] IN
           /\ IsPlan(q) /\ q.status = s /\ q.target = p.target
           /\ q.artifacts = p.artifacts
BY DEF IsPlan

LEMMA TargetPuts ==
    ASSUME NEW p, IsPlan(p), NEW t
    PROVE  LET q == [p EXCEPT !.target = t] IN
           /\ IsPlan(q) /\ q.status = p.status /\ q.target = t
           /\ q.artifacts = p.artifacts
BY DEF IsPlan

LEMMA NoPlanIs ==
    /\ IsPlan(NoPlan) /\ NoPlan.status = "none" /\ NoPlan.target = 0
    /\ DOMAIN NoPlan.artifacts = {} /\ OnlyAdds(NoPlan)
BY DEF NoPlan, IsPlan, OnlyAdds

(* Begin opens an empty plan. *)
LEMMA Opened ==
    ASSUME NEW t
    PROVE  LET q == [NoPlan EXCEPT !.status = "PLANNED", !.target = t] IN
           /\ IsPlan(q) /\ q.status = "PLANNED" /\ q.target = t
           /\ DOMAIN q.artifacts = {}
<1> DEFINE s == [NoPlan EXCEPT !.status = "PLANNED"]
<1>1. IsPlan(s) /\ s.status = "PLANNED" /\ DOMAIN s.artifacts = {}
  BY NoPlanIs, StatusPuts
<1> HIDE DEF s
<1> DEFINE q == [s EXCEPT !.target = t]
<1>2. IsPlan(q) /\ q.status = "PLANNED" /\ q.target = t /\ DOMAIN q.artifacts = {}
  BY <1>1, TargetPuts
<1>3. q = [NoPlan EXCEPT !.status = "PLANNED", !.target = t]
  BY DEF s
<1> HIDE DEF q
<1> QED BY <1>2, <1>3

LEMMA ImportedHas ==
    ASSUME NEW c, NEW p, NEW path
    PROVE  /\ path \in DOMAIN Imported(c, p) <=>
                  \/ path \in DOMAIN p.artifacts /\ p.artifacts[path].op # "DELETE"
                  \/ path \notin DOMAIN p.artifacts /\ path \in DOMAIN c
           /\ path \in DOMAIN Imported(c, p) =>
                  Imported(c, p)[path] = IF path \in DOMAIN p.artifacts
                                           THEN p.artifacts[path].content ELSE c[path]
BY DEF Imported, Tombstones

LEMMA AddIs == \A content : Add(content).op = "ADD" /\ Add(content).content = content
BY DEF Add

-----------------------------------------------------------------------------
(* APT. *)
(* The paths of a suite are told apart by what they are. *)
LEMMA AptPaths ==
    /\ \A i \in Indexes : IndexPath(i) # InRelease
    /\ \A i \in Indexes, j \in Indexes : IndexPath(i) = IndexPath(j) => i = j
    /\ \A i \in Indexes : \A n : IndexPath(i) # Pool(n)
    /\ \A n : Pool(n) # InRelease
BY AptAssumption DEF IndexPath, InRelease, Pool

(* StartApt plans the files of a release that differ from the catalog. *)
LEMMA MetadataIs ==
    ASSUME NEW k
    PROVE  /\ \A path \in DOMAIN Metadata(k) : Metadata(k)[path].op = "ADD"
           /\ InRelease \in DOMAIN Metadata(k) <=> Classify(InRelease, ReleaseFile(k))
           /\ InRelease \in DOMAIN Metadata(k) =>
                  Metadata(k)[InRelease].content = ReleaseFile(k)
           /\ \A i \in Indexes :
                 /\ IndexPath(i) \in DOMAIN Metadata(k) <=> i \in NeedsParse(k)
                 /\ i \in NeedsParse(k) =>
                       Metadata(k)[IndexPath(i)].content = IndexFile(k, i)
<1> DEFINE need == {IndexPath(i) : i \in NeedsParse(k)}
           of(path) == CHOOSE i \in Indexes : IndexPath(i) = path
           rel == IF Classify(InRelease, ReleaseFile(k)) THEN Row(InRelease, Add(ReleaseFile(k))) ELSE NoRow
           rows == [path \in need |-> Add(IndexFile(k, of(path)))]
<1>1. Metadata(k) = Put(rows, rel)
  BY DEF Metadata
<1>2. DOMAIN rel = IF Classify(InRelease, ReleaseFile(k)) THEN {InRelease} ELSE {}
  BY DEF Row, NoRow
<1>3. Classify(InRelease, ReleaseFile(k)) => rel[InRelease] = Add(ReleaseFile(k))
  BY DEF Row
<1>4. \A i \in NeedsParse(k) : i \in Indexes /\ of(IndexPath(i)) = i
  BY AptPaths DEF NeedsParse
<1>5. InRelease \notin need
  BY <1>4, AptPaths
<1>6. \A i \in Indexes : IndexPath(i) \in need <=> i \in NeedsParse(k)
  BY <1>4, AptPaths
<1>7. DOMAIN Metadata(k) = DOMAIN rel \cup need
  BY <1>1 DEF Put
<1>8. \A path \in DOMAIN Metadata(k) :
          Metadata(k)[path] = IF path \in DOMAIN rel THEN rel[path] ELSE Add(IndexFile(k, of(path)))
  BY <1>1, <1>7 DEF Put
<1>9. \A i \in NeedsParse(k) : /\ IndexPath(i) \in DOMAIN Metadata(k)
                               /\ Metadata(k)[IndexPath(i)] = Add(IndexFile(k, i))
  BY <1>2, <1>4, <1>6, <1>7, <1>8, AptPaths
<1> HIDE DEF need, of, rel, rows
<1>10. InRelease \in DOMAIN Metadata(k) => Metadata(k)[InRelease] = Add(ReleaseFile(k))
  BY <1>2, <1>3, <1>5, <1>7, <1>8
<1>11. \A path \in DOMAIN Metadata(k) : Metadata(k)[path].op = "ADD"
  BY <1>2, <1>3, <1>8, AddIs
<1> QED BY <1>2, <1>5, <1>6, <1>7, <1>9, <1>10, <1>11, AptPaths, AddIs

(* A plan without tombstones: what was in the catalog or is planned will   *)
(* be in the catalog.                                                      *)
LEMMA KeepsAll ==
    ASSUME NEW c, NEW p, OnlyAdds(p)
    PROVE  /\ DOMAIN Imported(c, p) = DOMAIN c \cup DOMAIN p.artifacts
           /\ \A path \in DOMAIN p.artifacts : Imported(c, p)[path] = p.artifacts[path].content
           /\ \A path \in DOMAIN c \ DOMAIN p.artifacts : Imported(c, p)[path] = c[path]
<1>1. \A path : path \notin Tombstones(p)
  BY DEF OnlyAdds, Tombstones
<1>2. Imported(c, p) = [path \in DOMAIN c \cup DOMAIN p.artifacts |->
          IF path \in DOMAIN p.artifacts THEN p.artifacts[path].content ELSE c[path]]
  BY <1>1 DEF Imported
<1> HIDE DEF Imported
<1> QED BY <1>2

LEMMA StartAptKeeps ==
    ASSUME IsPlan(plan), AptInv, StartApt
    PROVE  IsPlan(plan') /\ AptInv'
<1> DEFINE k == suite.release
           opened == [NoPlan EXCEPT !.status = "PLANNED", !.target = k]
           declared == Declared(opened, "suite", 0)
<1>1. /\ plan' = With(declared, "suite", Metadata(k))
      /\ step' = "indexes" /\ unread' = NeedsParse(k)
      /\ catalog' = catalog
  BY DEF StartApt
<1>2. IsPlan(opened) /\ DOMAIN opened.artifacts = {} /\ opened.target = k
  BY Opened
<1> HIDE DEF opened
<1>3. IsPlan(declared)
  BY <1>2, DeclaredPuts
<1>b. DOMAIN declared.artifacts = {} /\ declared.target = k
  BY <1>2, DeclaredPuts
<1> HIDE DEF declared, k
<1>4. /\ IsPlan(plan') /\ plan'.target = k
      /\ DOMAIN plan'.artifacts = DOMAIN Metadata(k)
      /\ \A path \in DOMAIN Metadata(k) :
            /\ plan'.artifacts[path].op = Metadata(k)[path].op
            /\ plan'.artifacts[path].content = Metadata(k)[path].content
  <2>1. /\ IsPlan(plan') /\ plan'.target = declared.target
        /\ DOMAIN plan'.artifacts = DOMAIN Metadata(k) \cup DOMAIN declared.artifacts
        /\ \A path \in DOMAIN Metadata(k) :
              /\ plan'.artifacts[path].op = Metadata(k)[path].op
              /\ plan'.artifacts[path].content = Metadata(k)[path].content
    BY <1>1, <1>3, WithPuts
  <2> QED BY <2>1, <1>b
<1>5. OnlyAdds(plan')
  BY <1>4, MetadataIs DEF OnlyAdds
<1> DEFINE after == Imported(catalog, plan')
<1>a. /\ DOMAIN after = DOMAIN catalog \cup DOMAIN plan'.artifacts
      /\ \A path \in DOMAIN plan'.artifacts : after[path] = plan'.artifacts[path].content
      /\ \A path \in DOMAIN catalog \ DOMAIN plan'.artifacts : after[path] = catalog[path]
  BY <1>5, KeepsAll
<1> HIDE DEF after
<1>6. /\ DOMAIN after = DOMAIN catalog \cup DOMAIN Metadata(k)
      /\ \A path \in DOMAIN Metadata(k) : after[path] = Metadata(k)[path].content
      /\ \A path \in DOMAIN catalog \ DOMAIN Metadata(k) : after[path] = catalog[path]
  BY <1>4, <1>a
<1>7. InRelease \in DOMAIN after /\ after[InRelease] = ReleaseFile(k)
  BY <1>6, MetadataIs DEF Classify, Needed
<1>8. ASSUME NEW i \in Indexes
      PROVE  /\ IndexPath(i) \in DOMAIN after
             /\ after[IndexPath(i)] = IndexFile(k, i)
             /\ i \notin NeedsParse(k) => \A n \in Release[k][i] : Pool(n) \in DOMAIN after
  <2>1. CASE i \in NeedsParse(k)
    BY <2>1, <1>6, MetadataIs
  <2>2. CASE i \notin NeedsParse(k)
    <3>1. IndexPath(i) \in DOMAIN catalog /\ catalog[IndexPath(i)] = IndexFile(k, i)
      BY <2>2 DEF NeedsParse, Classify, Needed
    <3>2. IndexPath(i) \notin DOMAIN Metadata(k)
      BY <2>2, MetadataIs
    <3>3. \A n \in Release[k][i] : Pool(n) \in DOMAIN catalog
      BY <3>1 DEF AptInv, AptMirrorInv, IndexFile
    <3> QED BY <3>1, <3>2, <3>3, <1>6
  <2> QED BY <2>1, <2>2
<1>9. SnapshotInv'
  BY <1>1, <1>4, <1>7, <1>8 DEF SnapshotInv, after
<1>10. AptMirrorInv'
  BY <1>1 DEF AptInv, AptMirrorInv
<1> QED BY <1>1, <1>4, <1>5, <1>9, <1>10 DEF AptInv

LEMMA ParseIndexKeeps ==
    ASSUME IsPlan(plan), AptInv, NEW i \in Indexes, ParseIndex(i)
    PROVE  IsPlan(plan') /\ AptInv'
<1>1. /\ step = "indexes" /\ SnapshotInv /\ catalog' = catalog
      /\ AptMirrorInv'
  BY DEF ParseIndex, AptInv, AptMirrorInv
<1>2. CASE Authentic(i)
  <2> DEFINE files == PoolFiles(i)
             after == Imported(catalog, plan)
             next == Imported(catalog, plan')
  <2>1. plan' = With(plan, "suite", files) /\ unread' = unread \ {i} /\ step' = step
    BY <1>2 DEF ParseIndex
  <2>2. /\ \A path \in DOMAIN files : /\ files[path].op = "ADD"
                                      /\ \E n : path = Pool(n)
        /\ \A n \in Release[plan.target][i] : Pool(n) \in DOMAIN catalog \/ Pool(n) \in DOMAIN files
    BY <1>2, AddIs DEF PoolFiles, Authentic, Classify, Needed
  <2> HIDE DEF files
  <2>3. /\ IsPlan(plan') /\ plan'.target = plan.target
        /\ DOMAIN plan'.artifacts = DOMAIN files \cup Planned
        /\ \A path \in DOMAIN files : plan'.artifacts[path].op = files[path].op
        /\ \A path \in Planned \ DOMAIN files : plan'.artifacts[path] = plan.artifacts[path]
    BY <2>1, WithPuts DEF Planned
  <2>4. OnlyAdds(plan) /\ OnlyAdds(plan')
    BY <2>2, <2>3 DEF AptInv, Planned, OnlyAdds
  <2>a. /\ DOMAIN after = DOMAIN catalog \cup Planned
        /\ \A path \in Planned : after[path] = plan.artifacts[path].content
        /\ \A path \in DOMAIN catalog \ Planned : after[path] = catalog[path]
    BY <2>4, KeepsAll DEF Planned
  <2>b. /\ DOMAIN next = DOMAIN catalog \cup DOMAIN plan'.artifacts
        /\ \A path \in DOMAIN plan'.artifacts : next[path] = plan'.artifacts[path].content
        /\ \A path \in DOMAIN catalog \ DOMAIN plan'.artifacts : next[path] = catalog[path]
    BY <2>4, KeepsAll
  <2> HIDE DEF after, next
  <2>5. DOMAIN next = DOMAIN after \cup DOMAIN files
    BY <2>3, <2>a, <2>b
  <2>6. \A path \in DOMAIN after : (\A n : path # Pool(n)) => next[path] = after[path]
    BY <2>2, <2>3, <2>a, <2>b
  <2>7. DOMAIN catalog \subseteq DOMAIN after
    BY <2>a
  <2>8. /\ InRelease \in DOMAIN after /\ after[InRelease] = ReleaseFile(plan.target)
        /\ \A j \in Indexes :
              /\ IndexPath(j) \in DOMAIN after
              /\ after[IndexPath(j)] = IndexFile(plan.target, j)
              /\ j \notin unread => \A n \in Release[plan.target][j] : Pool(n) \in DOMAIN after
    BY <1>1 DEF SnapshotInv, after
  <2>9. InRelease \in DOMAIN next /\ next[InRelease] = ReleaseFile(plan.target)
    BY <2>5, <2>6, <2>8, AptPaths
  <2>10. ASSUME NEW j \in Indexes
         PROVE  /\ IndexPath(j) \in DOMAIN next
                /\ next[IndexPath(j)] = IndexFile(plan.target, j)
                /\ j \notin unread' => \A n \in Release[plan.target][j] : Pool(n) \in DOMAIN next
    BY <2>1, <2>2, <2>5, <2>6, <2>7, <2>8, AptPaths
  <2>11. SnapshotInv'
    BY <1>1, <2>3, <2>9, <2>10 DEF SnapshotInv, next
  <2> QED BY <1>1, <2>1, <2>3, <2>4, <2>11 DEF AptInv
<1>3. CASE ~Authentic(i)
  <2>1. /\ plan' = [plan EXCEPT !.status = "FAILED"]
        /\ step' = "idle" /\ unread' = {}
    BY <1>3 DEF ParseIndex, Aborted
  <2>2. IsPlan(plan') /\ plan'.status = "FAILED" /\ plan'.artifacts = plan.artifacts
    BY <2>1, StatusPuts
  <2>3. OnlyAdds(plan')
    BY <2>2 DEF AptInv, OnlyAdds
  <2> QED BY <1>1, <2>1, <2>2, <2>3 DEF AptInv
<1> QED BY <1>2, <1>3

LEMMA CommitAptKeeps ==
    ASSUME IsPlan(plan), AptInv, CommitApt
    PROVE  IsPlan(plan') /\ AptInv'
<1>1. /\ step = "indexes" /\ SnapshotInv /\ catalog' = catalog /\ unread' = unread
      /\ unread = {} /\ step' = "idle"
      /\ AptMirrorInv'
  BY DEF CommitApt, Aborted, AptInv, AptMirrorInv
<1>2. IsPlan(plan') /\ plan'.target = plan.target /\ plan'.artifacts = plan.artifacts
  <2> DEFINE n == Cardinality(DOMAIN plan.artifacts)
             d == Declared(plan, "suite", n)
  <2>1. IsPlan(d) /\ d.target = plan.target /\ d.artifacts = plan.artifacts
    BY DeclaredPuts
  <2>2. \/ plan' = [d EXCEPT !.status = "COMMITTED"]
        \/ plan' = [plan EXCEPT !.status = "FAILED"]
    BY DEF CommitApt, Aborted
  <2> HIDE DEF d
  <2>3. CASE plan' = [d EXCEPT !.status = "COMMITTED"]
    BY <2>1, <2>3, StatusPuts
  <2>4. CASE plan' = [plan EXCEPT !.status = "FAILED"]
    BY <2>4, StatusPuts
  <2> QED BY <2>2, <2>3, <2>4
<1>3. Imported(catalog, plan') = Imported(catalog, plan) /\ OnlyAdds(plan')
  BY <1>2 DEF AptInv, Imported, Tombstones, OnlyAdds
<1>4. SnapshotInv'
  BY <1>1, <1>2, <1>3 DEF SnapshotInv
<1> QED BY <1>1, <1>2, <1>3, <1>4 DEF AptInv

LEMMA ImportAptKeeps ==
    ASSUME IsPlan(plan), AptInv, ImportApt
    PROVE  IsPlan(plan') /\ AptInv'
<1> DEFINE after == Imported(catalog, plan)
<1>1. /\ step = "idle" /\ step' = "idle" /\ plan.status = "COMMITTED"
      /\ catalog' = after /\ plan' = NoPlan /\ unread' = unread
  BY DEF ImportApt, Import
<1>2. unread = {} /\ SnapshotInv
  BY <1>1 DEF AptInv
<1> HIDE DEF after
<1>3. /\ InRelease \in DOMAIN after /\ after[InRelease] = ReleaseFile(plan.target)
      /\ \A i \in Indexes :
            /\ IndexPath(i) \in DOMAIN after
            /\ after[IndexPath(i)] = IndexFile(plan.target, i)
            /\ \A n \in Release[plan.target][i] : Pool(n) \in DOMAIN after
  BY <1>2 DEF SnapshotInv, after
<1>4. after[InRelease].rev = plan.target
  BY <1>3 DEF ReleaseFile
<1>5. \A i \in Indexes : IndexFile(plan.target, i).files = Release[plan.target][i]
  BY DEF IndexFile
<1>6. AptMirrorInv'
  BY <1>1, <1>3, <1>4, <1>5 DEF AptMirrorInv, IndexFile
<1> QED BY <1>1, <1>2, <1>6, NoPlanIs DEF AptInv

(* A step of a source with the APT adapter keeps the invariant. *)
LEMMA AptStep ==
    ASSUME adapter = "apt", IsPlan(plan), AptInv, AptNext
    PROVE  IsPlan(plan') /\ AptInv'
<1>1. CASE PushApt
  <2>1. UNCHANGED <<anvars, unread>>
    BY <1>1 DEF PushApt, PushIndex, PushRelease
  <2> QED BY <2>1 DEF anvars, AptInv, AptMirrorInv, SnapshotInv
<1>2. CASE AnalyzeApt
  BY <1>2, StartAptKeeps, ParseIndexKeeps, CommitAptKeeps DEF AnalyzeApt
<1>3. CASE ImportApt
  BY <1>3, ImportAptKeeps
<1> QED BY <1>1, <1>2, <1>3 DEF AptNext

-----------------------------------------------------------------------------
(* PyPI. *)
LEMMA PypiPaths ==
    /\ \A p, q : PageOf(p) = PageOf(q) => p = q
    /\ \A p, q : \A n \in Positive : PageOf(p) # FileOf(q, n)
BY DEF PageOf, FileOf, Positive

(* PlanProject plans the page, if it has changed, and the files the        *)
(* catalog does not have.                                                  *)
LEMMA PageUpdateIs ==
    ASSUME NEW p, NEW page, page.files \subseteq Positive
    PROVE  LET rows == PageUpdate(p, page) IN
           /\ \A path \in DOMAIN rows : rows[path].op = "ADD"
           /\ PageOf(p) \in DOMAIN rows => rows[PageOf(p)].content = page
           /\ \A q : PageOf(q) \in DOMAIN rows => q = p
           /\ \A n \in page.files : FileOf(p, n) \in DOMAIN catalog \cup DOMAIN rows
<1> DEFINE need == {FileOf(p, n) : n \in NewFiles(p, page)}
           one == IF Needed(PageOf(p), page) THEN Row(PageOf(p), Add(page)) ELSE NoRow
           rows == PageUpdate(p, page)
<1>1. rows = Put(one, [path \in need |-> Add(Blob)])
  BY DEF PageUpdate
<1>2. DOMAIN one = IF Needed(PageOf(p), page) THEN {PageOf(p)} ELSE {}
  BY DEF Row, NoRow
<1>3. Needed(PageOf(p), page) => one[PageOf(p)] = Add(page)
  BY DEF Row
<1>4. \A q : PageOf(q) \notin need
  BY PypiPaths DEF NewFiles
<1>5. \A n \in page.files : FileOf(p, n) \in DOMAIN catalog \cup need
  BY DEF NewFiles, Needed
<1> HIDE DEF need, one, rows
<1>6. /\ DOMAIN rows = need \cup DOMAIN one
      /\ \A path \in DOMAIN rows :
            rows[path] = IF path \in need THEN Add(Blob) ELSE one[path]
  BY <1>1 DEF Put
<1>7. \A path \in DOMAIN rows : rows[path].op = "ADD"
  BY <1>2, <1>3, <1>6, AddIs
<1>8. PageOf(p) \in DOMAIN rows => rows[PageOf(p)].content = page
  BY <1>2, <1>3, <1>4, <1>6, AddIs
<1>9. \A q : PageOf(q) \in DOMAIN rows => q = p
  BY <1>2, <1>4, <1>6, PypiPaths
<1> QED BY <1>5, <1>6, <1>7, <1>8, <1>9 DEF rows

(* A plan without artifacts leaves the catalog as it is. *)
LEMMA NothingPlanned ==
    ASSUME NEW c, NEW p, OnlyAdds(p), \A path : path \notin DOMAIN p.artifacts, PagesOf(c)
    PROVE  PagesOf(Imported(c, p))
<1>1. /\ DOMAIN Imported(c, p) = DOMAIN c \cup DOMAIN p.artifacts
      /\ \A path \in DOMAIN c \ DOMAIN p.artifacts : Imported(c, p)[path] = c[path]
  BY KeepsAll
<1> QED BY <1>1 DEF PagesOf

LEMMA PlanProjectKeeps ==
    ASSUME IsPlan(plan), PypiInv, PlanProject
    PROVE  IsPlan(plan') /\ PypiInv'
<1> DEFINE p == Min(todo)
           page == cached[p]
           arts == PageUpdate(p, page)
           count == Cardinality(DOMAIN arts)
           opened == Declared(plan, p, 0)
           put == With(opened, p, arts)
<1>1. /\ p \in AllProjects /\ page.files \subseteq Positive
      /\ catalog' = catalog /\ UNCHANGED <<serial, project, cached>>
      /\ todo' \subseteq AllProjects
  <2>1. AllProjects \subseteq Nat
    BY PypiAssumption DEF AllProjects
  <2>2. p \in todo
    BY <2>1, LeastIsMin DEF PlanProject, PypiInv
  <2> QED BY <2>2 DEF PlanProject, PypiInv, Aborted
<1>2. CASE plan' = Declared(put, p, count)
  <2>1. IsPlan(opened) /\ opened.artifacts = plan.artifacts
    BY DeclaredPuts
  <2> HIDE DEF opened, count, page, p
  <2>2. /\ \A path \in DOMAIN arts : arts[path].op = "ADD"
        /\ PageOf(p) \in DOMAIN arts => arts[PageOf(p)].content = page
        /\ \A q : PageOf(q) \in DOMAIN arts => q = p
        /\ \A n \in page.files : FileOf(p, n) \in DOMAIN catalog \cup DOMAIN arts
    BY <1>1, PageUpdateIs
  <2> HIDE DEF arts
  <2>3. /\ IsPlan(put)
        /\ DOMAIN put.artifacts = DOMAIN arts \cup DOMAIN opened.artifacts
        /\ \A path \in DOMAIN arts : /\ put.artifacts[path].op = arts[path].op
                                     /\ put.artifacts[path].content = arts[path].content
        /\ \A path \in DOMAIN opened.artifacts \ DOMAIN arts :
               put.artifacts[path] = opened.artifacts[path]
    BY <2>1, WithPuts
  <2> HIDE DEF put
  <2>4. IsPlan(plan') /\ plan'.artifacts = put.artifacts
    BY <1>2, <2>3, DeclaredPuts
  <2>5. OnlyAdds(plan) /\ OnlyAdds(plan')
    BY <2>1, <2>2, <2>3, <2>4 DEF OnlyAdds, PypiInv
  <2> DEFINE after == Imported(catalog, plan)
             next == Imported(catalog, plan')
  <2>6. /\ DOMAIN after = DOMAIN catalog \cup DOMAIN plan.artifacts
        /\ \A path \in DOMAIN plan.artifacts : after[path] = plan.artifacts[path].content
        /\ \A path \in DOMAIN catalog \ DOMAIN plan.artifacts : after[path] = catalog[path]
    BY <2>5, KeepsAll
  <2>7. /\ DOMAIN next = DOMAIN catalog \cup DOMAIN plan'.artifacts
        /\ \A path \in DOMAIN plan'.artifacts : next[path] = plan'.artifacts[path].content
        /\ \A path \in DOMAIN catalog \ DOMAIN plan'.artifacts : next[path] = catalog[path]
    BY <2>5, KeepsAll
  <2>8. PagesOf(after)
    BY DEF PypiInv
  <2> HIDE DEF after, next
  <2>9. /\ DOMAIN next = DOMAIN after \cup DOMAIN arts
        /\ \A path \in DOMAIN arts : next[path] = arts[path].content
        /\ \A path \in DOMAIN after \ DOMAIN arts : next[path] = after[path]
    BY <2>1, <2>3, <2>4, <2>6, <2>7
  <2>10. PagesOf(next)
    <3> SUFFICES ASSUME NEW q \in AllProjects, PageOf(q) \in DOMAIN next,
                        NEW n \in next[PageOf(q)].files
                 PROVE  FileOf(q, n) \in DOMAIN next
      BY DEF PagesOf
    <3>1. CASE PageOf(q) \in DOMAIN arts
      <4>1. q = p /\ next[PageOf(q)] = page
        BY <2>2, <2>9, <3>1
      <4>2. FileOf(q, n) \in DOMAIN catalog \cup DOMAIN arts
        BY <2>2, <4>1
      <4> QED BY <2>6, <2>9, <4>2
    <3>2. CASE PageOf(q) \notin DOMAIN arts
      <4>1. PageOf(q) \in DOMAIN after /\ next[PageOf(q)] = after[PageOf(q)]
        BY <2>9, <3>2
      <4>2. FileOf(q, n) \in DOMAIN after
        BY <2>8, <4>1 DEF PagesOf
      <4> QED BY <2>9, <4>2
    <3> QED BY <3>1, <3>2
  <2>11. PagesOf(catalog')
    BY <1>1 DEF PypiInv
  <2>12. PagesOf(Imported(catalog, plan)') /\ OnlyAdds(plan)'
    BY <1>1, <2>5, <2>10 DEF next
  <2> QED BY <1>1, <2>4, <2>11, <2>12 DEF PypiInv
<1>3. CASE plan' = [plan EXCEPT !.status = "FAILED"]
  <2>1. IsPlan(plan') /\ plan'.artifacts = plan.artifacts
    BY <1>3, StatusPuts
  <2>2. Imported(catalog, plan)' = Imported(catalog, plan) /\ OnlyAdds(plan')
    BY <1>1, <2>1 DEF PypiInv, Imported, Tombstones, OnlyAdds
  <2> QED BY <1>1, <2>1, <2>2 DEF PypiInv
<1> QED BY <1>2, <1>3 DEF PlanProject, Aborted

LEMMA IndexChangeKeeps ==
    ASSUME IsPlan(plan), PypiInv, NEW p \in AllProjects,
           UploadFile(p) \/ Remove(p) \/ Refresh(p)
    PROVE  IsPlan(plan') /\ PypiInv'
<1>1. UNCHANGED <<anvars, todo>>
  BY DEF UploadFile, Remove, Refresh
<1>2. PagesOf(catalog') /\ PagesOf(Imported(catalog, plan)') /\ OnlyAdds(plan') /\ IsPlan(plan')
  BY <1>1 DEF anvars, PypiInv
<1>3. /\ serial' \in Nat
      /\ DOMAIN project' = AllProjects /\ DOMAIN cached' = AllProjects
      /\ project' = [q \in AllProjects |-> project'[q]]
      /\ cached' = [q \in AllProjects |-> cached'[q]]
      /\ \A q \in AllProjects :
            project'[q].page.files \subseteq Positive /\ cached'[q].files \subseteq Positive
  <2>1. CASE UploadFile(p)
    <3>1. PICK files \in {project[p].page.files \cup {serial'}, {serial'}} :
              project' = [project EXCEPT ![p] =
                  [serial |-> serial', page |-> [rev |-> serial', files |-> files]]]
      BY <2>1 DEF UploadFile
    <3>2. serial' = serial + 1 /\ cached' = cached /\ serial' \in Positive
      BY <2>1 DEF UploadFile, PypiInv, Positive
    <3>3. files \subseteq Positive
      BY <3>1, <3>2 DEF PypiInv
    <3> QED BY <3>1, <3>2, <3>3 DEF PypiInv, Positive
  <2>2. CASE Remove(p)
    <3>1. /\ project' = [project EXCEPT ![p] = [serial |-> 0, page |-> NoPage]]
          /\ cached' = [cached EXCEPT ![p] = NoPage]
          /\ serial' = serial + 1
      BY <2>2 DEF Remove
    <3>2. NoPage.files \subseteq Positive
      BY DEF NoPage, Blob
    <3>3. project'[p].page = NoPage /\ cached'[p] = NoPage
      BY <3>1 DEF PypiInv
    <3>4. \A q \in AllProjects \ {p} : project'[q] = project[q] /\ cached'[q] = cached[q]
      BY <3>1 DEF PypiInv
    <3>5. \A q \in AllProjects :
              project'[q].page.files \subseteq Positive /\ cached'[q].files \subseteq Positive
      BY <3>2, <3>3, <3>4 DEF PypiInv
    <3>6. /\ DOMAIN project' = AllProjects
          /\ project' = [q \in AllProjects |-> project'[q]]
      BY <3>1 DEF PypiInv
    <3>7. /\ DOMAIN cached' = AllProjects
          /\ cached' = [q \in AllProjects |-> cached'[q]]
      BY <3>1 DEF PypiInv
    <3>8. serial' \in Nat
      BY <3>1 DEF PypiInv
    <3> QED BY <3>5, <3>6, <3>7, <3>8
  <2>3. CASE Refresh(p)
    BY <2>3 DEF Refresh, PypiInv
  <2> QED BY <2>1, <2>2, <2>3
<1> QED BY <1>1, <1>2, <1>3 DEF PypiInv

LEMMA StartPypiKeeps ==
    ASSUME IsPlan(plan), PypiInv, StartPypi
    PROVE  IsPlan(plan') /\ PypiInv'
<1>1. /\ UNCHANGED <<catalog, serial, project, cached>>
      /\ todo' \subseteq AllProjects
      /\ plan' = [NoPlan EXCEPT !.status = "PLANNED", !.target = serial]
  BY DEF StartPypi, Begin, ChangedSince
<1>2. IsPlan(plan') /\ \A path : path \notin DOMAIN plan'.artifacts
  BY <1>1, Opened
<1>3. OnlyAdds(plan')
  BY <1>2 DEF OnlyAdds
<1>4. PagesOf(Imported(catalog, plan'))
  BY <1>2, <1>3, NothingPlanned DEF PypiInv
<1> QED BY <1>1, <1>2, <1>3, <1>4 DEF PypiInv

LEMMA CommitPypiKeeps ==
    ASSUME IsPlan(plan), PypiInv, CommitPypi
    PROVE  IsPlan(plan') /\ PypiInv'
<1>1. /\ UNCHANGED <<catalog, serial, project, cached, todo>>
      /\ \E s : plan' = [plan EXCEPT !.status = s]
  BY DEF CommitPypi, Commit, Aborted
<1>2. IsPlan(plan') /\ plan'.artifacts = plan.artifacts
  <2>1. PICK s : plan' = [plan EXCEPT !.status = s]
    BY <1>1
  <2> QED BY <2>1, StatusPuts
<1>3. Imported(catalog, plan)' = Imported(catalog, plan)
  BY <1>1, <1>2 DEF Imported, Tombstones
<1>4. OnlyAdds(plan')
  BY <1>2 DEF PypiInv, OnlyAdds
<1> QED BY <1>1, <1>2, <1>3, <1>4 DEF PypiInv

LEMMA ImportPypiKeeps ==
    ASSUME IsPlan(plan), PypiInv, ImportPypi
    PROVE  IsPlan(plan') /\ PypiInv'
<1>1. /\ UNCHANGED <<serial, project, cached, todo>>
      /\ catalog' = Imported(catalog, plan) /\ plan' = NoPlan
  BY DEF ImportPypi, Import
<1>2. PagesOf(catalog')
  BY <1>1 DEF PypiInv
<1>3. \A path : path \notin DOMAIN plan'.artifacts
  BY <1>1, NoPlanIs
<1>4. IsPlan(plan') /\ OnlyAdds(plan')
  BY <1>1, NoPlanIs
<1>5. PagesOf(Imported(catalog', plan'))
  BY <1>2, <1>3, <1>4, NothingPlanned
<1> QED BY <1>1, <1>2, <1>4, <1>5 DEF PypiInv

(* A step of a source with the PyPI adapter keeps the invariant. *)
LEMMA PypiStep ==
    ASSUME adapter = "pypi", IsPlan(plan), PypiInv, PypiNext
    PROVE  IsPlan(plan') /\ PypiInv'
BY IndexChangeKeeps, StartPypiKeeps, PlanProjectKeeps, CommitPypiKeeps, ImportPypiKeeps
   DEF PypiNext, AnalyzePypi

-----------------------------------------------------------------------------
(* npm. *)
LEMMA NpmConstants ==
    /\ Names \in Positive /\ MaxSeq \in Positive
    /\ AllDocsPageSize \in Positive /\ ChangePageSize \in Positive
    /\ Packages \subseteq Nat /\ IsFiniteSet(Packages) /\ 1 \in Packages
<1>1. /\ Names \in Positive /\ MaxSeq \in Positive
      /\ AllDocsPageSize \in Positive /\ ChangePageSize \in Positive
  BY NpmAssumption DEF Positive
<1> QED BY <1>1, FS_Interval DEF Packages, Positive

LEMMA NpmPaths ==
    /\ \A p, q : Packument(p) = Packument(q) => p = q
    /\ \A p, q : \A v \in Positive : Packument(p) # Tarball(q, v)
    /\ \A p : Packument(p)[1] = p /\ Packument(p)[2] = 0
    /\ \A p, v : Tarball(p, v)[1] = p /\ Tarball(p, v)[2] = v
    /\ \A p \in Packages : Packument(p) \in Packages \X Nat
    /\ \A p \in Packages : \A v \in Positive : Tarball(p, v) \in Packages \X Nat
BY DEF Packument, Tarball, Positive

(* update_seq is the last change of a package. *)
LEMMA LastChange ==
    ASSUME NEW d, \A p \in Packages : d[p].seq \in 0..MaxSeq
    PROVE  LET last == Max({d[p].seq : p \in Packages}) IN
           /\ last \in Nat
           /\ \A p \in Packages : d[p].seq \in Nat /\ d[p].seq <= last
<1> DEFINE seqs == {d[p].seq : p \in Packages}
<1>1. seqs \subseteq Nat /\ \A n \in seqs : n <= MaxSeq
  OBVIOUS
<1>2. seqs # {} /\ MaxSeq \in Nat
  BY NpmConstants DEF Positive
<1>3. Max(seqs) \in seqs /\ \A n \in seqs : n <= Max(seqs)
  BY <1>1, <1>2, GreatestIsMax
<1> QED BY <1>1, <1>3

LEMMA UpdateSeqIs ==
    ASSUME RegistryInv
    PROVE  /\ UpdateSeq \in Nat
           /\ \A p \in Packages : doc[p].seq \in Nat /\ doc[p].seq <= UpdateSeq
<1>1. \A p \in Packages : doc[p].seq \in 0..MaxSeq
  BY DEF RegistryInv
<1> QED BY <1>1, LastChange DEF UpdateSeq

(* A put in the workset: the rows are the last changes of the packages. *)
LEMMA PutWorkIs ==
    ASSUME NEW work, NEW rows
    PROVE  /\ DOMAIN PutWork(work, rows) = rows \cup DOMAIN work
           /\ \A p \in rows : /\ PutWork(work, rows)[p].rev = doc[p].rev
                              /\ PutWork(work, rows)[p].deleted = doc[p].deleted
           /\ \A p \in DOMAIN work \ rows : PutWork(work, rows)[p] = work[p]
BY DEF PutWork, Put

(* Which change of a package is its last does not matter to who has only   *)
(* read what came before it.                                               *)
LEMMA ChangedKeeps ==
    ASSUME IsPlan(plan), NpmInv, NEW p \in Packages, Publish(p) \/ Unpublish(p)
    PROVE  IsPlan(plan') /\ NpmInv'
<1>1. PICK versions \in SUBSET Positive, deleted \in BOOLEAN :
          /\ Changed(p, versions, deleted)
  <2>1. doc[p].rev + 1 \in Positive /\ doc[p].versions \subseteq Positive
    BY DEF NpmInv, RegistryInv, Positive
  <2> QED BY <2>1 DEF Publish, Unpublish
<1>2. /\ UNCHANGED <<anvars, view, scan>> /\ UpdateSeq < MaxSeq
      /\ doc' = [doc EXCEPT ![p] = [seq |-> UpdateSeq + 1, rev |-> doc[p].rev + 1,
                                    deleted |-> deleted, versions |-> versions]]
  BY <1>1 DEF Changed
<1>3. /\ RegistryInv /\ FeedInv /\ WorkInv
      /\ AnalysisInv /\ MirrorInv /\ PlannedInv
  BY DEF NpmInv
<1>4. /\ UpdateSeq \in Nat
      /\ \A q \in Packages : doc[q].seq \in Nat /\ doc[q].seq <= UpdateSeq
  BY <1>3, UpdateSeqIs
<1>5. /\ doc'[p].seq = UpdateSeq + 1 /\ doc'[p].rev = doc[p].rev + 1
      /\ \A q \in Packages \ {p} : doc'[q] = doc[q]
      /\ doc[p].rev \in Nat
  BY <1>2, <1>3 DEF RegistryInv
<1>6. RegistryInv'
  <2>1. doc' \in [Packages -> [seq : 0..MaxSeq, rev : Nat, deleted : BOOLEAN,
                               versions : SUBSET Positive]]
    <3>1. MaxSeq \in Nat
      BY NpmConstants DEF Positive
    <3>2. UpdateSeq + 1 \in 0..MaxSeq /\ doc[p].rev + 1 \in Nat
      BY <1>2, <1>4, <1>5, <3>1
    <3> QED BY <1>2, <1>3, <3>2 DEF RegistryInv
  <2>2. view' = view /\ view[p].rev \in Nat /\ view[p].rev <= doc[p].rev
    BY <1>2, <1>3 DEF RegistryInv
  <2>3. view[p].rev < doc'[p].rev /\ doc'[p].seq # 0 /\ doc'[p].rev # 0
    BY <1>4, <1>5, <2>2
  <2>4. \A q \in Packages :
            /\ doc'[q].seq = 0 <=> doc'[q].rev = 0
            /\ view[q].rev <= doc'[q].rev
            /\ view[q].rev = doc'[q].rev /\ view[q].rev # 0 =>
                  ~doc'[q].deleted /\ view[q].files = doc'[q].versions
    BY <1>3, <1>5, <2>2, <2>3 DEF RegistryInv
  <2> QED BY <1>3, <2>1, <2>2, <2>4 DEF RegistryInv
<1>7. UpdateSeq' \in Nat /\ UpdateSeq <= UpdateSeq'
  <2>1. \A q \in Packages : doc'[q].seq \in 0..MaxSeq
    BY <1>6 DEF RegistryInv
  <2>2. UpdateSeq' \in Nat /\ doc'[p].seq <= UpdateSeq'
    BY <2>1, LastChange DEF UpdateSeq
  <2> QED BY <1>4, <1>5, <2>2
<1>8. FeedInv'
  BY <1>2, <1>3, <1>4, <1>7 DEF FeedInv, anvars
<1>9. WorkInv'
  <2>1. \A q \in DOMAIN scan.work :
           /\ scan.work[q].rev \in Positive
           /\ scan.work[q].rev <= doc'[q].rev
           /\ scan.work[q].rev = doc'[q].rev => scan.work[q].deleted = doc'[q].deleted
    <3> TAKE q \in DOMAIN scan.work
    <3>1. /\ q \in Packages /\ scan.work[q].rev \in Nat /\ doc[q].rev \in Nat
          /\ scan.work[q].rev \in Positive
          /\ scan.work[q].rev <= doc[q].rev
          /\ scan.work[q].rev = doc[q].rev => scan.work[q].deleted = doc[q].deleted
      BY <1>3 DEF WorkInv, RegistryInv, Positive
    <3>2. CASE q = p
      BY <1>5, <3>1, <3>2
    <3>3. CASE q # p
      BY <1>5, <3>1, <3>3
    <3> QED BY <3>2, <3>3
  <2> QED BY <1>2, <1>3, <2>1 DEF WorkInv
<1>10. \A n \in {cursor, scan.since, scan.target, plan.target} : \A q \in Packages :
          doc'[q].seq \in Promised(n) => doc'[q] = doc[q]
  BY <1>3, <1>4, <1>5 DEF FeedInv, Promised
<1>11. UNCHANGED <<adapter, step, plan, cursor, catalog, scan>>
  BY <1>2 DEF anvars
<1>12. MirrorInv' /\ PlannedInv'
  BY <1>3, <1>10, <1>11 DEF MirrorInv, PlannedInv, Planned, Mirrored, MirroredIn
<1>13. AllDocsInv => AllDocsInv'
  BY <1>10, <1>11 DEF AllDocsInv, FreshRow, Planned
<1>14. EndRootInv => EndRootInv'
  BY <1>10, <1>11 DEF EndRootInv, Accounted, FreshRow, Mirrored, MirroredIn, Planned
<1>15. ChangesInv => ChangesInv'
  BY <1>10, <1>11 DEF ChangesInv, Accounted, FreshRow, Mirrored, MirroredIn, Planned
<1>16. PackagesInv => PackagesInv'
  BY <1>10, <1>11 DEF PackagesInv, Accounted, FreshRow, Mirrored, MirroredIn, Planned, WillMirror
<1>17. CommittedInv => CommittedInv'
  BY <1>10, <1>11 DEF CommittedInv, MirroredIn, Planned, WillMirror
<1>18. AnalysisInv'
  BY <1>3, <1>11, <1>13, <1>14, <1>15, <1>16, <1>17 DEF AnalysisInv
<1> QED BY <1>6, <1>8, <1>9, <1>11, <1>12, <1>18 DEF NpmInv

(* What the registry serves of a package follows its last change. *)
LEMMA ReplicateKeeps ==
    ASSUME IsPlan(plan), NpmInv, NEW p \in Packages, Replicate(p)
    PROVE  IsPlan(plan') /\ NpmInv'
<1>1. /\ UNCHANGED <<anvars, doc, scan>>
      /\ view' = [view EXCEPT ![p] =
             IF doc[p].deleted THEN NotFound ELSE [rev |-> doc[p].rev, files |-> doc[p].versions]]
  BY DEF Replicate
<1>2. RegistryInv
  BY DEF NpmInv
<1>3. /\ doc[p].rev \in Nat /\ doc[p].versions \in SUBSET Positive
      /\ NotFound \in [rev : Nat, files : SUBSET Positive]
      /\ NotFound.rev = 0
  BY <1>2 DEF RegistryInv, NotFound
<1> DEFINE now == IF doc[p].deleted THEN NotFound ELSE [rev |-> doc[p].rev, files |-> doc[p].versions]
<1>4. /\ now \in [rev : Nat, files : SUBSET Positive]
      /\ now.rev <= doc[p].rev
      /\ now.rev = doc[p].rev /\ now.rev # 0 => ~doc[p].deleted /\ now.files = doc[p].versions
  BY <1>3
<1> HIDE DEF now
<1>5. view' \in [Packages -> [rev : Nat, files : SUBSET Positive]]
  BY <1>1, <1>2, <1>4 DEF RegistryInv, now
<1>6. view'[p] = now /\ \A q \in Packages \ {p} : view'[q] = view[q]
  BY <1>1, <1>2 DEF RegistryInv, now
<1>7. RegistryInv'
  BY <1>1, <1>2, <1>4, <1>5, <1>6 DEF RegistryInv
<1>8. /\ FeedInv' /\ WorkInv' /\ AnalysisInv' /\ MirrorInv' /\ PlannedInv' /\ IsPlan(plan')
  BY <1>1 DEF NpmInv, anvars, FeedInv, UpdateSeq, WorkInv, AnalysisInv, AllDocsInv, EndRootInv,
              ChangesInv, PackagesInv, CommittedInv, MirrorInv, PlannedInv, Planned,
              Mirrored, MirroredIn, WillMirror, Accounted, FreshRow
<1> QED BY <1>7, <1>8 DEF NpmInv

-----------------------------------------------------------------------------
(* The local variables of Analyze at its start, and an assignment to one.  *)
LEMMA NoScanIs ==
    /\ IsScan(NoScan) /\ NoScan.start = 0 /\ NoScan.since = 0 /\ NoScan.target = 0
    /\ NoScan.done = {} /\ \A p : p \notin DOMAIN NoScan.work
BY DEF NoScan, IsScan

LEMMA ScanPuts ==
    ASSUME NEW s, IsScan(s), NEW n
    PROVE  /\ LET t == [s EXCEPT !.since = n] IN
              /\ IsScan(t) /\ t.since = n /\ t.start = s.start /\ t.target = s.target
              /\ t.work = s.work /\ t.done = s.done
           /\ LET t == [s EXCEPT !.target = n] IN
              /\ IsScan(t) /\ t.target = n /\ t.start = s.start /\ t.since = s.since
              /\ t.work = s.work /\ t.done = s.done
BY DEF IsScan

LEMMA FullOpened ==
    ASSUME NEW a
    PROVE  LET s == [NoScan EXCEPT !.since = a] IN
           /\ IsScan(s) /\ s.since = a /\ s.start = 0 /\ s.target = 0
           /\ s.done = {} /\ \A p : p \notin DOMAIN s.work
<1> DEFINE s == [NoScan EXCEPT !.since = a]
<1>1. IsScan(NoScan)
  BY NoScanIs
<1>2. /\ IsScan(s) /\ s.since = a /\ s.start = NoScan.start /\ s.target = NoScan.target
      /\ s.work = NoScan.work /\ s.done = NoScan.done
  BY <1>1, ScanPuts
<1> HIDE DEF s
<1>3. /\ IsScan(s) /\ s.since = a /\ s.start = 0 /\ s.target = 0
      /\ s.done = {} /\ \A p : p \notin DOMAIN s.work
  BY <1>2, NoScanIs
<1> QED BY <1>3 DEF s

LEMMA IncrementalOpened ==
    ASSUME NEW a, NEW b
    PROVE  LET t == [NoScan EXCEPT !.since = a, !.target = b] IN
           /\ IsScan(t) /\ t.since = a /\ t.start = 0 /\ t.target = b
           /\ t.done = {} /\ \A p : p \notin DOMAIN t.work
<1> DEFINE s == [NoScan EXCEPT !.since = a]
           t == [s EXCEPT !.target = b]
<1>1. /\ s.since = a /\ s.start = 0
      /\ s.done = {} /\ \A p : p \notin DOMAIN s.work
  BY FullOpened
<1>2. t = [NoScan EXCEPT !.since = a, !.target = b]
  OBVIOUS
<1>3. IsScan(s)
  BY FullOpened
<1> HIDE DEF s
<1>4. /\ IsScan(t) /\ t.target = b /\ t.start = s.start /\ t.since = s.since
      /\ t.work = s.work /\ t.done = s.done
  BY <1>3, ScanPuts
<1> HIDE DEF t
<1>5. /\ IsScan(t) /\ t.since = a /\ t.start = 0 /\ t.target = b
      /\ t.done = {} /\ \A p : p \notin DOMAIN t.work
  BY <1>1, <1>4
<1> QED BY <1>2, <1>5 DEF s

(* A step of the analysis that leaves the registry alone.  What it has to  *)
(* show is what the analysis has seen, and that the plan stays servable.   *)
LEMMA AnalysisKeeps ==
    ASSUME NpmInv, UNCHANGED <<doc, view, cursor, catalog>>,
           WorkInv', AnalysisInv', PlannedInv',
           \A n \in {scan'.since, scan'.target, plan'.target} : n \in Nat /\ n <= UpdateSeq
    PROVE  NpmInv'
<1>1. RegistryInv'
  BY DEF NpmInv, RegistryInv
<1>2. MirrorInv'
  BY DEF NpmInv, MirrorInv, Mirrored, MirroredIn
<1>3. FeedInv'
  BY DEF NpmInv, FeedInv, UpdateSeq
<1> QED BY <1>1, <1>2, <1>3 DEF NpmInv

LEMMA StartFullKeeps ==
    ASSUME NpmInv, StartFull
    PROVE  IsPlan(plan') /\ NpmInv'
<1>1. /\ UNCHANGED <<doc, view, cursor, catalog>> /\ cursor = 0 /\ step' = "alldocs"
      /\ plan' = [NoPlan EXCEPT !.status = "PLANNED", !.target = 0]
      /\ scan' = [NoScan EXCEPT !.since = UpdateSeq]
  BY DEF StartFull, Begin
<1>2. /\ IsPlan(plan') /\ plan'.target = 0
  BY <1>1, Opened
<1>3. DOMAIN plan'.artifacts = {}
  BY <1>1, Opened
<1>4. /\ IsScan(scan') /\ scan'.start = 0 /\ scan'.since = UpdateSeq /\ scan'.target = 0
      /\ \A p : p \notin DOMAIN scan'.work
      /\ scan'.done = {}
  BY <1>1, FullOpened
<1>5. UpdateSeq \in Nat
  BY UpdateSeqIs DEF NpmInv
<1>6. WorkInv'
  BY <1>4 DEF WorkInv
<1>7. PlannedInv'
  BY <1>3 DEF PlannedInv, Planned
<1>8. AllDocsInv'
  <2>1. \A p \in Packages : ~(p <= 0)
    BY DEF Packages
  <2> QED BY <1>1, <1>2, <1>3, <1>4, <2>1 DEF AllDocsInv, Planned
<1>9. AnalysisInv'
  BY <1>1, <1>8 DEF AnalysisInv
<1> QED BY <1>1, <1>2, <1>4, <1>5, <1>6, <1>7, <1>9, AnalysisKeeps

LEMMA StartIncrementalKeeps ==
    ASSUME NpmInv, StartIncremental
    PROVE  IsPlan(plan') /\ NpmInv'
<1>1. /\ UNCHANGED <<doc, view, cursor, catalog>> /\ cursor # 0
      /\ plan' = [NoPlan EXCEPT !.status = "PLANNED", !.target = UpdateSeq]
      /\ scan' = [NoScan EXCEPT !.since = cursor, !.target = UpdateSeq]
      /\ step' = Changes(scan')
  BY DEF StartIncremental, Begin
<1>2. /\ IsPlan(plan') /\ plan'.target = UpdateSeq
  BY <1>1, Opened
<1>3. DOMAIN plan'.artifacts = {}
  BY <1>1, Opened
<1>4. /\ IsScan(scan') /\ scan'.start = 0 /\ scan'.since = cursor /\ scan'.target = UpdateSeq
      /\ \A p : p \notin DOMAIN scan'.work
      /\ scan'.done = {}
  <2> DEFINE t == [NoScan EXCEPT !.since = cursor, !.target = UpdateSeq]
  <2>1. /\ IsScan(t) /\ t.since = cursor /\ t.start = 0 /\ t.target = UpdateSeq
        /\ t.done = {} /\ \A p : p \notin DOMAIN t.work
    BY IncrementalOpened
  <2>2. scan' = t
    BY <1>1
  <2> HIDE DEF t
  <2> QED BY <2>1, <2>2
<1>5. /\ UpdateSeq \in Nat /\ cursor \in Nat /\ cursor <= UpdateSeq
      /\ \A p \in Packages : doc[p].seq \in Nat
  BY UpdateSeqIs DEF NpmInv, FeedInv
<1>6. WorkInv'
  BY <1>4 DEF WorkInv
<1>7. PlannedInv'
  BY <1>3 DEF PlannedInv, Planned
<1>8. \A p \in Packages : doc'[p].seq \in Promised(cursor) => Accounted(p)'
  BY <1>1, <1>4 DEF NpmInv, MirrorInv, Accounted, Mirrored, MirroredIn
<1>9. CASE cursor < UpdateSeq
  <2>1. step' = "changes"
    BY <1>1, <1>4, <1>9 DEF Changes
  <2>2. ChangesInv'
    BY <1>1, <1>2, <1>3, <1>4, <1>5, <1>8, <1>9 DEF ChangesInv, Planned
  <2>3. AnalysisInv'
    BY <2>1, <2>2 DEF AnalysisInv
  <2> QED BY <1>1, <1>2, <1>4, <1>5, <1>6, <1>7, <2>3, AnalysisKeeps
<1>10. CASE ~(cursor < UpdateSeq)
  <2>1. step' = "packages" /\ cursor = UpdateSeq
    BY <1>1, <1>4, <1>5, <1>10 DEF Changes
  <2>2. PackagesInv'
    BY <1>1, <1>2, <1>3, <1>4, <1>5, <1>8, <2>1 DEF PackagesInv, Planned
  <2>3. AnalysisInv'
    BY <2>1, <2>2 DEF AnalysisInv
  <2> QED BY <1>1, <1>2, <1>4, <1>5, <1>6, <1>7, <2>3, AnalysisKeeps
<1> QED BY <1>9, <1>10

(* The rows of a page go into the workset as they are. *)
LEMMA RowsKeep ==
    ASSUME NpmInv, doc' = doc,
           NEW rows, rows \subseteq Packages, \A p \in rows : doc[p].seq > 0,
           IsScan(scan'), scan'.work = PutWork(scan.work, rows), scan'.done = scan.done,
           scan'.start \in Nat
    PROVE  /\ WorkInv'
           /\ DOMAIN scan'.work = rows \cup DOMAIN scan.work
           /\ \A p \in rows : FreshRow(p)'
           /\ \A p \in DOMAIN scan.work : FreshRow(p) => FreshRow(p)'
<1>1. WorkInv /\ RegistryInv
  BY DEF NpmInv
<1>2. /\ DOMAIN scan'.work = rows \cup DOMAIN scan.work
      /\ \A p \in rows : /\ scan'.work[p].rev = doc[p].rev
                         /\ scan'.work[p].deleted = doc[p].deleted
      /\ \A p \in DOMAIN scan.work \ rows : scan'.work[p] = scan.work[p]
  <2> DEFINE w == PutWork(scan.work, rows)
  <2>1. /\ DOMAIN w = rows \cup DOMAIN scan.work
        /\ \A p \in rows : w[p].rev = doc[p].rev /\ w[p].deleted = doc[p].deleted
        /\ \A p \in DOMAIN scan.work \ rows : w[p] = scan.work[p]
    BY PutWorkIs
  <2>2. scan'.work = w
    OBVIOUS
  <2> HIDE DEF w
  <2> QED BY <2>1, <2>2
<1>3. \A p \in rows : doc[p].rev \in Positive
  BY <1>1 DEF RegistryInv, Positive
<1>4. \A p \in DOMAIN scan'.work :
          /\ scan'.work[p].rev \in Positive
          /\ scan'.work[p].rev <= doc[p].rev
          /\ scan'.work[p].rev = doc[p].rev => scan'.work[p].deleted = doc[p].deleted
  <2> TAKE p \in DOMAIN scan'.work
  <2>1. CASE p \in rows
    BY <1>2, <1>3, <2>1 DEF Positive
  <2>2. CASE p \notin rows
    BY <1>1, <1>2, <2>2 DEF WorkInv
  <2> QED BY <2>1, <2>2
<1>5. WorkInv'
  BY <1>1, <1>2, <1>4 DEF WorkInv
<1> QED BY <1>2, <1>5 DEF FreshRow

LEMMA EnumerateKeeps ==
    ASSUME IsPlan(plan), NpmInv, EnumerateAllDocs
    PROVE  IsPlan(plan') /\ NpmInv'
<1> DEFINE S == {p \in Live : p >= scan.start}
           next == IF NewRows = {} THEN scan.start ELSE Max(NewRows)
<1>1. /\ UNCHANGED <<doc, view, cursor, catalog, plan>> /\ step = "alldocs"
      /\ scan' = [scan EXCEPT !.work = PutWork(scan.work, NewRows), !.start = next]
      /\ step' = IF LastDocsPage THEN "endroot" ELSE "alldocs"
  BY DEF EnumerateAllDocs
<1>2. /\ RegistryInv /\ FeedInv /\ WorkInv /\ MirrorInv /\ PlannedInv
      /\ AllDocsInv
  BY <1>1 DEF NpmInv, AnalysisInv
<1>3. /\ IsScan(scan) /\ scan.start \in Nat
  BY <1>2 DEF WorkInv
<1>4. /\ Live \subseteq Packages /\ S \subseteq Nat /\ IsFiniteSet(S)
      /\ DocsPage = First(S, AllDocsPageSize) /\ AllDocsPageSize \in Positive
      /\ \A p \in Live : doc[p].seq > 0 /\ ~doc[p].deleted
  <2>1. Live \subseteq Packages /\ S \subseteq Packages
    BY DEF Live
  <2>2. IsFiniteSet(S) /\ S \subseteq Nat
    BY <2>1, NpmConstants, FS_Subset
  <2>3. \A p \in Live : doc[p].seq > 0 /\ ~doc[p].deleted
    BY DEF Live
  <2> QED BY <2>1, <2>2, <2>3, NpmConstants DEF DocsPage
<1>5. DocsPage \subseteq S /\ NewRows \subseteq S /\ NewRows = DocsPage \ {scan.start}
  BY <1>4 DEF First, NewRows
<1>6. next \in Nat /\ \A q \in S : scan.start < q /\ q <= next => q \in NewRows
  <2>1. CASE NewRows = {}
    BY <1>3, <1>4, <2>1
  <2>2. CASE NewRows # {}
    <3>1. \A q \in NewRows : q <= Names
      BY <1>4, <1>5 DEF Packages
    <3>2. next \in NewRows
      BY <1>4, <1>5, <2>2, <3>1, NpmConstants, GreatestIsMax DEF Positive
    <3>3. next \in First(S, AllDocsPageSize)
      BY <1>4, <1>5, <3>2
    <3>4. \A q \in S : q <= next => q \in DocsPage
      BY <1>4, <3>3, FirstClosed DEF Positive
    <3> QED BY <1>3, <1>4, <1>5, <3>2, <3>4
  <2> QED BY <2>1, <2>2
<1> HIDE DEF next
<1>7. /\ IsScan(scan') /\ scan'.work = PutWork(scan.work, NewRows) /\ scan'.start = next
      /\ scan'.since = scan.since /\ scan'.target = scan.target /\ scan'.done = scan.done
  <2> DEFINE w == PutWork(scan.work, NewRows)
             t == [scan EXCEPT !.work = w, !.start = next]
  <2> HIDE DEF w
  <2>1. /\ IsScan(t) /\ t.work = w /\ t.start = next /\ t.since = scan.since
        /\ t.target = scan.target /\ t.done = scan.done
    BY <1>3 DEF IsScan
  <2>2. scan' = t
    BY <1>1 DEF w
  <2> HIDE DEF t
  <2> QED BY <2>1, <2>2 DEF w
<1>8. /\ WorkInv'
      /\ DOMAIN scan'.work = NewRows \cup DOMAIN scan.work
      /\ \A p \in NewRows : FreshRow(p)'
      /\ \A p \in DOMAIN scan.work : FreshRow(p) => FreshRow(p)'
  <2>1. NewRows \subseteq Packages /\ \A p \in NewRows : doc[p].seq > 0
    BY <1>4, <1>5
  <2> QED BY <1>1, <1>6, <1>7, <2>1, RowsKeep
<1>9. \A p \in Packages : doc[p].seq \in Promised(scan.since) =>
          /\ p \in DOMAIN scan'.work => FreshRow(p)'
          /\ ~doc[p].deleted /\ p <= next => p \in DOMAIN scan'.work
  <2> SUFFICES ASSUME NEW p \in Packages, doc[p].seq \in Promised(scan.since)
               PROVE  /\ p \in DOMAIN scan'.work => FreshRow(p)'
                      /\ ~doc[p].deleted /\ p <= next => p \in DOMAIN scan'.work
    OBVIOUS
  <2>1. p \in DOMAIN scan'.work => FreshRow(p)'
    BY <1>2, <1>8 DEF AllDocsInv
  <2>2. ASSUME ~doc[p].deleted, p <= next PROVE p \in DOMAIN scan'.work
    <3>1. CASE p <= scan.start
      BY <1>2, <1>8, <2>2, <3>1 DEF AllDocsInv
    <3>2. CASE ~(p <= scan.start)
      <4>1. p \in Live /\ p \in Nat
        BY <2>2, NpmConstants DEF Live, Promised
      <4>2. p \in NewRows
        BY <1>3, <1>6, <2>2, <3>2, <4>1
      <4> QED BY <1>8, <4>2
    <3> QED BY <3>1, <3>2
  <2> QED BY <2>1, <2>2
<1>10. PlannedInv' /\ IsPlan(plan')
  BY <1>1, <1>2 DEF PlannedInv, Planned
<1>11. CASE ~LastDocsPage
  <2>1. AllDocsInv'
    BY <1>1, <1>2, <1>7, <1>9 DEF AllDocsInv, Planned
  <2>2. AnalysisInv'
    BY <1>1, <1>11, <2>1 DEF AnalysisInv
  <2> QED BY <1>1, <1>2, <1>7, <1>8, <1>10, <2>2, AnalysisKeeps DEF FeedInv
<1>12. CASE LastDocsPage
  <2>1. AllDocsPageSize > 1 => DocsPage = S
    <3> SUFFICES ASSUME AllDocsPageSize > 1 PROVE DocsPage = S
      OBVIOUS
    <3>1. CASE NewRows = {}
      <4>1. DocsPage \subseteq {scan.start}
        BY <1>5, <3>1
      <4>2. IsFiniteSet({scan.start}) /\ Cardinality({scan.start}) = 1
        BY FS_Singleton
      <4>3. IsFiniteSet(DocsPage) /\ Cardinality(DocsPage) <= 1
        BY <4>1, <4>2, FS_Subset
      <4>4. Cardinality(DocsPage) \in Nat
        BY <4>3, FS_CardinalityType
      <4> QED BY <1>4, <4>3, <4>4, FirstShort DEF Positive
    <3>2. CASE Cardinality(DocsPage) < AllDocsPageSize
      BY <1>4, <3>2, FirstShort DEF Positive
    <3> QED BY <1>12, <3>1, <3>2 DEF LastDocsPage
  <2>2. ASSUME NEW p \in Packages, doc[p].seq \in Promised(scan.since)
        PROVE  Accounted(p)'
    <3>1. CASE p \in DOMAIN scan'.work
      BY <1>9, <2>2, <3>1 DEF Accounted
    <3>2. CASE p \notin DOMAIN scan'.work
      <4>1. doc[p].deleted
        <5> SUFFICES ASSUME ~doc[p].deleted PROVE FALSE
          OBVIOUS
        <5>1. p \in Live /\ p \in Nat /\ AllDocsPageSize > 1
          BY <2>2, NpmConstants DEF Live, Promised
        <5>2. ~(p <= scan.start)
          BY <1>2, <1>8, <2>2, <3>2 DEF AllDocsInv
        <5>3. p \in S /\ p # scan.start
          BY <1>3, <5>1, <5>2
        <5>4. p \in NewRows
          BY <1>5, <2>1, <5>1, <5>3
        <5> QED BY <1>8, <3>2, <5>4
      <4>2. Packument(p) \notin DOMAIN catalog
        BY <1>2 DEF AllDocsInv, MirrorInv
      <4> QED BY <1>1, <3>2, <4>1, <4>2 DEF Accounted, Mirrored, MirroredIn
    <3> QED BY <3>1, <3>2
  <2>3. EndRootInv'
    BY <1>1, <1>2, <1>7, <2>2 DEF AllDocsInv, EndRootInv, Planned
  <2>4. AnalysisInv'
    BY <1>1, <1>12, <2>3 DEF AnalysisInv
  <2> QED BY <1>1, <1>2, <1>7, <1>8, <1>10, <2>4, AnalysisKeeps DEF FeedInv
<1> QED BY <1>11, <1>12

LEMMA EndRootKeeps ==
    ASSUME IsPlan(plan), NpmInv, EndRoot
    PROVE  IsPlan(plan') /\ NpmInv'
<1>1. /\ UNCHANGED <<doc, view, cursor, catalog>> /\ step = "endroot"
      /\ plan' = [plan EXCEPT !.target = UpdateSeq]
      /\ scan' = [scan EXCEPT !.target = UpdateSeq]
      /\ step' = Changes(scan')
  BY DEF EndRoot
<1>2. /\ RegistryInv /\ FeedInv /\ WorkInv /\ MirrorInv /\ PlannedInv
      /\ EndRootInv
  BY <1>1 DEF NpmInv, AnalysisInv
<1>3. IsScan(scan)
  BY <1>2 DEF WorkInv
<1>4. /\ IsScan(scan') /\ scan'.target = UpdateSeq /\ scan'.start = scan.start
      /\ scan'.since = scan.since /\ scan'.work = scan.work /\ scan'.done = scan.done
  BY <1>1, <1>3, ScanPuts
<1>5. /\ IsPlan(plan') /\ plan'.target = UpdateSeq /\ plan'.artifacts = plan.artifacts
  BY <1>1, TargetPuts
<1>6. WorkInv'
  BY <1>1, <1>2, <1>4 DEF WorkInv
<1>7. PlannedInv'
  BY <1>1, <1>2, <1>5 DEF PlannedInv, Planned
<1>8. /\ UpdateSeq \in Nat /\ scan.since \in Nat /\ scan.since <= UpdateSeq
      /\ \A p \in Packages : doc[p].seq \in Nat /\ doc[p].seq <= UpdateSeq
  BY <1>2, UpdateSeqIs DEF FeedInv
<1>9. \A p \in Packages : doc[p].seq \in Promised(scan.since) => Accounted(p)'
  BY <1>1, <1>2, <1>4 DEF EndRootInv, Accounted, FreshRow, Mirrored, MirroredIn
<1>10. CASE scan.since < UpdateSeq
  <2>1. step' = "changes"
    BY <1>1, <1>4, <1>10 DEF Changes
  <2>2. ChangesInv'
    BY <1>1, <1>2, <1>4, <1>5, <1>8, <1>9, <1>10 DEF EndRootInv, ChangesInv, Planned
  <2>3. AnalysisInv'
    BY <2>1, <2>2 DEF AnalysisInv
  <2> QED BY <1>1, <1>4, <1>5, <1>6, <1>7, <1>8, <2>3, AnalysisKeeps
<1>11. CASE ~(scan.since < UpdateSeq)
  <2>1. step' = "packages" /\ scan.since = UpdateSeq
    BY <1>1, <1>4, <1>8, <1>11 DEF Changes
  <2>2. \A p \in DOMAIN scan.work : UpdateSeq > 0
    <3> TAKE p \in DOMAIN scan.work
    <3>1. p \in Packages /\ scan.work[p].rev \in Positive /\ scan.work[p].rev <= doc[p].rev
      BY <1>2 DEF WorkInv
    <3>2. doc[p].rev # 0
      BY <1>2, <3>1 DEF RegistryInv, Positive
    <3>3. doc[p].seq # 0
      BY <1>2, <3>1, <3>2 DEF RegistryInv
    <3> QED BY <1>8, <3>1, <3>3
  <2>3. PackagesInv'
    BY <1>1, <1>2, <1>4, <1>5, <1>8, <1>9, <2>1, <2>2 DEF EndRootInv, PackagesInv, Planned
  <2>4. AnalysisInv'
    BY <2>1, <2>3 DEF AnalysisInv
  <2> QED BY <1>1, <1>4, <1>5, <1>6, <1>7, <1>8, <2>4, AnalysisKeeps
<1> QED BY <1>10, <1>11

LEMMA ApplyChangesKeeps ==
    ASSUME IsPlan(plan), NpmInv, ApplyChanges
    PROVE  IsPlan(plan') /\ NpmInv'
<1> DEFINE S == {q \in Seqs : q > scan.since}
<1>1. /\ UNCHANGED <<doc, view, cursor, catalog, plan>> /\ step = "changes"
      /\ scan' = [scan EXCEPT !.work = PutWork(scan.work, Applied), !.since = LastSeq]
      /\ step' = IF LastSeq >= scan.target THEN "packages" ELSE "changes"
  BY DEF ApplyChanges
<1>2. /\ RegistryInv /\ FeedInv /\ WorkInv /\ MirrorInv /\ PlannedInv
      /\ ChangesInv
  BY <1>1 DEF NpmInv, AnalysisInv
<1>3. /\ IsScan(scan) /\ scan.start \in Nat
  BY <1>2 DEF WorkInv
<1>4. /\ UpdateSeq \in Nat /\ scan.since \in Nat /\ scan.target \in Nat
      /\ scan.since <= UpdateSeq /\ scan.target <= UpdateSeq
      /\ \A p \in Packages : doc[p].seq \in Nat /\ doc[p].seq <= UpdateSeq
  BY <1>2, UpdateSeqIs DEF FeedInv
<1>5. /\ S \subseteq Nat /\ IsFiniteSet(S) /\ \A q \in S : q <= UpdateSeq
      /\ \A p \in Packages : doc[p].seq > scan.since => doc[p].seq \in S
      /\ SeqsPage = First(S, ChangePageSize) /\ ChangePageSize \in Positive
  <2>1. S \subseteq 0..UpdateSeq
    BY <1>4 DEF Seqs
  <2>2. IsFiniteSet(0..UpdateSeq)
    BY <1>4, FS_Interval
  <2>3. IsFiniteSet(S)
    BY <2>1, <2>2, FS_Subset
  <2> QED BY <2>1, <2>3, <1>4, NpmConstants DEF Seqs, SeqsPage
<1>6. SeqsPage \subseteq S
  BY <1>5 DEF First
<1>7. LastSeq \in Nat /\ LastSeq <= UpdateSeq /\ \A q \in S : q <= LastSeq => q \in SeqsPage
  <2>1. CASE Cardinality(SeqsPage) < ChangePageSize
    <3>1. SeqsPage = S
      BY <1>5, <2>1, FirstShort DEF Positive
    <3> QED BY <1>4, <2>1, <3>1 DEF LastSeq
  <2>2. CASE ~(Cardinality(SeqsPage) < ChangePageSize)
    <3>1. SeqsPage # {}
      <4> SUFFICES ASSUME SeqsPage = {} PROVE FALSE
        OBVIOUS
      <4>1. Cardinality(SeqsPage) = 0
        BY FS_EmptySet
      <4> QED BY <1>5, <2>2, <4>1 DEF Positive
    <3>2. LastSeq \in SeqsPage
      BY <1>4, <1>5, <1>6, <2>2, <3>1, GreatestIsMax DEF LastSeq
    <3>3. LastSeq \in First(S, ChangePageSize)
      BY <1>5, <3>2
    <3>4. \A q \in S : q <= LastSeq => q \in First(S, ChangePageSize)
      BY <1>5, <3>3, FirstClosed DEF Positive
    <3> QED BY <1>5, <1>6, <3>2, <3>4
  <2> QED BY <2>1, <2>2
<1> HIDE DEF S
<1>8. /\ IsScan(scan') /\ scan'.work = PutWork(scan.work, Applied) /\ scan'.start = scan.start
      /\ scan'.since = LastSeq /\ scan'.target = scan.target /\ scan'.done = scan.done
  <2> DEFINE w == PutWork(scan.work, Applied)
             t == [scan EXCEPT !.work = w, !.since = LastSeq]
  <2> HIDE DEF w
  <2>1. /\ IsScan(t) /\ t.work = w /\ t.start = scan.start /\ t.since = LastSeq
        /\ t.target = scan.target /\ t.done = scan.done
    BY <1>3 DEF IsScan
  <2>2. scan' = t
    BY <1>1 DEF w
  <2> HIDE DEF t
  <2> QED BY <2>1, <2>2 DEF w
<1>9. /\ WorkInv'
      /\ DOMAIN scan'.work = Applied \cup DOMAIN scan.work
      /\ \A p \in Applied : FreshRow(p)'
      /\ \A p \in DOMAIN scan.work : FreshRow(p) => FreshRow(p)'
  <2>1. Applied \subseteq Packages
    BY DEF Applied
  <2>2. \A p \in Applied : doc[p].seq > 0
    BY <1>4, <1>6 DEF Applied, S
  <2> QED BY <1>1, <1>3, <1>8, <2>1, <2>2, RowsKeep
<1>10. ASSUME NEW p \in Packages, doc[p].seq \in Promised(LastSeq), doc[p].seq <= scan.target
       PROVE  Accounted(p)'
  <2>1. AllDocsPageSize > 1 /\ doc[p].seq \in Nat /\ doc[p].seq > 0 /\ doc[p].seq <= LastSeq
    BY <1>10, <1>4, <1>7 DEF Promised
  <2>2. CASE doc[p].seq <= scan.since
    <3>1. doc[p].seq \in Promised(scan.since)
      BY <1>4, <2>1, <2>2 DEF Promised
    <3>2. Accounted(p)
      BY <1>2, <1>10, <3>1 DEF ChangesInv
    <3>3. p \notin Applied
      BY <1>4, <1>6, <2>1, <2>2 DEF Applied, S
    <3> QED BY <1>1, <1>9, <3>2, <3>3 DEF Accounted, Mirrored, MirroredIn
  <2>3. CASE ~(doc[p].seq <= scan.since)
    <3>1. doc[p].seq \in SeqsPage
      BY <1>4, <1>5, <1>7, <2>1, <2>3
    <3>2. p \in Applied
      BY <1>10, <3>1 DEF Applied
    <3> QED BY <1>9, <3>2 DEF Accounted
  <2> QED BY <2>2, <2>3
<1>11. PlannedInv' /\ IsPlan(plan')
  BY <1>1, <1>2 DEF PlannedInv, Planned
<1>12. CASE LastSeq >= scan.target
  <2>1. \A p \in Packages : doc[p].seq \in Promised(scan.target) => Accounted(p)'
    BY <1>4, <1>7, <1>10, <1>12 DEF Promised
  <2>2. PackagesInv'
    BY <1>1, <1>2, <1>8, <2>1 DEF ChangesInv, PackagesInv, Planned
  <2>3. AnalysisInv'
    BY <1>1, <1>12, <2>2 DEF AnalysisInv
  <2> QED BY <1>1, <1>2, <1>4, <1>7, <1>8, <1>9, <1>11, <2>3, AnalysisKeeps DEF FeedInv
<1>13. CASE ~(LastSeq >= scan.target)
  <2>1. ChangesInv'
    BY <1>1, <1>2, <1>8, <1>10 DEF ChangesInv, Planned
  <2>2. AnalysisInv'
    BY <1>1, <1>13, <2>1 DEF AnalysisInv
  <2> QED BY <1>1, <1>2, <1>4, <1>7, <1>8, <1>9, <1>11, <2>2, AnalysisKeeps DEF FeedInv
<1> QED BY <1>12, <1>13

-----------------------------------------------------------------------------
(* planDeletedPackage and the update of a packument: what is planned for a *)
(* package is its own, and with it the packument is the one served.        *)
OwnRows(p, rows) ==
    \A path \in DOMAIN rows :
        /\ path \in Packages \X Nat /\ path[1] = p
        /\ rows[path].op = "DELETE" => path[2] = 0

LEMMA DeletionIs ==
    ASSUME NEW p \in Packages
    PROVE  LET rows == Deletion(p) IN
           /\ OwnRows(p, rows)
           /\ \A path \in DOMAIN rows : rows[path].op = "DELETE"
           /\ Packument(p) \in DOMAIN catalog => Packument(p) \in DOMAIN rows
<1>1. CASE Packument(p) \in DOMAIN catalog
  <2>1. /\ DOMAIN Deletion(p) = {Packument(p)}
        /\ Deletion(p)[Packument(p)] = Tombstone
    BY <1>1 DEF Deletion, Row
  <2>2. Tombstone.op = "DELETE"
    BY DEF Tombstone
  <2> QED BY <2>1, <2>2, NpmPaths DEF OwnRows
<1>2. CASE Packument(p) \notin DOMAIN catalog
  <2>1. \A path : path \notin DOMAIN Deletion(p)
    BY <1>2 DEF Deletion, NoRow
  <2> QED BY <1>2, <2>1 DEF OwnRows
<1> QED BY <1>1, <1>2

LEMMA PackumentUpdateIs ==
    ASSUME RegistryInv, NEW p \in Packages
    PROVE  LET rows == PackumentUpdate(p) IN
           /\ OwnRows(p, rows)
           /\ \A path \in DOMAIN rows : rows[path].op = "ADD"
           /\ Packument(p) \in DOMAIN rows => rows[Packument(p)].content = view[p]
           /\ Packument(p) \notin DOMAIN rows =>
                  Packument(p) \in DOMAIN catalog /\ catalog[Packument(p)] = view[p]
           /\ \A v \in view[p].files :
                  v \in Positive /\ Tarball(p, v) \in DOMAIN catalog \cup DOMAIN rows
<1> DEFINE need == {Tarball(p, v) : v \in NewTarballs(p)}
           one == IF MetadataChanged(p) THEN Row(Packument(p), Add(view[p])) ELSE NoRow
           rows == PackumentUpdate(p)
<1>1. rows = Put(one, [path \in need |-> Add(Blob)])
  BY DEF PackumentUpdate
<1>2. DOMAIN one = IF MetadataChanged(p) THEN {Packument(p)} ELSE {}
  BY DEF Row, NoRow
<1>3. MetadataChanged(p) => one[Packument(p)] = Add(view[p])
  BY DEF Row
<1>4. view[p].files \subseteq Positive
  BY DEF RegistryInv
<1>5. Packument(p) \notin need /\ \A path \in need : path \in Packages \X Nat /\ path[1] = p
  BY <1>4, NpmPaths DEF NewTarballs
<1>6. \A v \in view[p].files : Tarball(p, v) \in DOMAIN catalog \cup need
  BY DEF NewTarballs, NotListed
<1> HIDE DEF need, one, rows
<1>7. /\ DOMAIN rows = need \cup DOMAIN one
      /\ \A path \in DOMAIN rows :
            rows[path] = IF path \in need THEN Add(Blob) ELSE one[path]
  BY <1>1 DEF Put
<1>8. \A path \in DOMAIN rows : rows[path].op = "ADD"
  BY <1>2, <1>3, <1>7, AddIs
<1>9. Packument(p) \in DOMAIN rows => rows[Packument(p)].content = view[p]
  BY <1>2, <1>3, <1>5, <1>7, AddIs
<1>10. Packument(p) \notin DOMAIN rows =>
           Packument(p) \in DOMAIN catalog /\ catalog[Packument(p)] = view[p]
  BY <1>2, <1>5, <1>7 DEF MetadataChanged, Needed
<1>11. \A path \in DOMAIN rows : path \in Packages \X Nat /\ path[1] = p
  BY <1>2, <1>5, <1>7, NpmPaths
<1>12. OwnRows(p, rows)
  BY <1>8, <1>11 DEF OwnRows
<1> QED BY <1>4, <1>6, <1>7, <1>8, <1>9, <1>10, <1>12 DEF rows

LEMMA PlanUnitIs ==
    ASSUME IsPlan(plan), NEW p, NEW rows
    PROVE  LET q == PlanUnit(p, rows) IN
           /\ IsPlan(q) /\ q.target = plan.target
           /\ DOMAIN q.artifacts = DOMAIN rows \cup Planned
           /\ \A path \in DOMAIN rows : /\ q.artifacts[path].op = rows[path].op
                                        /\ q.artifacts[path].content = rows[path].content
           /\ \A path \in Planned \ DOMAIN rows : q.artifacts[path] = plan.artifacts[path]
<1>1. CASE DOMAIN rows = {}
  BY <1>1 DEF PlanUnit, Planned
<1>2. CASE DOMAIN rows # {}
  <2> DEFINE d == Declared(plan, p, Cardinality(DOMAIN rows))
  <2>1. IsPlan(d) /\ d.target = plan.target /\ d.artifacts = plan.artifacts
    BY DeclaredPuts
  <2>2. PlanUnit(p, rows) = With(d, p, rows)
    BY <1>2 DEF PlanUnit
  <2> HIDE DEF d
  <2> DEFINE q == With(d, p, rows)
  <2>3. /\ IsPlan(q) /\ q.target = d.target
        /\ DOMAIN q.artifacts = DOMAIN rows \cup DOMAIN d.artifacts
        /\ \A path \in DOMAIN rows : /\ q.artifacts[path].op = rows[path].op
                                     /\ q.artifacts[path].content = rows[path].content
        /\ \A path \in DOMAIN d.artifacts \ DOMAIN rows : q.artifacts[path] = d.artifacts[path]
    BY <2>1, WithPuts
  <2> HIDE DEF q
  <2>4. /\ IsPlan(q) /\ q.target = plan.target
        /\ DOMAIN q.artifacts = DOMAIN rows \cup Planned
        /\ \A path \in DOMAIN rows : /\ q.artifacts[path].op = rows[path].op
                                     /\ q.artifacts[path].content = rows[path].content
        /\ \A path \in Planned \ DOMAIN rows : q.artifacts[path] = plan.artifacts[path]
    BY <2>1, <2>3 DEF Planned
  <2> QED BY <2>2, <2>4 DEF q
<1> QED BY <1>1, <1>2

(* The rows of one more package: those of the others are as they were, and *)
(* the mirror will have of the package what it was planned from.           *)
LEMMA PackageKeeps ==
    ASSUME IsPlan(plan), NpmInv, PackagesInv,
           UNCHANGED <<doc, view, cursor, catalog, step>>, step = "packages",
           NEW p \in DOMAIN scan.work \ scan.done, NEW rows, OwnRows(p, rows),
           plan' = PlanUnit(p, rows),
           scan' = [scan EXCEPT !.done = scan.done \cup {p}],
           Packument(p) \in DOMAIN rows /\ rows[Packument(p)].op # "DELETE" =>
               \A v \in rows[Packument(p)].content.files :
                   v \in Positive /\ Tarball(p, v) \in DOMAIN catalog \cup DOMAIN rows,
           FreshRow(p) =>
               IF doc[p].deleted
                 THEN IF Packument(p) \in DOMAIN rows
                        THEN rows[Packument(p)].op = "DELETE"
                        ELSE Packument(p) \notin DOMAIN catalog
                 ELSE IF Packument(p) \in DOMAIN rows
                        THEN /\ rows[Packument(p)].op # "DELETE"
                             /\ rows[Packument(p)].content = [rev |-> doc[p].rev, files |-> doc[p].versions]
                        ELSE /\ Packument(p) \in DOMAIN catalog
                             /\ catalog[Packument(p)] = [rev |-> doc[p].rev, files |-> doc[p].versions]
    PROVE  IsPlan(plan') /\ NpmInv'
<1>1. /\ RegistryInv /\ FeedInv /\ WorkInv /\ MirrorInv /\ PlannedInv
  BY DEF NpmInv
<1>2. IsScan(scan)
  BY <1>1 DEF WorkInv
<1>3. /\ IsScan(scan') /\ scan'.done = scan.done \cup {p} /\ scan'.work = scan.work
      /\ scan'.start = scan.start /\ scan'.since = scan.since /\ scan'.target = scan.target
  BY <1>2 DEF IsScan
<1>4. /\ IsPlan(plan') /\ plan'.target = plan.target
      /\ DOMAIN plan'.artifacts = DOMAIN rows \cup Planned
      /\ \A path \in DOMAIN rows : /\ plan'.artifacts[path].op = rows[path].op
                                   /\ plan'.artifacts[path].content = rows[path].content
      /\ \A path \in Planned \ DOMAIN rows : plan'.artifacts[path] = plan.artifacts[path]
  <2> DEFINE q == PlanUnit(p, rows)
  <2>1. /\ IsPlan(q) /\ q.target = plan.target
        /\ DOMAIN q.artifacts = DOMAIN rows \cup Planned
        /\ \A path \in DOMAIN rows : /\ q.artifacts[path].op = rows[path].op
                                     /\ q.artifacts[path].content = rows[path].content
        /\ \A path \in Planned \ DOMAIN rows : q.artifacts[path] = plan.artifacts[path]
    BY PlanUnitIs
  <2>2. plan' = q
    OBVIOUS
  <2> HIDE DEF q
  <2> QED BY <2>1, <2>2
<1>5. /\ p \in Packages /\ p \notin scan.done
      /\ \A path \in DOMAIN rows : path[1] = p
      /\ \A path \in Planned : path[1] \in scan.done
  BY <1>1 DEF WorkInv, OwnRows, PackagesInv
<1>6. WorkInv'
  BY <1>1, <1>3, <1>5 DEF WorkInv
<1>7. PlannedInv'
  <2>1. \A path \in DOMAIN plan'.artifacts :
           /\ path \in Packages \X Nat
           /\ plan'.artifacts[path].op = "DELETE" => path[2] = 0
    BY <1>1, <1>4 DEF PlannedInv, OwnRows, Planned
  <2>2. ASSUME NEW q \in Packages, Packument(q) \in DOMAIN plan'.artifacts,
               plan'.artifacts[Packument(q)].op # "DELETE",
               NEW v \in plan'.artifacts[Packument(q)].content.files
        PROVE  v \in Positive /\ Tarball(q, v) \in DOMAIN catalog \cup DOMAIN plan'.artifacts
    <3>1. CASE Packument(q) \in DOMAIN rows
      <4>1. q = p
        BY <1>5, <3>1, NpmPaths
      <4> QED BY <1>4, <2>2, <3>1, <4>1
    <3>2. CASE Packument(q) \notin DOMAIN rows
      BY <1>1, <1>4, <2>2, <3>2 DEF PlannedInv, Planned
    <3> QED BY <3>1, <3>2
  <2> QED BY <2>1, <2>2 DEF PlannedInv, Planned
<1>8. ASSUME NEW q \in Packages, doc[q].seq \in Promised(scan.target)
      PROVE  Accounted(q)' /\ (q \in scan'.done => WillMirror(q)')
  <2>1. Accounted(q) /\ (q \in scan.done => WillMirror(q))
    BY <1>8 DEF PackagesInv
  <2>2. Accounted(q)'
    BY <1>3, <2>1 DEF Accounted, FreshRow, Mirrored, MirroredIn
  <2> DEFINE path == Packument(q)
             after == Imported(catalog, plan)
             next == Imported(catalog, plan')
  <2>3. path[1] = q
    BY NpmPaths
  <2>4. /\ path \in DOMAIN after <=>
                \/ path \in Planned /\ plan.artifacts[path].op # "DELETE"
                \/ path \notin Planned /\ path \in DOMAIN catalog
        /\ path \in DOMAIN after =>
                after[path] = IF path \in Planned THEN plan.artifacts[path].content ELSE catalog[path]
    BY ImportedHas DEF Planned
  <2>5. /\ path \in DOMAIN next <=>
                \/ path \in DOMAIN plan'.artifacts /\ plan'.artifacts[path].op # "DELETE"
                \/ path \notin DOMAIN plan'.artifacts /\ path \in DOMAIN catalog
        /\ path \in DOMAIN next =>
                next[path] = IF path \in DOMAIN plan'.artifacts
                               THEN plan'.artifacts[path].content ELSE catalog[path]
    BY ImportedHas
  <2> HIDE DEF path, after, next
  <2>6. CASE q # p
    <3>1. path \notin DOMAIN rows
      BY <1>5, <2>3, <2>6
    <3>2. (path \in DOMAIN next <=> path \in DOMAIN after)
          /\ (path \in DOMAIN after => next[path] = after[path])
      BY <1>4, <2>4, <2>5, <3>1
    <3>3. q \in scan'.done => q \in scan.done
      BY <1>3, <2>6
    <3>4. WillMirror(q) => WillMirror(q)'
      BY <3>2 DEF WillMirror, MirroredIn, path, after, next
    <3> QED BY <2>1, <2>2, <3>3, <3>4
  <2>7. CASE q = p
    <3>1. FreshRow(p)
      BY <2>1, <2>7 DEF Accounted
    <3>2. path \notin Planned
      BY <1>5, <2>3, <2>7
    <3>3. path = Packument(p)
      BY <2>7 DEF path
    <3>4. IF doc[p].deleted
            THEN IF path \in DOMAIN rows THEN rows[path].op = "DELETE"
                                          ELSE path \notin DOMAIN catalog
            ELSE IF path \in DOMAIN rows
                   THEN /\ rows[path].op # "DELETE"
                        /\ rows[path].content = [rev |-> doc[p].rev, files |-> doc[p].versions]
                   ELSE /\ path \in DOMAIN catalog
                        /\ catalog[path] = [rev |-> doc[p].rev, files |-> doc[p].versions]
      BY <3>1, <3>3
    <3>5. IF doc[p].deleted THEN path \notin DOMAIN next
          ELSE path \in DOMAIN next /\ next[path] = [rev |-> doc[p].rev, files |-> doc[p].versions]
      BY <1>4, <2>5, <3>2, <3>4
    <3>6. WillMirror(p)'
      BY <3>3, <3>5 DEF WillMirror, MirroredIn, next
    <3> QED BY <2>2, <2>7, <3>6
  <2> QED BY <2>6, <2>7
<1>9. \A path \in DOMAIN plan'.artifacts : path[1] \in scan'.done
  BY <1>3, <1>4, <1>5
<1>10. PackagesInv'
  BY <1>3, <1>4, <1>8, <1>9 DEF PackagesInv, Planned
<1>11. AnalysisInv'
  BY <1>10 DEF AnalysisInv
<1> QED BY <1>1, <1>3, <1>4, <1>6, <1>7, <1>11, AnalysisKeeps DEF FeedInv

(* An analysis that is given up leaves nothing to import. *)
LEMMA AbortedKeeps ==
    ASSUME IsPlan(plan), NpmInv, UNCHANGED <<doc, view, cursor, catalog>>,
           plan' = [plan EXCEPT !.status = "FAILED"], step' = "idle", scan' = NoScan
    PROVE  IsPlan(plan') /\ NpmInv'
<1>1. /\ IsPlan(plan') /\ plan'.status = "FAILED" /\ plan'.target = plan.target
      /\ plan'.artifacts = plan.artifacts
  BY StatusPuts
<1>2. /\ IsScan(scan') /\ scan'.start = 0 /\ scan'.since = 0 /\ scan'.target = 0
      /\ scan'.done = {} /\ \A p : p \notin DOMAIN scan'.work
  BY NoScanIs
<1>3. WorkInv'
  BY <1>2 DEF WorkInv
<1>4. AnalysisInv'
  BY <1>1 DEF AnalysisInv
<1>5. PlannedInv'
  BY <1>1 DEF NpmInv, PlannedInv, Planned
<1>6. UpdateSeq \in Nat
  BY UpdateSeqIs DEF NpmInv
<1> QED BY <1>1, <1>2, <1>3, <1>4, <1>5, <1>6, AnalysisKeeps DEF NpmInv, FeedInv

LEMMA PlanPackageKeeps ==
    ASSUME IsPlan(plan), NpmInv, PlanPackage
    PROVE  IsPlan(plan') /\ NpmInv'
<1> DEFINE p == Min(Rest)
<1>1. /\ UNCHANGED <<doc, view, cursor, catalog>> /\ step = "packages"
      /\ Rest # {}
  BY DEF PlanPackage
<1>2. PackagesInv /\ RegistryInv /\ WorkInv
  BY <1>1 DEF NpmInv, AnalysisInv
<1>3. p \in DOMAIN scan.work \ scan.done /\ p \in Packages
  <2>1. Rest \subseteq Packages /\ Rest \subseteq Nat
    BY <1>2, NpmConstants DEF Rest, WorkInv
  <2>2. p \in Rest
    BY <1>1, <2>1, LeastIsMin
  <2> QED BY <2>1, <2>2 DEF Rest
<1>4. CASE ~Current(p)
  BY <1>1, <1>4, AbortedKeeps DEF PlanPackage, Aborted
<1>5. CASE Current(p) /\ view[p].rev = 0
  <2> DEFINE rows == Deletion(p)
  <2>1. /\ plan' = PlanUnit(p, rows)
        /\ scan' = [scan EXCEPT !.done = scan.done \cup {p}] /\ step' = step
    BY <1>5 DEF PlanPackage
  <2> HIDE DEF p
  <2>2. /\ OwnRows(p, rows)
        /\ \A path \in DOMAIN rows : rows[path].op = "DELETE"
        /\ Packument(p) \in DOMAIN catalog => Packument(p) \in DOMAIN rows
    BY <1>3, DeletionIs
  <2>3. FreshRow(p) => doc[p].deleted
    BY <1>5 DEF Current, FreshRow
  <2> HIDE DEF rows
  <2> QED BY <1>1, <1>2, <1>3, <2>1, <2>2, <2>3, PackageKeeps
<1>6. CASE Current(p) /\ view[p].rev # 0
  <2> DEFINE rows == PackumentUpdate(p)
  <2>1. /\ plan' = PlanUnit(p, rows)
        /\ scan' = [scan EXCEPT !.done = scan.done \cup {p}] /\ step' = step
    BY <1>6 DEF PlanPackage
  <2> HIDE DEF p
  <2>2. /\ OwnRows(p, rows)
        /\ \A path \in DOMAIN rows : rows[path].op = "ADD"
        /\ Packument(p) \in DOMAIN rows => rows[Packument(p)].content = view[p]
        /\ Packument(p) \notin DOMAIN rows =>
               Packument(p) \in DOMAIN catalog /\ catalog[Packument(p)] = view[p]
        /\ \A v \in view[p].files :
               v \in Positive /\ Tarball(p, v) \in DOMAIN catalog \cup DOMAIN rows
    BY <1>2, <1>3, PackumentUpdateIs
  <2> HIDE DEF rows
  <2>3. FreshRow(p) =>
            ~doc[p].deleted /\ view[p] = [rev |-> doc[p].rev, files |-> doc[p].versions]
    <3> SUFFICES ASSUME FreshRow(p)
                 PROVE  ~doc[p].deleted /\ view[p] = [rev |-> doc[p].rev, files |-> doc[p].versions]
      OBVIOUS
    <3>1. /\ scan.work[p].rev = doc[p].rev /\ scan.work[p].deleted = doc[p].deleted
          /\ IF scan.work[p].deleted THEN view[p].rev > scan.work[p].rev
                                    ELSE view[p].rev >= scan.work[p].rev
      BY <1>6 DEF Current, FreshRow
    <3>2. /\ doc[p].rev \in Nat /\ view[p].rev \in Nat /\ view[p].rev <= doc[p].rev
          /\ view[p].rev = doc[p].rev /\ view[p].rev # 0 =>
                ~doc[p].deleted /\ view[p].files = doc[p].versions
          /\ view[p] \in [rev : Nat, files : SUBSET Positive]
      BY <1>2, <1>3 DEF RegistryInv
    <3>3. view[p].rev = doc[p].rev
      BY <3>1, <3>2
    <3>4. ~doc[p].deleted /\ view[p].files = doc[p].versions
      BY <1>6, <3>2, <3>3
    <3> QED BY <3>2, <3>3, <3>4
  <2> QED BY <1>1, <1>2, <1>3, <2>1, <2>2, <2>3, PackageKeeps
<1> QED BY <1>4, <1>5, <1>6

LEMMA CommitNpmKeeps ==
    ASSUME IsPlan(plan), NpmInv, CommitNpm
    PROVE  IsPlan(plan') /\ NpmInv'
<1>1. /\ UNCHANGED <<doc, view, cursor, catalog>> /\ step = "packages" /\ Rest = {}
      /\ scan' = NoScan /\ step' = "idle"
      /\ \/ plan' = [plan EXCEPT !.status = "FAILED"]
         \/ plan' = [plan EXCEPT !.status = "COMMITTED"]
  BY DEF CommitNpm, Commit, Aborted
<1>2. PackagesInv /\ WorkInv /\ FeedInv
  BY <1>1 DEF NpmInv, AnalysisInv
<1>3. CASE plan' = [plan EXCEPT !.status = "FAILED"]
  BY <1>1, <1>3, AbortedKeeps
<1>4. CASE plan' = [plan EXCEPT !.status = "COMMITTED"]
  <2>1. /\ IsPlan(plan') /\ plan'.target = plan.target /\ plan'.artifacts = plan.artifacts
    BY <1>4, StatusPuts
  <2>2. /\ IsScan(scan') /\ scan'.start = 0 /\ scan'.since = 0 /\ scan'.target = 0
        /\ scan'.done = {} /\ \A p : p \notin DOMAIN scan'.work
    BY <1>1, NoScanIs
  <2>3. WorkInv'
    BY <2>2 DEF WorkInv
  <2>4. PlannedInv'
    BY <1>1, <2>1 DEF NpmInv, PlannedInv, Planned
  <2>5. \A p \in DOMAIN scan.work : p \in scan.done
    BY <1>1 DEF Rest
  <2>6. Planned # {} => plan.target > 0
    BY <1>2 DEF PackagesInv, WorkInv
  <2>7. ASSUME NEW p \in Packages, doc[p].seq \in Promised(plan.target)
        PROVE  WillMirror(p)
    <3>1. Accounted(p) /\ (p \in scan.done => WillMirror(p))
      BY <1>2, <2>7 DEF PackagesInv
    <3>2. CASE p \in DOMAIN scan.work
      BY <2>5, <3>1, <3>2
    <3>3. CASE p \notin DOMAIN scan.work
      <4>1. Mirrored(p)
        BY <3>1, <3>3 DEF Accounted
      <4>2. Packument(p) \notin Planned
        BY <1>2, <3>3, NpmPaths DEF PackagesInv, WorkInv
      <4> DEFINE path == Packument(p)
                 after == Imported(catalog, plan)
      <4>3. /\ path \in DOMAIN after <=>
                    \/ path \in Planned /\ plan.artifacts[path].op # "DELETE"
                    \/ path \notin Planned /\ path \in DOMAIN catalog
            /\ path \in DOMAIN after =>
                    after[path] = IF path \in Planned THEN plan.artifacts[path].content
                                                      ELSE catalog[path]
        BY ImportedHas DEF Planned
      <4> HIDE DEF after
      <4> QED BY <4>1, <4>2, <4>3 DEF Mirrored, MirroredIn, WillMirror, after
    <3> QED BY <3>2, <3>3
  <2>8. CommittedInv'
    BY <1>1, <1>2, <2>1, <2>6, <2>7
       DEF CommittedInv, PackagesInv, Planned, WillMirror, MirroredIn, Imported, Tombstones
  <2>9. AnalysisInv'
    BY <1>1, <2>8 DEF AnalysisInv
  <2>10. UpdateSeq \in Nat
    BY UpdateSeqIs DEF NpmInv
  <2> QED BY <1>1, <1>2, <2>1, <2>2, <2>3, <2>4, <2>9, <2>10, AnalysisKeeps DEF FeedInv
<1> QED BY <1>1, <1>3, <1>4

(* The import of a plan: the cursor keeps the word the plan has given. *)
LEMMA ImportNpmKeeps ==
    ASSUME IsPlan(plan), NpmInv, ImportNpm
    PROVE  IsPlan(plan') /\ NpmInv'
<1> DEFINE after == Imported(catalog, plan)
<1>1. /\ UNCHANGED <<doc, view, scan>> /\ step = "idle" /\ step' = "idle"
      /\ plan.status = "COMMITTED" /\ catalog' = after /\ cursor' = plan.target
      /\ plan' = NoPlan
  BY DEF ImportNpm, Import
<1>2. /\ RegistryInv /\ FeedInv /\ WorkInv /\ MirrorInv /\ PlannedInv
      /\ CommittedInv
  BY <1>1 DEF NpmInv, AnalysisInv
<1>3. /\ IsPlan(plan') /\ plan'.target = 0 /\ plan'.status = "none"
      /\ \A path : path \notin DOMAIN plan'.artifacts
  BY <1>1, NoPlanIs
<1>4. RegistryInv' /\ WorkInv'
  BY <1>1, <1>2 DEF RegistryInv, WorkInv
<1>5. PlannedInv'
  BY <1>3 DEF PlannedInv, Planned
<1>6. AnalysisInv'
  BY <1>1, <1>3 DEF AnalysisInv
<1>7. FeedInv'
  <2>1. UpdateSeq' = UpdateSeq /\ UpdateSeq \in Nat
    BY <1>1, <1>2, UpdateSeqIs DEF UpdateSeq
  <2> QED BY <1>1, <1>2, <1>3, <2>1 DEF FeedInv
<1>8. \A path : /\ path \in DOMAIN after <=>
                      \/ path \in Planned /\ plan.artifacts[path].op # "DELETE"
                      \/ path \notin Planned /\ path \in DOMAIN catalog
                /\ path \in DOMAIN after =>
                      after[path] = IF path \in Planned THEN plan.artifacts[path].content
                                                        ELSE catalog[path]
  BY ImportedHas DEF Planned
<1>9. \A p \in Packages : doc'[p].seq \in Promised(cursor') => Mirrored(p)'
  BY <1>1, <1>2 DEF CommittedInv, WillMirror, Mirrored, MirroredIn
<1> HIDE DEF after
<1>10. cursor' = 0 => DOMAIN catalog' = {}
  <2> SUFFICES ASSUME plan.target = 0 PROVE \A path : path \notin DOMAIN after
    BY <1>1
  <2>1. cursor = 0
    BY <1>2 DEF CommittedInv, FeedInv
  <2>2. \A path : path \notin DOMAIN catalog /\ path \notin Planned
    BY <1>2, <2>1 DEF MirrorInv, CommittedInv
  <2> QED BY <1>8, <2>2
<1>11. ASSUME NEW p \in Packages, Packument(p) \in DOMAIN after,
              NEW v \in after[Packument(p)].files
       PROVE  v \in Positive /\ Tarball(p, v) \in DOMAIN after
  <2>1. v \in Positive /\ Tarball(p, v) \in DOMAIN catalog \cup Planned
    <3>1. CASE Packument(p) \in Planned
      BY <1>2, <1>8, <1>11, <3>1 DEF PlannedInv
    <3>2. CASE Packument(p) \notin Planned
      BY <1>2, <1>8, <1>11, <3>2 DEF MirrorInv
    <3> QED BY <3>1, <3>2
  <2>2. Tarball(p, v)[2] # 0
    BY <2>1, NpmPaths DEF Positive
  <2>3. Tarball(p, v) \in Planned => plan.artifacts[Tarball(p, v)].op # "DELETE"
    BY <1>2, <2>2 DEF PlannedInv
  <2> QED BY <1>8, <2>1, <2>3
<1>12. MirrorInv'
  BY <1>1, <1>9, <1>10, <1>11 DEF MirrorInv
<1> QED BY <1>3, <1>4, <1>5, <1>6, <1>7, <1>12 DEF NpmInv

(* A step of a source with the npm adapter keeps the invariant. *)
LEMMA NpmStep ==
    ASSUME adapter = "npm", IsPlan(plan), NpmInv, NpmNext
    PROVE  IsPlan(plan') /\ NpmInv'
BY ChangedKeeps, ReplicateKeeps, StartFullKeeps, StartIncrementalKeeps, EnumerateKeeps,
   EndRootKeeps, ApplyChangesKeeps, PlanPackageKeeps, CommitNpmKeeps, ImportNpmKeeps
   DEF NpmNext, AnalyzeNpm

-----------------------------------------------------------------------------
(* The invariant of the source, whichever adapter it has. *)
LEMMA RegistriesInitially == RegistriesInit => RegistriesInv
<1> SUFFICES ASSUME NpmInit, PypiInit, AptInit PROVE RegistriesInv
  BY DEF RegistriesInit
<1>1. /\ plan = NoPlan /\ step = "idle" /\ cursor = 0
      /\ \A path : path \notin DOMAIN catalog
  BY DEF NpmInit, AnalysisInit
<1>2. /\ IsPlan(plan) /\ plan.status = "none" /\ plan.target = 0
      /\ \A path : path \notin DOMAIN plan.artifacts
  BY <1>1, NoPlanIs
<1>3. OnlyAdds(plan)
  BY <1>2 DEF OnlyAdds
<1>4. NpmInv
  <2>1. /\ scan = NoScan /\ doc = [p \in Packages |-> Never]
        /\ view = [p \in Packages |-> NotFound]
    BY DEF NpmInit
  <2>2. /\ IsScan(scan) /\ scan.start = 0 /\ scan.since = 0 /\ scan.target = 0
        /\ scan.done = {} /\ \A p : p \notin DOMAIN scan.work
    BY <2>1, NoScanIs
  <2>3. RegistryInv
    <3>1. MaxSeq \in Nat
      BY NpmConstants DEF Positive
    <3>2. /\ Never \in [seq : 0..MaxSeq, rev : Nat, deleted : BOOLEAN, versions : SUBSET Positive]
          /\ NotFound \in [rev : Nat, files : SUBSET Positive]
      BY <3>1 DEF Never, NotFound
    <3>3. Never.seq = 0 /\ Never.rev = 0 /\ NotFound.rev = 0
      BY DEF Never, NotFound
    <3> QED BY <2>1, <3>2, <3>3 DEF RegistryInv
  <2>4. WorkInv
    BY <2>2 DEF WorkInv
  <2>5. FeedInv
    BY <1>1, <1>2, <2>2, <2>3, UpdateSeqIs DEF FeedInv
  <2>6. AnalysisInv /\ PlannedInv
    BY <1>1, <1>2 DEF AnalysisInv, PlannedInv, Planned
  <2>7. \A n : n \notin Promised(0)
    BY DEF Promised
  <2>8. MirrorInv
    BY <1>1, <2>7 DEF MirrorInv
  <2> QED BY <2>3, <2>4, <2>5, <2>6, <2>8 DEF NpmInv
<1>5. PypiInv
  <2>1. /\ serial = 0 /\ todo = {}
        /\ project = [p \in AllProjects |-> [serial |-> 0, page |-> NoPage]]
        /\ cached = [p \in AllProjects |-> NoPage]
    BY DEF PypiInit
  <2>2. NoPage.files \subseteq Positive
    BY DEF NoPage, Blob
  <2>3. PagesOf(catalog)
    BY <1>1 DEF PagesOf
  <2>4. PagesOf(Imported(catalog, plan))
    BY <1>2, <1>3, <2>3, NothingPlanned
  <2> QED BY <1>3, <2>1, <2>2, <2>3, <2>4 DEF PypiInv
<1>6. AptInv
  BY <1>1, <1>2, <1>3 DEF AptInit, AptInv, AptMirrorInv
<1> QED BY <1>2, <1>4, <1>5, <1>6 DEF RegistriesInv

LEMMA RegistriesStep == RegistriesInv /\ [RegistriesNext]_vars => RegistriesInv'
<1> SUFFICES ASSUME RegistriesInv, [RegistriesNext]_vars PROVE RegistriesInv'
  OBVIOUS
<1>1. CASE NpmNext
  <2>1. adapter = "npm" /\ adapter' = adapter
    BY <1>1 DEF NpmNext, Publish, Unpublish, Changed, Replicate, AnalyzeNpm, StartFull,
       StartIncremental, Begin, EnumerateAllDocs, EndRoot, ApplyChanges, PlanPackage, CommitNpm,
       Commit, ImportNpm, Import, anvars
  <2> QED BY <1>1, <2>1, NpmStep DEF RegistriesInv
<1>2. CASE PypiNext
  <2>1. adapter = "pypi" /\ adapter' = adapter
    BY <1>2 DEF PypiNext, UploadFile, Remove, Refresh, AnalyzePypi, StartPypi, Begin,
       PlanProject, CommitPypi, Commit, ImportPypi, Import, anvars
  <2> QED BY <1>2, <2>1, PypiStep DEF RegistriesInv
<1>3. CASE AptNext
  <2>1. adapter = "apt" /\ adapter' = adapter
    BY <1>3 DEF AptNext, PushApt, PushIndex, PushRelease, AnalyzeApt, StartApt, ParseIndex,
       CommitApt, ImportApt, Import, anvars
  <2> QED BY <1>3, <2>1, AptStep DEF RegistriesInv
<1>4. CASE UNCHANGED vars
  <2>1. UNCHANGED <<adapter, step, plan, cursor, catalog, doc, view, scan, serial, project,
                    cached, todo, behind, suite, unread>>
    BY <1>4 DEF vars, anvars, registry, index, archive
  <2>2. NpmInv => NpmInv'
    <3>1. RegistryInv' = RegistryInv /\ FeedInv' = FeedInv /\ WorkInv' = WorkInv
      BY <2>1 DEF RegistryInv, FeedInv, UpdateSeq, WorkInv
    <3>2. MirrorInv' = MirrorInv /\ PlannedInv' = PlannedInv
      BY <2>1 DEF MirrorInv, PlannedInv, Planned, Mirrored, MirroredIn
    <3>3. AllDocsInv' = AllDocsInv /\ EndRootInv' = EndRootInv
      BY <2>1 DEF AllDocsInv, EndRootInv, Planned, Mirrored, MirroredIn, Accounted, FreshRow
    <3>4. ChangesInv' = ChangesInv /\ PackagesInv' = PackagesInv /\ CommittedInv' = CommittedInv
      BY <2>1 DEF ChangesInv, PackagesInv, CommittedInv, Planned, Mirrored, MirroredIn,
                  WillMirror, Accounted, FreshRow
    <3>5. AnalysisInv => AnalysisInv'
      BY <2>1, <3>3, <3>4 DEF AnalysisInv
    <3> QED BY <3>1, <3>2, <3>5 DEF NpmInv
  <2>3. PypiInv => PypiInv'
    BY <2>1 DEF PypiInv
  <2>4. AptInv => AptInv'
    BY <2>1 DEF AptInv, AptMirrorInv, SnapshotInv
  <2>5. adapter' = adapter /\ plan' = plan
    BY <2>1
  <2> QED BY <2>2, <2>3, <2>4, <2>5 DEF RegistriesInv
<1> QED BY <1>1, <1>2, <1>3, <1>4 DEF RegistriesNext

(* What the adapters know of the plan they are drawing up, at every moment *)
(* of every analysis: the invariant the four properties below follow from. *)
THEOREM PlansKeepTheirWord == RegistriesSpec => []RegistriesInv
<1>1. RegistriesInit => RegistriesInv
  BY RegistriesInitially
<1>2. RegistriesInv /\ [RegistriesNext]_vars => RegistriesInv'
  BY RegistriesStep
<1> QED BY <1>1, <1>2, PTL DEF RegistriesSpec, vars

(* NpmFollows: whatever the registry does while the npm adapter reads it,  *)
(* a package whose last change is at or before the mirror's cursor is in   *)
(* the mirror as that change left it.  The pages of _all_docs must hold    *)
(* two rows: one row is the row the page starts with, and enumerateAllDocs *)
(* ends on a page without a new row.                                       *)
THEOREM NpmCursorKeepsItsWord ==
    ASSUME AllDocsPageSize > 1
    PROVE  RegistriesSpec => []NpmFollows
<1>1. RegistriesInv => NpmFollows
  BY DEF RegistriesInv, NpmInv, MirrorInv, Promised, NpmFollows
<1> QED BY <1>1, PlansKeepTheirWord, PTL

(* NpmServable: every version a packument in the mirror lists has its      *)
(* tarball there, because planPackage plans the two together and a removed *)
(* packument leaves its tarballs.                                          *)
THEOREM NpmIsServable == RegistriesSpec => []NpmServable
<1>1. RegistriesInv => NpmServable
  BY DEF RegistriesInv, NpmInv, MirrorInv, NpmServable
<1> QED BY <1>1, PlansKeepTheirWord, PTL

(* PypiServable: every file a project page in the mirror links is in the   *)
(* mirror, however far the cache of the pages is behind the index.         *)
THEOREM PypiIsServable == RegistriesSpec => []PypiServable
<1>1. RegistriesInv => PypiServable
  BY DEF RegistriesInv, PypiInv, PagesOf, PypiServable
<1> QED BY <1>1, PlansKeepTheirWord, PTL

(* SnapshotIsWhole: the indexes in the mirror are those its InRelease      *)
(* signs, with every pool file they list, although the APT adapter reads   *)
(* them one by one while the suite is updated, and plans only what the     *)
(* catalog does not have.                                                  *)
THEOREM AptSnapshotIsWhole == RegistriesSpec => []SnapshotIsWhole
<1>1. RegistriesInv => SnapshotIsWhole
  BY DEF RegistriesInv, AptInv, AptMirrorInv, SnapshotIsWhole
<1> QED BY <1>1, PlansKeepTheirWord, PTL
=============================================================================
