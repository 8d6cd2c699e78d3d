--------------------------- MODULE WorkspaceProofs ---------------------------
(***************************************************************************)
(* Proofs about the workspace of the Internet client, for every plan, any  *)
(* number of batches, packs, directories, workers, calls, interruptions    *)
(* and crashes.  The inductive invariant says what the files, rows and     *)
(* worker of each pack know of each other (PackInv), in every directory    *)
(* its batch has been downloaded to, what the status of a batch promises   *)
(* of its packs and its bundle (BatchInv), and what the planner has done   *)
(* and left alone (PlanInv).                                               *)
(***************************************************************************)
EXTENDS Workspace, FiniteSetTheorems, SequenceTheorems, WellFoundedInduction, TLAPS

Record == [entry : Artifacts, content : Seq(Nat)]
EntryStatuses == {"ABSENT", "PLANNED", "PENDING", "DOWNLOADING", "VERIFIED"}
Filling == {"taken", "fetch", "progress", "verified", "written", "packed", "placed", "located"}
WorkerAt == {"idle", "create", "walk", "done"} \cup Filling
CallAt == {"none", "started", "run", "cancelled", "finalize", "describe", "mark", "ready"}

PackRow == [status : PackStatuses \cup {"ABSENT"}, sha : Seq(Record) \cup {None},
            path : Dirs \cup {None}]
FileRow == [exists : BOOLEAN, header : BOOLEAN, count : Nat, records : Seq(Record)]
WorkerRow == [pc : WorkerAt, i : Nat \ {0}, prefix : Nat, version : Nat, next : Nat]
EntryRow == [pack : Packs \cup {None}, status : EntryStatuses, got : Nat,
             etag : Nat \cup {None}, sha : Seq(Nat) \cup {None}, at : Nat]
Parts == Seq(Nat) \cup {None}

PlanTypes ==
    /\ epoch \in [capsule : Capsules \cup {None}, status : EpochStatuses \cup {"ABSENT"},
                  total : 0..MaxBatches]
    /\ capsule \in [Capsules -> [files : BOOLEAN, importing : BOOLEAN, stored : BOOLEAN,
                                 open : BOOLEAN]]
    /\ analysis \in {"none", "adapter", "planner"}
    /\ analysis = "adapter" => epoch.capsule \in Capsules
    /\ planned \in 0..Len(Order)
    /\ breaks \in 0..MaxBreaks
BatchTypes ==
    /\ batch \in [Batches -> BatchStatuses \cup {"ABSENT"}]
    /\ call \in [Batches -> CallAt]
    /\ dir \in [Batches -> Dirs \cup {None}]
    /\ \A b \in Batches : dir[b] = None <=> call[b] = "none"
    /\ bundle = [x \in Dirs \X Batches |-> [manifest |-> bundle[x].manifest,
                                            descriptor |-> bundle[x].descriptor]]
PackTypes ==
    /\ pack \in [Packs -> PackRow]
    /\ file \in [Dirs \X Packs -> FileRow]
    /\ worker \in [Packs -> WorkerRow]
EntryTypes ==
    /\ entry \in [Artifacts -> EntryRow]
    /\ part \in [Dirs \X Artifacts -> Parts]
    /\ upstream \in [Upstream -> Nat]
    /\ \A a \in Artifacts : entry[a].got <= Size[a]
    /\ \A g \in Dirs \X Artifacts : Offset(g) <= Size[g[2]]
WTypes == PlanTypes /\ BatchTypes /\ PackTypes /\ EntryTypes

-----------------------------------------------------------------------------
(* A pack: in every directory its file holds the records of the first of   *)
(* its artifacts as planned, and the header counts all of them or all but  *)
(* the last; a worker knows how far it is with the file of its call; an    *)
(* artifact it has passed has its digest and its place; a READY row is     *)
(* right about the file it names.                                          *)
RecordOf(a) == [entry |-> a, content |-> Planned(a)]
Holds(f, s) ==
    /\ f.header => f.exists
    /\ ~f.header => Len(f.records) = 0
    /\ f.count <= Len(f.records)
    /\ Len(f.records) <= f.count + 1
    /\ Len(f.records) <= Len(s)
    /\ \A k \in 1..Len(f.records) : f.records[k] = RecordOf(s[k])
FileInv(p) == \A d \in Dirs : Holds(file[<<d, p>>], Entries(p))

Mine(p) == file[Place(p)]
PlacedAt(e, a, s) == e.sha = Planned(a) /\ e.at \in 1..Len(s) /\ s[e.at] = a
Placed(p, a) == PlacedAt(entry[a], a, Entries(p))

(* What worker w knows of file f, of the artifacts s of its pack, of their *)
(* entries en, and of the ".part" file t of the artifact it is at.         *)
Passed(w, s, en) == \A k \in 1..(w.i - 1) : PlacedAt(en[s[k]], s[k], s)
Digested == {"taken", "verified", "written", "packed", "placed", "located"}
Headed == {"packed", "placed", "located"}
Fills(w, f, s, en, t) ==
    LET a == s[w.i] IN
    /\ f.header
    /\ w.i <= Len(s)
    /\ Passed(w, s, en)
    /\ w.pc = "taken" => w.i <= w.prefix
    /\ w.pc \notin {"taken", "located"} => w.i > w.prefix
    /\ w.pc \in {"fetch", "progress", "verified"} => t # None /\ Origin[a] = "upstream"
    /\ w.pc = "verified" => t = Planned(a)
    /\ w.pc \in Digested => en[a].sha = Planned(a)
    /\ w.pc \in {"placed", "located"} => en[a].at = w.i
    /\ f.count = IF w.i <= w.prefix THEN w.prefix
                 ELSE IF w.pc \in Headed THEN w.i ELSE w.i - 1
    /\ Len(f.records) = IF w.i <= w.prefix THEN w.prefix
                        ELSE IF w.pc \in Headed \cup {"written"} THEN w.i ELSE w.i - 1
Walks(w, f, s, en) ==
    /\ f.header
    /\ w.i <= Len(s) + 1
    /\ Passed(w, s, en)
    /\ f.count = IF w.i <= w.prefix THEN w.prefix ELSE w.i - 1
    /\ Len(f.records) = f.count
Creates(w, f) == f.exists /\ ~f.header /\ w.i = 1 /\ w.prefix = 0
Knows(w, f, s, en, t) ==
    /\ w.pc = "idle" => w = Idle
    /\ w.pc = "create" => Creates(w, f)
    /\ w.pc = "walk" => Walks(w, f, s, en)
    /\ w.pc \in Filling => Fills(w, f, s, en, t)
WorkerInv(p) == Knows(worker[p], Mine(p), Entries(p), entry, part[PartHere(p)])

Complete(f, s) == f.header /\ f.count = Len(s) /\ Len(f.records) = Len(s)
ReadyInv(p) ==
    PackReady(p) => /\ pack[p].path \in Dirs
                    /\ Complete(file[<<pack[p].path, p>>], Entries(p))
                    /\ pack[p].sha = file[<<pack[p].path, p>>].records
                    /\ \A a \in InPack(p) : Placed(p, a)
CalledInv(p) ==
    /\ call[BatchOf(p)] \notin {"run", "cancelled"} => worker[p].pc = "idle"
    /\ call[BatchOf(p)] = "run" /\ worker[p].pc = "done" =>
          PackReady(p) /\ pack[p].path = dir[BatchOf(p)]

(* An artifact: its digest is the planned one, and a VERIFIED entry is at  *)
(* its place in its pack, in one of the directories.                       *)
CountedTo(p, n) == \E d \in Dirs : n <= file[<<d, p>>].count
EntryInv(a) ==
    LET e == entry[a] IN
    /\ e.pack # None => e.status # "ABSENT" /\ pack[e.pack].status # "ABSENT"
    /\ e.status # "ABSENT" => /\ e.sha \in {None, Planned(a)}
                              /\ Origin[a] # "upstream" => e.sha = Planned(a)
    /\ e.status = "VERIFIED" => /\ e.pack # None
                                /\ Placed(e.pack, a)
                                /\ CountedTo(e.pack, e.at)
PackInv(p) ==
    /\ FileInv(p) /\ WorkerInv(p) /\ ReadyInv(p) /\ CalledInv(p)
    /\ \A a \in InPack(p) : EntryInv(a)

(* A batch: its status tells what its call may be doing, all its packs are *)
(* READY in one directory when it is verified, and the bundle that is made *)
(* then, maybe in another one, is made of their rows.                      *)
CallFits(b) ==
    /\ call[b] = "started" => batch[b] \in Downloadable
    /\ call[b] \in {"run", "cancelled"} => batch[b] = "DOWNLOADING"
    /\ call[b] \in {"finalize", "describe", "mark"} => batch[b] = "VERIFYING"
    /\ call[b] = "ready" => batch[b] = "READY"
    /\ batch[b] = "READY" => call[b] \in {"none", "ready"}
ReadyIn(b, d) == \A p \in PacksOf(b) : PackReady(p) /\ pack[p].path = d
RowsDescriptor(b) ==
    [exists |-> TRUE, manifest |-> ManifestOf(b),
     packs |-> [p \in PacksOf(b) |-> pack[p].sha], total |-> epoch.total]
BatchInv(b) ==
    /\ CallFits(b)
    /\ batch[b] \in {"VERIFYING", "READY"} => \E d \in Dirs : ReadyIn(b, d)
    /\ call[b] \in {"describe", "mark"} => bundle[Here(b)].manifest = ManifestOf(b)
    /\ call[b] = "mark" => bundle[Here(b)].descriptor = RowsDescriptor(b)
    /\ batch[b] = "READY" => \E d \in Dirs : /\ bundle[<<d, b>>].manifest = ManifestOf(b)
                                             /\ bundle[<<d, b>>].descriptor = RowsDescriptor(b)

(* The plan: nothing of an epoch is downloaded while it is made, and an    *)
(* epoch that says how many batches it has is planned to the end.          *)
Quiet ==
    /\ \A b \in Batches : call[b] = "none" /\ batch[b] \in {"ABSENT", "PLANNED"}
    /\ \A f \in Dirs \X Packs : file[f] = Absent
    /\ \A p \in Packs : worker[p] = Idle /\ pack[p].status \in {"ABSENT", "PLANNED"}
    /\ \A a \in Artifacts : entry[a].status \in {"ABSENT", "PLANNED", "PENDING"}
Assigned(a) == entry[a].status = "ABSENT" \/ entry[a].pack # None
PlanInv ==
    /\ \A p \in Packs : pack[p].status # "ABSENT" => batch[BatchOf(p)] # "ABSENT"
    /\ analysis # "none" => Quiet /\ epoch.total = 0 /\ epoch.status = "PLANNED"
    /\ analysis = "adapter" => planned = 0 /\ \A a \in Artifacts : entry[a] = NoEntry
    /\ analysis = "planner" =>
          /\ \A i \in 1..planned : Assigned(Order[i])
          /\ planned < Len(Order) => \A a \in Artifacts : entry[a].status # "ABSENT"
    /\ epoch.total > 0 => \A a \in Artifacts : Assigned(a)
    /\ epoch.status = "TRANSFERRING" => epoch.total > 0 /\ AllReady

WInv ==
    /\ WTypes
    /\ \A p \in Packs : PackInv(p)
    /\ \A a \in Artifacts : EntryInv(a)
    /\ \A b \in Batches : BatchInv(b)
    /\ PlanInv

-----------------------------------------------------------------------------
(* The artifacts of a pack, in order. *)

(* A set of naturals that has 0 and, with a number, the next one is Nat.   *)
LEMMA Naturally ==
    ASSUME NEW T, T \subseteq Nat, 0 \in T, \A n \in T : n + 1 \in T
    PROVE  T = Nat
<1>1. SUFFICES ASSUME Nat \ T # {} PROVE FALSE
  OBVIOUS
<1>2. IsWellFoundedOn(OpToRel(<, Nat), Nat) /\ Nat \ T \subseteq Nat
  BY NatLessThanWellFounded, Zenon
<1>3. PICK x \in Nat \ T : \A y \in Nat \ T : ~(<<y, x>> \in OpToRel(<, Nat))
  BY <1>1, <1>2, WFMin, Zenon
<1>4. \A y \in Nat \ T : ~(y < x)
  BY <1>3 DEF OpToRel
<1>5. x # 0 /\ x - 1 \in Nat
  OBVIOUS
<1>6. x - 1 \in T
  BY <1>4, <1>5
<1> QED BY <1>6

(* What InOrder collects, step by step. *)
Collected(f, S, n) ==
    IF n = 0 THEN <<>>
    ELSE IF Order[n] \in S THEN Append(f[n - 1], Order[n]) ELSE f[n - 1]
Collects(f, S, n) ==
    /\ f \in [0..n -> Seq(Artifacts)]
    /\ \A k \in 0..n : f[k] = Collected(f, S, k)

LEMMA OrderType ==
    /\ Order \in Seq(Artifacts) /\ Len(Order) \in Nat /\ DOMAIN Order = 1..Len(Order)
    /\ \A n \in 1..Len(Order) : Order[n] \in Artifacts
    /\ \A a \in Artifacts : \E n \in 1..Len(Order) : Order[n] = a
BY DownloadAssumption DEF Artifacts, Range

LEMMA CollectsOneMore ==
    ASSUME NEW S, NEW n \in Nat, n + 1 <= Len(Order), NEW f, Collects(f, S, n)
    PROVE  \E g : Collects(g, S, n + 1)
<1> DEFINE more == IF Order[n + 1] \in S THEN Append(f[n], Order[n + 1]) ELSE f[n]
           g == [k \in 0..(n + 1) |-> IF k = n + 1 THEN more ELSE f[k]]
<1>1. Len(Order) \in Nat /\ n + 1 \in 1..Len(Order) /\ Order[n + 1] \in Artifacts
  BY OrderType
<1>2. n \in 0..n /\ f[n] \in Seq(Artifacts)
  BY DEF Collects
<1>3. more \in Seq(Artifacts)
  BY <1>1, <1>2
<1>4. g \in [0..(n + 1) -> Seq(Artifacts)]
  <2> HIDE DEF more
  <2>1. \A k \in 0..(n + 1) : k # n + 1 => k \in 0..n
    OBVIOUS
  <2> QED BY <1>3, <2>1 DEF Collects
<1>5. ASSUME NEW k \in 0..(n + 1) PROVE g[k] = Collected(g, S, k)
  <2>1. CASE k = n + 1
    <3>1. g[k] = more /\ g[k - 1] = f[n] /\ k # 0
      BY <2>1
    <3> QED BY <3>1, <2>1 DEF Collected
  <2>2. CASE k # n + 1
    <3>1. k \in 0..n
      BY <2>2
    <3>2. g[k] = f[k] /\ (k # 0 => g[k - 1] = f[k - 1])
      BY <3>1
    <3> QED BY <3>1, <3>2 DEF Collected, Collects
  <2> QED BY <2>1, <2>2
<1>6. Collects(g, S, n + 1)
  <2> HIDE DEF g
  <2> QED BY <1>4, <1>5 DEF Collects
<1> QED BY <1>6

LEMMA CollectsAll ==
    ASSUME NEW S
    PROVE  \E f : Collects(f, S, Len(Order))
<1> DEFINE T == {n \in Nat : n <= Len(Order) => \E f : Collects(f, S, n)}
<1>1. 0 \in T
  <2> DEFINE f == [k \in 0..0 |-> <<>>]
  <2>1. f \in [0..0 -> Seq(Artifacts)]
    BY EmptySeq
  <2>2. Collects(f, S, 0)
    BY <2>1 DEF Collected, Collects
  <2> QED BY <2>2
<1>2. ASSUME NEW n \in T PROVE n + 1 \in T
  <2>1. SUFFICES ASSUME n + 1 <= Len(Order) PROVE \E f : Collects(f, S, n + 1)
    OBVIOUS
  <2>2. n \in Nat /\ Len(Order) \in Nat /\ n <= Len(Order)
    BY <2>1, OrderType
  <2>3. PICK f : Collects(f, S, n)
    BY <2>2
  <2> QED BY <2>1, <2>2, <2>3, CollectsOneMore
<1>3. T = Nat
  <2> HIDE DEF T
  <2>1. T \subseteq Nat
    BY DEF T
  <2> QED BY <2>1, <1>1, <1>2, Naturally
<1>4. Len(Order) \in T
  BY <1>3, OrderType
<1> QED BY <1>4, OrderType

(* InOrder lists the artifacts of a set and no others. *)
Lists(s, S, n) ==
    /\ s \in Seq(Artifacts)
    /\ \A k \in 1..Len(s) : s[k] \in S
    /\ \A m \in 1..n : Order[m] \in S => \E k \in 1..Len(s) : s[k] = Order[m]
LEMMA InOrderLists ==
    ASSUME NEW S, S \subseteq Artifacts
    PROVE  /\ InOrder(S) \in Seq(Artifacts)
           /\ \A k \in 1..Len(InOrder(S)) : InOrder(S)[k] \in S
           /\ \A a \in S : \E k \in 1..Len(InOrder(S)) : InOrder(S)[k] = a
<1>1. PICK f : Collects(f, S, Len(Order))
  BY CollectsAll
<1>2. f = [n \in 0..Len(Order) |-> Collected(f, S, n)]
  BY <1>1 DEF Collects
<1>3. PICK up : /\ up = [n \in 0..Len(Order) |-> Collected(up, S, n)]
                /\ InOrder(S) = up[Len(Order)]
  BY <1>2 DEF InOrder, Collected
<1> DEFINE T == {n \in Nat : n <= Len(Order) => Lists(up[n], S, n)}
<1>4. 0 \in T
  <2>1. up[0] = <<>>
    BY <1>3, OrderType DEF Collected
  <2>2. Lists(<<>>, S, 0)
    BY EmptySeq DEF Lists
  <2> QED BY <2>1, <2>2
<1>5. ASSUME NEW n \in T PROVE n + 1 \in T
  <2>1. SUFFICES ASSUME n + 1 <= Len(Order) PROVE Lists(up[n + 1], S, n + 1)
    OBVIOUS
  <2>2. n \in Nat /\ n + 1 \in 1..Len(Order) /\ Order[n + 1] \in Artifacts /\ Len(Order) \in Nat
    BY <2>1, OrderType
  <2>3. PICK s : s = up[n]
    OBVIOUS
  <2>4. Lists(s, S, n)
    BY <2>2, <2>3
  <2>5. up[n + 1] = IF Order[n + 1] \in S THEN Append(s, Order[n + 1]) ELSE s
    <3>1. n + 1 \in 0..Len(Order) /\ n + 1 # 0 /\ (n + 1) - 1 = n
      BY <2>2
    <3>2. up[n + 1] = Collected(up, S, n + 1)
      BY <1>3, <3>1
    <3> QED BY <3>1, <3>2, <2>3 DEF Collected
  <2>6. CASE Order[n + 1] \in S
    <3>1. PICK t : t = Append(s, Order[n + 1])
      OBVIOUS
    <3>2. /\ t \in Seq(Artifacts) /\ Len(t) = Len(s) + 1 /\ Len(s) \in Nat
          /\ \A i \in 1..Len(s) : t[i] = s[i]
          /\ t[Len(s) + 1] = Order[n + 1]
      BY <2>2, <2>4, <3>1, AppendProperties DEF Lists
    <3>3. ASSUME NEW k \in 1..Len(t) PROVE t[k] \in S
      <4>1. k \in 1..Len(s) \/ k = Len(s) + 1
        BY <3>2
      <4>2. \A i \in 1..Len(s) : s[i] \in S
        BY <2>4 DEF Lists
      <4> QED BY <3>2, <4>1, <4>2, <2>6
    <3>4. ASSUME NEW m \in 1..(n + 1), Order[m] \in S
          PROVE  \E k \in 1..Len(t) : t[k] = Order[m]
      <4>1. CASE m = n + 1
        <5>1. Len(t) \in 1..Len(t) /\ t[Len(t)] = Order[m]
          BY <3>2, <4>1
        <5> QED BY <5>1
      <4>2. CASE m # n + 1
        <5>1. PICK k \in 1..Len(s) : s[k] = Order[m]
          BY <4>2, <3>4, <2>4, <2>2 DEF Lists
        <5>2. k \in 1..Len(t) /\ t[k] = Order[m]
          BY <3>2, <5>1
        <5> QED BY <5>2
      <4> QED BY <4>1, <4>2
    <3> QED BY <2>5, <2>6, <3>1, <3>2, <3>3, <3>4 DEF Lists
  <2>7. CASE Order[n + 1] \notin S
    <3>1. \A m \in 1..(n + 1) : Order[m] \in S => m \in 1..n
      BY <2>7, <2>2
    <3> QED BY <2>4, <2>5, <2>7, <3>1 DEF Lists
  <2> QED BY <2>6, <2>7
<1>6. T = Nat
  <2> HIDE DEF T
  <2>1. T \subseteq Nat
    BY DEF T
  <2> QED BY <2>1, <1>4, <1>5, Naturally
<1>7. Lists(InOrder(S), S, Len(Order))
  <2>1. Len(Order) \in T
    BY <1>6, OrderType
  <2>2. Lists(up[Len(Order)], S, Len(Order))
    BY <2>1, OrderType
  <2> QED BY <2>2, <1>3
<1>8. ASSUME NEW a \in S PROVE \E k \in 1..Len(InOrder(S)) : InOrder(S)[k] = a
  <2>1. PICK n \in 1..Len(Order) : Order[n] = a
    BY OrderType
  <2> QED BY <1>7, <2>1 DEF Lists
<1> QED BY <1>7, <1>8 DEF Lists

(* The artifacts of a pack are those assigned to it, and as long as the    *)
(* assignment stands they are the same.                                    *)
LEMMA EntriesOf ==
    ASSUME NEW p
    PROVE  /\ Entries(p) \in Seq(Artifacts) /\ Len(Entries(p)) \in Nat
           /\ DOMAIN Entries(p) = 1..Len(Entries(p))
           /\ \A k \in 1..Len(Entries(p)) : Entries(p)[k] \in InPack(p)
           /\ \A a \in InPack(p) : \E k \in 1..Len(Entries(p)) : Entries(p)[k] = a
<1>1. InPack(p) \subseteq Artifacts
  BY DEF InPack
<1>2. PICK S : S = InPack(p)
  OBVIOUS
<1>3. Entries(p) = InOrder(S)
  BY <1>2 DEF Entries
<1> QED BY <1>1, <1>2, <1>3, InOrderLists

LEMMA EntriesStay ==
    ASSUME NEW p, \A a \in Artifacts : entry[a].pack = p <=> entry'[a].pack = p
    PROVE  InPack(p)' = InPack(p) /\ Entries(p)' = Entries(p)
<1>1. InPack(p)' = InPack(p)
  BY DEF InPack
<1> QED BY <1>1 DEF Entries
LEMMA Constants ==
    /\ MaxBatches \in Nat \ {0} /\ MaxPacks \in Nat \ {0} /\ MaxBreaks \in Nat
    /\ ProgressEvery \in Nat
    /\ \A a \in Artifacts : /\ Size[a] \in Nat /\ Planned(a) \in Seq(Nat)
                            /\ Len(Planned(a)) = Size[a]
                            /\ Origin[a] = "delete" => Planned(a) = <<>>
    /\ \A p \in Packs : p # None /\ BatchOf(p) \in Batches
    /\ \A b \in Batches : \A k \in 1..MaxPacks : <<b, k>> \in Packs
    /\ \A d \in Dirs : d # None
<1>1. ASSUME NEW a \in Artifacts
      PROVE  /\ Size[a] \in Nat /\ Planned(a) \in Seq(Nat)
             /\ Len(Planned(a)) = Size[a]
             /\ Origin[a] = "delete" => Planned(a) = <<>>
  <2>1. Size[a] \in Nat
    BY DownloadAssumption
  <2>2. Planned(a) \in Seq(Nat) /\ Len(Planned(a)) = Size[a]
    BY <2>1 DEF Planned
  <2>3. Origin[a] = "delete" => Size[a] = 0
    BY DownloadAssumption
  <2>4. Size[a] = 0 => Planned(a) = <<>>
    BY <2>2, EmptySeq
  <2> QED BY <2>1, <2>2, <2>3, <2>4
<1>2. \A p \in Packs : p # None /\ BatchOf(p) \in Batches
  BY DownloadAssumption DEF Packs, BatchOf
<1>3. \A d \in Dirs : d # None
  BY DownloadAssumption
<1> QED
  BY <1>1, <1>2, <1>3, DownloadAssumption DEF Packs, Batches

(* The rows and files of a pack whose batch is being downloaded. *)
Acting(p, w, f, s) ==
    /\ w = worker[p] /\ f = Mine(p) /\ s = Entries(p)
    /\ w \in WorkerRow /\ f \in FileRow /\ pack[p] \in PackRow
    /\ s \in Seq(Artifacts) /\ Len(s) \in Nat
    /\ \A k \in 1..Len(s) : s[k] \in InPack(p)
    /\ \A x \in InPack(p) : \E k \in 1..Len(s) : s[k] = x
    /\ Place(p) \in Dirs \X Packs /\ Place(p) = <<dir[BatchOf(p)], p>>
    /\ dir[BatchOf(p)] \in Dirs
    /\ Holds(f, s) /\ Knows(w, f, s, entry, part[PartHere(p)])
    /\ \A x \in InPack(p) : /\ x \in Artifacts /\ entry[x] \in EntryRow /\ entry[x].pack = p
                            /\ entry[x].status # "ABSENT"
                            /\ entry[x].sha \in {None, Planned(x)}
                            /\ Origin[x] # "upstream" => entry[x].sha = Planned(x)
                            /\ PartOf(p, x) \in Dirs \X Artifacts

LEMMA RowsOf ==
    ASSUME WInv, NEW p \in Packs
    PROVE  /\ worker[p] \in WorkerRow /\ pack[p] \in PackRow
           /\ PackInv(p) /\ WTypes /\ BatchOf(p) \in Batches /\ BatchInv(BatchOf(p))
           /\ worker[p].pc # "idle" => call[BatchOf(p)] \in {"run", "cancelled"}
<1>1. BatchOf(p) \in Batches
  BY Constants
<1> QED BY <1>1 DEF WInv, PackInv, WTypes, PackTypes, CalledInv

LEMMA Acts ==
    ASSUME WInv, NEW p \in Packs, call[BatchOf(p)] # "none"
    PROVE  \E w, f, s : Acting(p, w, f, s)
<1>1. /\ worker[p] \in WorkerRow /\ pack[p] \in PackRow /\ WTypes /\ BatchOf(p) \in Batches
      /\ PackInv(p)
  BY RowsOf
<1>2. dir[BatchOf(p)] \in Dirs
  BY <1>1 DEF WTypes, BatchTypes
<1>3. Place(p) = <<dir[BatchOf(p)], p>> /\ Place(p) \in Dirs \X Packs
  BY <1>2 DEF Place
<1>4. Mine(p) \in FileRow
  BY <1>1, <1>3 DEF Mine, WTypes, PackTypes
<1>5. Holds(Mine(p), Entries(p))
  BY <1>1, <1>2, <1>3 DEF PackInv, FileInv, Mine
<1>6. Knows(worker[p], Mine(p), Entries(p), entry, part[PartHere(p)])
  BY <1>1 DEF PackInv, WorkerInv
<1>7. ASSUME NEW x \in InPack(p)
      PROVE  /\ x \in Artifacts /\ entry[x] \in EntryRow /\ entry[x].pack = p
             /\ entry[x].status # "ABSENT"
             /\ entry[x].sha \in {None, Planned(x)}
             /\ Origin[x] # "upstream" => entry[x].sha = Planned(x)
             /\ PartOf(p, x) \in Dirs \X Artifacts
  <2>1. x \in Artifacts /\ entry[x].pack = p /\ entry[x] \in EntryRow /\ p # None
    BY <1>1, Constants DEF InPack, WTypes, EntryTypes
  <2>2. EntryInv(x)
    BY <1>1 DEF PackInv
  <2> QED BY <1>2, <2>1, <2>2 DEF EntryInv, PartOf
<1> QED BY <1>1, <1>2, <1>3, <1>4, <1>5, <1>6, <1>7, EntriesOf DEF Acting

Moves(p, w, pc, i) ==
    /\ w = worker'[p] /\ w \in WorkerRow
    /\ w.pc = pc /\ w.i = i /\ w.prefix = worker[p].prefix
WorkersMove(p) ==
    /\ worker' \in [Packs -> WorkerRow]
    /\ \A q \in Packs : q # p => worker'[q] = worker[q]
FilesMove(p) ==
    /\ file' \in [Dirs \X Packs -> FileRow]
    /\ \A g \in Dirs \X Packs : g # Place(p) => file'[g] = file[g]
EntriesMove(p) ==
    /\ entry' \in [Artifacts -> EntryRow]
    /\ \A x \in Artifacts : /\ entry'[x].pack = entry[x].pack
                            /\ entry'[x].status = "ABSENT" <=> entry[x].status = "ABSENT"
                            /\ entry'[x].got <= Size[x]
                            /\ x \notin InPack(p) => entry'[x] = entry[x]
PartsMove(p) ==
    /\ part' \in [Dirs \X Artifacts -> Parts]
    /\ \A g \in Dirs \X Artifacts : /\ Offset(g)' <= Size[g[2]]
                                    /\ g[2] \notin InPack(p) => part'[g] = part[g]

LEMMA Unmoved ==
    ASSUME WTypes, NEW p \in Packs
    PROVE  /\ file' = file => FilesMove(p)
           /\ entry' = entry => EntriesMove(p)
           /\ part' = part => PartsMove(p)
BY DEF WTypes, PackTypes, EntryTypes, FilesMove, EntriesMove, PartsMove, Offset

LEMMA WorkerSets ==
    ASSUME WTypes, NEW p \in Packs, NEW w \in WorkerRow, worker' = [worker EXCEPT ![p] = w]
    PROVE  WorkersMove(p) /\ worker'[p] = w
BY DEF WTypes, PackTypes, WorkersMove

LEMMA WorkerSteps ==
    ASSUME WTypes, NEW p \in Packs, NEW pc \in WorkerAt, Step(p, pc)
    PROVE  WorkersMove(p) /\ \E w : Moves(p, w, pc, worker[p].i)
<1>1. worker[p] \in WorkerRow
  BY DEF WTypes, PackTypes
<1>2. PICK w : w = [worker[p] EXCEPT !.pc = pc]
  OBVIOUS
<1>3. worker' = [worker EXCEPT ![p] = w]
  BY <1>2 DEF Step, WTypes, PackTypes
<1>4. w \in WorkerRow /\ w.pc = pc /\ w.i = worker[p].i /\ w.prefix = worker[p].prefix
  BY <1>1, <1>2 DEF WorkerRow
<1> QED BY <1>3, <1>4, WorkerSets DEF Moves

LEMMA WorkerWalksOn ==
    ASSUME WTypes, NEW p \in Packs, NextArtifact(p)
    PROVE  WorkersMove(p) /\ \E w : Moves(p, w, "walk", worker[p].i + 1)
<1>1. worker[p] \in WorkerRow
  BY DEF WTypes, PackTypes
<1>2. PICK j, n : j = worker[p].i + 1 /\ n = worker[p].prefix
  OBVIOUS
<1>3. PICK w : w = [Idle EXCEPT !.pc = "walk", !.i = j, !.prefix = n]
  OBVIOUS
<1>4. worker' = [worker EXCEPT ![p] = w]
  BY <1>2, <1>3 DEF NextArtifact
<1>5. w = [pc |-> "walk", i |-> j, prefix |-> n, version |-> 0, next |-> 0]
  BY <1>3 DEF Idle
<1>6. "walk" \in WorkerAt /\ j \in Nat \ {0} /\ n \in Nat
  BY <1>1, <1>2 DEF WorkerAt, WorkerRow
<1>7. w \in WorkerRow /\ w.pc = "walk" /\ w.i = worker[p].i + 1 /\ w.prefix = worker[p].prefix
  BY <1>2, <1>5, <1>6 DEF WorkerRow
<1> QED BY <1>4, <1>7, WorkerSets DEF Moves

LEMMA WorkerStops ==
    ASSUME WTypes, NEW p \in Packs
    PROVE  /\ Stops(p) => WorkersMove(p) /\ worker'[p].pc = "done"
           /\ worker' = [worker EXCEPT ![p] = Idle] => WorkersMove(p) /\ worker'[p] = Idle
<1>1. [Idle EXCEPT !.pc = "done"] \in WorkerRow /\ Idle \in WorkerRow
  BY DEF Idle, WorkerRow, WorkerAt
<1>2. [Idle EXCEPT !.pc = "done"].pc = "done"
  BY DEF Idle
<1> QED BY <1>1, <1>2, WorkerSets DEF Stops

LEMMA FileSets ==
    ASSUME WTypes, NEW p \in Packs, Place(p) \in Dirs \X Packs, NEW f \in FileRow,
           file' = [file EXCEPT ![Place(p)] = f]
    PROVE  FilesMove(p) /\ file'[Place(p)] = f
BY DEF WTypes, PackTypes, FilesMove

LEMMA EntrySets ==
    ASSUME WTypes, NEW p \in Packs, NEW a \in InPack(p), NEW e \in EntryRow,
           e.pack = p, e.got <= Size[a], e.status = "ABSENT" <=> entry[a].status = "ABSENT",
           entry' = [entry EXCEPT ![a] = e]
    PROVE  EntriesMove(p) /\ entry'[a] = e /\ \A x \in Artifacts : x # a => entry'[x] = entry[x]
<1>1. a \in Artifacts /\ entry[a].pack = p
  BY DEF InPack
<1>2. /\ entry' \in [Artifacts -> EntryRow] /\ entry'[a] = e
      /\ \A x \in Artifacts : x # a => entry'[x] = entry[x]
  BY <1>1 DEF WTypes, EntryTypes
<1> QED BY <1>1, <1>2 DEF WTypes, EntryTypes, EntriesMove

LEMMA PartSets ==
    ASSUME WTypes, NEW p \in Packs, NEW a \in InPack(p), PartOf(p, a) \in Dirs \X Artifacts,
           NEW c \in Parts, c # None => Len(c) <= Size[a],
           part' = [part EXCEPT ![PartOf(p, a)] = c]
    PROVE  PartsMove(p) /\ part'[PartOf(p, a)] = c
<1>0. PICK g : g = PartOf(p, a)
  OBVIOUS
<1>1. g[2] = a /\ a \in Artifacts /\ Size[a] \in Nat
  BY <1>0, Constants DEF PartOf, InPack
<1>2. /\ part' \in [Dirs \X Artifacts -> Parts] /\ part'[g] = c
      /\ \A h \in Dirs \X Artifacts : h # g => part'[h] = part[h]
  BY <1>0 DEF WTypes, EntryTypes
<1>3. Offset(g)' <= Size[g[2]]
  BY <1>1, <1>2 DEF Offset
<1>4. \A h \in Dirs \X Artifacts : h # g => Offset(h)' <= Size[h[2]]
  BY <1>2 DEF Offset, WTypes, EntryTypes
<1> QED BY <1>0, <1>1, <1>2, <1>3, <1>4 DEF PartsMove

-----------------------------------------------------------------------------
(* What a step leaves alone *)

(* The rows and the files of a pack stay as they are. *)
SameData(p) ==
    /\ \A d \in Dirs : file'[<<d, p>>] = file[<<d, p>>]
    /\ pack'[p] = pack[p]
    /\ \A a \in Artifacts : entry'[a].pack = p <=> entry[a].pack = p
    /\ \A a \in InPack(p) : /\ entry'[a] = entry[a]
                            /\ \A d \in Dirs : part'[<<d, a>>] = part[<<d, a>>]

LEMMA DataStays ==
    ASSUME WTypes, NEW p \in Packs, SameData(p)
    PROVE  /\ InPack(p)' = InPack(p) /\ Entries(p)' = Entries(p)
           /\ PackReady(p)' = PackReady(p)
           /\ (p \in PacksOf(BatchOf(p)))' <=> p \in PacksOf(BatchOf(p))
           /\ FileInv(p) => FileInv(p)'
           /\ ReadyInv(p) => ReadyInv(p)'
           /\ (\A a \in InPack(p) : EntryInv(a)) => (\A a \in InPack(p) : EntryInv(a))'
<1>1. InPack(p)' = InPack(p) /\ Entries(p)' = Entries(p)
  BY EntriesStay DEF SameData
<1>2. FileInv(p) => FileInv(p)'
  <2>1. \A d \in Dirs : file'[<<d, p>>] = file[<<d, p>>]
    BY DEF SameData
  <2> QED BY <1>1, <2>1 DEF FileInv, Holds, RecordOf, Planned
<1>3. ASSUME NEW a \in InPack(p) PROVE Placed(p, a)' <=> Placed(p, a)
  BY <1>1 DEF SameData, Placed, PlacedAt, Planned
<1>4. PackReady(p)' = PackReady(p)
  BY DEF SameData, PackReady
<1>5. ReadyInv(p) => ReadyInv(p)'
  <2> SUFFICES ASSUME ReadyInv(p), PackReady(p) PROVE ReadyInv(p)'
    BY <1>4 DEF ReadyInv
  <2>1. PICK d : d = pack[p].path
    OBVIOUS
  <2>2. /\ d \in Dirs /\ Complete(file[<<d, p>>], Entries(p))
        /\ pack[p].sha = file[<<d, p>>].records
        /\ \A a \in InPack(p) : Placed(p, a)
    BY <2>1 DEF ReadyInv
  <2>3. file'[<<d, p>>] = file[<<d, p>>] /\ pack'[p] = pack[p]
    BY <2>2 DEF SameData
  <2>4. (\A a \in InPack(p) : Placed(p, a))'
    BY <1>1, <1>3, <2>2
  <2>5. Complete(file'[<<d, p>>], Entries(p)')
    BY <1>1, <2>2, <2>3
  <2> QED BY <2>1, <2>2, <2>3, <2>4, <2>5 DEF ReadyInv, Complete
<1>6. ASSUME NEW a \in InPack(p), EntryInv(a)
      PROVE  EntryInv(a)'
  <2>1. entry'[a] = entry[a] /\ entry[a].pack = p /\ pack'[p] = pack[p]
    BY DEF SameData, InPack
  <2>2. Planned(a)' = Planned(a)
    BY DEF Planned
  <2>3. Placed(p, a)' <=> Placed(p, a)
    BY <1>3
  <2>4. \A n : CountedTo(p, n) => CountedTo(p, n)'
    BY DEF SameData, CountedTo
  <2>5. CountedTo(p, entry[a].at) => CountedTo(p, entry[a].at)'
    BY <2>1, <2>4 DEF SameData, CountedTo
  <2> QED BY <1>6, <2>1, <2>2, <2>3, <2>5 DEF EntryInv
<1> QED BY <1>1, <1>2, <1>4, <1>5, <1>6 DEF SameData, PacksOf

(* A worker whose pack and row stay knows what it knew; one that rests has *)
(* nothing to know.                                                        *)
LEMMA WorkerStays ==
    ASSUME WTypes, NEW p \in Packs, SameData(p), WorkerInv(p),
           \/ worker'[p] = worker[p] /\ dir'[BatchOf(p)] = dir[BatchOf(p)]
                                     /\ dir[BatchOf(p)] \in Dirs
           \/ worker'[p] = Idle
           \/ worker'[p].pc = "done"
    PROVE  WorkerInv(p)'
<1>1. InPack(p)' = InPack(p) /\ Entries(p)' = Entries(p)
  BY DataStays
<1>2. CASE worker'[p] = Idle \/ worker'[p].pc = "done"
  BY <1>2 DEF WorkerInv, Knows, Filling, Idle
<1>3. CASE worker'[p] = worker[p] /\ dir'[BatchOf(p)] = dir[BatchOf(p)]
           /\ dir[BatchOf(p)] \in Dirs
  <2>1. PICK w, f, s, t : /\ w = worker[p] /\ f = Mine(p) /\ s = Entries(p)
                          /\ t = part[PartHere(p)]
    OBVIOUS
  <2>2. Mine(p)' = f /\ worker'[p] = w /\ Entries(p)' = s
    BY <1>1, <1>3, <2>1 DEF Mine, Place, SameData
  <2>3. w \in WorkerRow /\ s \in Seq(Artifacts) /\ Len(s) \in Nat
    BY <2>1, EntriesOf DEF WTypes, PackTypes
  <2>4. \A k \in 1..Len(s) : s[k] \in InPack(p) /\ entry'[s[k]] = entry[s[k]]
    BY <2>1, EntriesOf DEF SameData
  <2>5. w.i <= Len(s) + 1 /\ Passed(w, s, entry) => Passed(w, s, entry')
    <3>1. \A k \in 1..(w.i - 1) : w.i <= Len(s) + 1 => k \in 1..Len(s)
      BY <2>3 DEF WorkerRow
    <3> QED BY <2>4, <3>1 DEF Passed
  <2>6. ASSUME w.i <= Len(s) PROVE part[PartHere(p)]' = t /\ entry'[s[w.i]] = entry[s[w.i]]
    <3>1. s[w.i] \in InPack(p) /\ w.i \in 1..Len(s)
      BY <2>3, <2>4, <2>6 DEF WorkerRow
    <3>2. PartHere(p)' = PartHere(p) /\ PartHere(p) = <<dir[BatchOf(p)], s[w.i]>>
      BY <1>1, <1>3, <2>1 DEF PartHere, PartOf, Current
    <3> QED BY <1>3, <2>1, <2>4, <3>1, <3>2 DEF SameData
  <2>7. Walks(w, f, s, entry) => Walks(w, f, s, entry')
    BY <2>5 DEF Walks
  <2>8. Fills(w, f, s, entry, t) => Fills(w, f, s, entry', part[PartHere(p)]')
    <3> SUFFICES ASSUME Fills(w, f, s, entry, t)
                 PROVE  Fills(w, f, s, entry', part[PartHere(p)]')
      OBVIOUS
    <3>1. w.i <= Len(s) /\ Passed(w, s, entry) /\ w.i <= Len(s) + 1
      BY <2>3 DEF Fills, WorkerRow
    <3>2. Passed(w, s, entry') /\ part[PartHere(p)]' = t /\ entry'[s[w.i]] = entry[s[w.i]]
      BY <2>5, <2>6, <3>1
    <3> QED BY <3>2 DEF Fills
  <2>9. Knows(w, f, s, entry', part[PartHere(p)]')
    BY <2>1, <2>7, <2>8 DEF WorkerInv, Knows
  <2> QED BY <2>2, <2>9
     DEF WorkerInv, Knows, Creates, Walks, Fills, Passed, PlacedAt, Planned
<1> QED BY <1>2, <1>3

(* The rows of a batch stay as they are when those of its packs do. *)
LEMMA RowsOfBatchStay ==
    ASSUME WTypes, NEW b \in Batches, epoch'.total = epoch.total,
           \A p \in Packs : BatchOf(p) = b => SameData(p)
    PROVE  /\ PacksOf(b)' = PacksOf(b) /\ ManifestOf(b)' = ManifestOf(b)
           /\ RowsDescriptor(b)' = RowsDescriptor(b)
           /\ \A d : ReadyIn(b, d)' <=> ReadyIn(b, d)
<1>1. \A p \in Packs : BatchOf(p) = b => pack'[p] = pack[p]
  BY DEF SameData
<1>2. PacksOf(b)' = PacksOf(b)
  BY <1>1 DEF PacksOf
<1>3. \A p \in PacksOf(b) : p \in Packs /\ BatchOf(p) = b
  BY DEF PacksOf
<1>4. ASSUME NEW a \in Artifacts
      PROVE  /\ (entry[a].pack \in PacksOf(b))' <=> entry[a].pack \in PacksOf(b)
             /\ entry[a].pack \in PacksOf(b) => entry'[a] = entry[a]
  <2>1. ASSUME NEW p \in PacksOf(b) PROVE entry'[a].pack = p <=> entry[a].pack = p
    BY <1>3 DEF SameData
  <2>2. ASSUME entry[a].pack \in PacksOf(b) PROVE entry'[a] = entry[a]
    <3>1. PICK p \in PacksOf(b) : p = entry[a].pack
      BY <2>2
    <3> QED BY <1>3, <3>1 DEF SameData, InPack
  <2> QED BY <1>2, <2>1, <2>2
<1>5. ManifestOf(b)' = ManifestOf(b)
  <2>1. PICK S : S = {x \in Artifacts : entry[x].pack \in PacksOf(b)}
    OBVIOUS
  <2>2. S = {x \in Artifacts : entry[x].pack \in PacksOf(b)}'
    BY <1>4, <2>1
  <2>3. \A a \in S : entry'[a] = entry[a]
    BY <1>4, <2>1
  <2> QED BY <2>1, <2>2, <2>3 DEF ManifestOf
<1>6. RowsDescriptor(b)' = RowsDescriptor(b)
  <2>1. [p \in PacksOf(b) |-> pack[p].sha]' = [p \in PacksOf(b) |-> pack[p].sha]
    BY <1>1, <1>2, <1>3
  <2> QED BY <1>5, <2>1 DEF RowsDescriptor
<1>7. \A d : ReadyIn(b, d)' <=> ReadyIn(b, d)
  BY <1>1, <1>2, <1>3 DEF ReadyIn, PackReady
<1> QED BY <1>2, <1>5, <1>6, <1>7

(* A batch stays as good as it was when neither its row nor its bundle     *)
(* changes, and, once it is verified, none of its packs does.              *)
LEMMA BatchStays ==
    ASSUME WTypes, NEW b \in Batches, BatchInv(b), CallFits(b)',
           batch'[b] = batch[b], epoch'.total = epoch.total,
           \A d \in Dirs : bundle'[<<d, b>>] = bundle[<<d, b>>],
           call'[b] \in {"describe", "mark"} => /\ call'[b] = call[b]
                                                /\ dir'[b] = dir[b] /\ dir[b] \in Dirs,
           batch[b] \in {"VERIFYING", "READY"} =>
               \A p \in Packs : BatchOf(p) = b => SameData(p)
    PROVE  BatchInv(b)'
<1>1. CASE batch[b] \notin {"VERIFYING", "READY"}
  BY <1>1 DEF BatchInv, CallFits
<1>2. CASE batch[b] \in {"VERIFYING", "READY"}
  <2>1. /\ ManifestOf(b)' = ManifestOf(b) /\ RowsDescriptor(b)' = RowsDescriptor(b)
        /\ \A d : ReadyIn(b, d)' <=> ReadyIn(b, d)
    BY <1>2, RowsOfBatchStay
  <2>2. \E d \in Dirs : ReadyIn(b, d)'
    BY <1>2, <2>1 DEF BatchInv
  <2>3. call'[b] \in {"describe", "mark"} => bundle[Here(b)]' = bundle[Here(b)]
    BY DEF Here
  <2>4. call'[b] \in {"describe", "mark"} => (bundle[Here(b)].manifest = ManifestOf(b))'
    BY <2>1, <2>3 DEF BatchInv
  <2>5. call'[b] = "mark" => (bundle[Here(b)].descriptor = RowsDescriptor(b))'
    BY <2>1, <2>3 DEF BatchInv
  <2>6. batch'[b] = "READY" => \E d \in Dirs :
            /\ (bundle[<<d, b>>].manifest = ManifestOf(b))'
            /\ (bundle[<<d, b>>].descriptor = RowsDescriptor(b))'
    BY <2>1 DEF BatchInv
  <2> QED BY <2>2, <2>4, <2>5, <2>6 DEF BatchInv
<1> QED BY <1>1, <1>2

(* The step of a worker: it moves itself, its file and row, and the entry  *)
(* and the ".part" file of its artifacts; an error cancels its call.       *)
CallKeeps(b) ==
    \/ call'[b] = call[b]
    \/ call[b] \in {"run", "cancelled"} /\ call'[b] = "cancelled"
OwnStep(p) ==
    /\ UNCHANGED <<epoch, batch, bundle, dir, upstream, breaks, capsule, analysis, planned>>
    /\ \A q \in Packs : q # p => worker'[q] = worker[q] /\ pack'[q] = pack[q]
    /\ pack[p].status # "ABSENT" => pack'[p].status # "ABSENT"
    /\ FilesMove(p) /\ EntriesMove(p) /\ PartsMove(p)
    /\ \A b \in Batches : CallKeeps(b)

LEMMA OthersSame ==
    ASSUME WTypes, NEW p \in Packs, OwnStep(p), NEW q \in Packs, q # p
    PROVE  SameData(q)
<1>1. \A a \in InPack(q) : a \in Artifacts /\ a \notin InPack(p)
  BY DEF InPack
<1>2. \A d \in Dirs : <<d, q>> \in Dirs \X Packs /\ <<d, q>> # Place(p)
  BY DEF Place
<1>3. \A a \in InPack(q), d \in Dirs : <<d, a>> \in Dirs \X Artifacts /\ <<d, a>>[2] = a
  BY <1>1
<1>4. \A d \in Dirs : file'[<<d, q>>] = file[<<d, q>>]
  BY <1>2 DEF OwnStep, FilesMove
<1>5. \A a \in InPack(q) : /\ entry'[a] = entry[a]
                           /\ \A d \in Dirs : part'[<<d, a>>] = part[<<d, a>>]
  BY <1>1, <1>3 DEF OwnStep, EntriesMove, PartsMove
<1> QED BY <1>4, <1>5 DEF OwnStep, SameData, EntriesMove


LEMMA OwnStepKeeps ==
    ASSUME WInv, NEW p \in Packs, OwnStep(p), WTypes', PackInv(p)',
           call[BatchOf(p)] \in {"run", "cancelled"}
    PROVE  WInv'
<1>0. WTypes /\ PlanInv
  BY DEF WInv
<1>1. ASSUME NEW q \in Packs PROVE PackInv(q)'
  <2>1. CASE q = p
    BY <2>1
  <2>2. CASE q # p
    <3>1. SameData(q) /\ worker'[q] = worker[q] /\ PackInv(q)
      BY <1>0, <2>2, OthersSame DEF OwnStep, WInv
    <3>2. \/ dir'[BatchOf(q)] = dir[BatchOf(q)] /\ dir[BatchOf(q)] \in Dirs
          \/ worker'[q] = Idle
      <4>1. dir' = dir /\ BatchOf(q) \in Batches
        BY Constants DEF OwnStep
      <4>2. dir[BatchOf(q)] \notin Dirs => call[BatchOf(q)] = "none"
        BY <1>0, <4>1 DEF WTypes, BatchTypes
      <4>3. call[BatchOf(q)] = "none" => worker[q].pc = "idle"
        BY <3>1 DEF PackInv, CalledInv
      <4>4. worker[q].pc = "idle" => worker[q] = Idle
        BY <3>1 DEF PackInv, WorkerInv, Knows
      <4> QED BY <3>1, <4>1, <4>2, <4>3, <4>4
    <3>3. FileInv(q)' /\ ReadyInv(q)' /\ (\A a \in InPack(q) : EntryInv(a))'
      BY <1>0, <3>1, DataStays DEF PackInv
    <3>4. WorkerInv(q)'
      BY <1>0, <3>1, <3>2, WorkerStays DEF PackInv
    <3>5. CallKeeps(BatchOf(q))
      BY Constants DEF OwnStep
    <3>6. CalledInv(q)'
      <4>1. PackReady(q)' = PackReady(q)
        BY <1>0, <3>1, DataStays
      <4>2. pack'[q] = pack[q] /\ dir' = dir
        BY <3>1 DEF OwnStep, SameData
      <4> QED BY <3>1, <3>5, <4>1, <4>2 DEF PackInv, CalledInv, CallKeeps
    <3> QED BY <3>3, <3>4, <3>6 DEF PackInv
  <2> QED BY <2>1, <2>2
<1>2. ASSUME NEW a \in Artifacts PROVE EntryInv(a)'
  <2>1. CASE entry[a].pack = None
    <3>1. entry'[a] = entry[a]
      BY <2>1, Constants DEF OwnStep, EntriesMove, InPack
    <3>2. EntryInv(a) /\ Planned(a)' = Planned(a)
      BY DEF WInv, Planned
    <3> QED BY <2>1, <3>1, <3>2 DEF EntryInv
  <2>2. CASE entry[a].pack # None
    <3>1. PICK q \in Packs : entry[a].pack = q
      BY <1>0, <2>2 DEF WTypes, EntryTypes, EntryRow
    <3>2. a \in InPack(q)'
      BY <3>1 DEF OwnStep, EntriesMove, InPack
    <3> QED BY <1>1, <3>2 DEF PackInv
  <2> QED BY <2>1, <2>2
<1>3. ASSUME NEW b \in Batches PROVE BatchInv(b)'
  <2>1. BatchInv(b) /\ CallKeeps(b)
    BY DEF WInv, OwnStep
  <2>2. /\ batch'[b] = batch[b] /\ epoch'.total = epoch.total
        /\ \A d \in Dirs : bundle'[<<d, b>>] = bundle[<<d, b>>]
    BY DEF OwnStep
  <2>3. CallFits(b)'
    BY <2>1, <2>2 DEF BatchInv, CallFits, CallKeeps
  <2>4. call'[b] \in {"describe", "mark"} =>
            call'[b] = call[b] /\ dir'[b] = dir[b] /\ dir[b] \in Dirs
    <3>1. call'[b] \in {"describe", "mark"} => call'[b] = call[b]
      BY <2>1 DEF CallKeeps
    <3> QED BY <1>0, <3>1 DEF OwnStep, WTypes, BatchTypes
  <2>5. ASSUME batch[b] \in {"VERIFYING", "READY"}, NEW q \in Packs, BatchOf(q) = b
        PROVE  SameData(q)
    <3>1. batch[BatchOf(p)] = "DOWNLOADING"
      BY Constants DEF WInv, BatchInv, CallFits
    <3>2. q # p
      BY <2>5, <3>1
    <3> QED BY <1>0, <3>2, OthersSame
  <2> QED BY <1>0, <2>1, <2>2, <2>3, <2>4, <2>5, BatchStays
<1>4. PlanInv'
  <2>1. analysis = "none"
    BY <1>0, Constants DEF PlanInv, Quiet
  <2>2. UNCHANGED <<epoch, batch, analysis>>
    BY DEF OwnStep
  <2>3. AllReady' = AllReady
    BY <2>2 DEF AllReady, EveryRowReady, PlannedBatches
  <2>4. \A a \in Artifacts : Assigned(a)' <=> Assigned(a)
    BY DEF OwnStep, EntriesMove, Assigned
  <2>5. \A q \in Packs : pack'[q].status # "ABSENT" => batch'[BatchOf(q)] # "ABSENT"
    <3>1. batch[BatchOf(p)] = "DOWNLOADING"
      BY Constants DEF WInv, BatchInv, CallFits
    <3>2. \A q \in Packs : q # p => pack'[q] = pack[q]
      BY DEF OwnStep
    <3> QED BY <1>0, <2>2, <3>1, <3>2 DEF PlanInv
  <2> QED BY <1>0, <2>1, <2>2, <2>3, <2>4, <2>5 DEF PlanInv
<1> QED BY <1>1, <1>2, <1>3, <1>4 DEF WInv

-----------------------------------------------------------------------------
(* The step of a worker that goes on *)

WStep(p) ==
    /\ UNCHANGED <<epoch, batch, pack, bundle, call, dir, upstream, breaks,
                   capsule, analysis, planned>>
    /\ WorkersMove(p) /\ FilesMove(p) /\ EntriesMove(p) /\ PartsMove(p)
(* An entry gets its digest, its place, and is VERIFIED only behind them. *)
EntryMoves(e, e1, x, s, f1) ==
    /\ e1.sha \in {e.sha, Planned(x)}
    /\ e1.at = e.at \/ (e1.at \in 1..Len(s) /\ s[e1.at] = x)
    /\ e1.status = "VERIFIED" =>
          /\ PlacedAt(e1, x, s)
          /\ e1.at <= f1.count \/ (e.status = "VERIFIED" /\ e1.at = e.at)
(* A file that a READY row names is not written. *)
ReadyKept(p, f, s, f1) ==
    PackReady(p) /\ pack[p].path = dir[BatchOf(p)] => Complete(f1, s) /\ f1.records = f.records

LEMMA WStepKeeps ==
    ASSUME WInv, NEW p \in Packs, call[BatchOf(p)] \in {"run", "cancelled"}, WStep(p),
           NEW w, NEW f, NEW s, Acting(p, w, f, s),
           NEW w1, w1 = worker'[p], NEW f1, f1 = file'[Place(p)],
           NEW en, en = entry', NEW t, t = part'[PartOf(p, s[w1.i])],
           Knows(w1, f1, s, en, t), w1.pc # "done",
           Holds(f1, s), f.count <= f1.count, ReadyKept(p, f, s, f1),
           \A x \in InPack(p) : EntryMoves(entry[x], en[x], x, s, f1)
    PROVE  WInv'
<1>0. WTypes /\ PackInv(p) /\ BatchOf(p) \in Batches
  BY Constants DEF WInv
<1>1. /\ InPack(p)' = InPack(p) /\ Entries(p)' = s
  <2>1. \A a \in Artifacts : entry'[a].pack = p <=> entry[a].pack = p
    BY DEF WStep, EntriesMove
  <2> QED BY <2>1, EntriesStay DEF Acting
<1>2. /\ pack' = pack /\ dir' = dir /\ call' = call /\ f = file[Place(p)]
      /\ Place(p)' = Place(p) /\ Place(p) = <<dir[BatchOf(p)], p>> /\ Mine(p)' = f1
  BY DEF WStep, Place, Mine, Acting
<1>3. \A d \in Dirs : d # dir[BatchOf(p)] => file'[<<d, p>>] = file[<<d, p>>]
  BY <1>2 DEF WStep, FilesMove
<1>4. file'[<<dir[BatchOf(p)], p>>] = f1 /\ file[<<dir[BatchOf(p)], p>>] = f
  BY <1>2
<1>5. FileInv(p)'
  <2>1. ASSUME NEW d \in Dirs PROVE Holds(file'[<<d, p>>], s)
    <3>1. Holds(file[<<d, p>>], s)
      BY <1>0 DEF PackInv, FileInv, Acting
    <3> QED BY <1>3, <1>4, <3>1
  <2> QED BY <1>1, <2>1 DEF FileInv, Holds, RecordOf, Planned
<1>6. WorkerInv(p)'
  <2>1. part[PartHere(p)]' = t
    BY <1>1, <1>2 DEF PartHere, PartOf, Current
  <2>2. Knows(w1, f1, s, en, t)
    OBVIOUS
  <2>3. /\ worker'[p] = w1 /\ Mine(p)' = f1 /\ Entries(p)' = s /\ entry' = en
        /\ part[PartHere(p)]' = t
    BY <1>1, <1>2, <2>1 DEF WStep
  <2> QED BY <2>2, <2>3
     DEF WorkerInv, Knows, Creates, Walks, Fills, Passed, PlacedAt, Planned
<1>7. ASSUME NEW a \in InPack(p), Placed(p, a) PROVE Placed(p, a)'
  <2>1. PICK e, e1 : e = entry[a] /\ e1 = entry'[a]
    OBVIOUS
  <2>2. PlacedAt(e, a, s) /\ EntryMoves(e, e1, a, s, f1)
    BY <1>7, <2>1 DEF Placed, Acting
  <2>3. PlacedAt(e1, a, s)
    BY <2>2 DEF PlacedAt, EntryMoves
  <2> QED BY <1>1, <2>1, <2>3 DEF Placed, PlacedAt, Planned
<1>8. ReadyInv(p)'
  <2> SUFFICES ASSUME PackReady(p)' PROVE ReadyInv(p)'
    BY DEF ReadyInv
  <2>1. PICK d : d = pack[p].path
    OBVIOUS
  <2>2. PackReady(p) /\ pack'[p] = pack[p]
    BY <1>2 DEF PackReady
  <2>3. /\ d \in Dirs /\ Complete(file[<<d, p>>], s)
        /\ pack[p].sha = file[<<d, p>>].records
        /\ \A a \in InPack(p) : Placed(p, a)
    BY <1>0, <2>1, <2>2 DEF PackInv, ReadyInv, Acting
  <2>4. Complete(file'[<<d, p>>], s) /\ pack[p].sha = file'[<<d, p>>].records
    BY <1>3, <1>4, <2>1, <2>2, <2>3 DEF ReadyKept
  <2>5. (\A a \in InPack(p) : Placed(p, a))'
    BY <1>1, <1>7, <2>3
  <2> QED BY <1>1, <2>1, <2>2, <2>3, <2>4, <2>5 DEF ReadyInv, Complete
<1>9. CalledInv(p)'
  BY <1>0, <1>2 DEF CalledInv
<1>10. ASSUME NEW n \in Nat, CountedTo(p, n) PROVE CountedTo(p, n)'
  <2>1. PICK d \in Dirs : n <= file[<<d, p>>].count
    BY <1>10 DEF CountedTo
  <2>2. n <= file'[<<d, p>>].count
    <3>1. f.count \in Nat /\ f1.count \in Nat
      BY <1>2 DEF Acting, WStep, FilesMove, FileRow
    <3> QED BY <1>3, <1>4, <2>1, <3>1
  <2> QED BY <2>2 DEF CountedTo
<1>11. ASSUME NEW a \in InPack(p) PROVE EntryInv(a)'
  <2>1. PICK e, e1 : e = entry[a] /\ e1 = entry'[a]
    OBVIOUS
  <2>2. /\ a \in Artifacts /\ e.pack = p /\ e1.pack = p
        /\ e1.status = "ABSENT" <=> e.status = "ABSENT"
        /\ e1 \in EntryRow
    BY <2>1 DEF InPack, WStep, EntriesMove
  <2>3. EntryInv(a) /\ EntryMoves(e, e1, a, s, f1)
    BY <1>0, <2>1 DEF PackInv
  <2>4. /\ e1.sha \in {None, Planned(a)}
        /\ Origin[a] # "upstream" => e1.sha = Planned(a)
    <3>1. /\ e.sha \in {None, Planned(a)}
          /\ Origin[a] # "upstream" => e.sha = Planned(a)
      BY <2>1 DEF Acting
    <3> QED BY <2>3, <3>1 DEF EntryMoves
  <2>5. e1.status = "VERIFIED" => PlacedAt(e1, a, s) /\ CountedTo(p, e1.at)'
    <3> SUFFICES ASSUME e1.status = "VERIFIED"
                 PROVE  PlacedAt(e1, a, s) /\ CountedTo(p, e1.at)'
      OBVIOUS
    <3>1. PlacedAt(e1, a, s) /\ e1.at \in Nat
      BY <2>2, <2>3 DEF EntryMoves, EntryRow
    <3>2. CASE e1.at <= f1.count
      <4>1. PICK d, n : d = dir[BatchOf(p)] /\ n = e1.at
        OBVIOUS
      <4>2. d \in Dirs /\ n <= file'[<<d, p>>].count
        BY <1>4, <3>2, <4>1 DEF Acting
      <4> QED BY <2>1, <3>1, <4>1, <4>2 DEF CountedTo
    <3>3. CASE e.status = "VERIFIED" /\ e1.at = e.at
      <4>1. CountedTo(p, e.at)
        BY <2>1, <2>2, <2>3, <3>3 DEF EntryInv
      <4>2. PICK n : n = e1.at
        OBVIOUS
      <4>3. n \in Nat /\ CountedTo(p, n)
        BY <3>1, <3>3, <4>1, <4>2
      <4>4. CountedTo(p, n)'
        BY <1>10, <4>3
      <4> QED BY <2>1, <3>1, <4>2, <4>4 DEF CountedTo
    <3> QED BY <2>3, <3>2, <3>3 DEF EntryMoves
  <2>6. pack'[p].status # "ABSENT" /\ e.status # "ABSENT" /\ p # None
    BY <1>2, <2>1, <2>2, <2>3, Constants DEF EntryInv
  <2>7. PlacedAt(e1, a, s) => Placed(p, a)'
    BY <1>1, <2>1 DEF Placed, PlacedAt, Planned
  <2>8. /\ e1.sha \in {None, Planned(a)'}
        /\ Origin[a] # "upstream" => e1.sha = Planned(a)'
    BY <2>4 DEF Planned
  <2>9. CountedTo(p, e1.at)' => CountedTo(entry[a].pack, entry[a].at)'
    BY <2>1, <2>2 DEF CountedTo
  <2>10. Placed(p, a)' => Placed(entry[a].pack, a)'
    BY <2>1, <2>2 DEF Placed
  <2> QED BY <2>1, <2>2, <2>5, <2>6, <2>7, <2>8, <2>9, <2>10 DEF EntryInv
<1>12. PackInv(p)'
  BY <1>1, <1>5, <1>6, <1>8, <1>9, <1>11 DEF PackInv
<1>13. WTypes'
  <2>1. PlanTypes' /\ BatchTypes'
    BY <1>0 DEF WTypes, PlanTypes, BatchTypes, WStep
  <2>2. PackTypes' /\ EntryTypes'
    BY <1>0 DEF WTypes, PackTypes, EntryTypes, WStep, WorkersMove, FilesMove, EntriesMove, PartsMove
  <2> QED BY <2>1, <2>2 DEF WTypes
<1>14. OwnStep(p)
  <2>1. \A b \in Batches : CallKeeps(b)
    BY <1>2 DEF CallKeeps
  <2> QED BY <2>1 DEF WStep, OwnStep, WorkersMove
<1> QED BY <1>12, <1>13, <1>14, OwnStepKeeps

Aside == UNCHANGED <<capsule, analysis, planned>>

LEMMA ReadyHere ==
    ASSUME WInv, NEW p \in Packs, NEW w, NEW f, NEW s, Acting(p, w, f, s),
           PackReady(p), pack[p].path = dir[BatchOf(p)]
    PROVE  Complete(f, s)
<1>1. ReadyInv(p)
  BY RowsOf DEF PackInv
<1> QED BY <1>1 DEF ReadyInv, Acting, Mine

LEMMA Still ==
    ASSUME WInv, NEW p \in Packs, NEW w, NEW f, NEW s, Acting(p, w, f, s), NEW g
    PROVE  \A x \in InPack(p) : EntryMoves(entry[x], entry[x], x, s, g)
<1>1. \A x \in InPack(p) : EntryInv(x) /\ entry[x].pack = p
  BY RowsOf DEF PackInv, InPack
<1> QED BY <1>1 DEF EntryInv, EntryMoves, Placed, Acting

AllMove(S, en, e1, s, g) == \A x \in S : EntryMoves(en[x], e1[x], x, s, g)
ListsOf(S, s) == Len(s) \in Nat /\ \A k \in 1..Len(s) : s[k] \in S

LEMMA PassedStays ==
    ASSUME NEW w \in WorkerRow, NEW w1, w1.i = w.i, NEW s, w.i <= Len(s) + 1,
           NEW S, ListsOf(S, s), NEW g, NEW en, NEW e1,
           AllMove(S, en, e1, s, g), Passed(w, s, en)
    PROVE  Passed(w1, s, e1)
<1> SUFFICES ASSUME NEW k \in 1..(w1.i - 1) PROVE PlacedAt(e1[s[k]], s[k], s)
  BY DEF Passed
<1>1. k \in 1..(w.i - 1) /\ k \in 1..Len(s)
  BY DEF WorkerRow, ListsOf
<1>2. PlacedAt(en[s[k]], s[k], s) /\ EntryMoves(en[s[k]], e1[s[k]], s[k], s, g)
  BY <1>1 DEF Passed, AllMove, ListsOf
<1> QED BY <1>2 DEF PlacedAt, EntryMoves

(* The artifact a worker is at. *)
LEMMA WorkerIsAt ==
    ASSUME WInv, NEW p \in Packs, NEW pc \in WorkerAt, pc # "idle", Working(p, pc)
    PROVE  /\ call[BatchOf(p)] \in {"run", "cancelled"}
           /\ \E w, f, s, a : /\ Acting(p, w, f, s) /\ w.pc = pc
                              /\ w.i \in 1..Len(s) /\ a = s[w.i] /\ a = Current(p)
                              /\ a \in InPack(p) /\ PartHere(p) = PartOf(p, a)
<1>1. call[BatchOf(p)] \in {"run", "cancelled"}
  BY RowsOf DEF Working
<1>2. PICK w, f, s : Acting(p, w, f, s)
  BY <1>1, Acts
<1>3. w.pc = pc /\ w.i \in 1..Len(s)
  BY <1>2 DEF Acting, Working, Walked, WorkerRow
<1>4. s[w.i] = Current(p) /\ s[w.i] \in InPack(p)
  BY <1>2, <1>3 DEF Acting, Current
<1> QED BY <1>1, <1>2, <1>3, <1>4 DEF PartHere

(* Steps that move no row. *)
LEMMA FileSteps ==
    ASSUME WInv, NEW p \in Packs, call[BatchOf(p)] \in {"run", "cancelled"},
           UNCHANGED <<rows, bundle, call, dir, upstream, breaks>>, Aside,
           NEW w, NEW f, NEW s, Acting(p, w, f, s),
           WorkersMove(p), FilesMove(p), PartsMove(p),
           NEW w1, w1 = worker'[p], NEW f1, f1 = file'[Place(p)],
           Knows(w1, f1, s, entry, part'[PartOf(p, s[w1.i])]), w1.pc # "done",
           Holds(f1, s), f.count <= f1.count, ReadyKept(p, f, s, f1)
    PROVE  WInv'
<1>1. WTypes
  BY DEF WInv
<1>2. entry' = entry
  BY DEF rows
<1>3. EntriesMove(p)
  BY <1>1, <1>2, Unmoved
<1>4. WStep(p)
  BY <1>3 DEF WStep, rows, Aside
<1>5. \A x \in InPack(p) : EntryMoves(entry[x], entry[x], x, s, f1)
  BY Still
<1>6. PICK en, t : en = entry' /\ t = part'[PartOf(p, s[w1.i])]
  OBVIOUS
<1>7. Knows(w1, f1, s, en, t) /\ \A x \in InPack(p) : EntryMoves(entry[x], en[x], x, s, f1)
  BY <1>2, <1>5, <1>6
<1> QED BY <1>4, <1>6, <1>7, WStepKeeps

(* Steps that set the row of the artifact a worker is at. *)
LEMMA EntrySteps ==
    ASSUME WInv, NEW p \in Packs, call[BatchOf(p)] \in {"run", "cancelled"},
           UNCHANGED <<epoch, batch, pack, files, call, dir, upstream, breaks>>, Aside,
           NEW w, NEW f, NEW s, Acting(p, w, f, s), NEW a \in InPack(p),
           WorkersMove(p), EntriesMove(p),
           \A x \in Artifacts : x # a => entry'[x] = entry[x],
           NEW w1, w1 = worker'[p],
           Knows(w1, f, s, entry', part[PartOf(p, s[w1.i])]), w1.pc # "done",
           EntryMoves(entry[a], entry'[a], a, s, f)
    PROVE  WInv'
<1>1. WTypes /\ file' = file /\ part' = part /\ f = file'[Place(p)]
  BY DEF WInv, files, Acting, Mine
<1>2. WStep(p)
  BY <1>1, Unmoved DEF WStep, files, Aside
<1>3. ReadyKept(p, f, s, f) /\ Holds(f, s) /\ f.count <= f.count
  <2>1. f.count \in Nat /\ Holds(f, s)
    BY DEF Acting, FileRow
  <2>2. PackReady(p) /\ pack[p].path = dir[BatchOf(p)] => Complete(f, s)
    BY ReadyHere
  <2>3. f.count <= f.count
    BY <2>1
  <2> QED BY <2>1, <2>2, <2>3 DEF ReadyKept
<1>4. \A x \in InPack(p) : EntryMoves(entry[x], entry'[x], x, s, f)
  <2>1. \A x \in InPack(p) : EntryMoves(entry[x], entry[x], x, s, f) /\ x \in Artifacts
    BY Still DEF InPack
  <2> QED BY <2>1
<1>5. PICK en, t : en = entry' /\ t = part'[PartOf(p, s[w1.i])]
  OBVIOUS
<1>6. Knows(w1, f, s, en, t) /\ \A x \in InPack(p) : EntryMoves(entry[x], en[x], x, s, f)
  BY <1>1, <1>4, <1>5
<1> QED BY <1>1, <1>2, <1>3, <1>5, <1>6, WStepKeeps

-----------------------------------------------------------------------------
(* The pack file is made or found *)

LEMMA CreatePackKeeps ==
    ASSUME WInv, NEW p \in Packs, CreatePack(p), Aside
    PROVE  WInv'
<1>1. call[BatchOf(p)] \in {"run", "cancelled"} /\ worker[p].pc = "idle" /\ WTypes
  BY DEF CreatePack, Dispatched, WInv
<1>2. PICK w, f, s : Acting(p, w, f, s)
  BY <1>1, Acts
<1>3. /\ w = Idle /\ f = file[Place(p)] /\ Holds(f, s) /\ f \in FileRow
      /\ worker[p].i = 1 /\ worker[p].prefix = 0
  BY <1>1, <1>2 DEF Acting, Knows, Mine, Idle
<1>4. PICK f1 : f1 = [f EXCEPT !.exists = TRUE]
  OBVIOUS
<1>5. /\ f1 \in FileRow /\ f1.exists /\ f1.header = f.header /\ f1.count = f.count
      /\ f1.records = f.records
  BY <1>3, <1>4 DEF FileRow
<1>6. file' = [file EXCEPT ![Place(p)] = f1]
  BY <1>3, <1>4 DEF CreatePack
<1>7. FilesMove(p) /\ file'[Place(p)] = f1 /\ PartsMove(p)
  <2>1. part' = part /\ Place(p) \in Dirs \X Packs
    BY <1>2 DEF CreatePack, Acting
  <2> QED BY <1>1, <1>5, <1>6, <2>1, FileSets, Unmoved
<1>8. PICK w1 : Moves(p, w1, "create", worker[p].i) /\ WorkersMove(p)
  <2>1. "create" \in WorkerAt /\ Step(p, "create")
    BY DEF WorkerAt, CreatePack
  <2> QED BY <1>1, <2>1, WorkerSteps
<1>9. w1 = worker'[p] /\ w1.pc = "create" /\ w1.i = 1 /\ w1.prefix = 0
  BY <1>3, <1>8 DEF Moves
<1>10. ~f.header /\ Holds(f1, s) /\ ~f1.header
  BY <1>3, <1>5 DEF CreatePack, Holds
<1>11. Knows(w1, f1, s, entry, part'[PartOf(p, s[w1.i])])
  BY <1>5, <1>9, <1>10 DEF Knows, Creates, Filling
<1>12. ReadyKept(p, f, s, f1) /\ f.count <= f1.count
  <2>1. ~Complete(f, s)
    BY <1>10 DEF Complete
  <2> QED BY <1>2, <1>3, <1>5, <2>1, ReadyHere DEF ReadyKept, FileRow
<1>13. UNCHANGED <<rows, bundle, call, dir, upstream, breaks>>
  BY DEF CreatePack
<1> QED
  BY <1>1, <1>2, <1>7, <1>8, <1>9, <1>10, <1>11, <1>12, <1>13, FileSteps

LEMMA WriteHeaderKeeps ==
    ASSUME WInv, NEW p \in Packs, WriteHeader(p), Aside
    PROVE  WInv'
<1>1. call[BatchOf(p)] \in {"run", "cancelled"} /\ worker[p].pc = "create" /\ WTypes
  BY RowsOf DEF WriteHeader, WInv
<1>2. PICK w, f, s : Acting(p, w, f, s)
  BY <1>1, Acts
<1>3. /\ Creates(w, f) /\ f = file[Place(p)] /\ Holds(f, s) /\ f \in FileRow
      /\ Len(s) \in Nat
  BY <1>1, <1>2 DEF Acting, Knows, Mine
<1>4. PICK f1 : f1 = [f EXCEPT !.header = TRUE]
  OBVIOUS
<1>5. /\ f1 \in FileRow /\ f1.exists = f.exists /\ f1.header /\ f1.count = f.count
      /\ f1.records = f.records
  BY <1>3, <1>4 DEF FileRow
<1>6. file' = [file EXCEPT ![Place(p)] = f1]
  BY <1>3, <1>4 DEF WriteHeader
<1>7. FilesMove(p) /\ file'[Place(p)] = f1 /\ PartsMove(p)
  <2>1. part' = part /\ Place(p) \in Dirs \X Packs
    BY <1>2 DEF WriteHeader, Acting
  <2> QED BY <1>1, <1>5, <1>6, <2>1, FileSets, Unmoved
<1>8. PICK w1 : Moves(p, w1, "walk", worker[p].i) /\ WorkersMove(p)
  <2>1. "walk" \in WorkerAt /\ Step(p, "walk")
    BY DEF WorkerAt, WriteHeader
  <2> QED BY <1>1, <2>1, WorkerSteps
<1>9. w1 = worker'[p] /\ w1.pc = "walk" /\ w1.i = 1 /\ w1.prefix = 0
  BY <1>2, <1>3, <1>8 DEF Moves, Acting, Creates
<1>10. ~f.header /\ Holds(f1, s) /\ f1.count = 0 /\ Len(f1.records) = 0
  BY <1>3, <1>5 DEF Creates, Holds, FileRow
<1>11. Knows(w1, f1, s, entry, part'[PartOf(p, s[w1.i])])
  <2>1. Walks(w1, f1, s, entry)
    BY <1>3, <1>5, <1>9, <1>10 DEF Walks, Passed
  <2> QED BY <1>9, <2>1 DEF Knows, Filling
<1>12. ReadyKept(p, f, s, f1) /\ f.count <= f1.count
  <2>1. ~Complete(f, s)
    BY <1>10 DEF Complete
  <2> QED BY <1>2, <1>3, <1>5, <2>1, ReadyHere DEF ReadyKept, FileRow
<1>13. UNCHANGED <<rows, bundle, call, dir, upstream, breaks>>
  BY DEF WriteHeader
<1> QED
  BY <1>1, <1>2, <1>7, <1>8, <1>9, <1>10, <1>11, <1>12, <1>13, FileSteps

LEMMA ResumePackKeeps ==
    ASSUME WInv, NEW p \in Packs, ResumePack(p), Aside
    PROVE  WInv'
<1>1. call[BatchOf(p)] \in {"run", "cancelled"} /\ worker[p].pc = "idle" /\ WTypes
  BY DEF ResumePack, Dispatched, WInv
<1>2. PICK w, f, s : Acting(p, w, f, s)
  BY <1>1, Acts
<1>3. /\ w = Idle /\ f = file[Place(p)] /\ Holds(f, s) /\ f \in FileRow
      /\ f.header /\ Len(s) \in Nat
  BY <1>1, <1>2 DEF Acting, Knows, Mine, ResumePack
<1>4. PICK f1 : f1 = Resumed(f)
  OBVIOUS
<1>5. f.count \in Nat /\ f.records \in Seq(Record) /\ Len(f.records) \in Nat
      /\ f.count <= Len(f.records)
  BY <1>3 DEF FileRow, Holds
<1>6. PICK r : r = SubSeq(f.records, 1, f.count)
  OBVIOUS
<1>7. /\ r \in Seq(Record) /\ Len(r) = f.count
      /\ \A k \in 1..f.count : r[k] = f.records[k]
      /\ f.count = Len(f.records) => r = f.records
  BY <1>5, <1>6
<1>8. /\ f1 \in FileRow /\ f1.exists = f.exists /\ f1.header = f.header /\ f1.count = f.count
      /\ f1.records = r
  BY <1>3, <1>4, <1>6, <1>7 DEF FileRow, Resumed
<1>9. file' = [file EXCEPT ![Place(p)] = f1]
  BY <1>3, <1>4 DEF ResumePack
<1>10. FilesMove(p) /\ file'[Place(p)] = f1 /\ PartsMove(p)
  <2>1. part' = part /\ Place(p) \in Dirs \X Packs
    BY <1>2 DEF ResumePack, Acting
  <2> QED BY <1>1, <1>8, <1>9, <2>1, FileSets, Unmoved
<1>11. PICK n : n = f1.count
  OBVIOUS
<1>12. PICK w1 : w1 = [Idle EXCEPT !.pc = "walk", !.prefix = n]
  OBVIOUS
<1>13. w1 = [pc |-> "walk", i |-> 1, prefix |-> n, version |-> 0, next |-> 0]
  BY <1>12 DEF Idle
<1>14. worker' = [worker EXCEPT ![p] = w1]
  BY <1>3, <1>4, <1>11, <1>12 DEF ResumePack
<1>15. w1 \in WorkerRow
  BY <1>5, <1>8, <1>11, <1>13 DEF WorkerRow, WorkerAt
<1>16. WorkersMove(p) /\ w1 = worker'[p]
  BY <1>1, <1>14, <1>15, WorkerSets
<1>17. Holds(f1, s)
  BY <1>3, <1>5, <1>7, <1>8 DEF Holds
<1>18. Knows(w1, f1, s, entry, part'[PartOf(p, s[w1.i])])
  <2>1. w1.pc = "walk" /\ w1.i = 1 /\ w1.prefix = f.count
    BY <1>8, <1>11, <1>13
  <2>2. Walks(w1, f1, s, entry)
    BY <1>3, <1>5, <1>7, <1>8, <2>1 DEF Walks, Passed
  <2> QED BY <2>1, <2>2 DEF Knows, Filling
<1>19. ReadyKept(p, f, s, f1) /\ f.count <= f1.count
  BY <1>2, <1>3, <1>5, <1>7, <1>8, ReadyHere DEF ReadyKept, Complete
<1>20. UNCHANGED <<rows, bundle, call, dir, upstream, breaks>> /\ w1.pc # "done"
  BY <1>13 DEF ResumePack
<1> QED
  BY <1>1, <1>2, <1>10, <1>16, <1>17, <1>18, <1>19, <1>20, FileSteps

-----------------------------------------------------------------------------
(* The row of an artifact is set *)

LEMMA RowIs ==
    ASSUME NEW p, NEW w, NEW f, NEW s, Acting(p, w, f, s), NEW a \in InPack(p), WInv
    PROVE  /\ a \in Artifacts /\ entry[a] \in EntryRow /\ entry[a].pack = p
           /\ entry[a].got <= Size[a] /\ Size[a] \in Nat
           /\ Planned(a) \in Seq(Nat)
           /\ entry[a].status # "ABSENT" /\ EntryMoves(entry[a], entry[a], a, s, f)
           /\ entry[a].status = "VERIFIED" => PlacedAt(entry[a], a, s)
<1>1. a \in Artifacts /\ entry[a] \in EntryRow /\ entry[a].pack = p /\ entry[a].status # "ABSENT"
  BY DEF Acting
<1>2. entry[a].got <= Size[a] /\ EntryInv(a)
  BY <1>1 DEF WInv, WTypes, EntryTypes
<1>3. entry[a].status = "VERIFIED" => PlacedAt(entry[a], a, s)
  BY <1>1, <1>2 DEF EntryInv, Placed, Acting
<1> QED BY <1>1, <1>2, <1>3, Constants DEF EntryMoves

LEMMA ShaSets ==
    ASSUME WInv, NEW p \in Packs, NEW w, NEW f, NEW s, Acting(p, w, f, s),
           NEW a \in InPack(p), SetEntry(a, "sha", Planned(a))
    PROVE  /\ EntriesMove(p) /\ \A x \in Artifacts : x # a => entry'[x] = entry[x]
           /\ entry'[a].sha = Planned(a) /\ entry'[a].at = entry[a].at
           /\ \A g : EntryMoves(entry[a], entry'[a], a, s, g)
<1>1. PICK e0, c : e0 = entry[a] /\ c = Planned(a)
  OBVIOUS
<1>2. /\ e0 \in EntryRow /\ e0.pack = p /\ e0.got <= Size[a] /\ c \in Seq(Nat)
      /\ e0.status = "VERIFIED" => PlacedAt(e0, a, s)
  BY <1>1, RowIs
<1>3. PICK e : e = [e0 EXCEPT !.sha = c]
  OBVIOUS
<1>4. /\ e \in EntryRow /\ e.pack = p /\ e.got <= Size[a] /\ e.status = e0.status
      /\ e.sha = c /\ e.at = e0.at
  BY <1>2, <1>3 DEF EntryRow
<1>5. entry' = [entry EXCEPT ![a] = e]
  BY <1>1, <1>3 DEF SetEntry
<1>6. EntriesMove(p) /\ entry'[a] = e /\ \A x \in Artifacts : x # a => entry'[x] = entry[x]
  BY <1>1, <1>4, <1>5, EntrySets DEF WInv
<1>7. ASSUME NEW g PROVE EntryMoves(e0, e, a, s, g)
  BY <1>1, <1>2, <1>4 DEF EntryMoves, PlacedAt
<1> QED BY <1>1, <1>4, <1>6, <1>7

LEMMA AtSets ==
    ASSUME WInv, NEW p \in Packs, NEW w, NEW f, NEW s, Acting(p, w, f, s),
           NEW a \in InPack(p), NEW i \in 1..Len(s), s[i] = a, i <= f.count,
           SetEntry(a, "at", i)
    PROVE  /\ EntriesMove(p) /\ \A x \in Artifacts : x # a => entry'[x] = entry[x]
           /\ entry'[a].sha = entry[a].sha /\ entry'[a].at = i
           /\ EntryMoves(entry[a], entry'[a], a, s, f)
<1>1. PICK e0 : e0 = entry[a]
  OBVIOUS
<1>2. /\ e0 \in EntryRow /\ e0.pack = p /\ e0.got <= Size[a] /\ i \in Nat
      /\ e0.status = "VERIFIED" => PlacedAt(e0, a, s)
  BY <1>1, RowIs DEF Acting
<1>3. PICK e : e = [e0 EXCEPT !.at = i]
  OBVIOUS
<1>4. /\ e \in EntryRow /\ e.pack = p /\ e.got <= Size[a] /\ e.status = e0.status
      /\ e.sha = e0.sha /\ e.at = i
  BY <1>2, <1>3 DEF EntryRow
<1>5. entry' = [entry EXCEPT ![a] = e]
  BY <1>1, <1>3 DEF SetEntry
<1>6. EntriesMove(p) /\ entry'[a] = e /\ \A x \in Artifacts : x # a => entry'[x] = entry[x]
  <2>1. e.status = "ABSENT" <=> entry[a].status = "ABSENT"
    BY <1>1, <1>4
  <2>2. WTypes
    BY DEF WInv
  <2> QED BY <1>4, <1>5, <2>1, <2>2, EntrySets
<1>7. EntryMoves(e0, e, a, s, f)
  BY <1>2, <1>4 DEF EntryMoves, PlacedAt
<1> QED BY <1>1, <1>4, <1>6, <1>7

LEMMA StateSets ==
    ASSUME WInv, NEW p \in Packs, NEW w, NEW f, NEW s, Acting(p, w, f, s),
           NEW a \in InPack(p), NEW status \in {"DOWNLOADING", "VERIFIED"},
           NEW got \in Nat, got <= Size[a], NEW etag \in Nat \cup {None},
           status = "VERIFIED" => PlacedAt(entry[a], a, s) /\ entry[a].at <= f.count,
           MarkEntryState(a, status, got, etag)
    PROVE  /\ EntriesMove(p) /\ \A x \in Artifacts : x # a => entry'[x] = entry[x]
           /\ entry'[a].sha = entry[a].sha /\ entry'[a].at = entry[a].at
           /\ EntryMoves(entry[a], entry'[a], a, s, f)
<1>1. PICK e0 : e0 = entry[a]
  OBVIOUS
<1>2. /\ e0 \in EntryRow /\ e0.pack = p /\ e0.got <= Size[a] /\ e0.status # "ABSENT"
      /\ a \in Artifacts
      /\ e0.status = "VERIFIED" => PlacedAt(e0, a, s)
  BY <1>1, RowIs
<1>3. PICK e : e = IF e0.status = "PLANNED" THEN e0
                   ELSE [e0 EXCEPT !.status = status, !.got = got, !.etag = etag]
  OBVIOUS
<1>4. status \in EntryStatuses
  BY DEF EntryStatuses
<1>5. /\ e \in EntryRow /\ e.pack = p /\ e.got <= Size[a] /\ e.status \in {"PLANNED", status}
      /\ e.sha = e0.sha /\ e.at = e0.at
  <2>1. CASE e0.status = "PLANNED"
    BY <1>2, <1>3, <2>1
  <2>2. CASE e0.status # "PLANNED"
    BY <1>2, <1>3, <1>4, <2>2 DEF EntryRow
  <2> QED BY <2>1, <2>2
<1>6. entry' = [entry EXCEPT ![a] = e]
  BY <1>1, <1>2, <1>3 DEF MarkEntryState, WInv, WTypes, EntryTypes
<1>7. EntriesMove(p) /\ entry'[a] = e /\ \A x \in Artifacts : x # a => entry'[x] = entry[x]
  <2>1. e.status # "ABSENT"
    BY <1>5
  <2> QED BY <1>1, <1>2, <1>5, <1>6, <2>1, EntrySets DEF WInv
<1>8. EntryMoves(e0, e, a, s, f)
  BY <1>1, <1>2, <1>5 DEF EntryMoves, PlacedAt
<1> QED BY <1>1, <1>5, <1>7, <1>8

LEMMA PassesOneMore ==
    ASSUME NEW w \in WorkerRow, NEW w1, w1.i = w.i + 1, NEW s, NEW en,
           Passed(w, s, en), PlacedAt(en[s[w.i]], s[w.i], s)
    PROVE  Passed(w1, s, en)
<1> SUFFICES ASSUME NEW k \in 1..(w1.i - 1) PROVE PlacedAt(en[s[k]], s[k], s)
  BY DEF Passed
<1>1. k \in 1..(w.i - 1) \/ k = w.i
  BY DEF WorkerRow
<1> QED BY <1>1 DEF Passed

-----------------------------------------------------------------------------
(* A record of the file as it was found *)

LEMMA Finds ==
    ASSUME WInv, NEW p \in Packs, TakesRecord(p), NEW w, NEW f, NEW s, Acting(p, w, f, s),
           w.pc = "walk", NEW a, a = Current(p), a = s[w.i], w.i \in 1..Len(s)
    PROVE  /\ w.i <= w.prefix /\ Kept(p).content = Planned(a) /\ Walks(w, f, s, entry)
           /\ f.count = w.prefix /\ w.i \in Nat \ {0} /\ w.prefix \in Nat
<1>1. /\ w.i <= w.prefix /\ w = worker[p] /\ f = file[Place(p)] /\ Holds(f, s)
      /\ w \in WorkerRow /\ f \in FileRow
  BY DEF TakesRecord, KeepsRecord, Acting, Mine
<1>2. Walks(w, f, s, entry)
  BY DEF Acting, Knows
<1>3. w.i \in 1..Len(f.records) /\ f.count = w.prefix
  BY <1>1, <1>2 DEF Walks, FileRow, WorkerRow
<1>4. Kept(p) = f.records[w.i] /\ f.records[w.i] = RecordOf(a)
  BY <1>1, <1>3 DEF Holds, Kept
<1>5. Kept(p).content = Planned(a)
  BY <1>4 DEF RecordOf
<1> QED BY <1>1, <1>2, <1>3, <1>5 DEF WorkerRow

LEMMA PassRecordKeeps ==
    ASSUME WInv, NEW p \in Packs, PassRecord(p), Aside
    PROVE  WInv'
<1>1. Working(p, "walk") /\ "walk" \in WorkerAt /\ WTypes
  BY DEF PassRecord, TakesRecord, WorkerAt, WInv
<1>2. call[BatchOf(p)] \in {"run", "cancelled"}
  BY <1>1, WorkerIsAt
<1>3. PICK w, f, s, a : /\ Acting(p, w, f, s) /\ w.pc = "walk"
                        /\ w.i \in 1..Len(s) /\ a = s[w.i] /\ a = Current(p) /\ a \in InPack(p)
  BY <1>1, WorkerIsAt
<1>4. /\ w.i <= w.prefix /\ Walks(w, f, s, entry) /\ f.count = w.prefix
      /\ w.i \in Nat \ {0} /\ w.prefix \in Nat
  BY <1>3, Finds DEF PassRecord
<1>5. PICK w1 : Moves(p, w1, "walk", worker[p].i + 1) /\ WorkersMove(p)
  BY <1>1, WorkerWalksOn DEF PassRecord
<1>6. /\ w1 = worker'[p] /\ w1.pc = "walk" /\ w1.i = w.i + 1 /\ w1.prefix = w.prefix
      /\ w \in WorkerRow /\ Len(s) \in Nat /\ Holds(f, s) /\ f \in FileRow
      /\ f = file[Place(p)]
  BY <1>3, <1>5 DEF Moves, Acting, Mine
<1>7. PlacedAt(entry[a], a, s)
  <2>1. entry[a].status = "VERIFIED"
    BY <1>3 DEF PassRecord
  <2> QED BY <1>3, <2>1, RowIs
<1>8. Passed(w1, s, entry)
  BY <1>3, <1>4, <1>6, <1>7, PassesOneMore DEF Walks
<1>9. Walks(w1, f, s, entry)
  BY <1>3, <1>4, <1>6, <1>8 DEF Walks
<1>10. Knows(w1, f, s, entry, part'[PartOf(p, s[w1.i])])
  BY <1>6, <1>9 DEF Knows, Filling
<1>11. FilesMove(p) /\ PartsMove(p) /\ f = file'[Place(p)]
  BY <1>1, <1>6, Unmoved DEF PassRecord, files
<1>12. f.count <= f.count /\ ReadyKept(p, f, s, f)
  BY <1>3, <1>6, ReadyHere DEF ReadyKept, FileRow
<1>13. UNCHANGED <<rows, bundle, call, dir, upstream, breaks>>
  BY DEF PassRecord, files
<1> QED
  BY <1>2, <1>3, <1>5, <1>6, <1>10, <1>11, <1>12, <1>13, FileSteps

LEMMA TakeRecordKeeps ==
    ASSUME WInv, NEW p \in Packs, TakeRecord(p), Aside
    PROVE  WInv'
<1>1. /\ Working(p, "walk") /\ "walk" \in WorkerAt /\ "taken" \in WorkerAt /\ WTypes
      /\ Step(p, "taken")
  BY DEF TakeRecord, TakesRecord, WorkerAt, Filling, WInv
<1>2. call[BatchOf(p)] \in {"run", "cancelled"}
  BY <1>1, WorkerIsAt
<1>3. PICK w, f, s, a : /\ Acting(p, w, f, s) /\ w.pc = "walk"
                        /\ w.i \in 1..Len(s) /\ a = s[w.i] /\ a = Current(p) /\ a \in InPack(p)
  BY <1>1, WorkerIsAt
<1>4. /\ w.i <= w.prefix /\ Walks(w, f, s, entry) /\ f.count = w.prefix
      /\ w.i \in Nat \ {0} /\ w.prefix \in Nat /\ Kept(p).content = Planned(a)
  BY <1>3, Finds DEF TakeRecord
<1>5. PICK w1 : Moves(p, w1, "taken", worker[p].i) /\ WorkersMove(p)
  BY <1>1, WorkerSteps
<1>6. /\ w1 = worker'[p] /\ w1.pc = "taken" /\ w1.i = w.i /\ w1.prefix = w.prefix
      /\ w \in WorkerRow /\ Len(s) \in Nat /\ \A k \in 1..Len(s) : s[k] \in InPack(p)
  BY <1>3, <1>5 DEF Moves, Acting
<1>7. SetEntry(a, "sha", Planned(a))
  BY <1>3, <1>4 DEF TakeRecord
<1>8. /\ EntriesMove(p) /\ \A x \in Artifacts : x # a => entry'[x] = entry[x]
      /\ entry'[a].sha = Planned(a) /\ EntryMoves(entry[a], entry'[a], a, s, f)
  BY <1>3, <1>7, ShaSets
<1>9. \A x \in InPack(p) : EntryMoves(entry[x], entry'[x], x, s, f)
  <2>1. \A x \in InPack(p) : EntryMoves(entry[x], entry[x], x, s, f) /\ x \in Artifacts
    BY <1>3, Still DEF InPack
  <2> QED BY <1>8, <2>1
<1>10. Passed(w1, s, entry')
  <2>1. PICK en : en = entry'
    OBVIOUS
  <2>2. w.i <= Len(s) + 1 /\ Passed(w, s, entry)
    BY <1>4 DEF Walks
  <2>3. PICK e0, S : e0 = entry /\ S = InPack(p)
    OBVIOUS
  <2>4. /\ ListsOf(S, s) /\ AllMove(S, e0, en, s, f)
        /\ Passed(w, s, e0) /\ w \in WorkerRow /\ w1.i = w.i
    BY <1>6, <1>9, <2>1, <2>2, <2>3 DEF ListsOf, AllMove
  <2>5. Passed(w1, s, en)
    BY <2>2, <2>4, PassedStays
  <2> QED BY <2>1, <2>5
<1>11. Knows(w1, f, s, entry', part[PartOf(p, s[w1.i])])
  <2>1. PICK en, t : en = entry' /\ t = part[PartOf(p, s[w1.i])]
    OBVIOUS
  <2>2. Passed(w1, s, en) /\ en[s[w1.i]].sha = Planned(s[w1.i])
    BY <1>3, <1>6, <1>8, <1>10, <2>1
  <2>3. Fills(w1, f, s, en, t)
    BY <1>3, <1>4, <1>6, <2>2 DEF Fills, Walks, Digested, Headed
  <2>4. Knows(w1, f, s, en, t)
    BY <1>6, <2>3 DEF Knows
  <2> QED BY <2>1, <2>4
<1>12. UNCHANGED <<epoch, batch, pack, files, call, dir, upstream, breaks>>
  BY DEF TakeRecord
<1> QED
  BY <1>2, <1>3, <1>5, <1>6, <1>8, <1>11, <1>12, EntrySteps

(* The row of an artifact is set by a worker that is at it. *)
LEMMA Rows ==
    ASSUME WInv, NEW p \in Packs, NEW w, NEW f, NEW s, Acting(p, w, f, s),
           w.i \in 1..Len(s), NEW a \in InPack(p), a = s[w.i], w.pc \in Filling,
           EntriesMove(p), \A x \in Artifacts : x # a => entry'[x] = entry[x],
           EntryMoves(entry[a], entry'[a], a, s, f), NEW w1, w1.i = w.i
    PROVE  /\ Fills(w, f, s, entry, part[PartOf(p, a)])
           /\ Passed(w1, s, entry') /\ w.i \in Nat \ {0} /\ w.prefix \in Nat
           /\ f.count \in Nat
<1>1. /\ w \in WorkerRow /\ f \in FileRow /\ Len(s) \in Nat
      /\ \A k \in 1..Len(s) : s[k] \in InPack(p)
  BY DEF Acting
<1>2. Fills(w, f, s, entry, part[PartOf(p, a)])
  <2>1. PartHere(p) = PartOf(p, a)
    BY DEF Acting, PartHere, Current
  <2> QED BY <2>1 DEF Acting, Knows
<1>3. \A x \in InPack(p) : EntryMoves(entry[x], entry'[x], x, s, f)
  <2>1. \A x \in InPack(p) : EntryMoves(entry[x], entry[x], x, s, f) /\ x \in Artifacts
    BY Still DEF InPack
  <2> QED BY <2>1
<1>4. Passed(w1, s, entry')
  <2>1. PICK en : en = entry'
    OBVIOUS
  <2>2. w.i <= Len(s) + 1 /\ Passed(w, s, entry)
    BY <1>1, <1>2 DEF Fills, WorkerRow
  <2>3. PICK e0, S : e0 = entry /\ S = InPack(p)
    OBVIOUS
  <2>4. /\ ListsOf(S, s) /\ AllMove(S, e0, en, s, f)
        /\ Passed(w, s, e0) /\ w \in WorkerRow /\ w1.i = w.i
    BY <1>1, <1>3, <2>1, <2>2, <2>3 DEF ListsOf, AllMove
  <2>5. Passed(w1, s, en)
    BY <2>2, <2>4, PassedStays
  <2> QED BY <2>1, <2>5
<1> QED BY <1>1, <1>2, <1>4 DEF WorkerRow, FileRow

LEMMA LocateTakenKeeps ==
    ASSUME WInv, NEW p \in Packs, LocateTaken(p), Aside
    PROVE  WInv'
<1>1. /\ Working(p, "taken") /\ "taken" \in WorkerAt /\ "located" \in WorkerAt /\ WTypes
      /\ Step(p, "located") /\ "taken" \in Filling /\ "located" \in Filling
  BY DEF LocateTaken, WorkerAt, Filling, WInv
<1>2. call[BatchOf(p)] \in {"run", "cancelled"}
  BY <1>1, WorkerIsAt
<1>3. PICK w, f, s, a : /\ Acting(p, w, f, s) /\ w.pc = "taken"
                        /\ w.i \in 1..Len(s) /\ a = s[w.i] /\ a = Current(p) /\ a \in InPack(p)
                        /\ PartHere(p) = PartOf(p, a)
  BY <1>1, WorkerIsAt
<1>4. PICK w1 : Moves(p, w1, "located", worker[p].i) /\ WorkersMove(p)
  BY <1>1, WorkerSteps
<1>5. /\ w1 = worker'[p] /\ w1.pc = "located" /\ w1.i = w.i /\ w1.prefix = w.prefix
      /\ w = worker[p]
  BY <1>3, <1>4 DEF Moves, Acting
<1>6. Fills(w, f, s, entry, part[PartOf(p, a)])
  BY <1>1, <1>3 DEF Acting, Knows
<1>7. w.i <= w.prefix /\ f.count = w.prefix
  BY <1>3, <1>6 DEF Fills
<1>8. SetEntry(a, "at", w.i) /\ w.i <= f.count /\ s[w.i] = a
  BY <1>3, <1>5, <1>7 DEF LocateTaken
<1>9. /\ EntriesMove(p) /\ \A x \in Artifacts : x # a => entry'[x] = entry[x]
      /\ entry'[a].sha = entry[a].sha /\ entry'[a].at = w.i
      /\ EntryMoves(entry[a], entry'[a], a, s, f)
  BY <1>3, <1>8, AtSets
<1>10. Passed(w1, s, entry') /\ w.i \in Nat \ {0} /\ w.prefix \in Nat /\ f.count \in Nat
  BY <1>1, <1>3, <1>5, <1>9, Rows
<1>11. Knows(w1, f, s, entry', part[PartOf(p, s[w1.i])])
  <2>1. PICK en, t : en = entry' /\ t = part[PartOf(p, s[w1.i])]
    OBVIOUS
  <2>2. /\ Passed(w1, s, en) /\ en[s[w1.i]].sha = Planned(s[w1.i])
        /\ en[s[w1.i]].at = w1.i
    <3>1. entry[a].sha = Planned(a)
      BY <1>3, <1>6 DEF Fills, Digested
    <3> QED BY <1>3, <1>5, <1>9, <1>10, <2>1, <3>1
  <2>3. Fills(w1, f, s, en, t)
    BY <1>3, <1>5, <1>6, <1>7, <2>2 DEF Fills, Digested, Headed
  <2>4. Knows(w1, f, s, en, t)
    BY <1>1, <1>5, <2>3 DEF Knows
  <2> QED BY <2>1, <2>4
<1>12. UNCHANGED <<epoch, batch, pack, files, call, dir, upstream, breaks>> /\ w1.pc # "done"
  BY <1>5 DEF LocateTaken
<1> QED
  BY <1>2, <1>3, <1>4, <1>5, <1>9, <1>11, <1>12, EntrySteps

LEMMA SetLocationKeeps ==
    ASSUME WInv, NEW p \in Packs, SetLocation(p), Aside
    PROVE  WInv'
<1>1. Working(p, "packed") /\ "packed" \in WorkerAt /\ WTypes /\ "packed" \in Filling
  BY DEF SetLocation, WorkerAt, Filling, WInv
<1>2. call[BatchOf(p)] \in {"run", "cancelled"}
  BY <1>1, WorkerIsAt
<1>3. PICK w, f, s, a : /\ Acting(p, w, f, s) /\ w.pc = "packed"
                        /\ w.i \in 1..Len(s) /\ a = s[w.i] /\ a = Current(p) /\ a \in InPack(p)
                        /\ PartHere(p) = PartOf(p, a)
  BY <1>1, WorkerIsAt
<1>4. PICK pc : pc = IF Origin[a] = "upstream" THEN "placed" ELSE "located"
  OBVIOUS
<1>5. pc \in {"placed", "located"} /\ pc \in WorkerAt /\ Step(p, pc) /\ pc \in Filling
  BY <1>3, <1>4 DEF SetLocation, WorkerAt, Filling
<1>6. PICK w1 : Moves(p, w1, pc, worker[p].i) /\ WorkersMove(p)
  BY <1>1, <1>5, WorkerSteps
<1>7. /\ w1 = worker'[p] /\ w1.pc = pc /\ w1.i = w.i /\ w1.prefix = w.prefix
      /\ w = worker[p] /\ f = file[Place(p)]
  BY <1>3, <1>6 DEF Moves, Acting, Mine
<1>8. Fills(w, f, s, entry, part[PartOf(p, a)])
  BY <1>1, <1>3 DEF Acting, Knows
<1>9. w \in WorkerRow /\ w.i \in Nat /\ w.prefix \in Nat
  BY <1>3 DEF Acting, WorkerRow
<1>10. w.i > w.prefix /\ f.count = w.i
  BY <1>3, <1>8, <1>9 DEF Fills, Headed
<1>11. SetEntry(a, "at", w.i) /\ w.i <= f.count /\ s[w.i] = a
  BY <1>3, <1>7, <1>9, <1>10 DEF SetLocation
<1>12. /\ EntriesMove(p) /\ \A x \in Artifacts : x # a => entry'[x] = entry[x]
       /\ entry'[a].sha = entry[a].sha /\ entry'[a].at = w.i
       /\ EntryMoves(entry[a], entry'[a], a, s, f)
  BY <1>3, <1>11, AtSets
<1>13. Passed(w1, s, entry')
  BY <1>1, <1>3, <1>7, <1>12, Rows
<1>14. Knows(w1, f, s, entry', part[PartOf(p, s[w1.i])])
  <2>1. PICK en, t : en = entry' /\ t = part[PartOf(p, s[w1.i])]
    OBVIOUS
  <2>2. /\ Passed(w1, s, en) /\ en[s[w1.i]].sha = Planned(s[w1.i])
        /\ en[s[w1.i]].at = w1.i
    <3>1. entry[a].sha = Planned(a)
      BY <1>3, <1>8 DEF Fills, Digested
    <3> QED BY <1>3, <1>7, <1>12, <1>13, <2>1, <3>1
  <2>3. Fills(w1, f, s, en, t)
    BY <1>3, <1>5, <1>7, <1>8, <1>9, <1>10, <2>2 DEF Fills, Digested, Headed
  <2>4. Knows(w1, f, s, en, t)
    BY <1>5, <1>7, <2>3 DEF Knows
  <2> QED BY <2>1, <2>4
<1>15. UNCHANGED <<epoch, batch, pack, files, call, dir, upstream, breaks>> /\ w1.pc # "done"
  BY <1>5, <1>7 DEF SetLocation
<1> QED
  BY <1>2, <1>3, <1>6, <1>7, <1>12, <1>14, <1>15, EntrySteps

LEMMA MarkVerifiedKeeps ==
    ASSUME WInv, NEW p \in Packs, MarkVerified(p), Aside
    PROVE  WInv'
<1>1. Working(p, "located") /\ "located" \in WorkerAt /\ WTypes /\ "located" \in Filling
  BY DEF MarkVerified, WorkerAt, Filling, WInv
<1>2. call[BatchOf(p)] \in {"run", "cancelled"}
  BY <1>1, WorkerIsAt
<1>3. PICK w, f, s, a : /\ Acting(p, w, f, s) /\ w.pc = "located"
                        /\ w.i \in 1..Len(s) /\ a = s[w.i] /\ a = Current(p) /\ a \in InPack(p)
                        /\ PartHere(p) = PartOf(p, a)
  BY <1>1, WorkerIsAt
<1>4. PICK w1 : Moves(p, w1, "walk", worker[p].i + 1) /\ WorkersMove(p)
  BY <1>1, WorkerWalksOn DEF MarkVerified
<1>5. /\ w1 = worker'[p] /\ w1.pc = "walk" /\ w1.i = w.i + 1 /\ w1.prefix = w.prefix
      /\ w = worker[p] /\ f = file[Place(p)]
  BY <1>3, <1>4 DEF Moves, Acting, Mine
<1>6. Fills(w, f, s, entry, part[PartOf(p, a)])
  BY <1>1, <1>3 DEF Acting, Knows
<1>7. w \in WorkerRow /\ w.i \in Nat \ {0} /\ w.prefix \in Nat /\ Len(s) \in Nat
  BY <1>3 DEF Acting, WorkerRow
<1>8. entry[a].sha = Planned(a) /\ entry[a].at = w.i
  BY <1>3, <1>6 DEF Fills, Digested
<1>9. PlacedAt(entry[a], a, s) /\ entry[a].at <= f.count
  <2>1. w.i <= f.count
    BY <1>3, <1>6, <1>7 DEF Fills, Headed
  <2> QED BY <1>3, <1>8, <2>1 DEF PlacedAt
<1>10. MarkEntryState(a, "VERIFIED", Size[a], None) /\ Size[a] \in Nat /\ Size[a] <= Size[a]
  <2>1. Size[a] \in Nat
    BY <1>3, RowIs
  <2> QED BY <1>3, <2>1 DEF MarkVerified
<1>11. /\ EntriesMove(p) /\ \A x \in Artifacts : x # a => entry'[x] = entry[x]
       /\ entry'[a].sha = entry[a].sha /\ entry'[a].at = entry[a].at
       /\ EntryMoves(entry[a], entry'[a], a, s, f)
  BY <1>3, <1>9, <1>10, StateSets
<1>12. Passed(w, s, entry')
  BY <1>1, <1>3, <1>11, Rows
<1>13. Passed(w1, s, entry')
  <2>1. PICK en, e : en = entry' /\ e = entry'[a]
    OBVIOUS
  <2>2. PlacedAt(en[s[w.i]], s[w.i], s)
    <3>1. PlacedAt(e, a, s)
      BY <1>9, <1>11, <2>1 DEF PlacedAt
    <3> QED BY <1>3, <2>1, <3>1
  <2>3. Passed(w1, s, en)
    BY <1>5, <1>7, <1>12, <2>1, <2>2, PassesOneMore
  <2> QED BY <2>1, <2>3
<1>14. Knows(w1, f, s, entry', part[PartOf(p, s[w1.i])])
  <2>1. PICK en, t : en = entry' /\ t = part[PartOf(p, s[w1.i])]
    OBVIOUS
  <2>2. Walks(w1, f, s, en)
    BY <1>3, <1>5, <1>6, <1>7, <1>13, <2>1 DEF Walks, Fills, Headed
  <2>3. Knows(w1, f, s, en, t)
    BY <1>5, <2>2 DEF Knows, Filling
  <2> QED BY <2>1, <2>3
<1>15. UNCHANGED <<epoch, batch, pack, files, call, dir, upstream, breaks>> /\ w1.pc # "done"
  BY <1>5 DEF MarkVerified
<1> QED
  BY <1>2, <1>3, <1>4, <1>5, <1>11, <1>14, <1>15, EntrySteps

-----------------------------------------------------------------------------
(* The ".part" file of an artifact *)

(* A worker that has come to an artifact without a record. *)
LEMMA Materializes ==
    ASSUME WInv, NEW p \in Packs, NEW origin, ToMaterialize(p, origin)
    PROVE  /\ call[BatchOf(p)] \in {"run", "cancelled"}
           /\ \E w, f, s, a : /\ Acting(p, w, f, s) /\ w.pc = "walk"
                              /\ w.i \in 1..Len(s) /\ a = s[w.i] /\ a = Current(p)
                              /\ a \in InPack(p) /\ PartHere(p) = PartOf(p, a)
                              /\ Origin[a] = origin /\ f.header /\ Passed(w, s, entry)
                              /\ w.i > w.prefix /\ f.count = w.i - 1
                              /\ Len(f.records) = w.i - 1
<1>1. Working(p, "walk") /\ "walk" \in WorkerAt
  BY DEF ToMaterialize, WorkerAt
<1>2. call[BatchOf(p)] \in {"run", "cancelled"}
  BY <1>1, WorkerIsAt
<1>3. PICK w, f, s, a : /\ Acting(p, w, f, s) /\ w.pc = "walk"
                        /\ w.i \in 1..Len(s) /\ a = s[w.i] /\ a = Current(p) /\ a \in InPack(p)
                        /\ PartHere(p) = PartOf(p, a)
  BY <1>1, WorkerIsAt
<1>4. Walks(w, f, s, entry) /\ w = worker[p] /\ w \in WorkerRow
  BY <1>3 DEF Acting, Knows
<1>5. w.i > w.prefix
  BY <1>4 DEF ToMaterialize, KeepsRecord, WorkerRow
<1>6. /\ f.header /\ Passed(w, s, entry) /\ f.count = w.i - 1
      /\ Len(f.records) = w.i - 1
  BY <1>4, <1>5 DEF Walks, WorkerRow
<1>7. Origin[a] = origin
  BY <1>3 DEF ToMaterialize
<1> QED BY <1>2, <1>3, <1>5, <1>6, <1>7

(* Steps that move neither a row nor the pack file. *)
LEMMA PartSteps ==
    ASSUME WInv, NEW p \in Packs, call[BatchOf(p)] \in {"run", "cancelled"},
           UNCHANGED <<rows, file, bundle, call, dir, upstream, breaks>>, Aside,
           NEW w, NEW f, NEW s, Acting(p, w, f, s), WorkersMove(p), PartsMove(p),
           NEW w1, w1 = worker'[p],
           Knows(w1, f, s, entry, part'[PartOf(p, s[w1.i])]), w1.pc # "done"
    PROVE  WInv'
<1>1. f = file[Place(p)] /\ Holds(f, s) /\ f.count \in Nat /\ WTypes
  BY DEF Acting, Mine, FileRow, WInv
<1>2. f = file'[Place(p)] /\ FilesMove(p) /\ f.count <= f.count
  BY <1>1, Unmoved
<1>3. ReadyKept(p, f, s, f)
  BY ReadyHere DEF ReadyKept
<1>4. UNCHANGED <<rows, bundle, call, dir, upstream, breaks>>
  OBVIOUS
<1> QED BY <1>1, <1>2, <1>3, <1>4, FileSteps

LEMMA OpenUpstreamKeeps ==
    ASSUME WInv, NEW p \in Packs, OpenUpstream(p), Aside
    PROVE  WInv'
<1>1. ToMaterialize(p, "upstream") /\ WTypes
  BY DEF OpenUpstream, WInv
<1>2. call[BatchOf(p)] \in {"run", "cancelled"}
  BY <1>1, Materializes
<1>3. PICK w, f, s, a : /\ Acting(p, w, f, s) /\ w.pc = "walk"
                        /\ w.i \in 1..Len(s) /\ a = s[w.i] /\ a = Current(p)
                        /\ a \in InPack(p) /\ PartHere(p) = PartOf(p, a)
                        /\ Origin[a] = "upstream" /\ f.header /\ Passed(w, s, entry)
                        /\ w.i > w.prefix /\ f.count = w.i - 1
                        /\ Len(f.records) = w.i - 1
  BY <1>1, Materializes
<1>4. PICK g : g = PartOf(p, a)
  OBVIOUS
<1>5. /\ g \in Dirs \X Artifacts /\ a \in Artifacts /\ Size[a] \in Nat /\ g[2] = a
      /\ w = worker[p] /\ w \in WorkerRow
  <2>1. a \in Artifacts /\ Size[a] \in Nat
    BY <1>3, RowIs
  <2>2. PartOf(p, a) \in Dirs \X Artifacts /\ w = worker[p] /\ w \in WorkerRow
    BY <1>3 DEF Acting
  <2>3. PartOf(p, a)[2] = a
    BY DEF PartOf
  <2> QED BY <1>4, <2>1, <2>2, <2>3
<1>6. PICK c : c = IF part[g] = None THEN <<>> ELSE part[g]
  OBVIOUS
<1>7. c \in Seq(Nat) /\ Offset(g) \in Nat /\ Len(c) <= Size[a]
  <2>1. part[g] # None => part[g] \in Seq(Nat)
    BY <1>1, <1>5 DEF WTypes, EntryTypes, Parts
  <2>2. c \in Seq(Nat) /\ Len(c) = Offset(g)
    BY <1>6, <2>1, EmptySeq DEF Offset
  <2> QED BY <1>1, <1>5, <2>2 DEF WTypes, EntryTypes
<1>8. part' = [part EXCEPT ![g] = c]
  BY <1>1, <1>3, <1>4, <1>5, <1>6 DEF OpenUpstream, WTypes, EntryTypes
<1>9. PartsMove(p) /\ part'[g] = c
  <2>1. c \in Parts
    BY <1>7 DEF Parts
  <2>2. /\ a \in InPack(p) /\ PartOf(p, a) \in Dirs \X Artifacts
        /\ c # None => Len(c) <= Size[a]
        /\ part' = [part EXCEPT ![PartOf(p, a)] = c]
    BY <1>3, <1>4, <1>5, <1>7, <1>8
  <2>3. PartsMove(p) /\ part'[PartOf(p, a)] = c
    BY <1>1, <2>1, <2>2, PartSets
  <2> QED BY <1>4, <2>3
<1>10. PICK w1 : w1 = [w EXCEPT !.pc = "fetch", !.version = upstream[a],
                                !.next = Offset(g) + ProgressEvery]
  OBVIOUS
<1>11. worker' = [worker EXCEPT ![p] = w1]
  BY <1>1, <1>3, <1>4, <1>5, <1>10 DEF OpenUpstream, WTypes, PackTypes
<1>12. /\ w1 \in WorkerRow /\ w1.pc = "fetch" /\ w1.i = w.i /\ w1.prefix = w.prefix
  <2>1. upstream[a] \in Nat
    BY <1>1, <1>3, <1>5 DEF WTypes, EntryTypes, Upstream
  <2>2. "fetch" \in WorkerAt /\ Offset(g) + ProgressEvery \in Nat
    BY <1>7, Constants DEF WorkerAt, Filling
  <2>3. w1 = [pc |-> "fetch", i |-> w.i, prefix |-> w.prefix,
              version |-> upstream[a], next |-> Offset(g) + ProgressEvery]
    BY <1>5, <1>10 DEF WorkerRow
  <2> QED BY <1>5, <2>1, <2>2, <2>3 DEF WorkerRow
<1>13. WorkersMove(p) /\ w1 = worker'[p]
  BY <1>1, <1>11, <1>12, WorkerSets
<1>14. Knows(w1, f, s, entry, part'[PartOf(p, s[w1.i])])
  <2>1. PICK t : t = part'[PartOf(p, s[w1.i])]
    OBVIOUS
  <2>2. t = c
    BY <1>3, <1>4, <1>9, <1>12, <2>1
  <2>3. t # None
    BY <1>7, <2>2, DownloadAssumption
  <2>4. Passed(w1, s, entry)
    BY <1>3, <1>12 DEF Passed
  <2>5. /\ w.i \in Nat /\ w.prefix \in Nat /\ Len(s) \in Nat /\ w.i <= Len(s)
        /\ Origin[s[w1.i]] = "upstream"
    <3>1. w.i \in Nat /\ w.prefix \in Nat
      BY <1>5 DEF WorkerRow
    <3>2. Len(s) \in Nat
      BY <1>3 DEF Acting
    <3>3. w.i <= Len(s)
      BY <1>3, <3>2
    <3>4. Origin[s[w1.i]] = "upstream"
      BY <1>3, <1>12
    <3> QED BY <3>1, <3>2, <3>3, <3>4
  <2>6. Fills(w1, f, s, entry, t)
    BY <1>3, <1>12, <2>3, <2>4, <2>5 DEF Fills, Digested, Headed
  <2>7. Knows(w1, f, s, entry, t)
    BY <1>12, <2>6 DEF Knows
  <2> QED BY <2>1, <2>7
<1>15. UNCHANGED <<rows, file, bundle, call, dir, upstream, breaks>> /\ w1.pc # "done"
  BY <1>12 DEF OpenUpstream
<1> QED BY <1>2, <1>3, <1>9, <1>13, <1>14, <1>15, PartSteps

(* A worker that is at an artifact, with its ".part" file. *)
LEMMA Fillings ==
    ASSUME WInv, NEW p \in Packs, NEW pc \in Filling, Working(p, pc)
    PROVE  /\ call[BatchOf(p)] \in {"run", "cancelled"}
           /\ \E w, f, s, a, t : /\ Acting(p, w, f, s) /\ w.pc = pc
                                 /\ w.i \in 1..Len(s) /\ a = s[w.i] /\ a = Current(p)
                                 /\ a \in InPack(p) /\ PartHere(p) = PartOf(p, a)
                                 /\ PartOf(p, a) \in Dirs \X Artifacts
                                 /\ t = part[PartOf(p, a)] /\ t \in Parts
                                 /\ Fills(w, f, s, entry, t)
                                 /\ w \in WorkerRow /\ w = worker[p]
                                 /\ w.i \in Nat \ {0} /\ w.prefix \in Nat /\ Len(s) \in Nat
<1>1. pc \in WorkerAt /\ pc # "idle"
  BY DEF Filling, WorkerAt
<1>2. call[BatchOf(p)] \in {"run", "cancelled"}
  BY <1>1, WorkerIsAt
<1>3. PICK w, f, s, a : /\ Acting(p, w, f, s) /\ w.pc = pc
                        /\ w.i \in 1..Len(s) /\ a = s[w.i] /\ a = Current(p) /\ a \in InPack(p)
                        /\ PartHere(p) = PartOf(p, a)
  BY <1>1, WorkerIsAt
<1>4. PICK t : t = part[PartOf(p, a)]
  OBVIOUS
<1>5. Fills(w, f, s, entry, t)
  BY <1>3, <1>4 DEF Acting, Knows
<1>6. PartOf(p, a) \in Dirs \X Artifacts /\ w = worker[p] /\ w \in WorkerRow /\ Len(s) \in Nat
  BY <1>3 DEF Acting
<1>7. t \in Parts
  BY <1>4, <1>6 DEF WInv, WTypes, EntryTypes
<1>8. w.i \in Nat \ {0} /\ w.prefix \in Nat
  BY <1>6 DEF WorkerRow
<1> QED BY <1>2, <1>3, <1>4, <1>5, <1>6, <1>7, <1>8

LEMMA FetchChunkKeeps ==
    ASSUME WInv, NEW p \in Packs, FetchChunk(p), Aside
    PROVE  WInv'
<1>1. Working(p, "fetch") /\ "fetch" \in Filling /\ WTypes
  BY DEF FetchChunk, Filling, WInv
<1>2. call[BatchOf(p)] \in {"run", "cancelled"}
  BY <1>1, Fillings
<1>3. PICK w, f, s, a, t : /\ Acting(p, w, f, s) /\ w.pc = "fetch"
                           /\ w.i \in 1..Len(s) /\ a = s[w.i] /\ a = Current(p)
                           /\ a \in InPack(p) /\ PartHere(p) = PartOf(p, a)
                           /\ PartOf(p, a) \in Dirs \X Artifacts
                           /\ t = part[PartOf(p, a)] /\ t \in Parts
                           /\ Fills(w, f, s, entry, t)
                           /\ w \in WorkerRow /\ w = worker[p]
                           /\ w.i \in Nat \ {0} /\ w.prefix \in Nat /\ Len(s) \in Nat
  BY <1>1, Fillings
<1>4. t \in Seq(Nat) /\ Origin[a] = "upstream"
  BY <1>3 DEF Fills, Parts
<1>5. PICK c : c = Append(t, w.version)
  OBVIOUS
<1>6. c \in Seq(Nat) /\ Len(c) <= Size[a]
  <2>1. w.version \in Nat /\ Offset(PartOf(p, a)) = Len(t)
    BY <1>3, <1>4, DownloadAssumption DEF WorkerRow, Offset
  <2>2. c \in Seq(Nat) /\ Len(c) = Len(t) + 1 /\ Len(t) \in Nat
    BY <1>4, <1>5, <2>1, AppendProperties
  <2>3. Size[a] \in Nat
    BY <1>3, RowIs
  <2>4. Len(t) < Size[a]
    BY <1>3, <2>1 DEF FetchChunk
  <2> QED BY <2>2, <2>3, <2>4
<1>7. part' = [part EXCEPT ![PartOf(p, a)] = c]
  BY <1>3, <1>5 DEF FetchChunk
<1>8. PartsMove(p) /\ part'[PartOf(p, a)] = c
  <2>1. c \in Parts
    BY <1>6 DEF Parts
  <2>2. /\ a \in InPack(p) /\ PartOf(p, a) \in Dirs \X Artifacts
        /\ c # None => Len(c) <= Size[a]
    BY <1>3, <1>6
  <2> QED BY <1>1, <1>7, <2>1, <2>2, PartSets
<1>9. PICK pc : pc = IF Offset(PartHere(p)) + 1 >= worker[p].next THEN "progress" ELSE "fetch"
  OBVIOUS
<1>10. pc \in {"fetch", "progress"} /\ pc \in WorkerAt /\ pc \in Filling /\ Step(p, pc)
  BY <1>9 DEF WorkerAt, Filling, FetchChunk
<1>11. PICK w1 : Moves(p, w1, pc, worker[p].i) /\ WorkersMove(p)
  BY <1>1, <1>10, WorkerSteps
<1>12. w1 = worker'[p] /\ w1.pc = pc /\ w1.i = w.i /\ w1.prefix = w.prefix
  BY <1>3, <1>11 DEF Moves
<1>13. Knows(w1, f, s, entry, part'[PartOf(p, s[w1.i])])
  <2>1. PICK t1 : t1 = part'[PartOf(p, s[w1.i])]
    OBVIOUS
  <2>2. t1 # None /\ Origin[s[w1.i]] = "upstream"
    <3>1. t1 = c
      BY <1>3, <1>8, <1>12, <2>1
    <3> QED BY <1>3, <1>4, <1>6, <1>12, <3>1, DownloadAssumption
  <2>3. Passed(w1, s, entry)
    BY <1>3, <1>12 DEF Passed, Fills
  <2>4. Fills(w1, f, s, entry, t1)
    BY <1>3, <1>10, <1>12, <2>2, <2>3 DEF Fills, Digested, Headed
  <2> QED BY <1>10, <1>12, <2>1, <2>4 DEF Knows
<1>14. UNCHANGED <<rows, file, bundle, call, dir, upstream, breaks>> /\ w1.pc # "done"
  BY <1>10, <1>12 DEF FetchChunk
<1> QED BY <1>2, <1>3, <1>8, <1>11, <1>12, <1>13, <1>14, PartSteps

LEMMA RemovePartKeeps ==
    ASSUME WInv, NEW p \in Packs, RemovePart(p), Aside
    PROVE  WInv'
<1>1. /\ Working(p, "placed") /\ "placed" \in Filling /\ WTypes
      /\ "located" \in WorkerAt /\ "located" \in Filling /\ Step(p, "located")
  BY DEF RemovePart, Filling, WInv, WorkerAt
<1>2. call[BatchOf(p)] \in {"run", "cancelled"}
  BY <1>1, Fillings
<1>3. PICK w, f, s, a, t : /\ Acting(p, w, f, s) /\ w.pc = "placed"
                           /\ w.i \in 1..Len(s) /\ a = s[w.i] /\ a = Current(p)
                           /\ a \in InPack(p) /\ PartHere(p) = PartOf(p, a)
                           /\ PartOf(p, a) \in Dirs \X Artifacts
                           /\ t = part[PartOf(p, a)] /\ t \in Parts
                           /\ Fills(w, f, s, entry, t)
                           /\ w \in WorkerRow /\ w = worker[p]
                           /\ w.i \in Nat \ {0} /\ w.prefix \in Nat /\ Len(s) \in Nat
  BY <1>1, Fillings
<1>4. PartsMove(p)
  <2>1. PICK c : c = None
    OBVIOUS
  <2>2. c \in Parts /\ (c # None => Len(c) <= Size[a])
    BY <2>1 DEF Parts
  <2>3. part' = [part EXCEPT ![PartOf(p, a)] = c]
    BY <1>3, <2>1 DEF RemovePart
  <2> QED BY <1>1, <1>3, <2>2, <2>3, PartSets
<1>5. PICK w1 : Moves(p, w1, "located", worker[p].i) /\ WorkersMove(p)
  BY <1>1, WorkerSteps
<1>6. w1 = worker'[p] /\ w1.pc = "located" /\ w1.i = w.i /\ w1.prefix = w.prefix
  BY <1>3, <1>5 DEF Moves
<1>7. Knows(w1, f, s, entry, part'[PartOf(p, s[w1.i])])
  <2>1. PICK t1 : t1 = part'[PartOf(p, s[w1.i])]
    OBVIOUS
  <2>2. Passed(w1, s, entry)
    BY <1>3, <1>6 DEF Passed, Fills
  <2>3. Fills(w1, f, s, entry, t1)
    BY <1>3, <1>6, <2>2 DEF Fills, Digested, Headed
  <2> QED BY <1>1, <1>6, <2>1, <2>3 DEF Knows
<1>8. UNCHANGED <<rows, file, bundle, call, dir, upstream, breaks>> /\ w1.pc # "done"
  BY <1>6 DEF RemovePart
<1> QED BY <1>2, <1>3, <1>4, <1>5, <1>6, <1>7, <1>8, PartSteps

LEMMA MarkProgressKeeps ==
    ASSUME WInv, NEW p \in Packs, MarkProgress(p), Aside
    PROVE  WInv'
<1>1. Working(p, "progress") /\ "progress" \in Filling /\ WTypes
  BY DEF MarkProgress, Filling, WInv
<1>2. call[BatchOf(p)] \in {"run", "cancelled"}
  BY <1>1, Fillings
<1>3. PICK w, f, s, a, t : /\ Acting(p, w, f, s) /\ w.pc = "progress"
                           /\ w.i \in 1..Len(s) /\ a = s[w.i] /\ a = Current(p)
                           /\ a \in InPack(p) /\ PartHere(p) = PartOf(p, a)
                           /\ PartOf(p, a) \in Dirs \X Artifacts
                           /\ t = part[PartOf(p, a)] /\ t \in Parts
                           /\ Fills(w, f, s, entry, t)
                           /\ w \in WorkerRow /\ w = worker[p]
                           /\ w.i \in Nat \ {0} /\ w.prefix \in Nat /\ Len(s) \in Nat
  BY <1>1, Fillings
<1>4. PICK got, v : got = Offset(PartHere(p)) /\ v = w.version
  OBVIOUS
<1>5. got \in Nat /\ got <= Size[a] /\ v \in Nat
  <2>1. t \in Seq(Nat) /\ t # None
    BY <1>3 DEF Fills, Parts
  <2>2. got = Len(t)
    BY <1>3, <1>4, <2>1 DEF Offset
  <2>3. got <= Size[PartOf(p, a)[2]]
    BY <1>1, <1>3, <1>4 DEF WTypes, EntryTypes
  <2> QED BY <1>3, <1>4, <2>1, <2>2, <2>3 DEF PartOf, WorkerRow
<1>6. MarkEntryState(a, "DOWNLOADING", got, v)
  BY <1>3, <1>4 DEF MarkProgress
<1>7. /\ EntriesMove(p) /\ \A x \in Artifacts : x # a => entry'[x] = entry[x]
      /\ entry'[a].sha = entry[a].sha /\ entry'[a].at = entry[a].at
      /\ EntryMoves(entry[a], entry'[a], a, s, f)
  BY <1>3, <1>5, <1>6, StateSets
<1>8. PICK w1 : w1 = [w EXCEPT !.pc = "fetch", !.next = got + ProgressEvery]
  OBVIOUS
<1>9. worker' = [worker EXCEPT ![p] = w1]
  BY <1>1, <1>3, <1>4, <1>8 DEF MarkProgress, WTypes, PackTypes
<1>10. w1 \in WorkerRow /\ w1.pc = "fetch" /\ w1.i = w.i /\ w1.prefix = w.prefix
  <2>1. "fetch" \in WorkerAt /\ got + ProgressEvery \in Nat
    BY <1>5, Constants DEF WorkerAt, Filling
  <2>2. w1 = [pc |-> "fetch", i |-> w.i, prefix |-> w.prefix,
              version |-> w.version, next |-> got + ProgressEvery]
    BY <1>3, <1>8 DEF WorkerRow
  <2> QED BY <1>3, <2>1, <2>2 DEF WorkerRow
<1>11. WorkersMove(p) /\ w1 = worker'[p]
  BY <1>1, <1>9, <1>10, WorkerSets
<1>12. Passed(w1, s, entry')
  BY <1>1, <1>3, <1>7, <1>10, Rows
<1>13. Knows(w1, f, s, entry', part[PartOf(p, s[w1.i])])
  <2>1. PICK en : en = entry'
    OBVIOUS
  <2>2. part[PartOf(p, s[w1.i])] = t /\ Passed(w1, s, en)
    BY <1>3, <1>10, <1>12, <2>1
  <2>3. Fills(w1, f, s, en, t)
    BY <1>3, <1>10, <2>2 DEF Fills, Digested, Headed
  <2>4. Knows(w1, f, s, en, t)
    BY <1>10, <2>3 DEF Knows
  <2> QED BY <2>1, <2>2, <2>4
<1>14. UNCHANGED <<epoch, batch, pack, files, call, dir, upstream, breaks>> /\ w1.pc # "done"
  BY <1>10 DEF MarkProgress
<1> QED
  BY <1>2, <1>3, <1>7, <1>10, <1>11, <1>13, <1>14, EntrySteps

LEMMA FinishFetchKeeps ==
    ASSUME WInv, NEW p \in Packs, FinishFetch(p), Aside
    PROVE  WInv'
<1>1. /\ Working(p, "fetch") /\ "fetch" \in Filling /\ WTypes
      /\ "verified" \in Filling /\ "verified" \in WorkerAt /\ Step(p, "verified")
  BY DEF FinishFetch, Filling, WInv, WorkerAt
<1>2. call[BatchOf(p)] \in {"run", "cancelled"}
  BY <1>1, Fillings
<1>3. PICK w, f, s, a, t : /\ Acting(p, w, f, s) /\ w.pc = "fetch"
                           /\ w.i \in 1..Len(s) /\ a = s[w.i] /\ a = Current(p)
                           /\ a \in InPack(p) /\ PartHere(p) = PartOf(p, a)
                           /\ PartOf(p, a) \in Dirs \X Artifacts
                           /\ t = part[PartOf(p, a)] /\ t \in Parts
                           /\ Fills(w, f, s, entry, t)
                           /\ w \in WorkerRow /\ w = worker[p]
                           /\ w.i \in Nat \ {0} /\ w.prefix \in Nat /\ Len(s) \in Nat
  BY <1>1, Fillings
<1>4. t = Planned(a) /\ SetEntry(a, "sha", Planned(a))
  BY <1>3 DEF FinishFetch, Verifies
<1>5. /\ EntriesMove(p) /\ \A x \in Artifacts : x # a => entry'[x] = entry[x]
      /\ entry'[a].sha = Planned(a) /\ EntryMoves(entry[a], entry'[a], a, s, f)
  BY <1>3, <1>4, ShaSets
<1>6. PICK w1 : Moves(p, w1, "verified", worker[p].i) /\ WorkersMove(p)
  BY <1>1, WorkerSteps
<1>7. w1 = worker'[p] /\ w1.pc = "verified" /\ w1.i = w.i /\ w1.prefix = w.prefix
  BY <1>3, <1>6 DEF Moves
<1>8. Passed(w1, s, entry')
  BY <1>1, <1>3, <1>5, <1>7, Rows
<1>9. Knows(w1, f, s, entry', part[PartOf(p, s[w1.i])])
  <2>1. PICK en : en = entry'
    OBVIOUS
  <2>2. /\ part[PartOf(p, s[w1.i])] = t /\ Passed(w1, s, en)
        /\ en[s[w1.i]].sha = Planned(s[w1.i])
    BY <1>3, <1>5, <1>7, <1>8, <2>1
  <2>3. Fills(w1, f, s, en, t)
    BY <1>3, <1>4, <1>7, <2>2 DEF Fills, Digested, Headed
  <2>4. Knows(w1, f, s, en, t)
    BY <1>1, <1>7, <2>3 DEF Knows
  <2> QED BY <2>1, <2>2, <2>4
<1>10. UNCHANGED <<epoch, batch, pack, files, call, dir, upstream, breaks>> /\ w1.pc # "done"
  BY <1>7 DEF FinishFetch
<1> QED
  BY <1>2, <1>3, <1>5, <1>6, <1>7, <1>9, <1>10, EntrySteps

-----------------------------------------------------------------------------
(* A record is written and counted *)

(* The record of the artifact a worker is at comes behind those that are   *)
(* counted.                                                                *)
LEMMA Writes ==
    ASSUME WInv, NEW p \in Packs, NEW w, NEW f, NEW s, Acting(p, w, f, s),
           NEW a \in InPack(p), w.i \in 1..Len(s), a = s[w.i], a = Current(p),
           f.header, f.count = w.i - 1, Len(f.records) = w.i - 1,
           Written(p, Planned(a))
    PROVE  /\ FilesMove(p)
           /\ \E f1 : /\ f1 = file'[Place(p)] /\ f1.header /\ f1.count = w.i - 1
                      /\ Len(f1.records) = w.i /\ Holds(f1, s) /\ f.count <= f1.count
                      /\ ReadyKept(p, f, s, f1)
<1>1. /\ f = file[Place(p)] /\ f \in FileRow /\ Holds(f, s) /\ w.i \in Nat \ {0}
      /\ Len(s) \in Nat /\ WTypes /\ Place(p) \in Dirs \X Packs /\ a \in Artifacts
      /\ Planned(a) \in Seq(Nat)
  <2>1. /\ f = file[Place(p)] /\ f \in FileRow /\ Holds(f, s) /\ w \in WorkerRow
        /\ Len(s) \in Nat /\ Place(p) \in Dirs \X Packs
    BY DEF Acting, Mine
  <2>2. a \in Artifacts /\ Planned(a) \in Seq(Nat)
    BY RowIs
  <2> QED BY <2>1, <2>2 DEF WInv, WorkerRow
<1>2. PICK r : r = RecordOf(a)
  OBVIOUS
<1>3. r \in Record /\ f.records \in Seq(Record)
  BY <1>1, <1>2 DEF Record, RecordOf, FileRow
<1>4. PICK rs : rs = Append(f.records, r)
  OBVIOUS
<1>5. /\ rs \in Seq(Record) /\ Len(rs) = w.i /\ rs[w.i] = r
      /\ \A k \in 1..(w.i - 1) : rs[k] = f.records[k]
  BY <1>1, <1>3, <1>4, AppendProperties
<1>6. PICK f1 : f1 = [f EXCEPT !.records = rs]
  OBVIOUS
<1>7. /\ f1 \in FileRow /\ f1.header = f.header /\ f1.exists = f.exists
      /\ f1.count = f.count /\ f1.records = rs
  BY <1>1, <1>5, <1>6 DEF FileRow
<1>8. file' = [file EXCEPT ![Place(p)] = f1]
  <2>1. rs = Append(f.records, [entry |-> Current(p), content |-> Planned(a)])
    BY <1>2, <1>4 DEF RecordOf
  <2> QED BY <1>1, <1>6, <2>1 DEF Written
<1>9. FilesMove(p) /\ file'[Place(p)] = f1
  BY <1>1, <1>7, <1>8, FileSets
<1>10. Holds(f1, s)
  <2>1. ASSUME NEW k \in 1..Len(rs) PROVE rs[k] = RecordOf(s[k])
    <3>1. k \in 1..(w.i - 1) \/ k = w.i
      BY <1>1, <1>5
    <3>2. \A j \in 1..(w.i - 1) : f.records[j] = RecordOf(s[j])
      BY <1>1 DEF Holds
    <3> QED BY <1>2, <1>5, <3>1, <3>2
  <2> QED BY <1>1, <1>5, <1>7, <2>1 DEF Holds
<1>11. ReadyKept(p, f, s, f1)
  <2>1. ~Complete(f, s)
    BY <1>1 DEF Complete
  <2> QED BY <2>1, ReadyHere DEF ReadyKept
<1>12. f.count <= f1.count
  BY <1>1, <1>7 DEF FileRow
<1> QED BY <1>5, <1>7, <1>9, <1>10, <1>11, <1>12

LEMMA AppendTombstoneKeeps ==
    ASSUME WInv, NEW p \in Packs, AppendTombstone(p), Aside
    PROVE  WInv'
<1>1. /\ ToMaterialize(p, "delete") /\ WTypes /\ "written" \in WorkerAt
      /\ "written" \in Filling /\ Step(p, "written")
  BY DEF AppendTombstone, WInv, WorkerAt, Filling
<1>2. call[BatchOf(p)] \in {"run", "cancelled"}
  BY <1>1, Materializes
<1>3. PICK w, f, s, a : /\ Acting(p, w, f, s) /\ w.pc = "walk"
                        /\ w.i \in 1..Len(s) /\ a = s[w.i] /\ a = Current(p)
                        /\ a \in InPack(p) /\ PartHere(p) = PartOf(p, a)
                        /\ Origin[a] = "delete" /\ f.header /\ Passed(w, s, entry)
                        /\ w.i > w.prefix /\ f.count = w.i - 1
                        /\ Len(f.records) = w.i - 1
  BY <1>1, Materializes
<1>4. Planned(a) = <<>> /\ entry[a].sha = Planned(a)
  <2>1. a \in Artifacts /\ entry[a].sha = Planned(a)
    BY <1>3 DEF Acting
  <2> QED BY <1>3, <2>1, Constants
<1>5. Written(p, Planned(a))
  BY <1>3, <1>4 DEF AppendTombstone
<1>6. /\ FilesMove(p)
      /\ \E f1 : /\ f1 = file'[Place(p)] /\ f1.header /\ f1.count = w.i - 1
                 /\ Len(f1.records) = w.i /\ Holds(f1, s) /\ f.count <= f1.count
                 /\ ReadyKept(p, f, s, f1)
  BY <1>3, <1>5, Writes
<1>7. PICK f1 : /\ f1 = file'[Place(p)] /\ f1.header /\ f1.count = w.i - 1
                /\ Len(f1.records) = w.i /\ Holds(f1, s) /\ f.count <= f1.count
                /\ ReadyKept(p, f, s, f1)
  BY <1>6
<1>8. PICK w1 : Moves(p, w1, "written", worker[p].i) /\ WorkersMove(p)
  BY <1>1, WorkerSteps
<1>9. /\ w1 = worker'[p] /\ w1.pc = "written" /\ w1.i = w.i /\ w1.prefix = w.prefix
      /\ w \in WorkerRow /\ Len(s) \in Nat
  BY <1>3, <1>8 DEF Moves, Acting
<1>10. Knows(w1, f1, s, entry, part'[PartOf(p, s[w1.i])])
  <2>1. PICK t : t = part'[PartOf(p, s[w1.i])]
    OBVIOUS
  <2>2. Passed(w1, s, entry) /\ entry[s[w1.i]].sha = Planned(s[w1.i])
    BY <1>3, <1>4, <1>9 DEF Passed
  <2>3. w.i \in Nat /\ w.prefix \in Nat /\ w.i <= Len(s)
    BY <1>3, <1>9 DEF WorkerRow
  <2>4. Fills(w1, f1, s, entry, t)
    BY <1>3, <1>7, <1>9, <2>2, <2>3 DEF Fills, Digested, Headed
  <2>5. Knows(w1, f1, s, entry, t)
    BY <1>1, <1>9, <2>4 DEF Knows
  <2> QED BY <2>1, <2>5
<1>11. PartsMove(p) /\ UNCHANGED <<rows, bundle, call, dir, upstream, breaks>> /\ w1.pc # "done"
  BY <1>1, <1>9, Unmoved DEF AppendTombstone
<1> QED BY <1>2, <1>3, <1>6, <1>7, <1>8, <1>9, <1>10, <1>11, FileSteps

LEMMA AppendFetchedKeeps ==
    ASSUME WInv, NEW p \in Packs, AppendFetched(p), Aside
    PROVE  WInv'
<1>1. /\ Working(p, "verified") /\ "verified" \in Filling /\ WTypes /\ "written" \in WorkerAt
      /\ "written" \in Filling /\ Step(p, "written")
  BY DEF AppendFetched, WInv, WorkerAt, Filling
<1>2. call[BatchOf(p)] \in {"run", "cancelled"}
  BY <1>1, Fillings
<1>3. PICK w, f, s, a, t : /\ Acting(p, w, f, s) /\ w.pc = "verified"
                           /\ w.i \in 1..Len(s) /\ a = s[w.i] /\ a = Current(p)
                           /\ a \in InPack(p) /\ PartHere(p) = PartOf(p, a)
                           /\ PartOf(p, a) \in Dirs \X Artifacts
                           /\ t = part[PartOf(p, a)] /\ t \in Parts
                           /\ Fills(w, f, s, entry, t)
                           /\ w \in WorkerRow /\ w = worker[p]
                           /\ w.i \in Nat \ {0} /\ w.prefix \in Nat /\ Len(s) \in Nat
  BY <1>1, Fillings
<1>4. /\ f.header /\ w.i > w.prefix /\ Passed(w, s, entry) /\ t = Planned(a)
      /\ entry[a].sha = Planned(a) /\ f.count = w.i - 1 /\ Len(f.records) = w.i - 1
  BY <1>3 DEF Fills, Digested, Headed
<1>5. Written(p, Planned(a))
  BY <1>3, <1>4 DEF AppendFetched
<1>6. /\ FilesMove(p)
      /\ \E f1 : /\ f1 = file'[Place(p)] /\ f1.header /\ f1.count = w.i - 1
                 /\ Len(f1.records) = w.i /\ Holds(f1, s) /\ f.count <= f1.count
                 /\ ReadyKept(p, f, s, f1)
  BY <1>3, <1>4, <1>5, Writes
<1>7. PICK f1 : /\ f1 = file'[Place(p)] /\ f1.header /\ f1.count = w.i - 1
                /\ Len(f1.records) = w.i /\ Holds(f1, s) /\ f.count <= f1.count
                /\ ReadyKept(p, f, s, f1)
  BY <1>6
<1>8. PICK w1 : Moves(p, w1, "written", worker[p].i) /\ WorkersMove(p)
  BY <1>1, WorkerSteps
<1>9. w1 = worker'[p] /\ w1.pc = "written" /\ w1.i = w.i /\ w1.prefix = w.prefix
  BY <1>3, <1>8 DEF Moves
<1>10. Knows(w1, f1, s, entry, part'[PartOf(p, s[w1.i])])
  <2>1. PICK t1 : t1 = part'[PartOf(p, s[w1.i])]
    OBVIOUS
  <2>2. Passed(w1, s, entry) /\ entry[s[w1.i]].sha = Planned(s[w1.i])
    BY <1>3, <1>4, <1>9 DEF Passed
  <2>4. Fills(w1, f1, s, entry, t1)
    BY <1>3, <1>4, <1>7, <1>9, <2>2 DEF Fills, Digested, Headed
  <2>5. Knows(w1, f1, s, entry, t1)
    BY <1>1, <1>9, <2>4 DEF Knows
  <2> QED BY <2>1, <2>5
<1>11. PartsMove(p) /\ UNCHANGED <<rows, bundle, call, dir, upstream, breaks>> /\ w1.pc # "done"
  BY <1>1, <1>9, Unmoved DEF AppendFetched
<1> QED BY <1>2, <1>3, <1>6, <1>7, <1>8, <1>9, <1>10, <1>11, FileSteps

LEMMA TakeGeneratedKeeps ==
    ASSUME WInv, NEW p \in Packs, TakeGenerated(p), Aside
    PROVE  WInv'
<1>1. /\ ToMaterialize(p, "local") /\ WTypes /\ "written" \in WorkerAt
      /\ "written" \in Filling /\ Step(p, "written")
  BY DEF TakeGenerated, WInv, WorkerAt, Filling
<1>2. call[BatchOf(p)] \in {"run", "cancelled"}
  BY <1>1, Materializes
<1>3. PICK w, f, s, a : /\ Acting(p, w, f, s) /\ w.pc = "walk"
                        /\ w.i \in 1..Len(s) /\ a = s[w.i] /\ a = Current(p)
                        /\ a \in InPack(p) /\ PartHere(p) = PartOf(p, a)
                        /\ Origin[a] = "local" /\ f.header /\ Passed(w, s, entry)
                        /\ w.i > w.prefix /\ f.count = w.i - 1
                        /\ Len(f.records) = w.i - 1
  BY <1>1, Materializes
<1>4. Written(p, Planned(a)) /\ SetEntry(a, "sha", Planned(a))
  BY <1>3 DEF TakeGenerated
<1>5. /\ FilesMove(p)
      /\ \E f1 : /\ f1 = file'[Place(p)] /\ f1.header /\ f1.count = w.i - 1
                 /\ Len(f1.records) = w.i /\ Holds(f1, s) /\ f.count <= f1.count
                 /\ ReadyKept(p, f, s, f1)
  BY <1>3, <1>4, Writes
<1>6. PICK f1 : /\ f1 = file'[Place(p)] /\ f1.header /\ f1.count = w.i - 1
                /\ Len(f1.records) = w.i /\ Holds(f1, s) /\ f.count <= f1.count
                /\ ReadyKept(p, f, s, f1)
  BY <1>5
<1>7. /\ EntriesMove(p) /\ \A x \in Artifacts : x # a => entry'[x] = entry[x]
      /\ entry'[a].sha = Planned(a) /\ EntryMoves(entry[a], entry'[a], a, s, f1)
  BY <1>3, <1>4, ShaSets
<1>8. \A x \in InPack(p) : EntryMoves(entry[x], entry'[x], x, s, f1)
  <2>1. \A x \in InPack(p) : EntryMoves(entry[x], entry[x], x, s, f1) /\ x \in Artifacts
    BY <1>3, Still DEF InPack
  <2> QED BY <1>7, <2>1
<1>9. PICK w1 : Moves(p, w1, "written", worker[p].i) /\ WorkersMove(p)
  BY <1>1, WorkerSteps
<1>10. /\ w1 = worker'[p] /\ w1.pc = "written" /\ w1.i = w.i /\ w1.prefix = w.prefix
       /\ w \in WorkerRow /\ Len(s) \in Nat /\ \A k \in 1..Len(s) : s[k] \in InPack(p)
  BY <1>3, <1>9 DEF Moves, Acting
<1>11. PICK en, t : en = entry' /\ t = part'[PartOf(p, s[w1.i])]
  OBVIOUS
<1>12. Knows(w1, f1, s, en, t)
  <2>1. PICK e0, S : e0 = entry /\ S = InPack(p)
    OBVIOUS
  <2>2. w.i \in Nat /\ w.prefix \in Nat /\ w.i <= Len(s) /\ w.i <= Len(s) + 1
    BY <1>3, <1>10 DEF WorkerRow
  <2>3. ListsOf(S, s) /\ AllMove(S, e0, en, s, f1) /\ Passed(w, s, e0)
    BY <1>3, <1>8, <1>10, <1>11, <2>1 DEF ListsOf, AllMove
  <2>4. Passed(w1, s, en)
    BY <1>10, <2>2, <2>3, PassedStays
  <2>5. en[s[w1.i]].sha = Planned(s[w1.i])
    BY <1>3, <1>7, <1>10, <1>11
  <2>6. Fills(w1, f1, s, en, t)
    BY <1>3, <1>6, <1>10, <2>2, <2>4, <2>5 DEF Fills, Digested, Headed
  <2> QED BY <1>1, <1>10, <2>6 DEF Knows
<1>13. WStep(p) /\ w1.pc # "done"
  <2>1. PartsMove(p)
    BY <1>1, Unmoved DEF TakeGenerated
  <2> QED BY <1>5, <1>7, <1>9, <1>10, <2>1 DEF TakeGenerated, WStep, Aside
<1>14. \A x \in InPack(p) : EntryMoves(entry[x], en[x], x, s, f1)
  BY <1>8, <1>11
<1> QED BY <1>2, <1>3, <1>6, <1>10, <1>11, <1>12, <1>13, <1>14, WStepKeeps

LEMMA CountRecordKeeps ==
    ASSUME WInv, NEW p \in Packs, CountRecord(p), Aside
    PROVE  WInv'
<1>1. /\ Working(p, "written") /\ "written" \in Filling /\ WTypes /\ "packed" \in WorkerAt
      /\ "packed" \in Filling /\ Step(p, "packed")
  BY DEF CountRecord, WInv, WorkerAt, Filling
<1>2. call[BatchOf(p)] \in {"run", "cancelled"}
  BY <1>1, Fillings
<1>3. PICK w, f, s, a, t : /\ Acting(p, w, f, s) /\ w.pc = "written"
                           /\ w.i \in 1..Len(s) /\ a = s[w.i] /\ a = Current(p)
                           /\ a \in InPack(p) /\ PartHere(p) = PartOf(p, a)
                           /\ PartOf(p, a) \in Dirs \X Artifacts
                           /\ t = part[PartOf(p, a)] /\ t \in Parts
                           /\ Fills(w, f, s, entry, t)
                           /\ w \in WorkerRow /\ w = worker[p]
                           /\ w.i \in Nat \ {0} /\ w.prefix \in Nat /\ Len(s) \in Nat
  BY <1>1, Fillings
<1>4. /\ f.header /\ w.i > w.prefix /\ Passed(w, s, entry)
      /\ entry[a].sha = Planned(a) /\ f.count = w.i - 1 /\ Len(f.records) = w.i
  BY <1>3 DEF Fills, Digested, Headed
<1>5. /\ f = file[Place(p)] /\ f \in FileRow /\ Holds(f, s) /\ Place(p) \in Dirs \X Packs
  BY <1>3 DEF Acting, Mine
<1>6. PICK f1 : f1 = [f EXCEPT !.count = f.count + 1]
  OBVIOUS
<1>7. /\ f1 \in FileRow /\ f1.exists = f.exists /\ f1.header = f.header
      /\ f1.count = w.i /\ f1.records = f.records /\ f.count \in Nat
  <2>1. f.count \in Nat /\ f.count + 1 = w.i /\ w.i \in Nat
    BY <1>3, <1>4, <1>5 DEF FileRow
  <2>2. f1 = [f EXCEPT !.count = w.i]
    BY <1>6, <2>1
  <2> QED BY <1>5, <2>1, <2>2 DEF FileRow
<1>8. file' = [file EXCEPT ![Place(p)] = f1]
  BY <1>5, <1>6 DEF CountRecord
<1>9. FilesMove(p) /\ file'[Place(p)] = f1 /\ PartsMove(p)
  BY <1>1, <1>5, <1>7, <1>8, FileSets, Unmoved DEF CountRecord
<1>10. Holds(f1, s)
  <2>1. /\ f1.exists /\ f1.header /\ f1.count = w.i /\ Len(f1.records) = w.i
        /\ f1.records = f.records /\ w.i \in Nat
    BY <1>3, <1>4, <1>5, <1>7 DEF Holds
  <2>2. /\ Len(f.records) <= Len(s)
        /\ \A k \in 1..Len(f.records) : f.records[k] = RecordOf(s[k])
    BY <1>5 DEF Holds
  <2> QED BY <2>1, <2>2 DEF Holds
<1>11. ReadyKept(p, f, s, f1) /\ f.count <= f1.count
  <2>1. ~Complete(f, s)
    BY <1>3, <1>4 DEF Complete
  <2> QED BY <1>3, <1>4, <1>7, <2>1, ReadyHere DEF ReadyKept
<1>12. PICK w1 : Moves(p, w1, "packed", worker[p].i) /\ WorkersMove(p)
  BY <1>1, WorkerSteps
<1>13. w1 = worker'[p] /\ w1.pc = "packed" /\ w1.i = w.i /\ w1.prefix = w.prefix
  BY <1>3, <1>12 DEF Moves
<1>14. Knows(w1, f1, s, entry, part'[PartOf(p, s[w1.i])])
  <2>1. PICK t1 : t1 = part'[PartOf(p, s[w1.i])]
    OBVIOUS
  <2>2. Passed(w1, s, entry) /\ entry[s[w1.i]].sha = Planned(s[w1.i])
    BY <1>3, <1>4, <1>13 DEF Passed
  <2>3. Fills(w1, f1, s, entry, t1)
    BY <1>3, <1>4, <1>7, <1>13, <2>2 DEF Fills, Digested, Headed
  <2>4. Knows(w1, f1, s, entry, t1)
    BY <1>1, <1>13, <2>3 DEF Knows
  <2> QED BY <2>1, <2>4
<1>15. UNCHANGED <<rows, bundle, call, dir, upstream, breaks>> /\ w1.pc # "done"
  BY <1>13 DEF CountRecord
<1> QED
  BY <1>2, <1>3, <1>9, <1>10, <1>11, <1>12, <1>13, <1>14, <1>15, FileSteps

-----------------------------------------------------------------------------
(* The end of a pack *)

LEMMA ClosePackKeeps ==
    ASSUME WInv, NEW p \in Packs, ClosePack(p), Aside
    PROVE  WInv'
<1>1. /\ worker[p].pc = "walk" /\ WTypes /\ PackInv(p)
      /\ call[BatchOf(p)] \in {"run", "cancelled"}
  BY RowsOf DEF ClosePack
<1>2. PICK w, f, s : Acting(p, w, f, s)
  BY <1>1, Acts
<1>3. PICK d : d = dir[BatchOf(p)]
  OBVIOUS
<1>4. /\ w = worker[p] /\ f = file[<<d, p>>] /\ s = Entries(p) /\ w \in WorkerRow
      /\ d \in Dirs /\ f \in FileRow /\ Len(s) \in Nat /\ Walks(w, f, s, entry)
      /\ Mine(p) = f /\ file[Place(p)] = f
  BY <1>1, <1>2, <1>3 DEF Acting, Mine, Knows
<1>5. w.i = Len(s) + 1 /\ w.prefix <= Len(s)
  BY <1>4 DEF ClosePack, Walked, Walks, WorkerRow
<1>6. Complete(f, s)
  BY <1>4, <1>5 DEF Complete, Walks, WorkerRow
<1>7. \A a \in InPack(p) : Placed(p, a)
  <2>1. \A k \in 1..Len(s) : PlacedAt(entry[s[k]], s[k], s)
    BY <1>4, <1>5 DEF Walks, Passed
  <2> QED BY <1>2, <1>4, <2>1 DEF Acting, Placed
<1>8. PICK r : r = [status |-> "READY", sha |-> f.records, path |-> d]
  OBVIOUS
<1>9. /\ pack' = [pack EXCEPT ![p] = r] /\ entry' = entry /\ file' = file /\ part' = part
      /\ UNCHANGED <<epoch, batch, bundle, call, dir, upstream, breaks>>
  BY <1>3, <1>4, <1>8 DEF ClosePack, files
<1>10. r \in PackRow /\ r.status = "READY" /\ r.path = d /\ r.sha = f.records
  BY <1>4, <1>8 DEF PackRow, PackStatuses, FileRow
<1>11. /\ pack' \in [Packs -> PackRow] /\ pack'[p] = r
       /\ \A q \in Packs : q # p => pack'[q] = pack[q]
  BY <1>1, <1>9, <1>10 DEF WTypes, PackTypes
<1>12. WorkersMove(p) /\ worker'[p].pc = "done"
  BY <1>1, WorkerStops DEF ClosePack
<1>13. WTypes'
  BY <1>1, <1>9, <1>11, <1>12
     DEF WTypes, PlanTypes, BatchTypes, PackTypes, EntryTypes, WorkersMove, Offset, Aside
<1>14. OwnStep(p)
  <2>1. FilesMove(p) /\ EntriesMove(p) /\ PartsMove(p)
    BY <1>1, <1>9, Unmoved
  <2>2. \A b \in Batches : CallKeeps(b)
    BY <1>9 DEF CallKeeps
  <2> QED BY <1>9, <1>10, <1>11, <1>12, <2>1, <2>2 DEF OwnStep, WorkersMove, Aside
<1>15. InPack(p)' = InPack(p) /\ Entries(p)' = s
  BY <1>4, <1>9, EntriesStay
<1>16. FileInv(p)'
  <2>1. \A e \in Dirs : Holds(file'[<<e, p>>], s)
    BY <1>1, <1>4, <1>9 DEF PackInv, FileInv
  <2> QED BY <1>15, <2>1 DEF FileInv, Holds, RecordOf, Planned
<1>17. WorkerInv(p)'
  BY <1>12 DEF WorkerInv, Knows, Filling
<1>18. ASSUME NEW a \in InPack(p) PROVE Placed(p, a)'
  BY <1>4, <1>7, <1>9, <1>15, <1>18 DEF Placed, PlacedAt, Planned
<1>19. ReadyInv(p)'
  <2>1. Complete(file'[<<d, p>>], Entries(p)') /\ pack'[p].sha = file'[<<d, p>>].records
    BY <1>4, <1>6, <1>9, <1>10, <1>11, <1>15
  <2>2. (\A a \in InPack(p) : Placed(p, a))'
    BY <1>15, <1>18
  <2> QED BY <1>4, <1>10, <1>11, <2>1, <2>2 DEF ReadyInv, Complete
<1>20. CalledInv(p)'
  BY <1>1, <1>3, <1>9, <1>10, <1>11 DEF CalledInv, PackReady
<1>21. ASSUME NEW a \in InPack(p) PROVE EntryInv(a)'
  <2>1. EntryInv(a) /\ entry[a].pack = p
    BY <1>1 DEF PackInv, InPack
  <2>2. /\ Planned(a)' = Planned(a) /\ Placed(p, a)'
        /\ CountedTo(p, entry[a].at) => CountedTo(p, entry[a].at)'
    BY <1>9, <1>18 DEF Planned, CountedTo
  <2> QED BY <1>9, <1>10, <1>11, <2>1, <2>2 DEF EntryInv
<1>22. PackInv(p)'
  BY <1>15, <1>16, <1>17, <1>19, <1>20, <1>21 DEF PackInv
<1> QED BY <1>1, <1>13, <1>14, <1>22, OwnStepKeeps

LEMMA WorkerEnds ==
    ASSUME WInv, NEW p \in Packs, UNCHANGED <<rows, files, dir, upstream, breaks>>, Aside,
           WorkersMove(p), worker'[p] = Idle \/ worker'[p].pc = "done",
           call[BatchOf(p)] \in {"run", "cancelled"}, call'[BatchOf(p)] = "cancelled",
           call' \in [Batches -> CallAt],
           \A b \in Batches : b # BatchOf(p) => call'[b] = call[b]
    PROVE  WInv'
<1>1. WTypes /\ PackInv(p) /\ BatchOf(p) \in Batches
  BY RowsOf
<1>2. SameData(p)
  BY DEF SameData, rows, files
<1>3. PackInv(p)'
  <2>1. FileInv(p)' /\ ReadyInv(p)' /\ (\A a \in InPack(p) : EntryInv(a))'
    BY <1>1, <1>2, DataStays DEF PackInv
  <2>2. WorkerInv(p)'
    BY <1>1, <1>2, WorkerStays DEF PackInv
  <2>3. CalledInv(p)'
    BY DEF CalledInv
  <2> QED BY <2>1, <2>2, <2>3 DEF PackInv
<1>4. OwnStep(p)
  <2>1. FilesMove(p) /\ EntriesMove(p) /\ PartsMove(p)
    BY <1>1, Unmoved DEF rows, files
  <2>2. \A b \in Batches : CallKeeps(b)
    BY DEF CallKeeps
  <2> QED BY <2>1, <2>2 DEF OwnStep, WorkersMove, Aside, rows, files
<1>5. WTypes'
  <2>1. BatchTypes'
    BY <1>1 DEF WTypes, BatchTypes, rows, files
  <2> QED BY <1>1, <2>1 DEF WTypes, PlanTypes, PackTypes, EntryTypes, WorkersMove, Offset,
                          Aside, rows, files
<1> QED BY <1>3, <1>4, <1>5, OwnStepKeeps

LEMMA RefuseKeeps ==
    ASSUME WInv, NEW p \in Packs, Refuse(p), Aside
    PROVE  WInv'
<1>1. WTypes /\ BatchOf(p) \in Batches
  BY RowsOf
<1>2. WorkersMove(p) /\ worker'[p] = Idle
  BY <1>1, WorkerStops DEF Refuse
<1>3. /\ call' \in [Batches -> CallAt] /\ call'[BatchOf(p)] = "cancelled"
      /\ \A b \in Batches : b # BatchOf(p) => call'[b] = call[b]
  <2>1. "cancelled" \in CallAt
    BY DEF CallAt
  <2> QED BY <1>1, <2>1 DEF Refuse, WTypes, BatchTypes
<1> QED BY <1>2, <1>3, WorkerEnds DEF Refuse

LEMMA StopWorkerKeeps ==
    ASSUME WInv, NEW p \in Packs, StopWorker(p), Aside
    PROVE  WInv'
<1>1. WTypes /\ BatchOf(p) \in Batches
  BY RowsOf
<1>2. WorkersMove(p) /\ worker'[p].pc = "done"
  BY <1>1, WorkerStops DEF StopWorker
<1>3. /\ call' \in [Batches -> CallAt] /\ call'[BatchOf(p)] = "cancelled"
      /\ \A b \in Batches : b # BatchOf(p) => call'[b] = call[b]
  BY <1>1 DEF StopWorker, WTypes, BatchTypes
<1> QED BY <1>2, <1>3, WorkerEnds DEF StopWorker

LEMMA PackStepKeeps ==
    ASSUME WInv, NEW p \in Packs, PackStep(p), Aside
    PROVE  WInv'
BY CreatePackKeeps, WriteHeaderKeeps, ResumePackKeeps, PassRecordKeeps, TakeRecordKeeps,
   LocateTakenKeeps, AppendTombstoneKeeps, TakeGeneratedKeeps, OpenUpstreamKeeps,
   FetchChunkKeeps, MarkProgressKeeps, FinishFetchKeeps, AppendFetchedKeeps, CountRecordKeeps,
   SetLocationKeeps, RemovePartKeeps, MarkVerifiedKeeps, ClosePackKeeps, RefuseKeeps,
   StopWorkerKeeps
   DEF PackStep

-----------------------------------------------------------------------------
(* The steps of a call *)

(* Rows and files stay, and a worker stays where it is or rests.           *)
RowsStay ==
    /\ UNCHANGED <<pack, entry, file, part>>
    /\ worker' \in [Packs -> WorkerRow]
    /\ \A p \in Packs : \/ worker'[p] = Idle
                        \/ worker'[p] = worker[p] /\ dir'[BatchOf(p)] = dir[BatchOf(p)]

LEMMA Resting ==
    ASSUME WInv, NEW p \in Packs, call[BatchOf(p)] \notin {"run", "cancelled"}
    PROVE  worker[p] = Idle
BY RowsOf DEF PackInv, WorkerInv, Knows

LEMMA RowsStayKeeps ==
    ASSUME WInv, RowsStay
    PROVE  /\ \A p \in Packs : /\ SameData(p) /\ FileInv(p)' /\ WorkerInv(p)' /\ ReadyInv(p)'
                               /\ (\A a \in InPack(p) : EntryInv(a))'
                               /\ PackReady(p)' = PackReady(p)
           /\ \A a \in Artifacts : EntryInv(a)' /\ Assigned(a)' = Assigned(a)
           /\ PackTypes'
           /\ upstream' \in [Upstream -> Nat] => EntryTypes'
<1>1. ASSUME NEW p \in Packs
      PROVE  /\ SameData(p) /\ FileInv(p)' /\ WorkerInv(p)' /\ ReadyInv(p)'
             /\ (\A a \in InPack(p) : EntryInv(a))'
             /\ PackReady(p)' = PackReady(p)
  <2>1. SameData(p)
    BY DEF RowsStay, SameData
  <2>2. /\ FileInv(p) /\ WorkerInv(p) /\ ReadyInv(p) /\ WTypes /\ BatchOf(p) \in Batches
        /\ \A a \in InPack(p) : EntryInv(a)
    BY RowsOf DEF PackInv
  <2>3. \/ worker'[p] = Idle
        \/ worker'[p] = worker[p] /\ dir'[BatchOf(p)] = dir[BatchOf(p)]
                                  /\ dir[BatchOf(p)] \in Dirs
    <3>1. dir[BatchOf(p)] \in Dirs \/ call[BatchOf(p)] = "none"
      BY <2>2 DEF WTypes, BatchTypes
    <3>2. call[BatchOf(p)] = "none" => worker[p] = Idle
      BY Resting
    <3> QED BY <3>1, <3>2 DEF RowsStay
  <2>4. WorkerInv(p)'
    BY <2>1, <2>2, <2>3, WorkerStays
  <2> QED BY <2>1, <2>2, <2>4, DataStays
<1>2. ASSUME NEW a \in Artifacts PROVE EntryInv(a)'
  <2>1. EntryInv(a) /\ entry' = entry /\ pack' = pack /\ file' = file
    BY DEF WInv, RowsStay
  <2>2. Planned(a)' = Planned(a)
    BY DEF Planned
  <2>3. Entries(entry[a].pack)' = Entries(entry[a].pack)
    BY <2>1 DEF Entries, InPack
  <2> QED BY <2>1, <2>2, <2>3 DEF EntryInv, Placed, PlacedAt, CountedTo, Planned
<1>3. PackTypes'
  BY DEF RowsStay, WInv, WTypes, PackTypes
<1>4. upstream' \in [Upstream -> Nat] => EntryTypes'
  BY DEF RowsStay, WInv, WTypes, EntryTypes, Offset
<1>5. \A a \in Artifacts : Assigned(a)' = Assigned(a)
  BY DEF RowsStay, Assigned
<1> QED BY <1>1, <1>2, <1>3, <1>4, <1>5

(* The step of the call of one batch.                                      *)
CallMoves(b) ==
    /\ RowsStay
    /\ UNCHANGED <<upstream, capsule, analysis, planned>>
    /\ epoch'.total = epoch.total
    /\ batch[b] # "ABSENT" => batch'[b] # "ABSENT"
    /\ \A c \in Batches : c # b =>
          /\ batch'[c] = batch[c] /\ call'[c] = call[c] /\ dir'[c] = dir[c]
          /\ \A d \in Dirs : bundle'[<<d, c>>] = bundle[<<d, c>>]
    /\ \A p \in Packs : BatchOf(p) # b => worker'[p] = worker[p]

LEMMA CallMovesKeeps ==
    ASSUME WInv, analysis = "none", NEW b \in Batches, CallMoves(b),
           PlanTypes', BatchTypes', BatchInv(b)',
           \A p \in Packs : BatchOf(p) = b => CalledInv(p)',
           epoch'.status = "TRANSFERRING" => epoch.total > 0 /\ AllReady'
    PROVE  WInv'
<1>1. RowsStay /\ WTypes /\ PlanInv
  BY DEF CallMoves, WInv
<1>2. WTypes'
  BY <1>1, RowsStayKeeps DEF CallMoves, WTypes, EntryTypes
<1>3. ASSUME NEW p \in Packs PROVE PackInv(p)'
  <2>1. CalledInv(p)'
    <3>1. CASE BatchOf(p) = b
      BY <3>1
    <3>2. CASE BatchOf(p) # b
      <4>1. /\ call'[BatchOf(p)] = call[BatchOf(p)] /\ worker'[p] = worker[p]
            /\ dir'[BatchOf(p)] = dir[BatchOf(p)] /\ pack' = pack
            /\ PackReady(p)' = PackReady(p)
        BY <1>1, <3>2, RowsStayKeeps, Constants DEF CallMoves, RowsStay
      <4> QED BY <4>1, RowsOf DEF CalledInv, PackInv
    <3> QED BY <3>1, <3>2
  <2> QED BY <1>1, <2>1, RowsStayKeeps DEF PackInv
<1>4. \A a \in Artifacts : EntryInv(a)'
  BY <1>1, RowsStayKeeps
<1>5. ASSUME NEW c \in Batches PROVE BatchInv(c)'
  <2>1. CASE c = b
    BY <2>1
  <2>2. CASE c # b
    <3>1. /\ batch'[c] = batch[c] /\ call'[c] = call[c] /\ dir'[c] = dir[c]
          /\ \A d \in Dirs : bundle'[<<d, c>>] = bundle[<<d, c>>]
          /\ epoch'.total = epoch.total
      BY <2>2 DEF CallMoves
    <3>2. BatchInv(c) /\ CallFits(c)'
      BY <3>1 DEF WInv, BatchInv, CallFits
    <3>3. \A p \in Packs : BatchOf(p) = c => SameData(p)
      BY <1>1, RowsStayKeeps
    <3>4. call'[c] \in {"describe", "mark"} => dir[c] \in Dirs
      BY <1>1, <3>1 DEF WTypes, BatchTypes
    <3> QED BY <1>1, <3>1, <3>2, <3>3, <3>4, BatchStays
  <2> QED BY <2>1, <2>2
<1>6. PlanInv'
  <2>1. \A c \in Batches : batch[c] # "ABSENT" => batch'[c] # "ABSENT"
    BY DEF CallMoves
  <2>2. \A p \in Packs : pack'[p].status # "ABSENT" => batch'[BatchOf(p)] # "ABSENT"
    BY <1>1, <2>1, Constants DEF RowsStay, PlanInv
  <2>3. analysis' = "none" /\ epoch'.total = epoch.total
    BY DEF CallMoves
  <2>4. \A a \in Artifacts : Assigned(a)' = Assigned(a)
    BY <1>1, RowsStayKeeps
  <2> QED BY <1>1, <2>2, <2>3, <2>4 DEF PlanInv
<1> QED BY <1>2, <1>3, <1>4, <1>5, <1>6 DEF WInv

(* A batch that is not READY does not let the epoch go.                    *)
LEMMA NotTransferring ==
    ASSUME WInv, NEW b \in Batches, batch[b] \in Downloadable
    PROVE  epoch.status # "TRANSFERRING"
BY DEF WInv, PlanInv, AllReady, EveryRowReady, PlannedBatches, Downloadable

LEMMA StillReady ==
    ASSUME WInv, UNCHANGED batch, epoch'.total = epoch.total, epoch'.status = epoch.status,
           epoch'.status = "TRANSFERRING"
    PROVE  epoch.total > 0 /\ AllReady'
BY DEF WInv, PlanInv, AllReady, EveryRowReady, PlannedBatches

LEMMA StartDownloadKeeps ==
    ASSUME WInv, analysis = "none", NEW b \in Batches, NEW d \in Dirs, StartDownload(b, d), Aside
    PROVE  WInv'
<1>1. WTypes /\ BatchInv(b)
  BY DEF WInv
<1>2. /\ epoch' = [epoch EXCEPT !.status = "DOWNLOADING"]
      /\ UNCHANGED <<batch, pack, entry, file, part, bundle, worker, upstream, breaks>>
      /\ call' \in [Batches -> CallAt] /\ call'[b] = "started" /\ call[b] = "none"
      /\ dir' \in [Batches -> Dirs \cup {None}] /\ dir'[b] = d
      /\ \A c \in Batches : c # b => call'[c] = call[c] /\ dir'[c] = dir[c]
      /\ batch[b] \in Downloadable
  BY <1>1 DEF StartDownload, files, WTypes, BatchTypes, CallAt
<1>3. epoch'.total = epoch.total /\ epoch'.status = "DOWNLOADING" /\ PlanTypes'
  <2>1. "DOWNLOADING" \in EpochStatuses
    BY DEF EpochStatuses
  <2> QED BY <1>1, <1>2, <2>1 DEF WTypes, PlanTypes, Aside
<1>4. \A p \in Packs : BatchOf(p) = b => worker[p] = Idle
  BY <1>2, Resting
<1>5. CallMoves(b)
  <2>1. \A p \in Packs : BatchOf(p) # b => dir'[BatchOf(p)] = dir[BatchOf(p)]
    BY <1>2, Constants
  <2> QED BY <1>1, <1>2, <1>3, <1>4, <2>1 DEF CallMoves, RowsStay, WTypes, PackTypes, Aside
<1>6. BatchTypes'
  <2>1. \A c \in Batches : dir'[c] = None <=> call'[c] = "none"
    BY <1>1, <1>2, Constants DEF WTypes, BatchTypes
  <2> QED BY <1>1, <1>2, <2>1 DEF WTypes, BatchTypes
<1>7. BatchInv(b)'
  <2>1. CallFits(b)'
    BY <1>1, <1>2 DEF BatchInv, CallFits, Downloadable
  <2>2. \A p \in Packs : BatchOf(p) = b => SameData(p)
    BY <1>5, RowsStayKeeps DEF CallMoves
  <2> QED BY <1>1, <1>2, <1>3, <2>1, <2>2, BatchStays
<1>8. ASSUME NEW p \in Packs, BatchOf(p) = b PROVE CalledInv(p)'
  BY <1>2, <1>4, <1>8 DEF CalledInv, Idle
<1> QED BY <1>3, <1>5, <1>6, <1>7, <1>8, CallMovesKeeps

LEMMA EnterBatchKeeps ==
    ASSUME WInv, analysis = "none", NEW b \in Batches, EnterBatch(b), Aside
    PROVE  WInv'
<1>1. WTypes /\ BatchInv(b) /\ call[b] = "started" /\ batch[b] \in Downloadable
  BY DEF WInv, EnterBatch, BatchInv, CallFits
<1>2. /\ UNCHANGED <<epoch, pack, entry, file, part, bundle, dir, worker, upstream, breaks>>
      /\ call' \in [Batches -> CallAt] /\ batch' \in [Batches -> BatchStatuses \cup {"ABSENT"}]
      /\ call'[b] = IF batch[b] = "VERIFYING" THEN "finalize" ELSE "run"
      /\ batch'[b] = IF batch[b] = "PLANNED" THEN "DOWNLOADING" ELSE batch[b]
      /\ \A c \in Batches : c # b => call'[c] = call[c] /\ batch'[c] = batch[c]
  BY <1>1 DEF EnterBatch, files, WTypes, BatchTypes, CallAt, BatchStatuses
<1>3. CallMoves(b)
  BY <1>1, <1>2 DEF CallMoves, RowsStay, WTypes, PackTypes, Aside
<1>4. BatchTypes' /\ PlanTypes'
  BY <1>1, <1>2 DEF WTypes, BatchTypes, PlanTypes, Aside
<1>5. BatchInv(b)'
  <2>1. CallFits(b)'
    BY <1>1, <1>2 DEF CallFits, Downloadable
  <2>2. \A p \in Packs : BatchOf(p) = b => SameData(p)
    BY <1>3, RowsStayKeeps DEF CallMoves
  <2>3. CASE batch[b] = "VERIFYING"
    BY <1>1, <1>2, <2>1, <2>2, <2>3, BatchStays
  <2>4. CASE batch[b] # "VERIFYING"
    BY <1>1, <1>2, <2>1, <2>4 DEF BatchInv, Downloadable
  <2> QED BY <2>3, <2>4
<1>6. ASSUME NEW p \in Packs, BatchOf(p) = b PROVE CalledInv(p)'
  <2>1. worker[p] = Idle
    BY <1>1, <1>6, Resting
  <2> QED BY <1>2, <2>1 DEF CalledInv, Idle
<1>7. epoch'.status # "TRANSFERRING"
  BY <1>1, <1>2, NotTransferring
<1> QED BY <1>2, <1>3, <1>4, <1>5, <1>6, <1>7, CallMovesKeeps

(* A call that is over, or that goes on with the bundle, has no workers.   *)
LEMMA ResetRows ==
    ASSUME WInv, NEW b \in Batches, Reset(b), UNCHANGED <<pack, entry, file, part>>,
           \A c \in Batches : c # b => dir'[c] = dir[c]
    PROVE  /\ RowsStay
           /\ \A p \in Packs : BatchOf(p) = b => worker'[p].pc = "idle"
           /\ \A p \in Packs : BatchOf(p) # b => worker'[p] = worker[p]
<1>1. Idle \in WorkerRow /\ Idle.pc = "idle"
  BY DEF Idle, WorkerRow, WorkerAt
<1>2. worker \in [Packs -> WorkerRow]
  BY DEF WInv, WTypes, PackTypes
<1> QED BY <1>1, <1>2, Constants DEF Reset, RowsStay

LEMMA EndCancelledKeeps ==
    ASSUME WInv, analysis = "none", NEW b \in Batches, EndCancelled(b), Aside
    PROVE  WInv'
<1>1. WTypes /\ BatchInv(b) /\ call[b] = "cancelled"
  BY DEF WInv, EndCancelled
<1>2. /\ UNCHANGED <<epoch, batch, pack, entry, file, part, bundle, upstream, breaks>>
      /\ call' \in [Batches -> CallAt] /\ call'[b] = "none"
      /\ dir' \in [Batches -> Dirs \cup {None}] /\ dir'[b] = None
      /\ \A c \in Batches : c # b => call'[c] = call[c] /\ dir'[c] = dir[c]
  BY <1>1 DEF EndCancelled, Return, files, rows, WTypes, BatchTypes, CallAt
<1>3. /\ RowsStay
      /\ \A p \in Packs : BatchOf(p) = b => worker'[p].pc = "idle"
      /\ \A p \in Packs : BatchOf(p) # b => worker'[p] = worker[p]
  BY <1>2, ResetRows DEF EndCancelled
<1>4. CallMoves(b)
  BY <1>2, <1>3 DEF CallMoves, Aside
<1>5. BatchTypes' /\ PlanTypes'
  BY <1>1, <1>2 DEF WTypes, BatchTypes, PlanTypes, Aside
<1>6. BatchInv(b)'
  <2>1. CallFits(b)'
    BY <1>1, <1>2 DEF BatchInv, CallFits
  <2>2. \A p \in Packs : BatchOf(p) = b => SameData(p)
    BY <1>3, RowsStayKeeps
  <2> QED BY <1>1, <1>2, <2>1, <2>2, BatchStays
<1>7. ASSUME NEW p \in Packs, BatchOf(p) = b PROVE CalledInv(p)'
  BY <1>2, <1>3, <1>7 DEF CalledInv
<1> QED BY <1>2, <1>4, <1>5, <1>6, <1>7, CallMovesKeeps, StillReady

LEMMA EnterVerifyingKeeps ==
    ASSUME WInv, analysis = "none", NEW b \in Batches, EnterVerifying(b), Aside
    PROVE  WInv'
<1>1. /\ WTypes /\ BatchInv(b) /\ call[b] = "run" /\ batch[b] = "DOWNLOADING"
      /\ \A p \in PacksOf(b) : worker[p].pc = "done"
  BY DEF WInv, EnterVerifying, BatchInv, CallFits
<1>2. /\ UNCHANGED <<epoch, pack, entry, file, part, bundle, dir, upstream, breaks>>
      /\ call' \in [Batches -> CallAt] /\ call'[b] = "finalize"
      /\ batch' \in [Batches -> BatchStatuses \cup {"ABSENT"}] /\ batch'[b] = "VERIFYING"
      /\ \A c \in Batches : c # b => call'[c] = call[c] /\ batch'[c] = batch[c]
  BY <1>1 DEF EnterVerifying, files, WTypes, BatchTypes, CallAt, BatchStatuses
<1>3. /\ RowsStay
      /\ \A p \in Packs : BatchOf(p) = b => worker'[p].pc = "idle"
      /\ \A p \in Packs : BatchOf(p) # b => worker'[p] = worker[p]
  BY <1>2, ResetRows DEF EnterVerifying
<1>4. CallMoves(b)
  BY <1>2, <1>3 DEF CallMoves, Aside
<1>5. BatchTypes' /\ PlanTypes'
  BY <1>1, <1>2 DEF WTypes, BatchTypes, PlanTypes, Aside
<1>6. BatchInv(b)'
  <2>1. CallFits(b)'
    BY <1>2 DEF CallFits
  <2>2. PICK d \in Dirs : d = dir[b]
    BY <1>1 DEF WTypes, BatchTypes
  <2>3. ASSUME NEW p \in PacksOf(b) PROVE PackReady(p) /\ pack[p].path = d
    <3>1. p \in Packs /\ BatchOf(p) = b
      BY DEF PacksOf
    <3>2. CalledInv(p)
      BY <3>1, RowsOf DEF PackInv
    <3> QED BY <1>1, <2>2, <3>1, <3>2 DEF CalledInv
  <2>4. ReadyIn(b, d)'
    BY <1>2, <2>3 DEF PacksOf, PackReady, ReadyIn
  <2> QED BY <1>2, <2>1, <2>4 DEF BatchInv
<1>7. ASSUME NEW p \in Packs, BatchOf(p) = b PROVE CalledInv(p)'
  BY <1>2, <1>3, <1>7 DEF CalledInv
<1>8. epoch.status # "TRANSFERRING"
  BY <1>1, NotTransferring DEF Downloadable
<1> QED BY <1>2, <1>4, <1>5, <1>6, <1>7, <1>8, CallMovesKeeps

-----------------------------------------------------------------------------
(* The bundle of a batch *)

(* A step of a call that writes its bundle.                                *)
BundleStep(b) ==
    /\ UNCHANGED <<rows, file, part, dir, worker, upstream, breaks>>
    /\ bundle' = [x \in Dirs \X Batches |-> [manifest |-> bundle'[x].manifest,
                                             descriptor |-> bundle'[x].descriptor]]
    /\ call' \in [Batches -> CallAt] /\ call'[b] \in {"describe", "mark"}
    /\ call[b] \in {"finalize", "describe"}
    /\ \A c \in Batches : c # b => /\ call'[c] = call[c]
                                   /\ \A d \in Dirs : bundle'[<<d, c>>] = bundle[<<d, c>>]

LEMMA BundleStepKeeps ==
    ASSUME WInv, analysis = "none", NEW b \in Batches, BundleStep(b), Aside,
           bundle'[Here(b)].manifest = ManifestOf(b),
           call'[b] = "mark" => bundle'[Here(b)].descriptor = RowsDescriptor(b)
    PROVE  WInv'
<1>1. WTypes /\ BatchInv(b) /\ batch[b] = "VERIFYING"
  BY DEF WInv, BundleStep, BatchInv, CallFits
<1>2. CallMoves(b)
  BY <1>1 DEF BundleStep, rows, CallMoves, RowsStay, WTypes, PackTypes, Aside
<1>3. BatchTypes' /\ PlanTypes'
  <2>1. \A c \in Batches : call'[c] = "none" <=> call[c] = "none"
    BY DEF BundleStep
  <2> QED BY <1>1, <2>1 DEF BundleStep, rows, WTypes, BatchTypes, PlanTypes, Aside
<1>4. BatchInv(b)'
  <2>1. batch' = batch /\ pack' = pack /\ epoch' = epoch /\ dir' = dir /\ batch'[b] = "VERIFYING"
    BY <1>1 DEF BundleStep, rows
  <2>2. CallFits(b)'
    BY <1>1, <2>1 DEF BundleStep, CallFits
  <2>3. /\ ManifestOf(b)' = ManifestOf(b) /\ RowsDescriptor(b)' = RowsDescriptor(b)
        /\ \A d : ReadyIn(b, d)' <=> ReadyIn(b, d)
    BY <1>1, <1>2, <2>1, RowsStayKeeps, RowsOfBatchStay DEF CallMoves
  <2>4. \E d \in Dirs : ReadyIn(b, d)'
    BY <1>1, <2>3 DEF BatchInv
  <2>5. Here(b)' = Here(b)
    BY <2>1 DEF Here
  <2>6. /\ (bundle[Here(b)].manifest = ManifestOf(b))'
        /\ (call[b] = "mark" => bundle[Here(b)].descriptor = RowsDescriptor(b))'
    BY <2>3, <2>5
  <2> QED BY <2>1, <2>2, <2>4, <2>6 DEF BatchInv, BundleStep
<1>5. ASSUME NEW p \in Packs, BatchOf(p) = b PROVE CalledInv(p)'
  <2>1. worker'[p] = Idle
    BY <1>5, Resting DEF BundleStep
  <2> QED BY <1>5, <2>1 DEF CalledInv, BundleStep, Idle
<1>6. epoch' = epoch /\ epoch.status # "TRANSFERRING"
  BY <1>1, NotTransferring DEF Downloadable, BundleStep, rows
<1> QED BY <1>2, <1>3, <1>4, <1>5, <1>6, CallMovesKeeps

(* One field of one bundle is written. *)
LEMMA BundleSet ==
    ASSUME WTypes, NEW b \in Batches, dir[b] \in Dirs, NEW m, NEW e, NEW r,
           r = [manifest |-> m, descriptor |-> e], bundle' = [bundle EXCEPT ![Here(b)] = r]
    PROVE  /\ bundle'[Here(b)].manifest = m /\ bundle'[Here(b)].descriptor = e
           /\ bundle' = [x \in Dirs \X Batches |-> [manifest |-> bundle'[x].manifest,
                                                    descriptor |-> bundle'[x].descriptor]]
           /\ \A c \in Batches : c # b =>
                 \A d \in Dirs : bundle'[<<d, c>>] = bundle[<<d, c>>]
<1>1. /\ bundle = [x \in Dirs \X Batches |-> bundle[x]]
      /\ \A x \in Dirs \X Batches : bundle[x] = [manifest |-> bundle[x].manifest,
                                                 descriptor |-> bundle[x].descriptor]
  BY DEF WTypes, BatchTypes
<1>2. Here(b) \in Dirs \X Batches
  BY DEF Here
<1>3. bundle'[Here(b)] = r /\ \A x \in Dirs \X Batches : x # Here(b) => bundle'[x] = bundle[x]
  BY <1>1, <1>2
<1>4. bundle' = [x \in Dirs \X Batches |-> bundle'[x]]
  BY <1>1
<1>5. \A x \in Dirs \X Batches : bundle'[x] = [manifest |-> bundle'[x].manifest,
                                               descriptor |-> bundle'[x].descriptor]
  BY <1>1, <1>3
<1>6. \A c \in Batches, d \in Dirs : c # b => <<d, c>> \in Dirs \X Batches /\ <<d, c>> # Here(b)
  BY DEF Here
<1>7. \A c \in Batches : c # b => \A d \in Dirs : bundle'[<<d, c>>] = bundle[<<d, c>>]
  BY <1>3, <1>6
<1>8. bundle' = [x \in Dirs \X Batches |-> [manifest |-> bundle'[x].manifest,
                                            descriptor |-> bundle'[x].descriptor]]
  BY <1>4, <1>5
<1> QED BY <1>3, <1>7, <1>8

LEMMA WriteManifestKeeps ==
    ASSUME WInv, analysis = "none", NEW b \in Batches, WriteManifest(b), Aside
    PROVE  WInv'
<1>1. WTypes /\ call[b] = "finalize" /\ dir[b] \in Dirs /\ Here(b) \in Dirs \X Batches
  BY DEF WInv, WTypes, BatchTypes, WriteManifest, Here
<1>2. PICK m, e : m = ManifestOf(b) /\ e = bundle[Here(b)].descriptor
  OBVIOUS
<1>3. PICK r : r = [bundle[Here(b)] EXCEPT !.manifest = m]
  OBVIOUS
<1>4. r = [manifest |-> m, descriptor |-> e]
  <2>1. bundle[Here(b)] = [manifest |-> bundle[Here(b)].manifest, descriptor |-> e]
    BY <1>1, <1>2 DEF WTypes, BatchTypes
  <2> QED BY <1>3, <2>1
<1>5. bundle' = [bundle EXCEPT ![Here(b)] = r]
  BY <1>2, <1>3 DEF WriteManifest
<1>6. /\ bundle'[Here(b)].manifest = m
      /\ bundle' = [x \in Dirs \X Batches |-> [manifest |-> bundle'[x].manifest,
                                               descriptor |-> bundle'[x].descriptor]]
      /\ \A c \in Batches : c # b =>
            \A d \in Dirs : bundle'[<<d, c>>] = bundle[<<d, c>>]
  BY <1>1, <1>4, <1>5, BundleSet
<1>7. /\ call' \in [Batches -> CallAt] /\ call'[b] = "describe"
      /\ \A c \in Batches : c # b => call'[c] = call[c]
  BY <1>1 DEF WriteManifest, WTypes, BatchTypes, CallAt
<1>8. BundleStep(b)
  BY <1>1, <1>6, <1>7 DEF WriteManifest, BundleStep
<1> QED BY <1>2, <1>6, <1>7, <1>8, BundleStepKeeps

LEMMA WriteDescriptorKeeps ==
    ASSUME WInv, analysis = "none", NEW b \in Batches, WriteDescriptor(b), Aside
    PROVE  WInv'
<1>1. /\ WTypes /\ call[b] = "describe" /\ dir[b] \in Dirs /\ Here(b) \in Dirs \X Batches
      /\ bundle[Here(b)].manifest = ManifestOf(b)
  BY DEF WInv, WTypes, BatchTypes, WriteDescriptor, Here, BatchInv
<1>2. PICK m, e : m = bundle[Here(b)].manifest /\ e = DescriptorOf(b)
  OBVIOUS
<1>3. PICK r : r = [bundle[Here(b)] EXCEPT !.descriptor = e]
  OBVIOUS
<1>4. r = [manifest |-> m, descriptor |-> e]
  <2>1. bundle[Here(b)] = [manifest |-> m, descriptor |-> bundle[Here(b)].descriptor]
    BY <1>1, <1>2 DEF WTypes, BatchTypes
  <2> QED BY <1>3, <2>1
<1>5. bundle' = [bundle EXCEPT ![Here(b)] = r]
  BY <1>2, <1>3 DEF WriteDescriptor
<1>6. /\ bundle'[Here(b)].manifest = m /\ bundle'[Here(b)].descriptor = e
      /\ bundle' = [x \in Dirs \X Batches |-> [manifest |-> bundle'[x].manifest,
                                               descriptor |-> bundle'[x].descriptor]]
      /\ \A c \in Batches : c # b =>
            \A d \in Dirs : bundle'[<<d, c>>] = bundle[<<d, c>>]
  BY <1>1, <1>4, <1>5, BundleSet
<1>7. /\ call' \in [Batches -> CallAt] /\ call'[b] = "mark"
      /\ \A c \in Batches : c # b => call'[c] = call[c]
  BY <1>1 DEF WriteDescriptor, WTypes, BatchTypes, CallAt
<1>8. BundleStep(b)
  BY <1>1, <1>6, <1>7 DEF WriteDescriptor, BundleStep
<1>9. m = ManifestOf(b) /\ e = RowsDescriptor(b)
  BY <1>1, <1>2 DEF DescriptorOf, RowsDescriptor
<1> QED BY <1>6, <1>8, <1>9, BundleStepKeeps

LEMMA MarkReadyKeeps ==
    ASSUME WInv, analysis = "none", NEW b \in Batches, MarkReady(b), Aside
    PROVE  WInv'
<1>1. /\ WTypes /\ batch[b] = "VERIFYING" /\ call[b] = "mark" /\ BatchInv(b)
      /\ bundle[Here(b)].manifest = ManifestOf(b)
      /\ bundle[Here(b)].descriptor = RowsDescriptor(b) /\ dir[b] \in Dirs
  BY DEF WInv, MarkReady, BatchInv, CallFits, WTypes, BatchTypes
<1>2. /\ UNCHANGED <<epoch, pack, entry, file, part, bundle, dir, worker, upstream, breaks>>
      /\ call' \in [Batches -> CallAt] /\ call'[b] = "ready"
      /\ batch' \in [Batches -> BatchStatuses \cup {"ABSENT"}] /\ batch'[b] = "READY"
      /\ \A c \in Batches : c # b => call'[c] = call[c] /\ batch'[c] = batch[c]
  BY <1>1 DEF MarkReady, files, WTypes, BatchTypes, CallAt, BatchStatuses
<1>3. CallMoves(b)
  BY <1>1, <1>2 DEF CallMoves, RowsStay, WTypes, PackTypes, Aside
<1>4. BatchTypes' /\ PlanTypes'
  BY <1>1, <1>2 DEF WTypes, BatchTypes, PlanTypes, Aside
<1>5. BatchInv(b)'
  <2>1. CallFits(b)'
    BY <1>2 DEF CallFits
  <2>2. /\ ManifestOf(b)' = ManifestOf(b) /\ RowsDescriptor(b)' = RowsDescriptor(b)
        /\ \A d : ReadyIn(b, d)' <=> ReadyIn(b, d)
    BY <1>1, <1>2, <1>3, RowsStayKeeps, RowsOfBatchStay DEF CallMoves
  <2>3. \E d \in Dirs : ReadyIn(b, d)'
    BY <1>1, <2>2 DEF BatchInv
  <2>4. \E d \in Dirs : /\ (bundle[<<d, b>>].manifest = ManifestOf(b))'
                        /\ (bundle[<<d, b>>].descriptor = RowsDescriptor(b))'
    BY <1>1, <1>2, <2>2 DEF Here
  <2> QED BY <1>2, <2>1, <2>3, <2>4 DEF BatchInv
<1>6. ASSUME NEW p \in Packs, BatchOf(p) = b PROVE CalledInv(p)'
  <2>1. worker[p] = Idle
    BY <1>1, <1>6, Resting
  <2> QED BY <1>2, <1>6, <2>1 DEF CalledInv, Idle
<1>7. epoch.status # "TRANSFERRING"
  BY <1>1, NotTransferring DEF Downloadable
<1> QED BY <1>2, <1>3, <1>4, <1>5, <1>6, <1>7, CallMovesKeeps

LEMMA PlannedIsFinite ==
    IsFiniteSet(PlannedBatches) /\ Cardinality(PlannedBatches) \in 0..MaxBatches
    /\ (PlannedBatches # {} => Cardinality(PlannedBatches) > 0)
<1>1. MaxBatches \in Nat
  BY Constants
<1>2. IsFiniteSet(1..MaxBatches) /\ Cardinality(1..MaxBatches) = MaxBatches
  <2>1. IsFiniteSet(1..MaxBatches)
        /\ Cardinality(1..MaxBatches) = IF 1 > MaxBatches THEN 0 ELSE MaxBatches - 1 + 1
    BY <1>1, FS_Interval
  <2> QED BY <1>1, <2>1
<1>3. PlannedBatches \subseteq 1..MaxBatches
  BY DEF PlannedBatches, Batches
<1>4. /\ IsFiniteSet(PlannedBatches)
      /\ Cardinality(PlannedBatches) \in Nat /\ Cardinality(PlannedBatches) <= MaxBatches
  BY <1>2, <1>3, FS_Subset, FS_CardinalityType
<1>5. PlannedBatches # {} => Cardinality(PlannedBatches) # 0
  BY <1>4, FS_EmptySet
<1> QED BY <1>1, <1>4, <1>5

LEMMA EndDownloadKeeps ==
    ASSUME WInv, analysis = "none", NEW b \in Batches, EndDownload(b), Aside
    PROVE  WInv'
<1>1. WTypes /\ BatchInv(b) /\ call[b] = "ready" /\ batch[b] = "READY"
  BY DEF WInv, EndDownload, BatchInv, CallFits
<1>2. /\ UNCHANGED <<batch, pack, entry, file, part, bundle, worker, upstream, breaks>>
      /\ call' \in [Batches -> CallAt] /\ call'[b] = "none"
      /\ dir' \in [Batches -> Dirs \cup {None}] /\ dir'[b] = None
      /\ \A c \in Batches : c # b => call'[c] = call[c] /\ dir'[c] = dir[c]
      /\ epoch' = [epoch EXCEPT !.status = IF AllReady THEN "TRANSFERRING" ELSE epoch.status]
  BY <1>1 DEF EndDownload, Return, files, WTypes, BatchTypes, CallAt
<1>3. /\ epoch'.total = epoch.total
      /\ epoch'.status = IF AllReady THEN "TRANSFERRING" ELSE epoch.status
      /\ PlanTypes'
  <2>1. "TRANSFERRING" \in EpochStatuses
    BY DEF EpochStatuses
  <2> QED BY <1>1, <1>2, <2>1 DEF WTypes, PlanTypes, Aside
<1>4. \A p \in Packs : BatchOf(p) = b => worker[p] = Idle
  BY <1>1, Resting
<1>5. CallMoves(b)
  BY <1>1, <1>2, <1>3, <1>4, Constants DEF CallMoves, RowsStay, WTypes, PackTypes, Aside
<1>6. BatchTypes'
  BY <1>1, <1>2 DEF WTypes, BatchTypes
<1>7. BatchInv(b)'
  <2>1. CallFits(b)'
    BY <1>1, <1>2 DEF CallFits
  <2>2. \A p \in Packs : BatchOf(p) = b => SameData(p)
    BY <1>5, RowsStayKeeps DEF CallMoves
  <2> QED BY <1>1, <1>2, <1>3, <2>1, <2>2, BatchStays
<1>8. ASSUME NEW p \in Packs, BatchOf(p) = b PROVE CalledInv(p)'
  BY <1>2, <1>4, <1>8 DEF CalledInv, Idle
<1>9. ASSUME epoch'.status = "TRANSFERRING" PROVE epoch.total > 0 /\ AllReady'
  <2>1. CASE AllReady
    <3>1. b \in PlannedBatches
      BY <1>1 DEF PlannedBatches
    <3>2. epoch.total > 0
      BY <2>1, <3>1, PlannedIsFinite DEF AllReady
    <3>3. AllReady'
      BY <1>2, <1>3, <2>1 DEF AllReady, EveryRowReady, PlannedBatches
    <3> QED BY <3>2, <3>3
  <2>2. CASE ~AllReady
    BY <1>2, <1>3, <1>9, <2>2, StillReady
  <2> QED BY <2>1, <2>2
<1> QED BY <1>3, <1>5, <1>6, <1>7, <1>8, <1>9, CallMovesKeeps

LEMMA InterruptKeeps ==
    ASSUME WInv, analysis = "none", NEW b \in Batches, Interrupt(b), Aside
    PROVE  WInv'
<1>1. WTypes /\ BatchInv(b) /\ call[b] \notin {"none", "cancelled"}
  BY DEF WInv, Interrupt
<1>2. /\ UNCHANGED <<epoch, batch, pack, entry, file, part, bundle, worker, upstream>>
      /\ call' \in [Batches -> CallAt]
      /\ call'[b] = IF call[b] = "run" THEN "cancelled" ELSE "none"
      /\ dir' \in [Batches -> Dirs \cup {None}]
      /\ dir'[b] = IF call[b] = "run" THEN dir[b] ELSE None
      /\ \A c \in Batches : c # b => call'[c] = call[c] /\ dir'[c] = dir[c]
      /\ breaks' = breaks + 1 /\ breaks < MaxBreaks
  BY <1>1 DEF Interrupt, Return, rows, files, WTypes, BatchTypes, CallAt
<1>3. PlanTypes'
  <2>1. breaks' \in 0..MaxBreaks
    BY <1>1, <1>2, Constants DEF WTypes, PlanTypes
  <2> QED BY <1>1, <1>2, <2>1 DEF WTypes, PlanTypes, Aside
<1>4. \A p \in Packs : BatchOf(p) = b /\ call[b] # "run" => worker[p] = Idle
  BY <1>1, Resting
<1>5. CallMoves(b)
  BY <1>1, <1>2, <1>4, Constants DEF CallMoves, RowsStay, WTypes, PackTypes, Aside
<1>6. BatchTypes'
  <2>1. \A c \in Batches : dir'[c] = None <=> call'[c] = "none"
    BY <1>1, <1>2 DEF WTypes, BatchTypes
  <2> QED BY <1>1, <1>2, <2>1 DEF WTypes, BatchTypes
<1>7. BatchInv(b)'
  <2>1. CallFits(b)'
    BY <1>1, <1>2 DEF BatchInv, CallFits
  <2>2. \A p \in Packs : BatchOf(p) = b => SameData(p)
    BY <1>5, RowsStayKeeps DEF CallMoves
  <2> QED BY <1>1, <1>2, <2>1, <2>2, BatchStays
<1>8. ASSUME NEW p \in Packs, BatchOf(p) = b PROVE CalledInv(p)'
  <2>1. CalledInv(p) /\ worker'[p] = worker[p]
    BY <1>2, <1>8, RowsOf DEF PackInv
  <2> QED BY <1>1, <1>2, <1>8, <2>1 DEF CalledInv
<1> QED BY <1>2, <1>3, <1>5, <1>6, <1>7, <1>8, CallMovesKeeps, StillReady
-----------------------------------------------------------------------------
(* The steps that touch no batch: republished files, capsules, an aborted  *)
(* or empty analysis, a crash.                                             *)
LEMMA AsideKeeps ==
    ASSUME WInv, RowsStay, UNCHANGED <<batch, bundle>>, epoch'.total = epoch.total,
           upstream' \in [Upstream -> Nat], BatchTypes', PlanTypes', PlanInv',
           \/ UNCHANGED running
           \/ /\ \A b \in Batches : call'[b] = "none"
              /\ \A p \in Packs : worker'[p] = Idle
    PROVE  WInv'
<1>1. WTypes'
  BY RowsStayKeeps DEF WTypes
<1>2. ASSUME NEW p \in Packs PROVE PackInv(p)'
  <2>1. CalledInv(p)'
    <3>1. /\ CalledInv(p) /\ PackReady(p)' = PackReady(p) /\ pack' = pack
          /\ BatchOf(p) \in Batches
      BY RowsOf, RowsStayKeeps, Constants DEF PackInv, RowsStay
    <3> QED BY <3>1 DEF CalledInv, Idle, running
  <2> QED BY <2>1, RowsStayKeeps DEF PackInv
<1>3. \A a \in Artifacts : EntryInv(a)'
  BY RowsStayKeeps
<1>4. ASSUME NEW b \in Batches PROVE BatchInv(b)'
  <2>1. BatchInv(b) /\ WTypes
    BY DEF WInv
  <2>2. /\ CallFits(b)'
        /\ call'[b] \in {"describe", "mark"} =>
              call'[b] = call[b] /\ dir'[b] = dir[b] /\ dir[b] \in Dirs
    BY <2>1 DEF BatchInv, CallFits, WTypes, BatchTypes, running
  <2>3. \A p \in Packs : BatchOf(p) = b => SameData(p)
    BY RowsStayKeeps
  <2> QED BY <2>1, <2>2, <2>3, BatchStays
<1> QED BY <1>1, <1>2, <1>3, <1>4 DEF WInv

LEMMA RepublishKeeps ==
    ASSUME WInv, NEW a \in Unstable, Republish(a), Aside
    PROVE  WInv'
<1>1. WTypes /\ PlanInv
  BY DEF WInv
<1>2. UNCHANGED <<epoch, batch, pack, entry, file, part, bundle, call, dir, worker, breaks>>
  BY DEF Republish, rows, files, running, Aside
<1>3. upstream' \in [Upstream -> Nat]
  BY <1>1, DownloadAssumption DEF Republish, WTypes, EntryTypes
<1>4. RowsStay
  BY <1>1, <1>2 DEF RowsStay, WTypes, PackTypes
<1>5. BatchTypes' /\ PlanTypes'
  BY <1>1, <1>2 DEF WTypes, BatchTypes, PlanTypes, Aside
<1>6. PlanInv'
  BY <1>1, <1>2 DEF PlanInv, Quiet, Assigned, AllReady, EveryRowReady, PlannedBatches, Aside
<1> QED BY <1>2, <1>3, <1>4, <1>5, <1>6, AsideKeeps DEF running

LEMMA DownloadStepKeeps ==
    ASSUME WInv, analysis = "none", DownloadNext, Aside
    PROVE  WInv'
<1>1. CASE \E b \in Batches, d \in Dirs : StartDownload(b, d)
  BY <1>1, StartDownloadKeeps
<1>2. CASE \E b \in Batches : CallStep(b) \/ Interrupt(b)
  <2>1. PICK b \in Batches : CallStep(b) \/ Interrupt(b)
    BY <1>2
  <2> QED BY <2>1, EnterBatchKeeps, EndCancelledKeeps, EnterVerifyingKeeps,
             WriteManifestKeeps, WriteDescriptorKeeps, MarkReadyKeeps, EndDownloadKeeps,
             InterruptKeeps DEF CallStep
<1>3. CASE \E p \in Packs : PackStep(p)
  BY <1>3, PackStepKeeps
<1>4. CASE \E a \in Unstable : Republish(a)
  BY <1>4, RepublishKeeps
<1> QED BY <1>1, <1>2, <1>3, <1>4 DEF DownloadNext

CapsuleRow == [files : BOOLEAN, importing : BOOLEAN, stored : BOOLEAN, open : BOOLEAN]
LEMMA CapsuleStepKeeps ==
    ASSUME WInv, UNCHANGED <<dvars, analysis, planned>>, capsule' \in [Capsules -> CapsuleRow]
    PROVE  WInv'
<1>1. WTypes /\ PlanInv
  BY DEF WInv
<1>2. UNCHANGED <<epoch, batch, pack, entry, file, part, bundle, call, dir, worker, upstream, breaks>>
  BY DEF dvars, rows, files, running
<1>3. RowsStay
  BY <1>1, <1>2 DEF RowsStay, WTypes, PackTypes
<1>4. BatchTypes' /\ PlanTypes' /\ upstream' \in [Upstream -> Nat]
  BY <1>1, <1>2 DEF WTypes, BatchTypes, PlanTypes, EntryTypes, CapsuleRow
<1>5. PlanInv'
  BY <1>1, <1>2 DEF PlanInv, Quiet, Assigned, AllReady, EveryRowReady, PlannedBatches
<1> QED BY <1>2, <1>3, <1>4, <1>5, AsideKeeps DEF running

LEMMA ExtractAndStoreKeep ==
    ASSUME WInv, NEW c \in Capsules, ExtractCapsule(c) \/ StoreCapsule(c)
    PROVE  WInv'
<1>1. capsule \in [Capsules -> CapsuleRow]
  BY DEF WInv, WTypes, PlanTypes, CapsuleRow
<1>2. NoCapsule \in CapsuleRow
  BY DEF NoCapsule, CapsuleRow
<1>3. CASE ExtractCapsule(c)
  <2>1. PICK r : r = [capsule[c] EXCEPT !.files = TRUE, !.importing = TRUE]
    OBVIOUS
  <2>2. r \in CapsuleRow /\ capsule' = [capsule EXCEPT ![c] = r]
    BY <1>1, <1>3, <2>1 DEF ExtractCapsule, CapsuleRow
  <2> QED BY <1>1, <1>3, <2>2, CapsuleStepKeeps DEF ExtractCapsule
<1>4. CASE StoreCapsule(c)
  <2>1. PICK r : r = [capsule[c] EXCEPT !.stored = TRUE, !.importing = FALSE]
    OBVIOUS
  <2>2. r \in CapsuleRow
        /\ (capsule' = [capsule EXCEPT ![c] = r] \/ capsule' = [capsule EXCEPT ![c] = NoCapsule])
    BY <1>1, <1>4, <2>1 DEF StoreCapsule, CapsuleRow
  <2>3. capsule' \in [Capsules -> CapsuleRow]
    BY <1>1, <1>2, <2>2
  <2> QED BY <1>4, <2>3, CapsuleStepKeeps DEF StoreCapsule
<1> QED BY <1>3, <1>4

LEMMA AbortKeeps ==
    ASSUME WInv, Abort
    PROVE  WInv'
<1>1. WTypes /\ PlanInv /\ epoch.total = 0 /\ epoch.capsule \in Capsules
  BY DEF WInv, Abort, PlanInv, WTypes, PlanTypes
<1>2. /\ UNCHANGED <<batch, pack, entry, file, part, bundle, call, dir, worker, upstream, planned>>
      /\ epoch' = [epoch EXCEPT !.status = "FAILED"] /\ analysis' = "none"
      /\ breaks' = breaks + 1 /\ breaks < MaxBreaks
  BY DEF Abort, files, running
<1>3. epoch'.total = 0 /\ epoch'.status = "FAILED" /\ PlanTypes'
  <2>1. "FAILED" \in EpochStatuses /\ breaks' \in 0..MaxBreaks
    BY <1>1, <1>2, Constants DEF EpochStatuses, WTypes, PlanTypes
  <2>2. PICK r : r = [capsule[epoch.capsule] EXCEPT !.open = FALSE]
    OBVIOUS
  <2>3. capsule \in [Capsules -> CapsuleRow]
    BY <1>1 DEF WTypes, PlanTypes, CapsuleRow
  <2>4. r \in CapsuleRow /\ capsule' = [capsule EXCEPT ![epoch.capsule] = r]
    BY <1>1, <2>2, <2>3 DEF Abort, CapsuleRow
  <2>5. capsule' \in [Capsules -> CapsuleRow]
    BY <1>1, <2>3, <2>4
  <2> QED BY <1>1, <1>2, <2>1, <2>5 DEF WTypes, PlanTypes, CapsuleRow
<1>4. RowsStay
  BY <1>1, <1>2 DEF RowsStay, WTypes, PackTypes
<1>5. BatchTypes' /\ upstream' \in [Upstream -> Nat]
  BY <1>1, <1>2 DEF WTypes, BatchTypes, EntryTypes
<1>6. PlanInv'
  BY <1>1, <1>2, <1>3 DEF PlanInv
<1> QED BY <1>1, <1>2, <1>3, <1>4, <1>5, <1>6, AsideKeeps DEF running

LEMMA CommitEmptyKeeps ==
    ASSUME WInv, CommitEmpty
    PROVE  WInv'
<1>1. WTypes /\ PlanInv
  BY DEF WInv
<1>2. /\ UNCHANGED <<epoch, batch, pack, entry, file, part, bundle, call, dir, worker, upstream,
                     breaks, capsule>>
      /\ analysis = "adapter"
      /\ \/ analysis' = "none" /\ planned' = planned
         \/ analysis' = "planner" /\ planned' = Len(Order)
  BY DEF CommitEmpty, dvars, rows, files, running
<1>3. RowsStay
  BY <1>1, <1>2 DEF RowsStay, WTypes, PackTypes
<1>4. BatchTypes' /\ PlanTypes' /\ upstream' \in [Upstream -> Nat]
  BY <1>1, <1>2, OrderType DEF WTypes, BatchTypes, PlanTypes, EntryTypes
<1>5. PlanInv'
  <2>1. Quiet' /\ epoch.total = 0 /\ epoch.status = "PLANNED"
    BY <1>1, <1>2 DEF PlanInv, Quiet
  <2>2. \A a \in Artifacts : Assigned(a)'
    BY <1>1, <1>2 DEF PlanInv, Assigned, NoEntry
  <2>3. \A i \in 1..planned' : planned' = Len(Order) => Assigned(Order[i])'
    BY <2>2, OrderType
  <2> QED BY <1>1, <1>2, <2>1, <2>2, <2>3, OrderType DEF PlanInv
<1> QED BY <1>2, <1>3, <1>4, <1>5, AsideKeeps DEF running

LEMMA CrashKeeps ==
    ASSUME WInv, Crash
    PROVE  WInv'
<1>1. WTypes /\ PlanInv
  BY DEF WInv
<1>2. /\ UNCHANGED <<epoch, batch, pack, entry, file, part, bundle, upstream, planned>>
      /\ breaks' = breaks + 1 /\ breaks < MaxBreaks /\ analysis' = "none"
      /\ call' = [b \in Batches |-> "none"] /\ dir' = [b \in Batches |-> None]
      /\ worker' = [p \in Packs |-> Idle]
  BY DEF Crash, rows, files
<1>3. PlanTypes'
  <2>1. breaks' \in 0..MaxBreaks
    BY <1>1, <1>2, Constants DEF WTypes, PlanTypes
  <2>2. \A c \in Capsules : [capsule[c] EXCEPT !.importing = FALSE] \in CapsuleRow
    BY <1>1 DEF WTypes, PlanTypes, CapsuleRow
  <2>3. capsule' \in [Capsules -> CapsuleRow]
    BY <2>2 DEF Crash
  <2> QED BY <1>1, <1>2, <2>1, <2>3 DEF WTypes, PlanTypes, CapsuleRow
<1>4. RowsStay
  BY <1>2 DEF RowsStay, Idle, WorkerRow, WorkerAt
<1>5. BatchTypes' /\ upstream' \in [Upstream -> Nat]
  BY <1>1, <1>2 DEF WTypes, BatchTypes, EntryTypes, CallAt
<1>6. PlanInv'
  BY <1>1, <1>2 DEF PlanInv, Assigned, AllReady, EveryRowReady, PlannedBatches
<1> QED BY <1>2, <1>3, <1>4, <1>5, <1>6, AsideKeeps

-----------------------------------------------------------------------------
(* The planner *)

(* While the plan is made there is nothing but rows to be right.           *)
PlannedRow(a) ==
    LET e == entry[a] IN
    /\ e.pack # None => e.status # "ABSENT" /\ pack[e.pack].status # "ABSENT"
    /\ e.status # "ABSENT" => /\ e.sha \in {None, Planned(a)}
                              /\ Origin[a] # "upstream" => e.sha = Planned(a)

LEMMA QuietKeeps ==
    ASSUME WTypes', Quiet', PlanInv', \A a \in Artifacts : PlannedRow(a)'
    PROVE  WInv'
<1>1. ASSUME NEW a \in Artifacts PROVE EntryInv(a)'
  <2>1. PlannedRow(a)' /\ entry'[a].status # "VERIFIED"
    BY DEF Quiet
  <2> QED BY <2>1 DEF PlannedRow, EntryInv
<1>2. ASSUME NEW p \in Packs PROVE PackInv(p)'
  <2>1. /\ worker'[p] = Idle /\ pack'[p].status \in {"ABSENT", "PLANNED"}
    BY DEF Quiet
  <2>2. PICK S : S = InPack(p)'
    OBVIOUS
  <2>3. Entries(p)' = InOrder(S) /\ S \subseteq Artifacts
    BY <2>2 DEF Entries, InPack
  <2>4. Len(Entries(p)') \in Nat
    BY <2>3, InOrderLists
  <2>5. FileInv(p)'
    BY <2>4, EmptySeq DEF FileInv, Holds, Absent, Quiet
  <2>6. ReadyInv(p)' /\ CalledInv(p)'
    BY <2>1 DEF ReadyInv, CalledInv, Idle, PackReady
  <2>7. WorkerInv(p)'
    BY <2>1 DEF WorkerInv, Knows, Idle, Filling
  <2> QED BY <1>1, <2>5, <2>6, <2>7 DEF PackInv, InPack
<1>3. ASSUME NEW b \in Batches PROVE BatchInv(b)'
  <2>1. call'[b] = "none" /\ batch'[b] \in {"ABSENT", "PLANNED"}
    BY DEF Quiet
  <2> QED BY <2>1 DEF BatchInv, CallFits
<1> QED BY <1>1, <1>2, <1>3 DEF WInv

LEMMA NewRows ==
    /\ NoEntry \in EntryRow /\ NoPack \in PackRow /\ Absent \in FileRow /\ Idle \in WorkerRow
    /\ NoEntry.pack = None /\ NoEntry.status = "ABSENT" /\ NoEntry.got = 0
    /\ NoPack.status = "ABSENT"
BY EmptySeq DEF NoEntry, EntryRow, EntryStatuses, NoPack, PackRow, Absent, FileRow, Idle,
                WorkerRow, WorkerAt

(* Nothing of an epoch that has just begun, or of a new workspace.         *)
Fresh ==
    /\ batch = [b \in Batches |-> "ABSENT"]
    /\ pack = [p \in Packs |-> NoPack]
    /\ entry = [a \in Artifacts |-> NoEntry]
    /\ NoFiles(file, part, bundle)
    /\ dir = [b \in Batches |-> None]
    /\ call = [b \in Batches |-> "none"]
    /\ worker = [p \in Packs |-> Idle]
    /\ upstream = [a \in Upstream |-> 1]

LEMMA FreshFits ==
    ASSUME Fresh
    PROVE  /\ BatchTypes /\ PackTypes /\ EntryTypes /\ Quiet
           /\ \A a \in Artifacts : entry[a] = NoEntry /\ PlannedRow(a) /\ Assigned(a)
           /\ \A p \in Packs : pack[p].status = "ABSENT"
<1>1. BatchTypes
  BY DEF Fresh, NoFiles, BatchTypes, NoBundle, CallAt
<1>2. PackTypes
  BY NewRows DEF Fresh, NoFiles, PackTypes
<1>3. EntryTypes
  <2>1. /\ entry \in [Artifacts -> EntryRow] /\ \A a \in Artifacts : entry[a].got = 0
        /\ part = [f \in Dirs \X Artifacts |-> None] /\ upstream \in [Upstream -> Nat]
    BY NewRows DEF Fresh, NoFiles
  <2>2. \A a \in Artifacts : Size[a] \in Nat
    BY Constants
  <2>3. \A g \in Dirs \X Artifacts : Offset(g) = 0 /\ g[2] \in Artifacts
    BY <2>1 DEF Offset
  <2> QED BY <2>1, <2>2, <2>3 DEF EntryTypes, Parts
<1>4. Quiet
  BY NewRows DEF Fresh, NoFiles, Quiet
<1>5. \A a \in Artifacts : entry[a] = NoEntry /\ PlannedRow(a) /\ Assigned(a)
  BY NewRows DEF Fresh, PlannedRow, Assigned
<1> QED BY <1>1, <1>2, <1>3, <1>4, <1>5, NewRows DEF Fresh

LEMMA InitHolds ==
    ASSUME WorkspaceInit
    PROVE  WInv
<1>1. Fresh
  BY DEF WorkspaceInit, Fresh
<1>2. PlanTypes
  BY Constants, OrderType DEF WorkspaceInit, PlanTypes, NoEpoch, NoCapsule
<1>3. WTypes
  BY <1>1, <1>2, FreshFits DEF WTypes
<1>4. PlanInv
  BY <1>1, FreshFits DEF WorkspaceInit, PlanInv, NoEpoch
<1>5. \A a \in Artifacts : EntryInv(a)
  BY <1>1, FreshFits, NewRows DEF EntryInv, PlannedRow
<1>6. \A p \in Packs : PackInv(p)
  <2>1. /\ \A p \in Packs : worker[p] = Idle /\ pack[p].status = "ABSENT"
        /\ \A f \in Dirs \X Packs : file[f] = Absent
    BY <1>1, FreshFits DEF Quiet
  <2>2. \A p \in Packs : FileInv(p)
    BY <2>1, EntriesOf, EmptySeq DEF FileInv, Holds, Absent
  <2>3. \A p \in Packs : ReadyInv(p) /\ CalledInv(p)
    BY <2>1 DEF ReadyInv, CalledInv, Idle, PackReady
  <2>4. \A p \in Packs : WorkerInv(p)
    BY <2>1 DEF WorkerInv, Knows, Idle, Filling
  <2> QED BY <1>5, <2>2, <2>3, <2>4 DEF PackInv, InPack
<1>7. \A b \in Batches : BatchInv(b)
  <2>1. \A b \in Batches : call[b] = "none" /\ batch[b] \in {"ABSENT", "PLANNED"}
    BY <1>1, FreshFits DEF Quiet
  <2> QED BY <2>1 DEF BatchInv, CallFits
<1> QED BY <1>3, <1>4, <1>5, <1>6, <1>7 DEF WInv

LEMMA AnalyzeFresh ==
    ASSUME WInv, NEW c \in Capsules, Analyze(c)
    PROVE  Fresh'
<1>1. WTypes /\ \A b \in Batches : call[b] = "none"
  BY DEF WInv, Analyze
<1>2. \A p \in Packs : worker[p] = Idle
  BY <1>1, Resting, Constants
<1>3. /\ call = [b \in Batches |-> "none"] /\ worker = [p \in Packs |-> Idle]
      /\ dir = [b \in Batches |-> None]
  BY <1>1, <1>2 DEF WTypes, BatchTypes, PackTypes
<1> QED BY <1>3 DEF Fresh, Analyze, running

LEMMA AnalyzeKeeps ==
    ASSUME WInv, NEW c \in Capsules, Analyze(c)
    PROVE  WInv'
<1>1. WTypes
  BY DEF WInv
<1>2. Fresh'
  BY AnalyzeFresh
<1>3. /\ BatchTypes' /\ PackTypes' /\ EntryTypes' /\ Quiet'
      /\ \A a \in Artifacts : entry'[a] = NoEntry /\ PlannedRow(a)' /\ Assigned(a)'
      /\ \A p \in Packs : pack'[p].status = "ABSENT"
  <2>1. BatchTypes'
    BY <1>2 DEF Fresh, NoFiles, BatchTypes, NoBundle, CallAt
  <2>2. PackTypes'
    BY <1>2, NewRows DEF Fresh, NoFiles, PackTypes
  <2>3. EntryTypes'
    <3>1. /\ entry' \in [Artifacts -> EntryRow] /\ \A a \in Artifacts : entry'[a].got = 0
          /\ part' = [f \in Dirs \X Artifacts |-> None] /\ upstream' \in [Upstream -> Nat]
      BY <1>2, NewRows DEF Fresh, NoFiles
    <3>2. \A a \in Artifacts : Size[a] \in Nat
      BY Constants
    <3>3. \A g \in Dirs \X Artifacts : Offset(g)' = 0 /\ g[2] \in Artifacts
      BY <3>1 DEF Offset
    <3> QED BY <3>1, <3>2, <3>3 DEF EntryTypes, Parts
  <2>4. Quiet'
    BY <1>2, NewRows DEF Fresh, NoFiles, Quiet
  <2>5. \A a \in Artifacts : entry'[a] = NoEntry /\ PlannedRow(a)' /\ Assigned(a)'
    BY <1>2, NewRows DEF Fresh, PlannedRow, Assigned
  <2> QED BY <1>2, <2>1, <2>2, <2>3, <2>4, <2>5, NewRows DEF Fresh
<1>4. /\ epoch' = [capsule |-> c, status |-> "PLANNED", total |-> 0]
      /\ analysis' = "adapter" /\ planned' = 0 /\ breaks' = breaks
  BY DEF Analyze
<1>5. PlanTypes'
  <2>1. PICK r : r = [capsule[c] EXCEPT !.open = TRUE]
    OBVIOUS
  <2>2. capsule \in [Capsules -> CapsuleRow]
    BY <1>1 DEF WTypes, PlanTypes, CapsuleRow
  <2>3. r \in CapsuleRow /\ capsule' = [capsule EXCEPT ![c] = r]
    BY <2>1, <2>2 DEF Analyze, CapsuleRow
  <2>4. capsule' \in [Capsules -> CapsuleRow]
    BY <2>2, <2>3
  <2>5. "PLANNED" \in EpochStatuses
    BY DEF EpochStatuses
  <2> QED BY <1>1, <1>4, <2>4, <2>5, Constants, OrderType DEF WTypes, PlanTypes, CapsuleRow
<1>6. WTypes'
  BY <1>3, <1>5 DEF WTypes
<1>7. PlanInv'
  BY <1>3, <1>4 DEF PlanInv
<1> QED BY <1>3, <1>6, <1>7, QuietKeeps

LEMMA CommitKeeps ==
    ASSUME WInv, Commit
    PROVE  WInv'
<1>1. /\ WTypes /\ PlanInv /\ Quiet /\ planned = 0 /\ epoch.total = 0
      /\ epoch.status = "PLANNED"
  BY DEF WInv, Commit, PlanInv
<1>2. /\ UNCHANGED <<epoch, batch, pack, file, part, bundle, call, dir, worker, upstream, breaks,
                     capsule, planned>>
      /\ analysis' = "planner"
  BY DEF Commit, files, running
<1>3. ASSUME NEW a \in Artifacts
      PROVE  /\ entry'[a] \in EntryRow /\ entry'[a].status = "PLANNED" /\ entry'[a].pack = None
             /\ entry'[a].got = 0 /\ PlannedRow(a)'
  <2>1. PICK d : d = IF Origin[a] = "upstream" THEN None ELSE Planned(a)
    OBVIOUS
  <2>2. entry'[a] = [pack |-> None, status |-> "PLANNED", got |-> 0, etag |-> None,
                     sha |-> d, at |-> 0]
    BY <2>1 DEF Commit, NoEntry
  <2>3. d \in Seq(Nat) \cup {None} /\ "PLANNED" \in EntryStatuses
    BY <2>1, Constants DEF EntryStatuses
  <2>4. Planned(a)' = Planned(a)
    BY DEF Planned
  <2> QED BY <2>1, <2>2, <2>3, <2>4 DEF EntryRow, PlannedRow
<1>4. EntryTypes'
  <2>1. entry' \in [Artifacts -> EntryRow]
    BY <1>3 DEF Commit
  <2> QED BY <1>1, <1>2, <1>3, <2>1, Constants DEF WTypes, EntryTypes, Offset
<1>5. WTypes'
  BY <1>1, <1>2, <1>4 DEF WTypes, PlanTypes, BatchTypes, PackTypes
<1>6. Quiet'
  BY <1>1, <1>2, <1>3 DEF Quiet
<1>7. PlanInv'
  BY <1>1, <1>2, <1>3, <1>6 DEF PlanInv
<1> QED BY <1>3, <1>5, <1>6, <1>7, QuietKeeps

(* A step of the planner: rows of batches and packs are added, an artifact *)
(* gets its pack, the plan is closed.                                      *)
PlannerMoves ==
    /\ UNCHANGED <<file, part, bundle, call, dir, worker, upstream, breaks, capsule>>
    /\ batch' \in [Batches -> BatchStatuses \cup {"ABSENT"}]
    /\ \A b \in Batches : batch'[b] \in {"ABSENT", "PLANNED"}
    /\ pack' \in [Packs -> PackRow]
    /\ \A p \in Packs : /\ pack'[p].status \in {"ABSENT", "PLANNED"}
                        /\ pack'[p].status # "ABSENT" => batch'[BatchOf(p)] # "ABSENT"
    /\ entry' \in [Artifacts -> EntryRow]
    /\ \A a \in Artifacts :
          /\ entry'[a].status \in {"ABSENT", "PLANNED", "PENDING"}
          /\ planned' < Len(Order) => entry'[a].status # "ABSENT"
          /\ entry'[a].got = entry[a].got /\ entry'[a].sha = entry[a].sha
          /\ entry'[a].pack # None => pack'[entry'[a].pack].status # "ABSENT"
          /\ entry'[a].status # "ABSENT" => entry[a].status # "ABSENT"
          /\ entry'[a].pack # None => entry'[a].status # "ABSENT"
    /\ \A i \in 1..planned' : Assigned(Order[i])'
    /\ planned' \in 0..Len(Order)
    /\ \/ analysis' = "planner" /\ epoch' = epoch
       \/ /\ analysis' = "none" /\ planned' = Len(Order)
          /\ \E n \in 0..MaxBatches : epoch' = [epoch EXCEPT !.total = n]

LEMMA PlannerKeeps ==
    ASSUME WInv, analysis = "planner", PlannerMoves
    PROVE  WInv'
<1>1. /\ WTypes /\ Quiet /\ epoch.total = 0 /\ epoch.status = "PLANNED"
      /\ \A a \in Artifacts : EntryInv(a)
  BY DEF WInv, PlanInv
<1>2. epoch'.status = "PLANNED" /\ PlanTypes'
  BY <1>1 DEF PlannerMoves, WTypes, PlanTypes
<1>3. EntryTypes'
  BY <1>1 DEF PlannerMoves, WTypes, EntryTypes, Offset
<1>4. WTypes'
  BY <1>1, <1>2, <1>3 DEF PlannerMoves, WTypes, BatchTypes, PackTypes
<1>5. Quiet'
  <2>1. \A b \in Batches : call'[b] = "none" /\ batch'[b] \in {"ABSENT", "PLANNED"}
    BY <1>1 DEF PlannerMoves, Quiet
  <2>2. \A f \in Dirs \X Packs : file'[f] = Absent
    BY <1>1 DEF PlannerMoves, Quiet
  <2>3. \A p \in Packs : worker'[p] = Idle /\ pack'[p].status \in {"ABSENT", "PLANNED"}
    BY <1>1 DEF PlannerMoves, Quiet
  <2>4. \A a \in Artifacts : entry'[a].status \in {"ABSENT", "PLANNED", "PENDING"}
    BY DEF PlannerMoves
  <2> QED BY <2>1, <2>2, <2>3, <2>4 DEF Quiet
<1>6. ASSUME NEW a \in Artifacts PROVE PlannedRow(a)'
  <2>1. EntryInv(a) /\ Planned(a)' = Planned(a)
    BY <1>1 DEF Planned
  <2> QED BY <2>1 DEF PlannerMoves, PlannedRow, EntryInv
<1>7. PlanInv'
  <2>1. planned' < Len(Order) => \A a \in Artifacts : entry'[a].status # "ABSENT"
    BY DEF PlannerMoves
  <2>2. ASSUME planned' = Len(Order), NEW a \in Artifacts PROVE Assigned(a)'
    <3>1. PICK i \in 1..Len(Order) : Order[i] = a
      BY OrderType
    <3> QED BY <2>2, <3>1 DEF PlannerMoves
  <2>3. analysis' = "planner" => epoch'.total = 0
    BY <1>1 DEF PlannerMoves
  <2>4. epoch'.total > 0 => \A a \in Artifacts : Assigned(a)'
    BY <1>1, <2>2 DEF PlannerMoves
  <2>5. \A p \in Packs : pack'[p].status # "ABSENT" => batch'[BatchOf(p)] # "ABSENT"
    BY DEF PlannerMoves
  <2>6. analysis' \in {"planner", "none"} /\ \A i \in 1..planned' : Assigned(Order[i])'
    BY DEF PlannerMoves
  <2> QED BY <1>2, <1>5, <2>1, <2>3, <2>4, <2>5, <2>6 DEF PlanInv
<1> QED BY <1>4, <1>5, <1>6, <1>7, QuietKeeps

(* What a planner step finds.                                              *)
LEMMA PlannerFinds ==
    ASSUME WInv, analysis = "planner"
    PROVE  /\ WTypes /\ Quiet /\ PlanInv
           /\ planned \in 0..Len(Order) /\ Len(Order) \in Nat
           /\ planned < Len(Order) => NextOf \in Artifacts
           /\ \A p \in Packs : pack[p].status # "ABSENT" => batch[BatchOf(p)] # "ABSENT"
           /\ \A i \in 1..planned : Assigned(Order[i])
           /\ \A a \in Artifacts :
                 /\ entry[a] \in EntryRow
                 /\ entry[a].status \in {"ABSENT", "PLANNED", "PENDING"}
                 /\ planned < Len(Order) => entry[a].status # "ABSENT"
                 /\ entry[a].pack # None =>
                       entry[a].status # "ABSENT" /\ pack[entry[a].pack].status # "ABSENT"
<1>1. /\ WTypes /\ Quiet /\ PlanInv /\ \A a \in Artifacts : EntryInv(a)
  BY DEF WInv, PlanInv
<1>2. planned \in 0..Len(Order) /\ Len(Order) \in Nat
  BY <1>1, OrderType DEF WTypes, PlanTypes
<1>3. planned < Len(Order) => NextOf \in Artifacts
  BY <1>2, OrderType DEF NextOf
<1>4. \A a \in Artifacts : entry[a] \in EntryRow
  BY <1>1 DEF WTypes, EntryTypes
<1>5. planned < Len(Order) => \A a \in Artifacts : entry[a].status # "ABSENT"
  BY <1>1 DEF PlanInv
<1> QED BY <1>1, <1>2, <1>3, <1>4, <1>5 DEF PlanInv, Quiet, EntryInv

LEMMA CreateBatchKeeps ==
    ASSUME WInv, CreateBatch
    PROVE  WInv'
<1>1. analysis = "planner"
  BY DEF CreateBatch, Planning
<1>2. /\ WTypes /\ Quiet
      /\ UNCHANGED <<epoch, pack, entry, file, part, bundle, call, dir, worker, upstream,
                     breaks, capsule, analysis, planned>>
  BY <1>1, PlannerFinds DEF CreateBatch, files, running
<1>3. /\ batch' \in [Batches -> BatchStatuses \cup {"ABSENT"}]
      /\ \A b \in Batches : batch'[b] \in {"ABSENT", "PLANNED"}
      /\ \A b \in Batches : batch[b] # "ABSENT" => batch'[b] # "ABSENT"
  BY <1>2 DEF CreateBatch, WTypes, BatchTypes, BatchStatuses, Quiet
<1>4. /\ pack' \in [Packs -> PackRow] /\ entry' \in [Artifacts -> EntryRow]
  BY <1>2 DEF WTypes, PackTypes, EntryTypes
<1>5. \A i \in 1..planned' : Assigned(Order[i])'
  BY <1>1, <1>2, PlannerFinds DEF Assigned
<1>6. \A p \in Packs : /\ pack'[p].status \in {"ABSENT", "PLANNED"}
                       /\ pack'[p].status # "ABSENT" => batch'[BatchOf(p)] # "ABSENT"
  BY <1>1, <1>2, <1>3, PlannerFinds, Constants DEF Quiet
<1>7. PlannerMoves
  BY <1>1, <1>2, <1>3, <1>4, <1>5, <1>6, PlannerFinds DEF PlannerMoves
<1> QED BY <1>1, <1>7, PlannerKeeps

LEMMA AddPackKeeps ==
    ASSUME WInv, AddPack
    PROVE  WInv'
<1>1. analysis = "planner"
  BY DEF AddPack, Planning
<1>2. PICK p \in Packs : /\ p = <<LastBatch, LastPack(LastBatch) + 1>>
                         /\ pack' = [pack EXCEPT ![p].status = "PLANNED"]
  BY DEF AddPack
<1>3. /\ WTypes /\ Quiet /\ BatchOf(p) \in PlannedBatches
      /\ UNCHANGED <<epoch, batch, entry, file, part, bundle, call, dir, worker, upstream,
                     breaks, capsule, analysis, planned>>
  BY <1>1, <1>2, PlannerFinds DEF AddPack, files, running, NeedsBatch, BatchOf
<1>4. PICK r : r = [pack[p] EXCEPT !.status = "PLANNED"]
  OBVIOUS
<1>5. pack[p] \in PackRow /\ r \in PackRow /\ r.status = "PLANNED"
  BY <1>3, <1>4 DEF WTypes, PackTypes, PackRow, PackStatuses
<1>6. /\ pack' \in [Packs -> PackRow] /\ pack'[p] = r
      /\ \A q \in Packs : q # p => pack'[q] = pack[q]
  BY <1>2, <1>3, <1>4, <1>5 DEF WTypes, PackTypes
<1>7. \A q \in Packs : /\ pack'[q].status \in {"ABSENT", "PLANNED"}
                       /\ pack'[q].status # "ABSENT" => batch'[BatchOf(q)] # "ABSENT"
                       /\ pack[q].status # "ABSENT" => pack'[q].status # "ABSENT"
  BY <1>1, <1>3, <1>5, <1>6, PlannerFinds DEF Quiet, PlannedBatches
<1>8. /\ batch' \in [Batches -> BatchStatuses \cup {"ABSENT"}]
      /\ \A b \in Batches : batch'[b] \in {"ABSENT", "PLANNED"}
      /\ entry' \in [Artifacts -> EntryRow]
  BY <1>3 DEF WTypes, BatchTypes, EntryTypes, Quiet
<1>9. \A i \in 1..planned' : Assigned(Order[i])'
  BY <1>1, <1>3, PlannerFinds DEF Assigned
<1>10. ASSUME NEW a \in Artifacts, entry'[a].pack # None
       PROVE  pack'[entry'[a].pack].status # "ABSENT"
  <2>1. /\ entry'[a] = entry[a] /\ entry[a].pack \in Packs \cup {None}
        /\ pack[entry[a].pack].status # "ABSENT"
    BY <1>1, <1>3, <1>10, PlannerFinds DEF EntryRow
  <2> QED BY <1>7, <1>10, <2>1
<1>11. PlannerMoves
  BY <1>1, <1>3, <1>6, <1>7, <1>8, <1>9, <1>10, PlannerFinds DEF PlannerMoves
<1> QED BY <1>1, <1>11, PlannerKeeps

(* The planner changes the row of the next artifact only.                  *)
LEMMA NextRowKeeps ==
    ASSUME WInv, analysis = "planner", planned < Len(Order), NEW e \in EntryRow,
           entry' = [entry EXCEPT ![NextOf] = e],
           e.status \in {"PLANNED", "PENDING"}, e.got = entry[NextOf].got,
           e.sha = entry[NextOf].sha, e.pack \in Packs, pack[e.pack].status # "ABSENT",
           UNCHANGED <<epoch, batch, pack, file, part, bundle, call, dir, worker, upstream,
                       breaks, capsule, analysis>>,
           planned' \in {planned, planned + 1}
    PROVE  WInv'
<1>1. PICK a \in Artifacts : a = NextOf
  BY PlannerFinds
<1>2. /\ WTypes /\ Quiet /\ planned \in 0..Len(Order) /\ Len(Order) \in Nat
      /\ \A i \in 1..planned : Assigned(Order[i])
  BY PlannerFinds
<1>3. /\ entry' \in [Artifacts -> EntryRow] /\ entry'[a] = e
      /\ \A x \in Artifacts : x # a => entry'[x] = entry[x]
  BY <1>1, <1>2 DEF WTypes, EntryTypes
<1>4. planned' \in 0..Len(Order)
  BY <1>2
<1>5. ASSUME NEW i \in 1..planned' PROVE Assigned(Order[i])'
  <2>1. Order[i] \in Artifacts
    BY <1>2, <1>4, OrderType
  <2>2. CASE Order[i] = a
    BY <1>3, <2>2, Constants DEF Assigned
  <2>3. CASE Order[i] # a
    <3>1. i # planned + 1
      BY <1>1, <2>3 DEF NextOf
    <3>2. i \in 1..planned
      BY <1>2, <3>1
    <3> QED BY <1>2, <1>3, <2>1, <2>3, <3>2 DEF Assigned
  <2> QED BY <2>2, <2>3
<1>6. /\ batch' \in [Batches -> BatchStatuses \cup {"ABSENT"}]
      /\ \A b \in Batches : batch'[b] \in {"ABSENT", "PLANNED"}
      /\ pack' \in [Packs -> PackRow]
      /\ \A p \in Packs : /\ pack'[p].status \in {"ABSENT", "PLANNED"}
                          /\ pack'[p].status # "ABSENT" => batch'[BatchOf(p)] # "ABSENT"
  BY <1>2, PlannerFinds DEF WTypes, BatchTypes, PackTypes, Quiet
<1>7. ASSUME NEW x \in Artifacts
      PROVE  /\ entry'[x].status \in {"PLANNED", "PENDING"}
             /\ entry'[x].got = entry[x].got /\ entry'[x].sha = entry[x].sha
             /\ entry'[x].pack # None => pack'[entry'[x].pack].status # "ABSENT"
             /\ entry[x].status # "ABSENT"
  BY <1>1, <1>2, <1>3, PlannerFinds
<1>8. PlannerMoves
  BY <1>3, <1>4, <1>5, <1>6, <1>7 DEF PlannerMoves
<1> QED BY <1>8, PlannerKeeps

LEMMA AssignArtifactKeeps ==
    ASSUME WInv, AssignArtifact
    PROVE  WInv'
<1>1. /\ analysis = "planner" /\ planned < Len(Order)
      /\ UNCHANGED <<epoch, batch, pack, file, part, bundle, call, dir, worker, upstream,
                     breaks, capsule, analysis, planned>>
  BY DEF AssignArtifact, Planning, files, running
<1>2. PICK q \in Packs : q = OpenPackOf(LastBatch) /\ pack[q].status # "ABSENT"
  BY DEF AssignArtifact, NeedsPack, PacksOf
<1>3. PICK o : o = entry[NextOf]
  OBVIOUS
<1>4. PICK e : e = [o EXCEPT !.pack = q]
  OBVIOUS
<1>5. o \in EntryRow /\ o.status \in {"PLANNED", "PENDING"}
  BY <1>1, <1>3, PlannerFinds
<1>6. /\ e \in EntryRow /\ e.pack = q /\ e.status = o.status /\ e.got = o.got
      /\ e.sha = o.sha
  BY <1>4, <1>5 DEF EntryRow
<1>7. entry' = [entry EXCEPT ![NextOf] = e]
  BY <1>2, <1>3, <1>4 DEF AssignArtifact, SetEntry
<1> QED BY <1>1, <1>2, <1>3, <1>5, <1>6, <1>7, NextRowKeeps

LEMMA AddDownloadEntryKeeps ==
    ASSUME WInv, AddDownloadEntry
    PROVE  WInv'
<1>1. /\ analysis = "planner" /\ planned < Len(Order) /\ planned' = planned + 1
      /\ UNCHANGED <<epoch, batch, pack, file, part, bundle, call, dir, worker, upstream,
                     breaks, capsule, analysis>>
  BY DEF AddDownloadEntry, files, running
<1>2. PICK o : o = entry[NextOf]
  OBVIOUS
<1>3. PICK e : e = [o EXCEPT !.status = "PENDING"]
  OBVIOUS
<1>4. /\ o \in EntryRow /\ o.pack # None /\ pack[o.pack].status # "ABSENT"
  BY <1>1, <1>2, PlannerFinds DEF AddDownloadEntry
<1>5. /\ e = [pack |-> o.pack, status |-> "PENDING", got |-> o.got, etag |-> o.etag,
              sha |-> o.sha, at |-> o.at]
  BY <1>3, <1>4 DEF EntryRow
<1>6. e \in EntryRow
  BY <1>4, <1>5 DEF EntryRow, EntryStatuses
<1>7. entry' = [entry EXCEPT ![NextOf] = e]
  BY <1>2, <1>3 DEF AddDownloadEntry, SetEntry
<1>8. o.pack \in Packs
  BY <1>4 DEF EntryRow
<1> QED BY <1>1, <1>2, <1>4, <1>5, <1>6, <1>7, <1>8, NextRowKeeps

LEMMA FinishPlanKeeps ==
    ASSUME WInv, FinishPlan
    PROVE  WInv'
<1>1. /\ analysis = "planner" /\ planned = Len(Order)
      /\ analysis' = "none" /\ epoch' = [epoch EXCEPT !.total = LastBatch]
      /\ UNCHANGED <<batch, pack, entry, file, part, bundle, call, dir, worker, upstream,
                     breaks, capsule, planned>>
  BY DEF FinishPlan, Planning, files, running
<1>2. WTypes /\ Quiet
  BY <1>1, PlannerFinds
<1>3. LastBatch \in 0..MaxBatches
  BY PlannedIsFinite DEF LastBatch
<1>4. /\ batch' \in [Batches -> BatchStatuses \cup {"ABSENT"}]
      /\ pack' \in [Packs -> PackRow] /\ entry' \in [Artifacts -> EntryRow]
  BY <1>1, <1>2 DEF WTypes, BatchTypes, PackTypes, EntryTypes
<1>5. \A i \in 1..planned' : Assigned(Order[i])'
  BY <1>1, PlannerFinds DEF Assigned
<1>6. /\ \A b \in Batches : batch'[b] \in {"ABSENT", "PLANNED"}
      /\ \A p \in Packs : /\ pack'[p].status \in {"ABSENT", "PLANNED"}
                          /\ pack'[p].status # "ABSENT" => batch'[BatchOf(p)] # "ABSENT"
  BY <1>1, <1>2, PlannerFinds DEF Quiet
<1>7. \A a \in Artifacts :
         /\ entry'[a].pack # None => entry'[a].status # "ABSENT"
         /\ entry'[a].pack # None => pack'[entry'[a].pack].status # "ABSENT"
  BY <1>1, PlannerFinds
<1>8. PlannerMoves
  BY <1>1, <1>3, <1>4, <1>5, <1>6, <1>7, PlannerFinds DEF PlannerMoves
<1> QED BY <1>1, <1>8, PlannerKeeps

-----------------------------------------------------------------------------
(* The invariant *)

LEMMA StepKeeps ==
    ASSUME WInv, [WorkspaceNext]_wvars
    PROVE  WInv'
<1>1. CASE \E c \in Capsules : ExtractCapsule(c) \/ StoreCapsule(c) \/ Analyze(c)
  BY <1>1, ExtractAndStoreKeep, AnalyzeKeeps
<1>2. CASE Abort
  BY <1>2, AbortKeeps
<1>3. CASE PlanStep
  BY <1>3, CommitKeeps, CommitEmptyKeeps, CreateBatchKeeps, AddPackKeeps,
            AssignArtifactKeeps, AddDownloadEntryKeeps, FinishPlanKeeps DEF PlanStep
<1>4. CASE analysis = "none" /\ DownloadNext /\ UNCHANGED <<capsule, analysis, planned>>
  BY <1>4, DownloadStepKeeps DEF Aside
<1>5. CASE Crash
  BY <1>5, CrashKeeps
<1>6. CASE UNCHANGED wvars
  <2>1. capsule \in [Capsules -> CapsuleRow]
    BY DEF WInv, WTypes, PlanTypes, CapsuleRow
  <2> QED BY <1>6, <2>1, CapsuleStepKeeps DEF wvars
<1> QED BY <1>1, <1>2, <1>3, <1>4, <1>5, <1>6 DEF WorkspaceNext

(* Every reachable state of the workspace satisfies the invariant: however *)
(* downloads, interruptions, crashes and new analyses of the client        *)
(* follow each other.                                                      *)
THEOREM WorkspaceInvariant == WorkspaceSpec => []WInv
<1>1. WorkspaceInit => WInv
  BY InitHolds
<1>2. WInv /\ [WorkspaceNext]_wvars => WInv'
  BY StepKeeps
<1> QED BY <1>1, <1>2, PTL DEF WorkspaceSpec

(* The rows and files of the client workspace have their types, and a pack *)
(* file has at most one record its header does not count.                  *)
THEOREM WorkspaceTypes == WorkspaceSpec => []WTypeOK
<1>1. ASSUME WInv PROVE WTypeOK
  <2>1. WTypes
    BY <1>1 DEF WInv
  <2>2. ASSUME NEW p \in Packs
        PROVE  /\ pack[p].status \in PackStatuses \cup {"ABSENT"}
               /\ pack[p].status = "READY" => pack[p].path \in Dirs
    BY <1>1, RowsOf DEF PackRow, PackInv, ReadyInv, PackReady
  <2>3. ASSUME NEW f \in Dirs \X Packs
        PROVE  /\ file[f].count <= Len(file[f].records)
               /\ Len(file[f].records) <= file[f].count + 1
    <3>1. PICK d \in Dirs, p \in Packs : f = <<d, p>>
      OBVIOUS
    <3>2. Holds(file[<<d, p>>], Entries(p))
      BY <1>1, <3>1 DEF WInv, PackInv, FileInv
    <3> QED BY <3>1, <3>2 DEF Holds
  <2>4. ASSUME NEW a \in Artifacts
        PROVE  /\ entry[a].pack \in Packs \cup {None}
               /\ entry[a].got \in 0..Size[a]
    BY <2>1, Constants DEF WTypes, EntryTypes, EntryRow
  <2>5. ASSUME NEW a \in Artifacts, NEW d \in Dirs PROVE Offset(<<d, a>>) <= Size[a]
    BY <2>1 DEF WTypes, EntryTypes
  <2> QED BY <2>1, <2>2, <2>3, <2>4, <2>5 DEF WTypes, PlanTypes, BatchTypes, WTypeOK, CallAt
<1> QED BY <1>1, WorkspaceInvariant, PTL

(* A record the header of a pack file counts is the planned one.           *)
LEMMA HeldRecord ==
    ASSUME WInv, NEW d \in Dirs, NEW p \in Packs, NEW a, NEW k,
           k \in 1..file[<<d, p>>].count, k \in 1..Len(Entries(p)), Entries(p)[k] = a
    PROVE  /\ k \in DOMAIN file[<<d, p>>].records
           /\ file[<<d, p>>].records[k] = [entry |-> a, content |-> Planned(a)]
<1>1. Holds(file[<<d, p>>], Entries(p)) /\ file[<<d, p>>] \in FileRow
  BY DEF WInv, PackInv, FileInv, WTypes, PackTypes
<1>2. k \in 1..Len(file[<<d, p>>].records)
  BY <1>1 DEF Holds, FileRow
<1>3. DOMAIN file[<<d, p>>].records = 1..Len(file[<<d, p>>].records)
  BY <1>1 DEF FileRow
<1> QED BY <1>1, <1>2, <1>3 DEF Holds, RecordOf

(* An entry is VERIFIED only when, in one of the directories its batch has *)
(* been downloaded to, its pack file holds its record at the place of the  *)
(* row and the header counts it (downloadPack, MarkEntryVerified),         *)
(* whatever interrupts the download.                                       *)
THEOREM VerifiedEntries == WorkspaceSpec => []VerifiedIsPacked
<1>1. ASSUME WInv PROVE VerifiedIsPacked
  <2> SUFFICES ASSUME NEW a \in Artifacts, entry[a].status = "VERIFIED"
               PROVE  \E d \in Dirs :
                         /\ entry[a].at \in 1..file[<<d, entry[a].pack>>].count
                         /\ file[<<d, entry[a].pack>>].records[entry[a].at] =
                               [entry |-> a, content |-> Planned(a)]
    BY DEF VerifiedIsPacked
  <2>1. EntryInv(a) /\ entry[a].pack \in Packs \cup {None}
    BY <1>1 DEF WInv, WTypes, EntryTypes, EntryRow
  <2>2. PICK p \in Packs : p = entry[a].pack
    BY <2>1 DEF EntryInv
  <2>3. PICK k : k = entry[a].at
    OBVIOUS
  <2>4. PICK d \in Dirs : k <= file[<<d, p>>].count
    BY <2>1, <2>2, <2>3 DEF EntryInv, CountedTo
  <2>5. k \in 1..Len(Entries(p)) /\ Entries(p)[k] = a
    BY <2>1, <2>2, <2>3 DEF EntryInv, Placed, PlacedAt
  <2>6. file[<<d, p>>].count \in Nat /\ Len(Entries(p)) \in Nat
    BY <1>1, EntriesOf DEF WInv, WTypes, PackTypes, FileRow
  <2>7. k \in 1..file[<<d, p>>].count
    BY <2>4, <2>5, <2>6
  <2> QED BY <1>1, <2>2, <2>3, <2>5, <2>7, HeldRecord
<1> QED BY <1>1, WorkspaceInvariant, PTL

(* The file a READY row names is determined by the plan.                   *)
LEMMA ReadyPack ==
    ASSUME WInv, NEW p \in Packs, PackReady(p)
    PROVE  /\ pack[p].path \in Dirs /\ Whole(<<pack[p].path, p>>)
           /\ pack[p].sha = file[<<pack[p].path, p>>].records
           /\ file[<<pack[p].path, p>>].count = Len(Entries(p))
<1>1. PICK d \in Dirs : d = pack[p].path
  BY RowsOf DEF PackInv, ReadyInv
<1>2. PICK f : f = file[<<d, p>>]
  OBVIOUS
<1>3. f \in FileRow /\ Holds(f, Entries(p)) /\ Complete(f, Entries(p)) /\ pack[p].sha = f.records
  BY <1>1, <1>2, RowsOf DEF PackInv, FileInv, ReadyInv, WTypes, PackTypes
<1>4. /\ f.records \in Seq(Record) /\ f.count = Len(f.records)
      /\ Len(f.records) = Len(Entries(p))
      /\ \A k \in 1..Len(Entries(p)) : f.records[k] = RecordOf(Entries(p)[k])
  BY <1>3 DEF FileRow, Complete, Holds
<1>5. DOMAIN f.records = DOMAIN Entries(p) /\ DOMAIN Entries(p) = 1..Len(Entries(p))
  BY <1>4, EntriesOf
<1>6. f.records = [k \in DOMAIN Entries(p) |-> f.records[k]]
  BY <1>4, <1>5
<1>7. f.records = [k \in DOMAIN Entries(p) |->
                      [entry |-> Entries(p)[k], content |-> Planned(Entries(p)[k])]]
  BY <1>4, <1>5, <1>6 DEF RecordOf
<1>8. <<d, p>>[2] = p
  OBVIOUS
<1> QED BY <1>1, <1>2, <1>3, <1>4, <1>7, <1>8 DEF Whole

(* A READY bundle (BundleFinalizer.Finalize): one directory has its packs  *)
(* as planned and is named by their rows, one has a batch.json that        *)
(* describes these files and a manifest that finds every record in them.   *)
THEOREM ReadyBundles == WorkspaceSpec => []ReadyBundleIsWhole
<1>1. ASSUME WInv, NEW b \in Batches, batch[b] = "READY"
      PROVE  \E d, e \in Dirs : PacksAreIn(d, b) /\ Describes(bundle[<<e, b>>], d, b)
  <2>1. BatchInv(b)
    BY <1>1 DEF WInv
  <2>2. PICK d \in Dirs : ReadyIn(b, d)
    BY <1>1, <2>1 DEF BatchInv
  <2>3. PICK e \in Dirs : /\ bundle[<<e, b>>].manifest = ManifestOf(b)
                          /\ bundle[<<e, b>>].descriptor = RowsDescriptor(b)
    BY <1>1, <2>1 DEF BatchInv
  <2>4. ASSUME NEW p \in PacksOf(b)
        PROVE  /\ p \in Packs /\ PackReady(p) /\ pack[p].path = d /\ Whole(<<d, p>>)
               /\ pack[p].sha = file[<<d, p>>].records
               /\ file[<<d, p>>].count = Len(Entries(p))
               /\ \A a \in InPack(p) : Placed(p, a)
    <3>1. p \in Packs /\ PackReady(p) /\ pack[p].path = d
      BY <2>2 DEF ReadyIn, PacksOf
    <3>2. \A a \in InPack(p) : Placed(p, a)
      BY <1>1, <3>1, RowsOf DEF PackInv, ReadyInv
    <3> QED BY <1>1, <3>1, <3>2, ReadyPack
  <2>5. PacksAreIn(d, b)
    BY <2>4 DEF PacksAreIn
  <2>6. PICK m : m = ManifestOf(b)
    OBVIOUS
  <2>7. PICK r : r = RowsDescriptor(b)
    OBVIOUS
  <2>8. /\ r.exists /\ r.manifest = m
        /\ \A p \in PacksOf(b) : r.packs[p] = file[<<d, p>>].records
    BY <2>4, <2>6, <2>7 DEF RowsDescriptor
  <2>9. InBatch(b) = {x \in Artifacts : entry[x].pack \in PacksOf(b)}
    BY DEF InBatch, InPack
  <2>10. DOMAIN m = InBatch(b)
    BY <2>6, <2>9 DEF ManifestOf
  <2>11. ASSUME NEW a \in InBatch(b)
         PROVE  /\ m[a].at \in DOMAIN file[<<d, m[a].pack>>].records
                /\ file[<<d, m[a].pack>>].records[m[a].at] =
                      [entry |-> a, content |-> m[a].sha]
    <3>1. PICK p \in PacksOf(b) : p = entry[a].pack /\ a \in InPack(p)
      BY <2>9 DEF InPack
    <3>2. m[a].pack = p /\ m[a].at = entry[a].at /\ m[a].sha = entry[a].sha
      BY <2>6, <2>9, <3>1 DEF ManifestOf
    <3>3. /\ entry[a].sha = Planned(a) /\ entry[a].at \in 1..Len(Entries(p))
          /\ Entries(p)[entry[a].at] = a
      BY <2>4, <3>1 DEF Placed, PlacedAt
    <3>4. PICK k : k = entry[a].at
      OBVIOUS
    <3>5. /\ p \in Packs /\ k \in 1..file[<<d, p>>].count /\ k \in 1..Len(Entries(p))
          /\ Entries(p)[k] = a
      BY <2>4, <3>1, <3>3, <3>4
    <3>6. /\ k \in DOMAIN file[<<d, p>>].records
          /\ file[<<d, p>>].records[k] = [entry |-> a, content |-> Planned(a)]
      BY <1>1, <3>5, HeldRecord
    <3> QED BY <3>2, <3>3, <3>4, <3>6
  <2>12. Describes(bundle[<<e, b>>], d, b)
    BY <2>3, <2>6, <2>7, <2>8, <2>10, <2>11 DEF Describes
  <2> QED BY <2>5, <2>12
<1>2. WInv => ReadyBundleIsWhole
  BY <1>1 DEF ReadyBundleIsWhole
<1> QED BY <1>2, WorkspaceInvariant, PTL

(* An epoch is TRANSFERRING only with all it has planned, in READY batches *)
(* whose batch.json gives their number (the end of DownloadBatch).         *)
THEOREM TransferringEpochs == WorkspaceSpec => []TransferringIsWhole
<1>1. ASSUME WInv PROVE TransferringIsWhole
  <2> SUFFICES ASSUME epoch.status = "TRANSFERRING"
               PROVE  /\ \A a \in Artifacts : entry[a].status # "ABSENT" =>
                            entry[a].pack # None /\ batch[BatchOf(entry[a].pack)] = "READY"
                      /\ \A b \in PlannedBatches : \E d \in Dirs :
                            /\ bundle[<<d, b>>].descriptor.exists
                            /\ bundle[<<d, b>>].descriptor.total = LastBatch
    BY DEF TransferringIsWhole
  <2>1. /\ PlanInv /\ epoch.total > 0 /\ epoch.total = LastBatch
        /\ \A b \in Batches : batch[b] # "ABSENT" => batch[b] = "READY"
    BY <1>1 DEF WInv, PlanInv, AllReady, EveryRowReady, PlannedBatches, LastBatch
  <2>2. ASSUME NEW a \in Artifacts, entry[a].status # "ABSENT"
        PROVE  entry[a].pack # None /\ batch[BatchOf(entry[a].pack)] = "READY"
    <3>1. entry[a].pack # None /\ EntryInv(a)
      BY <1>1, <2>1, <2>2 DEF WInv, PlanInv, Assigned
    <3>2. PICK p \in Packs : p = entry[a].pack
      BY <1>1, <3>1 DEF WInv, WTypes, EntryTypes, EntryRow
    <3>3. pack[p].status # "ABSENT"
      BY <3>1, <3>2 DEF EntryInv
    <3> QED BY <2>1, <3>1, <3>2, <3>3, Constants DEF PlanInv
  <2>3. ASSUME NEW b \in PlannedBatches
        PROVE  \E d \in Dirs : /\ bundle[<<d, b>>].descriptor.exists
                               /\ bundle[<<d, b>>].descriptor.total = LastBatch
    <3>1. b \in Batches /\ batch[b] = "READY" /\ BatchInv(b)
      BY <1>1, <2>1 DEF PlannedBatches, WInv
    <3>2. PICK d \in Dirs : bundle[<<d, b>>].descriptor = RowsDescriptor(b)
      BY <3>1 DEF BatchInv
    <3>3. RowsDescriptor(b).exists /\ RowsDescriptor(b).total = LastBatch
      BY <2>1 DEF RowsDescriptor
    <3> QED BY <3>2, <3>3
  <2> QED BY <2>2, <2>3
<1> QED BY <1>1, WorkspaceInvariant, PTL

-----------------------------------------------------------------------------
(* The downloads leave the assignment of artifacts to packs alone.         *)
LEMMA FieldSets ==
    ASSUME WTypes, NEW a, NEW v, NEW s, NEW n, NEW t,
           \/ SetEntry(a, "sha", v) \/ SetEntry(a, "at", v) \/ MarkEntryState(a, s, n, t)
           \/ entry' = entry
    PROVE  \A x \in Artifacts : entry'[x].pack = entry[x].pack
<1> SUFFICES ASSUME NEW x \in Artifacts PROVE entry'[x].pack = entry[x].pack
  OBVIOUS
<1>1. entry \in [Artifacts -> EntryRow] /\ entry[x] \in EntryRow
  BY DEF WTypes, EntryTypes
<1>2. CASE x # a
  BY <1>1, <1>2 DEF SetEntry, MarkEntryState
<1>3. CASE x = a
  <2>1. CASE SetEntry(a, "sha", v)
    BY <1>1, <1>3, <2>1 DEF SetEntry, EntryRow
  <2>2. CASE SetEntry(a, "at", v)
    BY <1>1, <1>3, <2>2 DEF SetEntry, EntryRow
  <2>3. CASE MarkEntryState(a, s, n, t)
    BY <1>1, <1>3, <2>3 DEF MarkEntryState, EntryRow
  <2> QED BY <2>1, <2>2, <2>3
<1> QED BY <1>2, <1>3

LEMMA DownloadKeepsPlan ==
    ASSUME WInv, DownloadNext
    PROVE  /\ \A a \in Artifacts : entry'[a].pack = entry[a].pack
           /\ pack' = pack \/ file' = file
<1>1. CASE \E b \in Batches : (\E d \in Dirs : StartDownload(b, d)) \/ CallStep(b) \/ Interrupt(b)
  <2>1. entry' = entry /\ pack' = pack
    BY <1>1 DEF StartDownload, CallStep, Interrupt, EnterBatch, EndCancelled, EnterVerifying,
                WriteManifest, WriteDescriptor, MarkReady, EndDownload, rows
  <2> QED BY <2>1
<1>2. CASE \E p \in Packs : PackStep(p)
  <2>1. PICK p \in Packs : PackStep(p)
    BY <1>2
  <2>2. PICK a : a = Current(p)
    OBVIOUS
  <2>3. \/ \E v : SetEntry(a, "sha", v) \/ SetEntry(a, "at", v)
        \/ \E s, n, t : MarkEntryState(a, s, n, t)
        \/ entry' = entry
    BY <2>1, <2>2 DEF PackStep, CreatePack, WriteHeader, ResumePack, PassRecord, TakeRecord,
           LocateTaken, AppendTombstone, TakeGenerated, OpenUpstream, FetchChunk, MarkProgress,
           FinishFetch, AppendFetched, CountRecord, SetLocation, RemovePart, MarkVerified,
           ClosePack, Refuse, StopWorker, rows
  <2>4. \A x \in Artifacts : entry'[x].pack = entry[x].pack
    BY <2>3, FieldSets DEF WInv
  <2>5. pack' = pack \/ file' = file
    BY <2>1 DEF PackStep, CreatePack, WriteHeader, ResumePack, PassRecord, TakeRecord,
           LocateTaken, AppendTombstone, TakeGenerated, OpenUpstream, FetchChunk, MarkProgress,
           FinishFetch, AppendFetched, CountRecord, SetLocation, RemovePart, MarkVerified,
           ClosePack, Refuse, StopWorker, rows, files
  <2> QED BY <2>4, <2>5
<1>3. CASE \E a \in Unstable : Republish(a)
  BY <1>3 DEF Republish, rows
<1> QED BY <1>1, <1>2, <1>3 DEF DownloadNext

(* The assignment of artifacts to packs is made once, before any download, *)
(* and the row of a pack changes only when its file is closed.             *)
LEMMA AssignmentStays ==
    ASSUME WInv, WorkspaceNext, NEW p \in Packs,
           pack[p].status = "READY", pack'[p].status = "READY"
    PROVE  /\ \A a \in Artifacts : entry'[a].pack = entry[a].pack
           /\ pack' = pack \/ file' = file
<1>1. ~Quiet /\ PlanInv
  BY DEF WInv, Quiet
<1>2. analysis = "none"
  BY <1>1 DEF WInv, WTypes, PlanTypes, PlanInv
<1>3. ASSUME NEW c \in Capsules, Analyze(c) PROVE FALSE
  BY <1>3, NewRows DEF Analyze
<1>4. CASE \E c \in Capsules : ExtractCapsule(c) \/ StoreCapsule(c)
  BY <1>4 DEF ExtractCapsule, StoreCapsule, dvars, rows
<1>5. CASE DownloadNext
  BY <1>5, DownloadKeepsPlan
<1>6. CASE Crash
  BY <1>6 DEF Crash, rows
<1> QED
  BY <1>2, <1>3, <1>4, <1>5, <1>6
     DEF WorkspaceNext, Abort, PlanStep, Commit, CommitEmpty, CreateBatch, AddPack,
         AssignArtifact, AddDownloadEntry, FinishPlan, Planning

(* The file the row of a READY pack names is never changed again by the    *)
(* downloads of its batch, into whichever directory: pack.Resume and the   *)
(* walk find what the row has the digest of.                               *)
THEOREM ReadyPacks == WorkspaceSpec => ReadyPackKeeps
<1> DEFINE Keeps == \A p \in Packs : pack[p].status = "READY" /\ pack'[p].status = "READY" =>
                       /\ pack'[p].sha = pack[p].sha
                       /\ file'[<<pack[p].path, p>>].records = file[<<pack[p].path, p>>].records
                       /\ file'[<<pack'[p].path, p>>].records = pack[p].sha
<1>1. ASSUME WInv, WInv', [WorkspaceNext]_wvars PROVE [Keeps]_wvars
  <2> SUFFICES ASSUME WorkspaceNext, NEW p \in Packs,
                      pack[p].status = "READY", pack'[p].status = "READY"
               PROVE  /\ pack'[p].sha = pack[p].sha
                      /\ file'[<<pack[p].path, p>>].records = file[<<pack[p].path, p>>].records
                      /\ file'[<<pack'[p].path, p>>].records = pack[p].sha
    BY <1>1
  <2>1. /\ Entries(p)' = Entries(p) /\ (pack' = pack \/ file' = file)
    BY <1>1, AssignmentStays, EntriesStay
  <2>2. PICK x : x = [k \in DOMAIN Entries(p) |->
                         [entry |-> Entries(p)[k], content |-> Planned(Entries(p)[k])]]
    OBVIOUS
  <2>3. pack[p].sha = x /\ file[<<pack[p].path, p>>].records = x
    BY <1>1, <2>2, ReadyPack DEF PackReady, Whole
  <2>4. pack'[p].sha = x /\ file'[<<pack'[p].path, p>>].records = x
    <3>1. PICK d \in Dirs : d = pack'[p].path
      BY <1>1 DEF WInv, PackInv, ReadyInv, PackReady
    <3>2. PICK f : f = file'[<<d, p>>]
      OBVIOUS
    <3>3. /\ f \in FileRow /\ Holds(f, Entries(p))' /\ Complete(f, Entries(p)')
          /\ pack'[p].sha = f.records
      <4>1. ReadyInv(p)' /\ FileInv(p)' /\ file' \in [Dirs \X Packs -> FileRow]
        BY <1>1 DEF WInv, PackInv, WTypes, PackTypes
      <4> QED BY <3>1, <3>2, <4>1 DEF ReadyInv, FileInv, PackReady, Holds, RecordOf, Planned
    <3>4. /\ f.records \in Seq(Record) /\ Len(f.records) = Len(Entries(p))
          /\ \A k \in 1..Len(Entries(p)) : f.records[k] = RecordOf(Entries(p)[k])
      BY <2>1, <3>3 DEF FileRow, Complete, Holds, RecordOf, Planned
    <3>5. DOMAIN f.records = DOMAIN Entries(p) /\ DOMAIN Entries(p) = 1..Len(Entries(p))
      BY <3>4, EntriesOf
    <3>6. f.records = [k \in DOMAIN Entries(p) |-> f.records[k]]
      BY <3>4, <3>5
    <3>7. f.records = x
      BY <2>2, <3>4, <3>5, <3>6 DEF RecordOf
    <3> QED BY <3>1, <3>2, <3>3, <3>7
  <2> QED BY <2>1, <2>3, <2>4
<1> HIDE DEF Keeps
<1>2. WorkspaceSpec => [][Keeps]_wvars
  BY <1>1, WorkspaceInvariant, PTL DEF WorkspaceSpec
<1> QED BY <1>2 DEF ReadyPackKeeps, Keeps

-----------------------------------------------------------------------------
(* The bytes of a set of artifacts. *)

(* A sum is a function of the sets with at most n members. *)
Summed(f, s) ==
    IF s = {} THEN 0
    ELSE LET x == CHOOSE y \in s : TRUE IN RecordBytes(x) + f[s \ {x}]
SumOf(f, S) == f = [s \in SUBSET S |-> Summed(f, s)]
Small(S, n) == {s \in SUBSET S : Cardinality(s) <= n}

LEMMA SmallSets ==
    ASSUME NEW S, IsFiniteSet(S)
    PROVE  /\ \A s \in SUBSET S : IsFiniteSet(s) /\ Cardinality(s) \in Nat
           /\ \A s \in SUBSET S : s # {} => \E x \in s : x = CHOOSE y \in s : TRUE
           /\ \A s \in SUBSET S : \A x \in s :
                 s \ {x} \in SUBSET S /\ Cardinality(s \ {x}) = Cardinality(s) - 1
           /\ \A s \in SUBSET S : Cardinality(s) = 0 <=> s = {}
<1>1. ASSUME NEW s \in SUBSET S PROVE IsFiniteSet(s) /\ Cardinality(s) \in Nat
  BY FS_Subset, FS_CardinalityType
<1>2. ASSUME NEW s \in SUBSET S, NEW x \in s PROVE Cardinality(s \ {x}) = Cardinality(s) - 1
  BY <1>1, FS_RemoveElement
<1>3. ASSUME NEW s \in SUBSET S PROVE Cardinality(s) = 0 <=> s = {}
  BY <1>1, FS_EmptySet
<1> QED BY <1>1, <1>2, <1>3

LEMMA SumOneMore ==
    ASSUME NEW S, IsFiniteSet(S), NEW n \in Nat, NEW f,
           f = [s \in Small(S, n) |-> Summed(f, s)]
    PROVE  \E g : g = [s \in Small(S, n + 1) |-> Summed(g, s)]
<1> DEFINE g == [s \in Small(S, n + 1) |-> Summed(f, s)]
<1>1. ASSUME NEW s \in Small(S, n) PROVE s \in Small(S, n + 1) /\ g[s] = f[s]
  <2>1. s \in SUBSET S /\ Cardinality(s) \in Nat /\ Cardinality(s) <= n
    BY SmallSets DEF Small
  <2>2. s \in Small(S, n + 1)
    BY <2>1 DEF Small
  <2>3. f[s] = Summed(f, s)
    BY <1>1
  <2> QED BY <2>2, <2>3
<1>2. ASSUME NEW s \in Small(S, n + 1) PROVE g[s] = Summed(g, s)
  <2>1. CASE s = {}
    BY <2>1, <1>2 DEF Summed
  <2>2. CASE s # {}
    <3>1. s \in SUBSET S /\ Cardinality(s) <= n + 1
      BY <1>2 DEF Small
    <3>2. PICK x \in s : x = CHOOSE y \in s : TRUE
      BY <3>1, <2>2, SmallSets
    <3>3. /\ s \ {x} \in SUBSET S
          /\ Cardinality(s \ {x}) = Cardinality(s) - 1 /\ Cardinality(s) \in Nat
      BY <3>1, SmallSets
    <3>4. s \ {x} \in Small(S, n)
      BY <3>1, <3>3 DEF Small
    <3>5. g[s \ {x}] = f[s \ {x}]
      BY <3>4, <1>1
    <3>6. g[s] = Summed(f, s)
      BY <1>2
    <3> HIDE DEF g
    <3> QED BY <3>2, <3>5, <3>6, <2>2 DEF Summed
  <2> QED BY <2>1, <2>2
<1>3. g = [s \in Small(S, n + 1) |-> g[s]]
  OBVIOUS
<1>4. g = [s \in Small(S, n + 1) |-> Summed(g, s)]
  <2> HIDE DEF g
  <2> QED BY <1>2, <1>3
<1> QED BY <1>4

LEMMA SumExists ==
    ASSUME NEW S, IsFiniteSet(S)
    PROVE  \E f : SumOf(f, S)
<1> DEFINE T == {n \in Nat : \E f : f = [s \in Small(S, n) |-> Summed(f, s)]}
<1>1. 0 \in T
  <2> DEFINE f == [s \in Small(S, 0) |-> 0]
  <2>1. \A s \in Small(S, 0) : s = {}
    BY SmallSets DEF Small
  <2>2. f = [s \in Small(S, 0) |-> Summed(f, s)]
    BY <2>1 DEF Summed
  <2> HIDE DEF f
  <2> QED BY <2>2
<1>2. \A n \in T : n + 1 \in T
  BY SumOneMore
<1>3. T = Nat
  <2> HIDE DEF T
  <2>1. T \subseteq Nat
    BY DEF T
  <2> QED BY <2>1, <1>1, <1>2, Naturally
<1>4. Cardinality(S) \in T /\ Cardinality(S) \in Nat
  BY <1>3, SmallSets
<1>5. Small(S, Cardinality(S)) = SUBSET S
  BY FS_Subset DEF Small
<1>6. PICK f : f = [s \in Small(S, Cardinality(S)) |-> Summed(f, s)]
  BY <1>4
<1> QED BY <1>5, <1>6 DEF SumOf

LEMMA RecordBytesType == \A a \in Artifacts : RecordBytes(a) \in Nat
BY DownloadAssumption, WorkspaceAssumption DEF RecordBytes

(* Whatever element a sum takes first, it is the sum of all of them.       *)
Adds(f, s) == f[s] \in Nat /\ \A x \in s : f[s] = RecordBytes(x) + f[s \ {x}]

LEMMA SumAdds ==
    ASSUME NEW S \in SUBSET Artifacts, IsFiniteSet(S), NEW f, SumOf(f, S)
    PROVE  \A s \in SUBSET S : Adds(f, s)
<1> DEFINE T == {n \in Nat : \A s \in SUBSET S : Cardinality(s) <= n => Adds(f, s)}
<1>1. Adds(f, {})
  BY DEF Summed, Adds, SumOf
<1>2. 0 \in T
  <2>1. \A s \in SUBSET S : Cardinality(s) \in Nat /\ (Cardinality(s) = 0 <=> s = {})
    BY SmallSets
  <2>2. \A s \in SUBSET S : Cardinality(s) <= 0 => s = {}
    BY <2>1
  <2> QED BY <1>1, <2>2
<1>3. ASSUME NEW n \in T PROVE n + 1 \in T
  <2> SUFFICES ASSUME NEW s \in SUBSET S, Cardinality(s) <= n + 1, s # {} PROVE Adds(f, s)
    BY <1>1
  <2>1. ASSUME NEW u \in SUBSET s, u # s PROVE Adds(f, u)
    <3>1. /\ IsFiniteSet(s) /\ Cardinality(s) \in Nat /\ u \in SUBSET S
          /\ Cardinality(u) \in Nat
      BY SmallSets
    <3>2. Cardinality(u) <= Cardinality(s) /\ Cardinality(u) # Cardinality(s)
      BY <2>1, <3>1, FS_Subset
    <3>3. n \in Nat /\ Cardinality(u) <= n
      BY <3>1, <3>2
    <3> QED BY <3>1, <3>3
  <2>2. PICK y \in s : y = CHOOSE z \in s : TRUE
    BY SmallSets
  <2>3. f[s] = RecordBytes(y) + f[s \ {y}]
    BY <2>2 DEF Summed, SumOf
  <2>4. \A x \in s : RecordBytes(x) \in Nat
    BY RecordBytesType
  <2>5. f[s] \in Nat
    BY <2>1, <2>3, <2>4 DEF Adds
  <2>6. ASSUME NEW x \in s, x # y PROVE f[s] = RecordBytes(x) + f[s \ {x}]
    <3>1. PICK t : t = s \ {x, y}
      OBVIOUS
    <3>2. (s \ {y}) \ {x} = t /\ (s \ {x}) \ {y} = t /\ x \in s \ {y} /\ y \in s \ {x}
      BY <2>6, <3>1
    <3>3. Adds(f, s \ {y}) /\ Adds(f, s \ {x}) /\ Adds(f, t)
      BY <2>1, <2>6, <3>1
    <3>4. /\ f[s \ {y}] = RecordBytes(x) + f[t]
          /\ f[s \ {x}] = RecordBytes(y) + f[t]
          /\ f[t] \in Nat
      BY <3>2, <3>3 DEF Adds
    <3> QED BY <2>3, <2>4, <2>6, <3>4
  <2> QED BY <2>3, <2>5, <2>6 DEF Adds
<1>4. T = Nat
  <2> HIDE DEF T
  <2>1. T \subseteq Nat
    BY DEF T
  <2> QED BY <2>1, <1>2, <1>3, Naturally
<1>5. ASSUME NEW s \in SUBSET S PROVE Adds(f, s)
  <2>1. Cardinality(s) \in T /\ Cardinality(s) \in Nat
    BY <1>4, SmallSets
  <2> QED BY <2>1
<1> QED BY <1>5

(* Sums over a set and over a part of it agree.                            *)
LEMMA SumAgrees ==
    ASSUME NEW S \in SUBSET Artifacts, IsFiniteSet(S), NEW f, SumOf(f, S),
           NEW U \in SUBSET S, NEW g, SumOf(g, U)
    PROVE  g[U] = f[U]
<1> DEFINE T == {n \in Nat : \A s \in SUBSET U : Cardinality(s) <= n => g[s] = f[s]}
<1>1. g[{}] = f[{}]
  BY DEF Summed, SumOf
<1>2. 0 \in T
  <2>1. \A s \in SUBSET U : Cardinality(s) \in Nat /\ (Cardinality(s) = 0 <=> s = {})
    BY SmallSets, FS_Subset
  <2>2. \A s \in SUBSET U : Cardinality(s) <= 0 => s = {}
    BY <2>1
  <2> QED BY <1>1, <2>2
<1>3. ASSUME NEW n \in T PROVE n + 1 \in T
  <2> SUFFICES ASSUME NEW s \in SUBSET U, Cardinality(s) <= n + 1, s # {} PROVE g[s] = f[s]
    <3>1. n + 1 \in Nat
      OBVIOUS
    <3> QED BY <1>1, <3>1
  <2>1. PICK y \in s : y = CHOOSE z \in s : TRUE
    BY SmallSets
  <2>2. s \ {y} \in SUBSET U /\ Cardinality(s \ {y}) <= n
    BY SmallSets
  <2>3. g[s \ {y}] = f[s \ {y}]
    BY <2>2
  <2>4. g[s] = Summed(g, s) /\ f[s] = Summed(f, s)
    BY DEF SumOf
  <2> QED BY <2>1, <2>3, <2>4 DEF Summed
<1>4. T = Nat
  <2> HIDE DEF T
  <2>1. T \subseteq Nat
    BY DEF T
  <2> QED BY <2>1, <1>2, <1>3, Naturally
<1>5. Cardinality(U) \in T /\ Cardinality(U) \in Nat
  BY <1>4, SmallSets
<1> QED BY <1>5

LEMMA ArtifactsFinite == IsFiniteSet(Artifacts)
<1>1. Order \in [1..Len(Order) -> Artifacts] /\ Len(Order) \in Nat
  BY OrderType
<1>2. IsFiniteSet(1..Len(Order))
  BY <1>1, FS_Interval
<1>3. Order \in Surjection(1..Len(Order), Artifacts)
  BY <1>1, OrderType DEF Surjection
<1> QED BY <1>2, <1>3, FS_Surjection

(* What Bytes adds up (SizeBytes of the planner's batches and packs).      *)
LEMMA BytesAdd ==
    /\ \A S \in SUBSET Artifacts : Bytes(S) \in Nat
    /\ \A S \in SUBSET Artifacts : \A a \in Artifacts \ S :
          Bytes(S \cup {a}) = Bytes(S) + RecordBytes(a)
<1>1. PICK f : SumOf(f, Artifacts)
  BY ArtifactsFinite, SumExists
<1>2. ASSUME NEW S \in SUBSET Artifacts PROVE Bytes(S) = f[S]
  <2>1. IsFiniteSet(S)
    BY ArtifactsFinite, FS_Subset
  <2>2. PICK h : SumOf(h, S)
    BY <2>1, SumExists
  <2>3. PICK g : SumOf(g, S) /\ MapThenSumSet(RecordBytes, S) = g[S]
    BY <2>2 DEF MapThenSumSet, MapThenFoldSet, Summed, SumOf
  <2>4. g[S] = f[S]
    BY <1>1, <2>3, ArtifactsFinite, SumAgrees
  <2> QED BY <2>3, <2>4 DEF Bytes
<1>3. \A S \in SUBSET Artifacts : Adds(f, S)
  BY <1>1, ArtifactsFinite, SumAdds
<1>4. ASSUME NEW S \in SUBSET Artifacts, NEW a \in Artifacts \ S
      PROVE  Bytes(S \cup {a}) = Bytes(S) + RecordBytes(a)
  <2>1. S \cup {a} \in SUBSET Artifacts /\ (S \cup {a}) \ {a} = S
    OBVIOUS
  <2>2. f[S \cup {a}] = RecordBytes(a) + f[S]
    BY <1>3, <2>1 DEF Adds
  <2>3. f[S] \in Nat /\ RecordBytes(a) \in Nat
    BY <1>3, RecordBytesType DEF Adds
  <2>4. Bytes(S \cup {a}) = f[S \cup {a}] /\ Bytes(S) = f[S]
    BY <1>2, <2>1
  <2> QED BY <2>2, <2>3, <2>4
<1>5. \A S \in SUBSET Artifacts : Bytes(S) \in Nat
  BY <1>2, <1>3 DEF Adds
<1> QED BY <1>4, <1>5

-----------------------------------------------------------------------------
(* The plan as a function from the artifacts to their packs: the first n   *)
(* of the order have one, batches and packs keep their sizes, the packs    *)
(* are filled in order, and a batch is opened when it has to be.           *)
At == [a \in Artifacts |-> entry[a].pack]
Given(at) == {a \in Artifacts : at[a] # None}
OfBatch(at, b) == {a \in Given(at) : BatchOf(at[a]) = b}
OfPack(at, p) == {a \in Artifacts : at[a] = p}

FirstGiven(at, n) ==
    n <= Len(Order) /\ \A i \in 1..Len(Order) : at[Order[i]] # None <=> i <= n
BatchesFit(at) ==
    \A b \in Batches : Cardinality(OfBatch(at, b)) > 1 => Bytes(OfBatch(at, b)) <= MaxBatchBytes
PacksFit(at) ==
    \A p \in Packs : Cardinality(OfPack(at, p)) > 1 => Bytes(OfPack(at, p)) <= TargetPackBytes
Ordered(at, n) ==
    \A i, j \in 1..n : i < j => ~Before(at[Order[j]], at[Order[i]])
OpenedLate(at, n) ==
    \A i \in 2..n : BatchOf(at[Order[i]]) # BatchOf(at[Order[i - 1]]) =>
        Bytes(OfBatch(at, BatchOf(at[Order[i - 1]]))) + RecordBytes(Order[i]) > MaxBatchBytes
Fits(at) ==
    /\ FirstGiven(at, Cardinality(Given(at)))
    /\ BatchesFit(at) /\ PacksFit(at)
    /\ Ordered(at, Cardinality(Given(at))) /\ OpenedLate(at, Cardinality(Given(at)))

(* While the planner is at it, the first artifacts of the order have their *)
(* pack, one of them maybe not yet its download_entries row, and the pack  *)
(* that is open is the one of the last artifact, or a later one that had   *)
(* to be opened.                                                           *)
LastPlace == OpenPackOf(LastBatch)
Ahead(at, a, p, l) ==
    \/ l[1] > p[1] /\ Bytes(OfBatch(at, p[1])) + RecordBytes(a) > MaxBatchBytes
    \/ l[1] = p[1] /\ l[2] >= p[2]
Shape ==
    /\ Cardinality(Given(At)) \in {planned, planned + 1}
    /\ Cardinality(Given(At)) = planned + 1 => At[NextOf] = LastPlace
    /\ Cardinality(Given(At)) = planned /\ planned > 0 =>
          Ahead(At, NextOf, At[Order[planned]], LastPlace)
Tight ==
    /\ Fits(At)
    /\ analysis = "planner" /\ planned < Len(Order) => Shape

LEMMA GivenFinite ==
    ASSUME NEW at
    PROVE  /\ IsFiniteSet(Given(at)) /\ Cardinality(Given(at)) \in Nat
           /\ Given(at) \subseteq Artifacts
<1>1. Given(at) \in SUBSET Artifacts
  BY DEF Given
<1> QED BY <1>1, ArtifactsFinite, FS_Subset, FS_CardinalityType

(* Where the next artifact a may go when the last one is in pack p.          *)
NextPlace(at, a, p, q) ==
    \/ /\ q[1] > p[1]
       /\ Bytes(OfBatch(at, p[1])) + RecordBytes(a) > MaxBatchBytes
    \/ /\ q[1] = p[1]
       /\ Bytes(OfBatch(at, q[1])) + RecordBytes(a) <= MaxBatchBytes
       /\ \/ q[2] > p[2]
          \/ q[2] = p[2] /\ Bytes(OfPack(at, q)) + RecordBytes(a) <= TargetPackBytes

LEMMA PackPair ==
    \A p \in Packs : /\ p[1] \in Batches /\ p[1] \in Nat /\ p[2] \in Nat /\ p[2] # 0 /\ p[1] # 0
                     /\ p = <<p[1], p[2]>> /\ p # None
BY DownloadAssumption DEF Packs, Batches

(* The sets that grow by one artifact, and the only new member of one.     *)
LEMMA GrowsWithin ==
    ASSUME NEW S \in SUBSET Artifacts, NEW a \in Artifacts \ S, NEW limit \in Nat,
           S = {} \/ Bytes(S) + RecordBytes(a) <= limit
    PROVE  Cardinality(S \cup {a}) > 1 => Bytes(S \cup {a}) <= limit
<1>1. CASE S = {}
  <2>1. S \cup {a} = {a} /\ Cardinality({a}) = 1
    BY <1>1, FS_Singleton
  <2>2. Cardinality(S \cup {a}) = 1
    BY <2>1
  <2> QED BY <2>2
<1>2. CASE Bytes(S) + RecordBytes(a) <= limit
  BY <1>2, BytesAdd
<1> QED BY <1>1, <1>2

LEMMA PlacedNext ==
    ASSUME NEW at \in [Artifacts -> Packs \cup {None}], Fits(at),
           NEW n \in Nat, n = Cardinality(Given(at)), n < Len(Order),
           NEW a, a = Order[n + 1], NEW q \in Packs,
           NEW to \in [Artifacts -> Packs \cup {None}], to[a] = q,
           \A x \in Artifacts : x # a => to[x] = at[x],
           n > 0 => NextPlace(at, a, at[Order[n]], q)
    PROVE  Fits(to) /\ Cardinality(Given(to)) = n + 1
<1>1. /\ Len(Order) \in Nat /\ n + 1 \in 1..Len(Order) /\ a \in Artifacts
      /\ \A i \in 1..Len(Order) : Order[i] \in Artifacts /\ (Order[i] = a => i = n + 1)
  <2>1. /\ DOMAIN Order = 1..Len(Order) /\ Len(Order) \in Nat
        /\ \A i \in 1..Len(Order) : Order[i] \in Artifacts
    BY OrderType
  <2>2. n + 1 \in 1..Len(Order)
    BY <2>1
  <2>3. \A i, j \in DOMAIN Order : Order[i] = Order[j] => i = j
    BY DownloadAssumption
  <2> QED BY <2>1, <2>2, <2>3
<1>2. /\ FirstGiven(at, n) /\ BatchesFit(at) /\ PacksFit(at)
      /\ Ordered(at, n) /\ OpenedLate(at, n)
  BY DEF Fits
<1>3. at[a] = None
  BY <1>1, <1>2 DEF FirstGiven
<1>4. /\ to \in [Artifacts -> Packs \cup {None}] /\ to[a] = q /\ q # None
      /\ \A x \in Artifacts : x # a => to[x] = at[x]
  BY <1>1, PackPair
<1>5. Given(to) = Given(at) \cup {a} /\ a \notin Given(at)
  BY <1>1, <1>3, <1>4 DEF Given
<1>6. Cardinality(Given(to)) = n + 1
  <2>1. PICK G : G = Given(at)
    OBVIOUS
  <2>2. IsFiniteSet(G) /\ a \notin G /\ Cardinality(G) = n /\ Given(to) = G \cup {a}
    BY <1>5, <2>1, GivenFinite
  <2>3. Cardinality(G \cup {a}) = IF a \in G THEN Cardinality(G) ELSE Cardinality(G) + 1
    BY <2>2, FS_AddElement, Zenon
  <2> QED BY <2>2, <2>3
<1>7. ASSUME NEW i \in 1..n
      PROVE  /\ i \in 1..Len(Order) /\ Order[i] \in Given(at) /\ to[Order[i]] = at[Order[i]]
             /\ at[Order[i]] \in Packs
  <2>1. i \in 1..Len(Order) /\ i # n + 1
    BY <1>1
  <2>2. Order[i] \in Artifacts /\ Order[i] # a /\ at[Order[i]] # None
    BY <1>1, <1>2, <2>1 DEF FirstGiven
  <2> QED BY <1>4, <2>1, <2>2 DEF Given
<1>8. ASSUME NEW x \in Given(at) PROVE \E i \in 1..n : x = Order[i]
  <2>1. x \in Artifacts /\ at[x] # None
    BY DEF Given
  <2>2. PICK i \in 1..Len(Order) : Order[i] = x
    BY <2>1, OrderType
  <2> QED BY <1>2, <2>1, <2>2 DEF FirstGiven
<1>9. ASSUME NEW i \in 1..n
      PROVE  n \in 1..n /\ ~Before(at[Order[n]], at[Order[i]])
  <2>1. n \in 1..n /\ at[Order[n]] \in Packs
    BY <1>7
  <2>2. CASE i = n
    BY <2>1, <2>2, PackPair DEF Before
  <2>3. CASE i < n
    BY <1>2, <2>1, <2>3 DEF Ordered
  <2> QED BY <2>1, <2>2, <2>3
<1>10. ASSUME NEW i \in 1..n PROVE ~Before(q, at[Order[i]]) /\ at[Order[i]][1] <= q[1]
  <2>1. PICK p : p = at[Order[n]]
    OBVIOUS
  <2>2. PICK r : r = at[Order[i]]
    OBVIOUS
  <2>3. ~Before(p, r) /\ p \in Packs /\ r \in Packs
    BY <1>7, <1>9, <2>1, <2>2
  <2>4. q[1] > p[1] \/ (q[1] = p[1] /\ q[2] > p[2]) \/ (q[1] = p[1] /\ q[2] = p[2])
    BY <2>1 DEF NextPlace
  <2>5. /\ p[1] \in Nat /\ p[2] \in Nat /\ r[1] \in Nat /\ r[2] \in Nat
        /\ q[1] \in Nat /\ q[2] \in Nat
    BY <2>3, PackPair
  <2>6. r[1] < p[1] \/ (r[1] = p[1] /\ r[2] <= p[2])
    BY <2>3, <2>5 DEF Before
  <2>7. ~Before(q, r) /\ r[1] <= q[1]
    <3>1. PICK q1, q2 : q1 = q[1] /\ q2 = q[2]
      OBVIOUS
    <3>2. PICK p1, p2 : p1 = p[1] /\ p2 = p[2]
      OBVIOUS
    <3>3. PICK r1, r2 : r1 = r[1] /\ r2 = r[2]
      OBVIOUS
    <3>4. ~(q1 < r1 \/ (q1 = r1 /\ q2 < r2)) /\ r1 <= q1
      <4>1. /\ q1 > p1 \/ (q1 = p1 /\ q2 > p2) \/ (q1 = p1 /\ q2 = p2)
            /\ r1 < p1 \/ (r1 = p1 /\ r2 <= p2)
        BY <2>4, <2>6, <3>1, <3>2, <3>3
      <4>2. q1 \in Nat /\ q2 \in Nat /\ p1 \in Nat /\ p2 \in Nat /\ r1 \in Nat /\ r2 \in Nat
        BY <2>5, <3>1, <3>2, <3>3
      <4> QED BY <4>1, <4>2
    <3> QED BY <3>1, <3>3, <3>4 DEF Before
  <2> QED BY <2>2, <2>7
<1>11. ASSUME NEW b
       PROVE  OfBatch(to, b) = IF b = q[1] THEN OfBatch(at, b) \cup {a} ELSE OfBatch(at, b)
  BY <1>1, <1>4, <1>5 DEF OfBatch, BatchOf, Given
<1>12. ASSUME NEW p \in Packs
       PROVE  OfPack(to, p) = IF p = q THEN OfPack(at, p) \cup {a} ELSE OfPack(at, p)
  BY <1>1, <1>3, <1>4, PackPair DEF OfPack
<1>13. FirstGiven(to, n + 1)
  <2> SUFFICES ASSUME NEW i \in 1..Len(Order) PROVE to[Order[i]] # None <=> i <= n + 1
    BY <1>1 DEF FirstGiven
  <2>1. CASE i = n + 1
    BY <1>4, <2>1
  <2>2. CASE i # n + 1
    BY <1>1, <1>2, <1>4, <2>2 DEF FirstGiven
  <2> QED BY <2>1, <2>2
<1>14. ASSUME NEW x \in Given(at)
       PROVE  /\ n \in 1..n /\ at[x] \in Packs /\ at[Order[n]] \in Packs
              /\ \/ at[x][1] < at[Order[n]][1]
                 \/ at[x][1] = at[Order[n]][1] /\ at[x][2] <= at[Order[n]][2]
  <2>1. PICK i \in 1..n : x = Order[i]
    BY <1>8
  <2>2. n \in 1..n /\ ~Before(at[Order[n]], at[x]) /\ at[x] \in Packs
    BY <1>7, <1>9, <2>1
  <2>3. at[Order[n]] \in Packs
    BY <1>7, <2>2
  <2> QED BY <2>2, <2>3, PackPair DEF Before
<1>15. OfBatch(at, q[1]) = {} \/ Bytes(OfBatch(at, q[1])) + RecordBytes(a) <= MaxBatchBytes
  <2>1. SUFFICES ASSUME NEW x \in OfBatch(at, q[1])
                 PROVE  Bytes(OfBatch(at, q[1])) + RecordBytes(a) <= MaxBatchBytes
    OBVIOUS
  <2>2. x \in Given(at) /\ at[x][1] = q[1]
    BY <2>1 DEF OfBatch, BatchOf
  <2>3. n \in 1..n /\ at[x][1] \in Nat /\ at[Order[n]][1] \in Nat /\ at[x][1] <= at[Order[n]][1]
    BY <1>14, <2>2, PackPair
  <2>4. NextPlace(at, a, at[Order[n]], q)
    BY <2>3
  <2> QED BY <2>2, <2>3, <2>4 DEF NextPlace
<1>16. OfPack(at, q) = {} \/ Bytes(OfPack(at, q)) + RecordBytes(a) <= TargetPackBytes
  <2>1. SUFFICES ASSUME NEW x \in OfPack(at, q)
                 PROVE  Bytes(OfPack(at, q)) + RecordBytes(a) <= TargetPackBytes
    OBVIOUS
  <2>2. x \in Given(at) /\ at[x] = q
    BY <2>1, PackPair DEF OfPack, Given
  <2>3. PICK p : p = at[Order[n]]
    OBVIOUS
  <2>4. /\ n \in 1..n /\ p[1] \in Nat /\ p[2] \in Nat /\ q[1] \in Nat /\ q[2] \in Nat
        /\ q[1] < p[1] \/ (q[1] = p[1] /\ q[2] <= p[2])
    BY <1>14, <2>2, <2>3, PackPair
  <2>5. NextPlace(at, a, p, q)
    BY <2>3, <2>4
  <2> QED BY <2>4, <2>5 DEF NextPlace
<1>17. BatchesFit(to)
  <2>1. OfBatch(at, q[1]) \in SUBSET Artifacts /\ a \in Artifacts \ OfBatch(at, q[1])
        /\ MaxBatchBytes \in Nat
    BY <1>1, <1>5, WorkspaceAssumption DEF OfBatch, Given
  <2>2. Cardinality(OfBatch(at, q[1]) \cup {a}) > 1 =>
            Bytes(OfBatch(at, q[1]) \cup {a}) <= MaxBatchBytes
    BY <1>15, <2>1, GrowsWithin
  <2> QED BY <1>2, <1>11, <2>2 DEF BatchesFit
<1>18. PacksFit(to)
  <2>1. OfPack(at, q) \in SUBSET Artifacts /\ a \in Artifacts \ OfPack(at, q)
        /\ TargetPackBytes \in Nat
    BY <1>1, <1>3, <1>4, WorkspaceAssumption DEF OfPack
  <2>2. Cardinality(OfPack(at, q) \cup {a}) > 1 =>
            Bytes(OfPack(at, q) \cup {a}) <= TargetPackBytes
    BY <1>16, <2>1, GrowsWithin
  <2> QED BY <1>2, <1>12, <2>2 DEF PacksFit
<1>19. Ordered(to, n + 1)
  <2> SUFFICES ASSUME NEW i \in 1..(n + 1), NEW j \in 1..(n + 1), i < j
               PROVE  ~Before(to[Order[j]], to[Order[i]])
    BY DEF Ordered
  <2>1. i \in 1..n
    OBVIOUS
  <2>2. CASE j = n + 1
    BY <1>4, <1>7, <1>10, <2>1, <2>2
  <2>3. CASE j # n + 1
    <3>1. j \in 1..n
      BY <2>3
    <3> QED BY <1>2, <1>7, <2>1, <3>1 DEF Ordered
  <2> QED BY <2>2, <2>3
<1>20. OpenedLate(to, n + 1)
  <2> SUFFICES ASSUME NEW i \in 2..(n + 1), to[Order[i]][1] # to[Order[i - 1]][1]
               PROVE  Bytes(OfBatch(to, to[Order[i - 1]][1])) + RecordBytes(Order[i])
                          > MaxBatchBytes
    BY DEF OpenedLate, BatchOf
  <2>1. i - 1 \in 1..n
    OBVIOUS
  <2>2. PICK r : r = at[Order[i - 1]]
    OBVIOUS
  <2>3. r \in Packs /\ r = to[Order[i - 1]] /\ r[1] \in Nat
    BY <1>7, <2>1, <2>2, PackPair
  <2>4. CASE i = n + 1
    <3>1. n > 0 /\ i - 1 = n /\ Order[i] = a /\ to[Order[i]] = q
      BY <1>4, <2>4
    <3>2. q[1] # r[1]
      BY <2>3, <3>1
    <3>3. NextPlace(at, a, r, q)
      BY <2>2, <3>1
    <3>4. OfBatch(to, r[1]) = OfBatch(at, r[1])
      BY <1>11, <3>2
    <3> QED BY <2>3, <3>1, <3>2, <3>3, <3>4 DEF NextPlace
  <2>5. CASE i # n + 1
    <3>1. i \in 2..n /\ i \in 1..n
      BY <2>5
    <3>2. PICK s : s = at[Order[i]]
      OBVIOUS
    <3>3. s \in Packs /\ s = to[Order[i]] /\ s[1] \in Nat /\ s[1] # r[1] /\ s[1] <= q[1]
      BY <1>7, <1>10, <2>3, <3>1, <3>2, PackPair
    <3>4. ~Before(s, r) /\ i - 1 < i
      BY <1>2, <2>1, <2>2, <3>1, <3>2 DEF Ordered
    <3>5. r[1] # q[1]
      BY <2>3, <3>3, <3>4, PackPair DEF Before
    <3>6. OfBatch(to, r[1]) = OfBatch(at, r[1])
      BY <1>11, <3>5
    <3>7. Bytes(OfBatch(at, r[1])) + RecordBytes(Order[i]) > MaxBatchBytes
      BY <1>2, <2>2, <3>1, <3>2, <3>3 DEF OpenedLate, BatchOf
    <3> QED BY <2>3, <3>6, <3>7
  <2> QED BY <2>4, <2>5
<1> QED BY <1>6, <1>13, <1>17, <1>18, <1>19, <1>20 DEF Fits
LEMMA PacksFinite == IsFiniteSet(Packs)
<1>1. IsFiniteSet(1..MaxBatches) /\ IsFiniteSet(1..MaxPacks)
  <2>1. MaxBatches \in Int /\ MaxPacks \in Int
    BY Constants
  <2>2. IsFiniteSet(1..MaxBatches)
    BY <2>1, FS_Interval
  <2>3. IsFiniteSet(1..MaxPacks)
    BY <2>1, FS_Interval
  <2> QED BY <2>2, <2>3
<1> QED BY <1>1, FS_Product DEF Packs, Batches

LEMMA PacksOfFinite ==
    ASSUME NEW b
    PROVE  IsFiniteSet(PacksOf(b)) /\ Cardinality(PacksOf(b)) \in Nat /\ PacksOf(b) \subseteq Packs
<1>1. PacksOf(b) \in SUBSET Packs
  BY DEF PacksOf
<1> QED BY <1>1, PacksFinite, FS_Subset, FS_CardinalityType

LEMMA OneMore ==
    ASSUME NEW S, IsFiniteSet(S), NEW x, x \notin S
    PROVE  Cardinality(S \cup {x}) = Cardinality(S) + 1
BY FS_AddElement, Zenon

LEMMA InBatchIs ==
    ASSUME NEW b
    PROVE  InBatch(b) = {x \in Artifacts : entry[x].pack \in PacksOf(b)}
BY DEF InBatch, InPack

LEMMA ByEntry ==
    ASSUME WInv, NEW b
    PROVE  InBatch(b) = OfBatch(At, b)
<1>1. ASSUME NEW a \in Artifacts
      PROVE  entry[a].pack \in PacksOf(b) <=> entry[a].pack # None /\ BatchOf(entry[a].pack) = b
  <2>1. EntryInv(a) /\ entry[a].pack \in Packs \cup {None} /\ None \notin Packs
    BY Constants DEF WInv, WTypes, EntryTypes, EntryRow
  <2> QED BY <2>1 DEF EntryInv, PacksOf
<1> QED BY <1>1, InBatchIs DEF OfBatch, Given, At

(* Something that is not empty has bytes, so the planner checks its size.  *)
LEMMA FitsWhenFound ==
    ASSUME NEW S \in SUBSET Artifacts, NEW x \in S, NEW a \in Artifacts, NEW limit \in Nat,
           ~Overflows(Bytes(S), a, limit)
    PROVE  Bytes(S) + RecordBytes(a) <= limit
<1>1. PICK T : T = S \ {x}
  OBVIOUS
<1>2. T \in SUBSET Artifacts /\ x \in Artifacts \ T /\ S = T \cup {x}
  BY <1>1
<1>3. Bytes(S) = Bytes(T) + RecordBytes(x) /\ Bytes(T) \in Nat
  BY <1>2, BytesAdd
<1>4. RecordBytes(x) \in Nat \ {0} /\ RecordBytes(a) \in Nat
  BY DownloadAssumption, WorkspaceAssumption DEF RecordBytes
<1> QED BY <1>3, <1>4 DEF Overflows

(* What the planner knows of the plan it is at.                            *)
LEMMA Known ==
    ASSUME WInv, Tight, analysis = "planner", planned < Len(Order)
    PROVE  /\ Shape /\ Fits(At) /\ At \in [Artifacts -> Packs \cup {None}]
           /\ planned \in Nat /\ Len(Order) \in Nat /\ planned + 1 \in 1..Len(Order)
           /\ NextOf \in Artifacts
           /\ Cardinality(Given(At)) \in Nat
           /\ At[NextOf] # None <=> Cardinality(Given(At)) = planned + 1
           /\ planned > 0 => At[Order[planned]] \in Packs
           /\ \A a \in Artifacts : At[a] = entry[a].pack
           /\ LastBatch \in Nat /\ LastPack(LastBatch) \in Nat
<1>1. /\ Shape /\ Fits(At) /\ At \in [Artifacts -> Packs \cup {None}]
      /\ \A a \in Artifacts : At[a] = entry[a].pack
  BY DEF Tight, WInv, WTypes, EntryTypes, EntryRow, At
<1>2. planned \in Nat /\ Len(Order) \in Nat /\ planned + 1 \in 1..Len(Order)
      /\ \A i \in 1..Len(Order) : Order[i] \in Artifacts
  BY OrderType DEF WInv, WTypes, PlanTypes
<1>3. NextOf \in Artifacts
  BY <1>2 DEF NextOf
<1>4. PICK n \in Nat : n = Cardinality(Given(At))
  BY GivenFinite
<1>5. FirstGiven(At, n) /\ n \in {planned, planned + 1}
  BY <1>1, <1>4 DEF Fits, Shape
<1>6. At[NextOf] # None <=> planned + 1 <= n
  BY <1>2, <1>5 DEF FirstGiven, NextOf
<1>7. At[NextOf] # None <=> n = planned + 1
  BY <1>2, <1>5, <1>6
<1>8. ASSUME planned > 0 PROVE At[Order[planned]] \in Packs
  <2>1. planned \in 1..Len(Order) /\ planned <= n
    BY <1>2, <1>5, <1>8
  <2>2. At[Order[planned]] # None /\ Order[planned] \in Artifacts
    BY <1>2, <1>5, <2>1 DEF FirstGiven
  <2> QED BY <1>1, <2>2
<1>9. LastBatch \in Nat /\ LastPack(LastBatch) \in Nat
  BY PlannedIsFinite, PacksOfFinite, Constants DEF LastBatch, LastPack
<1> QED BY <1>1, <1>2, <1>3, <1>4, <1>7, <1>8, <1>9

(* More rows of batches and packs leave the last artifact where it is.     *)
LEMMA FitsStay ==
    ASSUME Fits(At), At' = At
    PROVE  Fits(At)' /\ Given(At)' = Given(At)
<1>1. PICK at : at = At
  OBVIOUS
<1>2. PICK to : to = At'
  OBVIOUS
<1>3. Fits(to) /\ (Fits(At)' <=> Fits(to))
  BY <1>1, <1>2 DEF Fits, Given, FirstGiven, BatchesFit, PacksFit, Ordered, OpenedLate,
                    OfBatch, OfPack
<1> QED BY <1>3 DEF Given

LEMMA PlanGrows ==
    ASSUME WInv, Tight, Planning, At' = At, UNCHANGED <<analysis, planned>>,
           \/ LastPlace' = LastPlace
           \/ planned = Len(Order)
           \/ planned = 0
           \/ Ahead(At, NextOf, At[Order[planned]], LastPlace) =>
                  Ahead(At, NextOf, At[Order[planned]], LastPlace')
    PROVE  Tight'
<1>1. Fits(At)' /\ Given(At)' = Given(At)
  BY FitsStay DEF Tight
<1>2. CASE planned = Len(Order)
  BY <1>1, <1>2, OrderType DEF Tight
<1>3. CASE planned # Len(Order)
  <2>1. planned < Len(Order) /\ analysis = "planner"
    <3>1. planned \in 0..Len(Order) /\ Len(Order) \in Nat
      BY OrderType DEF WInv, WTypes, PlanTypes
    <3>2. analysis = "planner"
      BY DEF Planning
    <3> QED BY <1>3, <3>1, <3>2
  <2>2. NextOf' = NextOf /\ NextOf \in Artifacts /\ planned \in Nat
    BY <2>1, Known DEF NextOf
  <2>3. Cardinality(Given(At)) = planned
    BY <2>1, Known DEF Planning, Shape
  <2>4. Cardinality(Given(At))' = planned'
    BY <1>1, <2>3
  <2>5. planned > 0 => Ahead(At, NextOf, At[Order[planned]], LastPlace)
    BY <2>1, <2>3, Known DEF Shape
  <2>6. planned > 0 => Ahead(At, NextOf, At[Order[planned]], LastPlace')
    BY <1>3, <2>5
  <2>7. planned > 0 => Ahead(At, NextOf, At[Order[planned]], LastPlace)'
    BY <2>2, <2>6 DEF Ahead, OfBatch, Given
  <2>8. Shape'
    BY <2>2, <2>4, <2>7 DEF Shape
  <2> QED BY <1>1, <2>8 DEF Tight
<1> QED BY <1>2, <1>3

LEMMA CreateBatchKeepsTight ==
    ASSUME WInv, Tight, CreateBatch
    PROVE  Tight'
<1>1. /\ Planning /\ NeedsBatch /\ At' = At
      /\ UNCHANGED <<pack, entry, analysis, planned>>
      /\ batch' = [batch EXCEPT ![LastBatch + 1] = "PLANNED"]
  BY DEF CreateBatch, At
<1>2. PICK n : n = LastBatch
  OBVIOUS
<1>3. PICK m : m = LastPack(n)
  OBVIOUS
<1>4. /\ n \in Nat /\ m \in Nat /\ n = Cardinality(PlannedBatches)
      /\ IsFiniteSet(PlannedBatches)
  BY <1>2, <1>3, PlannedIsFinite, PacksOfFinite, Constants DEF LastBatch, LastPack
<1>5. n + 1 \in Batches /\ batch \in [Batches -> BatchStatuses \cup {"ABSENT"}]
  BY <1>2 DEF CreateBatch, WInv, WTypes, BatchTypes
<1>6. PlannedBatches' = PlannedBatches \cup {n + 1}
  BY <1>1, <1>2, <1>5 DEF PlannedBatches
<1>7. \A b : PacksOf(b)' = PacksOf(b)
  BY <1>1 DEF PacksOf
<1>8. LastBatch' \in {n, n + 1} /\ LastPack(LastBatch') = LastPack(LastBatch)'
  <2>1. CASE n + 1 \in PlannedBatches
    <3>1. PlannedBatches' = PlannedBatches
      BY <1>6, <2>1
    <3> QED BY <1>4, <1>7, <3>1 DEF LastBatch, LastPack
  <2>2. CASE n + 1 \notin PlannedBatches
    <3>1. Cardinality(PlannedBatches \cup {n + 1}) = n + 1
      BY <1>4, <2>2, OneMore
    <3>2. LastBatch' = n + 1
      BY <1>6, <3>1 DEF LastBatch
    <3> QED BY <1>7, <3>2 DEF LastPack
  <2> QED BY <2>1, <2>2
<1>9. CASE LastBatch' = n
  <2>1. LastPack(LastBatch)' = LastPack(LastBatch)
    BY <1>2, <1>8, <1>9
  <2>2. LastPlace' = LastPlace
    BY <1>2, <1>9, <2>1 DEF LastPlace, OpenPackOf
  <2> QED BY <1>1, <2>2, PlanGrows
<1>10. CASE LastBatch' = n + 1 /\ planned > 0 /\ planned < Len(Order)
  <2>1. PICK p : p = At[Order[planned]]
    OBVIOUS
  <2>2. PICK a : a = NextOf
    OBVIOUS
  <2>3. /\ p \in Packs /\ a \in Artifacts /\ p[1] \in Nat /\ planned \in 1..Len(Order)
        /\ Order[planned] \in Artifacts /\ analysis = "planner"
    BY <1>1, <1>10, <2>1, <2>2, Known, PackPair, OrderType DEF Planning
  <2>4. entry[Order[planned]].pack = p /\ InBatch(n) = OfBatch(At, n)
    BY <1>1, <1>10, <2>1, <2>3, Known, ByEntry
  <2>5. pack[p].status # "ABSENT" /\ p[1] \in PlannedBatches
    <3>1. EntryInv(Order[planned]) /\ p # None /\ PlanInv /\ p[1] \in Batches
      BY <2>3, PackPair DEF WInv
    <3> QED BY <2>3, <2>4, <3>1 DEF EntryInv, PlanInv, PlannedBatches, BatchOf
  <2>6. /\ Bytes(OfBatch(At, n)) \in Nat /\ RecordBytes(a) \in Nat /\ MaxBatchBytes \in Nat
    <3>1. OfBatch(At, n) \in SUBSET Artifacts
      BY DEF OfBatch, Given
    <3> QED BY <2>3, <3>1, BytesAdd, RecordBytesType, WorkspaceAssumption
  <2>7. PICK l : l = LastPlace'
    OBVIOUS
  <2>8. l[1] = n + 1
    BY <1>10, <2>7 DEF LastPlace, OpenPackOf
  <2>9. ASSUME Ahead(At, a, p, <<n, m>>) PROVE Ahead(At, a, p, l)
    <3>1. CASE n > p[1]
      BY <1>4, <2>3, <2>8, <2>9, <3>1 DEF Ahead
    <3>2. CASE n = p[1]
      <4>1. Overflows(Bytes(OfBatch(At, n)), a, MaxBatchBytes)
        BY <1>1, <1>2, <2>2, <2>4, <2>5, <3>2 DEF NeedsBatch
      <4> QED BY <1>4, <2>6, <2>8, <3>2, <4>1 DEF Overflows, Ahead
    <3> QED BY <2>9, <3>1, <3>2 DEF Ahead
  <2>10. LastPlace = <<n, m>>
    BY <1>2, <1>3 DEF LastPlace, OpenPackOf
  <2>11. Ahead(At, NextOf, At[Order[planned]], LastPlace)
            => Ahead(At, NextOf, At[Order[planned]], LastPlace')
    BY <2>1, <2>2, <2>7, <2>9, <2>10
  <2> QED BY <1>1, <1>10, <2>11, PlanGrows
<1>11. CASE planned = 0 \/ planned = Len(Order)
  BY <1>1, <1>11, PlanGrows
<1>12. planned \in Nat /\ planned <= Len(Order) /\ Len(Order) \in Nat
  BY OrderType DEF WInv, WTypes, PlanTypes
<1> QED BY <1>8, <1>9, <1>10, <1>11, <1>12

LEMMA AddPackKeepsTight ==
    ASSUME WInv, Tight, AddPack
    PROVE  Tight'
<1>1. /\ Planning /\ At' = At /\ UNCHANGED <<batch, entry, analysis, planned>>
  BY DEF AddPack, At
<1>2. PICK n : n = LastBatch
  OBVIOUS
<1>3. PICK q \in Packs : q = <<n, LastPack(n) + 1>> /\ pack' = [pack EXCEPT ![q].status = "PLANNED"]
  BY <1>2 DEF AddPack
<1>4. LastBatch' = n
  BY <1>1, <1>2 DEF LastBatch, PlannedBatches
<1>5. PacksOf(n) \subseteq PacksOf(n)'
  BY <1>3 DEF PacksOf, WInv, WTypes, PackTypes, PackRow
<1>6. LastPack(n) \in Nat /\ LastPack(n)' \in Nat /\ LastPack(n) <= LastPack(n)'
  <2>1. IsFiniteSet(PacksOf(n)) /\ LastPack(n) \in Nat
    BY PacksOfFinite DEF LastPack
  <2>2. PICK S : S = PacksOf(n)'
    OBVIOUS
  <2>3. S \in SUBSET Packs
    BY <2>2 DEF PacksOf
  <2>4. IsFiniteSet(S) /\ Cardinality(S) \in Nat
    BY <2>3, PacksFinite, FS_Subset, FS_CardinalityType
  <2>5. Cardinality(PacksOf(n)) <= Cardinality(S)
    BY <1>5, <2>2, <2>4, FS_Subset
  <2> QED BY <2>1, <2>2, <2>4, <2>5 DEF LastPack
<1>7. PICK l : l = LastPlace'
  OBVIOUS
<1>8. l[1] = n /\ l[2] = LastPack(n)'
  BY <1>4, <1>7 DEF LastPlace, OpenPackOf, LastPack
<1>9. LastPlace = <<n, LastPack(n)>>
  BY <1>2 DEF LastPlace, OpenPackOf
<1>10. ASSUME planned > 0, planned < Len(Order),
              Ahead(At, NextOf, At[Order[planned]], LastPlace)
       PROVE  Ahead(At, NextOf, At[Order[planned]], l)
  <2>1. PICK p \in Packs : p = At[Order[planned]]
    BY <1>1, <1>10, Known DEF Planning
  <2>2. p[1] \in Nat /\ p[2] \in Nat
    BY PackPair
  <2> QED BY <1>6, <1>8, <1>9, <1>10, <2>1, <2>2 DEF Ahead
<1>11. planned \in Nat /\ planned <= Len(Order) /\ Len(Order) \in Nat
  BY OrderType DEF WInv, WTypes, PlanTypes
<1> QED BY <1>1, <1>7, <1>10, <1>11, PlanGrows

(* The open pack is where the next artifact may go.                        *)
LEMMA PlaceIsNext ==
    ASSUME WInv, Tight, AssignArtifact
    PROVE  /\ LastPlace \in Packs
           /\ planned > 0 => NextPlace(At, NextOf, At[Order[planned]], LastPlace)
<1>1. /\ Planning /\ planned < Len(Order) /\ ~NeedsBatch /\ ~NeedsPack /\ analysis = "planner"
  BY DEF AssignArtifact, Planning
<1>2. PICK q : q = LastPlace
  OBVIOUS
<1>3. PICK a : a = NextOf
  OBVIOUS
<1>4. q \in Packs /\ q[1] = LastBatch /\ q[1] \in Nat /\ q[2] \in Nat
  <2>1. q \in PacksOf(LastBatch)
    BY <1>1, <1>2 DEF NeedsPack, LastPlace
  <2>2. q \in Packs
    BY <2>1 DEF PacksOf
  <2> QED BY <1>2, <2>2, PackPair DEF LastPlace, OpenPackOf
<1>5. /\ ~Overflows(Bytes(OfBatch(At, q[1])), a, MaxBatchBytes)
      /\ ~Overflows(Bytes(OfPack(At, q)), a, TargetPackBytes)
  <2>1. InPack(q) = OfPack(At, q)
    BY DEF InPack, OfPack, At
  <2>2. InBatch(q[1]) = OfBatch(At, q[1])
    BY ByEntry
  <2>3. ~Overflows(Bytes(InBatch(LastBatch)), a, MaxBatchBytes)
    BY <1>1, <1>3 DEF NeedsBatch
  <2>4. ~Overflows(Bytes(InPack(q)), a, TargetPackBytes)
    BY <1>1, <1>2, <1>3 DEF NeedsPack, LastPlace
  <2> QED BY <1>4, <2>1, <2>2, <2>3, <2>4
<1>6. ASSUME planned > 0 PROVE NextPlace(At, a, At[Order[planned]], q)
  <2>1. PICK x : x = Order[planned]
    OBVIOUS
  <2>2. /\ Shape /\ planned \in 1..Len(Order) /\ a \in Artifacts /\ At[x] \in Packs
        /\ Cardinality(Given(At)) = planned
    BY <1>1, <1>3, <1>6, <2>1, Known DEF Shape, Planning
  <2>3. PICK p \in Packs : p = At[x]
    BY <2>2
  <2>4. /\ x \in Artifacts /\ x \in Given(At) /\ p[1] \in Nat /\ p[2] \in Nat /\ p # None
    BY <2>1, <2>2, <2>3, OrderType, PackPair DEF Given
  <2>5. Ahead(At, a, p, q)
    BY <1>2, <1>3, <1>6, <2>1, <2>2, <2>3 DEF Shape
  <2>6. CASE q[1] > p[1] /\ Bytes(OfBatch(At, p[1])) + RecordBytes(a) > MaxBatchBytes
    BY <2>1, <2>3, <2>6 DEF NextPlace
  <2>7. CASE q[1] = p[1] /\ q[2] >= p[2]
    <3>1. /\ OfBatch(At, q[1]) \in SUBSET Artifacts /\ x \in OfBatch(At, q[1])
          /\ MaxBatchBytes \in Nat /\ TargetPackBytes \in Nat
      BY <2>3, <2>4, <2>7, WorkspaceAssumption DEF OfBatch, Given, BatchOf
    <3>2. Bytes(OfBatch(At, q[1])) + RecordBytes(a) <= MaxBatchBytes
      BY <1>5, <2>2, <3>1, FitsWhenFound
    <3>3. CASE q[2] > p[2]
      BY <2>1, <2>3, <2>7, <3>2, <3>3 DEF NextPlace
    <3>4. CASE q[2] = p[2]
      <4>1. q = p
        BY <1>4, <2>7, <3>4, PackPair
      <4>2. OfPack(At, q) \in SUBSET Artifacts /\ x \in OfPack(At, q)
        BY <2>3, <2>4, <4>1 DEF OfPack
      <4>3. Bytes(OfPack(At, q)) + RecordBytes(a) <= TargetPackBytes
        BY <1>5, <2>2, <3>1, <4>2, FitsWhenFound
      <4> QED BY <2>1, <2>3, <2>7, <3>2, <3>4, <4>3 DEF NextPlace
    <3> QED BY <1>4, <2>4, <2>7, <3>3, <3>4
  <2> QED BY <2>5, <2>6, <2>7 DEF Ahead
<1> QED BY <1>2, <1>3, <1>4, <1>6

LEMMA AssignKeepsTight ==
    ASSUME WInv, Tight, AssignArtifact
    PROVE  Tight'
<1>1. PICK a : a = NextOf
  OBVIOUS
<1>2. PICK q : q = LastPlace
  OBVIOUS
<1>3. PICK n : n = planned
  OBVIOUS
<1>4. PICK at : at = At
  OBVIOUS
<1>5. PICK to : to = At'
  OBVIOUS
<1>6. /\ analysis = "planner" /\ planned < Len(Order) /\ Planning
      /\ UNCHANGED <<batch, pack, analysis, planned>>
      /\ entry' = [entry EXCEPT ![a].pack = q]
  BY <1>1, <1>2 DEF AssignArtifact, Planning, SetEntry, LastPlace
<1>7. /\ a \in Artifacts /\ at \in [Artifacts -> Packs \cup {None}] /\ Fits(at)
      /\ n \in Nat /\ n < Len(Order) /\ a = Order[n + 1] /\ n = Cardinality(Given(at))
  BY <1>1, <1>3, <1>4, <1>6, Known DEF Planning, Shape, NextOf
<1>8. q \in Packs /\ (n > 0 => NextPlace(at, a, at[Order[n]], q))
  BY <1>1, <1>2, <1>3, <1>4, PlaceIsNext
<1>9. /\ to \in [Artifacts -> Packs \cup {None}] /\ to[a] = q
      /\ \A x \in Artifacts : x # a => to[x] = at[x]
  <2>1. entry \in [Artifacts -> EntryRow]
    BY DEF WInv, WTypes, EntryTypes
  <2>2. entry'[a].pack = q /\ \A x \in Artifacts : x # a => entry'[x] = entry[x]
    BY <1>6, <1>7, <2>1 DEF EntryRow
  <2>3. /\ \A x \in Artifacts : at[x] = entry[x].pack /\ to[x] = entry'[x].pack
        /\ to = [x \in Artifacts |-> to[x]]
    BY <1>4, <1>5 DEF At
  <2> QED BY <1>7, <1>8, <2>2, <2>3
<1>10. Fits(to) /\ Cardinality(Given(to)) = n + 1
  BY <1>7, <1>8, <1>9, PlacedNext
<1>11. Fits(At)' /\ Cardinality(Given(At))' = planned' + 1
  <2>1. Fits(At)' = Fits(to) /\ Given(At)' = Given(to)
    BY <1>5 DEF Fits, Given, FirstGiven, BatchesFit, PacksFit, Ordered, OpenedLate, OfBatch, OfPack
  <2> QED BY <1>3, <1>6, <1>10, <2>1
<1>12. LastPlace' = q /\ NextOf' = a
  <2>1. PlannedBatches' = PlannedBatches /\ \A b : PacksOf(b)' = PacksOf(b)
    BY <1>6 DEF PlannedBatches, PacksOf
  <2>2. LastBatch' = LastBatch
    BY <2>1 DEF LastBatch
  <2>3. LastPack(LastBatch)' = LastPack(LastBatch)
    BY <2>1, <2>2 DEF LastPack
  <2> QED BY <1>1, <1>2, <1>6, <2>2, <2>3 DEF LastPlace, OpenPackOf, NextOf
<1>13. At'[NextOf'] = LastPlace'
  BY <1>5, <1>9, <1>12
<1>14. Cardinality(Given(At))' # planned'
  <2>1. PICK c : c = Cardinality(Given(At))'
    OBVIOUS
  <2>2. c = n + 1 /\ planned' = n
    BY <1>3, <1>6, <1>11, <2>1
  <2> QED BY <1>7, <2>1, <2>2
<1>15. Shape'
  BY <1>11, <1>13, <1>14 DEF Shape
<1> QED BY <1>11, <1>15 DEF Tight

LEMMA AddEntryKeepsTight ==
    ASSUME WInv, Tight, AddDownloadEntry
    PROVE  Tight'
<1>1. /\ analysis = "planner" /\ planned < Len(Order) /\ entry[NextOf].pack # None
      /\ UNCHANGED <<batch, pack, analysis>> /\ planned' = planned + 1
      /\ entry' = [entry EXCEPT ![NextOf].status = "PENDING"]
  BY DEF AddDownloadEntry, SetEntry
<1>2. /\ Shape /\ NextOf \in Artifacts /\ planned \in Nat /\ At[NextOf] = entry[NextOf].pack
      /\ Cardinality(Given(At)) = planned + 1
  BY <1>1, Known
<1>3. At[NextOf] = LastPlace
  BY <1>2 DEF Shape
<1>4. At' = At
  <2>1. entry \in [Artifacts -> EntryRow]
    BY DEF WInv, WTypes, EntryTypes
  <2>2. \A x \in Artifacts : entry'[x].pack = entry[x].pack
    BY <1>1, <2>1 DEF EntryRow
  <2> QED BY <2>2 DEF At
<1>5. Fits(At)' /\ Given(At)' = Given(At)
  BY <1>4, FitsStay DEF Tight
<1>6. LastPlace' = LastPlace
  <2>1. PlannedBatches' = PlannedBatches /\ \A b : PacksOf(b)' = PacksOf(b)
    BY <1>1 DEF PlannedBatches, PacksOf
  <2>2. LastBatch' = LastBatch
    BY <2>1 DEF LastBatch
  <2>3. LastPack(LastBatch)' = LastPack(LastBatch)
    BY <2>1, <2>2 DEF LastPack
  <2> QED BY <2>2, <2>3 DEF LastPlace, OpenPackOf
<1>7. At'[Order[planned']] = LastPlace'
  BY <1>1, <1>3, <1>4, <1>6 DEF NextOf
<1>8. PICK l : l = LastPlace'
  OBVIOUS
<1>9. l[1] \in Nat /\ l[2] \in Nat
  BY <1>1, <1>6, <1>8, Known DEF LastPlace, OpenPackOf
<1>10. Ahead(At, NextOf, At[Order[planned]], LastPlace)'
  BY <1>7, <1>8, <1>9 DEF Ahead
<1>11. Shape'
  <2>1. Cardinality(Given(At))' = planned' /\ planned' # planned' + 1
    BY <1>1, <1>2, <1>5
  <2> QED BY <1>10, <2>1 DEF Shape
<1> QED BY <1>5, <1>11 DEF Tight

(* The steps that assign nothing.                                          *)
LEMMA KeepsTight ==
    ASSUME Tight, At' = At,
           UNCHANGED <<batch, pack, analysis, planned>> \/ analysis' = "none"
    PROVE  Tight'
<1>1. Fits(At)' /\ Given(At)' = Given(At)
  BY FitsStay DEF Tight
<1>2. CASE UNCHANGED <<batch, pack, analysis, planned>>
  <2>1. PlannedBatches' = PlannedBatches /\ \A b : PacksOf(b)' = PacksOf(b)
    BY <1>2 DEF PlannedBatches, PacksOf
  <2>2. LastBatch' = LastBatch
    BY <2>1 DEF LastBatch
  <2>3. LastPack(LastBatch)' = LastPack(LastBatch)
    BY <2>1, <2>2 DEF LastPack
  <2>4. LastPlace' = LastPlace /\ NextOf' = NextOf /\ Cardinality(Given(At))' = Cardinality(Given(At))
    BY <1>1, <1>2, <2>2, <2>3 DEF LastPlace, OpenPackOf, NextOf
  <2>5. Ahead(At, NextOf, At[Order[planned]], LastPlace)' =
        Ahead(At, NextOf, At[Order[planned]], LastPlace)
    BY <1>2, <2>4 DEF Ahead, OfBatch, Given
  <2>6. Shape => Shape'
    BY <1>2, <2>4, <2>5 DEF Shape
  <2> QED BY <1>1, <1>2, <2>6 DEF Tight
<1>3. CASE analysis' = "none"
  BY <1>1, <1>3 DEF Tight
<1> QED BY <1>2, <1>3

LEMMA NothingGiven ==
    ASSUME NEW at, at = [a \in Artifacts |-> None]
    PROVE  Fits(at) /\ Given(at) = {} /\ Cardinality(Given(at)) = 0
<1>1. Given(at) = {}
  BY DEF Given
<1>2. Cardinality(Given(at)) = 0
  BY <1>1, FS_EmptySet
<1>3. FirstGiven(at, 0)
  BY OrderType DEF FirstGiven
<1>4. \A b : OfBatch(at, b) = {}
  BY <1>1 DEF OfBatch
<1>5. \A p \in Packs : OfPack(at, p) = {}
  BY PackPair DEF OfPack
<1>6. Cardinality({}) = 0
  BY FS_EmptySet
<1>7. BatchesFit(at) /\ PacksFit(at)
  <2>1. \A b : Cardinality(OfBatch(at, b)) = 0
    BY <1>4, <1>6
  <2>2. \A p \in Packs : Cardinality(OfPack(at, p)) = 0
    BY <1>5, <1>6
  <2> QED BY <2>1, <2>2 DEF BatchesFit, PacksFit
<1>8. Ordered(at, 0) /\ OpenedLate(at, 0)
  BY DEF Ordered, OpenedLate
<1> QED BY <1>1, <1>2, <1>3, <1>7, <1>8 DEF Fits

LEMMA FreshTight ==
    ASSUME Fresh', analysis' # "planner"
    PROVE  Tight'
<1>1. PICK at : at = At'
  OBVIOUS
<1>2. at = [a \in Artifacts |-> None]
  BY <1>1, NewRows DEF Fresh, At
<1>3. Fits(at)
  BY <1>2, NothingGiven
<1>4. Fits(At)' <=> Fits(at)
  BY <1>1 DEF Fits, Given, FirstGiven, BatchesFit, PacksFit, Ordered, OpenedLate, OfBatch, OfPack
<1> QED BY <1>3, <1>4 DEF Tight

LEMMA CommitKeepsTight ==
    ASSUME WInv, Tight, Commit
    PROVE  Tight'
<1>1. /\ analysis = "adapter" /\ planned = 0 /\ \A a \in Artifacts : entry[a] = NoEntry
      /\ UNCHANGED <<batch, pack, planned>>
  BY DEF Commit, WInv, PlanInv
<1>2. At = [a \in Artifacts |-> None]
  BY <1>1, NewRows DEF At
<1>3. At' = At
  BY <1>2 DEF Commit, At, NoEntry
<1>4. Fits(At)' /\ Given(At)' = Given(At)
  BY <1>3, FitsStay DEF Tight
<1>5. Cardinality(Given(At)) = 0
  BY <1>2, NothingGiven
<1>6. Shape'
  BY <1>1, <1>4, <1>5 DEF Shape
<1> QED BY <1>4, <1>6 DEF Tight

LEMMA TightKept ==
    ASSUME WInv, Tight, [WorkspaceNext]_wvars
    PROVE  Tight'
<1>1. ASSUME NEW c \in Capsules, ExtractCapsule(c) \/ StoreCapsule(c) PROVE Tight'
  BY <1>1, KeepsTight DEF ExtractCapsule, StoreCapsule, dvars, rows, At
<1>2. ASSUME NEW c \in Capsules, Analyze(c) PROVE Tight'
  BY <1>2, AnalyzeFresh, FreshTight DEF Analyze
<1>3. CASE Abort
  BY <1>3, KeepsTight DEF Abort, At
<1>4. CASE Commit
  BY <1>4, CommitKeepsTight
<1>5. CASE CommitEmpty
  <2>1. entry' = entry /\ batch' = batch /\ pack' = pack /\ analysis = "adapter"
    BY <1>5 DEF CommitEmpty, dvars, rows
  <2>2. CASE analysis' = "none"
    BY <2>1, <2>2, KeepsTight DEF At
  <2>3. CASE analysis' = "planner" /\ planned' = Len(Order)
    <3>1. Tight' <=> Fits(At)'
      BY <2>3, OrderType DEF Tight
    <3>2. At' = At /\ Fits(At)
      BY <2>1 DEF At, Tight
    <3>3. Fits(At)'
      BY <3>2, FitsStay
    <3> QED BY <3>1, <3>3
  <2> QED BY <1>5, <2>2, <2>3 DEF CommitEmpty
<1>6. CASE CreateBatch
  BY <1>6, CreateBatchKeepsTight
<1>7. CASE AddPack
  BY <1>7, AddPackKeepsTight
<1>8. CASE AssignArtifact
  BY <1>8, AssignKeepsTight
<1>9. CASE AddDownloadEntry
  BY <1>9, AddEntryKeepsTight
<1>10. CASE FinishPlan
  BY <1>10, KeepsTight DEF FinishPlan, At
<1>11. CASE analysis = "none" /\ DownloadNext /\ UNCHANGED <<capsule, analysis, planned>>
  <2>1. At' = At
    BY <1>11, DownloadKeepsPlan DEF At
  <2> QED BY <1>11, <2>1, KeepsTight
<1>12. CASE Crash
  BY <1>12, KeepsTight DEF Crash, rows, At
<1>13. CASE UNCHANGED wvars
  BY <1>13, KeepsTight DEF wvars, dvars, rows, At
<1> QED BY <1>1, <1>2, <1>3, <1>4, <1>5, <1>6, <1>7, <1>8, <1>9, <1>10, <1>11, <1>12, <1>13
       DEF WorkspaceNext, PlanStep

(* BatchPlanner keeps the sizes of batches and packs, fills them in the    *)
(* order of the plan, and opens the next batch only when it has to.        *)
THEOREM PlanIsTight == WorkspaceSpec => []PlanFits
<1>1. WorkspaceInit => Tight
  <2>1. ASSUME WorkspaceInit PROVE Tight
    <3>1. At = [a \in Artifacts |-> None]
      BY <2>1, NewRows DEF WorkspaceInit, At
    <3> QED BY <2>1, <3>1, NothingGiven DEF Tight, WorkspaceInit
  <2> QED BY <2>1
<1>2. WInv /\ Tight /\ [WorkspaceNext]_wvars => Tight'
  BY TightKept
<1>3. WInv /\ Tight => PlanFits
  <2> SUFFICES ASSUME WInv, Tight PROVE PlanFits
    OBVIOUS
  <2>1. PICK n : n = Cardinality({a \in Artifacts : entry[a].pack # None})
    OBVIOUS
  <2>2. n = Cardinality(Given(At)) /\ n \in Nat
    <3>1. Given(At) = {a \in Artifacts : entry[a].pack # None}
      BY DEF Given, At
    <3> QED BY <2>1, <3>1, GivenFinite
  <2>3. /\ FirstGiven(At, n) /\ BatchesFit(At) /\ PacksFit(At)
        /\ Ordered(At, n) /\ OpenedLate(At, n)
    BY <2>2 DEF Tight, Fits
  <2>4. ASSUME NEW i \in 1..n PROVE At[Order[i]] = entry[Order[i]].pack
    <3>1. i \in 1..Len(Order)
      BY <2>2, <2>3, OrderType DEF FirstGiven
    <3> QED BY <3>1, OrderType DEF At
  <2>5. PICK used : used = 1..(IF analysis = "adapter" THEN 0 ELSE n)
    OBVIOUS
  <2>6. used \subseteq 1..n
    BY <2>2, <2>5
  <2>7. \A b \in Batches : Cardinality(InBatch(b)) > 1 => Bytes(InBatch(b)) <= MaxBatchBytes
    BY <2>3, ByEntry DEF BatchesFit
  <2>8. \A p \in Packs : Cardinality(InPack(p)) > 1 => Bytes(InPack(p)) <= TargetPackBytes
    <3>1. \A p : InPack(p) = OfPack(At, p)
      BY DEF InPack, OfPack, At
    <3> QED BY <2>3, <3>1 DEF PacksFit
  <2>9. \A i, j \in used : i < j => ~Before(entry[Order[j]].pack, entry[Order[i]].pack)
    BY <2>3, <2>4, <2>6 DEF Ordered
  <2>10. \A i \in used :
           i > 1 /\ BatchOf(entry[Order[i]].pack) # BatchOf(entry[Order[i-1]].pack) =>
             Bytes(InBatch(BatchOf(entry[Order[i-1]].pack))) + RecordBytes(Order[i])
                > MaxBatchBytes
    <3> SUFFICES ASSUME NEW i \in used, i > 1,
                        BatchOf(entry[Order[i]].pack) # BatchOf(entry[Order[i-1]].pack)
                 PROVE  Bytes(InBatch(BatchOf(entry[Order[i-1]].pack))) + RecordBytes(Order[i])
                           > MaxBatchBytes
      OBVIOUS
    <3>1. i \in 2..n /\ i \in 1..n /\ i - 1 \in 1..n
      BY <2>2, <2>6
    <3>2. /\ At[Order[i]] = entry[Order[i]].pack
          /\ At[Order[i-1]] = entry[Order[i-1]].pack
      BY <2>4, <3>1
    <3>3. PICK b : b = BatchOf(entry[Order[i-1]].pack)
      OBVIOUS
    <3>4. Bytes(OfBatch(At, b)) + RecordBytes(Order[i]) > MaxBatchBytes
      BY <2>3, <3>1, <3>2, <3>3 DEF OpenedLate
    <3>5. InBatch(b) = OfBatch(At, b)
      BY ByEntry
    <3> QED BY <3>3, <3>4, <3>5
  <2> QED BY <2>1, <2>5, <2>7, <2>8, <2>9, <2>10 DEF PlanFits
<1> QED BY <1>1, <1>2, <1>3, WorkspaceInvariant, PTL DEF WorkspaceSpec
=============================================================================
