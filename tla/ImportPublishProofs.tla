------------------------- MODULE ImportPublishProofs -------------------------
(***************************************************************************)
(* The safety of ImportPublish, for every number of epochs, batches,       *)
(* packs, entries, units, sessions and threads: its inductive invariant    *)
(* IInv, the part RowsInv of it that is not about the repository, and what *)
(* follows from them.                                                      *)
(***************************************************************************)
EXTENDS ImportPublishProperties, FiniteSetTheorems, TLAPS

-----------------------------------------------------------------------------
(* The thread records *)

LEMMA IdleType == Idle \in ThreadRecords /\ Failed \in ThreadRecords
BY DEF Idle, Failed, ThreadRecords, PCs

LEMMA ThreadType ==
    ASSUME TypeOK, NEW t \in Threads
    PROVE  th \in [Threads -> ThreadRecords] /\ th[t] \in ThreadRecords
BY DEF TypeOK

(* Giving a thread another record keeps the type of the threads. *)
LEMMA ThreadSet ==
    ASSUME TypeOK, NEW t \in Threads, NEW r \in ThreadRecords, th' = [th EXCEPT ![t] = r]
    PROVE  th' \in [Threads -> ThreadRecords]
BY DEF TypeOK

LEMMA ThreadEnds ==
    ASSUME TypeOK, NEW t \in Threads, Return(t) \/ Fail(t)
    PROVE  th' \in [Threads -> ThreadRecords]
BY IdleType, ThreadSet DEF Return, Fail

(* Moving on keeps it too, if the thread has what its new place needs. *)
LEMMA ThreadGoto ==
    ASSUME TypeOK, NEW t \in Threads, ~Resting(t), NEW pc \in PCs \ {"insert", "rename"},
           pc = "catalog" => At(t, "rename"), Goto(t, pc)
    PROVE  th' \in [Threads -> ThreadRecords]
<1>1. [th[t] EXCEPT !.pc = pc] \in ThreadRecords
  BY ThreadType DEF ThreadRecords, Resting, At
<1>2. th' = [th EXCEPT ![t] = [th[t] EXCEPT !.pc = pc]]
  BY DEF Goto
<1> QED BY <1>1, <1>2, ThreadSet

(* A status transition of the epoch keeps the types. *)
LEMMA TransitionType ==
    ASSUME TypeOK, NEW t \in Threads, ~Resting(t), NEW from, NEW to \in EpochStatuses,
           NEW next \in PCs \ {"insert", "rename", "catalog"}, TransitionEpoch(t, from, to, next)
    PROVE  /\ th' \in [Threads -> ThreadRecords]
           /\ epochStatus' \in [Epochs -> EpochStatuses \cup {"ABSENT"}]
<1>1. th[t] \in ThreadRecords
  BY ThreadType
<1>2. [th[t] EXCEPT !.pc = next, !.seen = to] \in ThreadRecords
  BY <1>1 DEF ThreadRecords, Resting
<1>3. \/ Goto(t, next)
      \/ th' = [th EXCEPT ![t] = [th[t] EXCEPT !.pc = next, !.seen = to]]
      \/ Fail(t)
  BY ThreadType DEF TransitionEpoch
<1>4. th' \in [Threads -> ThreadRecords]
  BY <1>2, <1>3, ThreadSet, ThreadGoto, ThreadEnds
<1>5. \/ UNCHANGED epochStatus
      \/ epochStatus' = [epochStatus EXCEPT ![EpochOfThread(t)] = to]
  BY DEF TransitionEpoch
<1> QED BY <1>4, <1>5 DEF TypeOK

-----------------------------------------------------------------------------
(* Every step keeps the types. *)
LEMMA TypeStep == TypeOK /\ [Next]_vars => TypeOK'
<1> SUFFICES ASSUME TypeOK, [Next]_vars
             PROVE  TypeOK'
  OBVIOUS
<1> USE PlanAssumption, SourceAssumption
<1>1. ASSUME NEW s \in Sessions, RegisterImportBundle(s)
      PROVE  TypeOK'
  BY <1>1 DEF TypeOK, RegisterImportBundle, source, gate, repository, EpochStatuses,
              BatchStatuses, PackStatuses, SessionStatuses
<1>2. ASSUME NEW s \in Sessions, RegisterManifest(s)
      PROVE  TypeOK'
  BY <1>2 DEF TypeOK, RegisterManifest, ManifestReady, source, repository, SessionStatuses,
              UnitStatuses
<1>11. ASSUME NEW s \in Sessions, AppendManifest(s)
      PROVE  TypeOK'
  BY <1>11 DEF TypeOK, AppendManifest, source, gate, repository, SessionStatuses
<1>3. ASSUME NEW s \in Sessions, NEW p \in Packs, AppendPack(s, p)
      PROVE  TypeOK'
  BY <1>3 DEF TypeOK, AppendPack, source, gate, repository, PackStatuses
<1>4. ASSUME NEW t \in Threads, NEW s \in Sessions, StartCompleteBatch(t, s)
      PROVE  TypeOK'
  <2>1. [Idle EXCEPT !.pc = "batchDone", !.s = s] \in ThreadRecords
    BY DEF Idle, ThreadRecords, PCs
  <2> QED BY <1>4, <2>1, ThreadSet
          DEF TypeOK, StartCompleteBatch, source, progress, gate, repository
<1>5. ASSUME NEW t \in Threads, NEW s \in Sessions, NEW p \in Packs, StartCommitPack(t, s, p)
      PROVE  TypeOK'
  <2>1. [Idle EXCEPT !.pc = "batch", !.s = s, !.p = p, !.todo = PackEntries(p)] \in ThreadRecords
    BY DEF Idle, ThreadRecords, PCs, PackEntries
  <2> QED BY <1>5, <2>1, ThreadSet
          DEF TypeOK, StartCommitPack, source, progress, gate, repository
<1>6. ASSUME NEW t \in Threads, CommitStep(t)
      PROVE  TypeOK'
  <2>1. CASE MarkBatchImporting(t)
    BY <2>1, ThreadGoto DEF TypeOK, At, Resting, MarkBatchImporting, source, gate, repository, BatchStatuses, PCs
  <2>2. CASE MarkSessionImporting(t)
    BY <2>2, ThreadGoto DEF TypeOK, At, Resting, MarkSessionImporting, source, gate, repository, SessionStatuses, PCs
  <2>3. CASE InstallEntry(t)
    <3>1. PICK x \in th[t].todo :
            \/ /\ x \in Artifacts
               /\ disk' = [disk EXCEPT ![PathOf[x]] = ContentOf[x]]
               /\ th' = [th EXCEPT ![t].pc = "insert", ![t].x = x]
               /\ UNCHANGED staged
            \/ /\ Fail(t)
               /\ UNCHANGED <<disk, staged>>
            \/ /\ x \in Metadata
               /\ staged' = IF ContentOf[x] = None THEN staged ELSE staged \cup {x}
               /\ th' = [th EXCEPT ![t].pc = "insert", ![t].x = x]
               /\ UNCHANGED disk
      BY <2>3 DEF InstallEntry
    <3>2. x \in Entries /\ th[t] \in ThreadRecords
      BY ThreadType DEF ThreadRecords
    <3>3. [th[t] EXCEPT !.pc = "insert", !.x = x] \in ThreadRecords
      BY <2>3, <3>2 DEF ThreadRecords, PCs, InstallEntry, At
    <3>4. th' \in [Threads -> ThreadRecords]
      <4>1. \/ th' = [th EXCEPT ![t] = [th[t] EXCEPT !.pc = "insert", !.x = x]]
            \/ Fail(t)
        BY <3>1, ThreadType
      <4> QED BY <3>3, <4>1, ThreadSet, ThreadEnds
    <3>5. disk' \in [Paths -> ContentOrNone] /\ staged' \subseteq Metadata
      <4>1. ContentOf[x] \in ContentOrNone /\ PathOf[x] \in Paths
        BY <3>2
      <4>2. disk \in [Paths -> ContentOrNone] /\ staged \subseteq Metadata
        BY DEF TypeOK
      <4> QED BY <3>1, <4>1, <4>2
    <3> QED BY <2>3, <3>4, <3>5 DEF TypeOK, InstallEntry, source, progress, gate
  <2>4. CASE CommitImportedEntry(t)
    <3>1. th[t] \in ThreadRecords
      BY ThreadType
    <3>2. [th[t] EXCEPT !.pc = "entry", !.x = None, !.todo = @ \ {th[t].x}] \in ThreadRecords
      BY <2>4, <3>1 DEF ThreadRecords, PCs, CommitImportedEntry, At
    <3>5. \/ th' = [th EXCEPT ![t] = [th[t] EXCEPT !.pc = "entry", !.x = None,
                                                    !.todo = @ \ {th[t].x}]]
           \/ Fail(t)
      BY <2>4, ThreadType DEF CommitImportedEntry
    <3>3. th' \in [Threads -> ThreadRecords]
      BY <3>2, <3>5, ThreadSet, ThreadEnds
    <3>6. th[t].x \in Entries
      BY <2>4, <3>1 DEF ThreadRecords, CommitImportedEntry, At
    <3>7. catalog' \in [Paths -> ContentOrNone]
      <4>1. CatalogWith(th[t].x) \in [Paths -> ContentOrNone]
        BY <3>6 DEF CatalogWith, TypeOK
      <4>2. catalog' = catalog \/ catalog' = CatalogWith(th[t].x)
        BY <2>4 DEF CommitImportedEntry
      <4> QED BY <4>1, <4>2 DEF TypeOK
    <3>8. /\ unitStatus' \in [Units -> UnitStatuses]
          /\ unitImported' \in [Units -> Nat]
          /\ imported' \subseteq Entries
      <4> DEFINE u == UnitOf[th[t].x]
      <4>1. \/ /\ imported' = imported \cup {th[t].x}
               /\ unitImported' = [unitImported EXCEPT ![u] = @ + 1]
               /\ unitStatus' = [unitStatus EXCEPT ![u] =
                                   IF unitImported[u] + 1 = Required(u) THEN "READY" ELSE @]
            \/ UNCHANGED gate
        BY <2>4 DEF CommitImportedEntry
      <4>2. u \in Units
        BY <3>6
      <4>3. unitImported \in [Units -> Nat] /\ unitStatus \in [Units -> UnitStatuses]
            /\ imported \subseteq Entries
        BY DEF TypeOK
      <4> QED BY <3>6, <4>1, <4>2, <4>3 DEF gate, UnitStatuses
    <3> QED BY <2>4, <3>3, <3>7, <3>8
            DEF TypeOK, CommitImportedEntry, source, progress
  <2>5. CASE MarkImportPackCommitted(t)
    BY <2>5, ThreadGoto DEF TypeOK, At, Resting, MarkImportPackCommitted, source, gate, repository, PackStatuses, PCs
  <2>6. CASE RemoveUploadedPack(t)
    BY <2>6, ThreadGoto DEF TypeOK, At, Resting, RemoveUploadedPack, source, progress, gate, repository, PCs
  <2> QED BY <1>6, <2>1, <2>2, <2>3, <2>4, <2>5, <2>6 DEF CommitStep
<1>7. ASSUME NEW t \in Threads, PublishStep(t)
      PROVE  TypeOK'
  <2>0. th[t] \in ThreadRecords
    BY ThreadType
  <2>1. CASE ListReadyUnits(t)
    <3>1. [th[t] EXCEPT !.pc = "unit",
                        !.ready = {u \in EpochUnits(EpochOfThread(t)) : Publishable(u)}]
            \in ThreadRecords
      BY <2>0, <2>1 DEF ThreadRecords, PCs, EpochUnits, ListReadyUnits, At
    <3>2. th' = [th EXCEPT ![t] =
                   [th[t] EXCEPT !.pc = "unit",
                                 !.ready = {u \in EpochUnits(EpochOfThread(t)) : Publishable(u)}]]
      BY <2>1, ThreadType DEF ListReadyUnits
    <3>3. th' \in [Threads -> ThreadRecords]
      BY <3>1, <3>2, ThreadSet
    <3> QED BY <2>1, <3>3
            DEF TypeOK, ListReadyUnits, source, progress, gate, repository
  <2>2. CASE OpenUnit(t)
    <3>1. CASE Fail(t)
      BY <2>2, <3>1, ThreadEnds
         DEF TypeOK, OpenUnit, source, progress, gate, repository
    <3>2. CASE ~Fail(t)
      <4>1. PICK u \in th[t].ready :
              th' = [th EXCEPT ![t].pc = "metadata", ![t].u = u, ![t].ready = @ \ {u},
                               ![t].todo = MetadataOf(u)]
        BY <2>2, <3>2 DEF OpenUnit
      <4>2. [th[t] EXCEPT !.pc = "metadata", !.u = u, !.ready = @ \ {u},
                          !.todo = MetadataOf(u)] \in ThreadRecords
        BY <2>0, <2>2, <4>1 DEF ThreadRecords, PCs, MetadataOf, OpenUnit, At
      <4>3. th' = [th EXCEPT ![t] = [th[t] EXCEPT !.pc = "metadata", !.u = u,
                                                  !.ready = @ \ {u},
                                                  !.todo = MetadataOf(u)]]
        BY <4>1, ThreadType
      <4> QED BY <2>2, <4>2, <4>3, ThreadSet
              DEF TypeOK, OpenUnit, source, progress, gate, repository
    <3> QED BY <3>1, <3>2
  <2>3. CASE CheckMetadata(t)
    <3>1. PICK m \in Metadata :
            \/ /\ disk' = [disk EXCEPT ![PathOf[m]] = None]
               /\ th' = [th EXCEPT ![t].pc = "catalog", ![t].x = m]
            \/ /\ \E pc \in {"rename", "catalog"} : th' = [th EXCEPT ![t].pc = pc, ![t].x = m]
               /\ UNCHANGED disk
            \/ Fail(t) /\ UNCHANGED disk
      BY <2>3 DEF CheckMetadata
    <3>2. \A pc \in {"rename", "catalog"} : [th[t] EXCEPT !.pc = pc, !.x = m] \in ThreadRecords
      BY <2>0, <2>3 DEF ThreadRecords, PCs, CheckMetadata, At
    <3>3. th' \in [Threads -> ThreadRecords]
      <4>1. \/ \E pc \in {"rename", "catalog"} :
                 th' = [th EXCEPT ![t] = [th[t] EXCEPT !.pc = pc, !.x = m]]
            \/ Fail(t)
        BY <3>1, ThreadType
      <4> QED BY <3>2, <4>1, ThreadSet, ThreadEnds
    <3> QED BY <2>3, <3>1, <3>3
            DEF TypeOK, CheckMetadata, source, progress, gate, ContentOrNone
  <2>4. CASE RenameMetadata(t)
    <3>1. th' \in [Threads -> ThreadRecords]
      BY <2>4, ThreadGoto, ThreadEnds DEF RenameMetadata, PCs, At, Resting
    <3>2. disk' \in [Paths -> ContentOrNone] /\ staged' \subseteq Metadata
      <4>1. th[t].x \in Entries
        BY <2>0, <2>4 DEF ThreadRecords, RenameMetadata, At
      <4>2. disk \in [Paths -> ContentOrNone] /\ staged \subseteq Metadata
        BY DEF TypeOK
      <4> QED BY <2>4, <4>1, <4>2 DEF RenameMetadata
    <3> QED BY <2>4, <3>1, <3>2 DEF TypeOK, RenameMetadata, source, progress, gate
  <2>5. CASE CatalogMetadata(t)
    <3>1. [th[t] EXCEPT !.pc = "metadata", !.x = None, !.todo = @ \ {th[t].x}] \in ThreadRecords
      BY <2>0, <2>5 DEF ThreadRecords, PCs, CatalogMetadata, At
    <3>2. th' \in [Threads -> ThreadRecords]
      <4>1. th' = [th EXCEPT ![t] = [th[t] EXCEPT !.pc = "metadata", !.x = None,
                                                 !.todo = @ \ {th[t].x}]]
        BY <2>5, ThreadType DEF CatalogMetadata
      <4> QED BY <3>1, <4>1, ThreadSet
    <3>3. th[t].x \in Entries
      BY <2>0, <2>5 DEF ThreadRecords, CatalogMetadata, At
    <3>4. catalog' \in [Paths -> ContentOrNone]
      BY <2>5, <3>3 DEF TypeOK, CatalogMetadata
    <3>5. UNCHANGED <<source, progress, gate, disk, staged, uploaded>>
      BY <2>5 DEF CatalogMetadata
    <3> QED BY <3>2, <3>4, <3>5 DEF TypeOK, source, progress, gate
  <2>6. CASE MarkPublished(t)
    <3>1. [th[t] EXCEPT !.pc = "unit", !.u = None] \in ThreadRecords
      BY <2>0, <2>6 DEF ThreadRecords, PCs, MarkPublished, At
    <3>2. \/ th' = [th EXCEPT ![t] = [th[t] EXCEPT !.pc = "unit", !.u = None]]
          \/ Fail(t)
      BY <2>6, ThreadType DEF MarkPublished
    <3>3. th' \in [Threads -> ThreadRecords]
      BY <3>1, <3>2, ThreadSet, ThreadEnds
    <3> QED BY <2>6, <3>3
            DEF TypeOK, MarkPublished, source, progress, repository, UnitStatuses
  <2>7. CASE EndPublishReady(t)
    BY <2>7, ThreadGoto, ThreadEnds DEF TypeOK, At, Resting, EndPublishReady, source, progress, gate, repository, PCs
  <2> QED BY <1>7, <2>1, <2>2, <2>3, <2>4, <2>5, <2>6, <2>7 DEF PublishStep
<1>8. ASSUME NEW t \in Threads, CompleteStep(t)
      PROVE  TypeOK'
  <2>0. th[t] \in ThreadRecords
    BY ThreadType
  <2>1. CASE MarkBatchImported(t)
    <3>1. th' \in [Threads -> ThreadRecords]
      BY <2>1, ThreadType, ThreadGoto DEF MarkBatchImported, PCs, At, Resting
    <3> QED BY <2>1, <3>1
            DEF TypeOK, MarkBatchImported, source, gate, repository, BatchStatuses
  <2>2. CASE MarkSessionImported(t)
    BY <2>2, ThreadGoto
    DEF TypeOK, At, Resting, MarkSessionImported, source, gate, repository, SessionStatuses, PCs
  <2>3. CASE CountEpoch(t)
    <3> DEFINE e == EpochOfThread(t)
    <3>1. th[t].s \in Sessions /\ e \in Epochs
      BY <2>0, <2>3 DEF ThreadRecords, CountEpoch, At, EpochOfThread
    <3>2. [th[t] EXCEPT !.pc = "publishable", !.seen = epochStatus[e]] \in ThreadRecords
      BY <2>0, <3>1 DEF ThreadRecords, PCs, TypeOK
    <3>3. \/ th' = [th EXCEPT ![t] = [th[t] EXCEPT !.pc = "publishable", !.seen = epochStatus[e]]]
          \/ Return(t)
          \/ Fail(t)
      BY <2>3, ThreadType DEF CountEpoch
    <3>4. th' \in [Threads -> ThreadRecords]
      BY <3>2, <3>3, ThreadSet, ThreadEnds
    <3> QED BY <2>3, <3>4 DEF TypeOK, CountEpoch, source, progress, gate, repository
  <2>4. CASE MarkEpochPublishable(t)
    BY <2>4, TransitionType
    DEF TypeOK, MarkEpochPublishable, progress, gate, repository, EpochStatuses, PCs, At, Resting
  <2>5. CASE MarkEpochPublished(t)
    BY <2>5, TransitionType
    DEF TypeOK, MarkEpochPublished, progress, gate, repository, EpochStatuses, PCs, At, Resting
  <2>6. CASE CompleteEpoch(t)
    <3>1. th[t].s \in Sessions /\ EpochOfThread(t) \in Epochs
      BY <2>0, <2>6 DEF ThreadRecords, CompleteEpoch, At, EpochOfThread
    <3>2. th' \in [Threads -> ThreadRecords]
      BY <2>6, ThreadEnds DEF CompleteEpoch
    <3> QED BY <2>6, <3>1, <3>2
            DEF TypeOK, CompleteEpoch, source, progress, gate, repository, EpochStatuses
  <2> QED BY <1>8, <2>1, <2>2, <2>3, <2>4, <2>5, <2>6 DEF CompleteStep
<1>9. ASSUME NEW t \in Threads, Abort(t)
      PROVE  TypeOK'
  BY <1>9, ThreadEnds DEF TypeOK, Abort, source, progress, gate, repository
<1>10. CASE UNCHANGED vars
  BY <1>10 DEF TypeOK, vars, source, progress, gate, repository
<1> QED
  BY <1>1, <1>2, <1>3, <1>4, <1>5, <1>6, <1>7, <1>8, <1>9, <1>10, <1>11
  DEF Next, Request, HandlerStep

(* Type correctness: whatever the handlers and requests do, every column,  *)
(* file set and thread keeps its type (TypeOK).                            *)
THEOREM TypeInvariant == Spec => []TypeOK
<1>1. Init => TypeOK
  BY PlanAssumption, SourceAssumption, IdleType
  DEF Init, TypeOK, ContentOrNone, SessionStatuses, UnitStatuses
<1> QED BY <1>1, TypeStep, PTL DEF Spec

-----------------------------------------------------------------------------
(* Counting *)

(* The imported entries of a unit are finitely many. *)
LEMMA UnitFinite ==
    ASSUME NEW u \in Units
    PROVE  IsFiniteSet(UnitEntries(u)) /\ IsFiniteSet(imported \cap UnitEntries(u))
<1>1. UnitEntries(u) \subseteq Entries
  BY DEF UnitEntries
<1>2. imported \cap UnitEntries(u) \subseteq Entries
  BY <1>1
<1> QED BY <1>1, <1>2, FS_Subset, PlanAssumption

(* A unit whose count has reached what it requires is entirely imported.   *)
LEMMA UnitFull ==
    ASSUME ExactlyOnceCount, NEW u \in Units, unitImported[u] = Required(u)
    PROVE  UnitEntries(u) \subseteq imported
<1> DEFINE S == imported \cap UnitEntries(u)
<1>1. IsFiniteSet(UnitEntries(u)) /\ S \subseteq UnitEntries(u)
  BY UnitFinite
<1>2. Cardinality(S) = Cardinality(UnitEntries(u))
  BY DEF ExactlyOnceCount, Required
<1>3. S = UnitEntries(u)
  BY <1>1, <1>2, FS_Subset
<1> QED BY <1>3

-----------------------------------------------------------------------------
(* Which actions write a variable. *)

LEMMA SourceWriters ==
    ASSUME [Next]_vars
    PROVE  \/ UNCHANGED <<cursor, active, epochStatus>>
           \/ \E s \in Sessions : RegisterImportBundle(s)
           \/ \E t \in Threads : MarkEpochPublishable(t) \/ MarkEpochPublished(t) \/ CompleteEpoch(t)
<1>1. ASSUME Request
      PROVE  UNCHANGED source \/ \E s \in Sessions : RegisterImportBundle(s)
  BY <1>1 DEF Request, RegisterManifest, AppendManifest, AppendPack, StartCompleteBatch, StartCommitPack
<1>2. ASSUME NEW t \in Threads, CommitStep(t)
      PROVE  UNCHANGED source
  BY <1>2 DEF CommitStep, MarkBatchImporting, MarkSessionImporting, InstallEntry,
              CommitImportedEntry, MarkImportPackCommitted, RemoveUploadedPack
<1>3. ASSUME NEW t \in Threads, PublishStep(t)
      PROVE  UNCHANGED source
  BY <1>3 DEF PublishStep, ListReadyUnits, OpenUnit, CheckMetadata, RenameMetadata,
              CatalogMetadata, MarkPublished, EndPublishReady
<1>4. ASSUME NEW t \in Threads, CompleteStep(t)
      PROVE  UNCHANGED source \/ MarkEpochPublishable(t) \/ MarkEpochPublished(t) \/ CompleteEpoch(t)
  BY <1>4 DEF CompleteStep, MarkBatchImported, MarkSessionImported, CountEpoch
<1>5. ASSUME NEW t \in Threads, Abort(t)
      PROVE  UNCHANGED source
  BY <1>5 DEF Abort
<1> QED BY <1>1, <1>2, <1>3, <1>4, <1>5 DEF Next, HandlerStep, vars, source

LEMMA ProgressWriters ==
    ASSUME [Next]_vars
    PROVE  /\ \/ UNCHANGED batchStatus
              \/ \E s \in Sessions : RegisterImportBundle(s)
              \/ \E t \in Threads : MarkBatchImporting(t) \/ MarkBatchImported(t)
           /\ \/ UNCHANGED packStatus
              \/ \E s \in Sessions : RegisterImportBundle(s) \/ \E p \in Packs : AppendPack(s, p)
              \/ \E t \in Threads : MarkImportPackCommitted(t)
<1> DEFINE Same == UNCHANGED <<batchStatus, packStatus>>
<1>1. ASSUME Request
      PROVE  \/ Same
             \/ \E s \in Sessions : RegisterImportBundle(s)
             \/ UNCHANGED batchStatus /\ \E s \in Sessions, p \in Packs : AppendPack(s, p)
  BY <1>1 DEF Request, RegisterManifest, AppendManifest, AppendPack, StartCompleteBatch, StartCommitPack, progress
<1>2. ASSUME NEW t \in Threads, CommitStep(t)
      PROVE  \/ Same
             \/ UNCHANGED packStatus /\ MarkBatchImporting(t)
             \/ UNCHANGED batchStatus /\ MarkImportPackCommitted(t)
  BY <1>2 DEF CommitStep, MarkBatchImporting, MarkSessionImporting, InstallEntry,
              CommitImportedEntry, MarkImportPackCommitted, RemoveUploadedPack, progress
<1>3. ASSUME NEW t \in Threads, PublishStep(t)
      PROVE  Same
  BY <1>3 DEF PublishStep, ListReadyUnits, OpenUnit, CheckMetadata, RenameMetadata,
              CatalogMetadata, MarkPublished, EndPublishReady, progress
<1>4. ASSUME NEW t \in Threads, CompleteStep(t)
      PROVE  \/ Same
             \/ UNCHANGED packStatus /\ MarkBatchImported(t)
  BY <1>4 DEF CompleteStep, MarkBatchImported, MarkSessionImported, CountEpoch,
              MarkEpochPublishable, MarkEpochPublished, CompleteEpoch, progress
<1>5. ASSUME NEW t \in Threads, Abort(t)
      PROVE  Same
  BY <1>5 DEF Abort, progress
<1> QED BY <1>1, <1>2, <1>3, <1>4, <1>5 DEF Next, HandlerStep, vars, progress

LEMMA GateWriters ==
    ASSUME [Next]_vars
    PROVE  /\ \/ UNCHANGED <<unitImported, imported>>
              \/ \E t \in Threads : CommitImportedEntry(t)
           /\ \/ UNCHANGED unitStatus
              \/ \E s \in Sessions : RegisterManifest(s)
              \/ \E t \in Threads : CommitImportedEntry(t) \/ MarkPublished(t)
<1>1. ASSUME Request
      PROVE  \/ UNCHANGED gate
             \/ UNCHANGED <<unitImported, imported>> /\ \E s \in Sessions : RegisterManifest(s)
  BY <1>1 DEF Request, RegisterImportBundle, RegisterManifest, AppendManifest, AppendPack, StartCompleteBatch,
              StartCommitPack
<1>2. ASSUME NEW t \in Threads, CommitStep(t)
      PROVE  UNCHANGED gate \/ CommitImportedEntry(t)
  BY <1>2 DEF CommitStep, MarkBatchImporting, MarkSessionImporting, InstallEntry,
              MarkImportPackCommitted, RemoveUploadedPack
<1>3. ASSUME NEW t \in Threads, PublishStep(t)
      PROVE  \/ UNCHANGED gate
             \/ UNCHANGED <<unitImported, imported>> /\ MarkPublished(t)
  BY <1>3 DEF PublishStep, ListReadyUnits, OpenUnit, CheckMetadata, RenameMetadata,
              CatalogMetadata, MarkPublished, EndPublishReady
<1>4. ASSUME NEW t \in Threads, CompleteStep(t)
      PROVE  UNCHANGED gate
  BY <1>4 DEF CompleteStep, MarkBatchImported, MarkSessionImported, CountEpoch,
              MarkEpochPublishable, MarkEpochPublished, CompleteEpoch
<1>5. ASSUME NEW t \in Threads, Abort(t)
      PROVE  UNCHANGED gate
  BY <1>5 DEF Abort
<1> QED BY <1>1, <1>2, <1>3, <1>4, <1>5 DEF Next, HandlerStep, vars, gate

LEMMA RepositoryWriters ==
    ASSUME [Next]_vars
    PROVE  /\ \/ UNCHANGED disk
              \/ \E t \in Threads : InstallEntry(t) \/ CheckMetadata(t) \/ RenameMetadata(t)
           /\ \/ UNCHANGED catalog
              \/ \E t \in Threads : CommitImportedEntry(t) \/ CatalogMetadata(t)
<1> DEFINE Same == UNCHANGED <<catalog, disk>>
<1>1. ASSUME Request
      PROVE  Same
  BY <1>1 DEF Request, RegisterImportBundle, RegisterManifest, AppendManifest, AppendPack, StartCompleteBatch,
              StartCommitPack, repository
<1>2. ASSUME NEW t \in Threads, CommitStep(t)
      PROVE  \/ Same
             \/ UNCHANGED catalog /\ InstallEntry(t)
             \/ UNCHANGED disk /\ CommitImportedEntry(t)
  BY <1>2 DEF CommitStep, MarkBatchImporting, MarkSessionImporting, InstallEntry,
              CommitImportedEntry, MarkImportPackCommitted, RemoveUploadedPack, repository
<1>3. ASSUME NEW t \in Threads, PublishStep(t)
      PROVE  \/ Same
             \/ UNCHANGED catalog /\ (CheckMetadata(t) \/ RenameMetadata(t))
             \/ UNCHANGED disk /\ CatalogMetadata(t)
  BY <1>3 DEF PublishStep, ListReadyUnits, OpenUnit, CheckMetadata, RenameMetadata,
              CatalogMetadata, MarkPublished, EndPublishReady, repository
<1>4. ASSUME NEW t \in Threads, CompleteStep(t)
      PROVE  Same
  BY <1>4 DEF CompleteStep, MarkBatchImported, MarkSessionImported, CountEpoch,
              MarkEpochPublishable, MarkEpochPublished, CompleteEpoch, repository
<1>5. ASSUME NEW t \in Threads, Abort(t)
      PROVE  Same
  BY <1>5 DEF Abort, repository
<1> QED BY <1>1, <1>2, <1>3, <1>4, <1>5 DEF Next, HandlerStep, vars, repository

-----------------------------------------------------------------------------
(* What no step takes back: an entry that is imported, a batch that is     *)
(* IMPORTED, a unit that is PUBLISHED.                                     *)
Grows ==
    /\ imported \subseteq imported'
    /\ \A b \in Batches : batchStatus[b] = "IMPORTED" => batchStatus'[b] = "IMPORTED"
    /\ \A u \in Units : unitStatus[u] = "PUBLISHED" => unitStatus'[u] = "PUBLISHED"

LEMMA ImportedGrows ==
    ASSUME [Next]_vars
    PROVE  imported \subseteq imported'
BY GateWriters DEF CommitImportedEntry, gate

LEMMA BatchStays ==
    ASSUME TypeOK, [Next]_vars, NEW b \in Batches, batchStatus[b] = "IMPORTED"
    PROVE  batchStatus'[b] = "IMPORTED"
<1>1. ASSUME NEW s \in Sessions, RegisterImportBundle(s)
      PROVE  batchStatus'[b] = "IMPORTED"
  BY <1>1 DEF RegisterImportBundle, TypeOK
<1>2. ASSUME NEW t \in Threads, MarkBatchImporting(t)
      PROVE  batchStatus'[b] = "IMPORTED"
  BY <1>2 DEF MarkBatchImporting, TypeOK
<1>3. ASSUME NEW t \in Threads, MarkBatchImported(t)
      PROVE  batchStatus'[b] = "IMPORTED"
  BY <1>3 DEF MarkBatchImported, TypeOK
<1> QED BY <1>1, <1>2, <1>3, ProgressWriters

(* A published unit is full, so no new entry of it can be committed. *)
LEMMA UnitStays ==
    ASSUME TypeOK, UnitDone, [Next]_vars, NEW u \in Units, unitStatus[u] = "PUBLISHED"
    PROVE  unitStatus'[u] = "PUBLISHED"
<1>1. ASSUME NEW s \in Sessions, RegisterManifest(s)
      PROVE  unitStatus'[u] = "PUBLISHED"
  BY <1>1 DEF RegisterManifest
<1>2. ASSUME NEW t \in Threads, CommitImportedEntry(t)
      PROVE  unitStatus'[u] = "PUBLISHED"
  <2>1. th[t].x \in Entries
    BY <1>2, ThreadType DEF ThreadRecords, CommitImportedEntry, At
  <2>2. th[t].x \notin imported => UnitOf[th[t].x] # u
    BY <2>1 DEF UnitDone, UnitEntries
  <2> QED BY <1>2, <2>2 DEF CommitImportedEntry, Known, gate, TypeOK
<1>3. ASSUME NEW t \in Threads, MarkPublished(t)
      PROVE  unitStatus'[u] = "PUBLISHED"
  BY <1>3 DEF MarkPublished, TypeOK
<1> QED BY <1>1, <1>2, <1>3, GateWriters

LEMMA StepGrows ==
    ASSUME TypeOK, UnitDone, [Next]_vars
    PROVE  Grows
<1>1. \A b \in Batches : batchStatus[b] = "IMPORTED" => batchStatus'[b] = "IMPORTED"
  BY BatchStays
<1>2. \A u \in Units : unitStatus[u] = "PUBLISHED" => unitStatus'[u] = "PUBLISHED"
  BY UnitStays
<1> QED BY <1>1, <1>2, ImportedGrows DEF Grows

-----------------------------------------------------------------------------
(* The threads *)

(* What a thread knows stays true while others take their steps. *)
LEMMA OthersKeep ==
    ASSUME TypeOK, Grows, NEW t \in Threads, ThreadInv(t), th'[t] = th[t]
    PROVE  ThreadInv(t)'
<1>1. Walking(t)'
  BY DEF ThreadInv, Walking, Grows
<1>2. Listing(t)'
  BY DEF ThreadInv, Listing, Grows
<1>3. Opening(t)' /\ Placing(t)'
  BY DEF ThreadInv, Opening, Placing, Grows
<1>4. Completing(t)'
  BY DEF ThreadInv, Completing, Grows, At, AllBatchesImported, AllUnitsPublished,
         EpochBatches, EpochUnits, EpochOfThread, BatchOfThread
<1> QED BY <1>1, <1>2, <1>3, <1>4 DEF ThreadInv

(* A thread that rests, or is between the parts of a handler, relies on    *)
(* nothing it has read.                                                    *)
LEMMA FreshKeeps ==
    ASSUME NEW t \in Threads,
           th'[t].pc \in {"idle", "failed", "remove", "list", "sessionDone", "count"}
    PROVE  ThreadInv(t)'
BY DEF ThreadInv, Walking, Listing, Opening, Placing, Completing, At

LEMMA EndsKeep ==
    ASSUME TypeOK, NEW t \in Threads, Return(t) \/ Fail(t)
    PROVE  ThreadInv(t)'
BY FreshKeeps, ThreadType DEF Return, Fail, Idle, Failed

(* The step of a handler leaves it with what its next step relies on.      *)
LEMMA CommitKeeps ==
    ASSUME RowsInv, Grows, NEW t \in Threads, CommitStep(t)
    PROVE  ThreadInv(t)'
<1>0. th[t] \in ThreadRecords /\ th \in [Threads -> ThreadRecords] /\ ThreadInv(t)
  BY ThreadType DEF RowsInv
<1>1. CASE MarkBatchImporting(t)
  <2>1. th'[t] = [th[t] EXCEPT !.pc = "session"] /\ At(t, "batch")
    BY <1>0, <1>1 DEF MarkBatchImporting, Goto
  <2> QED BY <1>0, <2>1
          DEF ThreadInv, Walking, Listing, Opening, Placing, Completing, At, Grows,
              ThreadRecords
<1>2. CASE MarkSessionImporting(t)
  <2>1. th'[t] = [th[t] EXCEPT !.pc = "entry"] /\ At(t, "session")
    BY <1>0, <1>2 DEF MarkSessionImporting, Goto
  <2> QED BY <1>0, <2>1
          DEF ThreadInv, Walking, Listing, Opening, Placing, Completing, At, Grows,
              ThreadRecords
<1>3. CASE InstallEntry(t)
  <2>1. At(t, "entry") /\ UNCHANGED imported
    BY <1>3 DEF InstallEntry, gate
  <2>2. Fail(t) \/ \E x \in th[t].todo : th' = [th EXCEPT ![t].pc = "insert", ![t].x = x]
    BY <1>3 DEF InstallEntry
  <2>3. ASSUME NEW x \in th[t].todo, th' = [th EXCEPT ![t].pc = "insert", ![t].x = x]
        PROVE  ThreadInv(t)'
    <3>1. th'[t].pc = "insert" /\ th'[t].p = th[t].p /\ th'[t].todo = th[t].todo
      BY <1>0, <2>3 DEF ThreadRecords
    <3>2. Walking(t)'
      BY <1>0, <2>1, <3>1 DEF Walking, ThreadInv, At
    <3> QED BY <3>1, <3>2 DEF ThreadInv, Listing, Opening, Placing, Completing, At
  <2> QED BY <2>2, <2>3, EndsKeep DEF RowsInv
<1>4. CASE CommitImportedEntry(t)
  <2>1. CASE Fail(t)
    BY <2>1, EndsKeep DEF RowsInv
  <2>2. CASE ~Fail(t)
    <3>1. /\ th' = [th EXCEPT ![t].pc = "entry", ![t].x = None, ![t].todo = @ \ {th[t].x}]
          /\ th[t].x \in imported'
          /\ At(t, "insert")
      BY <1>4, <2>2 DEF CommitImportedEntry, Known, gate
    <3>2. th'[t] = [th[t] EXCEPT !.pc = "entry", !.x = None, !.todo = @ \ {th[t].x}]
      BY <1>0, <3>1
    <3>3. /\ th'[t].pc = "entry" /\ th'[t].p = th[t].p
          /\ th'[t].todo = th[t].todo \ {th[t].x}
      BY <1>0, <3>2 DEF ThreadRecords
    <3>4. Walking(t)'
      BY <1>0, <3>1, <3>3 DEF Walking, ThreadInv, At, Grows
    <3> QED BY <3>3, <3>4 DEF ThreadInv, Listing, Opening, Placing, Completing, At
  <2> QED BY <2>1, <2>2
<1>5. CASE MarkImportPackCommitted(t)
  BY <1>0, <1>5, FreshKeeps DEF MarkImportPackCommitted, Goto, ThreadRecords
<1>6. CASE RemoveUploadedPack(t)
  BY <1>0, <1>6, FreshKeeps DEF RemoveUploadedPack, Goto, ThreadRecords
<1> QED BY <1>1, <1>2, <1>3, <1>4, <1>5, <1>6 DEF CommitStep

LEMMA PublishKeeps ==
    ASSUME RowsInv, Grows, NEW t \in Threads, PublishStep(t)
    PROVE  ThreadInv(t)'
<1>0. th[t] \in ThreadRecords /\ th \in [Threads -> ThreadRecords] /\ ThreadInv(t)
  BY ThreadType DEF RowsInv
<1>1. CASE ListReadyUnits(t)
  <2> DEFINE ready == {u \in EpochUnits(EpochOfThread(t)) : Publishable(u)}
  <2>1. th'[t].pc = "unit" /\ th'[t].ready = ready /\ UNCHANGED imported
    BY <1>0, <1>1 DEF ListReadyUnits, ThreadRecords, gate
  <2>2. \A u \in ready : UnitEntries(u) \subseteq imported
    BY UnitFull DEF EpochUnits, Publishable, RowsInv
  <2> QED BY <2>1, <2>2
          DEF ThreadInv, Walking, Listing, Opening, Placing, Completing, At
<1>2. CASE OpenUnit(t)
  <2>1. CASE Fail(t)
    BY <2>1, EndsKeep DEF RowsInv
  <2>2. CASE ~Fail(t)
    <3>1. PICK u \in th[t].ready :
            th' = [th EXCEPT ![t].pc = "metadata", ![t].u = u, ![t].ready = @ \ {u},
                             ![t].todo = MetadataOf(u)]
      BY <1>2, <2>2 DEF OpenUnit
    <3>2. /\ th'[t].pc = "metadata" /\ th'[t].u = u /\ th'[t].ready = th[t].ready \ {u}
          /\ th'[t].todo = MetadataOf(u)
          /\ UNCHANGED imported
      BY <1>0, <1>2, <3>1 DEF ThreadRecords, OpenUnit, gate
    <3>3. UnitEntries(u) \subseteq imported /\ u \in Units
      BY <1>0, <1>2, <3>1 DEF ThreadInv, Listing, OpenUnit, At, ThreadRecords
    <3>4. Listing(t)'
      BY <1>0, <1>2, <3>2 DEF ThreadInv, Listing, OpenUnit, At
    <3>5. Opening(t)'
      BY <3>2, <3>3 DEF Opening, MetadataOf
    <3> QED BY <3>2, <3>4, <3>5 DEF ThreadInv, Walking, Placing, Completing, At
  <2> QED BY <2>1, <2>2
<1>3. CASE CheckMetadata(t)
  <2>1. \/ Fail(t)
        \/ \E m \in th[t].todo, pc \in {"rename", "catalog"} :
             th' = [th EXCEPT ![t].pc = pc, ![t].x = m]
    BY <1>3 DEF CheckMetadata, IsNext
  <2>2. ASSUME NEW m \in th[t].todo, NEW pc \in {"rename", "catalog"},
               th' = [th EXCEPT ![t].pc = pc, ![t].x = m]
        PROVE  ThreadInv(t)'
    <3>1. /\ th'[t].pc = pc /\ th'[t].x = m /\ th'[t].u = th[t].u
          /\ th'[t].ready = th[t].ready /\ th'[t].todo = th[t].todo
      BY <1>0, <2>2 DEF ThreadRecords
    <3>2. At(t, "metadata")
      BY <1>3 DEF CheckMetadata
    <3>3. Listing(t)' /\ Opening(t)' /\ Placing(t)'
      BY <1>0, <3>1, <3>2 DEF ThreadInv, Listing, Opening, Placing, At, Grows
    <3> QED BY <3>1, <3>3 DEF ThreadInv, Walking, Completing, At
  <2> QED BY <2>1, <2>2, EndsKeep DEF RowsInv
<1>4. CASE RenameMetadata(t)
  <2>1. CASE Fail(t)
    BY <2>1, EndsKeep DEF RowsInv
  <2>2. CASE ~Fail(t)
    <3>1. /\ th'[t].pc = "catalog" /\ th'[t].x = th[t].x /\ th'[t].u = th[t].u
          /\ th'[t].ready = th[t].ready /\ th'[t].todo = th[t].todo /\ At(t, "rename")
      BY <1>0, <1>4, <2>2 DEF RenameMetadata, Goto, ThreadRecords
    <3>2. Listing(t)' /\ Opening(t)' /\ Placing(t)'
      BY <1>0, <3>1 DEF ThreadInv, Listing, Opening, Placing, At, Grows
    <3> QED BY <3>1, <3>2 DEF ThreadInv, Walking, Completing, At
  <2> QED BY <2>1, <2>2
<1>5. CASE CatalogMetadata(t)
  <2>1. th' = [th EXCEPT ![t].pc = "metadata", ![t].x = None, ![t].todo = @ \ {th[t].x}]
        /\ At(t, "catalog")
    BY <1>5 DEF CatalogMetadata
  <2>2. /\ th'[t].pc = "metadata" /\ th'[t].u = th[t].u
        /\ th'[t].ready = th[t].ready /\ th'[t].todo = th[t].todo \ {th[t].x}
    BY <1>0, <2>1 DEF ThreadRecords
  <2>3. Listing(t)' /\ Opening(t)' /\ Placing(t)'
    BY <1>0, <2>1, <2>2 DEF ThreadInv, Listing, Opening, Placing, At, Grows
  <2> QED BY <2>2, <2>3 DEF ThreadInv, Walking, Completing, At
<1>6. CASE MarkPublished(t)
  <2>1. CASE Fail(t)
    BY <2>1, EndsKeep DEF RowsInv
  <2>2. CASE ~Fail(t)
    <3>1. th'[t].pc = "unit" /\ th'[t].ready = th[t].ready /\ At(t, "metadata")
      BY <1>0, <1>6, <2>2 DEF MarkPublished, ThreadRecords
    <3>2. Listing(t)'
      BY <1>0, <3>1 DEF ThreadInv, Listing, At, Grows
    <3> QED BY <3>1, <3>2 DEF ThreadInv, Walking, Opening, Placing, Completing, At
  <2> QED BY <2>1, <2>2
<1>7. CASE EndPublishReady(t)
  BY <1>0, <1>7, FreshKeeps, EndsKeep DEF EndPublishReady, Goto, ThreadRecords, RowsInv
<1> QED BY <1>1, <1>2, <1>3, <1>4, <1>5, <1>6, <1>7 DEF PublishStep

LEMMA CompleteKeeps ==
    ASSUME RowsInv, Grows, NEW t \in Threads, CompleteStep(t)
    PROVE  ThreadInv(t)'
<1>0. th[t] \in ThreadRecords /\ th \in [Threads -> ThreadRecords] /\ ThreadInv(t)
  BY ThreadType DEF RowsInv
<1>1. CASE MarkBatchImported(t)
  <2>1. UNCHANGED th \/ th'[t].pc = "sessionDone"
    BY <1>0, <1>1 DEF MarkBatchImported, Goto, ThreadRecords
  <2> QED BY <1>0, <2>1, FreshKeeps, OthersKeep DEF RowsInv
<1>2. CASE MarkSessionImported(t)
  BY <1>0, <1>2, FreshKeeps DEF MarkSessionImported, Goto, ThreadRecords
<1>3. CASE CountEpoch(t)
  <2> DEFINE e == EpochOfThread(t)
  <2>1. \/ Return(t) \/ Fail(t)
        \/ /\ AllBatchesImported(e) /\ AllUnitsPublished(e)
           /\ th' = [th EXCEPT ![t].pc = "publishable", ![t].seen = epochStatus[e]]
    BY <1>3 DEF CountEpoch
  <2>2. ASSUME AllBatchesImported(e), AllUnitsPublished(e),
               th' = [th EXCEPT ![t].pc = "publishable", ![t].seen = epochStatus[e]]
        PROVE  ThreadInv(t)'
    <3>1. th'[t].pc = "publishable" /\ th'[t].s = th[t].s
      BY <1>0, <2>2 DEF ThreadRecords
    <3>2. UNCHANGED <<batchStatus, unitStatus>>
      BY <1>3 DEF CountEpoch, progress, gate
    <3>3. Completing(t)'
      BY <2>2, <3>1, <3>2 DEF Completing, At, AllBatchesImported, AllUnitsPublished, EpochOfThread
    <3> QED BY <3>1, <3>3 DEF ThreadInv, Walking, Listing, Opening, Placing, At
  <2> QED BY <2>1, <2>2, EndsKeep DEF RowsInv
<1>4. CASE MarkEpochPublishable(t) \/ MarkEpochPublished(t)
  <2>1. th[t].pc \in {"publishable", "publish"} /\ UNCHANGED <<batchStatus, unitStatus>>
    BY <1>4 DEF MarkEpochPublishable, MarkEpochPublished, At, progress, gate
  <2>2. \/ Fail(t)
        \/ th'[t].pc \in {"publish", "complete"} /\ th'[t].s = th[t].s
    BY <1>0, <1>4 DEF MarkEpochPublishable, MarkEpochPublished, TransitionEpoch, Goto, ThreadRecords
  <2>3. ASSUME th'[t].pc \in {"publish", "complete"}, th'[t].s = th[t].s
        PROVE  ThreadInv(t)'
    <3>1. Completing(t)'
      BY <1>0, <2>1, <2>3 DEF ThreadInv, Completing, At, AllBatchesImported, AllUnitsPublished,
                              EpochOfThread
    <3> QED BY <2>3, <3>1 DEF ThreadInv, Walking, Listing, Opening, Placing, At
  <2> QED BY <2>2, <2>3, EndsKeep DEF RowsInv
<1>5. CASE CompleteEpoch(t)
  BY <1>5, EndsKeep DEF CompleteEpoch, RowsInv
<1> QED BY <1>1, <1>2, <1>3, <1>4, <1>5 DEF CompleteStep

(* A request that starts a handler. *)
LEMMA StartKeeps ==
    ASSUME RowsInv, NEW t \in Threads, NEW s \in Sessions,
           \/ StartCompleteBatch(t, s)
           \/ \E p \in Packs : StartCommitPack(t, s, p)
    PROVE  ThreadInv(t)'
<1>0. th \in [Threads -> ThreadRecords]
  BY DEF RowsInv, TypeOK
<1>1. CASE StartCompleteBatch(t, s)
  <2>1. th'[t].pc = "batchDone" /\ th'[t].s = s /\ UNCHANGED imported
    BY <1>0, <1>1 DEF StartCompleteBatch, Idle, gate
  <2>2. BatchEntries(SessionBatch[s]) \subseteq imported
    <3>1. \A p \in BatchPacks(SessionBatch[s]) : PackEntries(p) \subseteq imported
      BY <1>1 DEF StartCompleteBatch, AllPacksImported, BatchPacks, RowsInv, PackDone
    <3> QED BY <3>1, PlanAssumption DEF BatchEntries, BatchPacks, PackEntries
  <2>3. Completing(t)'
    BY <2>1, <2>2 DEF Completing, At, BatchOfThread
  <2> QED BY <2>1, <2>3 DEF ThreadInv, Walking, Listing, Opening, Placing, At
<1>2. ASSUME NEW p \in Packs, StartCommitPack(t, s, p)
      PROVE  ThreadInv(t)'
  <2>1. th'[t].pc = "batch" /\ th'[t].p = p /\ th'[t].todo = PackEntries(p)
    BY <1>0, <1>2 DEF StartCommitPack, Idle
  <2> QED BY <2>1 DEF ThreadInv, Walking, Listing, Opening, Placing, Completing, At
<1> QED BY <1>1, <1>2

(* A step moves at most one thread. *)
LEMMA OneThread ==
    ASSUME TypeOK, [Next]_vars
    PROVE  \/ UNCHANGED th
           \/ \E t \in Threads :
                /\ \A o \in Threads \ {t} : th'[o] = th[o]
                /\ \/ CommitStep(t) \/ PublishStep(t) \/ CompleteStep(t) \/ Abort(t)
                   \/ \E s \in Sessions : \/ StartCompleteBatch(t, s)
                                          \/ \E p \in Packs : StartCommitPack(t, s, p)
<1> DEFINE Only(t) == \A o \in Threads \ {t} : th'[o] = th[o]
<1>0. th \in [Threads -> ThreadRecords]
  BY DEF TypeOK
<1>1. ASSUME NEW t \in Threads, CommitStep(t)
      PROVE  Only(t)
  BY <1>0, <1>1 DEF CommitStep, MarkBatchImporting, MarkSessionImporting, InstallEntry,
              CommitImportedEntry, MarkImportPackCommitted, RemoveUploadedPack, Goto, Fail
<1>2. ASSUME NEW t \in Threads, PublishStep(t)
      PROVE  Only(t)
  BY <1>0, <1>2 DEF PublishStep, ListReadyUnits, OpenUnit, CheckMetadata, RenameMetadata,
              CatalogMetadata, MarkPublished, EndPublishReady, Goto, Fail, Return
<1>3. ASSUME NEW t \in Threads, CompleteStep(t)
      PROVE  Only(t)
  BY <1>0, <1>3 DEF CompleteStep, MarkBatchImported, MarkSessionImported, CountEpoch,
              MarkEpochPublishable, MarkEpochPublished, CompleteEpoch, TransitionEpoch,
              Goto, Fail, Return
<1>4. ASSUME NEW t \in Threads, Abort(t)
      PROVE  Only(t)
  BY <1>0, <1>4 DEF Abort, Fail
<1>5. ASSUME NEW t \in Threads, NEW s \in Sessions, StartCompleteBatch(t, s)
      PROVE  Only(t)
  BY <1>0, <1>5 DEF StartCompleteBatch
<1>6. ASSUME NEW t \in Threads, NEW s \in Sessions, NEW p \in Packs, StartCommitPack(t, s, p)
      PROVE  Only(t)
  BY <1>0, <1>6 DEF StartCommitPack
<1>7. ASSUME NEW s \in Sessions,
             \/ RegisterImportBundle(s) \/ RegisterManifest(s) \/ AppendManifest(s)
             \/ \E p \in Packs : AppendPack(s, p)
      PROVE  UNCHANGED th
  BY <1>7 DEF RegisterImportBundle, RegisterManifest, AppendManifest, AppendPack
<1> QED BY <1>1, <1>2, <1>3, <1>4, <1>5, <1>6, <1>7 DEF Next, Request, HandlerStep, vars

LEMMA ThreadsKeep ==
    ASSUME RowsInv, [Next]_vars
    PROVE  \A t \in Threads : ThreadInv(t)'
<1>1. TypeOK /\ Grows /\ \A t \in Threads : ThreadInv(t)
  BY StepGrows DEF RowsInv
<1>2. CASE UNCHANGED th
  BY <1>1, <1>2, OthersKeep
<1>3. ASSUME NEW t \in Threads,
             \A o \in Threads \ {t} : th'[o] = th[o],
             \/ CommitStep(t) \/ PublishStep(t) \/ CompleteStep(t) \/ Abort(t)
             \/ \E s \in Sessions : \/ StartCompleteBatch(t, s)
                                    \/ \E p \in Packs : StartCommitPack(t, s, p)
      PROVE  \A o \in Threads : ThreadInv(o)'
  <2>1. ThreadInv(t)'
    BY <1>1, <1>3, CommitKeeps, PublishKeeps, CompleteKeeps, StartKeeps, EndsKeep DEF Abort
  <2>2. ASSUME NEW o \in Threads \ {t}
        PROVE  ThreadInv(o)'
    BY <1>1, <1>3, OthersKeep
  <2> QED BY <2>1, <2>2
<1> QED BY <1>1, <1>2, <1>3, OneThread

-----------------------------------------------------------------------------
(* The rows *)

(* A new entry is counted once, in its own unit. *)
LEMMA CountKeeps ==
    ASSUME RowsInv, [Next]_vars
    PROVE  ExactlyOnceCount'
<1>1. CASE UNCHANGED <<unitImported, imported>>
  BY <1>1 DEF RowsInv, ExactlyOnceCount, UnitEntries
<1>2. ASSUME NEW t \in Threads, CommitImportedEntry(t), ~UNCHANGED <<unitImported, imported>>
      PROVE  ExactlyOnceCount'
  <2> DEFINE x == th[t].x
             Of(u) == imported \cap UnitEntries(u)
  <2>1. x \in Entries /\ UnitOf[x] \in Units
    BY <1>2, ThreadType, PlanAssumption DEF RowsInv, ThreadRecords, CommitImportedEntry, At
  <2>2. /\ x \notin imported
        /\ imported' = imported \cup {x}
        /\ unitImported' = [unitImported EXCEPT ![UnitOf[x]] = @ + 1]
    BY <1>2 DEF CommitImportedEntry, Known, gate
  <2>3. ASSUME NEW u \in Units
        PROVE  unitImported'[u] = Cardinality(imported' \cap UnitEntries(u))
    <3>1. unitImported \in [Units -> Nat] /\ unitImported[u] = Cardinality(Of(u))
      BY DEF RowsInv, TypeOK, ExactlyOnceCount
    <3>2. CASE u = UnitOf[x]
      <4>1. imported' \cap UnitEntries(u) = Of(u) \cup {x}
        BY <2>1, <2>2, <3>2 DEF UnitEntries
      <4>2. IsFiniteSet(Of(u)) /\ x \notin Of(u)
        BY <2>2, UnitFinite
      <4>3. Cardinality(Of(u) \cup {x}) = Cardinality(Of(u)) + 1
        BY <4>2, FS_AddElement
      <4> HIDE DEF Of
      <4> QED BY <2>1, <2>2, <3>1, <3>2, <4>1, <4>3
    <3>3. CASE u # UnitOf[x]
      <4>1. imported' \cap UnitEntries(u) = Of(u)
        BY <2>2, <3>3 DEF UnitEntries
      <4> HIDE DEF Of
      <4> QED BY <2>1, <2>2, <3>1, <3>3, <4>1
    <3> QED BY <3>2, <3>3
  <2> QED BY <2>3 DEF ExactlyOnceCount, UnitEntries
<1> QED BY <1>1, <1>2, GateWriters

LEMMA PackKeeps ==
    ASSUME RowsInv, [Next]_vars
    PROVE  PackDone'
<1>1. TypeOK /\ Grows /\ PackDone /\ \A t \in Threads : ThreadInv(t)
  BY StepGrows DEF RowsInv
<1>2. ASSUME NEW p \in Packs, packStatus'[p] = "IMPORTED", packStatus[p] # "IMPORTED"
      PROVE  PackEntries(p) \subseteq imported
  <2>1. ASSUME NEW s \in Sessions, RegisterImportBundle(s)
        PROVE  FALSE
    BY <1>2, <2>1 DEF RegisterImportBundle
  <2>2. ASSUME NEW s \in Sessions, NEW q \in Packs, AppendPack(s, q)
        PROVE  FALSE
    BY <1>1, <1>2, <2>2 DEF AppendPack, TypeOK
  <2>3. ASSUME NEW t \in Threads, MarkImportPackCommitted(t)
        PROVE  PackEntries(p) \subseteq imported
    <3>1. p = th[t].p /\ th[t].todo = {} /\ At(t, "entry")
      BY <1>1, <1>2, <2>3 DEF MarkImportPackCommitted, TypeOK
    <3> QED BY <1>1, <3>1 DEF ThreadInv, Walking, At
  <2> QED BY <1>2, <2>1, <2>2, <2>3, ProgressWriters
<1> QED BY <1>1, <1>2 DEF PackDone, Grows, PackEntries

LEMMA BatchKeeps ==
    ASSUME RowsInv, [Next]_vars
    PROVE  BatchDone'
<1>1. TypeOK /\ Grows /\ BatchDone /\ \A t \in Threads : ThreadInv(t)
  BY StepGrows DEF RowsInv
<1>2. ASSUME NEW b \in Batches, batchStatus'[b] = "IMPORTED", batchStatus[b] # "IMPORTED"
      PROVE  BatchEntries(b) \subseteq imported
  <2>1. ASSUME NEW s \in Sessions, RegisterImportBundle(s)
        PROVE  FALSE
    BY <1>1, <1>2, <2>1 DEF RegisterImportBundle, TypeOK
  <2>2. ASSUME NEW t \in Threads, MarkBatchImporting(t)
        PROVE  FALSE
    BY <1>1, <1>2, <2>2 DEF MarkBatchImporting, TypeOK
  <2>3. ASSUME NEW t \in Threads, MarkBatchImported(t)
        PROVE  BatchEntries(b) \subseteq imported
    <3>1. b = BatchOfThread(t) /\ At(t, "batchDone")
      BY <1>1, <1>2, <2>3 DEF MarkBatchImported, TypeOK
    <3> QED BY <1>1, <3>1 DEF ThreadInv, Completing
  <2> QED BY <1>2, <2>1, <2>2, <2>3, ProgressWriters
<1> QED BY <1>1, <1>2 DEF BatchDone, Grows, BatchEntries

LEMMA UnitKeeps ==
    ASSUME RowsInv, [Next]_vars
    PROVE  UnitDone'
<1>1. TypeOK /\ Grows /\ UnitDone /\ ExactlyOnceCount
  BY StepGrows DEF RowsInv
<1>2. ASSUME NEW u \in Units, unitStatus'[u] = "PUBLISHED", unitStatus[u] # "PUBLISHED"
      PROVE  UnitEntries(u) \subseteq imported
  <2>1. ASSUME NEW s \in Sessions, RegisterManifest(s)
        PROVE  FALSE
    BY <1>1, <1>2, <2>1 DEF RegisterManifest, TypeOK
  <2>2. ASSUME NEW t \in Threads, CommitImportedEntry(t)
        PROVE  FALSE
    BY <1>1, <1>2, <2>2 DEF CommitImportedEntry, TypeOK, gate
  <2>3. ASSUME NEW t \in Threads, MarkPublished(t)
        PROVE  UnitEntries(u) \subseteq imported
    <3>1. unitImported[u] = Required(u)
      BY <1>1, <1>2, <2>3 DEF MarkPublished, TypeOK
    <3> QED BY <1>1, <3>1, UnitFull
  <2> QED BY <1>2, <2>1, <2>2, <2>3, GateWriters
<1> QED BY <1>1, <1>2 DEF UnitDone, Grows, UnitEntries

(* The step of a handler that writes an epoch status: the epoch was open   *)
(* before, and all it has is imported and published.                       *)
LEMMA EpochWritten ==
    ASSUME RowsInv, NEW t \in Threads,
           \/ MarkEpochPublishable(t) \/ MarkEpochPublished(t)
           \/ CompleteEpoch(t)
    PROVE  \/ UNCHANGED <<cursor, active, epochStatus>>
           \/ \E e \in Epochs, to \in {"PUBLISHABLE", "PUBLISHED", "COMPLETE"} :
                /\ epochStatus' = [epochStatus EXCEPT ![e] = to]
                /\ epochStatus[e] \notin {"ABSENT", "COMPLETE"}
                /\ AllBatchesImported(e) /\ AllUnitsPublished(e)
                /\ IF to = "COMPLETE"
                     THEN active = e /\ cursor' = Target[e] /\ active' = None
                     ELSE UNCHANGED <<cursor, active>>
<1> DEFINE e == EpochOfThread(t)
<1>0. /\ th[t] \in ThreadRecords /\ ThreadInv(t)
      /\ epochStatus \in [Epochs -> EpochStatuses \cup {"ABSENT"}]
  BY ThreadType DEF RowsInv, TypeOK
<1>1. At(t, "publishable") \/ At(t, "publish") \/ At(t, "complete")
  BY DEF MarkEpochPublishable, MarkEpochPublished, CompleteEpoch
<1>2. e \in Epochs /\ AllBatchesImported(e) /\ AllUnitsPublished(e)
  BY <1>0, <1>1, PlanAssumption, SourceAssumption
  DEF ThreadInv, Completing, At, ThreadRecords, EpochOfThread
<1>3. CASE MarkEpochPublishable(t)
  <2>1. \/ UNCHANGED epochStatus
        \/ /\ CanTransitionEpoch(epochStatus[e], "PUBLISHABLE")
           /\ epochStatus' = [epochStatus EXCEPT ![e] = "PUBLISHABLE"]
    BY <1>3 DEF MarkEpochPublishable, TransitionEpoch
  <2>2. CanTransitionEpoch(epochStatus[e], "PUBLISHABLE") => epochStatus[e] \notin {"ABSENT", "COMPLETE"}
    BY DEF CanTransitionEpoch
  <2>3. UNCHANGED <<cursor, active>>
    BY <1>3 DEF MarkEpochPublishable
  <2> QED BY <1>2, <2>1, <2>2, <2>3
<1>4. CASE MarkEpochPublished(t)
  <2>1. \/ UNCHANGED epochStatus
        \/ /\ CanTransitionEpoch(epochStatus[e], "PUBLISHED")
           /\ epochStatus' = [epochStatus EXCEPT ![e] = "PUBLISHED"]
    BY <1>4 DEF MarkEpochPublished, TransitionEpoch
  <2>2. CanTransitionEpoch(epochStatus[e], "PUBLISHED") => epochStatus[e] \notin {"ABSENT", "COMPLETE"}
    BY DEF CanTransitionEpoch
  <2>3. UNCHANGED <<cursor, active>>
    BY <1>4 DEF MarkEpochPublished
  <2> QED BY <1>2, <2>1, <2>2, <2>3
<1>5. CASE CompleteEpoch(t)
  <2>1. \/ UNCHANGED source
        \/ /\ epochStatus' = [epochStatus EXCEPT ![e] = "COMPLETE"]
           /\ epochStatus[e] = "PUBLISHED" /\ active = e
           /\ cursor' = Target[e] /\ active' = None
    BY <1>5 DEF CompleteEpoch
  <2> QED BY <1>2, <2>1 DEF source
<1> QED BY <1>3, <1>4, <1>5

LEMMA EpochKeeps ==
    ASSUME RowsInv, [Next]_vars
    PROVE  EpochDone'
<1> DEFINE done == {"PUBLISHABLE", "PUBLISHED", "COMPLETE"}
<1>1. TypeOK /\ Grows /\ EpochDone
  BY StepGrows DEF RowsInv
<1>2. ASSUME NEW e \in Epochs, epochStatus'[e] \in done
      PROVE  AllBatchesImported(e) /\ AllUnitsPublished(e)
  <2>1. CASE UNCHANGED <<cursor, active, epochStatus>>
    BY <1>1, <1>2, <2>1 DEF EpochDone
  <2>2. ASSUME NEW s \in Sessions, RegisterImportBundle(s)
        PROVE  epochStatus[e] \in done
    BY <1>1, <1>2, <2>2 DEF RegisterImportBundle, TypeOK
  <2>3. ASSUME NEW o \in Epochs, NEW to \in done,
               epochStatus' = [epochStatus EXCEPT ![o] = to],
               AllBatchesImported(o), AllUnitsPublished(o)
        PROVE  AllBatchesImported(e) /\ AllUnitsPublished(e)
    <3>1. e = o \/ epochStatus'[e] = epochStatus[e]
      BY <1>1, <2>3 DEF TypeOK
    <3> QED BY <1>1, <1>2, <2>3, <3>1 DEF EpochDone
  <2> QED BY <1>1, <2>1, <2>2, <2>3, SourceWriters, EpochWritten DEF EpochDone
<1>3. ASSUME NEW e \in Epochs, AllBatchesImported(e), AllUnitsPublished(e)
      PROVE  AllBatchesImported(e)' /\ AllUnitsPublished(e)'
  BY <1>1, <1>3 DEF Grows, AllBatchesImported, AllUnitsPublished, EpochBatches, EpochUnits
<1> QED BY <1>2, <1>3 DEF EpochDone

(* No second epoch opens while one is open, and the open one stays the     *)
(* active one until it is complete.                                        *)
LEMMA OpenKeeps ==
    ASSUME RowsInv, [Next]_vars
    PROVE  OpenIsActive'
<1> DEFINE closed == {"ABSENT", "COMPLETE"}
<1>1. TypeOK /\ OpenIsActive
  BY DEF RowsInv
<1>2. ASSUME NEW e \in Epochs, epochStatus'[e] \notin closed
      PROVE  active' = e /\ cursor' = Base[e]
  <2>1. CASE UNCHANGED <<cursor, active, epochStatus>>
    BY <1>1, <1>2, <2>1 DEF OpenIsActive
  <2>2. ASSUME NEW s \in Sessions, RegisterImportBundle(s)
        PROVE  active' = e /\ cursor' = Base[e]
    <3> DEFINE r == EpochOf[SessionBatch[s]]
    <3>1. /\ r \in Epochs /\ cursor = Base[r] /\ active \in {None, r}
          /\ active' = r /\ cursor' = cursor
          /\ epochStatus[r] = "ABSENT" => \A o \in Epochs : epochStatus[o] \in closed
          /\ \A o \in Epochs \ {r} : epochStatus'[o] = epochStatus[o]
          /\ epochStatus[r] = "ABSENT" \/ epochStatus'[r] = epochStatus[r]
      BY <1>1, <2>2, PlanAssumption, SourceAssumption DEF RegisterImportBundle, CanJoin, TypeOK
    <3>2. e = r
      BY <1>1, <1>2, <3>1, SourceAssumption DEF OpenIsActive
    <3> QED BY <3>1, <3>2
  <2>3. ASSUME NEW o \in Epochs, NEW to \in {"PUBLISHABLE", "PUBLISHED", "COMPLETE"},
               epochStatus' = [epochStatus EXCEPT ![o] = to],
               epochStatus[o] \notin closed,
               IF to = "COMPLETE"
                 THEN active = o /\ cursor' = Target[o] /\ active' = None
                 ELSE UNCHANGED <<cursor, active>>
        PROVE  active' = e /\ cursor' = Base[e]
    <3>1. epochStatus[e] \notin closed
      BY <1>1, <1>2, <2>3 DEF TypeOK
    <3>2. active = e /\ cursor = Base[e] /\ active = o
      BY <1>1, <2>3, <3>1 DEF OpenIsActive
    <3>3. to # "COMPLETE"
      BY <1>1, <1>2, <2>3, <3>2 DEF TypeOK
    <3> QED BY <2>3, <3>2, <3>3
  <2> QED BY <1>1, <2>1, <2>2, <2>3, SourceWriters, EpochWritten
<1> QED BY <1>2 DEF OpenIsActive

(* The rows keep their promises whatever becomes of the files. *)
LEMMA RowsKeep ==
    ASSUME RowsInv, [Next]_vars
    PROVE  RowsInv'
<1>1. TypeOK'
  BY TypeStep DEF RowsInv
<1> QED
  BY <1>1, CountKeeps, PackKeeps, BatchKeeps, UnitKeeps, EpochKeeps, OpenKeeps, ThreadsKeep
  DEF RowsInv

-----------------------------------------------------------------------------
(* The repository *)

(* An artifact in place is never replaced: another one with the same path  *)
(* and another content is a conflict, and metadata has paths of its own.   *)
LEMMA ArtifactStays ==
    ASSUME TypeOK, [Next]_vars, NEW a \in Artifacts, disk[PathOf[a]] = ContentOf[a]
    PROVE  disk'[PathOf[a]] = ContentOf[a]
<1> USE PlanAssumption DEF Artifacts
<1>1. PathOf[a] \in Paths /\ disk \in [Paths -> ContentOrNone] /\ ContentOf[a] # None
  BY DEF TypeOK
<1>2. \A m \in Metadata : PathOf[m] # PathOf[a]
  BY DEF MetadataPaths
<1>3. ASSUME NEW t \in Threads, InstallEntry(t)
      PROVE  disk'[PathOf[a]] = ContentOf[a]
  <2>1. \/ UNCHANGED disk
        \/ \E x \in th[t].todo : ~Conflicts(x) /\ disk' = [disk EXCEPT ![PathOf[x]] = ContentOf[x]]
    BY <1>3 DEF InstallEntry
  <2> QED BY <1>1, <2>1 DEF Conflicts
<1>4. ASSUME NEW t \in Threads, CheckMetadata(t)
      PROVE  disk'[PathOf[a]] = ContentOf[a]
  <2>1. \/ UNCHANGED disk
        \/ \E m \in Metadata : disk' = [disk EXCEPT ![PathOf[m]] = None]
    BY <1>4 DEF CheckMetadata
  <2> QED BY <1>1, <1>2, <2>1
<1>5. ASSUME NEW t \in Threads, RenameMetadata(t)
      PROVE  disk'[PathOf[a]] = ContentOf[a]
  <2>1. \/ UNCHANGED disk
        \/ \E m \in Metadata : disk' = [disk EXCEPT ![PathOf[m]] = ContentOf[m]]
    BY <1>5 DEF RenameMetadata, TypeOK
  <2> QED BY <1>1, <1>2, <2>1
<1> QED BY <1>3, <1>4, <1>5, RepositoryWriters

(* A handler comes to record an entry only by installing it. *)
LEMMA InsertedByInstall ==
    ASSUME TypeOK, [Next]_vars, NEW t \in Threads, th'[t].pc = "insert"
    PROVE  th'[t] = th[t] \/ InstallEntry(t)
<1>0. th \in [Threads -> ThreadRecords] /\ th[t] \in ThreadRecords
  BY ThreadType DEF TypeOK
<1>1. ASSUME CommitStep(t) \/ PublishStep(t) \/ CompleteStep(t) \/ Abort(t)
      PROVE  th'[t] = th[t] \/ th'[t].pc # "insert" \/ InstallEntry(t)
  <2>1. CASE CommitStep(t)
    BY <1>0, <2>1 DEF CommitStep, MarkBatchImporting, MarkSessionImporting, CommitImportedEntry,
       MarkImportPackCommitted, RemoveUploadedPack, Goto, Fail, Failed, Idle, ThreadRecords
  <2>2. CASE PublishStep(t)
    <3>1. CASE OpenUnit(t)
      BY <1>0, <3>1 DEF OpenUnit, Fail, Failed, Idle, ThreadRecords
    <3>2. CASE CheckMetadata(t)
      BY <1>0, <3>2 DEF CheckMetadata, Fail, Failed, Idle, ThreadRecords
    <3> QED
      BY <1>0, <2>2, <3>1, <3>2 DEF PublishStep, ListReadyUnits, RenameMetadata,
         CatalogMetadata, MarkPublished, EndPublishReady, Goto, Fail, Return, Failed, Idle,
         ThreadRecords
  <2>3. CASE CompleteStep(t) \/ Abort(t)
    BY <1>0, <2>3 DEF CompleteStep, MarkBatchImported, MarkSessionImported, CountEpoch,
       MarkEpochPublishable, MarkEpochPublished, CompleteEpoch, TransitionEpoch, Abort,
       Goto, Fail, Return, Failed, Idle, ThreadRecords
  <2> QED BY <1>1, <2>1, <2>2, <2>3
<1>2. ASSUME NEW s \in Sessions,
             \/ StartCompleteBatch(t, s)
             \/ \E p \in Packs : StartCommitPack(t, s, p)
      PROVE  th'[t].pc # "insert"
  <2>1. \E r \in {"batchDone", "batch"} : th'[t].pc = r
    BY <1>0, <1>2 DEF StartCompleteBatch, StartCommitPack, Idle
  <2> QED BY <2>1
<1> QED BY <1>1, <1>2, OneThread

(* The artifact a handler has installed stands there until it is recorded. *)
LEMMA InsertingKeeps ==
    ASSUME TypeOK, [Next]_vars, NEW t \in Threads, Inserting(t)
    PROVE  Inserting(t)'
<1> USE PlanAssumption DEF Artifacts
<1>0. th \in [Threads -> ThreadRecords] /\ th[t] \in ThreadRecords
  BY ThreadType DEF TypeOK
<1>1. CASE th'[t] = th[t]
  BY <1>1, ArtifactStays DEF Inserting, At
<1>2. CASE th'[t].pc # "insert"
  BY <1>2 DEF Inserting, At
<1>3. CASE InstallEntry(t)
  <2>1. PICK x \in th[t].todo :
          \/ Fail(t)
          \/ /\ th' = [th EXCEPT ![t].pc = "insert", ![t].x = x]
             /\ x \in Artifacts => disk' = [disk EXCEPT ![PathOf[x]] = ContentOf[x]]
    BY <1>3 DEF InstallEntry
  <2>2. CASE Fail(t)
    BY <1>0, <1>2, <2>2 DEF Fail, Failed, Idle
  <2>3. CASE /\ th' = [th EXCEPT ![t].pc = "insert", ![t].x = x]
             /\ x \in Artifacts => disk' = [disk EXCEPT ![PathOf[x]] = ContentOf[x]]
    <3>1. th'[t].pc = "insert" /\ th'[t].x = x
      BY <1>0, <2>3 DEF ThreadRecords
    <3>2. x \in Entries /\ PathOf[x] \in Paths
      BY <1>0 DEF ThreadRecords
    <3> QED BY <2>3, <3>1, <3>2 DEF Inserting, At, TypeOK
  <2> QED BY <2>1, <2>2, <2>3
<1> QED BY <1>1, <1>2, <1>3, InsertedByInstall

(* The catalog entry of an imported artifact is replaced only by the one   *)
(* of an artifact with the same path, and that one is installed too.       *)
LEMMA InstalledKeeps ==
    ASSUME IInv, [Next]_vars
    PROVE  ImportedIsInstalled'
<1> USE PlanAssumption DEF Artifacts
<1>1. TypeOK /\ \A t \in Threads : ThreadInv(t) /\ Inserting(t)
  BY DEF IInv, RowsInv
<1>2. ASSUME NEW a \in Artifacts, a \in imported
      PROVE  catalog'[PathOf[a]] = ContentOf[a]
  <2>1. /\ catalog[PathOf[a]] = ContentOf[a] /\ disk[PathOf[a]] = ContentOf[a]
        /\ PathOf[a] \in Paths /\ catalog \in [Paths -> ContentOrNone]
    BY <1>1, <1>2 DEF IInv, TypeOK, ImportedIsInstalled, Installed
  <2>2. ASSUME NEW t \in Threads, CommitImportedEntry(t)
        PROVE  catalog'[PathOf[a]] = ContentOf[a]
    <3>1. \/ UNCHANGED catalog
          \/ catalog' = CatalogWith(th[t].x) /\ At(t, "insert")
      BY <2>2 DEF CommitImportedEntry
    <3>2. th[t].x \in Artifacts /\ At(t, "insert") => disk[PathOf[th[t].x]] = ContentOf[th[t].x]
      BY <1>1 DEF Inserting
    <3> QED BY <2>1, <3>1, <3>2 DEF CatalogWith
  <2>3. ASSUME NEW t \in Threads, CatalogMetadata(t)
        PROVE  catalog'[PathOf[a]] = ContentOf[a]
    <3>1. th[t].x \in Metadata
      BY <1>1, <2>3 DEF CatalogMetadata, At, ThreadInv, Opening, Placing
    <3>2. PathOf[th[t].x] # PathOf[a]
      BY <3>1 DEF MetadataPaths
    <3> QED BY <2>1, <2>3, <3>2 DEF CatalogMetadata
  <2> QED BY <2>1, <2>2, <2>3, RepositoryWriters
<1>3. ASSUME NEW a \in Artifacts, a \in imported
      PROVE  disk'[PathOf[a]] = ContentOf[a]
  BY <1>1, <1>3, ArtifactStays DEF IInv, ImportedIsInstalled, Installed
<1>4. ASSUME NEW a \in Artifacts, a \in imported', a \notin imported
      PROVE  disk'[PathOf[a]] = ContentOf[a] /\ catalog'[PathOf[a]] = ContentOf[a]
  <2>1. PICK t \in Threads : CommitImportedEntry(t)
    BY <1>4, GateWriters
  <2>2. a = th[t].x /\ catalog' = CatalogWith(a) /\ At(t, "insert")
    BY <1>4, <2>1 DEF CommitImportedEntry, gate
  <2>3. disk[PathOf[a]] = ContentOf[a]
    BY <1>1, <1>4, <2>2 DEF Inserting
  <2>4. catalog \in [Paths -> ContentOrNone] /\ PathOf[a] \in Paths
    BY <1>1 DEF TypeOK
  <2> QED BY <1>1, <1>4, <2>2, <2>3, <2>4, ArtifactStays DEF CatalogWith
<1> QED BY <1>2, <1>3, <1>4 DEF ImportedIsInstalled, Installed

-----------------------------------------------------------------------------
(* Every reachable state satisfies the inductive invariant: what the rows  *)
(* promise holds, and what every handler relies on is still true, whatever *)
(* the interleaving of handlers, retries, sessions and aborts.             *)
THEOREM InductiveInvariant == Spec => []IInv
<1>1. Init => IInv
  <2> SUFFICES ASSUME Init
               PROVE  IInv
    OBVIOUS
  <2>1. TypeOK
    BY PlanAssumption, SourceAssumption, IdleType
    DEF Init, TypeOK, ContentOrNone, SessionStatuses, UnitStatuses
  <2>2. ExactlyOnceCount
    BY FS_EmptySet DEF Init, ExactlyOnceCount
  <2>3. ImportedIsInstalled /\ PackDone /\ BatchDone /\ UnitDone /\ EpochDone /\ OpenIsActive
    BY DEF Init, ImportedIsInstalled, PackDone, BatchDone, UnitDone, EpochDone, OpenIsActive
  <2>4. \A t \in Threads : ThreadInv(t) /\ Inserting(t)
    BY DEF Init, Idle, ThreadInv, Walking, Inserting, Listing, Opening, Placing, Completing, At
  <2> QED BY <2>1, <2>2, <2>3, <2>4 DEF IInv, RowsInv
<1>2. IInv /\ [Next]_vars => IInv'
  <2> SUFFICES ASSUME IInv, [Next]_vars
               PROVE  IInv'
    OBVIOUS
  <2>1. RowsInv'
    BY RowsKeep DEF IInv
  <2>2. \A t \in Threads : Inserting(t)'
    BY InsertingKeeps DEF IInv, RowsInv
  <2> QED BY <2>1, <2>2, InstalledKeeps DEF IInv
<1> QED BY <1>1, <1>2, PTL DEF Spec

LEMMA RowsInvariant == Spec => []RowsInv
<1>1. IInv => RowsInv
  BY DEF IInv
<1> QED BY <1>1, InductiveInvariant, PTL

(* imported_count counts every entry of a unit exactly once, however often *)
(* packs are committed again (CommitImportedEntry).                        *)
THEOREM CountsExactlyOnce == Spec => []ExactlyOnceCount
<1>1. IInv => ExactlyOnceCount
  BY DEF IInv, RowsInv
<1> QED BY <1>1, InductiveInvariant, PTL

(* An imported artifact is in the repository and in the catalog, and no    *)
(* later step replaces it (Install, CommitImportedEntry, publishMetadata). *)
THEOREM ImportedArtifactsInstalled == Spec => []ImportedIsInstalled
<1>1. IInv => ImportedIsInstalled
  BY DEF IInv
<1> QED BY <1>1, InductiveInvariant, PTL

(* A batch that is IMPORTED is complete, and so is an epoch from           *)
(* PUBLISHABLE on, with all its units published (CompleteBatch).           *)
LEMMA CompletionFollows == RowsInv => CompletionIsTotal
<1> SUFFICES ASSUME RowsInv
             PROVE  CompletionIsTotal
  OBVIOUS
<1>1. ASSUME NEW e \in Epochs, AllBatchesImported(e)
      PROVE  EpochEntries(e) \subseteq imported
  <2>1. \A b \in EpochBatches(e) : BatchEntries(b) \subseteq imported
    BY <1>1 DEF RowsInv, BatchDone, AllBatchesImported, EpochBatches
  <2> QED BY <2>1, PlanAssumption DEF EpochEntries, EpochBatches, BatchEntries
<1> QED BY <1>1 DEF RowsInv, BatchDone, EpochDone, CompletionIsTotal, AllUnitsPublished

THEOREM CompletionTotal == Spec => []CompletionIsTotal
BY CompletionFollows, RowsInvariant, PTL

(* The cursor moves from the base to the target of the active epoch, in    *)
(* the step that completes it with everything imported and published.      *)
THEOREM CursorMovesAlongEpochs == Spec => CursorAdvances
<1> DEFINE Advance(e) == /\ cursor = Base[e] /\ cursor' = Target[e]
                         /\ active = e /\ active' = None
                         /\ EpochEntries(e) \subseteq imported
                         /\ \A u \in EpochUnits(e) : unitStatus[u] = "PUBLISHED"
<1>1. ASSUME IInv, [Next]_vars, cursor' # cursor
      PROVE  \E e \in Epochs : Advance(e)
  <2>1. ASSUME NEW s \in Sessions, RegisterImportBundle(s)
        PROVE  FALSE
    BY <1>1, <2>1 DEF RegisterImportBundle
  <2>2. ASSUME NEW e \in Epochs, epochStatus[e] \notin {"ABSENT", "COMPLETE"},
               AllBatchesImported(e), AllUnitsPublished(e),
               active = e, cursor' = Target[e], active' = None
        PROVE  Advance(e)
    <3>1. cursor = Base[e]
      BY <1>1, <2>2 DEF IInv, RowsInv, OpenIsActive
    <3>2. EpochEntries(e) \subseteq imported
      <4>1. \A b \in EpochBatches(e) : BatchEntries(b) \subseteq imported
        BY <1>1, <2>2 DEF IInv, RowsInv, BatchDone, AllBatchesImported, EpochBatches
      <4> QED BY <4>1, PlanAssumption DEF EpochEntries, EpochBatches, BatchEntries
    <3> QED BY <2>2, <3>1, <3>2 DEF AllUnitsPublished
  <2> HIDE DEF Advance
  <2> QED BY <1>1, <2>1, <2>2, SourceWriters, EpochWritten DEF IInv
<1>2. IInv /\ [Next]_vars => [cursor' # cursor => \E e \in Epochs : Advance(e)]_vars
  BY <1>1
<1> QED BY <1>2, InductiveInvariant, PTL DEF Spec, CursorAdvances

(* A metadata file changes only to the content of an entry whose whole     *)
(* unit is imported, with the unit's artifacts in place (PublishReady).    *)
THEOREM MetadataComesLast == Spec => MetadataLast
<1> DEFINE Appears(path) == \E m \in Metadata : /\ PathOf[m] = path
                                                /\ ContentOf[m] = disk'[path]
                                                /\ MayAppear(m)
<1>1. ASSUME IInv, [Next]_vars, NEW path \in MetadataPaths, disk'[path] # disk[path]
      PROVE  Appears(path)
  <2> USE PlanAssumption
  <2>1. path \in Paths /\ disk \in [Paths -> ContentOrNone] /\ \A t \in Threads : ThreadInv(t)
    BY <1>1 DEF IInv, RowsInv, TypeOK, MetadataPaths
  <2>2. ASSUME NEW t \in Threads, th[t].pc \in {"metadata", "rename"}, NEW m \in th[t].todo,
               disk' = [disk EXCEPT ![PathOf[m]] = ContentOf[m]]
        PROVE  Appears(path)
    <3>1. /\ m \in Metadata /\ UnitEntries(UnitOf[m]) \subseteq imported
      BY <2>1, <2>2 DEF ThreadInv, Opening, UnitEntries
    <3>2. MayAppear(m)
      BY <1>1, <3>1 DEF MayAppear, IInv, ImportedIsInstalled
    <3>3. path = PathOf[m] /\ disk'[path] = ContentOf[m]
      BY <1>1, <2>1, <2>2
    <3> QED BY <3>1, <3>2, <3>3
  <2>3. ASSUME NEW t \in Threads, InstallEntry(t)
        PROVE  FALSE
    <3>1. PICK x \in Artifacts : disk' = [disk EXCEPT ![PathOf[x]] = ContentOf[x]]
      BY <1>1, <2>3 DEF InstallEntry
    <3>2. PathOf[x] # path
      BY <3>1
    <3> QED BY <1>1, <2>1, <3>1, <3>2
  <2>4. ASSUME NEW t \in Threads, CheckMetadata(t)
        PROVE  \E m \in th[t].todo : disk' = [disk EXCEPT ![PathOf[m]] = ContentOf[m]]
    BY <1>1, <2>4 DEF CheckMetadata, IsNext
  <2>5. ASSUME NEW t \in Threads, RenameMetadata(t)
        PROVE  th[t].x \in th[t].todo /\ disk' = [disk EXCEPT ![PathOf[th[t].x]] = ContentOf[th[t].x]]
    BY <1>1, <2>1, <2>5 DEF RenameMetadata, ThreadInv, Placing, At
  <2>6. \/ \E t \in Threads : CheckMetadata(t)
        \/ \E t \in Threads : RenameMetadata(t)
    BY <1>1, <2>3, RepositoryWriters
  <2> HIDE DEF Appears
  <2> QED BY <2>2, <2>4, <2>5, <2>6 DEF CheckMetadata, RenameMetadata, At
<1>2. IInv /\ [Next]_vars => [\A path \in MetadataPaths : disk'[path] # disk[path] => Appears(path)]_vars
  BY <1>1
<1> QED BY <1>2, InductiveInvariant, PTL DEF Spec, MetadataLast
=============================================================================
