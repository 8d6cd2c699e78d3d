----------------------- MODULE ImportPublishRefinement -----------------------
(***************************************************************************)
(* ImportPublish over a chain of epochs: it implements MirrorSync and      *)
(* keeps one open epoch at a time, if the cursors of a source never come   *)
(* back (every epoch leads to a cursor of a higher rank than its base);    *)
(* and it serves what it has completed, if moreover no publisher outlives  *)
(* its epoch.                                                              *)
(***************************************************************************)
EXTENDS ImportPublishProofs, Serving

-----------------------------------------------------------------------------
(* Sessions, packs, units and threads belong together *)

LEMMA SessionWriters ==
    ASSUME [Next]_vars
    PROVE  /\ \/ UNCHANGED session
              \/ \E s \in Sessions : \/ RegisterImportBundle(s)
                                     \/ RegisterManifest(s)
                                     \/ AppendManifest(s)
              \/ \E t \in Threads : MarkSessionImporting(t) \/ MarkSessionImported(t)
           /\ \/ UNCHANGED importPack
              \/ \E s \in Sessions : RegisterImportBundle(s) \/ \E p \in Packs : AppendPack(s, p)
              \/ \E t \in Threads : MarkImportPackCommitted(t)
<1> DEFINE Same == UNCHANGED <<session, importPack>>
<1>1. ASSUME Request
      PROVE  \/ Same
             \/ \E s \in Sessions : RegisterImportBundle(s)
             \/ UNCHANGED importPack /\ \E s \in Sessions : RegisterManifest(s) \/ AppendManifest(s)
             \/ UNCHANGED session /\ \E s \in Sessions, p \in Packs : AppendPack(s, p)
  <2>1. ASSUME NEW s \in Sessions, RegisterManifest(s) \/ AppendManifest(s)
        PROVE  UNCHANGED importPack
    BY <2>1 DEF RegisterManifest, AppendManifest
  <2>2. ASSUME NEW s \in Sessions, NEW p \in Packs, AppendPack(s, p)
        PROVE  UNCHANGED session
    BY <2>2 DEF AppendPack
  <2>3. ASSUME NEW t \in Threads, NEW s \in Sessions,
               \/ StartCompleteBatch(t, s)
               \/ \E p \in Packs : StartCommitPack(t, s, p)
        PROVE  Same
    BY <2>3 DEF StartCompleteBatch, StartCommitPack, progress
  <2> QED BY <1>1, <2>1, <2>2, <2>3 DEF Request
<1>2. ASSUME NEW t \in Threads, CommitStep(t)
      PROVE  \/ Same
             \/ UNCHANGED importPack /\ MarkSessionImporting(t)
             \/ UNCHANGED session /\ MarkImportPackCommitted(t)
  BY <1>2 DEF CommitStep, MarkBatchImporting, MarkSessionImporting, InstallEntry,
              CommitImportedEntry, MarkImportPackCommitted, RemoveUploadedPack, progress
<1>3. ASSUME NEW t \in Threads, PublishStep(t)
      PROVE  Same
  BY <1>3 DEF PublishStep, ListReadyUnits, OpenUnit, CheckMetadata, RenameMetadata,
              CatalogMetadata, MarkPublished, EndPublishReady, progress
<1>4. ASSUME NEW t \in Threads, CompleteStep(t)
      PROVE  \/ Same
             \/ UNCHANGED importPack /\ MarkSessionImported(t)
  BY <1>4 DEF CompleteStep, MarkBatchImported, MarkSessionImported, CountEpoch,
              MarkEpochPublishable, MarkEpochPublished, CompleteEpoch, progress
<1>5. ASSUME NEW t \in Threads, Abort(t)
      PROVE  Same
  BY <1>5 DEF Abort, progress
<1> QED BY <1>1, <1>2, <1>3, <1>4, <1>5 DEF Next, HandlerStep, vars, progress

(* A registered session stays registered, and so does its epoch. *)
LEMMA SessionStays ==
    ASSUME RowsInv, [Next]_vars, NEW s \in Sessions, session[s] # "ABSENT"
    PROVE  session'[s] # "ABSENT"
<1> USE DEF ManifestReady
<1>0. session \in [Sessions -> SessionStatuses]
  BY DEF RowsInv, TypeOK
<1>1. ASSUME NEW r \in Sessions,
             RegisterImportBundle(r) \/ RegisterManifest(r) \/ AppendManifest(r)
      PROVE  session'[s] # "ABSENT"
  BY <1>0, <1>1 DEF RegisterImportBundle, RegisterManifest, AppendManifest
<1>2. ASSUME NEW t \in Threads, MarkSessionImporting(t) \/ MarkSessionImported(t)
      PROVE  session'[s] # "ABSENT"
  BY <1>0, <1>2 DEF MarkSessionImporting, MarkSessionImported
<1> QED BY <1>1, <1>2, SessionWriters

LEMMA EpochStays ==
    ASSUME RowsInv, [Next]_vars, NEW e \in Epochs, epochStatus[e] # "ABSENT"
    PROVE  epochStatus'[e] # "ABSENT"
<1>0. epochStatus \in [Epochs -> EpochStatuses \cup {"ABSENT"}]
  BY DEF RowsInv, TypeOK
<1>1. ASSUME NEW s \in Sessions, RegisterImportBundle(s)
      PROVE  epochStatus'[e] # "ABSENT"
  BY <1>0, <1>1 DEF RegisterImportBundle
<1>2. ASSUME NEW o \in Epochs, NEW to \in {"PUBLISHABLE", "PUBLISHED", "COMPLETE"},
             epochStatus' = [epochStatus EXCEPT ![o] = to]
      PROVE  epochStatus'[e] # "ABSENT"
  BY <1>0, <1>2
<1> QED BY <1>1, <1>2, SourceWriters, EpochWritten

LEMMA SessionsKeep ==
    ASSUME RowsInv, Belongs, [Next]_vars
    PROVE  SessionRows'
<1>0. /\ session \in [Sessions -> SessionStatuses]
      /\ epochStatus \in [Epochs -> EpochStatuses \cup {"ABSENT"}]
      /\ importPack \in [Sessions -> [Packs -> PackStatuses \cup {"ABSENT"}]]
      /\ \A s \in Sessions : SessionBatch[s] \in Batches /\ EpochOf[SessionBatch[s]] \in Epochs
  BY PlanAssumption, SourceAssumption DEF RowsInv, TypeOK
<1>1. ASSUME NEW s \in Sessions, session'[s] # "ABSENT"
      PROVE  epochStatus'[EpochOf[SessionBatch[s]]] # "ABSENT"
  <2>1. CASE session[s] # "ABSENT"
    BY <1>0, <2>1, EpochStays DEF Belongs, SessionRows
  <2>2. ASSUME session[s] = "ABSENT"
        PROVE  RegisterImportBundle(s)
    <3>1. ASSUME NEW r \in Sessions, RegisterManifest(r) \/ AppendManifest(r)
          PROVE  FALSE
      BY <1>0, <1>1, <2>2, <3>1 DEF RegisterManifest, AppendManifest
    <3>2. ASSUME NEW r \in Sessions, RegisterImportBundle(r)
          PROVE  r = s
      BY <1>0, <1>1, <2>2, <3>2 DEF RegisterImportBundle
    <3>3. ASSUME NEW t \in Threads, MarkSessionImporting(t) \/ MarkSessionImported(t)
          PROVE  FALSE
      <4>1. th[t].s # s
        BY <2>2, <3>3 DEF Belongs, Belonging, Resting, At, MarkSessionImporting, MarkSessionImported
      <4> QED BY <1>0, <1>1, <2>2, <3>3, <4>1 DEF MarkSessionImporting, MarkSessionImported
    <3> QED BY <1>1, <2>2, <3>1, <3>2, <3>3, SessionWriters
  <2>3. ASSUME RegisterImportBundle(s)
        PROVE  epochStatus'[EpochOf[SessionBatch[s]]] # "ABSENT"
    BY <1>0, <2>3 DEF RegisterImportBundle
  <2> QED BY <2>1, <2>2, <2>3
<1>2. ASSUME NEW s \in Sessions, NEW p \in Packs, importPack'[s][p] # "ABSENT"
      PROVE  session'[s] # "ABSENT" /\ BatchOf[p] = SessionBatch[s]
  <2>1. CASE importPack[s][p] # "ABSENT"
    BY <2>1, SessionStays DEF Belongs, SessionRows
  <2>2. CASE importPack[s][p] = "ABSENT"
    <3>1. ASSUME NEW r \in Sessions, RegisterImportBundle(r)
          PROVE  session'[s] # "ABSENT" /\ BatchOf[p] = SessionBatch[s]
      BY <1>0, <1>2, <2>2, <3>1 DEF RegisterImportBundle
    <3>2. ASSUME NEW r \in Sessions, NEW q \in Packs, AppendPack(r, q)
          PROVE  FALSE
      <4>1. importPack[r][q] # "ABSENT"
        BY <3>2 DEF AppendPack
      <4>2. PICK status : importPack' = [importPack EXCEPT ![r][q] = status]
        BY <3>2 DEF AppendPack
      <4> QED BY <1>0, <1>2, <2>2, <4>1, <4>2
    <3>3. ASSUME NEW t \in Threads, MarkImportPackCommitted(t)
          PROVE  session'[s] # "ABSENT" /\ BatchOf[p] = SessionBatch[s]
      <4>1. /\ importPack' = [importPack EXCEPT ![th[t].s][th[t].p] = "IMPORTED"]
            /\ UNCHANGED session /\ At(t, "entry")
        BY <3>3 DEF MarkImportPackCommitted
      <4>2. th[t].s = s /\ th[t].p = p
        BY <1>0, <1>2, <2>2, <4>1
      <4> QED BY <4>1, <4>2 DEF Belongs, Belonging, At, Resting, BatchOfThread
    <3> QED BY <1>2, <2>2, <3>1, <3>2, <3>3, SessionWriters
  <2> QED BY <2>1, <2>2
<1> QED BY <1>1, <1>2 DEF SessionRows

LEMMA OthersBelong ==
    ASSUME RowsInv, [Next]_vars, NEW t \in Threads, Belonging(t), th'[t] = th[t]
    PROVE  Belonging(t)'
<1>1. ~Resting(t) => th[t].s \in Sessions
  BY ThreadType DEF RowsInv, ThreadRecords, Resting
<1> QED BY <1>1, SessionStays
        DEF Belonging, Resting, At, BatchOfThread, EpochOfThread

LEMMA EndsBelong ==
    ASSUME TypeOK, NEW t \in Threads, Return(t) \/ Fail(t)
    PROVE  Belonging(t)'
<1>1. th'[t].pc \in {"idle", "failed"}
  BY ThreadType DEF Return, Fail, Idle, Failed
<1> QED BY <1>1 DEF Belonging, Resting, At

(* A thread that moves to a place within the same part of its handler.     *)
LEMMA MoveBelongs ==
    ASSUME RowsInv, [Next]_vars, NEW t \in Threads, Belonging(t), ~Resting(t),
           th'[t].s = th[t].s, th'[t].p = th[t].p, th'[t].u = th[t].u,
           th'[t].todo \subseteq th[t].todo, th'[t].ready \subseteq th[t].ready,
           th'[t].pc = "insert" => th'[t].x \in th'[t].todo,
           \/ /\ th[t].pc \in {"batch", "session", "entry", "insert"}
              /\ th'[t].pc \in {"batch", "session", "entry", "insert", "remove"}
           \/ /\ th[t].pc \in {"metadata", "rename", "catalog"}
              /\ th'[t].pc \in {"unit", "metadata", "rename", "catalog"}
           \/ th'[t].pc \in {"list", "count", "batchDone", "sessionDone", "publishable", "publish",
                             "complete"}
    PROVE  Belonging(t)'
<1>1. th[t].s \in Sessions /\ session[th[t].s] # "ABSENT"
  BY ThreadType DEF RowsInv, ThreadRecords, Resting, Belonging
<1>2. session'[th'[t].s] # "ABSENT"
  BY <1>1, SessionStays
<1>3. BatchOfThread(t)' = BatchOfThread(t) /\ EpochOfThread(t)' = EpochOfThread(t)
  BY DEF BatchOfThread, EpochOfThread
<1> QED BY <1>2, <1>3 DEF Belonging, Resting, At

LEMMA CommitBelongs ==
    ASSUME RowsInv, [Next]_vars, NEW t \in Threads, Belonging(t), CommitStep(t)
    PROVE  Belonging(t)'
<1>0. TypeOK /\ th[t] \in ThreadRecords /\ th \in [Threads -> ThreadRecords]
  BY ThreadType DEF RowsInv
<1>1. CASE MarkBatchImporting(t) \/ MarkSessionImporting(t) \/ MarkImportPackCommitted(t)
  <2>1. PICK pc \in {"session", "entry", "remove"} : th'[t] = [th[t] EXCEPT !.pc = pc]
    BY <1>0, <1>1 DEF MarkBatchImporting, MarkSessionImporting, MarkImportPackCommitted, Goto
  <2>2. th[t].pc \in {"batch", "session", "entry"}
    BY <1>1 DEF MarkBatchImporting, MarkSessionImporting, MarkImportPackCommitted, At
  <2> QED BY <1>0, <2>1, <2>2, MoveBelongs DEF ThreadRecords, Resting
<1>2. CASE InstallEntry(t)
  <2>1. PICK x \in th[t].todo : Fail(t) \/ th' = [th EXCEPT ![t].pc = "insert", ![t].x = x]
    BY <1>2 DEF InstallEntry
  <2>2. CASE th' = [th EXCEPT ![t].pc = "insert", ![t].x = x]
    <3>1. th'[t] = [th[t] EXCEPT !.pc = "insert", !.x = x] /\ At(t, "entry")
      BY <1>0, <1>2, <2>2 DEF InstallEntry
    <3> QED BY <1>0, <3>1, MoveBelongs DEF ThreadRecords, Resting, At
  <2> QED BY <1>0, <2>1, <2>2, EndsBelong
<1>3. CASE CommitImportedEntry(t)
  <2>1. \/ Fail(t)
        \/ th' = [th EXCEPT ![t].pc = "entry", ![t].x = None, ![t].todo = @ \ {th[t].x}]
    BY <1>3 DEF CommitImportedEntry
  <2>2. CASE th' = [th EXCEPT ![t].pc = "entry", ![t].x = None, ![t].todo = @ \ {th[t].x}]
    <3>1. th'[t] = [th[t] EXCEPT !.pc = "entry", !.x = None, !.todo = @ \ {th[t].x}]
          /\ At(t, "insert")
      BY <1>0, <1>3, <2>2 DEF CommitImportedEntry
    <3> QED BY <1>0, <3>1, MoveBelongs DEF ThreadRecords, Resting, At
  <2> QED BY <1>0, <2>1, <2>2, EndsBelong
<1>4. CASE RemoveUploadedPack(t)
  <2>1. th'[t] = [th[t] EXCEPT !.pc = "list"] /\ At(t, "remove")
    BY <1>0, <1>4 DEF RemoveUploadedPack, Goto
  <2> QED BY <1>0, <2>1, MoveBelongs DEF ThreadRecords, Resting, At
<1> QED BY <1>1, <1>2, <1>3, <1>4 DEF CommitStep

LEMMA PublishBelongs ==
    ASSUME RowsInv, [Next]_vars, NEW t \in Threads, Belonging(t), PublishStep(t)
    PROVE  Belonging(t)'
<1>0. TypeOK /\ th[t] \in ThreadRecords /\ th \in [Threads -> ThreadRecords]
  BY ThreadType DEF RowsInv
<1>1. ~Resting(t)
  BY DEF PublishStep, ListReadyUnits, OpenUnit, CheckMetadata, RenameMetadata, CatalogMetadata,
         MarkPublished, EndPublishReady, At, Resting
<1>2. th[t].s \in Sessions /\ session[th[t].s] # "ABSENT" /\ session'[th[t].s] # "ABSENT"
  BY <1>0, <1>1, SessionStays DEF ThreadRecords, Resting, Belonging
<1>3. CASE ListReadyUnits(t)
  <2>1. /\ th'[t].pc = "unit" /\ th'[t].s = th[t].s
        /\ th'[t].ready \subseteq EpochUnits(EpochOfThread(t))
    BY <1>0, <1>3 DEF ListReadyUnits, ThreadRecords
  <2> QED BY <1>2, <2>1 DEF Belonging, Resting, At, EpochOfThread
<1>4. CASE OpenUnit(t)
  <2>1. CASE Fail(t)
    BY <1>0, <2>1, EndsBelong
  <2>2. CASE ~Fail(t)
    <3>1. PICK u \in th[t].ready :
            th' = [th EXCEPT ![t].pc = "metadata", ![t].u = u, ![t].ready = @ \ {u},
                             ![t].todo = MetadataOf(u)]
      BY <1>4, <2>2 DEF OpenUnit
    <3>2. /\ th'[t].pc = "metadata" /\ th'[t].s = th[t].s /\ th'[t].u = u
          /\ th'[t].ready = th[t].ready \ {u}
      BY <1>0, <3>1 DEF ThreadRecords
    <3>3. th[t].ready \subseteq EpochUnits(EpochOfThread(t))
      BY <1>4 DEF OpenUnit, At, Belonging
    <3> QED BY <1>2, <3>2, <3>3 DEF Belonging, Resting, At, EpochOfThread
  <2> QED BY <2>1, <2>2
<1>5. CASE CheckMetadata(t)
  <2>1. \/ Fail(t)
        \/ \E m \in Metadata, pc \in {"rename", "catalog"} :
             th' = [th EXCEPT ![t].pc = pc, ![t].x = m]
    BY <1>5 DEF CheckMetadata
  <2>2. ASSUME NEW m \in Metadata, NEW pc \in {"rename", "catalog"},
               th' = [th EXCEPT ![t].pc = pc, ![t].x = m]
        PROVE  Belonging(t)'
    <3>1. th'[t] = [th[t] EXCEPT !.pc = pc, !.x = m] /\ At(t, "metadata")
      BY <1>0, <1>5, <2>2 DEF CheckMetadata
    <3> QED BY <1>0, <1>1, <3>1, MoveBelongs DEF ThreadRecords, At
  <2> QED BY <1>0, <2>1, <2>2, EndsBelong
<1>6. CASE RenameMetadata(t) \/ CatalogMetadata(t)
  <2>1. \/ Fail(t)
        \/ th'[t] = [th[t] EXCEPT !.pc = "catalog"]
        \/ th'[t] = [th[t] EXCEPT !.pc = "metadata", !.x = None, !.todo = @ \ {th[t].x}]
    BY <1>0, <1>6 DEF RenameMetadata, CatalogMetadata, Goto
  <2>2. th[t].pc \in {"rename", "catalog"}
    BY <1>6 DEF RenameMetadata, CatalogMetadata, At
  <2>3. ASSUME \/ th'[t] = [th[t] EXCEPT !.pc = "catalog"]
               \/ th'[t] = [th[t] EXCEPT !.pc = "metadata", !.x = None, !.todo = @ \ {th[t].x}]
        PROVE  Belonging(t)'
    BY <1>0, <1>1, <2>2, <2>3, MoveBelongs DEF ThreadRecords
  <2> QED BY <1>0, <2>1, <2>3, EndsBelong
<1>7. CASE MarkPublished(t)
  <2>1. \/ Fail(t)
        \/ th'[t] = [th[t] EXCEPT !.pc = "unit", !.u = None]
    BY <1>0, <1>7 DEF MarkPublished
  <2>2. ASSUME th'[t] = [th[t] EXCEPT !.pc = "unit", !.u = None]
        PROVE  Belonging(t)'
    <3>1. th'[t].pc = "unit" /\ th'[t].s = th[t].s /\ th'[t].ready = th[t].ready
      BY <1>0, <2>2 DEF ThreadRecords
    <3>2. th[t].ready \subseteq EpochUnits(EpochOfThread(t))
      BY <1>7 DEF MarkPublished, At, Belonging
    <3> QED BY <1>2, <3>1, <3>2 DEF Belonging, Resting, At, EpochOfThread
  <2> QED BY <1>0, <2>1, <2>2, EndsBelong
<1>8. CASE EndPublishReady(t)
  <2>1. \/ Return(t)
        \/ th'[t] = [th[t] EXCEPT !.pc = "count"]
    BY <1>0, <1>8 DEF EndPublishReady, Goto
  <2>2. ASSUME th'[t] = [th[t] EXCEPT !.pc = "count"]
        PROVE  Belonging(t)'
    BY <1>0, <1>1, <2>2, MoveBelongs DEF ThreadRecords
  <2> QED BY <1>0, <2>1, <2>2, EndsBelong
<1> QED BY <1>3, <1>4, <1>5, <1>6, <1>7, <1>8 DEF PublishStep

LEMMA CompleteBelongs ==
    ASSUME RowsInv, [Next]_vars, NEW t \in Threads, Belonging(t), CompleteStep(t)
    PROVE  Belonging(t)'
<1>0. TypeOK /\ th[t] \in ThreadRecords /\ th \in [Threads -> ThreadRecords]
  BY ThreadType DEF RowsInv
<1>1. ~Resting(t)
  BY DEF CompleteStep, MarkBatchImported, MarkSessionImported, CountEpoch, MarkEpochPublishable,
         MarkEpochPublished, CompleteEpoch, At, Resting
<1>2. \/ Return(t) \/ Fail(t) \/ th'[t] = th[t]
      \/ \E pc \in {"list", "sessionDone", "publish", "complete"} :
           th'[t] = [th[t] EXCEPT !.pc = pc]
      \/ \E pc \in {"publishable", "publish", "complete"} : \E seen :
           th'[t] = [th[t] EXCEPT !.pc = pc, !.seen = seen]
  <2>1. CASE MarkBatchImported(t) \/ MarkSessionImported(t)
    BY <1>0, <2>1 DEF MarkBatchImported, MarkSessionImported, Goto
  <2>2. CASE CountEpoch(t)
    BY <1>0, <2>2 DEF CountEpoch
  <2>3. CASE MarkEpochPublishable(t)
    BY <1>0, <2>3 DEF MarkEpochPublishable, TransitionEpoch, Goto
  <2>4. CASE MarkEpochPublished(t)
    BY <1>0, <2>4 DEF MarkEpochPublished, TransitionEpoch, Goto
  <2>5. CASE CompleteEpoch(t)
    BY <2>5 DEF CompleteEpoch
  <2> QED BY <2>1, <2>2, <2>3, <2>4, <2>5 DEF CompleteStep
<1>3. ASSUME \/ \E pc \in {"list", "sessionDone", "publish", "complete"} :
                  th'[t] = [th[t] EXCEPT !.pc = pc]
             \/ \E pc \in {"publishable", "publish", "complete"} : \E seen :
                  th'[t] = [th[t] EXCEPT !.pc = pc, !.seen = seen]
      PROVE  Belonging(t)'
  BY <1>0, <1>1, <1>3, MoveBelongs DEF ThreadRecords
<1> QED BY <1>0, <1>2, <1>3, EndsBelong, OthersBelong

LEMMA StartBelongs ==
    ASSUME RowsInv, Belongs, [Next]_vars, NEW t \in Threads, NEW s \in Sessions,
           \/ StartCompleteBatch(t, s)
           \/ \E p \in Packs : StartCommitPack(t, s, p)
    PROVE  Belonging(t)'
<1>0. th \in [Threads -> ThreadRecords]
  BY DEF RowsInv, TypeOK
<1>1. CASE StartCompleteBatch(t, s)
  <2>1. th'[t].pc = "batchDone" /\ th'[t].s = s /\ session[s] # "ABSENT"
    BY <1>0, <1>1 DEF StartCompleteBatch, Idle
  <2> QED BY <2>1, SessionStays DEF Belonging, Resting, At
<1>2. ASSUME NEW p \in Packs, StartCommitPack(t, s, p)
      PROVE  Belonging(t)'
  <2>1. /\ th'[t].pc = "batch" /\ th'[t].s = s /\ th'[t].p = p /\ th'[t].todo = PackEntries(p)
        /\ importPack[s][p] = "UPLOADED"
    BY <1>0, <1>2 DEF StartCommitPack, Idle
  <2>2. session[s] # "ABSENT" /\ BatchOf[p] = SessionBatch[s]
    BY <2>1 DEF Belongs, SessionRows
  <2> QED BY <2>1, <2>2, SessionStays DEF Belonging, Resting, At, BatchOfThread, PackEntries
<1> QED BY <1>1, <1>2

LEMMA BelongsKeeps ==
    ASSUME RowsInv, Belongs, [Next]_vars
    PROVE  Belongs'
<1>1. TypeOK /\ \A t \in Threads : Belonging(t)
  BY DEF RowsInv, Belongs
<1>2. ASSUME NEW t \in Threads,
             \A o \in Threads \ {t} : th'[o] = th[o],
             \/ CommitStep(t) \/ PublishStep(t) \/ CompleteStep(t) \/ Abort(t)
             \/ \E s \in Sessions : \/ StartCompleteBatch(t, s)
                                    \/ \E p \in Packs : StartCommitPack(t, s, p)
      PROVE  \A o \in Threads : Belonging(o)'
  <2>1. Belonging(t)'
    BY <1>1, <1>2, CommitBelongs, PublishBelongs, CompleteBelongs, StartBelongs, EndsBelong
    DEF Abort
  <2>2. ASSUME NEW o \in Threads \ {t}
        PROVE  Belonging(o)'
    BY <1>1, <1>2, OthersBelong
  <2> QED BY <2>1, <2>2
<1>3. ASSUME UNCHANGED th
      PROVE  \A t \in Threads : Belonging(t)'
  BY <1>1, <1>3, OthersBelong
<1>4. \A t \in Threads : Belonging(t)'
  BY <1>1, <1>2, <1>3, OneThread
<1> QED BY <1>4, SessionsKeep DEF Belongs

(* Sessions, packs, entries and units stay with the handlers that serve    *)
(* them: no request ever touches the pack, the unit or the epoch of        *)
(* another one.                                                            *)
THEOREM EverythingBelongs == Spec => []Belongs
<1>1. Init => Belongs
  BY DEF Init, Idle, Belongs, SessionRows, Belonging, Resting, At
<1>2. RowsInv /\ Belongs /\ [Next]_vars => Belongs'
  BY BelongsKeeps
<1> QED BY <1>1, <1>2, RowsInvariant, PTL DEF Spec

-----------------------------------------------------------------------------
(* One open epoch at a time *)

(* The cursors of a source never come back: an epoch leads from its base   *)
(* to a cursor of a higher rank.                                           *)
Ascending(rank) ==
    /\ rank \in [Cursors -> Nat]
    /\ \A e \in Epochs : rank[Base[e]] < rank[Target[e]]

(* A complete epoch lies behind the cursor, and the active one is open. *)
Behind(rank) == \A e \in Epochs : epochStatus[e] = "COMPLETE" => rank[Base[e]] < rank[cursor]
ActiveIsOpen == active # None => epochStatus[active] \notin {"ABSENT", "COMPLETE"}
ChainInv(rank) == Behind(rank) /\ ActiveIsOpen

(* Only an epoch that has not been applied can be registered. *)
LEMMA NotAgain ==
    ASSUME RowsInv, NEW rank, Ascending(rank), Behind(rank), NEW s \in Sessions,
           CanJoin(EpochOf[SessionBatch[s]])
    PROVE  epochStatus[EpochOf[SessionBatch[s]]] # "COMPLETE"
<1>1. EpochOf[SessionBatch[s]] \in Epochs /\ cursor \in Cursors
  BY PlanAssumption, SourceAssumption DEF RowsInv, TypeOK
<1> QED BY <1>1 DEF Behind, CanJoin, Ascending

LEMMA ChainKeeps ==
    ASSUME RowsInv, [Next]_vars, NEW rank, Ascending(rank), ChainInv(rank)
    PROVE  ChainInv(rank)'
<1>0. /\ epochStatus \in [Epochs -> EpochStatuses \cup {"ABSENT"}]
      /\ cursor \in Cursors /\ active \in Epochs \cup {None} /\ None \notin Epochs
      /\ OpenIsActive
      /\ Base \in [Epochs -> Cursors] /\ Target \in [Epochs -> Cursors]
  BY SourceAssumption DEF RowsInv, TypeOK
<1>1. CASE UNCHANGED <<cursor, active, epochStatus>>
  BY <1>1 DEF ChainInv, Behind, ActiveIsOpen
<1>2. ASSUME NEW s \in Sessions, RegisterImportBundle(s)
      PROVE  ChainInv(rank)'
  <2> DEFINE r == EpochOf[SessionBatch[s]]
  <2>1. /\ r \in Epochs /\ CanJoin(r) /\ active' = r /\ cursor' = cursor
        /\ epochStatus' = [epochStatus EXCEPT ![r] = IF @ = "ABSENT" THEN "TRANSFERRING" ELSE @]
    BY <1>2, PlanAssumption, SourceAssumption DEF RegisterImportBundle
  <2>2. epochStatus[r] # "COMPLETE"
    BY NotAgain, <2>1 DEF ChainInv
  <2>3. Behind(rank)'
    BY <1>0, <2>1 DEF ChainInv, Behind
  <2>4. ActiveIsOpen'
    BY <1>0, <2>1, <2>2 DEF ActiveIsOpen
  <2> QED BY <2>3, <2>4 DEF ChainInv
<1>3. ASSUME NEW e \in Epochs, NEW to \in {"PUBLISHABLE", "PUBLISHED", "COMPLETE"},
             epochStatus' = [epochStatus EXCEPT ![e] = to],
             epochStatus[e] \notin {"ABSENT", "COMPLETE"},
             IF to = "COMPLETE"
               THEN active = e /\ cursor' = Target[e] /\ active' = None
               ELSE UNCHANGED <<cursor, active>>
      PROVE  ChainInv(rank)'
  <2>1. active = e /\ cursor = Base[e]
    BY <1>0, <1>3 DEF OpenIsActive
  <2>2. CASE to = "COMPLETE"
    <3>1. rank[cursor] < rank[cursor'] /\ rank[cursor] \in Nat /\ rank[cursor'] \in Nat
      BY <1>0, <1>3, <2>1, <2>2 DEF Ascending
    <3>2. Behind(rank)'
      <4>1. ASSUME NEW o \in Epochs, epochStatus'[o] = "COMPLETE"
            PROVE  rank[Base[o]] < rank[cursor']
        <5>1. CASE o = e
          BY <2>1, <3>1, <5>1
        <5>2. CASE o # e
          <6>1. rank[Base[o]] < rank[cursor] /\ rank[Base[o]] \in Nat
            BY <1>0, <1>3, <4>1, <5>2 DEF ChainInv, Behind, Ascending
          <6> QED BY <3>1, <6>1
        <5> QED BY <5>1, <5>2
      <4> QED BY <4>1 DEF Behind
    <3> QED BY <1>3, <2>2, <3>2 DEF ChainInv, ActiveIsOpen
  <2>3. CASE to # "COMPLETE"
    <3>1. Behind(rank)'
      BY <1>0, <1>3, <2>3 DEF ChainInv, Behind
    <3>2. ActiveIsOpen'
      BY <1>0, <1>3, <2>1, <2>3 DEF ActiveIsOpen
    <3> QED BY <3>1, <3>2 DEF ChainInv
  <2> QED BY <2>2, <2>3
<1> QED BY <1>1, <1>2, <1>3, SourceWriters, EpochWritten

THEOREM ChainInvariant ==
    ASSUME NEW CONSTANT rank, Ascending(rank)
    PROVE  Spec => []ChainInv(rank)
<1>1. Init => ChainInv(rank)
  BY DEF Init, ChainInv, Behind, ActiveIsOpen
<1>2. RowsInv /\ ChainInv(rank) /\ [Next]_vars => ChainInv(rank)'
  BY ChainKeeps
<1> QED BY <1>1, <1>2, RowsInvariant, PTL DEF Spec

(* If cursors ascend, exactly one epoch of a source is open while the      *)
(* source names an active epoch, it starts at the live cursor, and no      *)
(* other one is open (RegisterImportBundle, CompleteEpoch).                *)
THEOREM OneEpochIsOpen ==
    ASSUME NEW CONSTANT rank, Ascending(rank)
    PROVE  Spec => []OneOpenEpoch
<1>1. RowsInv /\ ChainInv(rank) => OneOpenEpoch
  BY SourceAssumption DEF RowsInv, ChainInv, OpenIsActive, ActiveIsOpen, OneOpenEpoch
<1> QED BY <1>1, ChainInvariant, RowsInvariant, PTL

-----------------------------------------------------------------------------
(* The steps of MirrorSync *)

(* A registration opens the epoch, or joins the one that is open. *)
LEMMA RegisterRefines ==
    ASSUME RowsInv, NEW rank, Ascending(rank), ChainInv(rank),
           NEW s \in Sessions, RegisterImportBundle(s)
    PROVE  [Mirror!Next]_Mirror!vars
<1> DEFINE e == EpochOf[SessionBatch[s]]
<1>1. /\ e \in Epochs /\ CanJoin(e) /\ active' = e /\ cursor' = cursor
      /\ epochStatus' = [epochStatus EXCEPT ![e] = IF @ = "ABSENT" THEN "TRANSFERRING" ELSE @]
      /\ UNCHANGED <<imported, unitStatus>>
  BY PlanAssumption, SourceAssumption DEF RegisterImportBundle, gate
<1>2. epochStatus[e] # "COMPLETE"
  BY NotAgain, <1>1 DEF ChainInv
<1>3. {o \in Epochs : epochStatus'[o] = "COMPLETE"} = {o \in Epochs : epochStatus[o] = "COMPLETE"}
  BY <1>1, <1>2 DEF RowsInv, TypeOK
<1>4. CASE active = None
  <2>1. Mirror!Open(e)
    BY <1>1, <1>2, <1>3, <1>4 DEF CanJoin, Mirror!Open
  <2> QED BY <1>1, <2>1 DEF Mirror!Next
<1>5. CASE active = e
  BY <1>1, <1>3, <1>5 DEF Mirror!vars
<1> QED BY <1>1, <1>4, <1>5 DEF CanJoin

(* An epoch with an open handler is the active one or is complete. *)
LEMMA ServedEpoch ==
    ASSUME RowsInv, Belongs, NEW t \in Threads, ~Resting(t)
    PROVE  LET e == EpochOfThread(t)
           IN  e \in Epochs /\ (active = e \/ epochStatus[e] = "COMPLETE")
<1>1. th[t].s \in Sessions /\ session[th[t].s] # "ABSENT"
  BY ThreadType DEF RowsInv, ThreadRecords, Resting, Belongs, Belonging
<1> QED BY <1>1, PlanAssumption, SourceAssumption
        DEF Belongs, SessionRows, EpochOfThread, RowsInv, OpenIsActive

(* The commit of an entry is a Hold; an entry of a complete epoch is known *)
(* already.                                                                *)
LEMMA CommitRefines ==
    ASSUME RowsInv, Belongs, [Next]_vars, NEW t \in Threads, CommitImportedEntry(t)
    PROVE  [Mirror!Next]_Mirror!vars
<1> DEFINE x == th[t].x
           e == EpochOfThread(t)
<1>0. At(t, "insert") /\ ~Resting(t) /\ TypeOK
  BY DEF CommitImportedEntry, At, Resting, RowsInv
<1>1. x \in Entries /\ e = UnitEpoch[UnitOf[x]]
  <2>1. x \in PackEntries(th[t].p) /\ BatchOf[th[t].p] = BatchOfThread(t)
    BY <1>0 DEF Belongs, Belonging, At
  <2> QED BY <2>1, PlanAssumption DEF PackEntries, BatchOfThread, EpochOfThread
<1>2. UNCHANGED <<cursor, active, epochStatus>>
  BY DEF CommitImportedEntry, source
<1>3. \A u \in Units : unitStatus'[u] = "PUBLISHED" <=> unitStatus[u] = "PUBLISHED"
  <2>1. \A u \in Units : unitStatus[u] = "PUBLISHED" => unitStatus'[u] = "PUBLISHED"
    BY UnitStays DEF RowsInv
  <2>2. \A u \in Units : unitStatus'[u] = "PUBLISHED" => unitStatus[u] = "PUBLISHED"
    BY <1>0 DEF CommitImportedEntry, gate, TypeOK
  <2> QED BY <2>1, <2>2
<1>4. CASE UNCHANGED imported
  BY <1>2, <1>3, <1>4 DEF Mirror!vars
<1>5. ASSUME x \notin imported, imported' = imported \cup {x}
      PROVE  [Mirror!Next]_Mirror!vars
  <2>1. active = e
    <3>1. epochStatus[e] # "COMPLETE"
      <4>1. ASSUME epochStatus[e] = "COMPLETE"
            PROVE  x \in imported
        <5>1. EpochEntries(e) \subseteq imported
          BY <1>0, <4>1, CompletionFollows, ServedEpoch DEF CompletionIsTotal
        <5> QED BY <1>1, <5>1, PlanAssumption DEF EpochEntries
      <4> QED BY <1>5, <4>1
    <3> QED BY <1>0, <3>1, ServedEpoch
  <2>2. Mirror!Hold(x)
    BY <1>1, <1>2, <1>3, <1>5, <2>1 DEF Mirror!Hold
  <2> QED BY <1>1, <2>2 DEF Mirror!Next
<1> QED BY <1>4, <1>5 DEF CommitImportedEntry, Known, gate

(* The publication of a unit is a Release; a unit of a complete epoch is   *)
(* published already.                                                      *)
LEMMA PublishRefines ==
    ASSUME RowsInv, Belongs, NEW t \in Threads, MarkPublished(t)
    PROVE  [Mirror!Next]_Mirror!vars
<1> DEFINE u == th[t].u
           e == EpochOfThread(t)
           released == {v \in Units : unitStatus[v] = "PUBLISHED"}
<1>0. At(t, "metadata") /\ ~Resting(t) /\ TypeOK /\ ThreadInv(t)
  BY DEF MarkPublished, At, Resting, RowsInv
<1>1. u \in Units /\ UnitEpoch[u] = e /\ UnitEntries(u) \subseteq imported
  BY <1>0 DEF Belongs, Belonging, At, EpochUnits, ThreadInv, Opening
<1>2. UNCHANGED <<cursor, active, epochStatus, imported>>
  BY DEF MarkPublished, source
<1>3. CASE UNCHANGED unitStatus
  BY <1>2, <1>3 DEF Mirror!vars
<1>4. ASSUME unitStatus' = [unitStatus EXCEPT ![u] = "PUBLISHED"]
      PROVE  [Mirror!Next]_Mirror!vars
  <2>1. released' = released \cup {u}
    BY <1>0, <1>1, <1>4 DEF TypeOK
  <2>2. CASE active = e
    <3>1. Mirror!EntriesOfUnit(u) = UnitEntries(u)
      BY DEF Mirror!EntriesOfUnit, UnitEntries
    <3>2. PICK v \in Units : v = u
      BY <1>1
    <3>3. Mirror!Release(v)
      BY <1>1, <1>2, <2>1, <2>2, <3>1, <3>2 DEF Mirror!Release
    <3> QED BY <3>3 DEF Mirror!Next
  <2>3. CASE epochStatus[e] = "COMPLETE"
    <3>1. unitStatus[u] = "PUBLISHED"
      BY <1>0, <1>1, <2>3, ServedEpoch DEF RowsInv, EpochDone, AllUnitsPublished, EpochUnits
    <3>2. released' = released
      BY <1>1, <2>1, <3>1
    <3> QED BY <1>2, <3>2 DEF Mirror!vars
  <2> QED BY <1>0, <2>2, <2>3, ServedEpoch
<1> QED BY <1>3, <1>4 DEF MarkPublished

(* CompleteEpoch is an Advance; the transitions before it change nothing   *)
(* that MirrorSync sees.                                                   *)
LEMMA EpochRefines ==
    ASSUME RowsInv, NEW t \in Threads,
           MarkEpochPublishable(t) \/ MarkEpochPublished(t) \/ CompleteEpoch(t)
    PROVE  [Mirror!Next]_Mirror!vars
<1> DEFINE done == {o \in Epochs : epochStatus[o] = "COMPLETE"}
<1>0. UNCHANGED <<imported, unitStatus>>
  BY DEF MarkEpochPublishable, MarkEpochPublished, CompleteEpoch, gate
<1>1. CASE UNCHANGED <<cursor, active, epochStatus>>
  BY <1>0, <1>1 DEF Mirror!vars
<1>2. ASSUME NEW e \in Epochs, NEW to \in {"PUBLISHABLE", "PUBLISHED", "COMPLETE"},
             epochStatus' = [epochStatus EXCEPT ![e] = to],
             epochStatus[e] \notin {"ABSENT", "COMPLETE"},
             AllBatchesImported(e), AllUnitsPublished(e),
             IF to = "COMPLETE"
               THEN active = e /\ cursor' = Target[e] /\ active' = None
               ELSE UNCHANGED <<cursor, active>>
      PROVE  [Mirror!Next]_Mirror!vars
  <2>0. epochStatus \in [Epochs -> EpochStatuses \cup {"ABSENT"}]
    BY DEF RowsInv, TypeOK
  <2>1. CASE to = "COMPLETE"
    <3>1. done' = done \cup {e}
      BY <1>2, <2>0, <2>1
    <3>2. Mirror!EntriesOfEpoch(e) \subseteq imported
      <4>1. \A b \in EpochBatches(e) : BatchEntries(b) \subseteq imported
        BY <1>2 DEF RowsInv, BatchDone, AllBatchesImported, EpochBatches
      <4> QED BY <4>1, PlanAssumption DEF Mirror!EntriesOfEpoch, EpochBatches, BatchEntries
    <3>3. Mirror!UnitsOfEpoch(e) \subseteq {u \in Units : unitStatus[u] = "PUBLISHED"}
      BY <1>2 DEF Mirror!UnitsOfEpoch, AllUnitsPublished, EpochUnits
    <3>4. Mirror!Advance(e)
      BY <1>0, <1>2, <2>1, <3>1, <3>2, <3>3 DEF Mirror!Advance
    <3> QED BY <3>4 DEF Mirror!Next
  <2>2. CASE to # "COMPLETE"
    <3>1. done' = done
      BY <1>2, <2>0, <2>2
    <3> QED BY <1>0, <1>2, <2>2, <3>1 DEF Mirror!vars
  <2> QED BY <2>1, <2>2
<1> QED BY <1>1, <1>2, EpochWritten

LEMMA StepRefines ==
    ASSUME RowsInv, Belongs, [Next]_vars, NEW rank, Ascending(rank), ChainInv(rank)
    PROVE  [Mirror!Next]_Mirror!vars
<1>1. ASSUME NEW s \in Sessions, RegisterManifest(s)
      PROVE  UNCHANGED Mirror!vars
  <2>1. \A u \in Units : unitStatus'[u] = "PUBLISHED" <=> unitStatus[u] = "PUBLISHED"
    BY <1>1 DEF RegisterManifest
  <2> QED BY <1>1, <2>1 DEF RegisterManifest, source, Mirror!vars
<1>2. CASE UNCHANGED <<cursor, active, epochStatus>>
  <2>1. CASE UNCHANGED <<unitStatus, imported>>
    BY <1>2, <2>1 DEF Mirror!vars
  <2>2. CASE ~UNCHANGED <<unitStatus, imported>>
    BY <1>1, <2>2, GateWriters, CommitRefines, PublishRefines
  <2> QED BY <2>1, <2>2
<1>3. CASE ~UNCHANGED <<cursor, active, epochStatus>>
  BY <1>3, SourceWriters, RegisterRefines, EpochRefines
<1> QED BY <1>2, <1>3

(* The agent implements MirrorSync: epochs are applied one after the       *)
(* other, each once, from its base to its target; what is held is never    *)
(* lost; a unit is released when all of it is held (RegisterImportBundle,  *)
(* CommitImportedEntry, MarkPublished, CompleteEpoch).                     *)
THEOREM ImplementsMirrorSync ==
    ASSUME NEW CONSTANT rank, Ascending(rank)
    PROVE  Spec => MirrorSpec
<1>1. Init => Mirror!Init
  BY DEF Init, Mirror!Init
<1>2. RowsInv /\ Belongs /\ ChainInv(rank) /\ [Next]_vars => [Mirror!Next]_Mirror!vars
  BY StepRefines
<1> QED
  BY <1>1, <1>2, RowsInvariant, EverythingBelongs, ChainInvariant, PTL
  DEF Spec, MirrorSpec, Mirror!Spec

-----------------------------------------------------------------------------
(* What has been imported belongs to an epoch that was registered.         *)
Held == \A x \in imported : epochStatus[EpochOf[BatchOf[PackOf[x]]]] # "ABSENT"

(* The entry a handler is about to record is of the epoch of its session,  *)
(* and one that is new is of the active epoch.                             *)
LEMMA EntryInHand ==
    ASSUME RowsInv, Belongs, NEW t \in Threads, At(t, "insert")
    PROVE  LET x == th[t].x
               e == EpochOf[BatchOf[PackOf[x]]]
           IN  /\ x \in Entries /\ e \in Epochs /\ e = EpochOfThread(t)
               /\ epochStatus[e] # "ABSENT"
               /\ active = e \/ epochStatus[e] = "COMPLETE"
               /\ x \notin imported => active = e
<1> DEFINE x == th[t].x
           e == EpochOf[BatchOf[PackOf[x]]]
<1>1. th[t].s \in Sessions /\ session[th[t].s] # "ABSENT" /\ x \in PackEntries(th[t].p)
      /\ BatchOf[th[t].p] = BatchOfThread(t)
  BY ThreadType DEF RowsInv, ThreadRecords, Belongs, Belonging, Resting, At
<1>2. x \in Entries /\ e = EpochOfThread(t)
  BY <1>1 DEF PackEntries, BatchOfThread, EpochOfThread
<1>3. e \in Epochs /\ epochStatus[e] # "ABSENT"
  BY <1>1, <1>2, PlanAssumption, SourceAssumption DEF Belongs, SessionRows, EpochOfThread
<1>4. active = e \/ epochStatus[e] = "COMPLETE"
  BY <1>3 DEF RowsInv, OpenIsActive
<1>5. epochStatus[e] = "COMPLETE" => x \in imported
  <2>1. epochStatus[e] = "COMPLETE" => EpochEntries(e) \subseteq imported
    BY <1>3, CompletionFollows DEF CompletionIsTotal
  <2> QED BY <1>2, <2>1 DEF EpochEntries
<1> QED BY <1>2, <1>3, <1>4, <1>5

LEMMA HeldKeeps ==
    ASSUME RowsInv, Belongs, Held, [Next]_vars
    PROVE  Held'
<1>1. ASSUME NEW x \in imported'
      PROVE  x \in Entries /\ epochStatus[EpochOf[BatchOf[PackOf[x]]]] # "ABSENT"
  <2>1. CASE x \in imported
    BY <2>1 DEF Held, RowsInv, TypeOK
  <2>2. CASE x \notin imported
    <3>1. PICK t \in Threads : CommitImportedEntry(t)
      BY <1>1, <2>2, GateWriters
    <3>2. At(t, "insert") /\ x = th[t].x
      BY <1>1, <2>2, <3>1 DEF CommitImportedEntry, gate
    <3> QED BY <3>2, EntryInHand
  <2> QED BY <2>1, <2>2
<1>2. \A x \in imported' : EpochOf[BatchOf[PackOf[x]]] \in Epochs
  BY <1>1, PlanAssumption
<1> QED BY <1>1, <1>2, EpochStays DEF Held

(* A registration that opens an epoch opens one of which nothing has been  *)
(* imported, and no handler of it is at work.                              *)
LEMMA OpenedEpochIsFresh ==
    ASSUME RowsInv, Belongs, Held, NEW rank, Ascending(rank), ChainInv(rank), [Next]_vars,
           active' # None, active' # active
    PROVE  /\ epochStatus[active'] = "ABSENT" /\ active = None
           /\ UNCHANGED <<imported, th>>
<1>1. ASSUME NEW s \in Sessions, RegisterImportBundle(s)
      PROVE  /\ epochStatus[active'] = "ABSENT" /\ active = None
             /\ UNCHANGED <<imported, th>>
  <2> DEFINE e == EpochOf[SessionBatch[s]]
  <2>1. e \in Epochs /\ active' = e /\ CanJoin(e) /\ UNCHANGED <<imported, th>>
    BY <1>1, PlanAssumption, SourceAssumption DEF RegisterImportBundle, gate
  <2>2. active = None
    BY <2>1 DEF CanJoin
  <2>3. epochStatus[e] # "COMPLETE"
    BY <2>1, NotAgain DEF ChainInv
  <2>4. epochStatus[e] = "ABSENT"
    BY <2>1, <2>2, <2>3, SourceAssumption DEF RowsInv, OpenIsActive
  <2> QED BY <2>1, <2>2, <2>4
<1>2. ASSUME NEW t \in Threads,
             MarkEpochPublishable(t) \/ MarkEpochPublished(t) \/ CompleteEpoch(t)
      PROVE  active' = active \/ active' = None
  BY <1>2 DEF MarkEpochPublishable, MarkEpochPublished, CompleteEpoch, source
<1> QED BY <1>1, <1>2, SourceWriters

-----------------------------------------------------------------------------
(* What the open epoch has put in place *)

(* An epoch has one metadata entry for a file: a unit is declared once per *)
(* key (UNIQUE(epoch_id,unit_key)), keys of a source have files of their   *)
(* own, and a unit has a file once (UNIQUE(publish_unit_id,logical_path)). *)
OneEntryPerFile ==
    \A m, n \in Metadata :
        PathOf[m] = PathOf[n] /\ UnitEpoch[UnitOf[m]] = UnitEpoch[UnitOf[n]] => m = n

(* The publishers at work whose epoch has not ended are those of the       *)
(* active epoch.                                                           *)
LEMMA PublisherIsCurrent ==
    ASSUME RowsInv, Belongs, NEW t \in Threads, Publishing(t), ~Outlived(t)
    PROVE  /\ active = EpochOfThread(t) /\ active \in Epochs /\ active # None
           /\ th[t].u \in Units /\ UnitEpoch[th[t].u] = active
           /\ \A m \in th[t].todo : m \in Metadata /\ UnitOf[m] = th[t].u
<1>1. EpochOfThread(t) \in Epochs /\ active = EpochOfThread(t)
  BY ServedEpoch DEF Outlived, Publishing, Resting
<1>2. Opening(t) /\ Belonging(t)
  BY DEF RowsInv, ThreadInv, Belongs
<1> QED
  BY <1>1, <1>2, SourceAssumption DEF Publishing, Opening, Belonging, UnitEntries, EpochUnits

LEMMA PublisherMovesOn ==
    ASSUME TypeOK, NEW t \in Threads,
           CheckMetadata(t) \/ RenameMetadata(t) \/ CatalogMetadata(t)
    PROVE  th'[t] # th[t]
<1>0. th \in [Threads -> ThreadRecords] /\ th[t] \in ThreadRecords
  BY ThreadType DEF TypeOK
<1>1. th[t].pc \in {"metadata", "rename", "catalog"}
  BY DEF CheckMetadata, RenameMetadata, CatalogMetadata, At
<1>2. ASSUME Fail(t)
      PROVE  th'[t].pc # th[t].pc
  BY <1>0, <1>1, <1>2 DEF Fail, Failed, Idle
<1>3. CASE CheckMetadata(t)
  <2>1. \/ Fail(t)
        \/ \E m \in Metadata, pc \in {"rename", "catalog"} :
             th' = [th EXCEPT ![t].pc = pc, ![t].x = m]
    BY <1>3 DEF CheckMetadata
  <2>2. Fail(t) \/ th'[t].pc \in {"rename", "catalog"}
    BY <1>0, <2>1 DEF ThreadRecords
  <2>3. th[t].pc = "metadata"
    BY <1>3 DEF CheckMetadata, At
  <2> QED BY <1>2, <2>2, <2>3
<1>4. CASE RenameMetadata(t)
  <2>1. Fail(t) \/ th'[t].pc = "catalog"
    BY <1>0, <1>4 DEF RenameMetadata, Goto, ThreadRecords
  <2>2. th[t].pc = "rename"
    BY <1>4 DEF RenameMetadata, At
  <2> QED BY <1>2, <2>1, <2>2
<1>5. CASE CatalogMetadata(t)
  <2>1. th'[t].pc = "metadata" /\ th[t].pc = "catalog"
    BY <1>0, <1>5 DEF CatalogMetadata, At, ThreadRecords
  <2> QED BY <2>1
<1> QED BY <1>3, <1>4, <1>5

(* A metadata file is changed by a publisher that has its entry in hand.   *)
LEMMA MetadataWriter ==
    ASSUME RowsInv, [Next]_vars, NEW path \in MetadataPaths
    PROVE  /\ \/ disk'[path] = disk[path]
              \/ \E t \in Threads : \E m \in th[t].todo :
                   /\ Publishing(t) /\ PathOf[m] = path /\ disk'[path] = ContentOf[m]
                   /\ th'[t] # th[t]
                   /\ \/ CheckMetadata(t) /\ IsNext(m, th[t].todo)
                      \/ RenameMetadata(t) /\ m = th[t].x
           /\ \/ catalog'[path] = catalog[path]
              \/ \E t \in Threads : \E m \in th[t].todo :
                   /\ Publishing(t) /\ PathOf[m] = path /\ catalog'[path] = ContentOf[m]
                   /\ th'[t] # th[t]
<1> USE PlanAssumption
<1>0. /\ path \in Paths /\ disk \in [Paths -> ContentOrNone] /\ catalog \in [Paths -> ContentOrNone]
      /\ \A t \in Threads : Placing(t)
      /\ \A a \in Artifacts : PathOf[a] # path
  BY DEF RowsInv, TypeOK, MetadataPaths, ThreadInv
<1>1. ASSUME NEW t \in Threads, InstallEntry(t)
      PROVE  disk'[path] = disk[path]
  <2>1. UNCHANGED disk \/ \E x \in Artifacts : disk' = [disk EXCEPT ![PathOf[x]] = ContentOf[x]]
    BY <1>1 DEF InstallEntry
  <2> QED BY <1>0, <2>1
<1>2. ASSUME NEW t \in Threads, CheckMetadata(t), disk'[path] # disk[path]
      PROVE  \E m \in th[t].todo : /\ Publishing(t) /\ PathOf[m] = path
                                   /\ disk'[path] = ContentOf[m] /\ IsNext(m, th[t].todo)
  <2>1. PICK m \in Metadata : /\ IsNext(m, th[t].todo) /\ ContentOf[m] = None
                              /\ disk' = [disk EXCEPT ![PathOf[m]] = None]
    BY <1>2 DEF CheckMetadata
  <2>2. m \in th[t].todo /\ PathOf[m] = path /\ disk'[path] = ContentOf[m]
    BY <1>0, <1>2, <2>1 DEF IsNext
  <2> QED BY <1>2, <2>1, <2>2 DEF CheckMetadata, Publishing, At
<1>3. ASSUME NEW t \in Threads, RenameMetadata(t), disk'[path] # disk[path]
      PROVE  /\ Publishing(t) /\ th[t].x \in th[t].todo
             /\ PathOf[th[t].x] = path /\ disk'[path] = ContentOf[th[t].x]
  <2>1. disk' = [disk EXCEPT ![PathOf[th[t].x]] = ContentOf[th[t].x]] /\ At(t, "rename")
    BY <1>3 DEF RenameMetadata
  <2> QED BY <1>0, <1>3, <2>1 DEF Publishing, Placing, At
<1>4. ASSUME NEW t \in Threads, CommitImportedEntry(t)
      PROVE  catalog'[path] = catalog[path]
  <2>1. UNCHANGED catalog \/ catalog' = CatalogWith(th[t].x)
    BY <1>4 DEF CommitImportedEntry
  <2> QED BY <1>0, <2>1 DEF CatalogWith
<1>5. ASSUME NEW t \in Threads, CatalogMetadata(t), catalog'[path] # catalog[path]
      PROVE  /\ Publishing(t) /\ th[t].x \in th[t].todo
             /\ PathOf[th[t].x] = path /\ catalog'[path] = ContentOf[th[t].x]
  <2>1. catalog' = [catalog EXCEPT ![PathOf[th[t].x]] = ContentOf[th[t].x]] /\ At(t, "catalog")
    BY <1>5 DEF CatalogMetadata
  <2> QED BY <1>0, <1>5, <2>1 DEF Publishing, Placing, At
<1>8. ASSUME NEW t \in Threads, CheckMetadata(t) \/ RenameMetadata(t) \/ CatalogMetadata(t)
      PROVE  th'[t] # th[t]
  BY <1>8, PublisherMovesOn DEF RowsInv
<1>6. \/ disk'[path] = disk[path]
      \/ \E t \in Threads : \E m \in th[t].todo :
           /\ Publishing(t) /\ PathOf[m] = path /\ disk'[path] = ContentOf[m]
           /\ th'[t] # th[t]
           /\ \/ CheckMetadata(t) /\ IsNext(m, th[t].todo)
              \/ RenameMetadata(t) /\ m = th[t].x
  BY <1>1, <1>2, <1>3, <1>8, RepositoryWriters
<1>7. \/ catalog'[path] = catalog[path]
      \/ \E t \in Threads : \E m \in th[t].todo :
           /\ Publishing(t) /\ PathOf[m] = path /\ catalog'[path] = ContentOf[m]
           /\ th'[t] # th[t]
  BY <1>4, <1>5, <1>8, RepositoryWriters
<1> QED BY <1>6, <1>7

(* A file that is not disturbed has been changed by no one but publishers  *)
(* of the active epoch.                                                    *)
LEMMA WriterIsCurrent ==
    ASSUME Witness, NEW path \in MetadataPaths, path \notin disturbed',
           disk'[path] # disk[path] \/ catalog'[path] # catalog[path],
           NEW t \in Threads, th'[t] # th[t]
    PROVE  ~Outlived(t)
BY DEF Witness, Disturbs

LEMMA WitnessedStep ==
    ASSUME [ServingNext]_svars
    PROVE  [Next]_vars /\ Witness
<1>1. CASE ServingNext
  BY <1>1 DEF ServingNext
<1>2. CASE UNCHANGED svars
  <2>1. \A path \in MetadataPaths : ~Disturbs(path)
    BY <1>2 DEF svars, vars, repository, Disturbs
  <2>2. disturbed \cup {path \in MetadataPaths : Disturbs(path)} = disturbed
    BY <2>1
  <2> QED BY <1>2, <2>2 DEF svars, Witness
<1> QED BY <1>1, <1>2

(* While no epoch is open no metadata file changes, and while one is, what *)
(* one of its entries has put in place stays; disturbed files apart.       *)
LEMMA ServedStays ==
    ASSUME RowsInv, Belongs, OneEntryPerFile, [Next]_vars, Witness,
           NEW n \in Metadata, active # None => UnitEpoch[UnitOf[n]] = active,
           PathOf[n] \notin disturbed'
    PROVE  /\ disk[PathOf[n]] = ContentOf[n] => disk'[PathOf[n]] = ContentOf[n]
           /\ catalog[PathOf[n]] = ContentOf[n] => catalog'[PathOf[n]] = ContentOf[n]
<1>1. ASSUME NEW t \in Threads, NEW m \in th[t].todo, Publishing(t), ~Outlived(t),
             PathOf[m] = PathOf[n]
      PROVE  m = n
  BY <1>1, PublisherIsCurrent DEF OneEntryPerFile
<1>2. PathOf[n] \in MetadataPaths
  BY DEF MetadataPaths
<1>3. ASSUME disk'[PathOf[n]] # disk[PathOf[n]]
      PROVE  disk'[PathOf[n]] = ContentOf[n]
  <2>1. PICK t \in Threads : \E m \in th[t].todo :
          /\ Publishing(t) /\ PathOf[m] = PathOf[n] /\ disk'[PathOf[n]] = ContentOf[m]
          /\ th'[t] # th[t]
    BY <1>2, <1>3, MetadataWriter
  <2>2. ~Outlived(t)
    BY <1>2, <1>3, <2>1, WriterIsCurrent
  <2> QED BY <1>1, <2>1, <2>2
<1>4. ASSUME catalog'[PathOf[n]] # catalog[PathOf[n]]
      PROVE  catalog'[PathOf[n]] = ContentOf[n]
  <2>1. PICK t \in Threads : \E m \in th[t].todo :
          /\ Publishing(t) /\ PathOf[m] = PathOf[n] /\ catalog'[PathOf[n]] = ContentOf[m]
          /\ th'[t] # th[t]
    BY <1>2, <1>4, MetadataWriter
  <2>2. ~Outlived(t)
    BY <1>2, <1>4, <2>1, WriterIsCurrent
  <2> QED BY <1>1, <2>1, <2>2
<1> QED BY <1>3, <1>4

-----------------------------------------------------------------------------
(* A published unit of the open epoch has its metadata in place, and a     *)
(* publisher of it has put in place what it has no longer to do, wherever  *)
(* no publisher of an earlier epoch has been.                              *)
Served(m) == PathOf[m] \in disturbed \/ Installed(m)
UnitServed(u) == \A m \in Metadata : UnitOf[m] = u => Served(m)
OpenUnitsServed ==
    active # None =>
        \A u \in Units : UnitEpoch[u] = active /\ unitStatus[u] = "PUBLISHED" => UnitServed(u)
PublisherKnows(t) ==
    Publishing(t) /\ ~Outlived(t) =>
        /\ \A m \in Metadata : UnitOf[m] = th[t].u => m \in th[t].todo \/ Served(m)
        /\ th[t].pc # "metadata" => IsNext(th[t].x, th[t].todo)
        /\ At(t, "catalog") => \/ PathOf[th[t].x] \in disturbed
                               \/ disk[PathOf[th[t].x]] = ContentOf[th[t].x]

(* An epoch once complete stays so, and so does a publisher of it late.    *)
LEMMA CompleteStays ==
    ASSUME RowsInv, [Next]_vars, NEW e \in Epochs, epochStatus[e] = "COMPLETE"
    PROVE  epochStatus'[e] = "COMPLETE"
<1>0. epochStatus \in [Epochs -> EpochStatuses \cup {"ABSENT"}]
  BY DEF RowsInv, TypeOK
<1>1. ASSUME NEW s \in Sessions, RegisterImportBundle(s)
      PROVE  epochStatus'[e] = "COMPLETE"
  BY <1>0, <1>1 DEF RegisterImportBundle
<1>2. ASSUME NEW o \in Epochs, NEW to \in {"PUBLISHABLE", "PUBLISHED", "COMPLETE"},
             epochStatus' = [epochStatus EXCEPT ![o] = to],
             epochStatus[o] \notin {"ABSENT", "COMPLETE"}
      PROVE  epochStatus'[e] = "COMPLETE"
  BY <1>0, <1>2
<1> QED BY <1>1, <1>2, SourceWriters, EpochWritten

LEMMA NotYetOutlived ==
    ASSUME RowsInv, Belongs, [Next]_vars, NEW t \in Threads, Publishing(t), Publishing(t)',
           th'[t].s = th[t].s, ~Outlived(t)'
    PROVE  ~Outlived(t)
<1>1. EpochOfThread(t) \in Epochs /\ EpochOfThread(t)' = EpochOfThread(t)
  BY ServedEpoch DEF EpochOfThread, Publishing, Resting
<1> QED BY <1>1, CompleteStays DEF Outlived

(* How a handler comes to be publishing. *)
LEMMA PublisherComes ==
    ASSUME TypeOK, [Next]_vars, NEW t \in Threads, Publishing(t)'
    PROVE  \/ th'[t] = th[t]
           \/ OpenUnit(t) /\ ~Fail(t)
           \/ CheckMetadata(t) /\ ~Fail(t)
           \/ RenameMetadata(t) /\ ~Fail(t)
           \/ CatalogMetadata(t)
<1>0. th \in [Threads -> ThreadRecords] /\ th[t] \in ThreadRecords
  BY ThreadType DEF TypeOK
<1>1. ~Fail(t) /\ ~Return(t)
  BY <1>0 DEF Publishing, Fail, Return, Failed, Idle
<1>2. ASSUME CommitStep(t)
      PROVE  FALSE
  BY <1>0, <1>1, <1>2 DEF CommitStep, MarkBatchImporting, MarkSessionImporting, InstallEntry,
     CommitImportedEntry, MarkImportPackCommitted, RemoveUploadedPack, Goto, Publishing,
     ThreadRecords
<1>3. ASSUME ListReadyUnits(t) \/ MarkPublished(t) \/ EndPublishReady(t)
      PROVE  FALSE
  BY <1>0, <1>1, <1>3 DEF ListReadyUnits, MarkPublished, EndPublishReady, Goto, Publishing,
     ThreadRecords
<1>4. ASSUME CompleteStep(t)
      PROVE  th'[t] = th[t]
  BY <1>0, <1>1, <1>4 DEF CompleteStep, MarkBatchImported, MarkSessionImported, CountEpoch,
     MarkEpochPublishable, MarkEpochPublished, CompleteEpoch, TransitionEpoch, Goto,
     Publishing, ThreadRecords
<1>5. ASSUME NEW s \in Sessions,
             \/ StartCompleteBatch(t, s)
             \/ \E p \in Packs : StartCommitPack(t, s, p)
      PROVE  FALSE
  <2>1. \E r \in {"batchDone", "batch"} : th'[t].pc = r
    BY <1>0, <1>5 DEF StartCompleteBatch, StartCommitPack, Idle
  <2> QED BY <2>1 DEF Publishing
<1> QED BY <1>1, <1>2, <1>3, <1>4, <1>5, OneThread DEF PublishStep, Abort

LEMMA PublisherKeeps ==
    ASSUME RowsInv, Belongs, OneEntryPerFile, [Next]_vars, Witness,
           NEW t \in Threads, PublisherKnows(t)
    PROVE  PublisherKnows(t)'
<1> SUFFICES ASSUME Publishing(t)', ~Outlived(t)'
             PROVE  PublisherKnows(t)'
  BY DEF PublisherKnows
<1>0. /\ TypeOK /\ th \in [Threads -> ThreadRecords] /\ th[t] \in ThreadRecords
      /\ disk \in [Paths -> ContentOrNone] /\ catalog \in [Paths -> ContentOrNone]
      /\ \A m \in Metadata : PathOf[m] \in Paths
  BY ThreadType, PlanAssumption DEF RowsInv, TypeOK
<1>7. ASSUME Publishing(t), th'[t].s = th[t].s
      PROVE  ~Outlived(t)
  BY <1>7, NotYetOutlived
<1>8. disturbed \subseteq disturbed'
  BY DEF Witness
<1>9. ASSUME Publishing(t), ~Outlived(t), NEW m \in Metadata, UnitOf[m] = th[t].u,
             PathOf[m] \notin disturbed'
      PROVE  /\ disk[PathOf[m]] = ContentOf[m] => disk'[PathOf[m]] = ContentOf[m]
             /\ catalog[PathOf[m]] = ContentOf[m] => catalog'[PathOf[m]] = ContentOf[m]
  BY <1>9, PublisherIsCurrent, ServedStays
<1>1. ASSUME Publishing(t), ~Outlived(t), NEW m \in Metadata, UnitOf[m] = th[t].u, Served(m)
      PROVE  Served(m)'
  BY <1>1, <1>8, <1>9 DEF Served, Installed
<1>2. CASE th'[t] = th[t]
  <2>1. Publishing(t) /\ ~Outlived(t)
    <3>1. Publishing(t)
      BY <1>2 DEF Publishing
    <3> QED BY <1>2, <1>7, <3>1
  <2>2. \A m \in Metadata : UnitOf[m] = th[t].u => m \in th[t].todo \/ Served(m)'
    BY <1>1, <2>1 DEF PublisherKnows
  <2>3. At(t, "catalog") => \/ PathOf[th[t].x] \in disturbed'
                           \/ disk'[PathOf[th[t].x]] = ContentOf[th[t].x]
    <3>1. At(t, "catalog") => th[t].x \in Metadata /\ UnitOf[th[t].x] = th[t].u
      BY <2>1, PublisherIsCurrent DEF RowsInv, ThreadInv, Placing, At
    <3> QED BY <1>8, <1>9, <2>1, <3>1 DEF PublisherKnows
  <2> QED BY <1>2, <2>1, <2>2, <2>3 DEF PublisherKnows, At
<1>3. CASE OpenUnit(t) /\ ~Fail(t)
  <2>1. PICK u \in th[t].ready :
          th' = [th EXCEPT ![t].pc = "metadata", ![t].u = u, ![t].ready = @ \ {u},
                           ![t].todo = MetadataOf(u)]
    BY <1>3 DEF OpenUnit
  <2>2. th'[t].pc = "metadata" /\ th'[t].u = u /\ th'[t].todo = MetadataOf(u)
    BY <1>0, <2>1 DEF ThreadRecords
  <2>3. UnitEntries(u) \subseteq imported
    BY <1>3, <2>1 DEF OpenUnit, At, RowsInv, ThreadInv, Listing
  <2>4. \A m \in Metadata : UnitOf[m] = u => m \in MetadataOf(u)
    BY <2>3, PlanAssumption DEF MetadataOf, UnitEntries
  <2> QED BY <2>2, <2>4 DEF PublisherKnows, At
<1>4. CASE CheckMetadata(t) /\ ~Fail(t)
  <2>1. PICK m \in Metadata, pc \in {"rename", "catalog"} :
          /\ IsNext(m, th[t].todo)
          /\ th' = [th EXCEPT ![t].pc = pc, ![t].x = m]
          /\ pc = "catalog" =>
               \/ ContentOf[m] = None /\ disk' = [disk EXCEPT ![PathOf[m]] = None]
               \/ disk[PathOf[m]] = ContentOf[m] /\ UNCHANGED disk
    BY <1>4 DEF CheckMetadata
  <2>2. Publishing(t)
    BY <1>4 DEF CheckMetadata, At, Publishing
  <2>3. /\ th'[t].pc = pc /\ th'[t].x = m /\ th'[t].u = th[t].u /\ th'[t].todo = th[t].todo
        /\ th'[t].s = th[t].s
    BY <1>0, <2>1 DEF ThreadRecords
  <2>7. ~Outlived(t)
    BY <1>7, <2>2, <2>3
  <2>4. \A n \in Metadata : UnitOf[n] = th[t].u => n \in th[t].todo \/ Served(n)'
    BY <1>1, <2>2, <2>7 DEF PublisherKnows
  <2>5. pc = "catalog" => disk'[PathOf[m]] = ContentOf[m]
    BY <1>0, <2>1
  <2> QED BY <2>1, <2>3, <2>4, <2>5 DEF PublisherKnows, At
<1>5. CASE RenameMetadata(t) /\ ~Fail(t)
  <2>1. /\ disk' = [disk EXCEPT ![PathOf[th[t].x]] = ContentOf[th[t].x]]
        /\ Goto(t, "catalog") /\ th[t].pc = "rename" /\ Publishing(t)
    BY <1>5 DEF RenameMetadata, At, Publishing
  <2>2. /\ th'[t].pc = "catalog" /\ th'[t].x = th[t].x /\ th'[t].u = th[t].u
        /\ th'[t].todo = th[t].todo /\ th'[t].s = th[t].s
    BY <1>0, <2>1 DEF Goto, ThreadRecords
  <2>7. ~Outlived(t)
    BY <1>7, <2>1, <2>2
  <2>3. \A n \in Metadata : UnitOf[n] = th[t].u => n \in th[t].todo \/ Served(n)'
    BY <1>1, <2>1, <2>7 DEF PublisherKnows
  <2>4. th[t].x \in Metadata
    BY <2>1, <2>7, PublisherIsCurrent DEF RowsInv, ThreadInv, Placing
  <2>5. disk'[PathOf[th[t].x]] = ContentOf[th[t].x]
    BY <1>0, <2>1, <2>4
  <2>6. IsNext(th[t].x, th[t].todo)
    BY <2>1, <2>7 DEF PublisherKnows
  <2> QED BY <2>2, <2>3, <2>5, <2>6 DEF PublisherKnows, At
<1>6. CASE CatalogMetadata(t)
  <2>0. /\ At(t, "catalog") /\ Publishing(t)
        /\ th' = [th EXCEPT ![t].pc = "metadata", ![t].x = None, ![t].todo = @ \ {th[t].x}]
    BY <1>6 DEF CatalogMetadata, At, Publishing
  <2>8. th'[t].s = th[t].s
    BY <1>0, <2>0 DEF ThreadRecords
  <2>7. ~Outlived(t)
    BY <1>7, <2>0, <2>8
  <2>3. PICK x \in Metadata : x = th[t].x
    BY <2>0, <2>7, PublisherIsCurrent DEF RowsInv, ThreadInv, Placing, At
  <2>1. /\ catalog' = [catalog EXCEPT ![PathOf[x]] = ContentOf[x]] /\ UNCHANGED disk
        /\ th' = [th EXCEPT ![t].pc = "metadata", ![t].x = None, ![t].todo = @ \ {x}]
        /\ At(t, "catalog") /\ Publishing(t)
    BY <1>6, <2>0, <2>3 DEF CatalogMetadata
  <2>2. th'[t].pc = "metadata" /\ th'[t].u = th[t].u /\ th'[t].todo = th[t].todo \ {x}
    BY <1>0, <2>1 DEF ThreadRecords
  <2>4. Served(x)'
    <3>1. PathOf[x] \in disturbed \/ disk[PathOf[x]] = ContentOf[x]
      BY <2>0, <2>3, <2>7 DEF PublisherKnows
    <3>2. catalog'[PathOf[x]] = ContentOf[x]
      BY <1>0, <2>1
    <3> QED BY <1>8, <2>1, <3>1, <3>2 DEF Served, Installed
  <2>5. \A n \in Metadata : UnitOf[n] = th[t].u => n \in th[t].todo \/ Served(n)'
    BY <1>1, <2>1, <2>7 DEF PublisherKnows
  <2>6. \A n \in Metadata : UnitOf[n] = th[t].u => n \in th[t].todo \ {x} \/ Served(n)'
    BY <2>4, <2>5
  <2> QED BY <2>2, <2>6 DEF PublisherKnows, At
<1> QED BY <1>0, <1>2, <1>3, <1>4, <1>5, <1>6, PublisherComes

LEMMA OpenUnitsKeep ==
    ASSUME RowsInv, Belongs, Held, NEW rank, Ascending(rank), ChainInv(rank),
           OneEntryPerFile, [Next]_vars, Witness, OpenUnitsServed,
           \A t \in Threads : PublisherKnows(t)
    PROVE  OpenUnitsServed'
<1> SUFFICES ASSUME active' # None, NEW u \in Units, UnitEpoch[u] = active',
                    unitStatus'[u] = "PUBLISHED", NEW m \in Metadata, UnitOf[m] = u,
                    PathOf[m] \notin disturbed'
             PROVE  Installed(m)'
  BY DEF OpenUnitsServed, UnitServed, Served
<1>0. TypeOK /\ m \in Entries /\ PathOf[m] \notin disturbed
  BY PlanAssumption DEF RowsInv, Witness
<1>1. CASE active' # active
  <2>1. epochStatus[active'] = "ABSENT" /\ active = None /\ UNCHANGED imported
    BY <1>1, OpenedEpochIsFresh
  <2>2. UnitEntries(u) \subseteq imported
    <3>1. RowsInv'
      BY RowsKeep
    <3>2. UnitEntries(u) \subseteq imported'
      BY <3>1 DEF RowsInv, UnitDone, UnitEntries
    <3> QED BY <2>1, <3>2
  <2>3. m \in imported /\ EpochOf[BatchOf[PackOf[m]]] = active'
    BY <1>0, <2>2, PlanAssumption DEF UnitEntries
  <2> QED BY <2>1, <2>3 DEF Held
<1>2. CASE active' = active
  <2>1. /\ disk[PathOf[m]] = ContentOf[m] => disk'[PathOf[m]] = ContentOf[m]
        /\ catalog[PathOf[m]] = ContentOf[m] => catalog'[PathOf[m]] = ContentOf[m]
    BY <1>2, ServedStays
  <2>2. CASE unitStatus[u] = "PUBLISHED"
    BY <1>0, <1>2, <2>1, <2>2 DEF OpenUnitsServed, UnitServed, Served, Installed
  <2>3. CASE unitStatus[u] # "PUBLISHED"
    <3>1. PICK t \in Threads : MarkPublished(t)
      <4>1. ASSUME NEW s \in Sessions, RegisterManifest(s)
            PROVE  FALSE
        BY <2>3, <4>1 DEF RegisterManifest
      <4>2. ASSUME NEW t \in Threads, CommitImportedEntry(t)
            PROVE  FALSE
        BY <1>0, <2>3, <4>2 DEF CommitImportedEntry, TypeOK, gate
      <4> QED BY <2>3, <4>1, <4>2, GateWriters
    <3>2. /\ th[t].pc = "metadata" /\ th[t].todo = {} /\ th[t].u = u
          /\ UNCHANGED <<disk, catalog>>
      BY <1>0, <2>3, <3>1 DEF MarkPublished, At, TypeOK, repository
    <3>3. m \notin th[t].todo
      BY <3>2
    <3>5. ~Outlived(t)
      <4>1. Publishing(t) /\ EpochOfThread(t) \in Epochs /\ u \in EpochUnits(EpochOfThread(t))
        BY <3>2, ServedEpoch DEF Publishing, Resting, Belongs, Belonging
      <4>2. EpochOfThread(t) = active
        BY <1>2, <4>1 DEF EpochUnits
      <4> QED BY <1>2, <4>2 DEF Outlived, ChainInv, ActiveIsOpen
    <3>4. Installed(m)
      BY <1>0, <3>2, <3>3, <3>5 DEF PublisherKnows, Publishing, Served
    <3> QED BY <3>2, <3>4 DEF Installed
  <2> QED BY <2>2, <2>3
<1> QED BY <1>1, <1>2

-----------------------------------------------------------------------------
(* The completed target *)

(* A complete epoch has led to the cursor or to one before it. *)
TargetsReached(rank) ==
    \A e \in Epochs : epochStatus[e] = "COMPLETE" => rank[Target[e]] <= rank[cursor]

ServingInv(rank) ==
    /\ OpenUnitsServed
    /\ \A t \in Threads : PublisherKnows(t)
    /\ TargetsReached(rank)
    /\ ServesTarget

(* The step that changes the cursor or completes an epoch completes the    *)
(* active one, with all its units published.                               *)
LEMMA CompletionStep ==
    ASSUME RowsInv, NEW rank, Ascending(rank), ChainInv(rank), [Next]_vars
    PROVE  \/ /\ cursor' = cursor /\ (active' = None => active = None)
              /\ \A e \in Epochs : epochStatus'[e] = "COMPLETE" <=> epochStatus[e] = "COMPLETE"
           \/ /\ active \in Epochs /\ active # None /\ active' = None
              /\ cursor = Base[active] /\ cursor' = Target[active]
              /\ epochStatus' = [epochStatus EXCEPT ![active] = "COMPLETE"]
              /\ \A u \in Units : UnitEpoch[u] = active => unitStatus[u] = "PUBLISHED"
              /\ UNCHANGED <<disk, catalog>>
<1>0. /\ epochStatus \in [Epochs -> EpochStatuses \cup {"ABSENT"}]
      /\ active \in Epochs \cup {None} /\ None \notin Epochs /\ OpenIsActive
  BY SourceAssumption DEF RowsInv, TypeOK
<1>1. ASSUME NEW s \in Sessions, RegisterImportBundle(s)
      PROVE  /\ cursor' = cursor /\ active' # None
             /\ \A e \in Epochs : epochStatus'[e] = "COMPLETE" <=> epochStatus[e] = "COMPLETE"
  BY <1>0, <1>1, PlanAssumption, SourceAssumption DEF RegisterImportBundle
<1>2. ASSUME NEW t \in Threads, MarkEpochPublishable(t) \/ MarkEpochPublished(t) \/ CompleteEpoch(t),
             NEW e \in Epochs, NEW to \in {"PUBLISHABLE", "PUBLISHED", "COMPLETE"},
             epochStatus' = [epochStatus EXCEPT ![e] = to],
             epochStatus[e] \notin {"ABSENT", "COMPLETE"},
             AllUnitsPublished(e),
             IF to = "COMPLETE"
               THEN active = e /\ cursor' = Target[e] /\ active' = None
               ELSE UNCHANGED <<cursor, active>>
      PROVE  \/ /\ cursor' = cursor /\ active' = active
                /\ \A o \in Epochs : epochStatus'[o] = "COMPLETE" <=> epochStatus[o] = "COMPLETE"
             \/ /\ active = e /\ active' = None
                /\ cursor = Base[e] /\ cursor' = Target[e]
                /\ epochStatus' = [epochStatus EXCEPT ![e] = "COMPLETE"]
                /\ \A u \in Units : UnitEpoch[u] = e => unitStatus[u] = "PUBLISHED"
                /\ UNCHANGED <<disk, catalog>>
  <2>1. UNCHANGED <<disk, catalog>>
    BY <1>2 DEF MarkEpochPublishable, MarkEpochPublished, CompleteEpoch, repository
  <2>2. cursor = Base[e] /\ \A u \in Units : UnitEpoch[u] = e => unitStatus[u] = "PUBLISHED"
    BY <1>0, <1>2 DEF OpenIsActive, AllUnitsPublished, EpochUnits
  <2>3. CASE to = "COMPLETE"
    BY <1>2, <2>1, <2>2, <2>3
  <2>4. CASE to # "COMPLETE"
    BY <1>0, <1>2, <2>4
  <2> QED BY <2>3, <2>4
<1>3. ASSUME NEW t \in Threads, MarkEpochPublishable(t) \/ MarkEpochPublished(t) \/ CompleteEpoch(t),
             ~UNCHANGED <<cursor, active, epochStatus>>
      PROVE  \/ /\ cursor' = cursor /\ active' = active
                /\ \A o \in Epochs : epochStatus'[o] = "COMPLETE" <=> epochStatus[o] = "COMPLETE"
             \/ \E e \in Epochs :
                /\ active = e /\ active' = None
                /\ cursor = Base[e] /\ cursor' = Target[e]
                /\ epochStatus' = [epochStatus EXCEPT ![e] = "COMPLETE"]
                /\ \A u \in Units : UnitEpoch[u] = e => unitStatus[u] = "PUBLISHED"
                /\ UNCHANGED <<disk, catalog>>
  BY <1>2, <1>3, EpochWritten
<1> QED BY <1>0, <1>1, <1>3, SourceWriters

LEMMA ServingKeeps ==
    ASSUME RowsInv, Belongs, Held, NEW rank, Ascending(rank), ChainInv(rank),
           OneEntryPerFile, [Next]_vars, Witness, ServingInv(rank)
    PROVE  ServingInv(rank)'
<1> DEFINE goes == /\ cursor' = cursor /\ (active' = None => active = None)
                   /\ \A e \in Epochs : epochStatus'[e] = "COMPLETE" <=> epochStatus[e] = "COMPLETE"
           done == /\ active \in Epochs /\ active # None /\ active' = None
                   /\ cursor = Base[active] /\ cursor' = Target[active]
                   /\ epochStatus' = [epochStatus EXCEPT ![active] = "COMPLETE"]
                   /\ \A u \in Units : UnitEpoch[u] = active => unitStatus[u] = "PUBLISHED"
                   /\ UNCHANGED <<disk, catalog>>
<1>0. /\ epochStatus \in [Epochs -> EpochStatuses \cup {"ABSENT"}]
      /\ cursor \in Cursors /\ Base \in [Epochs -> Cursors] /\ Target \in [Epochs -> Cursors]
      /\ rank \in [Cursors -> Nat]
  BY SourceAssumption DEF RowsInv, TypeOK, Ascending
<1>5. disturbed \subseteq disturbed'
  BY DEF Witness
<1>1. OpenUnitsServed' /\ \A t \in Threads : PublisherKnows(t)'
  BY OpenUnitsKeep, PublisherKeeps DEF ServingInv
<1>2. ASSUME goes
      PROVE  ServingInv(rank)'
  <2>1. TargetsReached(rank)'
    BY <1>2 DEF ServingInv, TargetsReached
  <2>2. ASSUME active' = None, NEW m \in Metadata,
               epochStatus'[EpochOf[BatchOf[PackOf[m]]]] = "COMPLETE",
               Target[EpochOf[BatchOf[PackOf[m]]]] = cursor',
               PathOf[m] \notin disturbed'
        PROVE  Installed(m)'
    <3>1. EpochOf[BatchOf[PackOf[m]]] \in Epochs
      BY PlanAssumption
    <3>2. active = None /\ m \in CurrentMetadata
      BY <1>2, <2>2, <3>1 DEF CurrentMetadata
    <3>3. Installed(m)
      BY <1>5, <2>2, <3>2 DEF ServingInv, ServesTarget
    <3> QED BY <2>2, <3>2, <3>3, ServedStays DEF Installed
  <2>3. ServesTarget'
    BY <2>2 DEF ServesTarget, CurrentMetadata
  <2> QED BY <1>1, <2>1, <2>3 DEF ServingInv
<1>3. ASSUME done
      PROVE  ServingInv(rank)'
  <2>1. rank[cursor] < rank[cursor'] /\ rank[cursor] \in Nat /\ rank[cursor'] \in Nat
    BY <1>0, <1>3 DEF Ascending
  <2>2. \A e \in Epochs : epochStatus'[e] = "COMPLETE" =>
          \/ e = active
          \/ rank[Target[e]] <= rank[cursor] /\ rank[Target[e]] \in Nat
    BY <1>0, <1>3 DEF ServingInv, TargetsReached
  <2>3. TargetsReached(rank)'
    BY <1>3, <2>1, <2>2 DEF TargetsReached
  <2>4. ASSUME NEW m \in Metadata,
               epochStatus'[EpochOf[BatchOf[PackOf[m]]]] = "COMPLETE",
               Target[EpochOf[BatchOf[PackOf[m]]]] = cursor',
               PathOf[m] \notin disturbed'
        PROVE  Installed(m)'
    <3>1. /\ EpochOf[BatchOf[PackOf[m]]] \in Epochs /\ UnitOf[m] \in Units
          /\ UnitEpoch[UnitOf[m]] = EpochOf[BatchOf[PackOf[m]]]
      BY PlanAssumption
    <3>2. EpochOf[BatchOf[PackOf[m]]] = active
      BY <2>1, <2>2, <2>4, <3>1
    <3>3. Installed(m)
      BY <1>3, <1>5, <2>4, <3>1, <3>2 DEF ServingInv, OpenUnitsServed, UnitServed, Served
    <3> QED BY <1>3, <3>3 DEF Installed
  <2>5. ServesTarget'
    BY <2>4 DEF ServesTarget, CurrentMetadata
  <2> QED BY <1>1, <2>3, <2>5 DEF ServingInv
<1>4. goes \/ done
  BY CompletionStep
<1> HIDE DEF goes, done
<1> QED BY <1>2, <1>3, <1>4

LEMMA HeldInvariant == Spec => []Held
<1>1. Init => Held
  BY DEF Init, Held
<1>2. RowsInv /\ Belongs /\ Held /\ [Next]_vars => Held'
  BY HeldKeeps
<1> QED BY <1>1, <1>2, RowsInvariant, EverythingBelongs, PTL DEF Spec

(* The serving specification is the agent with a witness. *)
LEMMA ServingIsImporting == ServingSpec => Spec
<1>1. ServingInit => Init
  BY DEF ServingInit
<1>2. [ServingNext]_svars => [Next]_vars
  BY WitnessedStep
<1> QED BY <1>1, <1>2, PTL DEF ServingSpec, Spec

(* Where no publisher has been after its epoch, a published unit of the    *)
(* open epoch is served whole, and with no epoch open the repository and   *)
(* the catalog show the completed target (PublishReady, publishMetadata,   *)
(* CompleteEpoch).                                                         *)
THEOREM ServingInvariant ==
    ASSUME NEW CONSTANT rank, Ascending(rank), OneEntryPerFile
    PROVE  ServingSpec => []ServingInv(rank)
<1>1. ServingInit => ServingInv(rank)
  BY PlanAssumption
  DEF ServingInit, Init, Idle, ServingInv, OpenUnitsServed, PublisherKnows, Publishing,
      TargetsReached, ServesTarget, CurrentMetadata
<1>2. /\ RowsInv /\ Belongs /\ Held /\ ChainInv(rank) /\ ServingInv(rank)
      /\ [ServingNext]_svars
      => ServingInv(rank)'
  BY ServingKeeps, WitnessedStep
<1> QED
  BY <1>1, <1>2, ServingIsImporting, RowsInvariant, EverythingBelongs, HeldInvariant,
     ChainInvariant, PTL DEF ServingSpec

(* With no epoch open, what the agent serves is the completed target, to   *)
(* the last metadata file that no publisher has changed after its epoch    *)
(* (publishMetadata, CompleteEpoch).                                       *)
THEOREM TargetIsServed ==
    ASSUME NEW CONSTANT rank, Ascending(rank), OneEntryPerFile
    PROVE  ServingSpec => []ServesTarget
<1>1. ServingInv(rank) => ServesTarget
  BY DEF ServingInv
<1> QED BY <1>1, ServingInvariant, PTL

(* The metadata of a unit of the open epoch appears in the order of        *)
(* publishPriority, whatever publishers of earlier epochs are at work.     *)
THEOREM PublishInOrder ==
    ASSUME NEW CONSTANT rank, Ascending(rank), OneEntryPerFile
    PROVE  ServingSpec => PublishOrder
<1> DEFINE Ordered(m) ==
      /\ UnitEpoch[UnitOf[m]] = active
      /\ PathOf[m] \notin disturbed'
      /\ disk[PathOf[m]] # ContentOf[m] /\ disk'[PathOf[m]] = ContentOf[m]
      => \A n \in Metadata :
           UnitOf[n] = UnitOf[m] /\ Priority[n] < Priority[m] /\ PathOf[n] \notin disturbed
             => disk[PathOf[n]] = ContentOf[n]
<1>1. ASSUME RowsInv, Belongs, ServingInv(rank), [ServingNext]_svars, NEW m \in Metadata
      PROVE  Ordered(m)
  <2> SUFFICES ASSUME UnitEpoch[UnitOf[m]] = active, PathOf[m] \notin disturbed',
                      disk[PathOf[m]] # ContentOf[m], disk'[PathOf[m]] = ContentOf[m],
                      NEW n \in Metadata, UnitOf[n] = UnitOf[m], Priority[n] < Priority[m],
                      PathOf[n] \notin disturbed
               PROVE  disk[PathOf[n]] = ContentOf[n]
    OBVIOUS
  <2>0. [Next]_vars /\ Witness
    BY <1>1, WitnessedStep
  <2>1. PathOf[m] \in MetadataPaths
    BY DEF MetadataPaths
  <2>2. PICK t \in Threads : \E o \in th[t].todo :
          /\ Publishing(t) /\ PathOf[o] = PathOf[m] /\ ContentOf[o] = ContentOf[m]
          /\ th'[t] # th[t]
          /\ \/ CheckMetadata(t) /\ IsNext(o, th[t].todo)
             \/ RenameMetadata(t) /\ o = th[t].x
    BY <1>1, <2>0, <2>1, MetadataWriter
  <2>3. PublisherKnows(t) /\ ~Outlived(t)
    BY <1>1, <2>0, <2>1, <2>2, WriterIsCurrent DEF ServingInv
  <2>4. PICK o \in th[t].todo : /\ PathOf[o] = PathOf[m] /\ ContentOf[o] = ContentOf[m]
                                /\ IsNext(o, th[t].todo)
    BY <2>2, <2>3 DEF PublisherKnows, RenameMetadata, At
  <2>5. o = m /\ UnitOf[m] = th[t].u
    BY <1>1, <2>2, <2>3, <2>4, PublisherIsCurrent DEF OneEntryPerFile
  <2>6. n \notin th[t].todo
    <3>1. Priority[m] \in Nat /\ Priority[n] \in Nat
      BY PlanAssumption
    <3> QED BY <2>4, <2>5, <3>1 DEF IsNext
  <2> QED BY <2>2, <2>3, <2>5, <2>6 DEF PublisherKnows, Served, Installed
<1> HIDE DEF Ordered
<1>2. RowsInv /\ Belongs /\ ServingInv(rank) /\ [ServingNext]_svars
        => [\A m \in Metadata : Ordered(m)]_svars
  BY <1>1
<1>3. ServingSpec => [][\A m \in Metadata : Ordered(m)]_svars
  BY <1>2, ServingIsImporting, RowsInvariant, EverythingBelongs, ServingInvariant, PTL
  DEF ServingSpec
<1> QED BY <1>3 DEF PublishOrder, Ordered
=============================================================================
