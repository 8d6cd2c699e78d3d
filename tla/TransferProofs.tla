--------------------------- MODULE TransferProofs ---------------------------
(***************************************************************************)
(* Clients that drive the agent make it do nothing it would not do by      *)
(* itself, and their workspaces are never ahead of it.                     *)
(***************************************************************************)
EXTENDS Transfer, ImportPublishRefinement

-----------------------------------------------------------------------------
(* Every step of a transfer is a step of the agent, or none of its own.    *)
LEMMA AgentDrives ==
    ASSUME [TransferNext]_tvars
    PROVE  [Next]_vars
<1> USE TransferAssumption
<1>1. ASSUME NEW s \in Sessions, AgentStep(s)
      PROVE  Next
  BY <1>1 DEF AgentStep, Next
<1>2. ASSUME NEW s \in Sessions, Break(s)
      PROVE  [Next]_vars
  BY <1>2 DEF Break, Next, agent, vars
<1>3. ASSUME NEW s \in Sessions, ClientStep(s)
      PROVE  [Next]_vars
  <2>1. CASE Register(s) \/ UploadManifest(s) \/ UploadPack(s) \/ RequestCommit(s)
             \/ RequestComplete(s)
    <3>1. Request \/ UNCHANGED agent
      BY <2>1 DEF Register, UploadManifest, UploadPack, RequestCommit, RequestComplete,
                  BatchPacks, Request
    <3> QED BY <3>1 DEF Next, agent, vars
  <2>2. CASE StartTransfer(s) \/ MoveLocalEpoch(s) \/ ReadStatus(s) \/ ReadAnswer(s)
             \/ MarkLocalBatch(s) \/ Reconcile(s) \/ CloseLocalEpoch(s)
    BY <2>2 DEF StartTransfer, MoveLocalEpoch, ReadStatus, ReadAnswer, MarkLocalBatch,
                Reconcile, CloseLocalEpoch, agent, vars
  <2> QED BY <1>3, <2>1, <2>2 DEF ClientStep
<1>4. ASSUME NEW b \in Batches, FinishDownload(b)
      PROVE  UNCHANGED vars
  BY <1>4 DEF FinishDownload, agent, vars
<1>5. CASE UNCHANGED tvars
  BY <1>5 DEF tvars, agent, vars
<1> QED BY <1>1, <1>2, <1>3, <1>4, <1>5 DEF TransferNext

(* What is proved of the agent holds while clients drive it.               *)
THEOREM TransferDrivesAgent == TransferSpec => Spec
<1>1. TransferInit => Init
  BY DEF TransferInit
<1>2. [TransferNext]_tvars => [Next]_vars
  BY AgentDrives
<1> QED BY <1>1, <1>2, PTL DEF TransferSpec, Spec

-----------------------------------------------------------------------------
(* The agent's side *)

(* With the source free, an epoch the agent knows is complete. *)
LEMMA FreeIsComplete ==
    ASSUME RowsInv, active = None, NEW e \in Epochs, epochStatus[e] # "ABSENT"
    PROVE  epochStatus[e] = "COMPLETE"
BY SourceAssumption DEF RowsInv, OpenIsActive

(* Only MarkBatchImported leads to the step that marks the session. *)
LEMMA SessionDoneEntry ==
    ASSUME TypeOK, [Next]_vars, NEW t \in Threads, th'[t].pc = "sessionDone"
    PROVE  \/ th'[t] = th[t]
           \/ At(t, "batchDone") /\ MarkBatchImported(t)
<1>0. th \in [Threads -> ThreadRecords] /\ th[t] \in ThreadRecords
  BY ThreadType
<1>1. ASSUME CommitStep(t)
      PROVE  FALSE
  BY <1>0, <1>1 DEF CommitStep, MarkBatchImporting, MarkSessionImporting, InstallEntry,
     CommitImportedEntry, MarkImportPackCommitted, RemoveUploadedPack, Goto, Fail, Failed, Idle,
     ThreadRecords
<1>2. ASSUME PublishStep(t)
      PROVE  FALSE
  <2>0. ~Fail(t) /\ ~Return(t)
    BY <1>0 DEF Fail, Return, Failed, Idle
  <2>1. CASE ListReadyUnits(t) \/ EndPublishReady(t)
    BY <1>0, <2>0, <2>1 DEF ListReadyUnits, EndPublishReady, Goto, ThreadRecords
  <2>4. CASE OpenUnit(t)
    BY <1>0, <2>0, <2>4 DEF OpenUnit, ThreadRecords
  <2>2. CASE CheckMetadata(t)
    <3>1. \/ Fail(t)
          \/ \E m \in Metadata, pc \in {"rename", "catalog"} :
               th' = [th EXCEPT ![t].pc = pc, ![t].x = m]
      BY <2>2 DEF CheckMetadata
    <3> QED BY <1>0, <3>1 DEF Fail, Failed, Idle, ThreadRecords
  <2>3. CASE RenameMetadata(t) \/ CatalogMetadata(t) \/ MarkPublished(t)
    BY <1>0, <2>3 DEF RenameMetadata, CatalogMetadata, MarkPublished, Goto, Fail, Failed, Idle,
       ThreadRecords
  <2> QED BY <1>2, <2>1, <2>2, <2>3, <2>4 DEF PublishStep
<1>3. ASSUME CompleteStep(t), ~MarkBatchImported(t)
      PROVE  FALSE
  <2>1. CASE MarkSessionImported(t) \/ CountEpoch(t) \/ CompleteEpoch(t)
    BY <1>0, <2>1 DEF MarkSessionImported, CountEpoch, CompleteEpoch, Goto, Return, Fail, Failed,
       Idle, ThreadRecords
  <2>2. CASE MarkEpochPublishable(t) \/ MarkEpochPublished(t)
    BY <1>0, <2>2 DEF MarkEpochPublishable, MarkEpochPublished, TransitionEpoch, Goto, Fail,
       Failed, Idle, ThreadRecords
  <2> QED BY <1>3, <2>1, <2>2 DEF CompleteStep
<1>4. ASSUME Abort(t) \/ \E s \in Sessions : \/ StartCompleteBatch(t, s)
                                            \/ \E p \in Packs : StartCommitPack(t, s, p)
      PROVE  FALSE
  <2>1. CASE Abort(t)
    BY <1>0, <2>1 DEF Abort, Fail, Failed, Idle
  <2>2. ASSUME NEW s \in Sessions, StartCompleteBatch(t, s)
        PROVE  FALSE
    BY <1>0, <2>2 DEF StartCompleteBatch, Idle
  <2>3. ASSUME NEW s \in Sessions, NEW p \in Packs, StartCommitPack(t, s, p)
        PROVE  FALSE
    BY <1>0, <2>3 DEF StartCommitPack, Idle
  <2> QED BY <1>4, <2>1, <2>2, <2>3
<1>5. MarkBatchImported(t) => At(t, "batchDone")
  BY DEF MarkBatchImported
<1> QED BY <1>1, <1>2, <1>3, <1>4, <1>5, OneThread

(* A session that says so has its batch imported. *)
LEMMA SessionDoneKeeps ==
    ASSUME RowsInv, SessionDone, [Next]_vars
    PROVE  SessionDone'
<1>0. /\ session \in [Sessions -> SessionStatuses] /\ TypeOK
      /\ batchStatus \in [Batches -> BatchStatuses \cup {"ABSENT"}]
  BY DEF RowsInv, TypeOK
<1>1. ASSUME NEW b \in Batches, batchStatus[b] = "IMPORTED"
      PROVE  batchStatus'[b] = "IMPORTED"
  BY <1>0, <1>1, BatchStays
<1>2. ASSUME NEW s \in Sessions, session'[s] = "BATCH_IMPORTED"
      PROVE  \/ session[s] = "BATCH_IMPORTED"
             \/ \E t \in Threads : At(t, "sessionDone") /\ th[t].s = s
  <2>1. ASSUME NEW r \in Sessions,
               RegisterImportBundle(r) \/ RegisterManifest(r) \/ AppendManifest(r)
        PROVE  session[s] = "BATCH_IMPORTED"
    BY <1>0, <1>2, <2>1 DEF RegisterImportBundle, RegisterManifest, AppendManifest, ManifestReady
  <2>2. ASSUME NEW t \in Threads, MarkSessionImporting(t)
        PROVE  session[s] = "BATCH_IMPORTED"
    BY <1>0, <1>2, <2>2 DEF MarkSessionImporting
  <2>3. ASSUME NEW t \in Threads, MarkSessionImported(t), session[s] # "BATCH_IMPORTED"
        PROVE  At(t, "sessionDone") /\ th[t].s = s
    BY <1>0, <1>2, <2>3 DEF MarkSessionImported
  <2> QED BY <1>2, <2>1, <2>2, <2>3, SessionWriters
<1>3. \A s \in Sessions : SessionBatch[s] \in Batches
  BY SourceAssumption
<1>4. \A s \in Sessions : session'[s] = "BATCH_IMPORTED" => batchStatus'[SessionBatch[s]] = "IMPORTED"
  BY <1>1, <1>2, <1>3 DEF SessionDone, BatchOfThread
<1>5. ASSUME NEW t \in Threads, th'[t].pc = "sessionDone"
      PROVE  batchStatus'[SessionBatch[th'[t].s]] = "IMPORTED"
  <2>0. th \in [Threads -> ThreadRecords] /\ th[t] \in ThreadRecords
    BY <1>0, ThreadType
  <2>1. CASE th'[t] = th[t]
    <3>1. batchStatus[SessionBatch[th[t].s]] = "IMPORTED" /\ th[t].s \in Sessions
      BY <1>5, <2>0, <2>1 DEF SessionDone, At, BatchOfThread, ThreadRecords
    <3> QED BY <1>1, <1>3, <2>1, <3>1
  <2>2. CASE At(t, "batchDone") /\ MarkBatchImported(t) /\ th'[t] # th[t]
    <3>1. th[t].s \in Sessions
      BY <2>0, <2>2 DEF ThreadRecords, At
    <3>2. /\ batchStatus' = [batchStatus EXCEPT ![SessionBatch[th[t].s]] = "IMPORTED"]
          /\ th'[t].s = th[t].s
      BY <2>0, <2>2 DEF MarkBatchImported, BatchOfThread, Goto, ThreadRecords
    <3> QED BY <1>0, <1>3, <3>1, <3>2
  <2> QED BY <1>0, <1>5, <2>1, <2>2, SessionDoneEntry
<1> QED BY <1>4, <1>5 DEF SessionDone, At, BatchOfThread

-----------------------------------------------------------------------------
(* The client's side *)

(* What a client has been told stays true. *)
Lasts ==
    /\ \A b \in Batches : batchStatus[b] = "IMPORTED" => batchStatus'[b] = "IMPORTED"
    /\ \A s \in Sessions : session[s] # "ABSENT" => session'[s] # "ABSENT"
    /\ \A e \in Epochs : /\ epochStatus[e] # "ABSENT" => epochStatus'[e] # "ABSENT"
                         /\ epochStatus[e] = "COMPLETE" => epochStatus'[e] = "COMPLETE"

LEMMA AgentLasts ==
    ASSUME RowsInv, [Next]_vars
    PROVE  Lasts
<1>1. TypeOK
  BY DEF RowsInv
<1> QED BY <1>1, BatchStays, SessionStays, EpochStays, CompleteStays DEF Lasts

LEMMA ClientTypeStep == ClientTypeOK /\ [TransferNext]_tvars => ClientTypeOK'
<1> SUFFICES ASSUME ClientTypeOK, [TransferNext]_tvars
             PROVE  ClientTypeOK'
  OBVIOUS
<1> DEFINE Records == [pc : ClientPCs, seen : EpochStatuses \cup {None}]
<1>0. /\ client \in [Sessions -> Records]
      /\ localBatch \in [Batches -> BatchStatuses]
      /\ localEpoch \in [Epochs -> EpochStatuses]
      /\ breaks \in 0 .. MaxBreaks /\ late \in BOOLEAN /\ MaxBreaks \in Nat
      /\ \A s \in Sessions : BatchOfClient(s) \in Batches /\ EpochOfClient(s) \in Epochs
  BY TransferAssumption, PlanAssumption, SourceAssumption
     DEF ClientTypeOK, BatchOfClient, EpochOfClient
<1>1. ASSUME NEW s \in Sessions, NEW pc \in ClientPCs, Move(s, pc)
      PROVE  client' \in [Sessions -> Records]
  BY <1>0, <1>1 DEF Move
<1>2. ASSUME NEW s \in Sessions, GiveUp(s)
      PROVE  client' \in [Sessions -> Records]
  BY <1>0, <1>2 DEF GiveUp, Away, ClientPCs
<1>3. ASSUME NEW b \in Batches, FinishDownload(b)
      PROVE  ClientTypeOK'
  <2>1. localBatch' \in [Batches -> BatchStatuses] /\ UNCHANGED <<client, breaks, late>>
    BY <1>0, <1>3 DEF FinishDownload, BatchStatuses, broken
  <2>2. localEpoch' \in [Epochs -> EpochStatuses]
    BY <1>0, <1>3 DEF FinishDownload, EpochStatuses
  <2> QED BY <1>0, <2>1, <2>2 DEF ClientTypeOK
<1>4. ASSUME NEW s \in Sessions, ClientStep(s)
      PROVE  ClientTypeOK'
  <2>0. UNCHANGED <<breaks, late>>
    BY <1>4 DEF ClientStep, StartTransfer, MoveLocalEpoch, Register, ReadStatus, UploadManifest,
       UploadPack, RequestCommit, RequestComplete, ReadAnswer, MarkLocalBatch, Reconcile,
       CloseLocalEpoch, broken
  <2>1. CASE StartTransfer(s)
    <3>1. /\ client' = [client EXCEPT ![s] = [pc |-> "local", seen |-> localEpoch[EpochOfClient(s)]]]
          /\ localBatch' = [localBatch EXCEPT ![BatchOfClient(s)] =
                              IF @ = "READY" THEN "TRANSFERRING" ELSE @]
          /\ UNCHANGED localEpoch
      BY <2>1 DEF StartTransfer, EpochOfClient, BatchOfClient
    <3>2. client' \in [Sessions -> Records]
      BY <1>0, <3>1 DEF ClientPCs
    <3>3. localBatch' \in [Batches -> BatchStatuses]
      BY <1>0, <3>1 DEF BatchStatuses
    <3> QED BY <1>0, <2>0, <3>1, <3>2, <3>3 DEF ClientTypeOK
  <2>2. CASE MoveLocalEpoch(s)
    <3>1. client' \in [Sessions -> Records] /\ UNCHANGED localBatch
      BY <1>1, <2>2 DEF MoveLocalEpoch, ClientPCs
    <3>2. localEpoch' \in [Epochs -> EpochStatuses]
      BY <1>0, <2>2 DEF MoveLocalEpoch, EpochStatuses
    <3> QED BY <1>0, <2>0, <3>1, <3>2 DEF ClientTypeOK
  <2>3. CASE Register(s) \/ ReadStatus(s) \/ UploadManifest(s) \/ UploadPack(s)
             \/ RequestCommit(s) \/ RequestComplete(s) \/ ReadAnswer(s)
    <3>1. UNCHANGED <<localBatch, localEpoch>>
      BY <2>3 DEF Register, ReadStatus, UploadManifest, UploadPack, RequestCommit,
                  RequestComplete, ReadAnswer, local
    <3>2. \/ GiveUp(s) \/ UNCHANGED client
          \/ \E pc \in {"status", "mark", "manifest", "packs", "commit", "complete"} : Move(s, pc)
      BY <2>3 DEF Register, ReadStatus, UploadManifest, UploadPack, RequestCommit,
                  RequestComplete, ReadAnswer
    <3>3. client' \in [Sessions -> Records]
      BY <1>0, <1>1, <1>2, <3>2 DEF ClientPCs
    <3> QED BY <1>0, <2>0, <3>1, <3>3 DEF ClientTypeOK
  <2>4. CASE MarkLocalBatch(s)
    BY <1>0, <2>0, <2>4 DEF MarkLocalBatch, BatchStatuses, ClientTypeOK
  <2>5. CASE Reconcile(s)
    <3>1. UNCHANGED <<localBatch, localEpoch>>
      BY <2>5 DEF Reconcile, local
    <3>2. \/ GiveUp(s) \/ Move(s, "done")
          \/ client' = [client EXCEPT ![s] = [pc |-> "close", seen |-> localEpoch[EpochOfClient(s)]]]
      BY <2>5 DEF Reconcile
    <3>3. client' \in [Sessions -> Records]
      BY <1>0, <1>1, <1>2, <3>2 DEF ClientPCs
    <3> QED BY <1>0, <2>0, <3>1, <3>3 DEF ClientTypeOK
  <2>6. CASE CloseLocalEpoch(s)
    <3>1. UNCHANGED localBatch
      BY <2>6 DEF CloseLocalEpoch
    <3>2. \/ Move(s, "done") /\ UNCHANGED localEpoch
          \/ \E to \in EpochStatuses : /\ localEpoch' = [localEpoch EXCEPT ![EpochOfClient(s)] = to]
                                      /\ client' = [client EXCEPT ![s].seen = to]
      BY <2>6 DEF CloseLocalEpoch, EpochStatuses
    <3>3. client' \in [Sessions -> Records] /\ localEpoch' \in [Epochs -> EpochStatuses]
      BY <1>0, <1>1, <3>2 DEF ClientPCs
    <3> QED BY <1>0, <2>0, <3>1, <3>3 DEF ClientTypeOK
  <2> QED BY <1>4, <2>1, <2>2, <2>3, <2>4, <2>5, <2>6 DEF ClientStep
<1>5. ASSUME NEW s \in Sessions, Break(s)
      PROVE  ClientTypeOK'
  <2>1. client' \in [Sessions -> Records] /\ UNCHANGED <<localBatch, localEpoch>>
    BY <1>2, <1>5 DEF Break, local
  <2>2. breaks' \in 0 .. MaxBreaks
    BY <1>0, <1>5 DEF Break
  <2>3. late' \in BOOLEAN
    BY <1>0, <1>5 DEF Break
  <2> QED BY <1>0, <2>1, <2>2, <2>3 DEF ClientTypeOK
<1>6. ASSUME NEW s \in Sessions, AgentStep(s)
      PROVE  ClientTypeOK'
  BY <1>6 DEF AgentStep, local, broken, ClientTypeOK
<1>7. CASE UNCHANGED tvars
  BY <1>7 DEF tvars, local, broken, ClientTypeOK
<1> QED BY <1>3, <1>4, <1>5, <1>6, <1>7 DEF TransferNext

LEMMA KnowsStill ==
    ASSUME Lasts, NEW s \in Sessions, ClientKnows(s), client'[s] = client[s]
    PROVE  ClientKnows(s)'
<1>1. BatchOfClient(s) \in Batches /\ EpochOfClient(s) \in Epochs
  BY PlanAssumption, SourceAssumption DEF BatchOfClient, EpochOfClient
<1> QED BY <1>1 DEF Lasts, ClientKnows, In, BatchOfClient, EpochOfClient

LEMMA LocalStill ==
    ASSUME Lasts, LocalNotAhead, UNCHANGED local
    PROVE  LocalNotAhead'
BY DEF Lasts, LocalNotAhead, local

(* The step of a client leaves it with what its next step relies on.       *)
LEMMA ClientStepKnows ==
    ASSUME RowsInv, Belongs, Lasts, TransferInv, NEW s \in Sessions, ClientStep(s)
    PROVE  ClientKnows(s)'
<1>0. /\ client \in [Sessions -> [pc : ClientPCs, seen : EpochStatuses \cup {None}]]
      /\ session \in [Sessions -> SessionStatuses]
      /\ BatchOfClient(s) \in Batches /\ EpochOfClient(s) \in Epochs
      /\ BatchOfClient(s) \in EpochBatches(EpochOfClient(s))
      /\ ClientKnows(s)
  BY PlanAssumption, SourceAssumption
     DEF RowsInv, TypeOK, TransferInv, ClientTypeOK, BatchOfClient, EpochOfClient, EpochBatches
<1>1. ASSUME client'[s].pc \in {"away", "local", "register", "done"}
      PROVE  ClientKnows(s)'
  BY <1>1 DEF ClientKnows, In
<1>2. ASSUME NEW pc \in ClientPCs, Move(s, pc)
      PROVE  client'[s].pc = pc
  BY <1>0, <1>2 DEF Move
<1>3. GiveUp(s) => client'[s].pc = "away"
  BY <1>0 DEF GiveUp, Away
<1>4. ASSUME NEW pc \in {"status", "manifest", "packs", "commit", "complete"},
             Move(s, pc), session[s] # "ABSENT" \/ session'[s] # "ABSENT"
      PROVE  ClientKnows(s)'
  BY <1>2, <1>4 DEF ClientKnows, In, Lasts, ClientPCs
<1>5. ASSUME Move(s, "mark"), session[s] = "BATCH_IMPORTED", UNCHANGED agent
      PROVE  ClientKnows(s)'
  <2>1. batchStatus[BatchOfClient(s)] = "IMPORTED"
    BY <1>5 DEF TransferInv, SessionDone, BatchOfClient
  <2>2. epochStatus[EpochOfClient(s)] # "ABSENT"
    BY <1>5 DEF Belongs, SessionRows, EpochOfClient
  <2>3. client'[s].pc = "mark"
    BY <1>2, <1>5 DEF ClientPCs
  <2> QED BY <1>5, <2>1, <2>2, <2>3
          DEF ClientKnows, In, agent, source, progress, BatchOfClient, EpochOfClient
<1>6. CASE StartTransfer(s) \/ MoveLocalEpoch(s)
  BY <1>0, <1>1, <1>6 DEF StartTransfer, MoveLocalEpoch, Move
<1>7. CASE Register(s)
  <2>1. CASE RegisterImportBundle(s) /\ Move(s, "status")
    <3>1. session'[s] = "UPLOADING_MANIFEST"
      BY <1>0, <2>1 DEF RegisterImportBundle
    <3> QED BY <1>4, <2>1, <3>1
  <2>2. CASE session[s] # "ABSENT" /\ Move(s, "status")
    BY <1>4, <2>2
  <2>3. CASE AlreadyApplied(EpochOfClient(s)) /\ Move(s, "mark") /\ UNCHANGED agent
    <3>1. batchStatus[BatchOfClient(s)] = "IMPORTED"
      BY <1>0, <2>3 DEF AlreadyApplied, RowsInv, EpochDone, AllBatchesImported
    <3>2. client'[s].pc = "mark"
      BY <1>2, <2>3 DEF ClientPCs
    <3> QED BY <2>3, <3>1, <3>2 DEF AlreadyApplied, ClientKnows, In, agent, source, progress,
                                    BatchOfClient, EpochOfClient
  <2>4. CASE GiveUp(s)
    BY <1>1, <1>3, <2>4
  <2> QED BY <1>7, <2>1, <2>2, <2>3, <2>4 DEF Register
<1>8. CASE ReadStatus(s)
  <2>1. session[s] # "ABSENT" /\ UNCHANGED agent
    BY <1>0, <1>8 DEF ReadStatus, ClientKnows, In
  <2>2. \/ session[s] = "BATCH_IMPORTED" /\ Move(s, "mark")
        \/ Move(s, "manifest") \/ Move(s, "packs")
    BY <1>8 DEF ReadStatus
  <2> QED BY <1>4, <1>5, <2>1, <2>2
<1>9. CASE UploadManifest(s)
  BY <1>4, <1>9 DEF UploadManifest, RegisterManifest
<1>10. CASE UploadPack(s) \/ MarkLocalBatch(s)
  BY <1>0, <1>10, KnowsStill DEF UploadPack, MarkLocalBatch
<1>11. CASE RequestCommit(s) \/ RequestComplete(s)
  <2>1. session[s] # "ABSENT"
    BY <1>0, <1>11 DEF RequestCommit, RequestComplete, ClientKnows, In
  <2>2. Move(s, "commit") \/ Move(s, "complete") \/ GiveUp(s)
    BY <1>11 DEF RequestCommit, RequestComplete
  <2> QED BY <1>1, <1>3, <1>4, <2>1, <2>2
<1>12. CASE ReadAnswer(s)
  <2>1. session[s] # "ABSENT" /\ UNCHANGED agent
    BY <1>0, <1>12 DEF ReadAnswer, ClientKnows
  <2>2. \/ GiveUp(s) \/ Move(s, "packs")
        \/ session[s] = "BATCH_IMPORTED" /\ Move(s, "mark")
    BY <1>12 DEF ReadAnswer
  <2> QED BY <1>1, <1>3, <1>4, <1>5, <2>1, <2>2
<1>13. CASE Reconcile(s)
  <2>1. CASE Move(s, "done") \/ GiveUp(s)
    BY <1>1, <1>2, <1>3, <2>1 DEF ClientPCs
  <2>2. CASE /\ client' = [client EXCEPT ![s] = [pc |-> "close", seen |-> localEpoch[EpochOfClient(s)]]]
             /\ active = None
    <3>1. epochStatus[EpochOfClient(s)] = "COMPLETE" /\ client'[s].pc = "close"
      BY <1>0, <1>13, <2>2, FreeIsComplete DEF Reconcile, ClientKnows
    <3> QED BY <1>0, <3>1 DEF ClientKnows, In, Lasts, EpochOfClient
  <2> QED BY <1>13, <2>1, <2>2 DEF Reconcile, ServerAdvanced
<1>14. CASE CloseLocalEpoch(s)
  <2>1. epochStatus[EpochOfClient(s)] = "COMPLETE"
    BY <1>0, <1>14 DEF CloseLocalEpoch, ClientKnows
  <2>2. client'[s].pc \in {"close", "done"}
    BY <1>0, <1>14 DEF CloseLocalEpoch, Move, In
  <2> QED BY <1>0, <2>1, <2>2 DEF ClientKnows, In, Lasts, EpochOfClient
<1> QED BY <1>6, <1>7, <1>8, <1>9, <1>10, <1>11, <1>12, <1>13, <1>14 DEF ClientStep

LEMMA ClientStepLocal ==
    ASSUME Lasts, TransferInv, NEW s \in Sessions, ClientStep(s)
    PROVE  LocalNotAhead'
<1>0. /\ localBatch \in [Batches -> BatchStatuses] /\ localEpoch \in [Epochs -> EpochStatuses]
      /\ BatchOfClient(s) \in Batches /\ EpochOfClient(s) \in Epochs
      /\ LocalNotAhead /\ ClientKnows(s)
  BY PlanAssumption, SourceAssumption DEF TransferInv, ClientTypeOK, BatchOfClient, EpochOfClient
<1>1. CASE StartTransfer(s)
  <2>1. /\ localBatch' = [localBatch EXCEPT ![BatchOfClient(s)] = IF @ = "READY" THEN "TRANSFERRING" ELSE @]
        /\ UNCHANGED localEpoch
    BY <1>1 DEF StartTransfer, BatchOfClient
  <2> QED BY <1>0, <2>1 DEF LocalNotAhead, Lasts
<1>2. CASE MoveLocalEpoch(s)
  <2>1. /\ UNCHANGED localBatch
        /\ \/ UNCHANGED localEpoch
           \/ localEpoch' = [localEpoch EXCEPT ![EpochOfClient(s)] = "TRANSFERRING"]
    BY <1>0, <1>2 DEF MoveLocalEpoch
  <2> QED BY <1>0, <2>1 DEF LocalNotAhead, Lasts
<1>3. CASE Register(s) \/ ReadStatus(s) \/ UploadManifest(s) \/ UploadPack(s) \/ RequestCommit(s)
           \/ RequestComplete(s) \/ ReadAnswer(s) \/ Reconcile(s)
  BY <1>0, <1>3, LocalStill DEF Register, ReadStatus, UploadManifest, UploadPack, RequestCommit,
     RequestComplete, ReadAnswer, Reconcile
<1>4. CASE MarkLocalBatch(s)
  <2>1. PICK to : localBatch' = [localBatch EXCEPT ![BatchOfClient(s)] = to]
    BY <1>4 DEF MarkLocalBatch
  <2>2. batchStatus[BatchOfClient(s)] = "IMPORTED" /\ UNCHANGED localEpoch
    BY <1>0, <1>4 DEF MarkLocalBatch, ClientKnows
  <2> QED BY <1>0, <2>1, <2>2 DEF LocalNotAhead, Lasts
<1>5. CASE CloseLocalEpoch(s)
  <2>1. epochStatus[EpochOfClient(s)] = "COMPLETE" /\ UNCHANGED localBatch
    BY <1>0, <1>5 DEF CloseLocalEpoch, ClientKnows
  <2>2. \/ UNCHANGED localEpoch
        \/ \E to : localEpoch' = [localEpoch EXCEPT ![EpochOfClient(s)] = to]
    BY <1>5 DEF CloseLocalEpoch
  <2> QED BY <1>0, <2>1, <2>2 DEF LocalNotAhead, Lasts
<1> QED BY <1>1, <1>2, <1>3, <1>4, <1>5 DEF ClientStep

(* A step of another client, of the agent or of a download.                *)
LEMMA OtherClients ==
    ASSUME NEW s \in Sessions, NEW r \in Sessions \ {s}, ClientTypeOK,
           ClientStep(s) \/ Break(s)
    PROVE  client'[r] = client[r]
<1>1. ASSUME NEW pc, Move(s, pc)
      PROVE  client'[r] = client[r]
  BY <1>1 DEF Move, ClientTypeOK
<1>2. ASSUME GiveUp(s)
      PROVE  client'[r] = client[r]
  BY <1>2 DEF GiveUp, ClientTypeOK
<1>3. CASE StartTransfer(s) \/ Reconcile(s) \/ CloseLocalEpoch(s)
  BY <1>1, <1>2, <1>3 DEF StartTransfer, Reconcile, CloseLocalEpoch, ClientTypeOK
<1>4. CASE MoveLocalEpoch(s) \/ Register(s) \/ ReadStatus(s) \/ UploadManifest(s)
           \/ UploadPack(s) \/ MarkLocalBatch(s)
  BY <1>1, <1>2, <1>4 DEF MoveLocalEpoch, Register, ReadStatus, UploadManifest, UploadPack,
     MarkLocalBatch
<1>5. CASE RequestCommit(s) \/ RequestComplete(s) \/ ReadAnswer(s)
  BY <1>1, <1>2, <1>5 DEF RequestCommit, RequestComplete, ReadAnswer
<1>6. CASE Break(s)
  BY <1>2, <1>6 DEF Break
<1> QED BY <1>3, <1>4, <1>5, <1>6 DEF ClientStep

LEMMA TransferKeeps ==
    ASSUME RowsInv, Belongs, TransferInv, [TransferNext]_tvars
    PROVE  TransferInv'
<1>1. [Next]_vars /\ Lasts
  BY AgentDrives, AgentLasts
<1>2. ClientTypeOK' /\ SessionDone'
  BY <1>1, ClientTypeStep, SessionDoneKeeps DEF TransferInv
<1>3. /\ LocalNotAhead /\ ClientTypeOK /\ \A r \in Sessions : ClientKnows(r)
  BY DEF TransferInv
<1>4. ASSUME NEW s \in Sessions, ClientStep(s)
      PROVE  LocalNotAhead' /\ \A r \in Sessions : ClientKnows(r)'
  BY <1>1, <1>3, <1>4, ClientStepLocal, ClientStepKnows, OtherClients, KnowsStill
<1>5. ASSUME NEW s \in Sessions, Break(s)
      PROVE  LocalNotAhead' /\ \A r \in Sessions : ClientKnows(r)'
  <2>1. UNCHANGED local /\ client'[s] = Away
    BY <1>3, <1>5 DEF Break, GiveUp, ClientTypeOK
  <2>2. ClientKnows(s)'
    BY <2>1 DEF ClientKnows, In, Away
  <2> QED BY <1>1, <1>3, <1>5, <2>1, <2>2, OtherClients, KnowsStill, LocalStill
<1>6. ASSUME NEW b \in Batches, FinishDownload(b)
      PROVE  LocalNotAhead' /\ \A r \in Sessions : ClientKnows(r)'
  <2>1. /\ localBatch' = [localBatch EXCEPT ![b] = "READY"]
        /\ \/ UNCHANGED localEpoch
           \/ localEpoch' = [localEpoch EXCEPT ![EpochOf[b]] = "TRANSFERRING"]
        /\ UNCHANGED client
    BY <1>3, <1>6 DEF FinishDownload, ClientTypeOK
  <2>2. LocalNotAhead'
    BY <1>1, <1>3, <2>1, PlanAssumption DEF LocalNotAhead, Lasts, ClientTypeOK
  <2> QED BY <1>1, <1>3, <2>1, <2>2, KnowsStill
<1>7. ASSUME UNCHANGED <<client, local>>
      PROVE  LocalNotAhead' /\ \A r \in Sessions : ClientKnows(r)'
  BY <1>1, <1>3, <1>7, KnowsStill, LocalStill
<1>8. LocalNotAhead' /\ \A r \in Sessions : ClientKnows(r)'
  BY <1>4, <1>5, <1>6, <1>7 DEF TransferNext, AgentStep, tvars
<1> QED BY <1>2, <1>8 DEF TransferInv

(* The workspace is never ahead of the agent, wherever transfers are cut   *)
(* and however those of different batches interleave.                      *)
THEOREM WorkspaceNeverAhead == TransferSpec => []LocalNotAhead
<1>1. TransferInit => TransferInv
  <2> SUFFICES ASSUME TransferInit
               PROVE  TransferInv
    OBVIOUS
  <2>1. ClientTypeOK
    <3>1. Away \in [pc : ClientPCs, seen : EpochStatuses \cup {None}]
      BY DEF Away, ClientPCs
    <3>2. "DOWNLOADING" \in BatchStatuses /\ "DOWNLOADING" \in EpochStatuses
      BY DEF BatchStatuses, EpochStatuses
    <3>3. 0 \in 0 .. MaxBreaks
      BY TransferAssumption
    <3> QED BY <3>1, <3>2, <3>3 DEF TransferInit, ClientTypeOK
  <2>2. SessionDone
    BY DEF TransferInit, Init, SessionDone, At, Idle
  <2>3. LocalNotAhead
    BY DEF TransferInit, LocalNotAhead
  <2>4. \A s \in Sessions : ClientKnows(s)
    BY DEF TransferInit, ClientKnows, In, Away
  <2> QED BY <2>1, <2>2, <2>3, <2>4 DEF TransferInv
<1>2. RowsInv /\ Belongs /\ TransferInv /\ [TransferNext]_tvars => TransferInv'
  BY TransferKeeps
<1>3. TransferInv => LocalNotAhead
  BY DEF TransferInv
<1> QED BY <1>1, <1>2, <1>3, TransferDrivesAgent, RowsInvariant, EverythingBelongs, PTL
        DEF TransferSpec
=============================================================================
