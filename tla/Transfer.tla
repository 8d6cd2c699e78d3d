------------------------------ MODULE Transfer ------------------------------
(***************************************************************************)
(* The intranet client that drives an import: for every batch bundle, the  *)
(* desktop application runs TransferLocalBundle, which asks the agent where *)
(* the batch stands, uploads and commits what is missing, completes the    *)
(* batch and then brings the rows of its own workspace up to date.  An     *)
(* interrupted or refused transfer is started over by the operator.        *)
(*                                                                         *)
(* beginTransfer lets one transfer of a batch run at a time, and a client  *)
(* waits for the answer of every request: the session of the batch stands  *)
(* for the client, and the thread of the same name serves its requests.    *)
(* The agent's steps are those of ImportPublish.                           *)
(***************************************************************************)
EXTENDS ImportPublish

CONSTANT MaxBreaks  \* bound on the interrupted transfers

ASSUME TransferAssumption ==
    /\ Threads = Sessions
    /\ MaxBreaks \in Nat
    /\ \A b \in Batches : \E s \in Sessions : SessionBatch[s] = b
    /\ \A s, r \in Sessions : SessionBatch[s] = SessionBatch[r] => s = r

VARIABLES
    client,      \* where each transfer is, and the epoch status it has read
    localBatch,  \* batches.status in the workspace of the client
    localEpoch,  \* epochs.status in the workspace of the client
    breaks,      \* interruptions so far
    late         \* whether one of them hit CompleteBatch after it had recorded
                 \* the session as BATCH_IMPORTED

agent == <<source, progress, gate, repository, uploaded, th>>
local == <<localBatch, localEpoch>>
broken == <<breaks, late>>
tvars == <<agent, client, local, broken>>

Away == [pc |-> "away", seen |-> None]
In(s, pc) == client[s].pc = pc
Move(s, pc) == client' = [client EXCEPT ![s].pc = pc]
GiveUp(s) == client' = [client EXCEPT ![s] = Away]

BatchOfClient(s) == SessionBatch[s]
EpochOfClient(s) == EpochOf[SessionBatch[s]]

TransferInit ==
    /\ Init
    /\ client = [s \in Sessions |-> Away]
    /\ localBatch = [b \in Batches |-> "DOWNLOADING"]
    /\ localEpoch = [e \in Epochs |-> "DOWNLOADING"]
    /\ breaks = 0
    /\ late = FALSE

AtTransferBoundary(b) ==
    localBatch[b] \in {"READY", "TRANSFERRING", "IMPORTING", "IMPORTED"}
AllTransferReady(e) == \A b \in EpochBatches(e) : AtTransferBoundary(b)
AllLocalImported(e) == \A b \in EpochBatches(e) : localBatch[b] = "IMPORTED"

-----------------------------------------------------------------------------
(* The end of DownloadBatch: the last bundle of the epoch that gets ready   *)
(* before any transfer takes the local epoch to TRANSFERRING.              *)
FinishDownload(b) ==
    LET e == EpochOf[b]
        batches == [localBatch EXCEPT ![b] = "READY"]
    IN  /\ localBatch[b] = "DOWNLOADING"
        /\ localBatch' = batches
        /\ localEpoch' = [localEpoch EXCEPT ![e] =
               IF @ = "DOWNLOADING" /\ \A c \in EpochBatches(e) : batches[c] = "READY"
                 THEN "TRANSFERRING" ELSE @]
        /\ UNCHANGED <<agent, client, broken>>

(* TransferLocalBundle reads both local rows and marks the batch. *)
StartTransfer(s) ==
    LET b == BatchOfClient(s) IN
    /\ In(s, "away")
    /\ AtTransferBoundary(b)
    /\ localEpoch[EpochOf[b]] \in {"DOWNLOADING", "TRANSFERRING", "PUBLISHABLE",
                                   "PUBLISHED", "COMPLETE"}
    /\ localBatch' = [localBatch EXCEPT ![b] = IF @ = "READY" THEN "TRANSFERRING" ELSE @]
    /\ client' = [client EXCEPT ![s] = [pc |-> "local", seen |-> localEpoch[EpochOf[b]]]]
    /\ UNCHANGED <<agent, localEpoch, broken>>

(* moveEpochToTransferringIfReady writes the row it has read back. *)
MoveLocalEpoch(s) ==
    LET e == EpochOfClient(s) IN
    /\ In(s, "local")
    /\ localEpoch' = [localEpoch EXCEPT ![e] =
           IF client[s].seen = "DOWNLOADING" /\ AllTransferReady(e) THEN "TRANSFERRING" ELSE @]
    /\ Move(s, "register")
    /\ UNCHANGED <<agent, localBatch, broken>>

(* The cursor is past the bundle: the epoch was completed meanwhile. *)
NeverApplied(e) == FALSE
AlreadyApplied(e) == cursor = Target[e] /\ active = None /\ epochStatus[e] = "COMPLETE"

(* TransferBatchBundle looks at the source state and asks for the session;  *)
(* an existing session is returned as it is.                               *)
Register(s) ==
    LET e == EpochOfClient(s) IN
    /\ In(s, "register")
    /\ \/ /\ CanJoin(e)
          /\ session[s] = "ABSENT"
          /\ RegisterImportBundle(s)
          /\ Move(s, "status")
       \/ /\ CanJoin(e)
          /\ session[s] # "ABSENT"
          /\ Move(s, "status")
          /\ UNCHANGED agent
       \/ /\ ~CanJoin(e)
          /\ IF cursor # Base[e] /\ AlreadyApplied(e) THEN Move(s, "mark") ELSE GiveUp(s)
          /\ UNCHANGED agent
    /\ UNCHANGED <<local, broken>>

(* ImportStatus: what is left to do; a batch already imported is done. *)
ReadStatus(s) ==
    /\ In(s, "status")
    /\ Move(s, IF session[s] = "BATCH_IMPORTED" THEN "mark"
               ELSE IF session[s] = "UPLOADING_MANIFEST" THEN "manifest" ELSE "packs")
    /\ UNCHANGED <<agent, local, broken>>

(* The chunks of the manifest leave the session's status as it is. *)
UploadManifest(s) ==
    /\ In(s, "manifest")
    /\ RegisterManifest(s)
    /\ Move(s, "status")
    /\ UNCHANGED <<local, broken>>

(* The packs the client passes over when it resumes. *)
UploadedOrImported(status) == status \in {"UPLOADED", "IMPORTED"}
PassedOver(status) == status = "IMPORTED"

UploadPack(s) ==
    /\ In(s, "packs")
    /\ \E p \in BatchPacks(BatchOfClient(s)) :
         importPack[s][p] = "UPLOADING" /\ AppendPack(s, p)
    /\ UNCHANGED <<client, local, broken>>

RequestCommit(s) ==
    /\ In(s, "packs")
    /\ \E p \in BatchPacks(BatchOfClient(s)) :
         ~PassedOver(importPack[s][p]) /\ StartCommitPack(s, s, p)
    /\ Move(s, "commit")
    /\ UNCHANGED <<local, broken>>

(* The agent refuses when one of the shared pack rows is not IMPORTED. *)
RequestComplete(s) ==
    /\ In(s, "packs")
    /\ \A p \in BatchPacks(BatchOfClient(s)) : PassedOver(importPack[s][p])
    /\ IF AllPacksImported(BatchOfClient(s))
         THEN StartCompleteBatch(s, s) /\ Move(s, "complete")
         ELSE GiveUp(s) /\ UNCHANGED agent
    /\ UNCHANGED <<local, broken>>

(* The answer of CommitPack or CompleteBatch: an error ends the transfer. *)
ReadAnswer(s) ==
    /\ client[s].pc \in {"commit", "complete"}
    /\ Resting(s)
    /\ \/ At(s, "failed") /\ GiveUp(s)
       \/ At(s, "idle") /\ In(s, "commit") /\ Move(s, "packs")
       \/ /\ At(s, "idle") /\ In(s, "complete")
          /\ IF session[s] = "BATCH_IMPORTED" THEN Move(s, "mark") ELSE GiveUp(s)
    /\ UNCHANGED <<agent, local, broken>>

(* markLocalBatchImported, one row update at a time. *)
MarkLocalBatch(s) ==
    LET b == BatchOfClient(s) IN
    /\ In(s, "mark")
    /\ localBatch[b] # "IMPORTED"
    /\ \E to \in {"TRANSFERRING", "IMPORTING", "IMPORTED"} :
         /\ localBatch[b] # to
         /\ CanTransitionBatch(localBatch[b], to)
         /\ localBatch' = [localBatch EXCEPT ![b] = to]
    /\ UNCHANGED <<agent, client, localEpoch, broken>>

(* The agent's source has reached the epoch's target and is free. *)
AnyServerState(e) == TRUE
ServerAdvanced(e) == cursor = Target[e] /\ active = None

(* completeLocalEpochIfServerAdvanced: with the last local batch imported   *)
(* the agent must have completed the epoch, or the transfer is in error.   *)
Reconcile(s) ==
    LET e == EpochOfClient(s) IN
    /\ In(s, "mark")
    /\ localBatch[BatchOfClient(s)] = "IMPORTED"
    /\ \/ ~AllLocalImported(e) /\ Move(s, "done")
       \/ /\ AllLocalImported(e) /\ ServerAdvanced(e)
          /\ client' = [client EXCEPT ![s] = [pc |-> "close", seen |-> localEpoch[e]]]
       \/ AllLocalImported(e) /\ ~ServerAdvanced(e) /\ GiveUp(s)
    /\ UNCHANGED <<agent, local, broken>>

(* It takes the epoch from the status it has read to COMPLETE, one row      *)
(* update at a time.                                                       *)
CloseLocalEpoch(s) ==
    LET e == EpochOfClient(s) IN
    /\ In(s, "close")
    /\ \/ /\ client[s].seen = "COMPLETE"
          /\ Move(s, "done")
          /\ UNCHANGED localEpoch
       \/ /\ client[s].seen # "COMPLETE"
          /\ \E to \in {"TRANSFERRING", "PUBLISHABLE", "PUBLISHED", "COMPLETE"} :
               /\ client[s].seen # to
               /\ CanTransitionEpoch(client[s].seen, to)
               /\ localEpoch' = [localEpoch EXCEPT ![e] = to]
               /\ client' = [client EXCEPT ![s].seen = to]
    /\ UNCHANGED <<agent, localBatch, broken>>

-----------------------------------------------------------------------------
(* The operator pauses a transfer, the client or the network fails: the    *)
(* agent's handler ends where it is.  A transfer that is done may also be  *)
(* started over.                                                           *)
Break(s) ==
    /\ breaks < MaxBreaks
    /\ ~In(s, "away")
    /\ \/ /\ Abort(s)
          /\ late' = (late \/ session[s] = "BATCH_IMPORTED")
       \/ Resting(s) /\ UNCHANGED <<agent, late>>
    /\ GiveUp(s)
    /\ breaks' = breaks + 1
    /\ UNCHANGED local

ClientStep(s) ==
    \/ StartTransfer(s)
    \/ MoveLocalEpoch(s)
    \/ Register(s)
    \/ ReadStatus(s)
    \/ UploadManifest(s)
    \/ UploadPack(s)
    \/ RequestCommit(s)
    \/ RequestComplete(s)
    \/ ReadAnswer(s)
    \/ MarkLocalBatch(s)
    \/ Reconcile(s)
    \/ CloseLocalEpoch(s)

AgentStep(s) == HandlerStep(s) /\ UNCHANGED <<client, local, broken>>

TransferNext ==
    \/ \E s \in Sessions : ClientStep(s) \/ AgentStep(s) \/ Break(s)
    \/ \E b \in Batches : FinishDownload(b)

(* Downloads end, a client and a handler take their next step, and the     *)
(* operator starts a transfer that has ended with an error again.          *)
Fairness ==
    /\ \A b \in Batches : WF_tvars(FinishDownload(b))
    /\ \A s \in Sessions : WF_tvars(ClientStep(s)) /\ WF_tvars(AgentStep(s))

TransferSpec == TransferInit /\ [][TransferNext]_tvars /\ Fairness
-----------------------------------------------------------------------------
ClientPCs == {"away", "local", "register", "status", "manifest", "packs", "commit",
              "complete", "mark", "close", "done"}

(* The type invariant of the client's side. *)
ClientTypeOK ==
    /\ client \in [Sessions -> [pc : ClientPCs, seen : EpochStatuses \cup {None}]]
    /\ localBatch \in [Batches -> BatchStatuses]
    /\ localEpoch \in [Epochs -> EpochStatuses]
    /\ breaks \in 0 .. MaxBreaks
    /\ late \in BOOLEAN

(* The workspace is never ahead of the agent: a batch is imported in it    *)
(* only when the agent's batch is, and its epoch is past the transfer only *)
(* when the agent's epoch is complete (TransferLocalBundle).               *)
LocalNotAhead ==
    /\ \A b \in Batches : localBatch[b] = "IMPORTED" => batchStatus[b] = "IMPORTED"
    /\ \A e \in Epochs : localEpoch[e] \in {"PUBLISHABLE", "PUBLISHED", "COMPLETE"} =>
         epochStatus[e] = "COMPLETE"

(* What it rests on: a session says its batch is imported when it is, and  *)
(* a client knows what the agent told it before the step it is at.         *)
SessionDone ==
    /\ \A s \in Sessions : session[s] = "BATCH_IMPORTED" =>
         batchStatus[SessionBatch[s]] = "IMPORTED"
    /\ \A t \in Threads : At(t, "sessionDone") => batchStatus[BatchOfThread(t)] = "IMPORTED"
ClientKnows(s) ==
    /\ client[s].pc \in {"status", "manifest", "packs", "commit", "complete"} =>
         session[s] # "ABSENT"
    /\ In(s, "mark") => /\ batchStatus[BatchOfClient(s)] = "IMPORTED"
                       /\ epochStatus[EpochOfClient(s)] # "ABSENT"
    /\ In(s, "close") => epochStatus[EpochOfClient(s)] = "COMPLETE"
TransferInv ==
    /\ ClientTypeOK
    /\ SessionDone
    /\ LocalNotAhead
    /\ \A s \in Sessions : ClientKnows(s)

(* Every epoch is eventually complete at the agent, however its transfers  *)
(* interleave, as long as no interruption falls on CompleteBatch between   *)
(* the session's BATCH_IMPORTED and its answer: an upload, a commit and    *)
(* all of the client's own steps may be cut anywhere and are resumed       *)
(* (TransferBatchBundle, CommitPack, CompleteBatch).                       *)
ResumeCompletes == \A e \in Epochs : <>(late \/ epochStatus[e] = "COMPLETE")

(* The same wherever the interruption falls: the state of epoch, batches   *)
(* and packs is persisted so that an interrupted import can be resumed.    *)
EpochsComplete == \A e \in Epochs : <>(epochStatus[e] = "COMPLETE")

(* And the workspace finds out: its epoch is eventually complete for good  *)
(* (completeLocalEpochIfServerAdvanced).                                   *)
WorkspaceCatchesUp ==
    \A e \in Epochs : epochStatus[e] = "COMPLETE" ~> [](localEpoch[e] = "COMPLETE")
=============================================================================
