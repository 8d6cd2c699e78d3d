--------------------------- MODULE ImportPublish ---------------------------
(***************************************************************************)
(* The import side of the Mirror Agent for one source: bundles of an epoch *)
(* are registered, their packs uploaded, committed entry by entry into the *)
(* repository, publish units are opened when all their entries are there,  *)
(* and the source's cursor advances when every batch and every unit of the *)
(* epoch is done.                                                          *)
(*                                                                         *)
(* Every HTTP request is served by a goroutine of its own and no lock is   *)
(* held between two statements, so a handler (CommitPack, CompleteBatch)   *)
(* is a thread whose steps are the single database transactions and the    *)
(* single file-system effects of the code, in the order of the code.       *)
(* A read that is followed by a write validating it again (GetBatch before *)
(* TransitionBatch) is one step with it: a state that changes between the  *)
(* two makes the code return an error, which is the step Abort, possible   *)
(* at every point of every handler.                                        *)
(***************************************************************************)
EXTENDS Lifecycle, Naturals, FiniteSets

CONSTANTS
    Epochs, Batches, Packs, Entries, Units,  \* the plans of the bundles
    EpochOf,      \* [Batches -> Epochs]
    BatchOf,      \* [Packs -> Batches]
    PackOf,       \* [Entries -> Packs]
    UnitOf,       \* [Entries -> Units]
    UnitEpoch,    \* [Units -> Epochs]
    Metadata,     \* the entries with Artifact.Metadata set
    Paths, Contents, Cursors,
    PathOf,       \* [Entries -> Paths], the logical path
    ContentOf,    \* [Entries -> Contents \cup {None}], None for a DELETE
    Priority,     \* [Entries -> Nat], publishPriority of a metadata entry
    Base, Target, \* [Epochs -> Cursors]
    Sessions,     \* the request ids clients register bundles under
    SessionBatch, \* [Sessions -> Batches]
    Retried,      \* the sessions in which a PATCH may be retried while the
                  \* first one is still running
    Threads,      \* goroutines serving a commit or a complete request
    OperationColumn, \* whether publish_metadata_entries has the column
                  \* "operation" the statements name; server_schema.sql has not
    InitialCursor,
    InitialDisk,  \* [Paths -> Contents \cup {None}]
    None

Artifacts == Entries \ Metadata
ContentOrNone == Contents \cup {None}

PackEntries(p) == {x \in Entries : PackOf[x] = p}
UnitEntries(u) == {x \in Entries : UnitOf[x] = u}
EpochUnits(e) == {u \in Units : UnitEpoch[u] = e}
EpochBatches(e) == {b \in Batches : EpochOf[b] = e}
BatchPacks(b) == {p \in Packs : BatchOf[p] = b}
BatchEntries(b) == {x \in Entries : BatchOf[PackOf[x]] = b}
EpochEntries(e) == {x \in Entries : EpochOf[BatchOf[PackOf[x]]] = e}

(* required_count is declared by the planner for the whole epoch. *)
Required(u) == Cardinality(UnitEntries(u))

MetadataPaths == {PathOf[m] : m \in Metadata}

(* What a planned epoch looks like: an entry belongs to a unit of its      *)
(* epoch, only metadata is deleted, a path is an artifact's or metadata's. *)
ASSUME PlanAssumption ==
    /\ EpochOf \in [Batches -> Epochs]
    /\ BatchOf \in [Packs -> Batches]
    /\ PackOf \in [Entries -> Packs]
    /\ UnitOf \in [Entries -> Units]
    /\ UnitEpoch \in [Units -> Epochs]
    /\ Metadata \subseteq Entries
    /\ PathOf \in [Entries -> Paths]
    /\ ContentOf \in [Entries -> ContentOrNone]
    /\ None \notin Contents
    /\ \A x \in Entries : UnitEpoch[UnitOf[x]] = EpochOf[BatchOf[PackOf[x]]]
    /\ \A x \in Artifacts : ContentOf[x] # None /\ PathOf[x] \notin MetadataPaths
    /\ Priority \in [Entries -> Nat]
    /\ IsFiniteSet(Entries)

ASSUME SourceAssumption ==
    /\ Base \in [Epochs -> Cursors]
    /\ Target \in [Epochs -> Cursors]
    /\ SessionBatch \in [Sessions -> Batches]
    /\ Retried \subseteq Sessions
    /\ OperationColumn \in BOOLEAN
    /\ InitialCursor \in Cursors
    /\ InitialDisk \in [Paths -> ContentOrNone]
    /\ None \notin Epochs \cup Batches \cup Packs \cup Entries \cup Units
    /\ None \notin Sessions

VARIABLES
    cursor,       \* source_states.cursor
    active,       \* source_states.active_epoch_id, None for NULL
    epochStatus,  \* epochs.status, "ABSENT" without a row
    batchStatus,  \* batches.status
    packStatus,   \* packs.status, one row per pack for all sessions
    session,      \* import_sessions.status
    importPack,   \* import_packs.status, one row per session and pack
    unitStatus,   \* publish_units.status
    unitImported, \* publish_units.imported_count
    imported,     \* the keys of imported_entries
    catalog,      \* catalog_entries: the content a path is listed with
    disk,         \* the repository files Apache serves
    staged,       \* metadata files under .airgap-staging
    uploaded,     \* complete pack files in the upload staging
    th            \* the request each thread is serving

source == <<cursor, active, epochStatus>>
progress == <<batchStatus, packStatus, session, importPack>>
gate == <<unitStatus, unitImported, imported>>
repository == <<catalog, disk, staged>>
vars == <<source, progress, gate, repository, uploaded, th>>

(***************************************************************************)
(* The local state of a handler.  "pc" names the next step; "todo" holds   *)
(* the entries left in the loop it is in (WalkPack, or the metadata of a   *)
(* unit), "ready" the units left of the list PublishReady read, "x" and    *)
(* "u" the entry and the unit in hand, "seen" the epoch status it read.    *)
(***************************************************************************)
PCs == {"idle", "failed", "batch", "session", "entry", "insert", "remove",
        "list", "unit", "metadata", "rename", "catalog", "batchDone",
        "sessionDone", "count", "publishable", "publish", "complete"}

Idle == [pc |-> "idle", s |-> None, p |-> None, todo |-> {}, ready |-> {},
         x |-> None, u |-> None, seen |-> None]
Failed == [Idle EXCEPT !.pc = "failed"]

Resting(t) == th[t].pc \in {"idle", "failed"}
At(t, pc) == th[t].pc = pc
Goto(t, pc) == th' = [th EXCEPT ![t].pc = pc]
Return(t) == th' = [th EXCEPT ![t] = Idle]
Fail(t) == th' = [th EXCEPT ![t] = Failed]

EpochOfThread(t) == EpochOf[SessionBatch[th[t].s]]
BatchOfThread(t) == SessionBatch[th[t].s]

Init ==
    /\ cursor = InitialCursor
    /\ active = None
    /\ epochStatus = [e \in Epochs |-> "ABSENT"]
    /\ batchStatus = [b \in Batches |-> "ABSENT"]
    /\ packStatus = [p \in Packs |-> "ABSENT"]
    /\ session = [s \in Sessions |-> "ABSENT"]
    /\ importPack = [s \in Sessions |-> [p \in Packs |-> "ABSENT"]]
    /\ unitStatus = [u \in Units |-> "ABSENT"]
    /\ unitImported = [u \in Units |-> 0]
    /\ imported = {}
    /\ catalog = InitialDisk
    /\ disk = InitialDisk
    /\ staged = {}
    /\ uploaded = {}
    /\ th = [t \in Threads |-> Idle]

-----------------------------------------------------------------------------
(* Registration and upload: short requests, one transaction each. *)

(* The source state lets a bundle of the epoch in: it starts where the     *)
(* live cursor is, and no other epoch is active.                           *)
JoinAtAnyCursor(e) == active \in {None, e}
CanJoin(e) == cursor = Base[e] /\ active \in {None, e}

(* POST /imports for a request id that has no session yet.  One           *)
(* transaction: the live cursor must be the bundle's base, no other epoch *)
(* may be active, missing rows are inserted, existing ones left alone.    *)
(* (For a known request id the session is returned and nothing changes.)  *)
RegisterImportBundle(s) ==
    LET b == SessionBatch[s]
        e == EpochOf[b]
        Insert(status, new) == IF status = "ABSENT" THEN new ELSE status
    IN  /\ session[s] = "ABSENT"
        /\ CanJoin(e)
        /\ epochStatus[e] = "ABSENT" =>   \* ux_epochs_active_source
             \A o \in Epochs : epochStatus[o] \in {"ABSENT", "COMPLETE"}
        /\ epochStatus' = [epochStatus EXCEPT ![e] = Insert(@, "TRANSFERRING")]
        /\ batchStatus' = [batchStatus EXCEPT ![b] = Insert(@, "TRANSFERRING")]
        /\ packStatus' = [p \in Packs |-> IF BatchOf[p] = b
                                            THEN Insert(packStatus[p], "UPLOADING")
                                            ELSE packStatus[p]]
        /\ session' = [session EXCEPT ![s] = "UPLOADING_MANIFEST"]
        /\ importPack' = [importPack EXCEPT ![s] =
               [p \in Packs |-> IF BatchOf[p] = b THEN "UPLOADING" ELSE "ABSENT"]]
        /\ active' = e
        /\ UNCHANGED <<cursor, gate, repository, uploaded, th>>

ManifestDone == "MANIFEST_DONE"   \* a status no reader knows
ManifestReady == "MANIFEST_READY"

(* POST .../manifest/complete: the whole manifest is on disk, and it       *)
(* declares every unit of the epoch.                                       *)
(* The session's status is not looked at: a repeated call sets it back.    *)
RegisterManifest(s) ==
    /\ session[s] # "ABSENT"
    /\ unitStatus' = [u \in Units |->
                        IF UnitEpoch[u] = EpochOf[SessionBatch[s]] /\ unitStatus[u] = "ABSENT"
                          THEN "WAITING" ELSE unitStatus[u]]
    /\ session' = [session EXCEPT ![s] = ManifestReady]
    /\ UNCHANGED <<source, batchStatus, packStatus, importPack, unitImported,
                   imported, repository, uploaded, th>>

(* PATCH .../manifest and .../packs/{id}: a request is let in while the    *)
(* session, or the pack, is uploading; it streams its chunk to the file    *)
(* and only then writes back the row it has read, whatever has become of   *)
(* it by then: a retried request may have finished the upload meanwhile.   *)
AppendManifest(s) ==
    /\ session[s] # "ABSENT"
    /\ session[s] # "UPLOADING_MANIFEST" => s \in Retried
    /\ session' = [session EXCEPT ![s] = "UPLOADING_MANIFEST"]
    /\ UNCHANGED <<source, batchStatus, packStatus, importPack, gate, repository,
                   uploaded, th>>

(* The chunk that reaches the declared size completes the pack's file.     *)
(* The status goes to the session's row and to the shared row.             *)
AppendPack(s, p) ==
    /\ importPack[s][p] # "ABSENT"
    /\ importPack[s][p] # "UPLOADING" => s \in Retried
    /\ \E status \in {"UPLOADING", "UPLOADED"} :
         /\ importPack' = [importPack EXCEPT ![s][p] = status]
         /\ packStatus' = [packStatus EXCEPT ![p] = status]
         /\ uploaded' = IF status = "UPLOADED" /\ importPack[s][p] = "UPLOADING"
                          THEN uploaded \cup {<<s, p>>} ELSE uploaded
    /\ UNCHANGED <<source, batchStatus, session, gate, repository, th>>

-----------------------------------------------------------------------------
(* CommitPack *)

(* The checks of CommitPack, up to the pack header.  A pack already        *)
(* imported in this session answers at once and changes nothing.           *)
StartCommitPack(t, s, p) ==
    /\ Resting(t)
    /\ importPack[s][p] = "UPLOADED"
    /\ session[s] \in {ManifestReady, "IMPORTING"}
    /\ <<s, p>> \in uploaded   \* verifyUploadedPack, pack.Open
    /\ th' = [th EXCEPT ![t] = [Idle EXCEPT !.pc = "batch", !.s = s, !.p = p,
                                            !.todo = PackEntries(p)]]
    /\ UNCHANGED <<source, progress, gate, repository, uploaded>>

MarkBatchImporting(t) ==
    /\ At(t, "batch")
    /\ batchStatus' = [batchStatus EXCEPT ![BatchOfThread(t)] =
                         IF @ = "TRANSFERRING" THEN "IMPORTING" ELSE @]
    /\ Goto(t, "session")
    /\ UNCHANGED <<source, packStatus, session, importPack, gate, repository, uploaded>>

(* UpdateImportSession writes the row back whatever it has become. *)
MarkSessionImporting(t) ==
    /\ At(t, "session")
    /\ session' = [session EXCEPT ![th[t].s] = "IMPORTING"]
    /\ Goto(t, "entry")
    /\ UNCHANGED <<source, batchStatus, packStatus, importPack, gate, repository, uploaded>>

(* What stands on the path is not what the entry would put there. *)
NeverConflicts(x) == FALSE
Conflicts(x) == disk[PathOf[x]] \notin {None, ContentOf[x]}

(* One record of the pack reaches the disk: an artifact is installed       *)
(* without replacing anything (a different content is a conflict), a       *)
(* metadata file is written to the epoch's staging, a tombstone is only    *)
(* checked.  The records of a pack are taken in any order.                 *)
InstallEntry(t) ==
    /\ At(t, "entry")
    /\ \E x \in th[t].todo :
         \/ /\ x \in Artifacts
            /\ ~Conflicts(x)
            /\ disk' = [disk EXCEPT ![PathOf[x]] = ContentOf[x]]
            /\ th' = [th EXCEPT ![t].pc = "insert", ![t].x = x]
            /\ UNCHANGED staged
         \/ /\ x \in Artifacts
            /\ Conflicts(x)
            /\ Fail(t)
            /\ UNCHANGED <<disk, staged>>
         \/ /\ x \in Metadata
            /\ staged' = IF ContentOf[x] = None THEN staged ELSE staged \cup {x}
            /\ th' = [th EXCEPT ![t].pc = "insert", ![t].x = x]
            /\ UNCHANGED disk
    /\ UNCHANGED <<source, progress, gate, catalog, uploaded>>

(* The row of imported_entries that makes a second commit a no-op. *)
NeverKnown(x) == FALSE
Known(x) == x \in imported

(* The catalog after an entry is committed: metadata waits for its unit. *)
CatalogUntouched(x) == catalog
CatalogWith(x) ==
    IF x \in Artifacts THEN [catalog EXCEPT ![PathOf[x]] = ContentOf[x]] ELSE catalog

(* CommitImportedEntry, one transaction: an entry that is already there    *)
(* changes nothing, a new one is counted in its unit exactly once.  A      *)
(* metadata entry needs its row of publish_metadata_entries.               *)
CommitImportedEntry(t) ==
    LET x == th[t].x
        u == UnitOf[x]
        next == [th EXCEPT ![t].pc = "entry", ![t].x = None, ![t].todo = @ \ {x}]
    IN  /\ At(t, "insert")
        /\ \/ /\ Known(x)
              /\ th' = next
              /\ UNCHANGED <<gate, catalog>>
           \/ /\ ~Known(x)
              /\ x \in Metadata => OperationColumn
              /\ unitStatus[u] # "ABSENT" /\ unitImported[u] < Required(u)
              /\ imported' = imported \cup {x}
              /\ catalog' = CatalogWith(x)
              /\ unitImported' = [unitImported EXCEPT ![u] = @ + 1]
              /\ unitStatus' = [unitStatus EXCEPT ![u] =
                                  IF unitImported[u] + 1 = Required(u) THEN "READY" ELSE @]
              /\ th' = next
           \/ /\ ~Known(x)
              /\ \/ x \in Metadata /\ ~OperationColumn
                 \/ unitStatus[u] = "ABSENT" \/ unitImported[u] >= Required(u)
              /\ Fail(t)
              /\ UNCHANGED <<gate, catalog>>
        /\ UNCHANGED <<source, progress, disk, staged, uploaded>>

(* All records read: both pack rows become IMPORTED in one transaction. *)
MarkImportPackCommitted(t) ==
    /\ At(t, "entry")
    /\ th[t].todo = {}
    /\ importPack' = [importPack EXCEPT ![th[t].s][th[t].p] = "IMPORTED"]
    /\ packStatus' = [packStatus EXCEPT ![th[t].p] = "IMPORTED"]
    /\ Goto(t, "remove")
    /\ UNCHANGED <<source, batchStatus, session, gate, repository, uploaded>>

RemoveUploadedPack(t) ==
    /\ At(t, "remove")
    /\ uploaded' = uploaded \ {<<th[t].s, th[t].p>>}
    /\ Goto(t, "list")
    /\ UNCHANGED <<source, progress, gate, repository>>

-----------------------------------------------------------------------------
(* PublishReady, called at the end of CommitPack and within CompleteBatch. *)

(* The gate of a unit: everything it requires has been imported. *)
NotYetPublished(u) == unitStatus[u] \in {"WAITING", "READY"}
Publishable(u) == unitStatus[u] \in {"WAITING", "READY"} /\ unitImported[u] = Required(u)

(* ListPublishUnits: the units to publish are chosen from one snapshot. *)
ListReadyUnits(t) ==
    /\ At(t, "list")
    /\ th' = [th EXCEPT ![t].pc = "unit",
                        ![t].ready = {u \in EpochUnits(EpochOfThread(t)) : Publishable(u)}]
    /\ UNCHANGED <<source, progress, gate, repository, uploaded>>

(* ListPublishMetadata: the metadata of the unit committed so far.  The     *)
(* SELECT names the column "operation".                                    *)
WithoutTombstones(u) == {m \in imported \cap Metadata \cap UnitEntries(u) : ContentOf[m] # None}
MetadataOf(u) == imported \cap Metadata \cap UnitEntries(u)

OpenUnit(t) ==
    /\ At(t, "unit")
    /\ \E u \in th[t].ready :
         IF OperationColumn
           THEN th' = [th EXCEPT ![t].pc = "metadata", ![t].u = u,
                                 ![t].ready = @ \ {u},
                                 ![t].todo = MetadataOf(u)]
           ELSE Fail(t)
    /\ UNCHANGED <<source, progress, gate, repository, uploaded>>

(* Metadata goes out in the order of publishPriority. *)
AnyNext(m, todo) == m \in todo
IsNext(m, todo) == m \in todo /\ \A n \in todo : Priority[m] <= Priority[n]

(* publishMetadata takes the next entry.  The target of a tombstone is     *)
(* removed; a staged file found intact will be renamed; with the staged    *)
(* file gone, the target must already hold the content (an interrupted     *)
(* publish), else it is a conflict.                                        *)
CheckMetadata(t) ==
    /\ At(t, "metadata")
    /\ \E m \in Metadata :
         LET next(pc) == th' = [th EXCEPT ![t].pc = pc, ![t].x = m] IN
         /\ IsNext(m, th[t].todo)
         /\ \/ /\ ContentOf[m] = None
               /\ disk' = [disk EXCEPT ![PathOf[m]] = None]
               /\ next("catalog")
            \/ /\ m \in staged
               /\ next("rename")
               /\ UNCHANGED disk
            \/ /\ ContentOf[m] # None /\ m \notin staged
               /\ disk[PathOf[m]] = ContentOf[m]
               /\ next("catalog")
               /\ UNCHANGED disk
            \/ /\ ContentOf[m] # None /\ m \notin staged
               /\ disk[PathOf[m]] # ContentOf[m]
               /\ Fail(t)
               /\ UNCHANGED disk
    /\ UNCHANGED <<source, progress, gate, catalog, staged, uploaded>>

(* os.Rename of the staged file onto its target.  Another publisher may    *)
(* have taken it since it was hashed: the rename then fails.               *)
RenameMetadata(t) ==
    LET m == th[t].x IN
    /\ At(t, "rename")
    /\ \/ /\ m \in staged
          /\ disk' = [disk EXCEPT ![PathOf[m]] = ContentOf[m]]
          /\ staged' = staged \ {m}
          /\ Goto(t, "catalog")
       \/ /\ m \notin staged
          /\ Fail(t)
          /\ UNCHANGED <<disk, staged>>
    /\ UNCHANGED <<source, progress, gate, catalog, uploaded>>

(* The catalog effect of publishMetadata: Delete or Upsert. *)
CatalogMetadata(t) ==
    LET m == th[t].x IN
    /\ At(t, "catalog")
    /\ catalog' = [catalog EXCEPT ![PathOf[m]] = ContentOf[m]]
    /\ th' = [th EXCEPT ![t].pc = "metadata", ![t].x = None, ![t].todo = @ \ {m}]
    /\ UNCHANGED <<source, progress, gate, disk, staged, uploaded>>

(* MarkPublished: conditional on the counts, an error otherwise. *)
MarkPublished(t) ==
    LET u == th[t].u IN
    /\ At(t, "metadata")
    /\ th[t].todo = {}
    /\ IF unitImported[u] = Required(u)
         THEN /\ unitStatus' = [unitStatus EXCEPT ![u] = "PUBLISHED"]
              /\ th' = [th EXCEPT ![t].pc = "unit", ![t].u = None]
         ELSE Fail(t) /\ UNCHANGED unitStatus
    /\ UNCHANGED <<source, progress, unitImported, imported, repository, uploaded>>

(* The list is done: CommitPack returns, CompleteBatch goes on. *)
EndPublishReady(t) ==
    /\ At(t, "unit")
    /\ th[t].ready = {}
    /\ IF th[t].p # None THEN Return(t) ELSE Goto(t, "count")
    /\ UNCHANGED <<source, progress, gate, repository, uploaded>>

-----------------------------------------------------------------------------
(* CompleteBatch *)

(* The shared pack rows of the batch, not the ones of the session. *)
NoPackCheck(b) == TRUE
AllPacksImported(b) == \A p \in BatchPacks(b) : packStatus[p] = "IMPORTED"

(* The checks of CompleteBatch: every pack row of the batch is IMPORTED.   *)
(* A batch already done in a complete epoch answers at once.               *)
StartCompleteBatch(t, s) ==
    LET b == SessionBatch[s] IN
    /\ Resting(t)
    /\ session[s] # "ABSENT"
    /\ ~(session[s] = "BATCH_IMPORTED" /\ epochStatus[EpochOf[b]] = "COMPLETE")
    /\ AllPacksImported(b)
    /\ th' = [th EXCEPT ![t] = [Idle EXCEPT !.pc = "batchDone", !.s = s]]
    /\ UNCHANGED <<source, progress, gate, repository, uploaded>>

(* TransitionBatch, once to IMPORTING if needed and once to IMPORTED. *)
MarkBatchImported(t) ==
    LET b == BatchOfThread(t) IN
    /\ At(t, "batchDone")
    /\ IF batchStatus[b] = "TRANSFERRING"
         THEN /\ batchStatus' = [batchStatus EXCEPT ![b] = "IMPORTING"]
              /\ UNCHANGED th
         ELSE /\ batchStatus' = [batchStatus EXCEPT ![b] = "IMPORTED"]
              /\ Goto(t, "sessionDone")
    /\ UNCHANGED <<source, packStatus, session, importPack, gate, repository, uploaded>>

MarkSessionImported(t) ==
    /\ At(t, "sessionDone")
    /\ session' = [session EXCEPT ![th[t].s] = "BATCH_IMPORTED"]
    /\ Goto(t, "list")
    /\ UNCHANGED <<source, batchStatus, packStatus, importPack, gate, repository, uploaded>>

AllBatchesImported(e) == \A b \in EpochBatches(e) : batchStatus[b] = "IMPORTED"
NoUnitCheck(e) == TRUE
AllUnitsPublished(e) == \A u \in EpochUnits(e) : unitStatus[u] = "PUBLISHED"

(* GetEpoch, CountImportedBatches, CountPublishedUnits.  Both counts only  *)
(* grow, so they are read together; the epoch status read here may be      *)
(* stale in the two transitions that follow.                               *)
CountEpoch(t) ==
    LET e == EpochOfThread(t) IN
    /\ At(t, "count")
    /\ \/ ~AllBatchesImported(e) /\ Return(t)
       \/ AllBatchesImported(e) /\ ~AllUnitsPublished(e) /\ Fail(t)
       \/ /\ AllBatchesImported(e) /\ AllUnitsPublished(e)
          /\ th' = [th EXCEPT ![t].pc = "publishable", ![t].seen = epochStatus[e]]
    /\ UNCHANGED <<source, progress, gate, repository, uploaded>>

(* TransitionEpoch: validated against the status the row has now. *)
TransitionEpoch(t, from, to, nextpc) ==
    LET e == EpochOfThread(t) IN
    \/ /\ th[t].seen # from
       /\ Goto(t, nextpc)
       /\ UNCHANGED epochStatus
    \/ /\ th[t].seen = from
       /\ CanTransitionEpoch(epochStatus[e], to)
       /\ epochStatus' = [epochStatus EXCEPT ![e] = to]
       /\ th' = [th EXCEPT ![t].pc = nextpc, ![t].seen = to]
    \/ /\ th[t].seen = from
       /\ ~CanTransitionEpoch(epochStatus[e], to)
       /\ Fail(t)
       /\ UNCHANGED epochStatus

MarkEpochPublishable(t) ==
    /\ At(t, "publishable")
    /\ TransitionEpoch(t, "TRANSFERRING", "PUBLISHABLE", "publish")
    /\ UNCHANGED <<cursor, active, progress, gate, repository, uploaded>>

MarkEpochPublished(t) ==
    /\ At(t, "publish")
    /\ TransitionEpoch(t, "PUBLISHABLE", "PUBLISHED", "complete")
    /\ UNCHANGED <<cursor, active, progress, gate, repository, uploaded>>

(* The re-read of the epoch and the CompleteEpoch transaction. *)
CompleteEpoch(t) ==
    LET e == EpochOfThread(t)
        ok == /\ epochStatus[e] = "PUBLISHED"
              /\ AllBatchesImported(e)
              /\ AllUnitsPublished(e)
              /\ active = e
    IN  /\ At(t, "complete")
        /\ \/ /\ epochStatus[e] = "COMPLETE"
              /\ Return(t)
              /\ UNCHANGED source
           \/ /\ ok
              /\ epochStatus' = [epochStatus EXCEPT ![e] = "COMPLETE"]
              /\ cursor' = Target[e]
              /\ active' = None
              /\ Return(t)
           \/ /\ epochStatus[e] # "COMPLETE" /\ ~ok
              /\ Fail(t)
              /\ UNCHANGED source
        /\ UNCHANGED <<progress, gate, repository, uploaded>>

-----------------------------------------------------------------------------
(* A handler stops where it is: an I/O or SQLite error, the request's      *)
(* context cancelled, or the end of the process (all threads abort).       *)
(* Committed transactions and files stay, nothing is rolled back.          *)
Abort(t) ==
    /\ ~Resting(t)
    /\ Fail(t)
    /\ UNCHANGED <<source, progress, gate, repository, uploaded>>

CommitStep(t) ==
    \/ MarkBatchImporting(t)
    \/ MarkSessionImporting(t)
    \/ InstallEntry(t)
    \/ CommitImportedEntry(t)
    \/ MarkImportPackCommitted(t)
    \/ RemoveUploadedPack(t)

PublishStep(t) ==
    \/ ListReadyUnits(t)
    \/ OpenUnit(t)
    \/ CheckMetadata(t)
    \/ RenameMetadata(t)
    \/ CatalogMetadata(t)
    \/ MarkPublished(t)
    \/ EndPublishReady(t)

CompleteStep(t) ==
    \/ MarkBatchImported(t)
    \/ MarkSessionImported(t)
    \/ CountEpoch(t)
    \/ MarkEpochPublishable(t)
    \/ MarkEpochPublished(t)
    \/ CompleteEpoch(t)

HandlerStep(t) == CommitStep(t) \/ PublishStep(t) \/ CompleteStep(t)

Request ==
    \E s \in Sessions :
        \/ RegisterImportBundle(s)
        \/ RegisterManifest(s)
        \/ AppendManifest(s)
        \/ \E p \in Packs : AppendPack(s, p)
        \/ \E t \in Threads : StartCompleteBatch(t, s)
        \/ \E t \in Threads, p \in Packs : StartCommitPack(t, s, p)

Next ==
    \/ Request
    \/ \E t \in Threads : HandlerStep(t) \/ Abort(t)

Spec == Init /\ [][Next]_vars
-----------------------------------------------------------------------------
UnitStatuses == {"ABSENT", "WAITING", "READY", "PUBLISHED"}
SessionStatuses == {"ABSENT", "UPLOADING_MANIFEST", "MANIFEST_READY", "IMPORTING",
                    "BATCH_IMPORTED"}

ThreadRecords ==
    {r \in [pc : PCs, s : Sessions \cup {None}, p : Packs \cup {None},
            todo : SUBSET Entries, ready : SUBSET Units,
            x : Entries \cup {None}, u : Units \cup {None},
            seen : EpochStatuses \cup {None, "ABSENT"}] :
       /\ r.pc \notin {"idle", "failed"} => r.s \in Sessions
       /\ r.pc \in {"insert", "rename", "catalog"} => r.x \in Entries}

(* The type invariant of the agent's database, files and handlers: a       *)
(* thread that serves a request has its session, one that is at an entry   *)
(* has the entry.                                                          *)
TypeOK ==
    /\ cursor \in Cursors
    /\ active \in Epochs \cup {None}
    /\ epochStatus \in [Epochs -> EpochStatuses \cup {"ABSENT"}]
    /\ batchStatus \in [Batches -> BatchStatuses \cup {"ABSENT"}]
    /\ packStatus \in [Packs -> PackStatuses \cup {"ABSENT"}]
    /\ session \in [Sessions -> SessionStatuses]
    /\ importPack \in [Sessions -> [Packs -> PackStatuses \cup {"ABSENT"}]]
    /\ unitStatus \in [Units -> UnitStatuses]
    /\ unitImported \in [Units -> Nat]
    /\ imported \subseteq Entries
    /\ catalog \in [Paths -> ContentOrNone]
    /\ disk \in [Paths -> ContentOrNone]
    /\ staged \subseteq Metadata
    /\ uploaded \subseteq Sessions \X Packs
    /\ th \in [Threads -> ThreadRecords]
=============================================================================
