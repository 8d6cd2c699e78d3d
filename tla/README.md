# Verification of airgap-mirror

airgap-mirror brings package repositories (APT, Maven, npm, PyPI) into a network
without Internet access. A *Mirror Agent* in the intranet holds the repository that
Apache serves and exports a *State Capsule* (its cursor and catalog). An Internet
workspace analyses the upstream against the capsule, plans an *Epoch* (base cursor,
frozen target cursor), cuts it into *Batches* of *Packs*, downloads them, and the
bundles are carried over and imported: *metadata last*, and the source's cursor
advances only when the whole epoch is in and published.

This directory holds TLA+ modules translated from the Go code and its SQL schemas, TLC
configurations that check them on small instances, and TLAPS proofs for all instances.
The repository has no tests; its statements about itself are in `README.md`,
`docs/TECHNICAL_DESIGN.md` and `docs/IMPLEMENTATION_PLAN.md`.

## 1. The system: inventory

| Component (src/internal unless noted) | State | Operations | Hard part | What makes it correct |
|---|---|---|---|---|
| Status machines `domain/transitions.go` | none | three predicates | which writers do not ask them | no status goes back |
| Registration `storage/sqlite/server_import_registration.go`, `server_manifest.go` | `source_states`, `epochs`, `batches`, `packs`, `publish_units`, `import_sessions`, `import_packs` | RegisterImportBundle, RegisterManifest, Update* | pack rows shared by sessions; stale rows written back | one open epoch, at the live cursor |
| Upload `service/transfer.go`, `client/transfer.go`, `server/api.go` | staging files, received counts | HEAD, PATCH, complete | offsets, truncation, retries | a completed file is what was declared |
| Pack commit `service/importer.go`, `files.go`, `server_import_commit.go` | `imported_entries`, `catalog_entries`, repository, staging | CommitPack | a goroutine per request, no lock, dies anywhere, is run again | entries counted once; what is imported is installed |
| Publisher `service/publisher.go`, `server_publish_catalog.go` | `publish_units`, staged metadata, catalog | PublishReady, MarkPublished | two publishers at once; lists read earlier | metadata after its unit, in priority order |
| Epoch completion `importer.go` (CompleteBatch), `server_epoch_batch_pack.go`, `server_epoch_complete.go` | statuses, cursor, active epoch | CompleteBatch, CompleteEpoch | several transactions, two batches at once | cursor moves base→target with everything in |
| Bundle transfer `client/bundle_transfer.go`, `workspace_transfer.go`, `src/desktop/app.go` | workspace `epochs`, `batches` | TransferBatchBundle, TransferLocalBundle | interruption at any request; two transfers in parallel | resumption ends; workspace and agent agree |
| Planner and workspace `service/planner.go`, `bundle.go`, `client/workspace.go`, `sqlite/client*.go` | `capsules`, `download_epochs`, `download_batches`, `download_packs`, `planned_artifacts`, bundle directories | ImportCapsule, AnalyzeSource, Plan, DownloadBatch, Finalize | a process that ends between any two rows; a planner without a transaction | a READY bundle is whole; an epoch is transferred whole |
| Downloader `service/downloader.go`, `http_fetcher.go`, `pack/*`, `integrity/file.go` | pack files, ".part" files, `download_entries` | downloadPack, downloadArtifact, Resume | crash between record, header, progress row and status row; an upstream that changes | a verified entry is in its pack as planned; what is interrupted is resumed |
| Maintenance `service/maintenance_runner.go`, `server_maintenance*.go`, `server_catalog_replace.go`, `maintenance_schema.sql` | `maintenance_jobs`, a private catalog, `catalog_entries` | StartInventory, runInventory, Cancel, restart | two triggers exclude imports; handlers check before they write; the root may move | never together with an import; the catalog is a whole inventory; every job ends |
| Garbage collection `service/gc.go`, `gc_remove_linux.go`, `sqlite/gc_candidates.go` | candidates, repository | StartGC, runGC | look, then remove | never removes what the catalog lists |
| Capsule `service/capsule.go`, `server_catalog_export.go`, `client/capsule.go` | none (a snapshot) | Export, ImportStateCapsule | cursor and catalog in two reads | what can be registered from it was planned against the live catalog |
| Adapters `adapters/*` | the workset and the plan of an analysis | Probe, Analyze, Inventory | many requests to a registry that changes meanwhile, answered by caches of different age | the cursor keeps its word; metadata names only what is there |
| HTTP server, npm gateway `server/*` | none | routes | | |
| Desktop, CLI, `src/desktop`, `src/cmd` | running transfers | begin, pause | one transfer per batch | |

**Interaction.** Workspace and agent share no memory: the bundle's descriptor
(`domain.BatchDescriptor`) carries the epoch's counts and cursors, and the client drives
the agent by HTTP (`SourceState`, `CreateImport`, `ImportStatus`, uploads, `CommitPack`,
`CompleteBatch`). Within the agent, requests meet only in SQLite (WAL, one transaction
per store call) and in the file system; Go's HTTP server gives each request a goroutine
and no lock is held across two store calls. So *every sequence of store calls of one
request interleaves with those of any other*, and a request can end between any two of
them. This is where the models look. PROJECT.json lists the hazards line by line.

## 2. Modules

| Module | What it is |
|---|---|
| `Lifecycle` | the status sets and transition predicates of the domain package |
| `ImportPublish` | the agent's import side of one source: registration, manifest, upload status, CommitPack, PublishReady, CompleteBatch; type invariant |
| `MirrorSync` | the abstract mirror: epochs opened at the cursor one at a time, entries held, units released, cursor advanced |
| `ImportPublishProperties` | safety and action properties, the refinement mapping, the inductive invariant |
| `Serving` | what the repository serves, with the history variable `disturbed` for publishers that outlive their epoch; ServesTarget, PublishOrder |
| `ImportPublishProofs` | TLAPS: types, the inductive invariant, counts, completion |
| `ImportPublishRefinement` | TLAPS: one open epoch, MirrorSync, what is served, publish order |
| `Transfer` | composition: clients with their workspace, driving `ImportPublish` request by request; liveness |
| `TransferProofs` | TLAPS proofs about the composition |
| `Upload` | the resumable upload of one pack, block by block: HEAD, PATCH, staging file, row; power loss; liveness |
| `UploadProofs` | TLAPS proofs about the upload |
| `Maintenance` | composition: inventory and GC jobs, the operator and restarts beside `ImportPublish` |
| `MaintenanceProofs` | TLAPS proofs about the composition |
| `Capsule` | composition: the export of a state capsule beside `ImportPublish` |
| `CapsuleProofs` | TLAPS proofs about the composition |
| `Download` | DownloadBatch of the Internet client: workers, pack files, part files, rows, the finalizer |
| `Workspace` | composition: capsule import, analysis and planner in front of `Download`, crashes; liveness |
| `WorkspaceProofs` | TLAPS proofs about the client workspace |
| `Analysis` | what the adapters share: the plan sink, the catalog comparison, the import of a plan in one step |
| `Npm`, `Pypi`, `Apt` | each adapter's analysis beside a registry that changes; liveness |
| `Registries` | the three adapters as one specification |
| `RegistriesProofs` | TLAPS proofs about the three adapters |
| `MCImportPublish`, `MCImportChain`, `MCImportConflict`, `MCTransfer`, `MCUpload`, `MCMaintenance`, `MCWorkspace`, `MCRegistries` | instances for TLC |

### ImportPublish and the code

Every table column the control depends on is a variable (`cursor`, `active`,
`epochStatus`, `batchStatus`, `packStatus`, `session`, `importPack`, `unitStatus`,
`unitImported`, `imported`, `catalog`), as are the three places files live (`disk`, the
served repository; `staged`, metadata under `.airgap-staging`; `uploaded`, finished pack
files). `th[t]` is a goroutine that serves a CommitPack or CompleteBatch: `pc` names its
next store call or file effect, the other fields are its local variables, so that what a
handler read stays in its hands while the database moves on. The steps, in the order of
the code:

- CommitPack: `StartCommitPack` (the checks) – `MarkBatchImporting` –
  `MarkSessionImporting` – per record `InstallEntry`, `CommitImportedEntry` –
  `MarkImportPackCommitted` – `RemoveUploadedPack` – PublishReady.
- PublishReady: `ListReadyUnits` – per unit `OpenUnit` – per metadata entry
  `CheckMetadata`, `RenameMetadata`, `CatalogMetadata` – `MarkPublished` –
  `EndPublishReady`.
- CompleteBatch: `StartCompleteBatch` – `MarkBatchImported` – `MarkSessionImported` –
  PublishReady – `CountEpoch` – `MarkEpochPublishable` – `MarkEpochPublished` –
  `CompleteEpoch`.
- `Abort`: the handler ends before its next step (I/O or database error, cancelled
  request, end of the process). What is committed stays. A restart of the agent is the
  abort of every thread: the agent has no state in memory.
- Short requests, one transaction each: `RegisterImportBundle`, `RegisterManifest`,
  `AppendManifest`, `AppendPack`.

Abstractions, all of them: a file is its content (a model value; equal content means
equal hash and size); the records of a pack are taken in any order; an upload is the
status it writes (chunks and offsets are in `Upload`); a read
whose result is validated again by the following write is one step with it, since the
states in which the two disagree end in an error, which `Abort` allows anywhere;
CountEpoch reads two counts that only grow in one step; one source (sources share no
row); catalog statistics, sizes and capacity are left out; a committed transaction is
durable (`synchronous=NORMAL` may lose the last ones at a power loss: a listed hazard);
`FAILED`/`CANCELLED` epochs do not occur since no code of the agent writes them;
maintenance jobs, which make registration fail, are in `Maintenance`.
`Retried` names the sessions whose PATCH requests may overlap with their own retry.

**Publishers that outlive their epoch.** Nothing in the code stops a handler that is at
its metadata when another handler completes the epoch, and the next epoch may be opened
meanwhile. It goes on with the list it has read and renames over, removes or lists again
what the next epoch has put in place (`publisher.go:136`). These steps are in the model,
for any number of handlers. `Serving` adds the history variable `disturbed`: the metadata
files that such a handler has changed. It changes no behaviour (`ServingIsImporting`); the
properties about what is served, about capsules and about maintenance jobs are stated for
all other files, so they say exactly how far a late publisher reaches: to the files it
has still in its hands, and no further.

**The column `operation`.** `CommitImportedEntry` and `ListPublishMetadata` name a column
of `publish_metadata_entries` that `server_schema.sql` does not create. The constant
`OperationColumn` keeps both readings: FALSE is the program as shipped, where every commit
of a metadata entry and every opening of a unit is an error; TRUE is the program with the
column the statements expect. The passing runs use TRUE, since with FALSE no metadata is
ever published and most safety would be vacuous; run `transfer_schema` uses FALSE and
shows that no epoch with metadata completes. The theorems hold for both.

### Transfer and the code

`Transfer` EXTENDS `ImportPublish` and replaces its free environment: a client per batch
runs TransferLocalBundle (`StartTransfer`, `MoveLocalEpoch`, then `Register`,
`ReadStatus`, `UploadManifest`, `UploadPack`, `RequestCommit`, `RequestComplete`,
`ReadAnswer` of TransferBatchBundle, then `MarkLocalBatch`, `Reconcile`,
`CloseLocalEpoch`). `localBatch` and `localEpoch` are the workspace's rows; `seen` is the
epoch row a client has read and will write back. `beginTransfer` runs one transfer per
batch and a client waits for each answer, so the request id stands for the client and
the thread of the same name serves it. `Break` is PauseTransfer, a network failure or
the end of the agent: the request in progress is aborted and the client gives up.
`AgentStep` lets the handler run on its own. The two or three requests a client makes
without any state in between (SourceState and CreateImport) are one step, since the
second checks again what the first read.

### Upload and the code

`ImportPublish` takes the upload of a pack as the step that completes it. `Upload` opens
that step, for one session and one pack. The client (`client`) asks for the pack's status
(`Resume`), sends HEAD (`SendHead`), then PATCH by PATCH (`SendPatch`, `Finish`), and
starts over after any error. A handler of the agent (`handler[h]`) holds the row it read
(`seen`) while it works: `PackOffset` compares the staging file with the row and truncates
what is beyond it; AppendPack is `OpenFile` (the offset must be the length of the file),
`WriteBlock`, `SyncFile`, `UpdateRow`. The staging file is its length, its good blocks
(those with the client's bytes; a file extended by writing behind its end has holes), and
the length a power loss leaves. `rows` keeps all values of the row, since with
`synchronous=NORMAL` a `PowerLoss` may take back the last transactions, any number of
them, independently of the blocks that had not been synced. The truncation of HEAD and the
registration of the pack are taken as durable: a truncation undone by a power loss leaves
an unsynced tail that the next HEAD cuts again. A refused request of the code that no
reachable state makes (a chunk beyond the declared size, a file longer than it) has no
action. A hash is checked in CommitPack and `uploadFile`: it passes because the pack is
whole, which is what `UploadedIsWhole` says.

A handler is not tied to its client. `Break` ends the client's attempt and leaves the
handler at work, beside the requests of the resumed upload; `Drop(h)` ends a handler no
client waits for, at any step or never (`PackOffset` does not look at its context after it
has read the row; a PATCH notices at its next read of the body). `PackOffset` is the stat
of the staging file, `TruncateFile` the cut, a call of its own. So a stale HEAD may cut
what the resumed upload has written, and a stale PATCH may write its row back. The history
variable `overtaken` becomes TRUE when that happens: a HEAD truncates below the current
row or below what another PATCH has written, or a PATCH writes a row back that has moved
on. The three properties say what holds until then (section 3, disagreements).

### Maintenance and the code

`Maintenance` EXTENDS `ImportPublish` with the jobs of one source. A job (`jobs[j]`) is
its row of `maintenance_jobs` and its goroutine: `pc` the next store call or file effect,
the rest its locals and private database. `StartInventory`/`StartGC` are the checks of the
service, `CreateMaintenanceJob` the insert with the trigger and the unique index,
`BeginJob` QUEUED to RUNNING. An inventory goes `OpenInventory` – `ScanFile` per file –
`EndScan` – `ReplaceCatalog` – `CompleteJob`; a GC `OpenGC` – `WalkFile` – `EndWalk` –
`CheckCandidate`, `CompareCandidate` (fstatat) and `RemoveCandidate` (unlinkat) per candidate –
`EndExecute`. `CancelJob`,
`NoticeCancel` and `FailJob` end a job early; `EndJob` may lose its write, since the code
drops the error of the last transition. `Restart` is the recovery at the start of the
agent (QUEUED and RUNNING become FAILED) and the end of every handler. `UpdateSource`
moves the root: `disk` is what the current root holds, `apart` what the others do, and a
job goes on in the root it has read. `ClaimRoot` gives another source an overlapping root.
`ImportStep` is any step of `ImportPublish`; one that registers a bundle must pass
`EpochTrigger`. The scan is npm's (files an index mentions, then the index); size and
modification time of a candidate are its content. The module is built over `Serving`:
`GCKeepsListed` and `CatalogIsWhole` leave out the files in `disturbed`.

### Capsule and the code

An export reads the state of the source (cursor, active epoch) and then its catalog
(`Parts`, in the order of `Export`), with any steps of the import in between. A client
refuses to analyse a capsule with an active epoch and the agent registers only at the live
cursor: `RegistrableCapsuleIsExact` says that these two suffice to make the two reads one.

### Download, Workspace and the code

`Download` has the rows of `client.sqlite` (`epoch`, `batch`, `pack`, `entry`), the files
of every directory (`file`: a pack with its header, the records the header counts and what
is behind; `part`; `bundle`: manifest.sqlite and batch.json), and what runs (`call[b]`:
DownloadBatch of a batch, `worker[p]`: downloadPack of a pack). The destination directory is
an argument of DownloadBatch, and the desktop asks for it at every call: `StartDownload(b, d)`
takes any of `Destinations[b]`, `dir[b]` is the one of the call that runs, and the rows know
nothing of it but the path of a READY pack. A batch that is continued elsewhere finds no
files there. A file is counted in chunks, and its content is the sequence of upstream
versions its chunks are from. downloadPack is `CreatePack`, `WriteHeader` or `ResumePack`;
then per artifact, when a record of the prefix that is there agrees with the plan,
`PassRecord` or `TakeRecord` – `LocateTaken`, and otherwise `AppendTombstone`,
`TakeGenerated`, or `OpenUpstream` – `FetchChunk` – `MarkProgress` – `FinishFetch` (the row
gets the digest) – `AppendFetched`; then `CountRecord`, `SetLocation`, `RemovePart`,
`MarkVerified`; at the end `ClosePack`. `MarkEntryState` is an UPDATE and does nothing for an
artifact without its `download_entries` row. `Refuse` is the first error, which cancels the
others; `Interrupt` is PauseDownload. The end of DownloadBatch is `EnterVerifying`,
`WriteManifest`, `WriteDescriptor`, `MarkReady`, `EndDownload`; a batch that is found
VERIFYING goes to these at once (`workspace.go:347`).

`Workspace` puts in front `ExtractCapsule`/`StoreCapsule` (rename, then the row),
`Analyze` (one open epoch per capsule), `Commit`, `CommitEmpty`, `Abort`, and the planner
row by row (`CreateBatch`, `AddPack`, `AssignArtifact`, `AddDownloadEntry`, `FinishPlan`):
the planner has no transaction, and one that is cut off leaves a batch without packs, a pack
without artifacts, or an artifact without its download row. `Crash` ends the process
between any two of these. Only the rows of the latest analysis are kept. A power loss, as
against the end of the process, is not in the model: files and rows are what was written.

### Analysis, the registries and the code

A path is a package and a number (0 is its metadata), a content a revision with the files
it lists. `Npm` has the replication feed (`doc`) and the packuments that are served
(`view`), which follow it at any time; the analysis pages through `_all_docs` between two
reads of `update_seq` and then through the change feed, and plans package by package,
giving up when a packument is older than its change. The comparison with the catalog is each
adapter's own (`NotListed` and `MetadataChanged` of npm, `Needed` of PyPI, `Classify` of APT). `Pypi` has the root of the Simple API
with the serials and the cached pages; a page's own serial is not looked at by the code,
so a page that is behind is mirrored as it is (`behind` names those, and `PypiCatchesUp`
leaves them out). `Apt` has InRelease and the indexes of a suite that is pushed index by
index; the hash of each index is compared with InRelease. The registries themselves are
external; what they do is what the adapters' requests and checks presuppose. `Import`
applies a committed plan to the catalog at once, which is what `Download`, `Transfer`,
`ImportPublish` and `MirrorSync` show of the path between.

**The second declaration of a unit.** The store refuses a publish unit that is declared
again with another count, and the APT and PyPI adapters do just that. `Redeclare` keeps
both readings, as `OperationColumn` does: FALSE is the program as shipped, where every
such analysis is aborted (run `unit_redeclared`); TRUE lets the declaration through, so
that what the adapters do beyond it can be checked (run `registries`).

## 3. Properties and runs

| Run | Instance | Properties | Shows |
|---|---|---|---|
| `import_publish` | 1 epoch, 2 batches, 1 unit over both (artifact, tombstone, index), 2 handlers | TypeOK, ExactlyOnceCount, ImportedIsInstalled, CompletionIsTotal, ServesTarget, MetadataLast, CursorAdvances, PublishOrder | two handlers may interleave, fail and be retried at every step; counts, gate and order hold |
| `import_retry` | 1 batch, 2 request ids for it, 2 handlers | IInv | pack rows regress; the invariant, of which CompletionIsTotal is a part, holds |
| `import_chain` | e1, its successor e2, a rival from the same base, 2 handlers | OneOpenEpoch, ServesTarget, MirrorSpec | no overtaking, also beside a publisher that outlives its epoch; the agent implements MirrorSync |
| `import_conflict` | two epochs with different content for one path, overlapping retries, capsules exported meanwhile | ImportedIsInstalled, RegistrableCapsuleIsExact | the second is refused, the first stays; a capsule one can register from is exact |
| `transfer` | 2 clients, 2 batches, 2 interruptions | LocalNotAhead, ResumeCompletes, WorkspaceCatchesUp | transfers are resumed to the end; workspace and agent agree |
| `transfer_schema` | shipped schema | EpochsComplete (violated) | no epoch with metadata completes |
| `upload` | 5 blocks in chunks of 2, 2 handlers, 2 interruptions, 2 power losses | RowBehindFile, UploadedIsWhole, UploadEnds | until a stale request takes back what another has done, the offset is never ahead of the disk and uploads end with a whole pack |
| `maintenance` | 1 epoch, an inventory, a GC, 2 roots, 1 handler, restarts | MTypeOK, Exclusive, OpenEpochKeepsFiles, GCKeepsListed, CatalogIsWhole, JobsEnd | imports and jobs exclude each other; nothing listed is removed; the catalog is never half an inventory |
| `stale_capsule` | a plan made before an inventory and a GC | NothingMissing (violated) | the epoch is registered after them and publishes an index that names a removed file |
| `workspace` | 4 artifacts in 2 batches and 3 packs, 2 workers, 1 interruption or crash, 2 directories for the second batch | WTypeOK, VerifiedIsPacked, ReadyBundleIsWhole, TransferringIsWhole, PlanFits, ReadyPackKeeps, DownloadSettles | packs and bundles of READY batches are whole, in one directory each, however the work was cut; what can stop a download for good is named |
| `registries` | npm: 3 packages, 4 changes, pages of 2 and 1; PyPI: 2 projects, 4 changes; APT: 2 indexes, 3 releases | NpmFollows, NpmServable, PypiServable, SnapshotIsWhole, NpmCatchesUp, PypiCatchesUp, AptCatchesUp | the mirror follows registries that change under it |
| `unit_redeclared` | APT with the store as it is | AptCatchesUp (violated) | no analysis of a suite is ever committed |

**Bounds.** Two handlers suffice for every race of two requests on one row; a third
only adds interleavings of pairs, and the safety properties are proved for any number.
Two batches are the least with which a unit and an epoch span batches; two sessions of one
batch the least with shared pack rows; three epochs the least with a chain and a rival.
Nothing in `ImportPublish` is bounded: counters are bounded by the plan. The bounds in
guards are `MaxBreaks` (interruptions), in `Upload` `MaxLosses` (power losses), and in
`Download` and `Workspace` `MaxBatches` and `MaxPacks` (`CreateBatch` and `AddPack` stay in
`Batches` and `Packs`) and `MaxCalls`; the instance needs two batches, and two packs in one
of them, and has them; its calls run one at a time, since two calls share nothing but the
epoch's row, and the theorems hold for any number. `MaxBreaks` is 2 in `transfer`: one for each client, or two for
the same one, the second hitting the resumption of the first. Five blocks in chunks of two give a first, a middle and a short last chunk, each with an
inside to be cut at; a second interruption or power loss hits the resumption of the first. Threads are symmetric where
no liveness is checked. `transfer` and `upload` switch the deadlock check off because finished
transfers stop.

In `workspace` one artifact is fetched in two chunks with a progress row after each, the least
with which a row can be behind its file; the other three are generated or deleted, and the
sizes force a second pack and a second batch. The first batch has one directory, the second
two, with the upstream file among its artifacts. One interruption is enough to continue a
batch elsewhere or to meet what a crash has left; the safety properties are proved for any
number. `registries` needs three packages for a page
that starts inside the list, four changes for one behind the target of an analysis that is
itself the second, and three releases for a suite that moves on twice. In `maintenance` one
job of each kind is enough, since only one is active at a time; the second root is one the
operator moves the source to or gives to another source. `MaxSeq`, `MaxSerial` and the
length of `Release` bound the changes of a registry. `maintenance` has one handler, so that
liveness and the moving root fit, and `disturbed` stays empty in it: handlers that are late
beside a job are left to the theorems, which hold for any number of them. The deadlock check
is off in `workspace`, `registries` and `unit_redeclared`, where everything may be downloaded or the
registry be at rest.

**What the violated runs mean.** Each checks one sentence of the documentation; the
traces are in PROJECT.json's findings: `transfer_schema` (a column the schema lacks),
`unit_redeclared` (a declaration the store refuses), `stale_capsule` (a registration that
compares the cursor and not the version of the catalog).

**Disagreements without a run of their own.** These were found while modelling, and the
properties that hold are stated so that they do not claim more:

- `server_import_registration.go:211`: a chunk of a second session, or a late one, writes
  its status to the shared row of the pack, so an imported pack goes back to UPLOADING,
  against "非法状态迁移明确拒绝" (`docs/IMPLEMENTATION_PLAN.md:36`). `CompletionIsTotal` and
  `IInv` (run `import_retry`) hold all the same.
- `server_import_registration.go:145`: a complete epoch whose base is its target becomes
  active again when one of its bundles is registered anew, and nothing clears it. The
  refinement theorems assume that cursors do not come back.
- `service/publisher.go:136`: a publisher with a list of units read before removes the file
  of a tombstone that the next epoch has brought back, or renames its own metadata over
  the next epoch's. `import_chain` has this handler; `ServesTarget`, `PublishOrder`,
  `RegistrableCapsuleIsExact`, `GCKeepsListed` and `CatalogIsWhole` hold for every file it has
  not changed itself (`disturbed`), and TLC finds `ServesTarget` violated there without that
  exception.
- `adapters/npm/adapter.go:61` admits a page size of 1 for `_all_docs`, and with it the
  snapshot ends after its first page: the row that a page repeats is all the second one
  has, and no new row means the end (line 278). `NpmFollows` is violated at once;
  `NpmCursorKeepsItsWord` assumes a page size above 1 (the default is 1000).
- `service/importer.go:193`: CompleteBatch records the session as BATCH_IMPORTED before it
  publishes and completes; the client never calls it again for such a session, and an
  interruption in between leaves the epoch open. `ResumeCompletes` leaves these out (`late`).
- `service/transfer.go:234`: the HEAD of a broken connection truncates the staging file to
  the offset it read, when the resumed upload already writes behind it, and a PATCH that
  outlives its connection writes its row back, against "Pack 续传" (`README.md:42`, resumption
  of the packs). Without the exception `overtaken` TLC finds `RowBehindFile`,
  `UploadedIsWhole` and `UploadEnds` violated, all three.
- `client/workspace.go:347`, `service/bundle.go:36`: a batch that was cut off in VERIFYING and
  is called again with another directory skips the download; the finalizer looks at rows
  only, writes manifest.sqlite and batch.json there, and marks READY a batch whose packs are
  elsewhere. `ReadyBundleIsWhole` therefore names two directories: one has all packs, as the
  pack rows say, one has the descriptor, and the two agree. That they are the same does not
  hold (`workspace` has the counterexample).
- `service/downloader.go:150`: an entry that is VERIFIED has its record in one directory. When
  a batch is continued in another one the call ends in a conflict, and with entries
  VERIFIED in both no directory finishes it (`Stuck`).
- `service/downloader.go:248`: a ".part" file that is longer than its progress row, that is
  complete, or whose ETag has changed stops every later download of its batch in its
  directory, and so does a pack file whose header was not written (`pack/reader.go`).
  `DownloadSettles` names these (`StuckPart`, `Headless`); a batch for which each directory
  has one of them is `Stuck`, and every other batch gets READY.

**Fairness** (`TransferSpec`, and in the same way `UploadSpec`): weak fairness of `FinishDownload`, of each client's
next step and of each handler's next step (in `Upload`, `Drop`, which ends a handler nobody
waits for, is not fair). A goroutine that is not interrupted goes on;
an operator starts a failed transfer again (the desktop application shows it as failed
and offers it); downloads end. `Break` is not fair and is bounded, so an interrupted
transfer eventually gets an attempt that is not interrupted. `ResumeCompletes` excludes the interruptions
after BATCH_IMPORTED, and nothing else (`late`). In `Workspace` the planner and the
goroutines of a call go on (weak fairness), and the operator starts the download of a
batch again and again in each of its directories (strong fairness of `StartDownload(b, d)`,
which an interruption disables);
`Abort`, `Interrupt` and `Crash` are bounded by `MaxBreaks` and not fair. In `Maintenance` a job's goroutine runs on by itself;
imports, cancellation and restarts need not happen. In the registries the analysis goes on
and what a registry serves catches up with its feed (weak), and the operator, again and
again given the chance, imports what was planned (strong, since an APT plan can only be
downloaded while upstream serves what it names).

## 4. Proofs

All for arbitrary finite or infinite sets of epochs, batches, packs, sessions and
handlers (entries finite), under `PlanAssumption` (the shape of a planned epoch: each
entry in a pack and a unit of its epoch; deleted entries are metadata; a path is either
an artifact's or metadata's) and `SourceAssumption` (types of the constants). TLC evaluates both in
every run.

- `ImportPublishProofs!TypeInvariant`: `Spec => []TypeOK`, with lemmas on what happens to
  the record of a thread (`ThreadSet`, `ThreadGoto`, `ThreadEnds`, `TransitionType`).
- `ImportPublishProofs!InductiveInvariant`: `Spec => []IInv`. None of the properties is
  inductive: CompleteBatch concludes from pack rows that a batch is imported, later, and
  in other transactions, from batch and unit rows that the epoch is. `RowsInv` adds what the
  rows promise (`PackDone`, `BatchDone`, `UnitDone`, `EpochDone`, `OpenIsActive`) and what
  a handler knows at each step from what it read (`ThreadInv`). The argument: `Grows` –
  imported entries, imported batches, published units are never taken
  back (`StepGrows`) – so what the other handlers know survives any step (`OthersKeep`);
  what the moving handler knows is shown action by action (`CommitKeeps`, `PublishKeeps`,
  `CompleteKeeps`, `StartKeeps`); each row promise has a lemma with the writers of its row
  (`SourceWriters`, `ProgressWriters`, `GateWriters`, `RepositoryWriters`). `PackDone`
  survives the regressing pack rows because a regression only weakens it. `IInv` is
  `RowsInv` and, about the files, `ImportedIsInstalled`. The two are apart because a GC, an
  inventory and a move of the root change files and catalog but no row: `RowsInv` is
  inductive with them as well, and so is all that follows from it.
- From it: `CountsExactlyOnce`, `ImportedArtifactsInstalled`, `CompletionTotal`,
  `CursorMovesAlongEpochs`, `MetadataComesLast`.
- `ImportPublishRefinement`: `EverythingBelongs` (a handler, a session and its rows belong
  to one batch), `OneEpochIsOpen` and `ImplementsMirrorSync` (the agent implements
  MirrorSync: initial states and every step mapped to a step or a stutter). These two
  assume `Ascending(rank)`: every epoch's target ranks above its base, so the cursors of a
  source never come back. The assumption is needed: a repair epoch, whose base is
  its target, can be made active again (section 3).
- There too, what is served. `HeldInvariant`: what has been imported belongs
  to an epoch that was registered, so a newly opened epoch has nothing yet
  (`OpenedEpochIsFresh`). On it rests `ServingInvariant`: a published unit of the open epoch
  has its metadata in place (`OpenUnitsServed`), and a publisher that has not outlived its epoch,
  which is one of the open epoch (`PublisherIsCurrent`), has put in place what it has no longer
  to do (`PublisherKnows`).
  `TargetIsServed` (`ServesTarget`) and `PublishInOrder` (`PublishOrder`) follow, for any
  number of handlers, those that outlive their epoch included: they are theorems of
  `ServingSpec`, whose behaviours are those of `Spec` (`ServingIsImporting`), and speak of the
  files not in `disturbed`. The argument: a file that is not disturbed is changed by a
  publisher of the open epoch alone (`PublisherMovesOn`, `WriterIsCurrent`), so what it shows
  is that epoch's (`ServedStays`), and a handler that is a publisher of the open epoch now has
  been one at each of its steps so far (`CompleteStays`, `NotYetOutlived`). They
  assume, besides `Ascending(rank)`, `OneEntryPerFile`: an epoch has one metadata entry for a
  file. A unit is declared once per key (`server_schema.sql:94`), keys of a source have files
  of their own, and a unit has a file once (`server_schema.sql:110`).
- `CapsuleProofs`: `ExportsOnlyRead` (`CapsuleSpec => ServingSpec`) and `CapsuleIsExact`
  (`RegistrableCapsuleIsExact`), under `Ascending`. The invariant `CapsuleInv` dates what the
  export has read: once the state was read with no epoch open, what is not disturbed stands
  still in the catalog until the cursor ranks higher (`CatalogStandsStill`), and a capsule
  whose cursor is lower cannot be registered.
- `TransferProofs!TransferDrivesAgent`: `TransferSpec => Spec`, so that all of the above
  holds under real clients; `WorkspaceNeverAhead`: `TransferSpec => []LocalNotAhead`, by
  the invariant `TransferInv` (`SessionDone`: a session that says BATCH_IMPORTED is right;
  `ClientKnows`: what a client was told still holds at its next step).
- `UploadProofs`: `UploadInvariant`, from it `RowStaysBehind` and `UploadedPacksAreWhole`,
  for any size, chunk, number of handlers, interruptions and power losses, under
  `UploadAssumption` alone: handlers may go on after their clients as long as they like.
  `RowBehindFile` is not inductive: an append is at the end of the file, and a truncation
  harmless, only as long as every handler has read a row that no other has moved past what
  it is about to do (`Writing`), and a power loss may go back to any earlier row because
  offsets only grow (`RowsGrow`). The invariant is `UploadTypeOK /\ (overtaken \/ UploadSound)`,
  and the two steps that would break `UploadSound` are those that set `overtaken`.
- `MaintenanceProofs`: `MaintenanceTypes` and `ImportsAndJobsExclude`
  (`MSpec => []Exclusive`), for any number of jobs, sessions, handlers and roots, under
  `MaintenanceAssumption` (types of the constants, and artifacts are not indexes).
  `MTypeOK` and `Exclusive` together are
  inductive. On the import side `active` becomes an epoch only in a registration
  (`SourceWriters`), which meets the trigger (`ImportKeeps`); on the other side a row
  becomes active only by the insert, which needs no epoch and no other job
  (`JobStepBecomes`); the checks the handlers make before are used nowhere.
- `JobsLeaveTheRowsAlone` (`MSpec => []RowsInv`) and `ImportsSurviveMaintenance`: jobs,
  restarts and moves of the root disturb no promise of the import side's rows, so counts and
  completion hold beside them. `OpenEpochIsSafe` (`OpenEpochKeepsFiles`): what the open epoch
  has installed stays under its root.
- `JobsKnowWhatTheySaw`, `GCLeavesTheListed` (`GCKeepsListed`), `InventoryIsWhole`
  (`CatalogIsWhole`): the invariant `JobsInv` says what a job's locals still tell about the
  repository and the catalog (`Fresh`, `Scanned`, `Checked`). Files may come beside a job (a
  commit that outlives its epoch installs what is there), the catalog may not change but for
  the files in `disturbed`: a publisher that has outlived its epoch may list a file again that an
  inventory has dropped, and a GC that has found it unlisted removes it. All other handlers
  are of the open epoch, and a job excludes that. For any number of handlers and jobs, under
  `Ascending`.
- `RegistriesProofs`: `PlansKeepTheirWord` (an inductive invariant per adapter, of the
  plan it is building and the catalog it has built), from it `NpmCursorKeepsItsWord`
  (`NpmFollows`), `NpmIsServable`, `PypiIsServable`, `AptSnapshotIsWhole`, for any packages,
  indexes, releases, page sizes and lengths of the feeds. npm's needs the most: a package
  is `Accounted` for when the workset has its last change, or does not have it and the mirror
  is as that change has left it; each stage of the analysis (`AllDocsInv` to `CommittedInv`)
  says for which changes that holds (`Promised`). `LeastElement`, `LeastIsMin` and
  `GreatestIsMax` carry the pages.
- `WorkspaceProofs`: `WorkspaceInvariant` (`WorkspaceSpec => []WInv`), from it
  `WorkspaceTypes` (`WTypeOK`), `VerifiedEntries` (`VerifiedIsPacked`), `ReadyBundles`
  (`ReadyBundleIsWhole`), `TransferringEpochs` (`TransferringIsWhole`) and `ReadyPacks`
  (`ReadyPackKeeps`), for any plan, any number of batches, packs, workers, calls,
  interruptions and crashes, under `DownloadAssumption` and `WorkspaceAssumption` (types of
  the constants, an order without repetition, deleted artifacts without content). The
  directories are part of it: every call may be given any of them. None of the properties is
  inductive: the finalizer concludes from pack rows that a bundle is whole, and a resumed
  worker concludes from a file what a dead one has done. `WInv` says
  - per pack (`PackInv`), that its file in every directory holds the records of its first
    artifacts as planned and the header counts all of them or all but the last (`FileInv`: the
    crash between record and header), how far its worker is in the directory of its call
    (`WorkerInv`), that a READY row has the digest of a complete file where it says (`ReadyInv`),
    and that a VERIFIED entry is at its place in one of them (`EntryInv`);
  - per batch (`BatchInv`), what a call may be doing under each status, that a batch past its
    download has all packs READY in one directory (`ReadyIn`), and what the bundle has at each
    step of the finalizer;
  - of the plan (`PlanInv`), that nothing is downloaded while it is made (`Quiet`) and that an
    epoch that says how many batches it has is assigned to the end.

  A worker's step touches its own pack only (`OwnStep`, `OthersSame`), a call's step its own
  batch (`CallMoves`), a planner's step no file (`QuietKeeps`), so each action has one lemma
  about what it does touch. A READY pack keeps its file because its entries determine the
  file (`Complete`) and are never assigned anew (`AssignmentStays`). That `Entries` lists the
  artifacts of a pack, all of them and in order, is an induction over the plan
  (`InOrderLists`).
- `WorkspaceProofs!PlanIsTight` (`PlanFits`), which needs an invariant of its own, `Tight`:
  exactly the first artifacts of the order are assigned, and while the planner runs the
  batches and the packs of the last batch have no gaps and the last artifact is in the last
  of them (`Shape`); the planner finds its place by counting rows (`LastBatch`, `LastPack`).
  `PlaceIsNext` and `AssignKeepsTight` are the step. `BytesAdd` is the sum over a set: adding
  an artifact adds its bytes.

**Only model-checked:** the liveness properties (outside the prover's reach, as is
ENABLED). Every invariant and every action property of a passing run is the conclusion of a
theorem, some under the hypotheses named above. Induction over data is possible where a set
of naturals can take the place of the predicate: `LeastElement` instantiates the
well-foundedness of the naturals with one, and `Naturally` says that a set with 0 and the
successor of each of its members is `Nat`; the lemmas on `InOrder` and `Bytes` use it. No
module has a RECURSIVE operator, so that theorems can be added.

## 5. Not modelled, and the plan

Left to prove: that the `Workspace` implements an abstract download (an epoch is planned,
its batches become READY once each, it is transferred).

Not modelled, and why:

- Maven (`adapters/maven`): one pass over listed coordinates or a manifest, each request
  independent, no state kept between them. APT's detached Release and Release.gpg, by-hash
  names and compressed alternatives: variants of the requests that are modelled.
- The inventories of APT, PyPI and Maven: `Maintenance` has npm's scan, which theirs repeat
  with other parsers. PyPI's and APT's list a pool file with the hash its page or index
  claims, without reading it; a model without damaged files does not show the difference.
- Power loss on the client and the loss of the last transactions of the agent
  (`synchronous=NORMAL`), except in `Upload`; the hazards name the places.
- Several workspaces of one source against `completeLocalEpochIfServerAdvanced`, and several
  capsules: `Transfer` and `Workspace` have one of each at work.
- Parsing of upstream indexes, the byte layout of packs and capsules, HTTP routing,
  authentication and rendering (`server/api.go`, the npm gateway), the front end: no state
  that a property is about.
