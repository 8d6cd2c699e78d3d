------------------------------ MODULE Download ------------------------------
(***************************************************************************)
(* DownloadBatch of the Internet client: the artifacts a plan has assigned *)
(* to the packs of a batch are fetched, or taken from the generated store, *)
(* and appended to the pack files; a finished batch gets its manifest and  *)
(* its batch.json.  The operator may run one call per batch at a time      *)
(* (beginDownload), pause it and call again, and the process may stop      *)
(* between any two steps: a call goes on from the rows of client.sqlite,   *)
(* the pack files and the ".part" files it finds.  The operator names the  *)
(* destination directory at every call, so a batch may be continued in     *)
(* another directory than the one it was begun in: the rows know nothing   *)
(* of it but the path of a pack that is READY.                             *)
(*                                                                         *)
(* A file is counted in chunks, the unit of a read; its content is the     *)
(* sequence of the upstream versions its chunks are from, and stands for   *)
(* its digests as well.  Version 1 is what the analysis has planned.       *)
(***************************************************************************)
EXTENDS Lifecycle, Integers, FiniteSets, SequencesExt

CONSTANTS
    Order,        \* the planned artifacts in the order of their ordinals
    Size,         \* [artifact -> chunks]
    Origin,       \* [artifact -> {"upstream", "local", "delete"}]
    Unstable,     \* the upstream files that may change after the analysis
    Destinations, \* [batch -> the directories the operator may name for it]
    MaxBatches,   \* bound on the batches of a plan
    MaxPacks,     \* bound on the packs of a batch
    MaxCalls,     \* bound on the calls of DownloadBatch at a time
    Concurrency,  \* the workers of a call
    ProgressEvery,\* chunks between two progress rows
    MaxBreaks,    \* bound on the interruptions
    None

Artifacts == Range(Order)
Batches == 1..MaxBatches
Packs == Batches \X (1..MaxPacks)
BatchOf(p) == p[1]
Dirs == UNION {Destinations[b] : b \in Batches}
Upstream == {a \in Artifacts : Origin[a] = "upstream"}

ASSUME DownloadAssumption ==
    /\ Order \in Seq(Artifacts)
    /\ \A i, j \in DOMAIN Order : Order[i] = Order[j] => i = j
    /\ Size \in [Artifacts -> Nat]
    /\ Origin \in [Artifacts -> {"upstream", "local", "delete"}]
    /\ \A a \in Artifacts : Origin[a] = "delete" => Size[a] = 0
    /\ Unstable \subseteq Upstream
    /\ \A b \in Batches : Destinations[b] # {}
    /\ {MaxBatches, MaxPacks, MaxCalls, Concurrency, ProgressEvery} \subseteq Nat \ {0}
    /\ MaxBreaks \in Nat
    /\ None \notin Artifacts \cup Packs \cup Dirs \cup Seq(Nat)

VARIABLES
    epoch,     \* the download_epochs row: capsule, status, total_batches
    batch,     \* [Batches -> download_batches.status]
    pack,      \* [Packs -> download_packs: status, sha256, file_path]
    entry,     \* [Artifacts -> planned_artifacts and download_entries]
    file,      \* [directory and pack -> the pack file]
    part,      \* [directory and artifact -> the ".part" file or None]
    bundle,    \* [directory and batch -> manifest.sqlite and batch.json]
    call,      \* [Batches -> where DownloadBatch of the batch is]
    dir,       \* [Batches -> the directory of that call, or None]
    worker,    \* [Packs -> where downloadPack of the pack is]
    upstream,  \* [Artifacts -> the version the upstream serves now]
    breaks     \* interruptions so far

rows == <<epoch, batch, pack, entry>>
files == <<file, part, bundle>>
running == <<call, dir, worker>>
dvars == <<rows, files, running, upstream, breaks>>

Planned(a) == [i \in 1..Size[a] |-> 1]
NoEntry == [pack |-> None, status |-> "ABSENT", got |-> 0, etag |-> None,
            sha |-> None, at |-> 0]
NoPack == [status |-> "ABSENT", sha |-> None, path |-> None]
(* A pack file: whether its header is there, the records its header counts, *)
(* and the records behind the header.                                      *)
Absent == [exists |-> FALSE, header |-> FALSE, count |-> 0, records |-> <<>>]
NoBundle == [manifest |-> None, descriptor |-> [exists |-> FALSE]]
Idle == [pc |-> "idle", i |-> 1, prefix |-> 0, version |-> 0, next |-> 0]

PacksOf(b) == {p \in Packs : BatchOf(p) = b /\ pack[p].status # "ABSENT"}
InPack(p) == {a \in Artifacts : entry[a].pack = p}
(* WalkPackArtifacts: the artifacts of a pack by ordinal; a function, which *)
(* can be reasoned about, in place of SelectSeq.                           *)
InOrder(S) ==
    LET upTo[n \in 0..Len(Order)] ==
            IF n = 0 THEN <<>>
            ELSE IF Order[n] \in S THEN Append(upTo[n - 1], Order[n]) ELSE upTo[n - 1]
    IN  upTo[Len(Order)]
Entries(p) == InOrder(InPack(p))

(* What a call works on: the files under its directory. *)
Place(p) == <<dir[BatchOf(p)], p>>
PartOf(p, a) == <<dir[BatchOf(p)], a>>

Step(p, pc) == worker' = [worker EXCEPT ![p].pc = pc]
NextArtifact(p) ==
    worker' = [worker EXCEPT ![p] = [Idle EXCEPT !.pc = "walk", !.i = worker[p].i + 1,
                                                 !.prefix = worker[p].prefix]]
Stops(p) == worker' = [worker EXCEPT ![p] = [Idle EXCEPT !.pc = "done"]]
SetEntry(a, field, value) == entry' = [entry EXCEPT ![a][field] = value]

(* The artifact a worker is at; it has none when the walk is over. *)
Walked(p) == worker[p].i > Len(Entries(p))
Current(p) == Entries(p)[worker[p].i]
Working(p, pc) == worker[p].pc = pc /\ ~Walked(p)
KeepsRecord(p) == worker[p].i <= worker[p].prefix

-----------------------------------------------------------------------------
NotVerifying == {"PLANNED", "DOWNLOADING"}
Downloadable == {"PLANNED", "DOWNLOADING", "VERIFYING"}

(* DownloadBatch: the statuses it checks and moves before it downloads.  A *)
(* call on a READY batch only reads batch.json back.                       *)
StartDownload(b, d) ==
    /\ d \in Destinations[b]
    /\ call[b] = "none"
    /\ Cardinality({c \in Batches : call[c] # "none"}) < MaxCalls
    /\ batch[b] \in Downloadable
    /\ epoch.status \in {"PLANNED", "DOWNLOADING"}
    /\ epoch' = [epoch EXCEPT !.status = "DOWNLOADING"]
    /\ call' = [call EXCEPT ![b] = "started"]
    /\ dir' = [dir EXCEPT ![b] = d]
    /\ UNCHANGED <<batch, pack, entry, files, worker, upstream, breaks>>

EnterBatch(b) ==
    /\ call[b] = "started"
    /\ batch' = [batch EXCEPT ![b] = IF @ = "PLANNED" THEN "DOWNLOADING" ELSE @]
    /\ call' = [call EXCEPT ![b] = IF batch[b] = "VERIFYING" THEN "finalize" ELSE "run"]
    /\ UNCHANGED <<epoch, pack, entry, files, dir, worker, upstream, breaks>>

Busy(p) == worker[p].pc \notin {"idle", "done"}

(* The jobs channel hands the packs out in order, a worker at a time. *)
Dispatched(p) ==
    /\ call[BatchOf(p)] = "run"
    /\ p \in PacksOf(BatchOf(p))
    /\ worker[p].pc = "idle"
    /\ \A q \in PacksOf(BatchOf(p)) : q[2] < p[2] => worker[q].pc # "idle"
    /\ Cardinality({q \in PacksOf(BatchOf(p)) : Busy(q)}) < Concurrency

(* pack.Create: the file, then its header. *)
CreatePack(p) ==
    /\ Dispatched(p)
    /\ ~file[Place(p)].exists
    /\ file' = [file EXCEPT ![Place(p)].exists = TRUE]
    /\ Step(p, "create")
    /\ UNCHANGED <<rows, part, bundle, call, dir, upstream, breaks>>

WriteHeader(p) ==
    /\ worker[p].pc = "create"
    /\ file' = [file EXCEPT ![Place(p)].header = TRUE]
    /\ Step(p, "walk")
    /\ UNCHANGED <<rows, part, bundle, call, dir, upstream, breaks>>

(* pack.Resume cuts the file behind the last record its header counts; the *)
(* reader that follows the walk sees these records.                        *)
AsFound(f) == f
CutShort(f) == [f EXCEPT !.records = SubSeq(@, 1, f.count - 1), !.count = Max({f.count - 1, 0})]
Resumed(f) == [f EXCEPT !.records = SubSeq(@, 1, f.count)]

ResumePack(p) ==
    /\ Dispatched(p)
    /\ file[Place(p)].exists /\ file[Place(p)].header
    /\ file' = [file EXCEPT ![Place(p)] = Resumed(@)]
    /\ worker' = [worker EXCEPT ![p] =
           [Idle EXCEPT !.pc = "walk", !.prefix = Resumed(file[Place(p)]).count]]
    /\ UNCHANGED <<rows, part, bundle, call, dir, upstream, breaks>>

(* A record of the file as it was found is hashed again and taken for the  *)
(* artifact the walk is at; a row that does not say so yet is brought up.   *)
Matches(record, a) ==
    /\ record.entry = a
    /\ Len(record.content) = Size[a]
    /\ entry[a].sha \in {None, record.content}

Kept(p) == file[Place(p)].records[worker[p].i]
TakesRecord(p) == Working(p, "walk") /\ KeepsRecord(p) /\ Matches(Kept(p), Current(p))

PassRecord(p) ==
    /\ TakesRecord(p)
    /\ entry[Current(p)].status = "VERIFIED"
    /\ NextArtifact(p)
    /\ UNCHANGED <<rows, files, call, dir, upstream, breaks>>

(* FinalizeArtifact; the location and the status follow, each on its own.  *)
TakeRecord(p) ==
    /\ TakesRecord(p)
    /\ entry[Current(p)].status # "VERIFIED"
    /\ SetEntry(Current(p), "sha", Kept(p).content)
    /\ Step(p, "taken")
    /\ UNCHANGED <<epoch, batch, pack, files, call, dir, upstream, breaks>>

LocateTaken(p) ==
    /\ Working(p, "taken")
    /\ SetEntry(Current(p), "at", worker[p].i)
    /\ Step(p, "located")
    /\ UNCHANGED <<epoch, batch, pack, files, call, dir, upstream, breaks>>

(* What the walk finds has no record yet. *)
ToMaterialize(p, origin) ==
    /\ Working(p, "walk") /\ ~KeepsRecord(p)
    /\ entry[Current(p)].status # "VERIFIED"
    /\ Origin[Current(p)] = origin

Written(p, content) ==
    file' = [file EXCEPT ![Place(p)].records = Append(@, [entry |-> Current(p), content |-> content])]

(* A tombstone is a record without content. *)
AppendTombstone(p) ==
    /\ ToMaterialize(p, "delete")
    /\ Written(p, <<>>)
    /\ Step(p, "written")
    /\ UNCHANGED <<rows, part, bundle, call, dir, upstream, breaks>>

(* A generated file is verified against its row, finalized and appended. *)
TakeGenerated(p) ==
    /\ ToMaterialize(p, "local")
    /\ SetEntry(Current(p), "sha", Planned(Current(p)))
    /\ Written(p, Planned(Current(p)))
    /\ Step(p, "written")
    /\ UNCHANGED <<epoch, batch, pack, part, bundle, call, dir, upstream, breaks>>

(* downloadArtifact continues the ".part" file with a Range request: the   *)
(* progress row must agree with its length, the upstream must have bytes   *)
(* past it, and the version of the row, if it has one.                     *)
Offset(f) == IF part[f] = None THEN 0 ELSE Len(part[f])
OffsetAgrees(f) == entry[f[2]].got \in {0, Offset(f)}
RangeServed(f) ==
    Offset(f) > 0 => /\ Offset(f) < Size[f[2]]
                     /\ entry[f[2]].etag \in {None, upstream[f[2]]}
PartHere(p) == PartOf(p, Current(p))

OpenUpstream(p) ==
    LET f == PartHere(p) IN
    /\ ToMaterialize(p, "upstream")
    /\ OffsetAgrees(f) /\ RangeServed(f)
    /\ part' = [part EXCEPT ![f] = IF @ = None THEN <<>> ELSE @]
    /\ worker' = [worker EXCEPT ![p].pc = "fetch", ![p].version = upstream[Current(p)],
                                ![p].next = Offset(f) + ProgressEvery]
    /\ UNCHANGED <<rows, file, bundle, call, dir, upstream, breaks>>

FetchChunk(p) ==
    LET f == PartHere(p) IN
    /\ Working(p, "fetch")
    /\ Offset(f) < Size[Current(p)]
    /\ part' = [part EXCEPT ![f] = Append(@, worker[p].version)]
    /\ Step(p, IF Offset(f) + 1 >= worker[p].next THEN "progress" ELSE "fetch")
    /\ UNCHANGED <<rows, file, bundle, call, dir, upstream, breaks>>

(* MarkEntryState is an UPDATE: an artifact the planner was cut off at has *)
(* no download_entries row and gets none.                                  *)
MarkEntryState(a, status, got, etag) ==
    entry' = [entry EXCEPT ![a] =
        IF @.status = "PLANNED" THEN @
        ELSE [@ EXCEPT !.status = status, !.got = got, !.etag = etag]]

MarkProgress(p) ==
    LET f == PartHere(p) IN
    /\ Working(p, "progress")
    /\ MarkEntryState(Current(p), "DOWNLOADING", Offset(f), worker[p].version)
    /\ worker' = [worker EXCEPT ![p].pc = "fetch", ![p].next = Offset(f) + ProgressEvery]
    /\ UNCHANGED <<epoch, batch, pack, files, call, dir, upstream, breaks>>

(* The end of the body: size and integrity are checked, the row gets the   *)
(* digest (FinalizeArtifact), then the record is written (Writer.Append).  *)
VerifiesSize(p) == Len(part[PartHere(p)]) = Size[Current(p)]
Verifies(p) == part[PartHere(p)] = Planned(Current(p))

FinishFetch(p) ==
    /\ Working(p, "fetch")
    /\ Offset(PartHere(p)) = Size[Current(p)]
    /\ Verifies(p)
    /\ SetEntry(Current(p), "sha", part[PartHere(p)])
    /\ Step(p, "verified")
    /\ UNCHANGED <<epoch, batch, pack, files, call, dir, upstream, breaks>>

AppendFetched(p) ==
    /\ Working(p, "verified")
    /\ Written(p, part[PartHere(p)])
    /\ Step(p, "written")
    /\ UNCHANGED <<rows, part, bundle, call, dir, upstream, breaks>>

(* The header counts the record. *)
CountRecord(p) ==
    /\ Working(p, "written")
    /\ file' = [file EXCEPT ![Place(p)].count = @ + 1]
    /\ Step(p, "packed")
    /\ UNCHANGED <<rows, part, bundle, call, dir, upstream, breaks>>

(* The row gets the place of the record, then a ".part" file is removed.   *)
SetLocation(p) ==
    /\ Working(p, "packed")
    /\ SetEntry(Current(p), "at", file[Place(p)].count)
    /\ Step(p, IF Origin[Current(p)] = "upstream" THEN "placed" ELSE "located")
    /\ UNCHANGED <<epoch, batch, pack, files, call, dir, upstream, breaks>>

RemovePart(p) ==
    /\ Working(p, "placed")
    /\ part' = [part EXCEPT ![PartHere(p)] = None]
    /\ Step(p, "located")
    /\ UNCHANGED <<rows, file, bundle, call, dir, upstream, breaks>>

MarkVerified(p) ==
    /\ Working(p, "located")
    /\ MarkEntryState(Current(p), "VERIFIED", Size[Current(p)], None)
    /\ NextArtifact(p)
    /\ UNCHANGED <<epoch, batch, pack, files, call, dir, upstream, breaks>>

(* The end of downloadPack: the file is closed and hashed, and the row is  *)
(* given its path.                                                         *)
ClosePack(p) ==
    /\ worker[p].pc = "walk" /\ Walked(p)
    /\ worker[p].prefix <= Len(Entries(p))
    /\ pack' = [pack EXCEPT ![p] = [status |-> "READY", sha |-> file[Place(p)].records,
                                    path |-> dir[BatchOf(p)]]]
    /\ Stops(p)
    /\ UNCHANGED <<epoch, batch, entry, files, call, dir, upstream, breaks>>

(* Every error of a pack that comes back however often it is tried. *)
Refused(p) ==
    \/ /\ Dispatched(p)
       /\ file[Place(p)].exists /\ ~file[Place(p)].header
    \/ /\ Working(p, "walk")
       /\ LET a == Current(p) IN
          \/ KeepsRecord(p) /\ ~Matches(Kept(p), a)
          \/ ~KeepsRecord(p) /\ entry[a].status = "VERIFIED"
          \/ ToMaterialize(p, "upstream") /\ ~(OffsetAgrees(PartHere(p)) /\ RangeServed(PartHere(p)))
    \/ /\ Working(p, "fetch")
       /\ Offset(PartHere(p)) = Size[Current(p)] /\ ~Verifies(p)
    \/ worker[p].pc = "walk" /\ Walked(p) /\ worker[p].prefix > Len(Entries(p))

(* The first error of a worker cancels the others. *)
Refuse(p) ==
    /\ call[BatchOf(p)] \in {"run", "cancelled"}
    /\ Refused(p)
    /\ call' = [call EXCEPT ![BatchOf(p)] = "cancelled"]
    /\ worker' = [worker EXCEPT ![p] = Idle]
    /\ UNCHANGED <<rows, files, dir, upstream, breaks>>

Return(b) ==
    /\ call' = [call EXCEPT ![b] = "none"]
    /\ dir' = [dir EXCEPT ![b] = None]

(* A pause of the operator, or a request that fails; without workers the   *)
(* call ends at once.                                                      *)
Interrupt(b) ==
    /\ breaks < MaxBreaks
    /\ call[b] \notin {"none", "cancelled"}
    /\ IF call[b] = "run" THEN call' = [call EXCEPT ![b] = "cancelled"] /\ dir' = dir
                          ELSE Return(b)
    /\ breaks' = breaks + 1
    /\ UNCHANGED <<rows, files, worker, upstream>>

(* A cancelled worker ends at its next request or query; the writes behind *)
(* "create" and "written" and the removal of a ".part" file ask nobody.    *)
StopWorker(p) ==
    /\ call[BatchOf(p)] = "cancelled"
    /\ Busy(p) /\ worker[p].pc \notin {"create", "written", "placed"}
    /\ Stops(p)
    /\ UNCHANGED <<rows, files, call, dir, upstream, breaks>>

Reset(b) == worker' = [p \in Packs |-> IF BatchOf(p) = b THEN Idle ELSE worker[p]]

EndCancelled(b) ==
    /\ call[b] = "cancelled"
    /\ \A p \in PacksOf(b) : ~Busy(p)
    /\ Return(b)
    /\ Reset(b)
    /\ UNCHANGED <<rows, files, upstream, breaks>>

EnterVerifying(b) ==
    /\ call[b] = "run"
    /\ \A p \in PacksOf(b) : worker[p].pc = "done"
    /\ batch' = [batch EXCEPT ![b] = "VERIFYING"]
    /\ call' = [call EXCEPT ![b] = "finalize"]
    /\ Reset(b)
    /\ UNCHANGED <<epoch, pack, entry, files, dir, upstream, breaks>>

-----------------------------------------------------------------------------
(* BundleFinalizer.Finalize builds the manifest anew from the rows, then   *)
(* batch.json, and marks the batch last.  It looks at the pack rows only:  *)
(* whether the pack files are in this directory it does not ask.           *)
Here(b) == <<dir[b], b>>
ManifestOf(b) ==
    [a \in {x \in Artifacts : entry[x].pack \in PacksOf(b)} |->
        [pack |-> entry[a].pack, at |-> entry[a].at, sha |-> entry[a].sha]]

DescriptorOf(b) ==
    [exists |-> TRUE, manifest |-> bundle[Here(b)].manifest,
     packs |-> [p \in PacksOf(b) |-> pack[p].sha], total |-> epoch.total]

PackReady(p) == pack[p].status = "READY"

WriteManifest(b) ==
    /\ call[b] = "finalize"
    /\ \A p \in PacksOf(b) : PackReady(p)
    /\ bundle' = [bundle EXCEPT ![Here(b)].manifest = ManifestOf(b)]
    /\ call' = [call EXCEPT ![b] = "describe"]
    /\ UNCHANGED <<rows, file, part, dir, worker, upstream, breaks>>

WriteDescriptor(b) ==
    /\ call[b] = "describe"
    /\ bundle' = [bundle EXCEPT ![Here(b)].descriptor = DescriptorOf(b)]
    /\ call' = [call EXCEPT ![b] = "mark"]
    /\ UNCHANGED <<rows, file, part, dir, worker, upstream, breaks>>

MarkReady(b) ==
    /\ call[b] = "mark"
    /\ batch' = [batch EXCEPT ![b] = "READY"]
    /\ call' = [call EXCEPT ![b] = "ready"]
    /\ UNCHANGED <<epoch, pack, entry, files, dir, worker, upstream, breaks>>

(* The rest of DownloadBatch: the last bundle moves the epoch. *)
PlannedBatches == {b \in Batches : batch[b] # "ABSENT"}
EveryRowReady == \A b \in PlannedBatches : batch[b] = "READY"
AllReady == Cardinality(PlannedBatches) = epoch.total /\ EveryRowReady

EndDownload(b) ==
    /\ call[b] = "ready"
    /\ epoch' = [epoch EXCEPT !.status = IF AllReady THEN "TRANSFERRING" ELSE @]
    /\ Return(b)
    /\ UNCHANGED <<batch, pack, entry, files, worker, upstream, breaks>>

-----------------------------------------------------------------------------
(* The upstream publishes another file under the same name. *)
Republish(a) ==
    /\ upstream[a] = 1
    /\ upstream' = [upstream EXCEPT ![a] = 2]
    /\ UNCHANGED <<rows, files, running, breaks>>

PackStep(p) ==
    \/ CreatePack(p) \/ WriteHeader(p) \/ ResumePack(p)
    \/ PassRecord(p) \/ TakeRecord(p) \/ LocateTaken(p)
    \/ AppendTombstone(p) \/ TakeGenerated(p)
    \/ OpenUpstream(p) \/ FetchChunk(p) \/ MarkProgress(p) \/ FinishFetch(p) \/ AppendFetched(p)
    \/ CountRecord(p) \/ SetLocation(p) \/ RemovePart(p) \/ MarkVerified(p)
    \/ ClosePack(p) \/ Refuse(p) \/ StopWorker(p)

CallStep(b) ==
    \/ EnterBatch(b) \/ EndCancelled(b) \/ EnterVerifying(b)
    \/ WriteManifest(b) \/ WriteDescriptor(b) \/ MarkReady(b) \/ EndDownload(b)

DownloadNext ==
    \/ \E b \in Batches, d \in Dirs : StartDownload(b, d)
    \/ \E b \in Batches : CallStep(b) \/ Interrupt(b)
    \/ \E p \in Packs : PackStep(p)
    \/ \E a \in Unstable : Republish(a)
=============================================================================
