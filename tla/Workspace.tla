----------------------------- MODULE Workspace -----------------------------
(***************************************************************************)
(* The workspace of the Internet client for one source: state capsules are *)
(* imported, AnalyzeSource makes an epoch from one of them and has the     *)
(* BatchPlanner cut it into batches and packs, and the batches are         *)
(* downloaded (Download).  The operator starts a download only when the    *)
(* analysis of the epoch has returned or was cut off; the rows are those   *)
(* of the source's latest epoch.                                           *)
(***************************************************************************)
EXTENDS Download

CONSTANTS
    Capsules,      \* the capsules the server has exported
    Path,          \* [artifact -> size of its record header and path]
    MaxBatchBytes, \* the sizes the planner packs up to
    TargetPackBytes

ASSUME WorkspaceAssumption ==
    /\ Path \in [Artifacts -> Nat \ {0}]
    /\ {MaxBatchBytes, TargetPackBytes} \subseteq Nat \ {0}

VARIABLES
    capsule,   \* [Capsules -> its directory under capsules/, its row]
    analysis,  \* where AnalyzeSource is
    planned    \* artifacts assigned so far by the planner

wvars == <<dvars, capsule, analysis, planned>>

NoEpoch == [capsule |-> None, status |-> "ABSENT", total |-> 0]
NoCapsule == [files |-> FALSE, importing |-> FALSE, stored |-> FALSE, open |-> FALSE]

NoFiles(f, t, u) ==
    /\ f = [q \in Dirs \X Packs |-> Absent]
    /\ t = [q \in Dirs \X Artifacts |-> None]
    /\ u = [q \in Dirs \X Batches |-> NoBundle]

WorkspaceInit ==
    /\ epoch = NoEpoch
    /\ batch = [b \in Batches |-> "ABSENT"]
    /\ pack = [p \in Packs |-> NoPack]
    /\ entry = [a \in Artifacts |-> NoEntry]
    /\ NoFiles(file, part, bundle)
    /\ dir = [b \in Batches |-> None]
    /\ call = [b \in Batches |-> "none"]
    /\ worker = [p \in Packs |-> Idle]
    /\ upstream = [a \in Upstream |-> 1]
    /\ breaks = 0
    /\ capsule = [c \in Capsules |-> NoCapsule]
    /\ analysis = "none"
    /\ planned = 0

-----------------------------------------------------------------------------
(* ImportCapsule: ImportStateCapsule checks and extracts the archive and   *)
(* renames it into place, then the row is written, or the directory is     *)
(* removed again.  A directory that is there already is refused.           *)
ExtractCapsule(c) ==
    /\ ~capsule[c].files
    /\ capsule' = [capsule EXCEPT ![c].files = TRUE, ![c].importing = TRUE]
    /\ UNCHANGED <<dvars, analysis, planned>>

StoreCapsule(c) ==
    /\ capsule[c].importing
    /\ \/ capsule' = [capsule EXCEPT ![c].stored = TRUE, ![c].importing = FALSE]
       \/ capsule' = [capsule EXCEPT ![c] = NoCapsule]
    /\ UNCHANGED <<dvars, analysis, planned>>

(* AnalyzeSource: one open epoch per capsule and source (FindOpenEpoch),   *)
(* then the adapter begins the epoch.  The rows of an earlier epoch are no *)
(* longer those of the latest one.                                         *)
Analyze(c) ==
    /\ analysis = "none"
    /\ \A b \in Batches : call[b] = "none"
    /\ capsule[c].stored /\ ~capsule[c].open
    /\ capsule' = [capsule EXCEPT ![c].open = TRUE]
    /\ epoch' = [capsule |-> c, status |-> "PLANNED", total |-> 0]
    /\ batch' = [b \in Batches |-> "ABSENT"]
    /\ pack' = [p \in Packs |-> NoPack]
    /\ entry' = [a \in Artifacts |-> NoEntry]
    /\ NoFiles(file', part', bundle')
    /\ analysis' = "adapter"
    /\ planned' = 0
    /\ upstream' = [a \in Upstream |-> 1]
    /\ UNCHANGED <<running, breaks>>

(* The adapter fails and aborts the epoch, which closes it. *)
Abort ==
    /\ analysis = "adapter"
    /\ breaks < MaxBreaks
    /\ epoch' = [epoch EXCEPT !.status = "FAILED"]
    /\ capsule' = [capsule EXCEPT ![epoch.capsule].open = FALSE]
    /\ analysis' = "none"
    /\ breaks' = breaks + 1
    /\ UNCHANGED <<batch, pack, entry, files, running, upstream, planned>>

(* Commit closes the plan; the planner goes on unless nothing has changed, *)
(* in which case the epoch stays as it is.                                 *)
Commit ==
    /\ analysis = "adapter"
    /\ entry' = [a \in Artifacts |-> [NoEntry EXCEPT !.status = "PLANNED",
                     !.sha = IF Origin[a] = "upstream" THEN None ELSE Planned(a)]]
    /\ analysis' = "planner"
    /\ UNCHANGED <<epoch, batch, pack, files, running, upstream, breaks, capsule, planned>>

CommitEmpty ==
    /\ analysis = "adapter"
    /\ \/ analysis' = "none" /\ planned' = planned
       \/ analysis' = "planner" /\ planned' = Len(Order)
    /\ UNCHANGED <<dvars, capsule>>

-----------------------------------------------------------------------------
(* BatchPlanner.Plan, an artifact at a time.                               *)
RecordBytes(a) == Path[a] + Size[a]
Bytes(artifacts) == MapThenSumSet(RecordBytes, artifacts)
InBatch(b) == UNION {InPack(p) : p \in PacksOf(b)}
LastBatch == Cardinality(PlannedBatches)
LastPack(b) == Cardinality(PacksOf(b))

(* Where the next artifact goes: a batch or a pack that has something is   *)
(* left for the next one when the artifact would take it past its size.    *)
(* Each row is written on its own, and a planner that is cut off leaves a  *)
(* batch without packs, a pack without artifacts, or an artifact without   *)
(* its download_entries row, which stays PLANNED.                          *)
OverflowsLate(bytes, a, limit) == bytes > limit
Overflows(bytes, a, limit) == bytes > 0 /\ bytes + RecordBytes(a) > limit

OpenPackOf(b) == <<b, LastPack(b)>>
NextOf == Order[planned + 1]
NeedsBatch ==
    \/ LastBatch \notin PlannedBatches
    \/ planned < Len(Order) /\ Overflows(Bytes(InBatch(LastBatch)), NextOf, MaxBatchBytes)
NeedsPack ==
    \/ OpenPackOf(LastBatch) \notin PacksOf(LastBatch)
    \/ planned < Len(Order)
          /\ Overflows(Bytes(InPack(OpenPackOf(LastBatch))), NextOf, TargetPackBytes)

(* Between two artifacts, when the next one is not yet in a pack. *)
Planning == analysis = "planner" /\ (planned < Len(Order) => entry[NextOf].pack = None)

(* A plan without artifacts gets one batch with one empty pack.  The bounds *)
(* on batches and packs: the new one is in Batches, in Packs.              *)
CreateBatch ==
    /\ Planning /\ NeedsBatch
    /\ LastBatch + 1 \in Batches
    /\ batch' = [batch EXCEPT ![LastBatch + 1] = "PLANNED"]
    /\ UNCHANGED <<epoch, pack, entry, files, running, upstream, breaks,
                   capsule, analysis, planned>>

AddPack ==
    LET p == <<LastBatch, LastPack(LastBatch) + 1>> IN
    /\ Planning /\ ~NeedsBatch /\ NeedsPack
    /\ p \in Packs
    /\ pack' = [pack EXCEPT ![p].status = "PLANNED"]
    /\ UNCHANGED <<epoch, batch, entry, files, running, upstream, breaks,
                   capsule, analysis, planned>>

AssignArtifact ==
    /\ Planning /\ ~NeedsBatch /\ ~NeedsPack
    /\ planned < Len(Order)
    /\ SetEntry(NextOf, "pack", OpenPackOf(LastBatch))
    /\ UNCHANGED <<epoch, batch, pack, files, running, upstream, breaks,
                   capsule, analysis, planned>>

AddDownloadEntry ==
    /\ analysis = "planner"
    /\ planned < Len(Order) /\ entry[NextOf].pack # None
    /\ SetEntry(NextOf, "status", "PENDING")
    /\ planned' = planned + 1
    /\ UNCHANGED <<epoch, batch, pack, files, running, upstream, breaks, capsule, analysis>>

FinishPlan ==
    /\ Planning /\ ~NeedsBatch /\ ~NeedsPack
    /\ planned = Len(Order)
    /\ epoch' = [epoch EXCEPT !.total = LastBatch]
    /\ analysis' = "none"
    /\ UNCHANGED <<batch, pack, entry, files, running, upstream, breaks, capsule, planned>>

-----------------------------------------------------------------------------
(* The process ends: what is in client.sqlite and in the files stays. *)
Crash ==
    /\ breaks < MaxBreaks
    /\ breaks' = breaks + 1
    /\ call' = [b \in Batches |-> "none"]
    /\ dir' = [b \in Batches |-> None]
    /\ worker' = [p \in Packs |-> Idle]
    /\ analysis' = "none"
    /\ capsule' = [c \in Capsules |-> [capsule[c] EXCEPT !.importing = FALSE]]
    /\ UNCHANGED <<rows, files, upstream, planned>>

PlanStep ==
    \/ Commit \/ CommitEmpty
    \/ CreateBatch \/ AddPack \/ AssignArtifact \/ AddDownloadEntry \/ FinishPlan

WorkspaceNext ==
    \/ \E c \in Capsules : ExtractCapsule(c) \/ StoreCapsule(c) \/ Analyze(c)
    \/ Abort
    \/ PlanStep
    \/ analysis = "none" /\ DownloadNext /\ UNCHANGED <<capsule, analysis, planned>>
    \/ Crash

(* The goroutines of a call go on as long as one of them can, and the      *)
(* operator comes back to every batch that is not ready, with each of the  *)
(* directories: a download that may be started again and again is.         *)
(* Capsules and analyses are up to the operator.                           *)
Downloads(A) == analysis = "none" /\ A /\ UNCHANGED <<capsule, analysis, planned>>
Goroutines(b) == call[b] # "none" /\ (CallStep(b) \/ \E p \in PacksOf(b) : PackStep(p))

WorkspaceSpec ==
    /\ WorkspaceInit /\ [][WorkspaceNext]_wvars
    /\ WF_wvars(PlanStep)
    /\ \A b \in Batches :
          /\ \A d \in Destinations[b] : SF_wvars(Downloads(StartDownload(b, d)))
          /\ WF_wvars(Downloads(Goroutines(b)))

-----------------------------------------------------------------------------
(* Types. *)
WTypeOK ==
    /\ epoch.status \in EpochStatuses \cup {"ABSENT"}
    /\ epoch.total \in 0..MaxBatches
    /\ batch \in [Batches -> BatchStatuses \cup {"ABSENT"}]
    /\ \A p \in Packs :
          /\ pack[p].status \in PackStatuses \cup {"ABSENT"}
          /\ pack[p].status = "READY" => pack[p].path \in Dirs
    /\ \A f \in Dirs \X Packs :
          /\ file[f].count <= Len(file[f].records)
          /\ Len(file[f].records) <= file[f].count + 1
    /\ \A a \in Artifacts :
          /\ entry[a].pack \in Packs \cup {None}
          /\ entry[a].got \in 0..Size[a]
          /\ \A d \in Dirs : Offset(<<d, a>>) <= Size[a]
    /\ dir \in [Batches -> Dirs \cup {None}]
    /\ \A b \in Batches : dir[b] = None <=> call[b] = "none"
    /\ call \in [Batches -> {"none", "started", "run", "cancelled", "finalize",
                             "describe", "mark", "ready"}]
    /\ analysis \in {"none", "adapter", "planner"}
    /\ planned \in 0..Len(Order)
    /\ breaks \in 0..MaxBreaks

(* Whatever interrupts a download, and whichever directories it was given, *)
(* an entry is VERIFIED in client.sqlite only when, in one of them, a      *)
(* record its pack's header counts holds the planned content, at the place *)
(* the row says: the restart takes a VERIFIED entry without a record for a *)
(* conflict it never leaves.                                               *)
VerifiedIsPacked ==
    \A a \in Artifacts : entry[a].status = "VERIFIED" =>
        \E d \in Dirs :
            LET f == file[<<d, entry[a].pack>>] IN
            /\ entry[a].at \in 1..f.count
            /\ f.records[entry[a].at] = [entry |-> a, content |-> Planned(a)]

(* A READY batch can be imported from two directories at the most: one has *)
(* all its packs, each with the records of the artifacts the plan has      *)
(* assigned to it, once each, in the order of the plan and with the        *)
(* planned content, and it is the one the pack rows name; one has its      *)
(* batch.json, which describes these very files, and a manifest that finds *)
(* every artifact in them.  (They need not be the same directory.)         *)
Whole(f) ==
    /\ file[f].count = Len(file[f].records)
    /\ file[f].records = [i \in DOMAIN Entries(f[2]) |->
           [entry |-> Entries(f[2])[i], content |-> Planned(Entries(f[2])[i])]]

PacksAreIn(d, b) == \A p \in PacksOf(b) : pack[p].path = d /\ Whole(<<d, p>>)
Describes(u, d, b) ==
    /\ u.descriptor.exists
    /\ u.descriptor.manifest = u.manifest
    /\ \A p \in PacksOf(b) : u.descriptor.packs[p] = file[<<d, p>>].records
    /\ DOMAIN u.manifest = InBatch(b)
    /\ \A a \in InBatch(b) :
          LET m == u.manifest[a]
              records == file[<<d, m.pack>>].records IN
          /\ m.at \in DOMAIN records
          /\ records[m.at] = [entry |-> a, content |-> m.sha]

ReadyBundleIsWhole ==
    \A b \in Batches : batch[b] = "READY" =>
        \E d, e \in Dirs : PacksAreIn(d, b) /\ Describes(bundle[<<e, b>>], d, b)

(* An epoch goes to TRANSFERRING only with all it has planned: a planner   *)
(* that was cut off leaves batches that can be downloaded, and they do not *)
(* make an epoch.                                                          *)
TransferringIsWhole ==
    epoch.status = "TRANSFERRING" =>
        /\ \A a \in Artifacts : entry[a].status # "ABSENT" =>
              entry[a].pack # None /\ batch[BatchOf(entry[a].pack)] = "READY"
        /\ \A b \in PlannedBatches : \E d \in Dirs :
              LET u == bundle[<<d, b>>] IN u.descriptor.exists /\ u.descriptor.total = LastBatch

(* The planner keeps a batch and a pack within its size unless a single    *)
(* artifact is larger, fills them in the order of the plan, and opens the  *)
(* next one only when it has to.                                           *)
Before(p, q) == p[1] < q[1] \/ (p[1] = q[1] /\ p[2] < q[2])
PlanFits ==
    LET used == 1..(IF analysis = "adapter" THEN 0 ELSE
                    Cardinality({a \in Artifacts : entry[a].pack # None})) IN
    /\ \A b \in Batches : Cardinality(InBatch(b)) > 1 => Bytes(InBatch(b)) <= MaxBatchBytes
    /\ \A p \in Packs : Cardinality(InPack(p)) > 1 => Bytes(InPack(p)) <= TargetPackBytes
    /\ \A i, j \in used : i < j =>
          ~Before(entry[Order[j]].pack, entry[Order[i]].pack)
    /\ \A i \in used : i > 1 /\ BatchOf(entry[Order[i]].pack) # BatchOf(entry[Order[i-1]].pack) =>
          Bytes(InBatch(BatchOf(entry[Order[i-1]].pack))) + RecordBytes(Order[i]) > MaxBatchBytes

(* Once a pack is READY the file its row names keeps what it holds,        *)
(* however often its batch is downloaded again before all of it is there,  *)
(* and into whichever directory.                                           *)
ReadyPackKeeps ==
    [][\A p \in Packs : pack[p].status = "READY" /\ pack'[p].status = "READY" =>
           /\ pack'[p].sha = pack[p].sha
           /\ file'[<<pack[p].path, p>>].records = file[<<pack[p].path, p>>].records
           /\ file'[<<pack'[p].path, p>>].records = pack[p].sha]_wvars

(* What a download in a directory cannot get past by itself: a pack file   *)
(* without its header; an entry that is VERIFIED, as its record is in      *)
(* another directory; a ".part" file that is not as long as its progress   *)
(* row says, that is complete, or that is of another version than the row. *)
Headless(f) == file[f].exists /\ ~file[f].header
Counted(f, a) == \E i \in 1..file[f].count : file[f].records[i].entry = a
StuckPart(f) == Origin[f[2]] = "upstream" /\ ~(OffsetAgrees(f) /\ RangeServed(f))
StuckIn(d, b) ==
    \E p \in PacksOf(b) :
        \/ Headless(<<d, p>>)
        \/ \E a \in InPack(p) :
              ~Counted(<<d, p>>, a) /\ (entry[a].status = "VERIFIED" \/ StuckPart(<<d, a>>))
Stuck(b) == call[b] = "none" /\ \A d \in Destinations[b] : StuckIn(d, b)

(* Every batch that has been planned gets READY, after any interruption,   *)
(* unless one of these files stops it in every directory.                  *)
DownloadSettles ==
    \A b \in Batches : []<>(batch[b] \in {"ABSENT", "READY"} \/ Stuck(b))
=============================================================================
