---------------------------- MODULE Maintenance ----------------------------
(***************************************************************************)
(* The maintenance jobs of one source beside its imports: an inventory     *)
(* builds the catalog anew from the repository, a GC looks for files the   *)
(* catalog does not list and may remove them.  A job is a row of           *)
(* maintenance_jobs and a goroutine (runInventory, runGC) that walks the   *)
(* repository file by file; imports, late handlers of a finished epoch,    *)
(* the operator who cancels a job or moves the source, and restarts of the *)
(* agent interleave with it.                                               *)
(*                                                                         *)
(* The import side is ImportPublish as it stands.  Its registration is let *)
(* through only by the trigger of maintenance_schema.sql, the one thing    *)
(* the two sides know of each other besides the rows and files they share. *)
(***************************************************************************)
EXTENDS Serving

CONSTANTS
    Jobs,        \* the maintenance jobs an operator asks for
    Kinds,       \* [Jobs -> SUBSET {"INVENTORY", "GC"}], what each may be
    Claims,      \* the roots another source may be given
    Mentions,    \* [Contents -> SUBSET Paths], what a metadata content names
    Indexes,     \* the metadata files an inventory starts from
    Managed,     \* the paths the adapter's ManagedPaths owns
    Roots,       \* the repository roots the source may be given
    InitialRoot,
    Elsewhere    \* [Roots -> files], what the other roots hold at first

ASSUME MaintenanceAssumption ==
    /\ Mentions \in [Contents -> SUBSET Paths]
    /\ Indexes \subseteq Paths
    /\ \A x \in Artifacts : PathOf[x] \notin Indexes
    /\ Managed \subseteq Paths
    /\ InitialRoot \in Roots /\ Claims \subseteq Roots
    /\ Kinds \in [Jobs -> SUBSET {"INVENTORY", "GC"}]
    /\ Elsewhere \in [Roots -> [Paths -> ContentOrNone]]

VARIABLES
    jobs,     \* maintenance_jobs and their goroutines
    root,     \* sources.root_path; "disk" is what it holds
    apart,    \* what the roots hold that the source does not have now
    claimed   \* the roots that overlap the root of another source

maintenance == <<jobs, root, apart, claimed>>
mvars == <<svars, maintenance>>

(***************************************************************************)
(* The row and the goroutine of a job.  "pc" is "none" without a           *)
(* goroutine, "lost" when it ended and could not write so; "root" is the   *)
(* root of the source as it was read at the start; "todo" the files left   *)
(* to visit; "built" the private database of the job: the catalog of an    *)
(* inventory, the candidates of a GC with the content (size and mtime)     *)
(* they were seen with; "x" the candidate that has been found unlisted.    *)
(***************************************************************************)
Nothing == [path \in Paths |-> None]
Present(files) == {path \in Paths : files[path] # None}
NoJob == [status |-> "ABSENT", kind |-> None, execute |-> FALSE, pc |-> "none",
          cancelled |-> FALSE, root |-> None, todo |-> {}, built |-> Nothing, x |-> None]

Ended == {"COMPLETED", "FAILED", "CANCELLED"}
JobStatuses == {"ABSENT", "QUEUED", "RUNNING"} \cup Ended
ActiveJob(j) == jobs[j].status \in {"QUEUED", "RUNNING"}

AtJob(j, pc) == jobs[j].pc = pc
Update(j, new) == jobs' = [jobs EXCEPT ![j] = new]
GoJob(j, pc) == Update(j, [jobs[j] EXCEPT !.pc = pc])

(* The files under the root a job has read. *)
Files(j) == IF jobs[j].root = root THEN disk ELSE apart[jobs[j].root]

(* Which statuses a job may move to. *)
CanTransitionJob(from, to) ==
    \/ from = "QUEUED" /\ to \in {"RUNNING", "CANCELLED", "FAILED"}
    \/ from = "RUNNING" /\ to \in Ended

(* transition at the end of a goroutine: its error is not looked at, so    *)
(* when the write fails the row keeps its status and nobody works on it.   *)
EndJob(j, status) ==
    \/ /\ CanTransitionJob(jobs[j].status, status)
       /\ Update(j, [NoJob EXCEPT !.status = status])
    \/ Update(j, [NoJob EXCEPT !.status = jobs[j].status, !.pc = "lost"])

MInit ==
    /\ ServingInit
    /\ jobs = [j \in Jobs |-> NoJob]
    /\ root = InitialRoot
    /\ apart = Elsewhere
    /\ claimed = {}

-----------------------------------------------------------------------------
(* The two triggers and the unique index of maintenance_schema.sql. *)
NoTrigger == TRUE
EpochTrigger == \A j \in Jobs : ~ActiveJob(j)
JobTrigger == active = None
OneJobPerSource == \A j \in Jobs : ~ActiveJob(j)

(* A step of the import side; a bundle that is registered sets             *)
(* active_epoch_id and so meets the trigger.                               *)
ImportStep ==
    /\ ServingNext
    /\ (\E s \in Sessions : session[s] = "ABSENT" /\ session'[s] # "ABSENT") => EpochTrigger
    /\ UNCHANGED maintenance

(* exclusiveRoot: the root overlaps the root of another source. *)
Overlapped(r) == r \in claimed

(* POST .../inventory and .../gc: what is asked before the row is written. *)
StartInventory(j) ==
    /\ jobs[j] = NoJob
    /\ "INVENTORY" \in Kinds[j]
    /\ active = None
    /\ Update(j, [NoJob EXCEPT !.kind = "INVENTORY", !.pc = "insert", !.root = root])
    /\ UNCHANGED <<svars, root, apart, claimed>>

StartGC(j, execute) ==
    /\ jobs[j] = NoJob
    /\ "GC" \in Kinds[j]
    /\ active = None
    /\ ~Overlapped(root)
    /\ Update(j, [NoJob EXCEPT !.kind = "GC", !.execute = execute, !.pc = "insert",
                               !.root = root])
    /\ UNCHANGED <<svars, root, apart, claimed>>

(* The insert and the goroutine, or the error of a trigger or index. *)
CreateMaintenanceJob(j) ==
    /\ AtJob(j, "insert")
    /\ IF JobTrigger /\ OneJobPerSource
         THEN Update(j, [jobs[j] EXCEPT !.status = "QUEUED", !.pc = "begin"])
         ELSE Update(j, NoJob)
    /\ UNCHANGED <<svars, root, apart, claimed>>

(* POST .../cancel reaches the context of the goroutine, if there is one. *)
CancelJob(j) ==
    /\ ActiveJob(j)
    /\ jobs[j].pc # "lost"
    /\ ~jobs[j].cancelled
    /\ Update(j, [jobs[j] EXCEPT !.cancelled = TRUE])
    /\ UNCHANGED <<svars, root, apart, claimed>>

BeginJob(j) ==
    /\ AtJob(j, "begin")
    /\ \/ /\ Update(j, [jobs[j] EXCEPT !.status = "RUNNING", !.pc = "open"])
       \/ Update(j, [NoJob EXCEPT !.status = "QUEUED", !.pc = "lost"])
    /\ UNCHANGED <<svars, root, apart, claimed>>

-----------------------------------------------------------------------------
(* runInventory *)

(* The private catalog is created, with the context of the job: one that   *)
(* has been cancelled by now makes the job fail.                           *)
OpenInventory(j) ==
    /\ AtJob(j, "open")
    /\ jobs[j].kind = "INVENTORY"
    /\ IF jobs[j].cancelled
         THEN EndJob(j, "FAILED")
         ELSE Update(j, [jobs[j] EXCEPT !.pc = "scan",
                                        !.todo = Indexes \cap Present(Files(j))])
    /\ UNCHANGED <<svars, root, apart, claimed>>

(* What a content mentions and is not listed yet. *)
NotFollowed(j, content) == {}
Mentioned(j, content) == {path \in Mentions[content] : jobs[j].built[path] = None}

(* One file: an index brings in what it mentions; a file that is mentioned *)
(* and is not there fails the job.                                         *)
ScanFile(j) ==
    LET files == Files(j) IN
    /\ AtJob(j, "scan")
    /\ \E path \in jobs[j].todo :
         IF files[path] = None
           THEN EndJob(j, "FAILED")
           ELSE Update(j, [jobs[j] EXCEPT
                  !.built[path] = files[path],
                  !.todo = (@ \cup Mentioned(j, files[path])) \ {path}])
    /\ UNCHANGED <<svars, root, apart, claimed>>

(* All is listed and the sink is closed; a context that is cancelled only  *)
(* now is met by the statistics, as a failure.                             *)
EndScan(j) ==
    /\ AtJob(j, "scan")
    /\ jobs[j].todo = {}
    /\ IF jobs[j].cancelled THEN EndJob(j, "FAILED") ELSE GoJob(j, "replace")
    /\ UNCHANGED <<svars, root, apart, claimed>>

(* ReplaceCatalogFromFile: one transaction, refused while an epoch is open.*)
NoOpenEpoch == active = None

ReplaceCatalog(j) ==
    /\ AtJob(j, "replace")
    /\ IF NoOpenEpoch
         THEN catalog' = jobs[j].built /\ GoJob(j, "complete")
         ELSE EndJob(j, "FAILED") /\ UNCHANGED catalog
    /\ UNCHANGED <<source, progress, gate, disk, staged, uploaded, disturbed, th, root, apart, claimed>>

(* The job is marked complete in a transaction of its own. *)
CompleteJob(j) ==
    /\ AtJob(j, "complete")
    /\ EndJob(j, "COMPLETED")
    /\ UNCHANGED <<svars, root, apart, claimed>>

-----------------------------------------------------------------------------
(* runGC *)

(* Contains *)
Unlisted(path) == catalog[path] = None

(* The goroutine asks for its root again and creates the candidates. *)
OpenGC(j) ==
    /\ AtJob(j, "open")
    /\ jobs[j].kind = "GC"
    /\ IF jobs[j].cancelled \/ Overlapped(jobs[j].root)
         THEN EndJob(j, "FAILED")
         ELSE Update(j, [jobs[j] EXCEPT !.pc = "walk",
                                        !.todo = Managed \cap Present(Files(j))])
    /\ UNCHANGED <<svars, root, apart, claimed>>

(* WalkDir and Contains: a managed file the catalog does not list becomes  *)
(* a candidate with the size and mtime it has now.                         *)
WalkFile(j) ==
    /\ AtJob(j, "walk")
    /\ \E path \in jobs[j].todo :
         Update(j, [jobs[j] EXCEPT
           !.todo = @ \ {path},
           !.built[path] = IF Unlisted(path) THEN Files(j)[path] ELSE None])
    /\ UNCHANGED <<svars, root, apart, claimed>>

(* The candidates are closed; a dry run is done, an execution asks once    *)
(* more whether the source is idle and its root its own.                   *)
EndWalk(j) ==
    /\ AtJob(j, "walk")
    /\ jobs[j].todo = {}
    /\ IF jobs[j].cancelled THEN EndJob(j, "FAILED")
       ELSE IF ~jobs[j].execute THEN EndJob(j, "COMPLETED")
       ELSE IF active # None \/ Overlapped(jobs[j].root) THEN EndJob(j, "FAILED")
       ELSE Update(j, [jobs[j] EXCEPT !.pc = "execute", !.todo = Present(jobs[j].built)])
    /\ UNCHANGED <<svars, root, apart, claimed>>

(* A candidate that is listed by now ends the job. *)
CheckCandidate(j) ==
    /\ AtJob(j, "execute")
    /\ \E path \in jobs[j].todo :
         IF Unlisted(path)
           THEN Update(j, [jobs[j] EXCEPT !.pc = "compare", !.x = path])
           ELSE EndJob(j, "FAILED")
    /\ UNCHANGED <<svars, root, apart, claimed>>

(* secureRemoveCandidate: the file is compared with the one that was       *)
(* walked, and then unlinked by its name.                                  *)
SameFile(j, path) == Files(j)[path] = jobs[j].built[path]

CompareCandidate(j) ==
    /\ AtJob(j, "compare")
    /\ IF SameFile(j, jobs[j].x) THEN GoJob(j, "remove") ELSE EndJob(j, "FAILED")
    /\ UNCHANGED <<svars, root, apart, claimed>>

RemoveCandidate(j) ==
    LET path == jobs[j].x IN
    /\ AtJob(j, "remove")
    /\ IF Files(j)[path] = None
         THEN EndJob(j, "FAILED") /\ UNCHANGED <<disk, apart>>
         ELSE /\ IF jobs[j].root = root
                   THEN disk' = [disk EXCEPT ![path] = None] /\ UNCHANGED apart
                   ELSE /\ apart' = [apart EXCEPT ![jobs[j].root][path] = None]
                        /\ UNCHANGED disk
              /\ Update(j, [jobs[j] EXCEPT !.pc = "execute", !.x = None, !.todo = @ \ {path}])
    /\ UNCHANGED <<source, progress, gate, catalog, staged, uploaded, th, disturbed, root,
                   claimed>>

EndExecute(j) ==
    /\ AtJob(j, "execute")
    /\ jobs[j].todo = {}
    /\ EndJob(j, "COMPLETED")
    /\ UNCHANGED <<svars, root, apart, claimed>>

-----------------------------------------------------------------------------
(* A walk that meets the cancelled context ends the job as CANCELLED. *)
NoticeCancel(j) ==
    /\ jobs[j].cancelled
    /\ jobs[j].pc \in {"scan", "walk", "execute"}
    /\ EndJob(j, "CANCELLED")
    /\ UNCHANGED <<svars, root, apart, claimed>>

(* Any error, of the file system or the database, before the job's effect. *)
FailJob(j) ==
    /\ jobs[j].pc \notin {"none", "insert", "begin", "complete", "lost"}
    /\ EndJob(j, "FAILED")
    /\ UNCHANGED <<svars, root, apart, claimed>>

JobStep(j) ==
    \/ CreateMaintenanceJob(j)
    \/ BeginJob(j)
    \/ OpenInventory(j)
    \/ ScanFile(j)
    \/ EndScan(j)
    \/ ReplaceCatalog(j)
    \/ CompleteJob(j)
    \/ OpenGC(j)
    \/ WalkFile(j)
    \/ EndWalk(j)
    \/ CheckCandidate(j)
    \/ CompareCandidate(j)
    \/ RemoveCandidate(j)
    \/ EndExecute(j)
    \/ NoticeCancel(j)
    \/ FailJob(j)

(* RecoverInterruptedMaintenanceJobs, before the agent serves again: every *)
(* goroutine is gone and what was queued or running is FAILED.             *)
RunningOnly(status) == IF status = "RUNNING" THEN "FAILED" ELSE status
Recovered(status) == IF status \in {"QUEUED", "RUNNING"} THEN "FAILED" ELSE status

Restart ==
    /\ jobs' = [j \in Jobs |-> [NoJob EXCEPT !.status = Recovered(jobs[j].status)]]
    /\ th' = [t \in Threads |-> Idle]
    /\ UNCHANGED <<source, progress, gate, repository, uploaded, disturbed, root, apart, claimed>>

(* PUT /sources/{id} with another root: refused during an active epoch,    *)
(* not during a job.  (No handler of an import is at work: one that is     *)
(* late would go on in the root it has read.)                              *)
UpdateSource(r) ==
    /\ r # root
    /\ active = None
    /\ \A t \in Threads : Resting(t)
    /\ root' = r
    /\ disk' = apart[r]
    /\ apart' = [apart EXCEPT ![root] = disk, ![r] = Nothing]
    /\ UNCHANGED <<source, progress, gate, catalog, staged, uploaded, disturbed, th, jobs, claimed>>

(* POST or PUT of another source with a root that overlaps this one: no    *)
(* check of any kind.                                                      *)
ClaimRoot(r) ==
    /\ r \notin claimed
    /\ claimed' = claimed \cup {r}
    /\ UNCHANGED <<svars, jobs, root, apart>>

Operator ==
    \/ \E j \in Jobs :
         \/ StartInventory(j)
         \/ \E execute \in BOOLEAN : StartGC(j, execute)
         \/ CancelJob(j)
    \/ \E r \in Roots : UpdateSource(r)
    \/ \E r \in Claims : ClaimRoot(r)

MNext ==
    \/ ImportStep
    \/ \E j \in Jobs : JobStep(j)
    \/ Operator
    \/ Restart

(* The goroutine of a job runs on by itself. *)
MSpec == MInit /\ [][MNext]_mvars /\ \A j \in Jobs : WF_mvars(JobStep(j))
-----------------------------------------------------------------------------
JobRecords ==
    [status : JobStatuses, kind : {None, "INVENTORY", "GC"}, execute : BOOLEAN,
     pc : {"none", "insert", "begin", "open", "scan", "replace", "complete", "walk",
           "execute", "compare", "remove", "lost"},
     cancelled : BOOLEAN, root : Roots \cup {None}, todo : SUBSET Paths,
     built : [Paths -> ContentOrNone], x : Paths \cup {None}]

(* The type invariant: a job with a goroutine has a root, one that removes *)
(* a candidate has it, and a row is active as long as it has a goroutine   *)
(* past the insert, or has lost it without a trace.                        *)
MTypeOK ==
    /\ TypeOK
    /\ jobs \in [Jobs -> JobRecords]
    /\ \A j \in Jobs :
         /\ jobs[j].pc \notin {"none", "lost"} => jobs[j].root \in Roots
         /\ jobs[j].pc \in {"compare", "remove"} => jobs[j].x \in Paths
         /\ ActiveJob(j) <=> jobs[j].pc \notin {"none", "insert"}
    /\ root \in Roots
    /\ apart \in [Roots -> [Paths -> ContentOrNone]]
    /\ claimed \subseteq Roots

(* An epoch and a maintenance job are never active together, and one job   *)
(* at most is: the checks of the handlers are older than the rows they     *)
(* write, only the triggers and the index see both (TECHNICAL_DESIGN:22).  *)
Exclusive ==
    /\ active # None => \A j \in Jobs : ~ActiveJob(j)
    /\ \A j, k \in Jobs : ActiveJob(j) /\ ActiveJob(k) => j = k

(* While an epoch is open, what it has imported stays in the repository    *)
(* and in the catalog, whatever jobs were started before or are asked for  *)
(* meanwhile (secureRemoveCandidate, ReplaceCatalogFromFile).              *)
OpenEpochKeepsFiles ==
    active # None =>
        \A x \in imported \cap Artifacts \cap EpochEntries(active) : Installed(x)

(* A GC never takes away a file that the catalog lists, although it looks  *)
(* in the catalog before, and not while, it removes (runGC); only a file   *)
(* that a publisher has listed again after its epoch is not safe from it.  *)
GCKeepsListed ==
    [][\A j \in Jobs : AtJob(j, "remove") /\ jobs'[j].pc = "execute"
         => catalog[jobs[j].x] = None \/ jobs[j].x \in disturbed]_mvars

(* The live catalog is never half an inventory: when a job replaces it,    *)
(* the new one agrees with the files under the root the job has scanned,   *)
(* has all indexes and everything they mention (ReplaceCatalogFromFile),   *)
(* but for the files that a publisher has changed after its epoch.         *)
WholeInventory(listed, files) ==
    /\ \A path \in Present(listed) \ disturbed : files[path] = listed[path]
    /\ (Indexes \cap Present(files)) \ disturbed \subseteq Present(listed)
    /\ \A path \in Present(listed) : Mentions[listed[path]] \subseteq Present(listed)
CatalogIsWhole ==
    [][\A j \in Jobs : AtJob(j, "replace") /\ jobs'[j].pc = "complete"
         => WholeInventory(catalog', Files(j))]_mvars

(* A job that was accepted comes to an end and gives the source back to    *)
(* imports, through cancellation, failure and restarts; but for one whose  *)
(* last write is lost, which only the next restart ends.                   *)
JobsEnd == \A j \in Jobs : ActiveJob(j) ~> jobs[j].status \in Ended \/ AtJob(j, "lost")

(* What the metadata served mentions is served: no file of the repository  *)
(* names one that is missing (IMPLEMENTATION_PLAN:87).                     *)
NothingMissing ==
    \A path \in Indexes : disk[path] # None => Mentions[disk[path]] \subseteq Present(disk)
=============================================================================
