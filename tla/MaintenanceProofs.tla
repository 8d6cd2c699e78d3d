------------------------- MODULE MaintenanceProofs -------------------------
(***************************************************************************)
(* Maintenance jobs and imports of a source exclude each other, for any    *)
(* number of jobs, sessions and handlers, and through restarts.  What the  *)
(* import side promises of its rows survives the jobs; what it promises of *)
(* the repository survives for the epoch that is open.  What the jobs      *)
(* promise holds of all files but those that a publisher has changed after *)
(* its epoch.                                                              *)
(***************************************************************************)
EXTENDS Maintenance, ImportPublishRefinement

-----------------------------------------------------------------------------
(* The record of a job: the conjuncts of the type invariant, for one.      *)
InUse(status) == status \in {"QUEUED", "RUNNING"}
JobOK(r) ==
    /\ r \in JobRecords
    /\ r.pc \notin {"none", "lost"} => r.root \in Roots
    /\ r.pc \in {"compare", "remove"} => r.x \in Paths
    /\ InUse(r.status) <=> r.pc \notin {"none", "insert"}

OthersOK == /\ TypeOK
        /\ root \in Roots
        /\ apart \in [Roots -> [Paths -> ContentOrNone]]
        /\ claimed \subseteq Roots

LEMMA TypeParts ==
    MTypeOK <=> OthersOK /\ jobs \in [Jobs -> JobRecords] /\ \A j \in Jobs : JobOK(jobs[j])
BY DEF MTypeOK, OthersOK, JobOK, InUse, AtJob, ActiveJob

LEMMA NothingType == Nothing \in [Paths -> ContentOrNone]
BY DEF Nothing, ContentOrNone

LEMMA NoJobType == JobOK(NoJob)
BY NothingType DEF JobOK, NoJob, JobRecords, JobStatuses, Ended, InUse

(* A record that takes the place of another leaves the others as they are. *)
LEMMA JobSet ==
    ASSUME MTypeOK, NEW j \in Jobs, NEW r, JobOK(r), Update(j, r), OthersOK'
    PROVE  MTypeOK'
<1>1. /\ jobs \in [Jobs -> JobRecords]
      /\ \A k \in Jobs : JobOK(jobs[k])
  BY TypeParts
<1>2. r \in JobRecords
  BY DEF JobOK
<1>3. jobs' \in [Jobs -> JobRecords] /\ \A k \in Jobs : jobs'[k] = IF k = j THEN r ELSE jobs[k]
  BY <1>1, <1>2 DEF Update
<1>4. \A k \in Jobs : JobOK(jobs'[k])
  BY <1>1, <1>3
<1>5. (jobs \in [Jobs -> JobRecords] /\ \A k \in Jobs : JobOK(jobs[k]))'
  BY <1>3, <1>4 DEF JobOK, InUse, JobRecords
<1> QED BY <1>5 DEF MTypeOK, OthersOK, JobOK, InUse, AtJob, ActiveJob

(* The files a job sees. *)
LEMMA FilesType ==
    ASSUME MTypeOK, NEW j \in Jobs, jobs[j].pc \notin {"none", "lost"}
    PROVE  Files(j) \in [Paths -> ContentOrNone]
BY DEF MTypeOK, TypeOK, Files

-----------------------------------------------------------------------------
(* What a step of a goroutine does to its record.  It becomes active only  *)
(* by the insert, which the trigger and the index let through when neither *)
(* an epoch nor another job is.                                            *)
Admitted == active = None /\ \A k \in Jobs : ~ActiveJob(k)
Becomes(j, r) ==
    /\ JobOK(r)
    /\ Update(j, r)
    /\ InUse(r.status) => ActiveJob(j) \/ Admitted

LEMMA EndJobBecomes ==
    ASSUME MTypeOK, NEW j \in Jobs, NEW status \in Ended, EndJob(j, status),
           jobs[j].pc \notin {"none", "insert"}
    PROVE  \E r : Becomes(j, r)
<1>1. JobOK(jobs[j]) /\ JobOK(NoJob)
  BY TypeParts, NoJobType
<1>2. CASE Update(j, [NoJob EXCEPT !.status = status])
  <2>1. JobOK([NoJob EXCEPT !.status = status])
    BY <1>1 DEF JobOK, NoJob, JobRecords, JobStatuses, Ended, InUse
  <2>2. ~InUse([NoJob EXCEPT !.status = status].status)
    BY DEF NoJob, InUse, Ended
  <2> QED BY <1>2, <2>1, <2>2 DEF Becomes
<1>3. CASE Update(j, [NoJob EXCEPT !.status = jobs[j].status, !.pc = "lost"])
  <2> DEFINE r == [NoJob EXCEPT !.status = jobs[j].status, !.pc = "lost"]
  <2>1. ActiveJob(j)
    BY <1>1 DEF JobOK, InUse, ActiveJob
  <2>2. JobOK(r)
    BY <1>1, <2>1 DEF JobOK, NoJob, JobRecords, InUse, ActiveJob
  <2> QED BY <1>3, <2>1, <2>2 DEF Becomes
<1> QED BY <1>2, <1>3 DEF EndJob

(* The rest of the state, as a goroutine leaves it: only the replacement   *)
(* of the catalog and the removal of a file write it.                      *)
LEMMA JobStepTypes ==
    ASSUME MTypeOK, NEW j \in Jobs, JobStep(j)
    PROVE  OthersOK' /\ UNCHANGED active
<1>1. OthersOK /\ JobOK(jobs[j])
  BY TypeParts
<1>2. CASE ReplaceCatalog(j)
  <2>1. catalog' \in [Paths -> ContentOrNone]
    BY <1>1, <1>2 DEF ReplaceCatalog, JobOK, JobRecords, OthersOK, TypeOK
  <2> QED BY <1>1, <1>2, <2>1
          DEF ReplaceCatalog, OthersOK, TypeOK, source, progress, gate
<1>3. CASE RemoveCandidate(j)
  <2>1. disk' \in [Paths -> ContentOrNone] /\ apart' \in [Roots -> [Paths -> ContentOrNone]]
    <3>1. /\ disk \in [Paths -> ContentOrNone]
          /\ apart \in [Roots -> [Paths -> ContentOrNone]]
      BY <1>1 DEF OthersOK, TypeOK
    <3>2. \/ UNCHANGED <<disk, apart>>
          \/ /\ disk' = [disk EXCEPT ![jobs[j].x] = None]
             /\ UNCHANGED apart
          \/ /\ apart' = [apart EXCEPT ![jobs[j].root][jobs[j].x] = None]
             /\ UNCHANGED disk
      BY <1>3 DEF RemoveCandidate
    <3> QED BY <3>1, <3>2 DEF ContentOrNone
  <2> QED BY <1>1, <1>3, <2>1
          DEF RemoveCandidate, OthersOK, TypeOK, source, progress, gate
<1>4. CASE ~ReplaceCatalog(j) /\ ~RemoveCandidate(j)
  <2>1. UNCHANGED <<svars, root, apart, claimed>>
    BY <1>4 DEF JobStep, CreateMaintenanceJob, BeginJob, OpenInventory, ScanFile, EndScan,
                CompleteJob, OpenGC, WalkFile, EndWalk, CheckCandidate, CompareCandidate,
                EndExecute, NoticeCancel, FailJob
  <2> QED BY <1>1, <2>1
          DEF OthersOK, TypeOK, svars, vars, source, progress, gate, repository
<1> QED BY <1>2, <1>3, <1>4

LEMMA JobStepBecomes ==
    ASSUME MTypeOK, NEW j \in Jobs, JobStep(j)
    PROVE  \E r : Becomes(j, r)
<1> DEFINE job == jobs[j]
<1>1. JobOK(job) /\ JobOK(NoJob) /\ ~InUse(NoJob.status)
  BY TypeParts, NoJobType DEF NoJob, InUse
<1>2. job.pc \notin {"none", "insert"} => ActiveJob(j)
  BY <1>1 DEF JobOK, InUse, ActiveJob
<1>3. ASSUME NEW status \in Ended, EndJob(j, status), job.pc \notin {"none", "insert"}
      PROVE  \E r : Becomes(j, r)
  BY <1>3, EndJobBecomes
<1>4. ASSUME NEW r, JobOK(r), Update(j, r), job.pc \notin {"none", "insert"}
      PROVE  \E new : Becomes(j, new)
  BY <1>2, <1>4 DEF Becomes
<1>5. CASE CreateMaintenanceJob(j)
  <2>1. CASE Update(j, NoJob)
    BY <1>1, <2>1 DEF Becomes
  <2>2. CASE Admitted /\ Update(j, [job EXCEPT !.status = "QUEUED", !.pc = "begin"])
    <3>1. JobOK([job EXCEPT !.status = "QUEUED", !.pc = "begin"])
      BY <1>1, <1>5 DEF JobOK, JobRecords, JobStatuses, InUse, CreateMaintenanceJob, AtJob
    <3> QED BY <2>2, <3>1 DEF Becomes
  <2> QED BY <1>5, <2>1, <2>2
          DEF CreateMaintenanceJob, JobTrigger, OneJobPerSource, Admitted
<1>6. CASE BeginJob(j)
  <2>1. job.pc = "begin" /\ ActiveJob(j)
    BY <1>2, <1>6 DEF BeginJob, AtJob
  <2>2. JobOK([job EXCEPT !.status = "RUNNING", !.pc = "open"])
    BY <1>1, <2>1 DEF JobOK, JobRecords, JobStatuses, InUse
  <2>3. JobOK([NoJob EXCEPT !.status = "QUEUED", !.pc = "lost"])
    BY <1>1 DEF JobOK, NoJob, JobRecords, JobStatuses, InUse
  <2> QED BY <1>6, <2>1, <2>2, <2>3 DEF BeginJob, Becomes
<1>7. CASE OpenInventory(j)
  <2>1. job.pc = "open"
    BY <1>7 DEF OpenInventory, AtJob
  <2>2. Indexes \cap Present(Files(j)) \subseteq Paths
    BY MaintenanceAssumption
  <2>3. JobOK([job EXCEPT !.pc = "scan", !.todo = Indexes \cap Present(Files(j))])
    BY <1>1, <2>1, <2>2 DEF JobOK, JobRecords, InUse
  <2> QED BY <1>3, <1>4, <1>7, <2>1, <2>3 DEF OpenInventory, Ended
<1>8. CASE ScanFile(j)
  <2>1. job.pc = "scan"
    BY <1>8 DEF ScanFile, AtJob
  <2>2. PICK path \in job.todo :
          IF Files(j)[path] = None
            THEN EndJob(j, "FAILED")
            ELSE Update(j, [job EXCEPT
                   !.built[path] = Files(j)[path],
                   !.todo = (@ \cup Mentioned(j, Files(j)[path])) \ {path}])
    BY <1>8 DEF ScanFile
  <2>3. CASE Files(j)[path] # None
    <3>1. path \in Paths /\ Files(j)[path] \in Contents
      BY <1>1, <2>1, <2>3, FilesType DEF JobOK, JobRecords, ContentOrNone
    <3>2. Mentioned(j, Files(j)[path]) \subseteq Paths
      BY <3>1, MaintenanceAssumption DEF Mentioned
    <3>3. JobOK([job EXCEPT !.built[path] = Files(j)[path],
                            !.todo = (@ \cup Mentioned(j, Files(j)[path])) \ {path}])
      BY <1>1, <2>1, <3>1, <3>2 DEF JobOK, JobRecords, InUse, ContentOrNone
    <3> QED BY <1>4, <2>1, <2>2, <2>3, <3>3
  <2> QED BY <1>3, <2>1, <2>2, <2>3 DEF Ended
<1>9. CASE EndScan(j)
  <2>1. job.pc = "scan"
    BY <1>9 DEF EndScan, AtJob
  <2>2. JobOK([job EXCEPT !.pc = "replace"])
    BY <1>1, <2>1 DEF JobOK, JobRecords, InUse
  <2> QED BY <1>3, <1>4, <1>9, <2>1, <2>2 DEF EndScan, GoJob, Ended
<1>10. CASE ReplaceCatalog(j)
  <2>1. job.pc = "replace"
    BY <1>10 DEF ReplaceCatalog, AtJob
  <2>2. JobOK([job EXCEPT !.pc = "complete"])
    BY <1>1, <2>1 DEF JobOK, JobRecords, InUse
  <2> QED BY <1>3, <1>4, <1>10, <2>1, <2>2 DEF ReplaceCatalog, GoJob, Ended
<1>11. CASE CompleteJob(j) \/ EndExecute(j) \/ NoticeCancel(j) \/ FailJob(j)
  <2>1. job.pc \notin {"none", "insert"} /\ \E status \in Ended : EndJob(j, status)
    BY <1>11 DEF CompleteJob, EndExecute, NoticeCancel, FailJob, AtJob, Ended
  <2> QED BY <1>3, <2>1
<1>12. CASE OpenGC(j)
  <2>1. job.pc = "open"
    BY <1>12 DEF OpenGC, AtJob
  <2>2. Managed \cap Present(Files(j)) \subseteq Paths
    BY MaintenanceAssumption
  <2>3. JobOK([job EXCEPT !.pc = "walk", !.todo = Managed \cap Present(Files(j))])
    BY <1>1, <2>1, <2>2 DEF JobOK, JobRecords, InUse
  <2> QED BY <1>3, <1>4, <1>12, <2>1, <2>3 DEF OpenGC, Ended
<1>13. CASE WalkFile(j)
  <2>1. job.pc = "walk"
    BY <1>13 DEF WalkFile, AtJob
  <2>2. PICK path \in job.todo :
          Update(j, [job EXCEPT
            !.todo = @ \ {path},
            !.built[path] = IF Unlisted(path) THEN Files(j)[path] ELSE None])
    BY <1>13 DEF WalkFile
  <2>3. path \in Paths /\ Files(j)[path] \in ContentOrNone /\ None \in ContentOrNone
    BY <1>1, <2>1, FilesType DEF JobOK, JobRecords, ContentOrNone
  <2>4. JobOK([job EXCEPT !.todo = @ \ {path},
                          !.built[path] = IF Unlisted(path) THEN Files(j)[path] ELSE None])
    BY <1>1, <2>1, <2>3 DEF JobOK, JobRecords, InUse
  <2> QED BY <1>4, <2>1, <2>2, <2>4
<1>14. CASE EndWalk(j)
  <2>1. job.pc = "walk"
    BY <1>14 DEF EndWalk, AtJob
  <2>2. JobOK([job EXCEPT !.pc = "execute", !.todo = Present(job.built)])
    BY <1>1, <2>1 DEF JobOK, JobRecords, InUse, Present
  <2> QED BY <1>3, <1>4, <1>14, <2>1, <2>2 DEF EndWalk, Ended
<1>15. CASE CheckCandidate(j)
  <2>1. job.pc = "execute"
    BY <1>15 DEF CheckCandidate, AtJob
  <2>2. PICK path \in job.todo :
          IF Unlisted(path)
            THEN Update(j, [job EXCEPT !.pc = "compare", !.x = path])
            ELSE EndJob(j, "FAILED")
    BY <1>15 DEF CheckCandidate
  <2>3. JobOK([job EXCEPT !.pc = "compare", !.x = path])
    BY <1>1, <2>1 DEF JobOK, JobRecords, InUse
  <2> QED BY <1>3, <1>4, <2>1, <2>2, <2>3 DEF Ended
<1>16. CASE RemoveCandidate(j)
  <2>1. job.pc = "remove"
    BY <1>16 DEF RemoveCandidate, AtJob
  <2>2. JobOK([job EXCEPT !.pc = "execute", !.x = None, !.todo = @ \ {job.x}])
    BY <1>1, <2>1 DEF JobOK, JobRecords, InUse
  <2> QED BY <1>3, <1>4, <1>16, <2>1, <2>2 DEF RemoveCandidate, Ended
<1>17. CASE CompareCandidate(j)
  <2>1. job.pc = "compare"
    BY <1>17 DEF CompareCandidate, AtJob
  <2>2. JobOK([job EXCEPT !.pc = "remove"])
    BY <1>1, <2>1 DEF JobOK, JobRecords, InUse
  <2> QED BY <1>3, <1>4, <1>17, <2>1, <2>2 DEF CompareCandidate, GoJob, Ended
<1> QED
  BY <1>5, <1>6, <1>7, <1>8, <1>9, <1>10, <1>11, <1>12, <1>13, <1>14, <1>15, <1>16, <1>17
  DEF JobStep

-----------------------------------------------------------------------------
(* The operator's requests. *)
LEMMA StartTypes ==
    ASSUME MTypeOK, NEW j \in Jobs, NEW r, JobOK(r), r.status = "ABSENT", Update(j, r),
           UNCHANGED <<svars, root, apart, claimed>>
    PROVE  MTypeOK' /\ ~ActiveJob(j)'
<1>1. OthersOK /\ jobs \in [Jobs -> JobRecords]
  BY TypeParts
<1>2. OthersOK'
  BY <1>1 DEF OthersOK, TypeOK, svars, vars, source, progress, gate, repository
<1>3. jobs'[j] = r
  BY <1>1 DEF Update
<1> QED BY <1>2, <1>3, JobSet DEF ActiveJob

LEMMA OperatorKeeps ==
    ASSUME MTypeOK, Operator
    PROVE  MTypeOK' /\ UNCHANGED active /\ \A k \in Jobs : ActiveJob(k)' => ActiveJob(k)
<1>1. /\ OthersOK
      /\ jobs \in [Jobs -> JobRecords]
      /\ \A k \in Jobs : JobOK(jobs[k])
  BY TypeParts
<1>2. ASSUME NEW j \in Jobs, StartInventory(j)
      PROVE  MTypeOK' /\ UNCHANGED active /\ \A k \in Jobs : ActiveJob(k)' => ActiveJob(k)
  <2> DEFINE r == [NoJob EXCEPT !.kind = "INVENTORY", !.pc = "insert", !.root = root]
  <2>1. JobOK(r) /\ r.status = "ABSENT"
    BY <1>1, NoJobType DEF JobOK, NoJob, JobRecords, JobStatuses, InUse, OthersOK
  <2>2. MTypeOK' /\ ~ActiveJob(j)'
    BY <1>2, <2>1, StartTypes DEF StartInventory
  <2> QED BY <1>1, <1>2, <2>2 DEF StartInventory, Update, ActiveJob, svars, vars, source
<1>3. ASSUME NEW j \in Jobs, NEW execute \in BOOLEAN, StartGC(j, execute)
      PROVE  MTypeOK' /\ UNCHANGED active /\ \A k \in Jobs : ActiveJob(k)' => ActiveJob(k)
  <2> DEFINE r == [NoJob EXCEPT !.kind = "GC", !.execute = execute, !.pc = "insert",
                                !.root = root]
  <2>1. JobOK(r) /\ r.status = "ABSENT"
    BY <1>1, NoJobType DEF JobOK, NoJob, JobRecords, JobStatuses, InUse, OthersOK
  <2>2. MTypeOK' /\ ~ActiveJob(j)'
    BY <1>3, <2>1, StartTypes DEF StartGC
  <2> QED BY <1>1, <1>3, <2>2 DEF StartGC, Update, ActiveJob, svars, vars, source
<1>4. ASSUME NEW j \in Jobs, CancelJob(j)
      PROVE  MTypeOK' /\ UNCHANGED active /\ \A k \in Jobs : ActiveJob(k)' => ActiveJob(k)
  <2>1. JobOK([jobs[j] EXCEPT !.cancelled = TRUE])
    BY <1>1 DEF JobOK, JobRecords, InUse
  <2>2. OthersOK'
    BY <1>1, <1>4 DEF CancelJob, OthersOK, TypeOK, svars, vars, source, progress, gate, repository
  <2>3. MTypeOK'
    BY <1>4, <2>1, <2>2, JobSet DEF CancelJob
  <2> QED BY <1>1, <1>4, <2>3 DEF CancelJob, Update, ActiveJob, JobRecords, svars, vars, source
<1>5. ASSUME NEW r \in Roots, UpdateSource(r) \/ ClaimRoot(r)
      PROVE  MTypeOK' /\ UNCHANGED <<active, jobs>>
  <2>1. OthersOK' /\ UNCHANGED <<active, jobs>>
    <3>1. CASE UpdateSource(r)
      <4>1. disk' \in [Paths -> ContentOrNone] /\ apart' \in [Roots -> [Paths -> ContentOrNone]]
        BY <1>1, <1>5, <3>1, NothingType DEF UpdateSource, OthersOK, TypeOK
      <4> QED BY <1>1, <1>5, <3>1, <4>1 DEF UpdateSource, OthersOK, TypeOK, source, progress, gate
    <3>2. CASE ClaimRoot(r)
      BY <1>1, <1>5, <3>2 DEF ClaimRoot, OthersOK, TypeOK, svars, vars, source, progress, gate, repository
    <3> QED BY <1>5, <3>1, <3>2
  <2>2. (jobs \in [Jobs -> JobRecords] /\ \A k \in Jobs : JobOK(jobs[k]))'
    BY <1>1, <2>1 DEF JobOK, InUse, JobRecords
  <2> QED BY <2>1, <2>2 DEF MTypeOK, OthersOK, JobOK, InUse, AtJob, ActiveJob
<1> QED BY <1>2, <1>3, <1>4, <1>5, MaintenanceAssumption DEF Operator, ActiveJob

LEMMA RestartKeeps ==
    ASSUME MTypeOK, Restart
    PROVE  MTypeOK' /\ UNCHANGED active /\ \A k \in Jobs : ~ActiveJob(k)'
<1>1. OthersOK /\ jobs \in [Jobs -> JobRecords] /\ \A k \in Jobs : JobOK(jobs[k])
  BY TypeParts
<1>2. ASSUME NEW k \in Jobs
      PROVE  JobOK(jobs'[k]) /\ ~InUse(jobs'[k].status)
  <2>1. /\ jobs'[k] = [NoJob EXCEPT !.status = Recovered(jobs[k].status)]
        /\ jobs[k].status \in JobStatuses
    BY <1>1 DEF Restart, JobRecords
  <2>2. JobOK([NoJob EXCEPT !.status = Recovered(jobs[k].status)])
    BY <2>1, NoJobType DEF JobOK, NoJob, JobRecords, JobStatuses, Ended, InUse, Recovered
  <2>3. ~InUse(Recovered(jobs[k].status))
    BY <2>1 DEF JobStatuses, Ended, InUse, Recovered
  <2> QED BY <2>1, <2>2, <2>3 DEF NoJob
<1>3. jobs' \in [Jobs -> JobRecords]
  BY <1>2 DEF Restart, JobOK
<1>4. (jobs \in [Jobs -> JobRecords] /\ \A k \in Jobs : JobOK(jobs[k]))'
  BY <1>2, <1>3 DEF JobOK, InUse, JobRecords
<1>5. OthersOK'
  BY <1>1, IdleType DEF Restart, OthersOK, TypeOK, source, progress, gate, repository
<1>6. MTypeOK'
  BY <1>4, <1>5 DEF MTypeOK, OthersOK, JobOK, InUse, AtJob, ActiveJob
<1> QED BY <1>2, <1>6 DEF Restart, source, InUse, ActiveJob

-----------------------------------------------------------------------------
(* The import side opens an epoch only in a registration, and that one     *)
(* meets the trigger.                                                      *)
LEMMA ImportKeeps ==
    ASSUME MTypeOK, Exclusive, ImportStep
    PROVE  MTypeOK' /\ Exclusive'
<1>1. OthersOK /\ jobs \in [Jobs -> JobRecords] /\ \A k \in Jobs : JobOK(jobs[k])
  BY TypeParts
<1>2. UNCHANGED <<jobs, root, apart, claimed>> /\ Next
  BY DEF ImportStep, ServingNext, maintenance
<1>3. OthersOK'
  BY <1>1, <1>2, TypeStep DEF OthersOK
<1>4. (jobs \in [Jobs -> JobRecords] /\ \A k \in Jobs : JobOK(jobs[k]))'
  BY <1>1, <1>2 DEF JobOK, InUse, JobRecords
<1>5. MTypeOK'
  BY <1>3, <1>4 DEF MTypeOK, OthersOK, JobOK, InUse, AtJob, ActiveJob
<1>6. active' # None => active # None \/ EpochTrigger
  <2>1. CASE \E s \in Sessions : RegisterImportBundle(s)
    <3>1. PICK s \in Sessions : RegisterImportBundle(s)
      BY <2>1
    <3>2. session[s] = "ABSENT" /\ session'[s] = "UPLOADING_MANIFEST"
      BY <1>1, <3>1 DEF RegisterImportBundle, OthersOK, TypeOK
    <3>3. \E i \in Sessions : session[i] = "ABSENT" /\ session'[i] # "ABSENT"
      BY <3>2
    <3>4. EpochTrigger
      BY <3>3 DEF ImportStep, ServingNext
    <3> QED BY <3>4
  <2>2. CASE \E t \in Threads : MarkEpochPublishable(t) \/ MarkEpochPublished(t) \/ CompleteEpoch(t)
    BY <2>2 DEF MarkEpochPublishable, MarkEpochPublished, CompleteEpoch, TransitionEpoch, source
  <2>3. CASE UNCHANGED <<cursor, active, epochStatus>>
    BY <2>3
  <2>4. [Next]_vars
    BY <1>2
  <2>5. \/ UNCHANGED <<cursor, active, epochStatus>>
        \/ \E s \in Sessions : RegisterImportBundle(s)
        \/ \E t \in Threads : MarkEpochPublishable(t) \/ MarkEpochPublished(t) \/ CompleteEpoch(t)
    BY <1>1, <2>4, SourceWriters DEF OthersOK
  <2> QED BY <2>1, <2>2, <2>3, <2>5
<1> QED BY <1>2, <1>5, <1>6 DEF Exclusive, EpochTrigger, ActiveJob

LEMMA JobStepKeeps ==
    ASSUME MTypeOK, Exclusive, NEW j \in Jobs, JobStep(j)
    PROVE  MTypeOK' /\ Exclusive'
<1>1. OthersOK' /\ UNCHANGED active
  BY JobStepTypes
<1>2. PICK r : Becomes(j, r)
  BY JobStepBecomes
<1>3. MTypeOK'
  BY <1>1, <1>2, JobSet DEF Becomes
<1>4. \A k \in Jobs : jobs'[k] = IF k = j THEN r ELSE jobs[k]
  BY <1>2 DEF Becomes, Update, MTypeOK
<1>5. InUse(r.status) => ActiveJob(j) \/ Admitted
  BY <1>2 DEF Becomes
<1>6. ASSUME NEW k \in Jobs, ActiveJob(k)'
      PROVE  ActiveJob(k) \/ (k = j /\ Admitted)
  BY <1>4, <1>5, <1>6 DEF ActiveJob, InUse
<1> QED BY <1>1, <1>3, <1>6 DEF Exclusive, Admitted

LEMMA MaintenanceStep ==
    ASSUME MTypeOK, Exclusive, [MNext]_mvars
    PROVE  MTypeOK' /\ Exclusive'
<1>1. CASE ImportStep
  BY <1>1, ImportKeeps
<1>2. ASSUME NEW j \in Jobs, JobStep(j)
      PROVE  MTypeOK' /\ Exclusive'
  BY <1>2, JobStepKeeps
<1>3. CASE Operator
  BY <1>3, OperatorKeeps DEF Exclusive
<1>4. CASE Restart
  BY <1>4, RestartKeeps DEF Exclusive
<1>5. CASE UNCHANGED mvars
  <2>1. OthersOK /\ jobs \in [Jobs -> JobRecords] /\ \A k \in Jobs : JobOK(jobs[k])
    BY TypeParts
  <2>2. OthersOK' /\ UNCHANGED <<jobs, active>>
    BY <1>5, <2>1 DEF mvars, maintenance, svars, vars, source, progress, gate, repository, OthersOK, TypeOK
  <2>3. (jobs \in [Jobs -> JobRecords] /\ \A k \in Jobs : JobOK(jobs[k]))'
    BY <2>1, <2>2 DEF JobOK, InUse, JobRecords
  <2> QED BY <2>2, <2>3 DEF MTypeOK, OthersOK, JobOK, InUse, AtJob, ActiveJob, Exclusive
<1> QED BY <1>1, <1>2, <1>3, <1>4, <1>5 DEF MNext

LEMMA MaintenanceInit == MInit => MTypeOK /\ Exclusive
<1> SUFFICES ASSUME MInit
             PROVE  MTypeOK /\ Exclusive
  OBVIOUS
<1>1. TypeOK /\ active = None
  BY PlanAssumption, SourceAssumption, IdleType
  DEF MInit, ServingInit, Init, TypeOK, ContentOrNone, SessionStatuses, UnitStatuses
<1>2. OthersOK
  BY <1>1, MaintenanceAssumption DEF MInit, OthersOK
<1>3. \A j \in Jobs : jobs[j] = NoJob /\ ~ActiveJob(j)
  BY DEF MInit, NoJob, ActiveJob
<1>4. jobs \in [Jobs -> JobRecords] /\ \A j \in Jobs : JobOK(jobs[j])
  BY <1>3, NoJobType DEF MInit, JobOK
<1> QED BY <1>1, <1>2, <1>3, <1>4, TypeParts DEF Exclusive

-----------------------------------------------------------------------------
(* The rows of the jobs, the roots and everything of the import side keep  *)
(* their types; a job's row is active exactly while it has a goroutine, or *)
(* has lost it without a trace (MTypeOK).                                  *)
THEOREM MaintenanceTypes == MSpec => []MTypeOK
<1>1. MTypeOK /\ Exclusive /\ [MNext]_mvars => (MTypeOK /\ Exclusive)'
  BY MaintenanceStep
<1> QED BY <1>1, MaintenanceInit, PTL DEF MSpec

(* The two triggers and the unique index of maintenance_schema.sql are     *)
(* enough: however late a handler writes the row it has decided on, no     *)
(* epoch and job, and no two jobs, are ever active together.               *)
THEOREM ImportsAndJobsExclude == MSpec => []Exclusive
<1>1. MTypeOK /\ Exclusive /\ [MNext]_mvars => (MTypeOK /\ Exclusive)'
  BY MaintenanceStep
<1> QED BY <1>1, MaintenanceInit, PTL DEF MSpec

-----------------------------------------------------------------------------
(* The rows beside the jobs *)

(* What the handlers promise each other of the rows.  Jobs write none of   *)
(* them, and a restart only ends the handlers.                             *)
HandlersInv(rank) == RowsInv /\ Belongs /\ ChainInv(rank)

LEMMA RowsUntouched ==
    ASSUME NEW rank, HandlersInv(rank), TypeOK', UNCHANGED <<source, progress, gate>>,
           \A t \in Threads : th'[t] = th[t] \/ th'[t] = Idle
    PROVE  HandlersInv(rank)'
<1>1. /\ TypeOK /\ ExactlyOnceCount /\ PackDone /\ BatchDone /\ UnitDone /\ EpochDone
      /\ OpenIsActive /\ (\A t \in Threads : ThreadInv(t))
      /\ SessionRows /\ (\A t \in Threads : Belonging(t)) /\ ChainInv(rank)
  BY DEF HandlersInv, RowsInv, Belongs
<1>2. /\ UNCHANGED <<cursor, active, epochStatus, batchStatus, packStatus, session, importPack>>
      /\ UNCHANGED <<unitStatus, unitImported, imported>>
  BY DEF source, progress, gate
<1>3. (ExactlyOnceCount /\ PackDone /\ BatchDone /\ UnitDone)'
  BY <1>1, <1>2 DEF ExactlyOnceCount, PackDone, BatchDone, UnitDone
<1>4. (EpochDone /\ OpenIsActive)'
  BY <1>1, <1>2 DEF EpochDone, OpenIsActive, AllBatchesImported, AllUnitsPublished
<1>5. ASSUME NEW t \in Threads
      PROVE  ThreadInv(t)' /\ Belonging(t)'
  <2>1. CASE th'[t] = th[t]
    <3>1. Grows
      BY <1>2 DEF Grows
    <3>2. ThreadInv(t)'
      BY <1>1, <2>1, <3>1, OthersKeep
    <3>3. Belonging(t)'
      BY <1>1, <1>2, <2>1 DEF Belonging, Resting, At, BatchOfThread, EpochOfThread
    <3> QED BY <3>2, <3>3
  <2>2. CASE th'[t] = Idle
    <3>1. th'[t].pc = "idle"
      BY <2>2 DEF Idle
    <3> QED BY <3>1, FreshKeeps DEF Belonging, Resting, At
  <2> QED BY <2>1, <2>2
<1>6. SessionRows'
  BY <1>1, <1>2 DEF SessionRows
<1>7. ChainInv(rank)'
  BY <1>1, <1>2 DEF ChainInv, Behind, ActiveIsOpen
<1> QED BY <1>3, <1>4, <1>5, <1>6, <1>7 DEF HandlersInv, RowsInv, Belongs

(* What a step of a job leaves alone. *)
LEMMA JobStepLeaves ==
    ASSUME NEW j \in Jobs, JobStep(j)
    PROVE  /\ UNCHANGED <<source, progress, gate, th, root, disturbed>>
           /\ UNCHANGED <<disk, apart>> \/ RemoveCandidate(j)
           /\ UNCHANGED catalog \/ ReplaceCatalog(j)
<1>1. CASE ReplaceCatalog(j)
  BY <1>1 DEF ReplaceCatalog
<1>2. CASE RemoveCandidate(j)
  BY <1>2 DEF RemoveCandidate
<1>3. CASE ~ReplaceCatalog(j) /\ ~RemoveCandidate(j)
  <2>1. UNCHANGED <<svars, root, apart>>
    BY <1>3 DEF JobStep, CreateMaintenanceJob, BeginJob, OpenInventory, ScanFile, EndScan,
                CompleteJob, OpenGC, WalkFile, EndWalk, CheckCandidate, CompareCandidate,
                EndExecute, NoticeCancel, FailJob
  <2> QED BY <2>1 DEF svars, vars, repository
<1> QED BY <1>1, <1>2, <1>3

LEMMA OperatorLeaves ==
    ASSUME Operator
    PROVE  /\ UNCHANGED <<source, progress, gate, catalog, th, disturbed>>
           /\ UNCHANGED <<disk, root, apart>> \/ \E r \in Roots : UpdateSource(r)
BY DEF Operator, StartInventory, StartGC, CancelJob, UpdateSource, ClaimRoot, svars, vars, repository

LEMMA HandlersKeep ==
    ASSUME NEW rank, Ascending(rank), HandlersInv(rank), [MNext]_mvars, TypeOK'
    PROVE  HandlersInv(rank)'
<1>1. CASE ImportStep
  BY <1>1, RowsKeep, BelongsKeeps, ChainKeeps DEF ImportStep, ServingNext, HandlersInv
<1>2. ASSUME NEW j \in Jobs, JobStep(j)
      PROVE  HandlersInv(rank)'
  BY <1>2, JobStepLeaves, RowsUntouched
<1>3. CASE Operator
  BY <1>3, OperatorLeaves, RowsUntouched
<1>4. CASE Restart
  <2>1. \A t \in Threads : th'[t] = Idle
    BY <1>4 DEF Restart
  <2> QED BY <1>4, <2>1, RowsUntouched DEF Restart
<1>5. CASE UNCHANGED mvars
  BY <1>5, RowsUntouched DEF mvars, svars, vars
<1> QED BY <1>1, <1>2, <1>3, <1>4, <1>5 DEF MNext

LEMMA HandlersInit ==
    ASSUME MInit, NEW rank
    PROVE  HandlersInv(rank)
<1>1. TypeOK
  BY MaintenanceInit DEF MTypeOK
<1>2. ExactlyOnceCount
  BY FS_EmptySet DEF MInit, ServingInit, Init, ExactlyOnceCount
<1>3. PackDone /\ BatchDone /\ UnitDone /\ EpochDone /\ OpenIsActive
  BY DEF MInit, ServingInit, Init, PackDone, BatchDone, UnitDone, EpochDone, OpenIsActive
<1>4. \A t \in Threads : th[t].pc = "idle"
  BY DEF MInit, ServingInit, Init, Idle
<1>5. \A t \in Threads : ThreadInv(t) /\ Belonging(t)
  BY <1>4 DEF ThreadInv, Walking, Listing, Opening, Placing, Completing, Belonging, Resting, At
<1>6. SessionRows /\ ChainInv(rank)
  BY DEF MInit, ServingInit, Init, SessionRows, ChainInv, Behind, ActiveIsOpen
<1> QED BY <1>1, <1>2, <1>3, <1>5, <1>6 DEF HandlersInv, RowsInv, Belongs

(* Inventories, collections, cancellations, moves of the source and        *)
(* restarts of the agent disturb no promise of the import side that is     *)
(* about its rows (HandlersInv): counts, packs, batches, units and epochs  *)
(* are as complete as they say, and what belongs together stays so.        *)
THEOREM JobsLeaveTheRowsAlone ==
    ASSUME NEW CONSTANT rank, Ascending(rank)
    PROVE  MSpec => []HandlersInv(rank)
<1>1. MInit => HandlersInv(rank)
  BY HandlersInit
<1>2. MTypeOK' => TypeOK'
  BY DEF MTypeOK
<1>3. HandlersInv(rank) /\ [MNext]_mvars /\ TypeOK' => HandlersInv(rank)'
  BY HandlersKeep
<1> QED BY <1>1, <1>2, <1>3, MaintenanceTypes, PTL DEF MSpec

(* So whatever maintenance does, a unit counts each entry once, what is    *)
(* IMPORTED, PUBLISHED or COMPLETE is so entirely, and one epoch is open.  *)
THEOREM ImportsSurviveMaintenance ==
    ASSUME NEW CONSTANT rank, Ascending(rank)
    PROVE  MSpec => [](ExactlyOnceCount /\ CompletionIsTotal /\ OneOpenEpoch)
<1>1. RowsInv => ExactlyOnceCount /\ CompletionIsTotal
  BY CompletionFollows DEF RowsInv
<1>2. RowsInv /\ ChainInv(rank) => OneOpenEpoch
  BY SourceAssumption DEF RowsInv, ChainInv, OpenIsActive, ActiveIsOpen, OneOpenEpoch
<1>3. HandlersInv(rank) => ExactlyOnceCount /\ CompletionIsTotal /\ OneOpenEpoch
  BY <1>1, <1>2 DEF HandlersInv
<1> QED BY <1>3, JobsLeaveTheRowsAlone, PTL

-----------------------------------------------------------------------------
(* The files of the open epoch *)

(* What a handler of the open epoch has installed is still there when it   *)
(* records it.                                                             *)
OpenInserting ==
    active # None =>
        \A t \in Threads : At(t, "insert") /\ th[t].x \in EpochEntries(active) => Inserting(t)
FilesInv == OpenEpochKeepsFiles /\ OpenInserting /\ Held

(* While the active epoch stays the same, its files stay. *)
LEMMA OpenFilesStay ==
    ASSUME RowsInv, Belongs, OpenEpochKeepsFiles, OpenInserting, [Next]_vars,
           active # None, active' = active
    PROVE  OpenEpochKeepsFiles'
<1> DEFINE mine == Artifacts \cap EpochEntries(active)
<1>0. /\ disk \in [Paths -> ContentOrNone] /\ catalog \in [Paths -> ContentOrNone]
      /\ TypeOK /\ \A x \in Entries : PathOf[x] \in Paths
  BY PlanAssumption DEF RowsInv, TypeOK
<1>1. ASSUME NEW x \in imported', x \in mine
      PROVE  disk'[PathOf[x]] = ContentOf[x] /\ catalog'[PathOf[x]] = ContentOf[x]
  <2>1. CASE x \in imported
    <3>1. disk[PathOf[x]] = ContentOf[x] /\ catalog[PathOf[x]] = ContentOf[x]
      BY <1>1, <2>1 DEF OpenEpochKeepsFiles, Installed
    <3>2. disk'[PathOf[x]] = ContentOf[x]
      BY <1>0, <1>1, <3>1, ArtifactStays
    <3>3. ASSUME NEW t \in Threads, CommitImportedEntry(t), ~UNCHANGED catalog
          PROVE  catalog'[PathOf[x]] = ContentOf[x]
      <4> DEFINE y == th[t].x
      <4>1. At(t, "insert") /\ y \notin imported /\ catalog' = CatalogWith(y)
        BY <3>3 DEF CommitImportedEntry, Known
      <4>2. y \in Artifacts /\ catalog' = [catalog EXCEPT ![PathOf[y]] = ContentOf[y]]
        BY <3>3, <4>1 DEF CatalogWith
      <4>3. y \in EpochEntries(active)
        BY <4>1, EntryInHand DEF EpochEntries
      <4>4. disk[PathOf[y]] = ContentOf[y]
        BY <4>1, <4>2, <4>3 DEF OpenInserting, Inserting
      <4> QED BY <1>0, <3>1, <4>2, <4>4 DEF Artifacts
    <3>4. ASSUME NEW t \in Threads, CatalogMetadata(t)
          PROVE  catalog'[PathOf[x]] = ContentOf[x]
      <4>1. th[t].x \in Metadata
        BY <3>4 DEF CatalogMetadata, At, RowsInv, ThreadInv, Opening, Placing
      <4>2. PathOf[th[t].x] # PathOf[x]
        BY <1>1, <4>1, PlanAssumption DEF MetadataPaths
      <4> QED BY <1>0, <3>1, <3>4, <4>2 DEF CatalogMetadata
    <3> QED BY <3>1, <3>2, <3>3, <3>4, RepositoryWriters
  <2>2. CASE x \notin imported
    <3>1. PICK t \in Threads : CommitImportedEntry(t)
      BY <1>1, <2>2, GateWriters
    <3>2. /\ At(t, "insert") /\ x = th[t].x /\ UNCHANGED disk
          /\ catalog' = [catalog EXCEPT ![PathOf[x]] = ContentOf[x]]
      BY <1>1, <2>2, <3>1 DEF CommitImportedEntry, CatalogWith, gate
    <3>3. disk[PathOf[x]] = ContentOf[x]
      BY <1>1, <3>2 DEF OpenInserting, Inserting
    <3> QED BY <1>0, <1>1, <3>2, <3>3 DEF Artifacts
  <2> QED BY <2>1, <2>2
<1> QED BY <1>1 DEF OpenEpochKeepsFiles, Installed, EpochEntries

LEMMA OpenInsertingKeeps ==
    ASSUME RowsInv, Belongs, OpenInserting, [Next]_vars, active # None, active' = active
    PROVE  OpenInserting'
<1> SUFFICES ASSUME NEW t \in Threads, At(t, "insert")', (th[t].x \in EpochEntries(active))'
             PROVE  Inserting(t)'
  BY DEF OpenInserting
<1>1. CASE InstallEntry(t)
  <2>1. Inserting(t)
    BY <1>1 DEF InstallEntry, Inserting, At
  <2> QED BY <2>1, InsertingKeeps DEF RowsInv
<1>2. CASE ~InstallEntry(t)
  <2>1. th'[t] = th[t]
    BY <1>2, InsertedByInstall DEF At, RowsInv
  <2>2. Inserting(t)
    BY <2>1 DEF OpenInserting, At, EpochEntries
  <2> QED BY <2>2, InsertingKeeps DEF RowsInv
<1> QED BY <1>1, <1>2

LEMMA ImportFiles ==
    ASSUME RowsInv, Belongs, FilesInv, NEW rank, Ascending(rank), ChainInv(rank), [Next]_vars
    PROVE  FilesInv'
<1>1. Held'
  BY HeldKeeps DEF FilesInv
<1>2. CASE active' = None
  BY <1>1, <1>2 DEF FilesInv, OpenEpochKeepsFiles, OpenInserting
<1>3. CASE active' # None /\ active' = active
  BY <1>1, <1>3, OpenFilesStay, OpenInsertingKeeps DEF FilesInv
<1>4. CASE active' # None /\ active' # active
  <2>1. epochStatus[active'] = "ABSENT" /\ active = None /\ UNCHANGED <<imported, th>>
    BY <1>4, OpenedEpochIsFresh DEF FilesInv
  <2>2. \A x \in imported : x \notin EpochEntries(active')
    BY <2>1 DEF FilesInv, Held, EpochEntries
  <2>3. \A t \in Threads : At(t, "insert") => th[t].x \notin EpochEntries(active')
    BY <2>1, EntryInHand DEF EpochEntries
  <2> QED BY <1>1, <2>1, <2>2, <2>3
          DEF FilesInv, OpenEpochKeepsFiles, OpenInserting, At, EpochEntries
<1> QED BY <1>2, <1>3, <1>4

(* What is no step of the import side changes a file or the catalog only   *)
(* while no epoch is open.                                                 *)
LEMMA FilesUntouched ==
    ASSUME FilesInv, UNCHANGED <<active, epochStatus, imported>>,
           active # None => UNCHANGED <<disk, catalog>>,
           \A t \in Threads : th'[t] = th[t] \/ th'[t] = Idle
    PROVE  FilesInv'
<1>1. Held'
  BY DEF FilesInv, Held
<1>2. OpenEpochKeepsFiles'
  BY DEF FilesInv, OpenEpochKeepsFiles, Installed, EpochEntries
<1>3. OpenInserting'
  <2> SUFFICES ASSUME active # None, NEW t \in Threads, At(t, "insert")',
                      (th[t].x \in EpochEntries(active))'
               PROVE  Inserting(t)'
    BY DEF OpenInserting
  <2>1. th'[t] = th[t]
    BY DEF At, Idle
  <2> QED BY <2>1 DEF FilesInv, OpenInserting, Inserting, At, EpochEntries
<1> QED BY <1>1, <1>2, <1>3 DEF FilesInv

LEMMA FilesKeep ==
    ASSUME MTypeOK, Exclusive, NEW rank, Ascending(rank), HandlersInv(rank), FilesInv,
           [MNext]_mvars
    PROVE  FilesInv'
<1>1. CASE ImportStep
  BY <1>1, ImportFiles DEF ImportStep, ServingNext, HandlersInv
<1>2. ASSUME NEW j \in Jobs, JobStep(j)
      PROVE  FilesInv'
  <2>1. UNCHANGED <<source, gate, th>>
    BY <1>2, JobStepLeaves
  <2>2. ASSUME active # None
        PROVE  UNCHANGED <<disk, catalog>>
    <3>1. ~ActiveJob(j)
      BY <2>2 DEF Exclusive
    <3>2. ~ReplaceCatalog(j) /\ ~RemoveCandidate(j)
      BY <3>1 DEF ReplaceCatalog, RemoveCandidate, MTypeOK, AtJob
    <3> QED BY <1>2, <3>2, JobStepLeaves
  <2> QED BY <2>1, <2>2, FilesUntouched DEF source, gate
<1>3. CASE Operator
  <2>1. /\ UNCHANGED <<source, gate, catalog, th>>
        /\ UNCHANGED disk \/ \E r \in Roots : UpdateSource(r)
    BY <1>3, OperatorLeaves
  <2>2. active # None => UNCHANGED disk
    BY <2>1 DEF UpdateSource
  <2> QED BY <2>1, <2>2, FilesUntouched DEF source, gate
<1>4. CASE Restart
  <2>1. \A t \in Threads : th'[t] = Idle
    BY <1>4 DEF Restart
  <2> QED BY <1>4, <2>1, FilesUntouched DEF Restart, source, gate, repository
<1>5. CASE UNCHANGED mvars
  BY <1>5, FilesUntouched DEF mvars, svars, vars, source, gate, repository
<1> QED BY <1>1, <1>2, <1>3, <1>4, <1>5 DEF MNext

(* While an epoch is open, every artifact it has imported stays in the     *)
(* repository and in the catalog: no inventory or GC, started before it or *)
(* asked for meanwhile, no move of the source and no restart takes one     *)
(* away (secureRemoveCandidate, ReplaceCatalogFromFile).  Cursors ascend.  *)
THEOREM OpenEpochIsSafe ==
    ASSUME NEW CONSTANT rank, Ascending(rank)
    PROVE  MSpec => []OpenEpochKeepsFiles
<1>1. MInit => FilesInv
  BY DEF MInit, ServingInit, Init, FilesInv, OpenEpochKeepsFiles, OpenInserting, Held
<1>2. MTypeOK /\ Exclusive /\ HandlersInv(rank) /\ FilesInv /\ [MNext]_mvars => FilesInv'
  BY FilesKeep
<1>3. FilesInv => OpenEpochKeepsFiles
  BY DEF FilesInv
<1> QED
  BY <1>1, <1>2, <1>3, MaintenanceTypes, ImportsAndJobsExclude, JobsLeaveTheRowsAlone, PTL
  DEF MSpec

-----------------------------------------------------------------------------
(* What the jobs promise *)

(* What a job knows where it stands.  A new private database is empty; an  *)
(* inventory has listed what it has seen as it is there, and everything an *)
(* index or a listed file asks for is listed or still to be visited; a GC  *)
(* that is about to remove a file has found it unlisted, and it still is;  *)
(* files that have been disturbed, "off", apart.                           *)
Fresh(r) == r.pc \in {"insert", "begin", "open"} => r.built = Nothing
Scanned(r, files, off) ==
    r.pc \in {"scan", "replace"} =>
        /\ \A path \in Present(r.built) : path \in off \/ files[path] = r.built[path]
        /\ \A path \in Indexes \cap Present(files) :
             path \in off \/ path \in Present(r.built) \cup r.todo
        /\ \A path \in Present(r.built) :
             Mentions[r.built[path]] \subseteq Present(r.built) \cup r.todo
        /\ r.pc = "replace" => \A path \in Paths : path \notin r.todo
Checked(r, listed, off) ==
    r.pc \in {"compare", "remove"} => r.x \in off \/ listed[r.x] = None
JobsInv ==
    \A j \in Jobs : Fresh(jobs[j]) /\ Scanned(jobs[j], Files(j), disturbed) /\ Checked(jobs[j], catalog, disturbed)

(* Elsewhere a job knows nothing that could become wrong. *)
LEMMA NothingToKnow ==
    ASSUME NEW r, r.pc \notin {"insert", "begin", "open", "scan", "replace", "compare", "remove"},
           NEW files, NEW listed, NEW off
    PROVE  Fresh(r) /\ Scanned(r, files, off) /\ Checked(r, listed, off)
BY DEF Fresh, Scanned, Checked

LEMMA IdleJobsKnowNothing ==
    ASSUME MTypeOK, NEW j \in Jobs, ~ActiveJob(j), NEW files, NEW listed, NEW off
    PROVE  Scanned(jobs[j], files, off) /\ Checked(jobs[j], listed, off)
<1>1. jobs[j].pc \in {"none", "insert"}
  BY DEF MTypeOK
<1> QED BY <1>1 DEF Scanned, Checked

(* A step of a job leaves it with what its next step relies on. *)
LEMMA OwnJobKeeps ==
    ASSUME MTypeOK, NEW j \in Jobs, JobStep(j),
           Fresh(jobs[j]), Scanned(jobs[j], Files(j), disturbed), Checked(jobs[j], catalog, disturbed)
    PROVE  Fresh(jobs'[j]) /\ Scanned(jobs'[j], Files(j)', disturbed) /\ Checked(jobs'[j], catalog', disturbed)
<1> DEFINE job == jobs[j]
           Good == Fresh(jobs'[j]) /\ Scanned(jobs'[j], Files(j)', disturbed) /\ Checked(jobs'[j], catalog', disturbed)
<1>0. job \in JobRecords /\ jobs \in [Jobs -> JobRecords] /\ JobOK(job)
  BY TypeParts
<1>1. ASSUME jobs'[j].pc \notin {"insert", "begin", "open", "scan", "replace", "compare", "remove"}
      PROVE  Good
  BY <1>1, NothingToKnow
<1>2. ASSUME NEW status, EndJob(j, status)
      PROVE  Good
  <2>1. jobs'[j].pc \in {"none", "lost"}
    BY <1>0, <1>2 DEF EndJob, Update, NoJob
  <2> QED BY <1>1, <2>1
<1>3. ASSUME UNCHANGED <<disk, apart, root, catalog>>
      PROVE  /\ catalog' = catalog
             /\ jobs'[j].root = job.root => Files(j)' = Files(j)
  BY <1>3 DEF Files
<1>4. CASE CreateMaintenanceJob(j)
  <2>1. jobs'[j] = NoJob \/ jobs'[j] = [job EXCEPT !.status = "QUEUED", !.pc = "begin"]
    BY <1>0, <1>4 DEF CreateMaintenanceJob, Update
  <2>2. CASE jobs'[j] = NoJob
    BY <1>1, <2>2 DEF NoJob
  <2>3. CASE jobs'[j] = [job EXCEPT !.status = "QUEUED", !.pc = "begin"]
    <3>1. jobs'[j].pc = "begin" /\ jobs'[j].built = Nothing
      BY <1>0, <1>4, <2>3 DEF JobRecords, CreateMaintenanceJob, AtJob, Fresh
    <3> QED BY <3>1 DEF Fresh, Scanned, Checked
  <2> QED BY <2>1, <2>2, <2>3
<1>5. CASE BeginJob(j)
  <2>1. \/ jobs'[j] = [job EXCEPT !.status = "RUNNING", !.pc = "open"]
        \/ jobs'[j] = [NoJob EXCEPT !.status = "QUEUED", !.pc = "lost"]
    BY <1>0, <1>5 DEF BeginJob, Update
  <2>2. CASE jobs'[j] = [NoJob EXCEPT !.status = "QUEUED", !.pc = "lost"]
    BY <1>1, <2>2 DEF NoJob
  <2>3. CASE jobs'[j] = [job EXCEPT !.status = "RUNNING", !.pc = "open"]
    <3>1. jobs'[j].pc = "open" /\ jobs'[j].built = Nothing
      BY <1>0, <1>5, <2>3 DEF JobRecords, BeginJob, AtJob, Fresh
    <3> QED BY <3>1 DEF Fresh, Scanned, Checked
  <2> QED BY <2>1, <2>2, <2>3
<1>6. CASE OpenInventory(j)
  <2> DEFINE todo == Indexes \cap Present(Files(j))
             r == [job EXCEPT !.pc = "scan", !.todo = todo]
  <2>1. CASE Update(j, r)
    <3>0. jobs'[j] = r
      BY <1>0, <2>1 DEF Update
    <3>1. /\ jobs'[j].pc = "scan" /\ jobs'[j].todo = todo
          /\ jobs'[j].built = job.built /\ jobs'[j].root = job.root
      BY <1>0, <3>0 DEF JobRecords
    <3>2. Files(j)' = Files(j) /\ job.built = Nothing
      BY <1>3, <1>6, <3>1 DEF OpenInventory, svars, vars, repository, AtJob, Fresh
    <3>3. \A path : path \notin Present(Nothing)
      BY DEF Present, Nothing
    <3>4. Scanned(jobs'[j], Files(j)', disturbed)
      BY <3>1, <3>2, <3>3 DEF Scanned
    <3> QED BY <3>1, <3>4 DEF Fresh, Checked
  <2> QED BY <1>2, <1>6, <2>1 DEF OpenInventory
<1>7. CASE ScanFile(j)
  <2> DEFINE files == Files(j)
  <2>1. PICK path \in job.todo :
          IF files[path] = None
            THEN EndJob(j, "FAILED")
            ELSE Update(j, [job EXCEPT
                   !.built[path] = files[path],
                   !.todo = (@ \cup Mentioned(j, files[path])) \ {path}])
    BY <1>7 DEF ScanFile
  <2>2. CASE files[path] # None
    <3>1. /\ jobs'[j].pc = "scan" /\ jobs'[j].root = job.root
          /\ jobs'[j].built = [job.built EXCEPT ![path] = files[path]]
          /\ jobs'[j].todo = (job.todo \cup Mentioned(j, files[path])) \ {path}
      <4> DEFINE todo == (job.todo \cup Mentioned(j, files[path])) \ {path}
                 r == [job EXCEPT !.built[path] = files[path], !.todo = todo]
      <4>1. Update(j, r)
        BY <2>1, <2>2
      <4>2. jobs'[j] = r /\ job.pc = "scan"
        BY <1>0, <1>7, <4>1 DEF Update, ScanFile, AtJob
      <4> HIDE DEF todo
      <4>3. /\ r.pc = job.pc /\ r.root = job.root /\ r.todo = todo
            /\ r.built = [job.built EXCEPT ![path] = files[path]]
        BY <1>0 DEF JobRecords
      <4> QED BY <4>2, <4>3 DEF todo
    <3>2. Files(j)' = files
      BY <1>3, <1>7, <3>1 DEF ScanFile, svars, vars, repository
    <3>3. path \in Paths /\ job.built \in [Paths -> ContentOrNone]
      BY <1>0 DEF JobRecords
    <3>4. \A q \in Paths : q \in Present(jobs'[j].built) <=> q \in Present(job.built) \/ q = path
      BY <2>2, <3>1, <3>3 DEF Present
    <3>5. \A q \in Paths : jobs'[j].built[q] = IF q = path THEN files[path] ELSE job.built[q]
      BY <3>1, <3>3
    <3>6. /\ \A q \in Present(job.built) : q \in disturbed \/ files[q] = job.built[q]
          /\ \A q \in Indexes \cap Present(files) :
               q \in disturbed \/ q \in Present(job.built) \cup job.todo
          /\ \A q \in Present(job.built) :
               Mentions[job.built[q]] \subseteq Present(job.built) \cup job.todo
      BY <1>7 DEF ScanFile, AtJob, Scanned
    <3>7. \A q \in Present(jobs'[j].built) : q \in Paths
      BY DEF Present
    <3>8. \A q \in Present(jobs'[j].built) : q \in disturbed \/ files[q] = jobs'[j].built[q]
      BY <3>4, <3>5, <3>6, <3>7
    <3>9. \A q \in Paths : q \in Present(job.built) \cup job.todo
                             => q \in Present(jobs'[j].built) \cup jobs'[j].todo
      BY <3>1, <3>4
    <3>10. \A q \in Indexes \cap Present(files) :
             q \in disturbed \/ q \in Present(jobs'[j].built) \cup jobs'[j].todo
      BY <3>6, <3>9 DEF Present
    <3>11. ASSUME NEW q \in Present(jobs'[j].built)
           PROVE  Mentions[jobs'[j].built[q]] \subseteq Present(jobs'[j].built) \cup jobs'[j].todo
      <4>1. files[path] \in Contents
        BY <1>0, <1>7, <2>2, <3>3, FilesType DEF ScanFile, AtJob, ContentOrNone
      <4>2. CASE q = path
        <5>1. Mentions[files[path]] \subseteq Paths
          BY <4>1, MaintenanceAssumption
        <5>2. \A m \in Mentions[files[path]] :
                m \in Present(job.built) \/ m \in Mentioned(j, files[path])
          BY <5>1 DEF Mentioned, Present
        <5>3. \A m \in Mentions[files[path]] : m \in Present(jobs'[j].built) \cup jobs'[j].todo
          BY <3>1, <3>4, <5>1, <5>2
        <5> QED BY <3>5, <3>3, <4>2, <5>3
      <4>3. CASE q # path
        <5>1. q \in Present(job.built) /\ jobs'[j].built[q] = job.built[q] /\ q \in Paths
          BY <3>4, <3>5, <3>7, <4>3
        <5>2. job.built[q] \in Contents
          BY <3>3, <5>1 DEF Present, ContentOrNone
        <5>3. Mentions[job.built[q]] \subseteq Paths
          BY <5>2, MaintenanceAssumption
        <5> QED BY <3>6, <3>9, <5>1, <5>3
      <4> QED BY <4>2, <4>3
    <3>12. Scanned(jobs'[j], Files(j)', disturbed)
      BY <3>1, <3>2, <3>8, <3>10, <3>11 DEF Scanned
    <3> QED BY <3>1, <3>12 DEF Fresh, Checked
  <2> QED BY <1>2, <2>1, <2>2
<1>8. CASE EndScan(j)
  <2>1. CASE GoJob(j, "replace")
    <3>1. /\ jobs'[j].pc = "replace" /\ jobs'[j].root = job.root
          /\ jobs'[j].built = job.built /\ jobs'[j].todo = job.todo
      BY <1>0, <2>1 DEF JobRecords, GoJob, Update
    <3>2. Files(j)' = Files(j)
      BY <1>3, <1>8, <3>1 DEF EndScan, svars, vars, repository
    <3>3. \A path \in Paths : path \notin jobs'[j].todo
      BY <1>8, <3>1 DEF EndScan
    <3>4. Scanned(jobs'[j], Files(j)', disturbed)
      BY <1>8, <3>1, <3>2, <3>3 DEF Scanned, EndScan, AtJob
    <3> QED BY <3>1, <3>4 DEF Fresh, Checked
  <2> QED BY <1>2, <1>8, <2>1 DEF EndScan
<1>9. CASE ReplaceCatalog(j)
  <2>1. GoJob(j, "complete") => jobs'[j].pc = "complete"
    BY <1>0 DEF JobRecords, GoJob, Update
  <2> QED BY <1>1, <1>2, <1>9, <2>1 DEF ReplaceCatalog
<1>10. CASE CompleteJob(j) \/ EndExecute(j) \/ NoticeCancel(j) \/ FailJob(j)
  BY <1>2, <1>10 DEF CompleteJob, EndExecute, NoticeCancel, FailJob
<1>11. CASE OpenGC(j)
  <2>1. ASSUME NEW todo, Update(j, [job EXCEPT !.pc = "walk", !.todo = todo])
        PROVE  jobs'[j].pc = "walk"
    BY <1>0, <2>1 DEF JobRecords, Update
  <2> QED BY <1>1, <1>2, <1>11, <2>1 DEF OpenGC
<1>12. CASE WalkFile(j)
  <2>1. PICK path \in job.todo :
          Update(j, [job EXCEPT
            !.todo = @ \ {path},
            !.built[path] = IF Unlisted(path) THEN Files(j)[path] ELSE None])
    BY <1>12 DEF WalkFile
  <2>2. jobs'[j].pc = "walk"
    BY <1>0, <1>12, <2>1 DEF JobRecords, Update, WalkFile, AtJob
  <2> QED BY <1>1, <2>2
<1>13. CASE EndWalk(j)
  <2>1. ASSUME NEW todo, Update(j, [job EXCEPT !.pc = "execute", !.todo = todo])
        PROVE  jobs'[j].pc = "execute"
    BY <1>0, <2>1 DEF JobRecords, Update
  <2> QED BY <1>1, <1>2, <1>13, <2>1 DEF EndWalk
<1>14. CASE CheckCandidate(j)
  <2>1. PICK path \in job.todo :
          IF Unlisted(path)
            THEN Update(j, [job EXCEPT !.pc = "compare", !.x = path])
            ELSE EndJob(j, "FAILED")
    BY <1>14 DEF CheckCandidate
  <2>2. CASE Unlisted(path)
    <3>1. jobs'[j] = [job EXCEPT !.pc = "compare", !.x = path]
      BY <1>0, <2>1, <2>2 DEF Update
    <3>2. jobs'[j].pc = "compare" /\ jobs'[j].x = path
      BY <1>0, <3>1 DEF JobRecords
    <3>3. catalog' = catalog
      BY <1>14 DEF CheckCandidate, svars, vars, repository
    <3> QED BY <2>2, <3>2, <3>3 DEF Fresh, Scanned, Checked, Unlisted
  <2> QED BY <1>2, <2>1, <2>2
<1>15. CASE RemoveCandidate(j)
  <2>1. ASSUME NEW todo, Update(j, [job EXCEPT !.pc = "execute", !.x = None, !.todo = todo])
        PROVE  jobs'[j].pc = "execute"
    BY <1>0, <2>1 DEF JobRecords, Update
  <2> QED BY <1>1, <1>2, <1>15, <2>1 DEF RemoveCandidate
<1>16. CASE CompareCandidate(j)
  <2>1. CASE GoJob(j, "remove")
    <3>1. jobs'[j].pc = "remove" /\ jobs'[j].x = job.x
      BY <1>0, <2>1 DEF GoJob, Update, JobRecords
    <3>2. catalog' = catalog /\ job.pc = "compare"
      BY <1>16 DEF CompareCandidate, AtJob, svars, vars, repository
    <3> QED BY <3>1, <3>2 DEF Fresh, Scanned, Checked
  <2> QED BY <1>2, <1>16, <2>1 DEF CompareCandidate
<1> QED
  BY <1>4, <1>5, <1>6, <1>7, <1>8, <1>9, <1>10, <1>11, <1>12, <1>13, <1>14, <1>15, <1>16
  DEF JobStep

(* Beside an active job the import side changes the catalog not at all,    *)
(* and of the files only artifacts that were not there: the entries of a   *)
(* complete epoch are known.  Only a publisher that has outlived its epoch *)
(* can do more, and it disturbs what it changes.                           *)
LEMMA ImportsAreQuiet ==
    ASSUME RowsInv, Belongs, [Next]_vars, Witness, active = None,
           NEW path \in Paths, path \notin disturbed'
    PROVE  /\ catalog'[path] = catalog[path]
           /\ disk'[path] = disk[path] \/ (disk[path] = None /\ path \notin Indexes)
<1>0. /\ disk \in [Paths -> ContentOrNone] /\ catalog \in [Paths -> ContentOrNone] /\ TypeOK
      /\ \A x \in Entries : PathOf[x] \in Paths
  BY PlanAssumption DEF RowsInv, TypeOK
<1>1. ASSUME NEW t \in Threads, CheckMetadata(t) \/ RenameMetadata(t) \/ CatalogMetadata(t),
             path \in MetadataPaths,
             disk'[path] # disk[path] \/ catalog'[path] # catalog[path]
      PROVE  FALSE
  <2>1. Publishing(t) /\ th'[t] # th[t]
    BY <1>0, <1>1, PublisherMovesOn
       DEF CheckMetadata, RenameMetadata, CatalogMetadata, At, Publishing
  <2>2. ~Outlived(t)
    BY <1>1, <2>1, WriterIsCurrent
  <2> QED BY <2>1, <2>2, PublisherIsCurrent
<1>2. ASSUME NEW t \in Threads, CommitImportedEntry(t)
      PROVE  catalog' = catalog
  <2>1. At(t, "insert")
    BY <1>2 DEF CommitImportedEntry
  <2>2. Known(th[t].x)
    BY <2>1, EntryInHand, SourceAssumption DEF Known
  <2> QED BY <1>2, <2>2 DEF CommitImportedEntry
<1>3. ASSUME NEW t \in Threads, InstallEntry(t)
      PROVE  disk'[path] = disk[path] \/ (disk[path] = None /\ path \notin Indexes)
  <2>1. \/ UNCHANGED disk
        \/ \E x \in th[t].todo : /\ x \in Artifacts /\ ~Conflicts(x)
                                 /\ disk' = [disk EXCEPT ![PathOf[x]] = ContentOf[x]]
    BY <1>3 DEF InstallEntry
  <2>2. ASSUME NEW x \in Artifacts, ~Conflicts(x),
               disk' = [disk EXCEPT ![PathOf[x]] = ContentOf[x]]
        PROVE  disk'[path] = disk[path] \/ (disk[path] = None /\ path \notin Indexes)
    BY <1>0, <2>2, MaintenanceAssumption DEF Conflicts, Artifacts
  <2> QED BY <2>1, <2>2
<1>4. ASSUME NEW t \in Threads, CheckMetadata(t) \/ RenameMetadata(t) \/ CatalogMetadata(t),
             disk'[path] # disk[path] \/ catalog'[path] # catalog[path]
      PROVE  path \in MetadataPaths
  <2>1. CASE CheckMetadata(t)
    <3>1. /\ UNCHANGED catalog
          /\ UNCHANGED disk \/ \E m \in Metadata : disk' = [disk EXCEPT ![PathOf[m]] = None]
      BY <2>1 DEF CheckMetadata
    <3> QED BY <1>0, <1>4, <3>1 DEF MetadataPaths
  <2>2. CASE RenameMetadata(t) \/ CatalogMetadata(t)
    <3>1. th[t].x \in Metadata
      BY <2>2 DEF RenameMetadata, CatalogMetadata, At, RowsInv, ThreadInv, Opening, Placing
    <3>2. \/ UNCHANGED <<disk, catalog>>
          \/ /\ disk' = [disk EXCEPT ![PathOf[th[t].x]] = ContentOf[th[t].x]]
             /\ UNCHANGED catalog
          \/ /\ catalog' = [catalog EXCEPT ![PathOf[th[t].x]] = ContentOf[th[t].x]]
             /\ UNCHANGED disk
      BY <2>2 DEF RenameMetadata, CatalogMetadata
    <3> QED BY <1>0, <1>4, <3>1, <3>2 DEF MetadataPaths
  <2> QED BY <1>4, <2>1, <2>2
<1>5. catalog'[path] = catalog[path]
  BY <1>1, <1>2, <1>4, RepositoryWriters
<1>6. disk'[path] = disk[path] \/ (disk[path] = None /\ path \notin Indexes)
  BY <1>1, <1>3, <1>4, RepositoryWriters
<1> QED BY <1>5, <1>6

(* What a job has scanned stays scanned when files it has not met appear.  *)
LEMMA ScanStands ==
    ASSUME NEW r \in JobRecords, NEW before \in [Paths -> ContentOrNone], NEW after,
           NEW off, NEW beyond, off \subseteq beyond,
           Scanned(r, before, off),
           \A path \in Paths : \/ path \in beyond
                               \/ after[path] = before[path]
                               \/ before[path] = None /\ path \notin Indexes
    PROVE  Scanned(r, after, beyond)
<1> SUFFICES ASSUME r.pc \in {"scan", "replace"}
             PROVE  Scanned(r, after, beyond)
  BY DEF Scanned
<1>1. \A path \in Present(r.built) :
        path \in off \/ (before[path] = r.built[path] /\ before[path] # None)
  BY DEF Scanned, Present
<1>2. \A path \in Present(r.built) : path \in beyond \/ after[path] = r.built[path]
  BY <1>1 DEF Present
<1>3. \A path \in Indexes \cap Present(after) :
        path \in beyond \/ path \in Indexes \cap Present(before)
  BY DEF Present
<1>4. \A path \in Indexes \cap Present(after) :
        path \in beyond \/ path \in Present(r.built) \cup r.todo
  BY <1>3 DEF Scanned
<1> QED BY <1>2, <1>4 DEF Scanned

(* A move of the source takes no file away from a job: it goes on in the   *)
(* root it has read.                                                       *)
LEMMA FilesFollow ==
    ASSUME MTypeOK, NEW r \in Roots, UpdateSource(r), NEW j \in Jobs, jobs[j].root \in Roots
    PROVE  Files(j)' = Files(j)
BY DEF UpdateSource, Files, MTypeOK

LEMMA JobsKeep ==
    ASSUME MTypeOK, Exclusive, NEW rank, HandlersInv(rank), JobsInv, [MNext]_mvars
    PROVE  JobsInv'
<1>0. /\ jobs \in [Jobs -> JobRecords] /\ \A j \in Jobs : JobOK(jobs[j])
      /\ disk \in [Paths -> ContentOrNone] /\ apart \in [Roots -> [Paths -> ContentOrNone]]
  BY TypeParts DEF OthersOK, TypeOK
<1>1. \A j \in Jobs : Fresh(jobs[j]) /\ Scanned(jobs[j], Files(j), disturbed) /\ Checked(jobs[j], catalog, disturbed)
  BY DEF JobsInv
<1>2. CASE ImportStep
  <2>1. UNCHANGED <<jobs, root, apart>> /\ [Next]_vars /\ Witness /\ disturbed \subseteq disturbed'
    BY <1>2 DEF ImportStep, ServingNext, Witness, maintenance
  <2>2. ASSUME NEW j \in Jobs
        PROVE  Scanned(jobs[j], Files(j)', disturbed') /\ Checked(jobs[j], catalog', disturbed')
    <3>1. CASE ~ActiveJob(j)
      BY <3>1, IdleJobsKnowNothing
    <3>2. CASE ActiveJob(j)
      <4>1. active = None
        BY <3>2 DEF Exclusive
      <4>2. \A path \in Paths :
              \/ path \in disturbed'
              \/ /\ catalog'[path] = catalog[path]
                 /\ disk'[path] = disk[path] \/ (disk[path] = None /\ path \notin Indexes)
        BY <2>1, <4>1, ImportsAreQuiet DEF HandlersInv
      <4>3. Checked(jobs[j], catalog', disturbed')
        <5>1. jobs[j].pc \in {"compare", "remove"} => jobs[j].x \in Paths
          BY <1>0 DEF JobOK
        <5> QED BY <1>1, <2>1, <4>2, <5>1 DEF Checked
      <4>4. Scanned(jobs[j], Files(j)', disturbed')
        <5>0. PICK off, beyond : off = disturbed /\ beyond = disturbed'
          OBVIOUS
        <5>1. CASE jobs[j].root = root
          <6>1. Files(j) = disk /\ Files(j)' = disk'
            BY <2>1, <5>1 DEF Files
          <6> QED BY <1>0, <1>1, <2>1, <4>2, <5>0, <6>1, ScanStands
        <5>2. CASE jobs[j].root # root
          <6>1. Files(j)' = Files(j)
            BY <2>1, <5>2 DEF Files
          <6> QED BY <1>1, <2>1, <6>1 DEF Scanned
        <5> QED BY <5>1, <5>2
      <4> QED BY <4>3, <4>4
    <3> QED BY <3>1, <3>2
  <2> QED BY <1>1, <2>1, <2>2 DEF JobsInv
<1>3. ASSUME NEW j \in Jobs, JobStep(j)
      PROVE  JobsInv'
  <2>1. Fresh(jobs'[j]) /\ Scanned(jobs'[j], Files(j)', disturbed) /\ Checked(jobs'[j], catalog', disturbed)
    BY <1>1, <1>3, OwnJobKeeps
  <2>0. disturbed' = disturbed
    BY <1>3, JobStepLeaves
  <2>2. PICK new : Update(j, new)
    BY <1>3, JobStepBecomes DEF Becomes
  <2>3. ASSUME NEW k \in Jobs \ {j}
        PROVE  Fresh(jobs'[k]) /\ Scanned(jobs'[k], Files(k)', disturbed) /\ Checked(jobs'[k], catalog', disturbed)
    <3>1. jobs'[k] = jobs[k]
      BY <1>0, <2>2 DEF Update
    <3>2. CASE ~ActiveJob(k)
      BY <1>1, <3>1, <3>2, IdleJobsKnowNothing
    <3>3. CASE ActiveJob(k)
      <4>1. ~ActiveJob(j)
        BY <3>3 DEF Exclusive
      <4>2. ~ReplaceCatalog(j) /\ ~RemoveCandidate(j)
        BY <4>1 DEF ReplaceCatalog, RemoveCandidate, MTypeOK, AtJob
      <4>3. UNCHANGED <<disk, apart, catalog, root>>
        BY <1>3, <4>2, JobStepLeaves
      <4>4. Files(k)' = Files(k)
        BY <3>1, <4>3 DEF Files
      <4> QED BY <1>1, <3>1, <4>3, <4>4
    <3> QED BY <3>2, <3>3
  <2> QED BY <2>0, <2>1, <2>3 DEF JobsInv
<1>4. CASE Operator
  <2>0. UNCHANGED <<catalog, disturbed>>
    BY <1>4, OperatorLeaves
  <2>1. ASSUME NEW j \in Jobs, NEW r, r.pc = "insert", r.built = Nothing, Update(j, r),
               UNCHANGED <<disk, apart, root>>
        PROVE  JobsInv'
    <3>1. \A k \in Jobs : jobs'[k] = IF k = j THEN r ELSE jobs[k]
      BY <1>0, <2>1 DEF Update
    <3>2. Fresh(r) /\ \A files, listed, off : Scanned(r, files, off) /\ Checked(r, listed, off)
      BY <2>1 DEF Fresh, Scanned, Checked
    <3>3. \A k \in Jobs \ {j} : Files(k)' = Files(k)
      BY <2>1, <3>1 DEF Files
    <3> QED BY <1>1, <2>0, <3>1, <3>2, <3>3 DEF JobsInv
  <2>2. ASSUME NEW j \in Jobs, StartInventory(j)
        PROVE  JobsInv'
    <3> DEFINE r == [NoJob EXCEPT !.kind = "INVENTORY", !.pc = "insert", !.root = root]
    <3>1. r.pc = "insert" /\ r.built = Nothing
      BY DEF NoJob
    <3>2. Update(j, r) /\ UNCHANGED <<disk, apart, root>>
      BY <2>2 DEF StartInventory, svars, vars, repository
    <3> HIDE DEF r
    <3> QED BY <2>1, <3>1, <3>2
  <2>3. ASSUME NEW j \in Jobs, NEW execute \in BOOLEAN, StartGC(j, execute)
        PROVE  JobsInv'
    <3> DEFINE r == [NoJob EXCEPT !.kind = "GC", !.execute = execute, !.pc = "insert",
                                  !.root = root]
    <3>1. r.pc = "insert" /\ r.built = Nothing
      BY DEF NoJob
    <3>2. Update(j, r) /\ UNCHANGED <<disk, apart, root>>
      BY <2>3 DEF StartGC, svars, vars, repository
    <3> HIDE DEF r
    <3> QED BY <2>1, <3>1, <3>2
  <2>4. ASSUME NEW j \in Jobs, CancelJob(j)
        PROVE  JobsInv'
    <3>1. UNCHANGED <<disk, apart, root>>
      BY <2>4 DEF CancelJob, svars, vars, repository
    <3>2. \A k \in Jobs : /\ jobs'[k].pc = jobs[k].pc /\ jobs'[k].built = jobs[k].built
                          /\ jobs'[k].todo = jobs[k].todo /\ jobs'[k].x = jobs[k].x
                          /\ jobs'[k].root = jobs[k].root
      BY <1>0, <2>4 DEF CancelJob, Update, JobRecords
    <3>3. \A k \in Jobs : Files(k)' = Files(k)
      BY <3>1, <3>2 DEF Files
    <3>4. \A k \in Jobs : Fresh(jobs'[k]) /\ Scanned(jobs'[k], Files(k), disturbed) /\ Checked(jobs'[k], catalog, disturbed)
      BY <1>1, <3>2 DEF Fresh, Scanned, Checked
    <3> QED BY <2>0, <3>3, <3>4 DEF JobsInv
  <2>5. ASSUME NEW r \in Roots, UpdateSource(r)
        PROVE  JobsInv'
    <3>1. UNCHANGED jobs
      BY <2>5 DEF UpdateSource
    <3>2. ASSUME NEW j \in Jobs
          PROVE  Scanned(jobs[j], Files(j)', disturbed)
      <4>1. CASE jobs[j].pc \in {"scan", "replace"}
        <5>1. jobs[j].root \in Roots
          BY <1>0, <4>1 DEF JobOK
        <5> QED BY <1>1, <2>5, <5>1, FilesFollow
      <4>2. CASE jobs[j].pc \notin {"scan", "replace"}
        BY <4>2 DEF Scanned
      <4> QED BY <4>1, <4>2
    <3> QED BY <1>1, <2>0, <3>1, <3>2 DEF JobsInv
  <2>6. ASSUME NEW r \in Roots, ClaimRoot(r)
        PROVE  JobsInv'
    <3>1. UNCHANGED <<jobs, root, disk, apart>>
      BY <2>6 DEF ClaimRoot, svars, vars, repository
    <3>2. \A j \in Jobs : Files(j)' = Files(j)
      BY <3>1 DEF Files
    <3> QED BY <1>1, <2>0, <3>1, <3>2 DEF JobsInv
  <2> QED BY <1>4, <2>2, <2>3, <2>4, <2>5, <2>6, MaintenanceAssumption DEF Operator
<1>5. CASE Restart
  <2>1. ASSUME NEW j \in Jobs
        PROVE  jobs'[j].pc = "none"
    BY <1>5 DEF Restart, NoJob
  <2> QED BY <2>1, NothingToKnow DEF JobsInv
<1>6. CASE UNCHANGED mvars
  <2>1. UNCHANGED <<jobs, root, disk, apart, catalog, disturbed>>
    BY <1>6 DEF mvars, maintenance, svars, vars, repository
  <2>2. \A j \in Jobs : Files(j)' = Files(j)
    BY <2>1 DEF Files
  <2> QED BY <1>1, <2>1, <2>2 DEF JobsInv
<1> QED BY <1>2, <1>3, <1>4, <1>5, <1>6 DEF MNext

LEMMA JobsInit == MInit => JobsInv
BY NothingToKnow DEF MInit, JobsInv, NoJob

(* Every inventory and every GC knows what it relies on, through moves of  *)
(* the source, late installs and restarts, and beside publishers that have *)
(* outlived their epochs, but for the files those have changed (JobsInv).  *)
THEOREM JobsKnowWhatTheySaw ==
    ASSUME NEW CONSTANT rank, Ascending(rank)
    PROVE  MSpec => []JobsInv
<1>1. MInit => JobsInv
  BY JobsInit
<1>2. /\ MTypeOK /\ Exclusive /\ HandlersInv(rank) /\ JobsInv /\ [MNext]_mvars
      => JobsInv'
  BY JobsKeep
<1> QED
  BY <1>1, <1>2, MaintenanceTypes, ImportsAndJobsExclude, JobsLeaveTheRowsAlone, PTL DEF MSpec

(* A GC never takes away a file that the catalog lists, although it looks  *)
(* in the catalog before, and not while, it removes (runGC); but for files *)
(* that a publisher has listed after its epoch.  Cursors ascend.           *)
THEOREM GCLeavesTheListed ==
    ASSUME NEW CONSTANT rank, Ascending(rank)
    PROVE  MSpec => GCKeepsListed
<1>1. JobsInv => [\A j \in Jobs : AtJob(j, "remove") /\ jobs'[j].pc = "execute"
                    => catalog[jobs[j].x] = None \/ jobs[j].x \in disturbed]_mvars
  BY DEF JobsInv, Checked, AtJob
<1> QED BY <1>1, JobsKnowWhatTheySaw, PTL DEF GCKeepsListed

(* Only a replacement of the catalog takes a job from "replace" on. *)
LEMMA CompletedByReplacement ==
    ASSUME MTypeOK, [MNext]_mvars, NEW j \in Jobs, AtJob(j, "replace"),
           jobs'[j].pc = "complete"
    PROVE  catalog' = jobs[j].built
<1>0. jobs \in [Jobs -> JobRecords] /\ jobs[j].pc = "replace"
  BY DEF MTypeOK, AtJob
<1>1. CASE UNCHANGED jobs
  BY <1>0, <1>1
<1>2. ASSUME NEW status, EndJob(j, status)
      PROVE  FALSE
  <2>1. jobs'[j].pc \in {"none", "lost"}
    BY <1>0, <1>2 DEF EndJob, Update, NoJob
  <2> QED BY <2>1
<1>3. ASSUME JobStep(j)
      PROVE  catalog' = jobs[j].built
  <2>1. ReplaceCatalog(j) \/ FailJob(j)
    BY <1>0, <1>3 DEF JobStep, CreateMaintenanceJob, BeginJob, OpenInventory, ScanFile, EndScan,
                CompleteJob, OpenGC, WalkFile, EndWalk, CheckCandidate,
                CompareCandidate, RemoveCandidate, EndExecute, NoticeCancel, AtJob
  <2> QED BY <1>2, <2>1 DEF ReplaceCatalog, FailJob
<1>4. ASSUME NEW k \in Jobs \ {j}, NEW new, Update(k, new)
      PROVE  FALSE
  BY <1>0, <1>4 DEF Update
<1>5. ASSUME NEW k \in Jobs, JobStep(k)
      PROVE  catalog' = jobs[j].built
  <2>1. \E new : Update(k, new)
    BY <1>5, JobStepBecomes DEF Becomes
  <2> QED BY <1>3, <1>4, <1>5, <2>1
<1>6. CASE Operator
  <2>1. ASSUME NEW k \in Jobs, StartInventory(k) \/ (\E execute \in BOOLEAN : StartGC(k, execute))
        PROVE  FALSE
    <3>1. jobs[k] = NoJob /\ \E new : Update(k, new)
      BY <2>1 DEF StartInventory, StartGC
    <3>2. k # j
      BY <1>0, <3>1 DEF NoJob
    <3> QED BY <1>4, <3>1, <3>2
  <2>2. ASSUME NEW k \in Jobs, CancelJob(k)
        PROVE  FALSE
    BY <1>0, <2>2 DEF CancelJob, Update, JobRecords
  <2>3. ASSUME NEW r \in Roots, UpdateSource(r) \/ ClaimRoot(r)
        PROVE  UNCHANGED jobs
    BY <2>3 DEF UpdateSource, ClaimRoot
  <2> QED BY <1>1, <1>6, <2>1, <2>2, <2>3, MaintenanceAssumption DEF Operator
<1>7. CASE Restart
  BY <1>7 DEF Restart, NoJob
<1>8. CASE ImportStep \/ UNCHANGED mvars
  BY <1>1, <1>8 DEF ImportStep, ServingNext, mvars, maintenance
<1> QED BY <1>5, <1>6, <1>7, <1>8 DEF MNext

(* When an inventory replaces the catalog, the new one agrees with the     *)
(* files under the root the job has scanned, has all indexes and           *)
(* everything they mention (ReplaceCatalogFromFile), but for files that a  *)
(* publisher has changed after its epoch.  Cursors ascend.                 *)
THEOREM InventoryIsWhole ==
    ASSUME NEW CONSTANT rank, Ascending(rank)
    PROVE  MSpec => CatalogIsWhole
<1>1. ASSUME MTypeOK, JobsInv, [MNext]_mvars, NEW j \in Jobs, AtJob(j, "replace"),
             jobs'[j].pc = "complete"
      PROVE  WholeInventory(catalog', Files(j))
  <2> DEFINE built == jobs[j].built
             files == Files(j)
  <2>1. catalog' = built
    BY <1>1, CompletedByReplacement
  <2>2. Scanned(jobs[j], files, disturbed) /\ jobs[j].pc = "replace" /\ jobs[j].todo \subseteq Paths
    BY <1>1 DEF JobsInv, AtJob, MTypeOK, JobRecords
  <2>3. \A path : path \notin jobs[j].todo
    BY <2>2 DEF Scanned
  <2>4. WholeInventory(built, files)
    BY <2>2, <2>3 DEF Scanned, WholeInventory
  <2> QED BY <2>1, <2>4
<1>2. MTypeOK /\ JobsInv /\ [MNext]_mvars
        => [\A j \in Jobs : AtJob(j, "replace") /\ jobs'[j].pc = "complete"
              => WholeInventory(catalog', Files(j))]_mvars
  BY <1>1
<1> QED BY <1>2, MaintenanceTypes, JobsKnowWhatTheySaw, PTL DEF CatalogIsWhole, MSpec

=============================================================================
