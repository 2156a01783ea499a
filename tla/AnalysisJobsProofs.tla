-------------------------- MODULE AnalysisJobsProofs --------------------------
(* A job that has ended stays ended, and a cancellation that was answered is  *)
(* honoured, for every number of jobs, slots, requests and restarts.          *)
EXTENDS AnalysisJobs, TLAPS

Status == {"none"} \cup Active \cup Terminal
TaskAt == {"none", "queued", "opening", "gpu", "dropping", "ending"} \cup HoldsGpu

Types ==
  /\ row \in [Job -> Status] /\ task \in [Job -> TaskAt]
  /\ upload \in [Job -> {"new", "created", "streamed", "rejected", "done"}]
  /\ cancel \in [Job -> {"idle", "touched"}]
  /\ delete \in [Job -> {"idle", "touched", "waiting", "ready"}]

Committing == {"publishing", "committing"}

(* Nothing is known of a job before its upload, and its task runs only after. *)
Fresh(j) ==
  /\ upload[j] = "new" =>
       /\ row[j] = "none" /\ cancel[j] = "idle" /\ delete[j] = "idle"
       /\ j \notin deleted /\ j \notin asked
  /\ task[j] # "none" => upload[j] = "done"

(* A stage is written only over an active row, or over one that is being      *)
(* deleted; a task that closes has left no active row behind, but for a       *)
(* deleted job.  Results are published under the lock.                        *)
Stages(j) ==
  /\ task[j] = "writing" => row[j] \in Active \cup {"none"} \/ j \in deleted
  /\ task[j] \in {"closing", "ending"} => row[j] \notin Active \/ j \in deleted
  /\ delete[j] = "touched" => j \in deleted \/ row[j] = "none"
  /\ task[j] \in Committing => j \in locked

(* An active row somebody asked to cancel has its marker for the task to see, *)
(* and a task that is past its last look at the marker was not asked.         *)
Cancels(j) ==
  /\ cancel[j] = "touched" /\ row[j] \in Active => j \in marker \/ j \in deleted
  /\ j \in asked /\ row[j] \in Active =>
       j \in deleted \/ (j \in marker /\ Registered(j))
  /\ j \in asked /\ task[j] \in Committing => row[j] \notin Active
  /\ j \in asked => row[j] # "completed"

JobInv(j) == Fresh(j) /\ Stages(j) /\ Cancels(j)

JobsInv == Types /\ \A j \in Job : JobInv(j)

LEMMA CancelFollows == JobsInv => CancelIsHonoured
BY DEF JobsInv, JobInv, Cancels, CancelIsHonoured

LEMMA InitHolds == Init => JobsInv
BY DEF Init, JobsInv, Types, JobInv, Fresh, Stages, Cancels, Status, TaskAt, Active,
       Committing

-----------------------------------------------------------------------------
(* A step of one job leaves the others alone.                                 *)
Same(i) ==
  /\ row'[i] = row[i] /\ task'[i] = task[i] /\ upload'[i] = upload[i]
  /\ cancel'[i] = cancel[i] /\ delete'[i] = delete[i]
  /\ (i \in marker' <=> i \in marker)
  /\ (i \in locked' <=> i \in locked) /\ (i \in deleted' <=> i \in deleted)
  /\ (i \in asked' <=> i \in asked)

LEMMA SameKeeps ==
  ASSUME NEW i \in Job, JobInv(i), Same(i)
  PROVE  JobInv(i)'
BY DEF JobInv, Same, Fresh, Stages, Cancels, Registered

(* One step of one job: the columns stay typed, the job stays sound, the      *)
(* others are left alone, and an ended job stays ended.                       *)
Ended(j) ==
  upload[j] = "done" /\ row[j] \in Terminal /\ j \notin deleted =>
    row'[j] \in {row[j], "none"}

JobStep(j) ==
  Types' /\ JobInv(j)' /\ Ended(j) /\ \A i \in Job \ {j} : Same(i)

USE DEF JobStep, Types, Same, Ended

LEMMA UploadSteps ==
  ASSUME JobsInv, NEW j \in Job,
         AdmitUpload(j) \/ StreamUpload(j) \/ StartJob(j) \/ RejectUpload(j)
  PROVE  JobStep(j)
<1>1. Types /\ JobInv(j)
  BY DEF JobsInv
<1>2. CASE AdmitUpload(j)
  BY <1>1, <1>2 DEF AdmitUpload, rest, JobInv, Fresh, Stages, Cancels, Registered,
         Status, Active, Terminal, Committing
<1>3. CASE StreamUpload(j)
  BY <1>1, <1>3 DEF StreamUpload, rest, sets, JobInv, Fresh, Stages, Cancels, Registered
<1>4. CASE StartJob(j)
  BY <1>1, <1>4 DEF StartJob, Goto, disk, rest, sets, JobInv, Fresh, Stages, Cancels,
         Registered, TaskAt, Committing
<1>5. CASE RejectUpload(j)
  BY <1>1, <1>5 DEF RejectUpload, Removed, Refused, BrokenOff, Fails, JobInv, Fresh, Stages, Cancels,
         Registered, Status, Active, Terminal, Committing
<1> QED BY <1>2, <1>3, <1>4, <1>5

(* The task of a job.  Where its step changes no row it is enough to know     *)
(* where it goes.                                                             *)
LEMMA TaskMoves ==
  ASSUME JobsInv, NEW j \in Job,
         \/ TakeWorkerSlot(j) \/ SeeCancelQueued(j) \/ OpenJob(j) \/ TakeGpuSlot(j)
         \/ ReadForStage(j) \/ LeaveWork(j) \/ Release(j)
  PROVE  JobStep(j)
<1> USE DEF OnlyTask, disk, requests, sets, rest, Goto, JobInv, Fresh, Stages, Cancels,
        Registered, TaskAt, HoldsGpu, Committing
<1>1. Types /\ JobInv(j)
  BY DEF JobsInv
<1>2. CASE TakeWorkerSlot(j) \/ TakeGpuSlot(j)
  BY <1>1, <1>2 DEF TakeWorkerSlot, TakeGpuSlot
<1>3. CASE SeeCancelQueued(j)
  BY <1>1, <1>3 DEF SeeCancelQueued
<1>4. CASE Release(j)
  BY <1>1, <1>4 DEF Release
<1>5. CASE OpenJob(j)
  BY <1>1, <1>5 DEF OpenJob, Active
<1>6. CASE ReadForStage(j)
  BY <1>1, <1>6 DEF ReadForStage
<1>7. CASE LeaveWork(j)
  BY <1>1, <1>7 DEF LeaveWork, SeeCancel, WorkFails, WorkSucceeds
<1> QED BY <1>2, <1>3, <1>4, <1>5, <1>6, <1>7

LEMMA TaskWrites ==
  ASSUME JobsInv, NEW j \in Job,
         \/ WriteStage(j) \/ FinalizeSuccess(j) \/ Publish(j) \/ PublishStops(j)
         \/ Commit(j) \/ EndTask(j) \/ Settle(j)
  PROVE  JobStep(j)
<1> USE DEF requests, sets, rest, Goto, JobInv, Fresh, Stages, Cancels,
        Registered, TaskAt, HoldsGpu, Committing
<1>1. Types /\ JobInv(j)
  BY DEF JobsInv
<1>2. CASE WriteStage(j)
  BY <1>1, <1>2 DEF WriteStage, Status, Active, Terminal
<1>3. CASE FinalizeSuccess(j)
  BY <1>1, <1>3 DEF FinalizeSuccess, StillActive
<1>4. CASE Publish(j)
  BY <1>1, <1>4 DEF Publish, StillActive, SetStatus, Status, Active, Terminal
<1>5. CASE PublishStops(j)
  BY <1>1, <1>5 DEF PublishStops
<1>6. CASE Commit(j)
  BY <1>1, <1>6 DEF Commit, SetStatus, Status, Active, Terminal
<1>7. CASE EndTask(j)
  BY <1>1, <1>7 DEF EndTask, SetStatus, Status, Active, Terminal
<1>8. CASE Settle(j)
  BY <1>1, <1>8 DEF Settle, Removed, Refused, BrokenOff, Fails, disk, AdmissionAfter, Status, Active, Terminal
<1> QED BY <1>2, <1>3, <1>4, <1>5, <1>6, <1>7, <1>8

(* The requests about a job, and the retries of its deletion.                 *)
LEMMA RequestSteps ==
  ASSUME JobsInv, NEW j \in Job,
         \/ CancelTouch(j) \/ CancelJob(j) \/ DeleteTouch(j) \/ DeleteMarks(j)
         \/ DeleteWaits(j) \/ DeleteRemoves(j) \/ RetryDelete(j)
  PROVE  JobStep(j)
<1> USE DEF Asks, disk, sets, rest, JobInv, Fresh, Stages, Cancels, Registered, Committing
<1>1. Types /\ JobInv(j)
  BY DEF JobsInv
<1>2. CASE CancelTouch(j) \/ DeleteTouch(j)
  BY <1>1, <1>2 DEF CancelTouch, DeleteTouch
<1>3. CASE CancelJob(j)
  BY <1>1, <1>3 DEF CancelJob, SetStatus, Status, Active, Terminal
<1>4. CASE DeleteMarks(j)
  BY <1>1, <1>4 DEF DeleteMarks, SetStatus, Status, Active, Terminal
<1>5. CASE DeleteWaits(j)
  BY <1>1, <1>5 DEF DeleteWaits
<1>6. CASE DeleteRemoves(j) \/ RetryDelete(j)
  BY <1>1, <1>6 DEF DeleteRemoves, RetryDelete, Removed, Refused, BrokenOff, Fails, Status, Active, Terminal
<1> QED BY <1>2, <1>3, <1>4, <1>5, <1>6

(* The server concerns every job.                                             *)
LEMMA ServerSteps ==
  ASSUME JobsInv, Shutdown \/ Restart
  PROVE  JobsInv' /\ \A j \in Job : Ended(j)
<1>1. Types /\ \A j \in Job : JobInv(j)
  BY DEF JobsInv
<1>2. CASE Shutdown
  <2>1. Types' /\ \A j \in Job : Ended(j)
    BY <1>1, <1>2 DEF Shutdown, requests, sets, Terminal
  <2>2. ASSUME NEW j \in Job
        PROVE  JobInv(j)'
    BY <1>1, <1>2 DEF Shutdown, requests, sets, JobInv, Fresh, Stages, Cancels, Registered
  <2> QED BY <2>1, <2>2 DEF JobsInv
<1>3. CASE Restart
  <2>1. Types'
    BY <1>1, <1>3 DEF Restart, Status, Active, Terminal, TaskAt
  <2>2. ASSUME NEW j \in Job
        PROVE  JobInv(j)' /\ Ended(j)
    BY <1>1, <1>3 DEF Restart, JobInv, Fresh, Stages, Cancels, Registered, Committing,
           Status, Active, Terminal
  <2> QED BY <2>1, <2>2 DEF JobsInv
<1> QED BY <1>2, <1>3

LEMMA NextKeeps ==
  ASSUME JobsInv, [Next]_vars
  PROVE  JobsInv' /\ \A j \in Job : Ended(j)
<1>1. Types /\ \A j \in Job : JobInv(j)
  BY DEF JobsInv
<1>2. ASSUME NEW j \in Job, JobStep(j)
      PROVE  JobsInv' /\ \A i \in Job : Ended(i)
  <2>1. ASSUME NEW i \in Job
        PROVE  JobInv(i)' /\ Ended(i)
    BY <1>1, <1>2, <2>1, SameKeeps
  <2> QED BY <1>2, <2>1 DEF JobsInv
<1>3. CASE \E j \in Watched : CancelTouch(j) \/ DeleteTouch(j)
  BY <1>2, <1>3, RequestSteps, HeavyAssumption
<1>4. ASSUME NEW j \in Job,
             AdmitUpload(j) \/ Answer(j) \/ Run(j) \/ ReadForStage(j) \/ LeaveWork(j)
      PROVE  JobStep(j)
  BY <1>4, UploadSteps, TaskMoves, TaskWrites, RequestSteps DEF Answer, Run
<1>5. CASE UNCHANGED vars
  <2>1. ASSUME NEW i \in Job
        PROVE  JobInv(i)' /\ Ended(i)
    BY <1>1, <1>5, SameKeeps DEF vars, disk, requests, sets, rest
  <2> QED BY <1>1, <1>5, <2>1 DEF JobsInv, vars, disk, requests
<1> QED BY <1>2, <1>3, <1>4, <1>5, ServerSteps DEF Next

-----------------------------------------------------------------------------
LEMMA JobsInvariant == Spec => []JobsInv
BY InitHolds, NextKeeps, PTL DEF Spec

(* A job whose cancellation was answered while it had not ended never         *)
(* completes.                                                                 *)
THEOREM CancelAlwaysHonoured == Spec => []CancelIsHonoured
BY JobsInvariant, CancelFollows, PTL

(* No stage update, late cancel or restart changes a terminal status, unless  *)
(* the job is being deleted.                                                  *)
THEOREM EndedJobsStayEnded == Spec => EndedStaysEnded
<1>1. ASSUME JobsInv, [Next]_vars
      PROVE  [\A j \in Job :
                upload[j] = "done" /\ row[j] \in Terminal /\ j \notin deleted =>
                  row'[j] \in {row[j], "none"}]_vars
  BY <1>1, NextKeeps
<1> QED BY <1>1, JobsInvariant, PTL DEF Spec, EndedStaysEnded
=============================================================================
