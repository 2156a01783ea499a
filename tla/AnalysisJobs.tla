------------------------------ MODULE AnalysisJobs ------------------------------
(* The job manager of the backend (backend/app/jobs.py), its store            *)
(* (backend/app/store.py) and the upload that feeds it (backend/app/main.py). *)
(* All of it runs on one event loop that gives way at every await; the store  *)
(* runs in threads.                                                           *)
(*                                                                            *)
(* A section under the lock of a job is one step: between two of them only    *)
(* the unlocked steps (a marker, a stage update, a start) can fall, and for   *)
(* these it makes no difference when in the section they do.  Finishing a job *)
(* is the exception, because it looks at the marker again and again; it holds *)
(* the lock over several steps.                                               *)
EXTENDS Naturals, FiniteSets

CONSTANTS
  Job,
  Heavy,        \* jobs that need a GPU slot beside their worker slot
  Workers,      \* analysis_workers
  Gpus,         \* gpu_task_workers
  Pending,      \* max_pending_jobs
  MaxTries,     \* deletions a retry loop attempts
  Watched,      \* bound on the jobs somebody cancels or deletes
  MaxRequests,  \* bound on requests to cancel or to delete
  MaxFailures,  \* bound on attempts to delete that fail
  MaxRestarts   \* bound on shutdowns and crashes

ASSUME SlotsAssumption == Workers > 0 /\ Gpus > 0 /\ Pending > 0
ASSUME HeavyAssumption == Heavy \subseteq Job /\ Watched \subseteq Job

VARIABLES
  row,       \* status of the job in the table; "none" when there is no row
  media,     \* source.bin is in the directory of the job
  marker,    \* the cancellation marker exists
  upload,    \* where the upload request is
  task,      \* where the task of the job is; "none" before and after
  locked,    \* the task holds the lock of the job
  cancel,    \* where the cancel request is
  delete,    \* where the delete request is
  tries,     \* attempts its retry loop has left; 0 when there is no loop
  admitted,  \* admitted_jobs
  deleted,   \* deleted_jobs
  abandoned, \* the last deletion broke off, or its retries ran out (history)
  serving,   \* the server takes requests
  asked,     \* a cancel request has been answered for the job (history)
  calls, failures, restarts

disk == <<row, media, marker>>
requests == <<upload, cancel, delete, tries>>
sets == <<admitted, deleted, abandoned>>
rest == <<serving, asked, calls, failures, restarts>>
vars == <<disk, requests, task, locked, sets, rest>>

Active == {"queued", "active"}
Terminal == {"completed", "cancelled", "failed"}

Init ==
  /\ row = [j \in Job |-> "none"]
  /\ upload = [j \in Job |-> "new"]
  /\ task = [j \in Job |-> "none"]
  /\ cancel = [j \in Job |-> "idle"] /\ delete = [j \in Job |-> "idle"]
  /\ tries = [j \in Job |-> 0]
  /\ media = {} /\ marker = {} /\ locked = {}
  /\ admitted = {} /\ deleted = {} /\ abandoned = {} /\ asked = {}
  /\ serving = TRUE /\ calls = 0 /\ failures = 0 /\ restarts = 0

(* Mutant: a terminal status may be replaced. *)
MutantSetStatus(j, status) == [row EXCEPT ![j] = IF @ = "none" THEN @ ELSE status]

(* update_job in one go: a terminal status stays, a missing row is no row. *)
SetStatus(j, status) == [row EXCEPT ![j] = IF @ \in Active THEN status ELSE @]

Goto(j, where) == task' = [task EXCEPT ![j] = where]

(* self.tasks; the task leaves it before it is done. *)
Registered(j) == task[j] \notin {"none", "ending"}

HoldsGpu == {"working", "writing", "finalizing", "publishing", "committing",
             "cancelling", "failing", "closing"}
WorkerHolders == {j \in Job : task[j] \in HoldsGpu \cup {"opening", "gpu"}}
GpuHolders == {j \in Heavy : task[j] \in HoldsGpu}

-----------------------------------------------------------------------------
(* Upload *)

(* try_admit, and then create_job: before there is a row nobody knows the job. *)
AdmitUpload(j) ==
  /\ serving /\ upload[j] = "new" /\ Cardinality(admitted) < Pending
  /\ admitted' = admitted \cup {j}
  /\ row' = [row EXCEPT ![j] = "queued"]
  /\ upload' = [upload EXCEPT ![j] = "created"]
  /\ UNCHANGED <<media, marker, cancel, delete, tries, task, locked, deleted,
                 abandoned, rest>>

StreamUpload(j) ==
  /\ upload[j] = "created" /\ row[j] # "none"
  /\ media' = media \cup {j}
  /\ upload' = [upload EXCEPT ![j] = "streamed"]
  /\ UNCHANGED <<row, marker, cancel, delete, tries, task, locked, sets, rest>>

StartJob(j) ==
  /\ upload[j] = "streamed" /\ row[j] # "none"
  /\ upload' = [upload EXCEPT ![j] = "done"]
  /\ Goto(j, "queued")
  /\ UNCHANGED <<disk, cancel, delete, tries, locked, sets, rest>>

(* delete_job removes the archived analysis, the private files and the row,   *)
(* in this order, and ends in one of three ways; its callers say what else    *)
(* happens.  An attempt that fails may have removed the private files.        *)
Removed(j) ==
  /\ row' = [row EXCEPT ![j] = "none"]
  /\ media' = media \ {j}
  /\ UNCHANGED failures

Fails(j) ==
  /\ failures < MaxFailures /\ failures' = failures + 1
  /\ media' \in {media, media \ {j}}

(* A DeletionError: work that depends on the analysis has no snapshot yet, or *)
(* the file system keeps some of the private files.  Either may last.         *)
Refused(j) == Fails(j)

(* Any other exception: of the archive and its files, or of the table.        *)
BrokenOff(j) == Fails(j) /\ UNCHANGED row

(* _cleanup_rejected_upload, without the lock of the job.  Marking the row    *)
(* may fail, and a cancel that read the row earlier may overwrite the mark.   *)
RejectUpload(j) ==
  /\ upload[j] \in {"created", "streamed"}
  /\ upload' = [upload EXCEPT ![j] = "rejected"]
  /\ admitted' = admitted \ {j}
  /\ \/ Removed(j)
     \/ /\ Refused(j)
        /\ row' \in {row, [row EXCEPT ![j] = IF @ = "none" THEN @ ELSE "failed"]}
     \/ BrokenOff(j)
  /\ UNCHANGED <<marker, cancel, delete, tries, task, locked, deleted, abandoned,
                 serving, asked, calls, restarts>>

-----------------------------------------------------------------------------
(* The task of a job *)

(* Everything a task does to shared state but for the files it removes. *)
OnlyTask == UNCHANGED <<disk, requests, locked, sets, rest>>

TakeWorkerSlot(j) ==
  /\ task[j] = "queued" /\ Cardinality(WorkerHolders) < Workers
  /\ Goto(j, "opening") /\ OnlyTask

(* _cancel_queued_job removes the media first. *)
SeeCancelQueued(j) ==
  /\ task[j] = "queued" /\ j \in marker
  /\ Goto(j, "dropping") /\ media' = media \ {j}
  /\ UNCHANGED <<row, marker, requests, locked, sets, rest>>

OpenJob(j) ==
  /\ task[j] = "opening"
  /\ Goto(j, IF row[j] = "none" THEN "closing" ELSE IF j \in Heavy THEN "gpu" ELSE "working")
  /\ OnlyTask

(* The marker is not looked at while waiting. *)
TakeGpuSlot(j) ==
  /\ task[j] = "gpu" /\ Cardinality(GpuHolders) < Gpus
  /\ Goto(j, "working") /\ OnlyTask

(* A stage update is not under the lock of the job: update_job reads the row, *)
(* returns it when it is terminal, and writes it in another transaction.      *)
ReadForStage(j) ==
  /\ task[j] = "working" /\ row[j] \in Active
  /\ Goto(j, "writing") /\ OnlyTask

WriteStage(j) ==
  /\ task[j] = "writing"
  /\ row' = [row EXCEPT ![j] = IF @ = "none" THEN @ ELSE "active"]
  /\ Goto(j, IF row[j] = "none" THEN "failing" ELSE "working")
  /\ UNCHANGED <<media, marker, requests, locked, sets, rest>>

SeeCancel(j) ==
  /\ task[j] = "working" /\ j \in marker
  /\ Goto(j, "cancelling") /\ media' = media \ {j}
  /\ UNCHANGED <<row, marker, requests, locked, sets, rest>>

WorkFails(j) ==
  /\ task[j] = "working"
  /\ Goto(j, "failing") /\ media' = media \ {j}
  /\ UNCHANGED <<row, marker, requests, locked, sets, rest>>

WorkSucceeds(j) ==
  /\ task[j] = "working" /\ j \in media /\ j \notin marker
  /\ Goto(j, "finalizing") /\ OnlyTask

(* Mutant: only the in-memory set of deleted jobs is consulted. *)
MutantStillActive(j) == j \notin deleted

(* _ensure_job_active *)
StillActive(j) == j \notin deleted /\ j \notin marker

(* _finalize_success takes the lock and looks before every file it writes. *)
FinalizeSuccess(j) ==
  /\ task[j] = "finalizing" /\ j \notin locked
  /\ \/ /\ StillActive(j)
        /\ locked' = locked \cup {j} /\ Goto(j, "publishing")
        /\ UNCHANGED media
     \/ /\ ~StillActive(j)
        /\ Goto(j, "cancelling") /\ media' = media \ {j}
        /\ UNCHANGED locked
  /\ UNCHANGED <<row, marker, requests, sets, rest>>

Publish(j) ==
  /\ task[j] = "publishing" /\ StillActive(j) /\ row[j] # "none"
  /\ row' = SetStatus(j, "active")
  /\ Goto(j, "committing")
  /\ UNCHANGED <<media, marker, requests, locked, sets, rest>>

PublishStops(j) ==
  /\ task[j] = "publishing"
  /\ locked' = locked \ {j} /\ media' = media \ {j}
  /\ Goto(j, IF StillActive(j) THEN "failing" ELSE "cancelling")
  /\ UNCHANGED <<row, marker, requests, sets, rest>>

Commit(j) ==
  /\ task[j] = "committing"
  /\ locked' = locked \ {j}
  /\ row' = SetStatus(j, "completed")
  /\ Goto(j, IF row[j] = "none" THEN "failing" ELSE "closing")
  /\ UNCHANGED <<media, marker, requests, sets, rest>>

(* The handlers of _run_job_with_slot and _cancel_queued_job: a job that is   *)
(* being deleted keeps the status the deletion gave it.                       *)
EndTask(j) ==
  /\ task[j] \in {"dropping", "cancelling", "failing"} /\ j \notin locked
  /\ row' = IF j \in deleted THEN row
            ELSE SetStatus(j, IF task[j] = "failing" THEN "failed" ELSE "cancelled")
  /\ Goto(j, "closing")
  /\ UNCHANGED <<media, marker, requests, locked, sets, rest>>

(* The finally block of _run_job, up to the release of the admission. *)
Release(j) ==
  /\ task[j] = "closing"
  /\ Goto(j, "ending") /\ OnlyTask

(* Mutant: the admission is released only when the job was not deleted. *)
MutantAdmissionAfter(j) == IF j \in deleted THEN admitted ELSE admitted \ {j}

AdmissionAfter(j) == admitted \ {j}

(* An exception of the removal is the outcome of the task, and a deletion     *)
(* that waits for the task ends with it.                                      *)
Settle(j) ==
  /\ task[j] = "ending"
  /\ Goto(j, "none")
  /\ admitted' = AdmissionAfter(j)
  /\ \/ /\ j \notin deleted
        /\ marker' = marker \ {j}
        /\ UNCHANGED <<row, media, delete, deleted, abandoned, tries, failures>>
     \/ /\ j \in deleted
        /\ Removed(j) /\ marker' = marker \ {j} /\ deleted' = deleted \ {j}
        /\ tries' = [tries EXCEPT ![j] = 0]
        /\ abandoned' = abandoned \ {j} /\ UNCHANGED delete
     \/ /\ j \in deleted /\ Refused(j)
        /\ UNCHANGED <<row, marker, delete, deleted, abandoned, tries>>
     \/ /\ j \in deleted /\ BrokenOff(j)
        /\ abandoned' = abandoned \cup {j}
        /\ delete' = [delete EXCEPT ![j] = IF @ = "waiting" THEN "idle" ELSE @]
        /\ UNCHANGED <<marker, deleted, tries>>
  /\ UNCHANGED <<upload, cancel, locked, serving, asked, calls, restarts>>

-----------------------------------------------------------------------------
(* Requests about a job *)

Asks ==
  /\ calls < MaxRequests /\ calls' = calls + 1
  /\ UNCHANGED <<serving, asked, failures, restarts>>

CancelTouch(j) ==
  /\ serving /\ cancel[j] = "idle" /\ row[j] # "none"
  /\ marker' = marker \cup {j}
  /\ cancel' = [cancel EXCEPT ![j] = "touched"]
  /\ Asks
  /\ UNCHANGED <<row, media, upload, delete, tries, task, locked, sets>>

(* An active job with a task is left to the task; without one it is cancelled *)
(* here.  The answer is given when the task ends or after ten seconds.        *)
CancelJob(j) ==
  /\ cancel[j] = "touched" /\ j \notin locked
  /\ cancel' = [cancel EXCEPT ![j] = "idle"]
  /\ \/ /\ row[j] \notin Active
        /\ marker' = marker \ {j}
        /\ UNCHANGED <<row, media, asked>>
     \/ /\ row[j] \in Active /\ Registered(j)
        /\ asked' = asked \cup {j}
        /\ UNCHANGED <<row, media, marker>>
     \/ /\ row[j] \in Active /\ ~Registered(j)
        /\ asked' = asked \cup {j}
        /\ row' = SetStatus(j, "cancelled")
        /\ media' = media \ {j} /\ marker' = marker \ {j}
  /\ UNCHANGED <<upload, delete, tries, task, locked, sets,
                 serving, calls, failures, restarts>>

DeleteTouch(j) ==
  /\ serving /\ delete[j] = "idle" /\ row[j] # "none"
  /\ deleted' = deleted \cup {j} /\ abandoned' = abandoned \ {j}
  /\ marker' = marker \cup {j}
  /\ delete' = [delete EXCEPT ![j] = "touched"]
  /\ Asks
  /\ UNCHANGED <<row, media, upload, cancel, tries, task, locked,
                 admitted>>

DeleteMarks(j) ==
  /\ delete[j] = "touched" /\ j \notin locked
  /\ row' = SetStatus(j, "cancelled")
  /\ delete' = [delete EXCEPT ![j] = IF Registered(j) THEN "waiting" ELSE "ready"]
  /\ UNCHANGED <<media, marker, upload, cancel, tries, task, locked,
                 sets, rest>>

(* Mutant: a deletion that times out leaves it to the task. *)
MutantRetries(j) == tries

(* _schedule_delete_retry *)
Retries(j) == [tries EXCEPT ![j] = IF @ > 0 THEN @ ELSE MaxTries]

DeleteWaits(j) ==
  /\ delete[j] = "waiting"
  /\ \/ /\ task[j] = "none"
        /\ delete' = [delete EXCEPT ![j] = "ready"]
        /\ UNCHANGED tries
     \/ /\ task[j] # "none"
        /\ delete' = [delete EXCEPT ![j] = "idle"]
        /\ tries' = Retries(j)
  /\ UNCHANGED <<disk, upload, cancel, task, locked, sets, rest>>

(* Only a DeletionError schedules a retry. *)
DeleteRemoves(j) ==
  /\ delete[j] = "ready" /\ j \notin locked
  /\ delete' = [delete EXCEPT ![j] = "idle"]
  /\ \/ /\ Removed(j)
        /\ marker' = marker \ {j}
        /\ deleted' = deleted \ {j} /\ admitted' = admitted \ {j}
        /\ abandoned' = abandoned \ {j} /\ UNCHANGED tries
     \/ /\ Refused(j)
        /\ tries' = Retries(j)
        /\ UNCHANGED <<row, marker, sets>>
     \/ /\ BrokenOff(j)
        /\ abandoned' = abandoned \cup {j}
        /\ UNCHANGED <<marker, admitted, deleted, tries>>
  /\ UNCHANGED <<upload, cancel, task, locked, serving, asked, calls, restarts>>

(* One round of _delete_retry_loop; the task may still be running.  Any other *)
(* exception ends the loop, and so does the last refusal.                     *)
RetryDelete(j) ==
  /\ tries[j] > 0 /\ j \notin locked
  /\ \/ /\ Removed(j)
        /\ marker' = marker \ {j}
        /\ deleted' = deleted \ {j} /\ admitted' = admitted \ {j}
        /\ tries' = [tries EXCEPT ![j] = 0] /\ abandoned' = abandoned \ {j}
     \/ /\ Refused(j)
        /\ tries' = [tries EXCEPT ![j] = @ - 1]
        /\ abandoned' = IF tries[j] = 1 THEN abandoned \cup {j} ELSE abandoned
        /\ UNCHANGED <<row, marker, admitted, deleted>>
     \/ /\ BrokenOff(j)
        /\ tries' = [tries EXCEPT ![j] = 0]
        /\ abandoned' = abandoned \cup {j}
        /\ UNCHANGED <<marker, admitted, deleted>>
  /\ UNCHANGED <<upload, cancel, delete, task, locked, serving, asked, calls, restarts>>

-----------------------------------------------------------------------------
(* The server *)

Shutdown ==
  /\ serving /\ restarts < MaxRestarts
  /\ serving' = FALSE /\ restarts' = restarts + 1
  /\ marker' = marker \cup {j \in Job : Registered(j)}
  /\ UNCHANGED <<row, media, requests, task, locked, sets, asked,
                 calls, failures>>

(* The process ends, at once or some time into a shutdown, which cancels what *)
(* does not stop in five seconds; then startup runs: an active job is failed, *)
(* its media and its marker are removed.  What was in memory is forgotten.    *)
Restart ==
  /\ serving => restarts < MaxRestarts
  /\ restarts' = IF serving THEN restarts + 1 ELSE restarts
  /\ serving' = TRUE
  /\ row' = [j \in Job |-> IF row[j] \in Active THEN "failed" ELSE row[j]]
  /\ media' = {j \in media : row[j] \notin Active}
  /\ marker' = {j \in marker : row[j] \notin Active}
  /\ upload' = [j \in Job |-> IF upload[j] = "new" THEN "new" ELSE "done"]
  /\ task' = [j \in Job |-> "none"] /\ locked' = {}
  /\ cancel' = [j \in Job |-> "idle"] /\ delete' = [j \in Job |-> "idle"]
  /\ tries' = [j \in Job |-> 0]
  /\ admitted' = {} /\ deleted' = {} /\ abandoned' = {}
  /\ UNCHANGED <<asked, calls, failures>>

Answer(j) ==
  \/ StreamUpload(j) \/ StartJob(j) \/ RejectUpload(j)
  \/ CancelJob(j)
  \/ DeleteMarks(j) \/ DeleteWaits(j) \/ DeleteRemoves(j) \/ RetryDelete(j)

LeaveWork(j) == SeeCancel(j) \/ WorkFails(j) \/ WorkSucceeds(j)

Run(j) ==
  \/ TakeWorkerSlot(j) \/ SeeCancelQueued(j) \/ OpenJob(j) \/ TakeGpuSlot(j)
  \/ WriteStage(j) \/ FinalizeSuccess(j) \/ Publish(j) \/ PublishStops(j)
  \/ Commit(j) \/ EndTask(j) \/ Release(j) \/ Settle(j)

Next ==
  \/ \E j \in Watched : CancelTouch(j) \/ DeleteTouch(j)
  \/ \E j \in Job : AdmitUpload(j) \/ Answer(j) \/ Run(j) \/ ReadForStage(j) \/ LeaveWork(j)
  \/ Shutdown
  \/ Restart

Spec == Init /\ [][Next]_vars

(* The event loop runs every callback that is ready, and an analysis ends:    *)
(* it has a hard time limit, and the progress it reports is finite.           *)
Fairness ==
  \A j \in Job :
    /\ WF_vars(StreamUpload(j) \/ StartJob(j) \/ RejectUpload(j))
    /\ WF_vars(CancelJob(j))
    /\ WF_vars(DeleteMarks(j) \/ DeleteWaits(j) \/ DeleteRemoves(j))
    /\ WF_vars(RetryDelete(j))
    /\ WF_vars(Run(j))
    /\ SF_vars(LeaveWork(j))

FairSpec == Spec /\ Fairness

-----------------------------------------------------------------------------
(* Properties. *)

(* A job that has ended has ended: unless its upload was rejected, no stage   *)
(* update, no late cancel and no restart changes a terminal status, unless    *)
(* somebody asked for the job to be deleted.  (Stage updates are written      *)
(* without the lock of the job, from a row read earlier.)                     *)
EndedStaysEnded ==
  [][\A j \in Job :
       upload[j] = "done" /\ row[j] \in Terminal /\ j \notin deleted =>
         row'[j] \in {row[j], "none"}]_vars

(* When a cancel request has been answered for a job that had not ended, the  *)
(* job never completes, however far its task had come.                        *)
CancelIsHonoured == \A j \in Job : row[j] = "completed" => j \notin asked

(* Every job that was admitted or whose task runs comes to rest: the task     *)
(* ends, whatever it waits for and whoever cancels or deletes it, and its     *)
(* place among the pending jobs is given back.                                *)
JobsSettle ==
  \A j \in Job :
    (task[j] # "none" \/ j \in admitted) ~> (task[j] = "none" /\ j \notin admitted)

(* A deletion that was begun is carried through: by the request, by the task  *)
(* when it ends, or by the retries after the request gave up.  It is left     *)
(* lying only when one of its attempts broke off, or its retries ran out.     *)
(* (Nobody deletes a job outside Watched.)                                    *)
Abandoned(j) ==
  j \in abandoned /\ task[j] = "none" /\ delete[j] = "idle" /\ tries[j] = 0

DeletionCompletes ==
  \A j \in Watched : j \in deleted ~> (j \notin deleted \/ Abandoned(j))
=============================================================================
