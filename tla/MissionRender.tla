------------------------------ MODULE MissionRender ------------------------------
(* One production render of Mission Control: its job record                   *)
(* (backend/app/mission_control/service.py), the task that starts and watches *)
(* the render process (ProductionRenderer in .../renderers.py), and the       *)
(* process, render-trackprompt-final.ps1, which outlives the server and of    *)
(* which the server may have lost sight.  Process and server meet in three    *)
(* places: the render manifest, the stop marker and the exit code.            *)
(*                                                                            *)
(* Writing a record never suspends its coroutine, so from what it read to     *)
(* what it wrote a handler is one step; the lock of the jobs is held longer   *)
(* only while a chunk attempt is being killed.  A crash may come between the  *)
(* marker and the record.                                                     *)
EXTENDS Naturals

CONSTANTS
  Chunks,       \* chunks of the render
  Pid,          \* process identifiers
  MaxStarts,    \* bound on jobs created
  MaxRequests,  \* bound on the other requests of the operator
  MaxCrashes    \* bound on crashes of the server

ASSUME ChunksAssumption == Chunks \in Nat \ {0}

NoPid == 0
ASSUME PidAssumption == NoPid \notin Pid

VARIABLES
  job,     \* the job record
  watch,   \* the renderer task: where it is and the process it watches
  killing, \* retry_current_chunk holds the lock and waits for the process
  proc,    \* per process identifier: where the process is
  man,     \* the manifest: written at all, chunks indexed, current safe stop
  marker,  \* the stop marker is there
  up,      \* the server runs
  late,    \* chunks published since a stop or a cancel was accepted (history)
  torn,    \* the server died while it withdrew a stop (history)
  starts, requests, crashes

server == <<watch, killing, up>>
output == <<proc, man, marker>>
bounds == <<starts, requests, crashes>>
history == <<late, torn>>
vars == <<job, server, output, history, bounds>>

ActiveStates == {"STARTING", "RUNNING", "STOP_REQUESTED", "RETRY_REQUESTED",
                 "CANCEL_REQUESTED"}
Stopping == {"STOP_REQUESTED", "CANCEL_REQUESTED"}

NoTask == [at |-> "none", pid |-> NoPid]

Init ==
  /\ job = [state |-> "none", pid |-> NoPid, orphaned |-> FALSE,
            watched |-> FALSE, chunk |-> 0, published |-> 0]
  /\ watch = NoTask
  /\ killing = FALSE
  /\ proc = [p \in Pid |-> "none"]
  /\ man = [written |-> FALSE, done |-> 0, stopped |-> FALSE]
  /\ marker = FALSE
  /\ up = TRUE
  /\ late = 0 /\ torn = FALSE
  /\ starts = 0 /\ requests = 0 /\ crashes = 0

-----------------------------------------------------------------------------
(* The render process *)

HoldsMutex(p) == proc[p] \in {"ready", "rendering", "published"}
Alive(p) == p # NoPid /\ (HoldsMutex(p) \/ proc[p] = "booting")

(* A process that ends keeps its exit code for the task that watches it.      *)
Exit(p, code) ==
  proc' = [proc EXCEPT ![p] = IF watch.pid = p THEN code ELSE "none"]

ByProcess == UNCHANGED <<job, server, marker, bounds>>

(* Up to the initialisation of the manifest. *)
Boot(p) ==
  /\ proc[p] = "booting"
  /\ \/ /\ \E q \in Pid : HoldsMutex(q)
        /\ Exit(p, "failed") /\ UNCHANGED man
     \/ /\ \A q \in Pid : ~HoldsMutex(q)
        /\ man.done = Chunks
        /\ Exit(p, "succeeded") /\ UNCHANGED man
     \/ /\ \A q \in Pid : ~HoldsMutex(q)
        /\ man.done < Chunks
        /\ proc' = [proc EXCEPT ![p] = "ready"]
        /\ man' = [man EXCEPT !.written = TRUE, !.stopped = FALSE]
  /\ ByProcess /\ UNCHANGED history

(* Record-StopAfterCurrentChunk; the marker stays. *)
StopSafely(p) ==
  /\ proc[p] \in {"ready", "published"} /\ marker
  /\ man' = [man EXCEPT !.stopped = TRUE]
  /\ Exit(p, "succeeded")
  /\ ByProcess /\ UNCHANGED history

GoOn(p) ==
  /\ ~marker
  /\ \/ /\ proc[p] = "ready"
        /\ proc' = [proc EXCEPT ![p] = "rendering"]
     \/ /\ proc[p] = "published" /\ man.done < Chunks
        /\ proc' = [proc EXCEPT ![p] = "ready"]
     \/ /\ proc[p] = "published" /\ man.done = Chunks
        /\ Exit(p, "succeeded")
  /\ ByProcess /\ UNCHANGED <<man, history>>

Publish(p) ==
  /\ proc[p] = "rendering"
  /\ proc' = [proc EXCEPT ![p] = "published"]
  /\ man' = [man EXCEPT !.done = @ + 1, !.stopped = FALSE]
  /\ late' = IF job.state \in Stopping THEN late + 1 ELSE late
  /\ ByProcess /\ UNCHANGED torn

(* A chunk, a check or the machine fails. *)
ProcessFails(p) ==
  /\ Alive(p)
  /\ Exit(p, "failed")
  /\ ByProcess /\ UNCHANGED <<man, history>>

Process(p) == Boot(p) \/ StopSafely(p) \/ GoOn(p) \/ Publish(p)

-----------------------------------------------------------------------------
(* What the server concludes *)

(* inspect_render_artifacts of a manifest nobody tampered with. *)
Disposition ==
  IF ~man.written THEN "missing"
  ELSE IF man.done = Chunks THEN "complete"
  ELSE IF man.stopped THEN "paused" ELSE "resumable"

Resumable == Disposition \in {"resumable", "missing"}

(* The job has no process any more, and its progress is the manifest's. *)
Ended(state) ==
  [job EXCEPT !.state = state, !.pid = NoPid, !.orphaned = FALSE,
              !.watched = FALSE,
              !.published = IF man.written THEN man.done ELSE @]

(* The state of a job whose process ended unobserved: _recovered_dead_job,    *)
(* and _run_guarded when the process is dead.                                 *)
Unobserved ==
  IF Disposition = "complete" THEN "COMPLETE"
  ELSE IF job.state = "CANCEL_REQUESTED" /\ man.written THEN "CANCELLED"
  ELSE IF Disposition = "paused" THEN "PAUSED_SAFELY"
  ELSE "RESUMABLE"

(* _reconcile_exit *)
Outcome(code) ==
  IF job.state = "RETRY_REQUESTED"
    THEN IF Disposition = "complete" THEN "COMPLETE" ELSE "RETRY_REQUESTED"
  ELSE IF code = "failed" THEN "FAILED"
  ELSE IF Disposition = "complete" THEN "COMPLETE"
  ELSE IF Disposition # "paused" THEN "FAILED"
  ELSE IF job.state = "CANCEL_REQUESTED" THEN "CANCELLED"
  ELSE "PAUSED_SAFELY"

-----------------------------------------------------------------------------
(* The renderer task *)

ByTask == UNCHANGED <<killing, up, man, marker, history, bounds>>

(* create_subprocess_exec starts the process; or it cannot, and fail_job.     *)
Spawn ==
  /\ watch.at = "starting"
  /\ \/ \E p \in Pid :
          /\ proc[p] = "none"
          /\ proc' = [proc EXCEPT ![p] = "booting"]
          /\ watch' = [at |-> "spawned", pid |-> p]
          /\ UNCHANGED job
     \/ /\ job' = [job EXCEPT !.state = "FAILED", !.pid = NoPid, !.watched = FALSE]
        /\ watch' = NoTask
        /\ UNCHANGED proc
  /\ ByTask

(* The await returns, and the process is in the record from now on. *)
Adopt ==
  /\ watch.at = "spawned"
  /\ watch' = [watch EXCEPT !.at = "watching"]
  /\ job' = [job EXCEPT !.state = "RUNNING", !.pid = watch.pid, !.watched = TRUE]
  /\ ByTask /\ UNCHANGED proc

(* Lines of output are read in order, but perhaps long after they were        *)
(* written; the frames published are counted when a line is read.             *)
Observe ==
  /\ watch.at = "watching"
  /\ \E c \in job.chunk .. man.done + 1, n \in {job.published, man.done} :
       /\ c = man.done + 1 => proc[watch.pid] = "rendering"
       /\ c <= n + 1
       /\ job' = [job EXCEPT !.chunk = c, !.published = n]
  /\ ByTask /\ UNCHANGED <<watch, proc>>

Forget(p) == [proc EXCEPT ![p] = IF Alive(p) THEN @ ELSE "none"]

(* The process has ended and the task with it, unless it requeues a chunk. *)
Reconcile ==
  /\ watch.at = "watching" /\ ~Alive(watch.pid)
  /\ LET state == Outcome(proc[watch.pid])
     IN  /\ job' = Ended(state)
         /\ watch' = IF state = "RETRY_REQUESTED" THEN [NoTask EXCEPT !.at = "requeue"]
                     ELSE NoTask
  /\ proc' = Forget(watch.pid)
  /\ ByTask

(* An exception in the task: _run_guarded. *)
WatchFails ==
  /\ watch.at = "watching"
  /\ job' = IF Alive(watch.pid)
              THEN [job EXCEPT !.orphaned = TRUE, !.watched = FALSE]
              ELSE Ended(Unobserved)
  /\ watch' = NoTask
  /\ proc' = Forget(watch.pid)
  /\ ByTask

(* _restart_exact_job_locked, once it has accepted. *)
RestartJob ==
  /\ job' = Ended("STARTING")
  /\ watch' = [NoTask EXCEPT !.at = "starting"]
  /\ marker' = FALSE

(* restart_retry_current_chunk; when it raises the job fails. *)
Requeue ==
  /\ watch.at = "requeue" /\ ~killing
  /\ \/ /\ job.chunk > job.published /\ Resumable
        /\ RestartJob
     \/ /\ job.chunk > job.published /\ ~Resumable
        /\ job' = [job EXCEPT !.state = "FAILED"]
        /\ watch' = NoTask /\ UNCHANGED marker
     \/ /\ job.chunk <= job.published
        /\ job' = [job EXCEPT !.state = "RESUMABLE"]
        /\ watch' = NoTask /\ UNCHANGED marker
  /\ UNCHANGED <<killing, up, proc, man, history, bounds>>

(* _terminate_current_attempt returns: the attempt was killed or had ended by *)
(* itself, or it outlives the 15 seconds and the retry is withdrawn.          *)
KillEnds ==
  /\ killing
  /\ killing' = FALSE
  /\ \/ /\ Alive(job.pid)
        /\ Exit(job.pid, "failed")
        /\ UNCHANGED job
     \/ /\ ~Alive(job.pid)
        /\ UNCHANGED <<job, proc>>
     \/ /\ Alive(job.pid)
        /\ job' = [job EXCEPT !.state = IF @ = "RETRY_REQUESTED" THEN "RUNNING" ELSE @]
        /\ UNCHANGED proc
  /\ UNCHANGED <<watch, up, man, marker, history, bounds>>

Task == Spawn \/ Adopt \/ Reconcile \/ Requeue \/ KillEnds

-----------------------------------------------------------------------------
(* The operator.  Every handler takes the lock of the jobs.                   *)

Asked ==
  /\ up /\ ~killing
  /\ requests < MaxRequests /\ requests' = requests + 1
  /\ UNCHANGED <<up, proc, man, starts, crashes>>

(* A new job over the same output, whose marker may still be there. *)
StartRender ==
  /\ up /\ ~killing /\ starts < MaxStarts
  /\ job.state \notin ActiveStates
  /\ starts' = starts + 1
  /\ job' = [state |-> "STARTING", pid |-> NoPid, orphaned |-> FALSE,
             watched |-> FALSE, chunk |-> 0, published |-> 0]
  /\ watch' = [NoTask EXCEPT !.at = "starting"]
  /\ UNCHANGED <<killing, up, output, history, requests, crashes>>

RequestStop ==
  /\ Asked
  /\ job.state = "RUNNING" /\ man.written
  /\ job' = [job EXCEPT !.state = "STOP_REQUESTED"]
  /\ marker' = TRUE /\ late' = 0 /\ torn' = FALSE
  /\ UNCHANGED <<watch, killing>>

(* Mutant: a cancelled render may be continued. *)
MutantStopPending == job.state \in Stopping

StopPending == job.state = "STOP_REQUESTED"

CancelStop ==
  /\ Asked
  /\ StopPending
  /\ job' = [job EXCEPT !.state = "RUNNING"]
  /\ marker' = FALSE
  /\ UNCHANGED <<watch, killing, history>>

(* Mutant: the marker is left to the request to stop. *)
MutantMarked == marker

Marked == TRUE

CancelRender ==
  /\ Asked
  /\ \/ /\ job.state = "RUNNING" /\ man.written
        /\ marker' = Marked /\ late' = 0 /\ torn' = FALSE
     \/ /\ job.state = "STOP_REQUESTED"
        /\ UNCHANGED <<marker, history>>
  /\ job' = [job EXCEPT !.state = "CANCEL_REQUESTED"]
  /\ UNCHANGED <<watch, killing>>

Resume ==
  /\ Asked
  /\ job.state \in {"PAUSED_SAFELY", "RESUMABLE"}
  /\ RestartJob
  /\ UNCHANGED <<killing, history>>

RetryFailed ==
  /\ Asked
  /\ job.state = "FAILED" /\ Resumable
  /\ RestartJob
  /\ UNCHANGED <<killing, history>>

(* When the process has ended unseen the request is refused, but the record   *)
(* keeps it.                                                                  *)
RetryCurrentChunk ==
  /\ Asked
  /\ job.state = "RUNNING" /\ job.watched
  /\ job.chunk # 0 /\ job.chunk > job.published
  /\ job' = [job EXCEPT !.state = "RETRY_REQUESTED"]
  /\ killing' = Alive(job.pid)
  /\ UNCHANGED <<watch, marker, history>>

Operator ==
  \/ StartRender \/ RequestStop \/ CancelStop \/ CancelRender
  \/ Resume \/ RetryFailed \/ RetryCurrentChunk

-----------------------------------------------------------------------------
(* The server *)

(* Mutant: only jobs without a process are taken for orphans. *)
MutantOrphaned == ~Alive(job.pid)

Orphaned == TRUE

(* _recover_jobs *)
Startup ==
  /\ ~up /\ up' = TRUE
  /\ job' = IF job.state \notin ActiveStates THEN job
            ELSE IF Alive(job.pid)
              THEN [job EXCEPT !.orphaned = Orphaned, !.watched = FALSE]
              ELSE Ended(Unobserved)
  /\ UNCHANGED <<watch, killing, output, history, bounds>>

(* _reconcile_orphaned_jobs_locked, once a second. *)
MonitorOrphans ==
  /\ up /\ ~killing
  /\ job.orphaned /\ job.state \in ActiveStates /\ ~Alive(job.pid)
  /\ job' = Ended(Unobserved)
  /\ UNCHANGED <<server, output, history, bounds>>

(* The server dies; perhaps when it has written or removed the marker of a    *)
(* request but not yet the record.                                            *)
Crash ==
  /\ up /\ crashes < MaxCrashes
  /\ crashes' = crashes + 1
  /\ up' = FALSE /\ killing' = FALSE /\ watch' = NoTask
  /\ proc' = [p \in Pid |-> IF Alive(p) THEN proc[p] ELSE "none"]
  /\ \/ UNCHANGED <<marker, torn>>
     \/ /\ job.state = "RUNNING" /\ man.written /\ ~killing
        /\ marker' = TRUE /\ UNCHANGED torn
     \/ /\ job.state = "STOP_REQUESTED" /\ ~killing
        /\ marker' = FALSE /\ torn' = TRUE
  /\ UNCHANGED <<job, man, late, starts, requests>>

Next ==
  \/ \E p \in Pid : Process(p) \/ ProcessFails(p)
  \/ Task \/ Observe \/ WatchFails
  \/ Operator
  \/ Startup \/ MonitorOrphans \/ Crash

Spec == Init /\ [][Next]_vars

(* Blender ends every chunk, the event loop runs what is ready, the monitor   *)
(* comes round, and a server that died is started again.                      *)
Fairness ==
  /\ \A p \in Pid : WF_vars(Process(p))
  /\ WF_vars(Task)
  /\ WF_vars(MonitorOrphans)
  /\ WF_vars(Startup)

FairSpec == Spec /\ Fairness

-----------------------------------------------------------------------------
(* Properties. *)

(* "Stop after current chunk" means that chunk: from the moment a stop or a   *)
(* cancel is accepted until the job ends, at most one more chunk is           *)
(* published, whichever process publishes it and whatever the server forgets; *)
(* unless it died between removing the marker of a stop that was being        *)
(* withdrawn and recording so, since then a cancel finds the record, and      *)
(* writes no marker again.                                                    *)
StopIsPrompt == job.state \in Stopping /\ ~torn => late <= 1

(* An accepted cancel is not lost: the job is cancelled, or it had been       *)
(* completed, or its process failed; it never pauses or renders on as if      *)
(* nobody had cancelled it.  A job is complete only with a complete manifest, *)
(* and neither complete nor cancelled jobs ever move again.                   *)
CancelSticks ==
  [][/\ job.state = "CANCEL_REQUESTED" =>
          job'.state \in {"CANCEL_REQUESTED", "CANCELLED", "COMPLETE", "FAILED"}
     /\ job.state \in {"COMPLETE", "CANCELLED"} =>
          job'.state = job.state \/ starts' > starts
     /\ job'.state = "COMPLETE" => man'.done = Chunks]_vars

(* No render stays active for ever: whatever the operator asks, whenever the  *)
(* server dies and whether or not it knows its process, the job ends, and     *)
(* another one may be started.                                                *)
RenderEnds == job.state \in ActiveStates ~> job.state \notin ActiveStates
=============================================================================
