-------------------------- MODULE MissionRenderProofs --------------------------
(* A stop is prompt and a cancel sticks, for every number of chunks,          *)
(* processes, jobs, requests and crashes.                                     *)
EXTENDS MissionRender, TLAPS

Inactive == {"none", "FAILED", "COMPLETE", "CANCELLED", "PAUSED_SAFELY", "RESUMABLE"}
AnyPid == Pid \cup {NoPid}
JobRow == [state : ActiveStates \cup Inactive, pid : AnyPid, orphaned : BOOLEAN,
           watched : BOOLEAN, chunk : Nat, published : Nat]
WatchRow == [at : {"none", "starting", "spawned", "watching", "requeue"}, pid : AnyPid]
Manifest == [written : BOOLEAN, done : Nat, stopped : BOOLEAN]
ProcState == {"none", "booting", "ready", "rendering", "published", "failed", "succeeded"}

Types ==
  /\ job \in JobRow /\ watch \in WatchRow /\ man \in Manifest
  /\ proc \in [Pid -> ProcState]
  /\ marker \in BOOLEAN /\ up \in BOOLEAN /\ killing \in BOOLEAN /\ torn \in BOOLEAN
  /\ late \in Nat /\ starts \in Nat

(* One process at a time holds the mutex, and it has a chunk left to render   *)
(* unless it has just published one.                                          *)
Exclusive ==
  /\ \A p, q \in Pid : HoldsMutex(p) /\ HoldsMutex(q) => p = q
  /\ \A p \in Pid : proc[p] \in {"ready", "rendering"} => man.done < Chunks

(* While a stop is pending the marker is there, so once a chunk was published *)
(* nobody renders another one.                                                *)
Prompt ==
  job.state \in Stopping =>
    /\ man.written
    /\ ~torn => /\ marker /\ late <= 1
                /\ late = 1 => \A p \in Pid : proc[p] # "rendering"

(* The renderer task and the record agree: the task lives in a server that    *)
(* is up, over a job that is active and known, and has no record of a process *)
(* before it adopted one and after it let go of one.                          *)
TaskAgrees ==
  /\ watch.at # "none" => up /\ ~job.orphaned
  /\ watch.at \in {"starting", "spawned"} => job.state = "STARTING"
  /\ watch.at = "requeue" => job.state = "RETRY_REQUESTED" /\ job.pid = NoPid
  /\ watch.at = "watching" => job.state \in ActiveStates
  /\ watch.at \in {"spawned", "watching"} => watch.pid \in Pid

CompleteIsDone == job.state = "COMPLETE" => man.done = Chunks

MissionInv == Types /\ Exclusive /\ Prompt /\ TaskAgrees /\ CompleteIsDone

Sticks ==
  /\ job.state = "CANCEL_REQUESTED" =>
       job'.state \in {"CANCEL_REQUESTED", "CANCELLED", "COMPLETE", "FAILED"}
  /\ job.state \in {"COMPLETE", "CANCELLED"} =>
       job'.state = job.state \/ starts' > starts
  /\ job'.state = "COMPLETE" => man'.done = Chunks

LEMMA StopFollows == MissionInv => StopIsPrompt
BY DEF MissionInv, Prompt, StopIsPrompt

LEMMA InitHolds == Init => MissionInv
<1> SUFFICES ASSUME Init PROVE MissionInv
  OBVIOUS
<1>1. /\ job \in JobRow /\ job.state = "none" /\ ~job.orphaned
      /\ watch \in WatchRow /\ watch.at = "none"
  BY DEF Init, JobRow, Inactive, WatchRow, NoTask, AnyPid
<1>2. man \in Manifest /\ proc \in [Pid -> ProcState] /\ \A p \in Pid : proc[p] = "none"
  BY DEF Init, Manifest, ProcState
<1>3. Types
  BY <1>1, <1>2 DEF Init, Types
<1>4. Exclusive
  BY <1>2 DEF Exclusive, HoldsMutex
<1> QED BY <1>1, <1>3, <1>4 DEF MissionInv, Prompt, Stopping, TaskAgrees, CompleteIsDone

-----------------------------------------------------------------------------
(* What the process does to itself and to the manifest.                       *)

LEMMA ExitFacts ==
  ASSUME Types, NEW p \in Pid, NEW code \in {"failed", "succeeded"}, Exit(p, code)
  PROVE  /\ proc' \in [Pid -> ProcState] /\ ~HoldsMutex(p)'
         /\ proc'[p] \in {"none", "failed", "succeeded"}
         /\ \A q \in Pid \ {p} : proc'[q] = proc[q]
BY DEF Types, Exit, ProcState, HoldsMutex

(* Processes that only leave, or move on without a chunk to render, leave all *)
(* of the invariant as it was.                                                *)
LEMMA ProcessesLeave ==
  ASSUME MissionInv, proc' \in [Pid -> ProcState],
         \A p \in Pid : proc'[p] = proc[p]
                          \/ proc'[p] \in {"none", "booting", "failed", "succeeded"},
         man' \in Manifest, man'.done = man.done
  PROVE  Exclusive'
BY DEF MissionInv, Exclusive, HoldsMutex

(* The record, the task and the server are left alone. *)
LEMMA RecordKept ==
  ASSUME MissionInv, ByProcess, late' \in Nat, torn' = torn, proc' \in [Pid -> ProcState],
         man' \in Manifest, man.written => man'.written, Exclusive',
         job.state \in Stopping /\ ~torn =>
            late' <= 1 /\ (late' = 1 => \A p \in Pid : proc'[p] # "rendering"),
         job.state = "COMPLETE" => man'.done = man.done
  PROVE  MissionInv' /\ Sticks
BY DEF MissionInv, Types, ByProcess, server, bounds, Prompt, TaskAgrees, CompleteIsDone, Sticks

LEMMA ProcessSteps ==
  ASSUME MissionInv, NEW p \in Pid, Process(p) \/ ProcessFails(p)
  PROVE  MissionInv' /\ Sticks
<1>1. /\ Types /\ Exclusive /\ man \in Manifest /\ proc \in [Pid -> ProcState]
      /\ late \in Nat /\ man.done \in Nat
  BY DEF MissionInv, Types, Manifest
<1>2. ASSUME NEW code \in {"failed", "succeeded"}, Exit(p, code), ByProcess,
             UNCHANGED history, man' \in Manifest, man'.done = man.done,
             man.written => man'.written
      PROVE  MissionInv' /\ Sticks
  <2>1. /\ proc' \in [Pid -> ProcState] /\ proc'[p] \in {"none", "failed", "succeeded"}
        /\ \A q \in Pid \ {p} : proc'[q] = proc[q]
    BY <1>1, <1>2, ExitFacts
  <2>2. Exclusive'
    BY <1>2, <2>1, ProcessesLeave
  <2>3. job.state \in Stopping /\ ~torn =>
          late <= 1 /\ (late = 1 => \A q \in Pid : proc'[q] # "rendering")
    BY <2>1 DEF MissionInv, Prompt
  <2> QED BY <1>1, <1>2, <2>1, <2>2, <2>3, RecordKept DEF history
<1>3. ASSUME NEW where \in {"ready", "rendering"},
             proc' = [proc EXCEPT ![p] = where],
             ByProcess, UNCHANGED history,
             HoldsMutex(p) \/ \A q \in Pid : ~HoldsMutex(q),
             man.done < Chunks, man' \in Manifest, man'.done = man.done,
             man.written => man'.written,
             where = "rendering" => ~marker
      PROVE  MissionInv' /\ Sticks
  <2>1. /\ proc' \in [Pid -> ProcState] /\ proc'[p] = where
        /\ \A q \in Pid \ {p} : proc'[q] = proc[q]
    BY <1>1, <1>3 DEF ProcState
  <2>2. Exclusive'
    BY <1>1, <1>3, <2>1 DEF Exclusive, HoldsMutex
  <2>3. job.state \in Stopping /\ ~torn =>
          late <= 1 /\ (late = 1 => \A q \in Pid : proc'[q] # "rendering")
    BY <1>3, <2>1 DEF MissionInv, Prompt
  <2> QED BY <1>1, <1>3, <2>1, <2>2, <2>3, RecordKept DEF history
<1>4. CASE Boot(p)
  <2>1. CASE Exit(p, "failed") /\ man' = man
    BY <1>1, <1>2, <1>4, <2>1 DEF Boot
  <2>2. CASE Exit(p, "succeeded") /\ man' = man
    BY <1>1, <1>2, <1>4, <2>2 DEF Boot
  <2>3. CASE /\ proc' = [proc EXCEPT ![p] = "ready"] /\ man.done < Chunks
             /\ \A q \in Pid : ~HoldsMutex(q)
             /\ man' = [man EXCEPT !.written = TRUE, !.stopped = FALSE]
    <3>1. man' \in Manifest /\ man'.done = man.done /\ man'.written
      BY <1>1, <2>3 DEF Manifest
    <3> QED BY <1>3, <1>4, <2>3, <3>1 DEF Boot
  <2> QED BY <1>4, <2>1, <2>2, <2>3 DEF Boot
<1>5. CASE StopSafely(p)
  <2>1. man' \in Manifest /\ man'.done = man.done /\ man'.written = man.written
    BY <1>1, <1>5 DEF StopSafely, Manifest
  <2> QED BY <1>2, <1>5, <2>1 DEF StopSafely
<1>6. CASE GoOn(p)
  <2>1. CASE proc[p] = "ready" /\ proc' = [proc EXCEPT ![p] = "rendering"]
    <3>1. HoldsMutex(p) /\ man.done < Chunks
      BY <1>1, <2>1 DEF Exclusive, HoldsMutex
    <3> QED BY <1>1, <1>3, <1>6, <2>1, <3>1 DEF GoOn
  <2>2. CASE /\ proc[p] = "published" /\ man.done < Chunks
             /\ proc' = [proc EXCEPT ![p] = "ready"]
    BY <1>1, <1>3, <1>6, <2>2 DEF GoOn, HoldsMutex
  <2>3. CASE Exit(p, "succeeded")
    BY <1>1, <1>2, <1>6, <2>3 DEF GoOn
  <2> QED BY <1>6, <2>1, <2>2, <2>3 DEF GoOn
<1>7. CASE Publish(p)
  <2>1. /\ proc' \in [Pid -> ProcState] /\ proc'[p] = "published" /\ proc[p] = "rendering"
        /\ \A q \in Pid \ {p} : proc'[q] = proc[q]
    BY <1>1, <1>7 DEF Publish, ProcState
  <2>2. \A q \in Pid \ {p} : ~HoldsMutex(q)
    BY <1>1, <2>1 DEF Exclusive, HoldsMutex
  <2>3. man' \in Manifest /\ man'.done = man.done + 1 /\ man'.written = man.written
    <3> DEFINE n == man.done + 1
    <3>1. n \in Nat /\ man' = [man EXCEPT !.done = n, !.stopped = FALSE]
      BY <1>1, <1>7 DEF Publish
    <3> HIDE DEF n
    <3>2. man' \in Manifest /\ man'.done = n /\ man'.written = man.written
      BY <1>1, <3>1 DEF Manifest
    <3> QED BY <3>2 DEF n
  <2>4. \A q \in Pid : proc'[q] \notin {"ready", "rendering"}
    BY <2>1, <2>2 DEF HoldsMutex
  <2>5. Exclusive'
    BY <2>1, <2>2, <2>4 DEF Exclusive, HoldsMutex
  <2>6. man.done < Chunks
    BY <1>1, <2>1 DEF Exclusive
  <2>7. job.state # "COMPLETE"
    BY <1>1, <2>6, ChunksAssumption DEF MissionInv, CompleteIsDone
  <2>8. /\ late' \in Nat
        /\ job.state \in Stopping /\ ~torn => late' <= 1
    <3>1. job.state \in Stopping /\ ~torn => late = 0
      BY <1>1, <2>1 DEF MissionInv, Prompt
    <3>2. late' = IF job.state \in Stopping THEN late + 1 ELSE late
      BY <1>7 DEF Publish
    <3> QED BY <1>1, <3>1, <3>2
  <2> QED BY <1>7, <2>1, <2>3, <2>4, <2>5, <2>7, <2>8, RecordKept DEF Publish
<1>8. CASE ProcessFails(p)
  BY <1>1, <1>2, <1>8 DEF ProcessFails
<1> QED BY <1>4, <1>5, <1>6, <1>7, <1>8 DEF Process

-----------------------------------------------------------------------------
(* What the server does.                                                      *)

(* Steps of the server leave the manifest, and start or stop processes only.  *)
Leaving ==
  /\ proc' \in [Pid -> ProcState]
  /\ \A p \in Pid : proc'[p] = proc[p]
                      \/ proc'[p] \in {"none", "booting", "failed", "succeeded"}

(* A stop that is pending afterwards is a new one, or the one there was.      *)
StopPrepared ==
  job'.state \in Stopping =>
    /\ man.written
    /\ ~torn' => /\ marker'
                 /\ late' = 0 \/ (job.state \in Stopping /\ ~torn /\ late' = late)

LEMMA ServerKeeps ==
  ASSUME MissionInv, Leaving, man' = man, StopPrepared, TaskAgrees',
         job' \in JobRow, watch' \in WatchRow, marker' \in BOOLEAN, up' \in BOOLEAN,
         killing' \in BOOLEAN, torn' \in BOOLEAN, late' \in Nat, starts' \in Nat,
         job'.state = "COMPLETE" => man.done = Chunks
  PROVE  MissionInv'
<1>1. Exclusive'
  BY ProcessesLeave DEF Leaving, MissionInv, Types
<1>2. Types'
  BY DEF MissionInv, Types, Leaving
<1>3. CompleteIsDone'
  BY DEF CompleteIsDone
<1>4. ASSUME job'.state \in Stopping
      PROVE  /\ man'.written
             /\ ~torn' => /\ marker' /\ late' <= 1
                          /\ late' = 1 => \A p \in Pid : proc'[p] # "rendering"
  <2>1. /\ man.written
        /\ ~torn' => marker' /\ (late' = 0 \/ (job.state \in Stopping /\ ~torn /\ late' = late))
    BY <1>4 DEF StopPrepared
  <2>2. job.state \in Stopping /\ ~torn =>
          late <= 1 /\ (late = 1 => \A p \in Pid : proc[p] # "rendering")
    BY DEF MissionInv, Prompt
  <2>3. \A p \in Pid : proc[p] # "rendering" => proc'[p] # "rendering"
    BY DEF Leaving
  <2> QED BY <2>1, <2>2, <2>3
<1>5. Prompt'
  BY <1>4 DEF Prompt
<1> QED BY <1>1, <1>2, <1>3, <1>5 DEF MissionInv

LEMMA EndedFacts ==
  ASSUME MissionInv, NEW state \in ActiveStates \cup Inactive
  PROVE  /\ Ended(state) \in JobRow /\ Ended(state).state = state
         /\ Ended(state).pid = NoPid /\ Ended(state).orphaned = FALSE
<1>1. job \in JobRow /\ man \in Manifest
  BY DEF MissionInv, Types
<1> QED BY <1>1 DEF Ended, JobRow, Manifest, AnyPid

LEMMA DispositionFacts ==
  /\ Disposition \in {"missing", "complete", "paused", "resumable"}
  /\ Disposition = "complete" => man.done = Chunks
BY DEF Disposition

LEMMA UnobservedFacts ==
  /\ Unobserved \in {"COMPLETE", "CANCELLED", "PAUSED_SAFELY", "RESUMABLE"}
  /\ Unobserved = "COMPLETE" => man.done = Chunks
  /\ job.state = "CANCEL_REQUESTED" /\ man.written => Unobserved \in {"COMPLETE", "CANCELLED"}
BY DispositionFacts DEF Unobserved

LEMMA OutcomeFacts ==
  ASSUME NEW code
  PROVE  /\ Outcome(code) \in {"COMPLETE", "RETRY_REQUESTED", "FAILED", "CANCELLED",
                                "PAUSED_SAFELY"}
         /\ Outcome(code) = "COMPLETE" => man.done = Chunks
         /\ job.state = "CANCEL_REQUESTED" => Outcome(code) \in {"COMPLETE", "CANCELLED", "FAILED"}
BY DispositionFacts DEF Outcome

LEMMA StateNames ==
  /\ ActiveStates = {"STARTING", "RUNNING", "STOP_REQUESTED", "RETRY_REQUESTED",
                      "CANCEL_REQUESTED"}
  /\ Stopping = {"STOP_REQUESTED", "CANCEL_REQUESTED"}
  /\ Inactive = {"none", "FAILED", "COMPLETE", "CANCELLED", "PAUSED_SAFELY", "RESUMABLE"}
BY DEF ActiveStates, Stopping, Inactive

(* The job ends, or goes back to its start, whatever the task was doing.      *)
LEMMA JobEnds ==
  ASSUME MissionInv, Leaving, man' = man, UNCHANGED <<up, torn, late, starts>>,
         marker' \in BOOLEAN, killing' \in BOOLEAN, watch' \in WatchRow,
         NEW state \in (ActiveStates \cup Inactive) \ Stopping, job' = Ended(state),
         state = "COMPLETE" => man.done = Chunks,
         \/ watch'.at = "none"
         \/ watch'.at = "requeue" /\ state = "RETRY_REQUESTED" /\ up
         \/ watch'.at = "starting" /\ state = "STARTING" /\ up
  PROVE  MissionInv'
<1>1. /\ job' \in JobRow /\ job'.state = state /\ job'.pid = NoPid
      /\ job'.orphaned = FALSE
  BY EndedFacts
<1>2. TaskAgrees'
  BY <1>1 DEF TaskAgrees
<1>3. StopPrepared
  BY <1>1 DEF StopPrepared
<1> QED BY <1>1, <1>2, <1>3, ServerKeeps DEF MissionInv, Types

(* Only the state of the record changes, to one the job may be in under the   *)
(* task there is.                                                             *)
LEMMA StateChanges ==
  ASSUME MissionInv, Leaving, man' = man, UNCHANGED <<watch, up, starts>>,
         marker' \in BOOLEAN, killing' \in BOOLEAN, torn' \in BOOLEAN, late' \in Nat,
         NEW state \in ActiveStates, job' = [job EXCEPT !.state = state],
         job.state \in ActiveStates, StopPrepared,
         watch.at \in {"starting", "spawned", "requeue"} => state = job.state
  PROVE  MissionInv'
<1>1. job \in JobRow /\ starts \in Nat /\ up \in BOOLEAN /\ watch \in WatchRow
  BY DEF MissionInv, Types
<1>2. /\ job' \in JobRow /\ job'.state = state /\ job'.pid = job.pid
      /\ job'.orphaned = job.orphaned
  BY <1>1 DEF JobRow
<1>3. TaskAgrees'
  BY <1>2 DEF MissionInv, TaskAgrees
<1>4. state # "COMPLETE"
  BY DEF ActiveStates
<1> QED BY <1>1, <1>2, <1>3, <1>4, ServerKeeps

LEMMA ForgetLeaves ==
  ASSUME MissionInv, NEW p, proc' = Forget(p)
  PROVE  Leaving
BY DEF MissionInv, Types, Forget, Leaving, ProcState

LEMMA TaskSteps ==
  ASSUME MissionInv, Spawn \/ Adopt \/ Observe \/ Reconcile \/ WatchFails \/ Requeue
  PROVE  MissionInv' /\ Sticks
<1>1. /\ Types /\ job \in JobRow /\ watch \in WatchRow /\ man \in Manifest
      /\ TaskAgrees /\ proc \in [Pid -> ProcState] /\ man.done \in Nat
      /\ proc' = proc => Leaving
      /\ NoTask \in WatchRow /\ NoTask.at = "none"
  BY DEF MissionInv, Types, Leaving, Manifest, NoTask, WatchRow, AnyPid
<1> USE StateNames
<1>2. CASE Spawn
  <2>1. /\ job.state = "STARTING" /\ ~job.orphaned /\ up
        /\ man' = man /\ UNCHANGED <<killing, up, torn, late, starts, marker>>
    BY <1>1, <1>2 DEF Spawn, ByTask, TaskAgrees, history, bounds
  <2>2. ASSUME NEW p \in Pid, proc' = [proc EXCEPT ![p] = "booting"],
               watch' = [at |-> "spawned", pid |-> p], job' = job
        PROVE  MissionInv' /\ Sticks
    <3>1. Leaving /\ watch' \in WatchRow
      BY <1>1, <2>2 DEF Leaving, ProcState, WatchRow, AnyPid
    <3>2. TaskAgrees' /\ StopPrepared
      BY <2>1, <2>2 DEF TaskAgrees, StopPrepared
    <3>3. MissionInv'
      BY <1>1, <2>1, <2>2, <3>1, <3>2, ServerKeeps DEF Types
    <3> QED BY <2>1, <2>2, <3>3 DEF Sticks
  <2>3. ASSUME job' = [job EXCEPT !.state = "FAILED", !.pid = NoPid, !.watched = FALSE],
               watch' = NoTask, proc' = proc
        PROVE  MissionInv' /\ Sticks
    <3>1. job' \in JobRow /\ job'.state = "FAILED" /\ watch'.at = "none"
      BY <1>1, <2>3 DEF JobRow, AnyPid
    <3>2. TaskAgrees' /\ StopPrepared
      BY <3>1 DEF TaskAgrees, StopPrepared
    <3>3. MissionInv'
      BY <1>1, <2>1, <2>3, <3>1, <3>2, ServerKeeps DEF Types
    <3> QED BY <2>1, <3>1, <3>3 DEF Sticks
  <2> QED BY <1>2, <2>2, <2>3 DEF Spawn
<1>3. CASE Adopt
  <2>1. /\ job.state = "STARTING" /\ ~job.orphaned /\ up /\ watch.pid \in Pid
        /\ man' = man /\ proc' = proc /\ UNCHANGED <<killing, up, torn, late, starts, marker>>
    BY <1>1, <1>3 DEF Adopt, ByTask, TaskAgrees, history, bounds
  <2>2. /\ watch' \in WatchRow /\ watch'.at = "watching" /\ watch'.pid = watch.pid
        /\ job' \in JobRow /\ job'.state = "RUNNING" /\ job'.orphaned = job.orphaned
    BY <1>1, <1>3 DEF Adopt, WatchRow, JobRow
  <2>3. TaskAgrees' /\ StopPrepared
    BY <2>1, <2>2 DEF TaskAgrees, StopPrepared
  <2>4. MissionInv'
    BY <1>1, <2>1, <2>2, <2>3, ServerKeeps DEF Types
  <2> QED BY <2>1, <2>2, <2>4 DEF Sticks
<1>4. CASE Observe
  <2>1. /\ man' = man /\ proc' = proc /\ watch' = watch
        /\ UNCHANGED <<killing, up, torn, late, starts, marker>>
    BY <1>4 DEF Observe, ByTask, history, bounds
  <2>2. PICK c \in job.chunk .. man.done + 1, n \in {job.published, man.done} :
          job' = [job EXCEPT !.chunk = c, !.published = n]
    BY <1>4 DEF Observe
  <2>3. c \in Nat /\ n \in Nat
    BY <1>1 DEF JobRow
  <2>4. /\ job' \in JobRow /\ job'.state = job.state /\ job'.pid = job.pid
        /\ job'.orphaned = job.orphaned
    BY <1>1, <2>2, <2>3 DEF JobRow
  <2>5. TaskAgrees' /\ StopPrepared
    BY <1>1, <2>1, <2>4 DEF TaskAgrees, StopPrepared, MissionInv, Prompt
  <2>6. job.state = "COMPLETE" => man.done = Chunks
    BY DEF MissionInv, CompleteIsDone
  <2>7. MissionInv'
    BY <1>1, <2>1, <2>4, <2>5, <2>6, ServerKeeps DEF Types
  <2> QED BY <2>1, <2>4, <2>6, <2>7 DEF Sticks
<1>5. CASE Reconcile
  <2> DEFINE state == Outcome(proc[watch.pid])
  <2>1. /\ state \in (ActiveStates \cup Inactive) \ Stopping
        /\ state = "COMPLETE" => man.done = Chunks
        /\ job.state = "CANCEL_REQUESTED" => state \in {"COMPLETE", "CANCELLED", "FAILED"}
    BY OutcomeFacts
  <2>2. /\ job' = Ended(state) /\ proc' = Forget(watch.pid)
        /\ watch' = IF state = "RETRY_REQUESTED" THEN [NoTask EXCEPT !.at = "requeue"]
                    ELSE NoTask
        /\ job.state \in ActiveStates /\ up
        /\ man' = man /\ UNCHANGED <<killing, up, torn, late, starts, marker>>
    BY <1>1, <1>5 DEF Reconcile, ByTask, history, bounds, TaskAgrees
  <2> HIDE DEF state
  <2>3. /\ watch' \in WatchRow
        /\ watch'.at = "none" \/ (watch'.at = "requeue" /\ state = "RETRY_REQUESTED")
    BY <1>1, <2>2 DEF WatchRow
  <2>4. Leaving
    BY <2>2, ForgetLeaves
  <2>5. MissionInv'
    BY <1>1, <2>1, <2>2, <2>3, <2>4, JobEnds DEF Types
  <2>6. job'.state = state
    BY <2>1, <2>2, EndedFacts
  <2> QED BY <2>1, <2>2, <2>5, <2>6 DEF Sticks
<1>6. CASE WatchFails
  <2>1. /\ job.state \in ActiveStates /\ up /\ watch' = NoTask /\ Leaving
        /\ man' = man /\ UNCHANGED <<killing, up, torn, late, starts, marker>>
    BY <1>1, <1>6, ForgetLeaves DEF WatchFails, ByTask, history, bounds, TaskAgrees
  <2>2. CASE job' = [job EXCEPT !.orphaned = TRUE, !.watched = FALSE]
    <3>1. job' \in JobRow /\ job'.state = job.state
      BY <1>1, <2>2 DEF JobRow
    <3>2. TaskAgrees' /\ StopPrepared
      BY <1>1, <2>1, <3>1 DEF TaskAgrees, StopPrepared, MissionInv, Prompt
    <3>3. MissionInv'
      BY <1>1, <2>1, <3>1, <3>2, ServerKeeps DEF Types
    <3> QED BY <2>1, <3>1, <3>3 DEF Sticks
  <2>3. CASE job' = Ended(Unobserved)
    <3>1. /\ Unobserved \in (ActiveStates \cup Inactive) \ Stopping
          /\ Unobserved = "COMPLETE" => man.done = Chunks
          /\ job.state = "CANCEL_REQUESTED" => Unobserved \in {"COMPLETE", "CANCELLED"}
      BY UnobservedFacts DEF MissionInv, Prompt
    <3>2. MissionInv'
      BY <1>1, <2>1, <2>3, <3>1, JobEnds DEF Types
    <3>3. job'.state = Unobserved
      BY <2>3, <3>1, EndedFacts
    <3> QED BY <2>1, <3>1, <3>2, <3>3 DEF Sticks
  <2> QED BY <1>6, <2>2, <2>3 DEF WatchFails
<1>7. CASE Requeue
  <2>1. /\ job.state = "RETRY_REQUESTED" /\ up /\ ~job.orphaned
        /\ man' = man /\ proc' = proc /\ UNCHANGED <<killing, up, torn, late, starts>>
    BY <1>1, <1>7 DEF Requeue, history, bounds, TaskAgrees
  <2>2. CASE RestartJob
    <3>1. /\ job' = Ended("STARTING") /\ marker' = FALSE /\ watch' \in WatchRow
          /\ watch'.at = "starting"
      BY <1>1, <2>2 DEF RestartJob, WatchRow
    <3>2. MissionInv'
      BY <1>1, <2>1, <3>1, JobEnds DEF Types
    <3>3. job'.state = "STARTING"
      BY <3>1, EndedFacts
    <3> QED BY <2>1, <3>2, <3>3 DEF Sticks
  <2>3. ASSUME NEW state \in {"FAILED", "RESUMABLE"},
               job' = [job EXCEPT !.state = state], watch' = NoTask, marker' = marker
        PROVE  MissionInv' /\ Sticks
    <3>1. job' \in JobRow /\ job'.state = state
      BY <1>1, <2>3 DEF JobRow
    <3>2. TaskAgrees' /\ StopPrepared
      BY <1>1, <2>3, <3>1 DEF TaskAgrees, StopPrepared
    <3>3. MissionInv'
      BY <1>1, <2>1, <2>3, <3>1, <3>2, ServerKeeps DEF Types
    <3> QED BY <2>1, <3>1, <3>3 DEF Sticks
  <2> QED BY <1>7, <2>2, <2>3 DEF Requeue
<1> QED BY <1>2, <1>3, <1>4, <1>5, <1>6, <1>7

LEMMA KillEndsStep ==
  ASSUME MissionInv, KillEnds
  PROVE  MissionInv' /\ Sticks
<1>1. /\ Types /\ job \in JobRow /\ TaskAgrees /\ proc \in [Pid -> ProcState]
      /\ proc' = proc => Leaving
      /\ man' = man /\ killing' = FALSE /\ UNCHANGED <<watch, up, torn, late, starts, marker>>
  BY DEF MissionInv, Types, Leaving, KillEnds, history, bounds
<1>2. job.state = "COMPLETE" => man.done = Chunks
  BY DEF MissionInv, CompleteIsDone
<1> USE StateNames
<1>3. CASE Alive(job.pid) /\ Exit(job.pid, "failed") /\ job' = job
  <2>1. job.pid \in Pid
    BY <1>1, <1>3 DEF Alive, JobRow, AnyPid
  <2>2. Leaving
    BY <1>1, <1>3, <2>1, ExitFacts DEF Leaving
  <2>3. TaskAgrees' /\ StopPrepared
    BY <1>1, <1>3 DEF TaskAgrees, StopPrepared, MissionInv, Prompt
  <2>4. MissionInv'
    BY <1>1, <1>2, <1>3, <2>2, <2>3, ServerKeeps DEF Types
  <2> QED BY <1>1, <1>2, <1>3, <2>4 DEF Sticks
<1>4. CASE UNCHANGED <<job, proc>>
  <2>1. TaskAgrees' /\ StopPrepared
    BY <1>1, <1>4 DEF TaskAgrees, StopPrepared, MissionInv, Prompt
  <2>2. MissionInv'
    BY <1>1, <1>2, <1>4, <2>1, ServerKeeps DEF Types
  <2> QED BY <1>1, <1>2, <1>4, <2>2 DEF Sticks
<1>5. CASE /\ Alive(job.pid) /\ proc' = proc
           /\ job' = [job EXCEPT !.state = IF @ = "RETRY_REQUESTED" THEN "RUNNING" ELSE @]
  <2>1. /\ job' \in JobRow /\ job'.pid = job.pid /\ job'.orphaned = job.orphaned
        /\ \/ job.state = "RETRY_REQUESTED" /\ job'.state = "RUNNING"
           \/ job'.state = job.state
    BY <1>1, <1>5 DEF JobRow
  <2>2. job.pid # NoPid
    BY <1>5 DEF Alive
  <2>3. TaskAgrees' /\ StopPrepared
    BY <1>1, <2>1, <2>2 DEF TaskAgrees, StopPrepared, MissionInv, Prompt
  <2>4. MissionInv'
    BY <1>1, <1>2, <1>5, <2>1, <2>3, ServerKeeps DEF Types
  <2> QED BY <1>1, <1>2, <2>1, <2>4 DEF Sticks
<1> QED BY <1>3, <1>4, <1>5 DEF KillEnds

(* The operator's requests.                                                   *)
LEMMA OperatorSteps ==
  ASSUME MissionInv, Operator
  PROVE  MissionInv' /\ Sticks
<1>1. /\ Types /\ job \in JobRow /\ watch \in WatchRow /\ TaskAgrees
      /\ proc \in [Pid -> ProcState] /\ starts \in Nat
      /\ proc' = proc => Leaving
  BY DEF MissionInv, Types, Leaving
<1> USE StateNames
<1>2. CASE StartRender
  <2>1. /\ job' = [state |-> "STARTING", pid |-> NoPid, orphaned |-> FALSE,
                   watched |-> FALSE, chunk |-> 0, published |-> 0]
        /\ watch' = [NoTask EXCEPT !.at = "starting"]
        /\ starts' = starts + 1 /\ up
        /\ proc' = proc /\ man' = man /\ UNCHANGED <<killing, up, marker, torn, late>>
    BY <1>2 DEF StartRender, output, history
  <2>2. job' \in JobRow /\ job'.state = "STARTING" /\ ~job'.orphaned
    BY <2>1 DEF JobRow, AnyPid
  <2>3. watch' \in WatchRow /\ watch'.at = "starting"
    BY <2>1 DEF WatchRow, NoTask, AnyPid
  <2>4. TaskAgrees' /\ StopPrepared
    BY <2>1, <2>2, <2>3 DEF TaskAgrees, StopPrepared
  <2>5. job.state \notin ActiveStates /\ starts' > starts /\ starts' \in Nat
    BY <1>1, <1>2, <2>1 DEF StartRender
  <2>6. MissionInv'
    BY <1>1, <2>1, <2>2, <2>3, <2>4, <2>5, ServerKeeps DEF Types
  <2> QED BY <2>2, <2>5, <2>6 DEF Sticks
<1>3. ASSUME Asked
      PROVE  /\ up /\ proc' = proc /\ man' = man /\ starts' = starts /\ up' = up
             /\ Leaving
  BY <1>1, <1>3 DEF Asked
<1>4. CASE RequestStop
  <2>1. /\ Asked /\ man.written /\ job.state = "RUNNING"
        /\ job' = [job EXCEPT !.state = "STOP_REQUESTED"]
        /\ marker' = TRUE /\ late' = 0 /\ torn' = FALSE /\ UNCHANGED <<watch, killing>>
    BY <1>4 DEF RequestStop
  <2>2. job'.state = "STOP_REQUESTED"
    BY <1>1, <2>1 DEF JobRow
  <2>3. StopPrepared
    BY <2>1 DEF StopPrepared
  <2>4. watch.at \notin {"starting", "spawned", "requeue"}
    BY <1>1, <2>1 DEF TaskAgrees
  <2>5. MissionInv'
    BY <1>1, <1>3, <2>1, <2>3, <2>4, StateChanges DEF Types
  <2> QED BY <2>1, <2>2, <2>5 DEF Sticks
<1>5. CASE CancelStop
  <2>1. /\ Asked /\ job.state = "STOP_REQUESTED" /\ job' = [job EXCEPT !.state = "RUNNING"]
        /\ marker' = FALSE /\ UNCHANGED <<watch, killing, late, torn>>
    BY <1>5 DEF CancelStop, StopPending, history
  <2>2. job'.state = "RUNNING"
    BY <1>1, <2>1 DEF JobRow
  <2>3. StopPrepared
    BY <2>2 DEF StopPrepared
  <2>4. watch.at \notin {"starting", "spawned", "requeue"}
    BY <1>1, <2>1 DEF TaskAgrees
  <2>5. MissionInv'
    BY <1>1, <1>3, <2>1, <2>3, <2>4, StateChanges DEF Types
  <2> QED BY <2>1, <2>2, <2>5 DEF Sticks
<1>6. CASE CancelRender
  <2>1. /\ Asked /\ job' = [job EXCEPT !.state = "CANCEL_REQUESTED"]
        /\ UNCHANGED <<watch, killing>>
        /\ \/ /\ job.state = "RUNNING" /\ man.written
              /\ marker' = TRUE /\ late' = 0 /\ torn' = FALSE
           \/ /\ job.state = "STOP_REQUESTED"
              /\ UNCHANGED <<marker, late, torn>>
    BY <1>6 DEF CancelRender, Marked, history
  <2>2. job'.state = "CANCEL_REQUESTED"
    BY <1>1, <2>1 DEF JobRow
  <2>3. StopPrepared
    BY <2>1 DEF StopPrepared, MissionInv, Prompt
  <2>4. watch.at \notin {"starting", "spawned", "requeue"}
    BY <1>1, <2>1 DEF TaskAgrees
  <2>5. /\ marker' \in BOOLEAN /\ killing' \in BOOLEAN /\ torn' \in BOOLEAN /\ late' \in Nat
        /\ job.state \in ActiveStates /\ UNCHANGED <<watch, up, starts>>
        /\ Leaving /\ man' = man
    <3>1. marker \in BOOLEAN /\ torn \in BOOLEAN /\ killing \in BOOLEAN /\ late \in Nat
      BY <1>1 DEF Types
    <3>2. marker' \in BOOLEAN /\ torn' \in BOOLEAN /\ late' \in Nat
      <4>1. CASE UNCHANGED <<marker, late, torn>>
        BY <3>1, <4>1
      <4>2. CASE marker' = TRUE /\ late' = 0 /\ torn' = FALSE
        BY <4>2
      <4> QED BY <2>1, <4>1, <4>2
    <3>3. job.state \in ActiveStates
      BY <2>1
    <3> QED BY <1>3, <2>1, <3>1, <3>2, <3>3
  <2>6. MissionInv'
    BY <2>1, <2>3, <2>4, <2>5, StateChanges
  <2> QED BY <2>1, <2>2, <2>6 DEF Sticks
<1>7. CASE Resume \/ RetryFailed
  <2>1. /\ Asked /\ RestartJob /\ UNCHANGED <<killing, late, torn>>
        /\ job.state \in {"PAUSED_SAFELY", "RESUMABLE", "FAILED"}
    BY <1>7 DEF Resume, RetryFailed, history
  <2>2. /\ job' = Ended("STARTING") /\ marker' = FALSE
        /\ watch' \in WatchRow /\ watch'.at = "starting"
    BY <2>1 DEF RestartJob, WatchRow, NoTask, AnyPid
  <2>3. MissionInv'
    BY <1>1, <1>3, <2>1, <2>2, JobEnds DEF Types
  <2>4. job'.state = "STARTING"
    BY <2>2, EndedFacts
  <2> QED BY <2>1, <2>3, <2>4 DEF Sticks
<1>8. CASE RetryCurrentChunk
  <2>1. /\ Asked /\ job.state = "RUNNING" /\ job' = [job EXCEPT !.state = "RETRY_REQUESTED"]
        /\ killing' \in BOOLEAN /\ UNCHANGED <<watch, marker, late, torn>>
    BY <1>8 DEF RetryCurrentChunk, history, Alive
  <2>2. job'.state = "RETRY_REQUESTED"
    BY <1>1, <2>1 DEF JobRow
  <2>3. StopPrepared
    BY <2>2 DEF StopPrepared
  <2>4. watch.at \notin {"starting", "spawned", "requeue"}
    BY <1>1, <2>1 DEF TaskAgrees
  <2>5. MissionInv'
    BY <1>1, <1>3, <2>1, <2>3, <2>4, StateChanges DEF Types
  <2> QED BY <2>1, <2>2, <2>5 DEF Sticks
<1> QED BY <1>2, <1>4, <1>5, <1>6, <1>7, <1>8 DEF Operator

(* Startup, the monitor of the orphans, and the crash.                        *)
LEMMA RecoverySteps ==
  ASSUME MissionInv, Startup \/ MonitorOrphans \/ Crash
  PROVE  MissionInv' /\ Sticks
<1>1. /\ Types /\ job \in JobRow /\ watch \in WatchRow /\ TaskAgrees
      /\ proc \in [Pid -> ProcState]
      /\ proc' = proc => Leaving
  BY DEF MissionInv, Types, Leaving
<1>2. job.state = "COMPLETE" => man.done = Chunks
  BY DEF MissionInv, CompleteIsDone
<1> USE StateNames
<1>3. /\ Unobserved \in (ActiveStates \cup Inactive) \ Stopping
      /\ Unobserved = "COMPLETE" => man.done = Chunks
      /\ job.state = "CANCEL_REQUESTED" => Unobserved \in {"COMPLETE", "CANCELLED"}
  BY UnobservedFacts DEF MissionInv, Prompt
<1>4. ASSUME job' = Ended(Unobserved), watch' = watch, watch.at = "none", proc' = proc,
             man' = man, job.state \in ActiveStates, UNCHANGED <<killing, marker, torn, late, starts>>,
             up' \in BOOLEAN
      PROVE  MissionInv' /\ Sticks
  <2>1. job' \in JobRow /\ job'.state = Unobserved
    BY <1>3, <1>4, EndedFacts
  <2>2. TaskAgrees' /\ StopPrepared
    BY <1>3, <1>4, <2>1 DEF TaskAgrees, StopPrepared
  <2>3. MissionInv'
    BY <1>1, <1>3, <1>4, <2>1, <2>2, ServerKeeps DEF Types
  <2> QED BY <1>3, <1>4, <2>1, <2>3 DEF Sticks
<1>5. ASSUME job' \in JobRow, job'.state = job.state, watch' \in WatchRow, watch'.at = "none",
             Leaving, man' = man, up' \in BOOLEAN, killing' \in BOOLEAN,
             UNCHANGED <<late, starts>>, marker' \in BOOLEAN,
             \/ marker' = marker /\ torn' = torn
             \/ job.state = "RUNNING" /\ torn' = torn
             \/ torn' = TRUE
      PROVE  MissionInv' /\ Sticks
  <2>1. TaskAgrees' /\ StopPrepared
    BY <1>5 DEF TaskAgrees, StopPrepared, MissionInv, Prompt
  <2>2. torn' \in BOOLEAN /\ late' \in Nat /\ starts' \in Nat
    BY <1>1, <1>5 DEF Types
  <2>3. MissionInv'
    BY <1>2, <1>5, <2>1, <2>2, ServerKeeps
  <2> QED BY <1>2, <1>5, <2>3 DEF Sticks
<1>6. CASE Startup
  <2>1. /\ watch.at = "none" /\ watch' = watch /\ up' = TRUE /\ proc' = proc /\ man' = man
        /\ UNCHANGED <<killing, marker, torn, late, starts>>
    BY <1>1, <1>6 DEF Startup, TaskAgrees, output, history, bounds
  <2>2. CASE job' = job
    BY <1>1, <1>5, <2>1, <2>2 DEF Types
  <2>3. CASE job' = [job EXCEPT !.orphaned = Orphaned, !.watched = FALSE]
    <3>1. job' \in JobRow /\ job'.state = job.state
      BY <1>1, <2>3 DEF JobRow, Orphaned
    <3> QED BY <1>1, <1>5, <2>1, <3>1 DEF Types
  <2> QED BY <1>4, <1>6, <2>1, <2>2, <2>3 DEF Startup
<1>7. CASE MonitorOrphans
  <2>1. /\ watch.at = "none" /\ watch' = watch /\ up' \in BOOLEAN /\ proc' = proc /\ man' = man
        /\ UNCHANGED <<killing, marker, torn, late, starts>>
    BY <1>1, <1>7 DEF MonitorOrphans, TaskAgrees, server, output, history, bounds, Types
  <2> QED BY <1>4, <1>7, <2>1 DEF MonitorOrphans
<1>8. CASE Crash
  <2>1. /\ watch' \in WatchRow /\ watch'.at = "none" /\ up' = FALSE /\ killing' = FALSE
        /\ job' = job /\ man' = man /\ UNCHANGED <<late, starts>>
    BY <1>8 DEF Crash, NoTask, WatchRow, AnyPid
  <2>2. Leaving
    BY <1>1, <1>8 DEF Crash, Leaving, ProcState
  <2>3. /\ marker' \in BOOLEAN
        /\ \/ marker' = marker /\ torn' = torn
           \/ job.state = "RUNNING" /\ torn' = torn
           \/ torn' = TRUE
    BY <1>1, <1>8 DEF Crash, Types
  <2> QED BY <1>1, <1>5, <2>1, <2>2, <2>3
<1> QED BY <1>6, <1>7, <1>8

LEMMA NextKeeps ==
  ASSUME MissionInv, [Next]_vars
  PROVE  MissionInv' /\ (Sticks \/ UNCHANGED vars)
<1>1. CASE UNCHANGED vars
  BY <1>1 DEF vars, server, output, history, bounds, MissionInv, Types, Exclusive, HoldsMutex,
     Prompt, TaskAgrees, CompleteIsDone
<1> QED BY <1>1, ProcessSteps, TaskSteps, KillEndsStep, OperatorSteps, RecoverySteps
        DEF Next, Task

-----------------------------------------------------------------------------
LEMMA MissionInvariant == Spec => []MissionInv
BY InitHolds, NextKeeps, PTL DEF Spec

(* From the acceptance of a stop or a cancel to the end of the job at most    *)
(* one more chunk is published, unless the server died while it withdrew a    *)
(* stop.                                                                      *)
THEOREM StopsArePrompt == Spec => []StopIsPrompt
BY MissionInvariant, StopFollows, PTL

(* A cancelled job is never continued, complete and cancelled jobs stay what  *)
(* they are, and a job is complete only with a complete manifest.             *)
THEOREM CancelsStick == Spec => CancelSticks
<1>1. ASSUME MissionInv, [Next]_vars
      PROVE  [/\ job.state = "CANCEL_REQUESTED" =>
                   job'.state \in {"CANCEL_REQUESTED", "CANCELLED", "COMPLETE", "FAILED"}
              /\ job.state \in {"COMPLETE", "CANCELLED"} =>
                   job'.state = job.state \/ starts' > starts
              /\ job'.state = "COMPLETE" => man'.done = Chunks]_vars
  BY <1>1, NextKeeps DEF Sticks
<1> QED BY <1>1, MissionInvariant, PTL DEF Spec, CancelSticks
=============================================================================
