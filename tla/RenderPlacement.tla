---------------------------- MODULE RenderPlacement ----------------------------
(* The render scheduler with the workers that use it: for each worker the     *)
(* program run_once of backend/app/mission_control/local_worker.py, which     *)
(* awaits at every call, and the render process it starts.  A call carries    *)
(* the time it was made at, which may lie MaxLag ticks back when it gets the  *)
(* lock of the jobs and the transaction.                                      *)
EXTENDS RenderTaskScheduler

CONSTANTS
  Silence,   \* heartbeat_interval_seconds and what a call takes, in ticks
  MaxLag,    \* bound on how old the time of a call is
  MaxClock,  \* bound on the time
  MaxLeases  \* bound on the leases granted

(* LocalSubprocessRenderWorker.__init__ refuses anything else. *)
ASSUME SilenceAssumption ==
  Silence \in Nat /\ Silence < LeaseTerm /\ Silence < WorkerTimeout
ASSUME LagAssumption == MaxLag \in Nat

VARIABLES
  db,     \* the tables
  clock,
  run     \* per worker: where run_once is, its lease, its last renewal

vars == <<db, clock, run>>

Idle == [at |-> "idle", lease |-> 0, beat |-> 0]

Init ==
  /\ db = EmptyTables
  /\ clock = 0
  /\ run = [w \in Worker |-> Idle]

Now == {n \in clock - MaxLag .. clock : n >= 0}

(* The tables a transaction at time now sees once it has reaped. *)
Reaped(now) == Reap(db, now)

(* When the process has ended, the time of the last renewal is read no more.  *)
Goto(w, where) ==
  run' = [run EXCEPT ![w].at = where,
                     ![w].beat = IF where \in {"succeeded", "reporting"} THEN 0 ELSE @]
Return(w) == run' = [run EXCEPT ![w] = Idle]

(* Time passes whatever the workers do: an event loop may be blocked. *)
Tick ==
  /\ clock < MaxClock
  /\ clock' = clock + 1
  /\ UNCHANGED <<db, run>>

-----------------------------------------------------------------------------
(* Operations other clients of the scheduler call. *)

SubmitTask(t) == db' = Submit(db, t) /\ UNCHANGED <<clock, run>>

ReapExpired ==
  /\ \E now \in Now : db' = Reaped(now)
  /\ UNCHANGED <<clock, run>>

RetireWorker(w) ==
  /\ db.worker[w].status # "none"
  /\ db' = Retire(db, w)
  /\ UNCHANGED <<clock, run>>

HeartbeatWorker(w) ==
  /\ \E now \in Now : /\ Reaped(now).worker[w].status = "active"
                      /\ db' = BeatWorker(Reaped(now), w, now)
  /\ UNCHANGED <<clock, run>>

(* fail_task without a retry, which run_once never asks for. *)
GiveUp(w) ==
  /\ run[w].at = "reporting"
  /\ \E now \in Now : /\ IsActive(Reaped(now), run[w].lease)
                      /\ db' = Fail(Reaped(now), run[w].lease, FALSE)
  /\ Return(w)
  /\ UNCHANGED clock

-----------------------------------------------------------------------------
(* run_once *)

(* register_render_worker.  A refused registration ends the call. *)
RegisterWorker(w) ==
  /\ run[w].at = "idle"
  /\ \E now \in Now, cap \in Capability :
       /\ MayRegister(Reaped(now), w, cap)
       /\ db' = Register(Reaped(now), w, cap, now)
       /\ run' = [run EXCEPT ![w] = [at |-> "registered", lease |-> 0, beat |-> now]]
  /\ UNCHANGED clock

(* claim_render_task, with the timestamp of the registration. *)
ClaimTask(w) ==
  LET now == run[w].beat
  IN  /\ run[w].at = "registered"
      /\ MayClaim(Reaped(now), w, now)
      /\ \/ /\ Candidates(Reaped(now), w) = {}
            /\ db' = Reaped(now)
            /\ Return(w)
         \/ /\ Len(db.lease) < MaxLeases
            /\ \E t \in Selected(Reaped(now), w) : db' = Claim(Reaped(now), w, t, now)
            /\ run' = [run EXCEPT ![w] = [@ EXCEPT !.at = "claimed",
                                                   !.lease = Len(db.lease) + 1]]
      /\ UNCHANGED clock

(* The claim raises: the worker has been retired or lost meanwhile. *)
ClaimRefused(w) ==
  /\ run[w].at = "registered"
  /\ ~MayClaim(Reaped(run[w].beat), w, run[w].beat)
  /\ Return(w)
  /\ UNCHANGED <<db, clock>>

(* command_builder.build raises. *)
BuildFails(w) ==
  /\ run[w].at = "claimed"
  /\ Goto(w, "reporting")
  /\ UNCHANGED <<db, clock>>

StartTask(w) ==
  /\ run[w].at = "claimed"
  /\ \E now \in Now :
       IF IsActive(Reaped(now), run[w].lease)
         THEN db' = Start(Reaped(now), run[w].lease) /\ Goto(w, "started")
         ELSE UNCHANGED db /\ Return(w)
  /\ UNCHANGED clock

(* process_factory starts the process, or raises. *)
Spawn(w) ==
  /\ run[w].at = "started"
  /\ Goto(w, "running") \/ Goto(w, "reporting")
  /\ UNCHANGED <<db, clock>>

(* Mutant: a heartbeat that is refused is tried again. *)
MutantHeartbeat(w) ==
  /\ run[w].at = "running"
  /\ \E now \in Now :
       db' = IF IsActive(Reaped(now), run[w].lease)
               THEN BeatLease(Reaped(now), run[w].lease, now) ELSE db
  /\ run' = [run EXCEPT ![w].beat = clock]
  /\ UNCHANGED clock

(* One round of _monitor_process; a refused heartbeat ends the monitoring. *)
Heartbeat(w) ==
  /\ run[w].at = "running"
  /\ \E now \in Now :
       IF IsActive(Reaped(now), run[w].lease)
         THEN /\ db' = BeatLease(Reaped(now), run[w].lease, now)
              /\ run' = [run EXCEPT ![w].beat = now]
         ELSE UNCHANGED db /\ Goto(w, "stopping")
  /\ UNCHANGED clock

(* The task takes too long, run_once is cancelled, or the control plane fails. *)
Abandon(w) ==
  /\ run[w].at = "running"
  /\ Goto(w, "stopping")
  /\ UNCHANGED <<db, clock>>

(* process_terminator returns; or the process exits by itself. *)
Terminated(w) ==
  /\ run[w].at = "stopping"
  /\ Goto(w, "reporting")
  /\ UNCHANGED <<db, clock>>

ProcessExits(w) ==
  /\ run[w].at = "running"
  /\ Goto(w, "succeeded") \/ Goto(w, "reporting")
  /\ UNCHANGED <<db, clock>>

CompleteTask(w) ==
  /\ run[w].at = "succeeded"
  /\ \E now \in Now :
       db' = IF MayComplete(Reaped(now), run[w].lease)
               THEN Complete(Reaped(now), run[w].lease) ELSE db
  /\ Return(w)
  /\ UNCHANGED clock

FailTask(w) ==
  /\ run[w].at = "reporting"
  /\ \E now \in Now :
       db' = IF IsActive(Reaped(now), run[w].lease)
               THEN Fail(Reaped(now), run[w].lease, TRUE) ELSE db
  /\ Return(w)
  /\ UNCHANGED clock

(* The worker's machine stops, the render process with it. *)
Crash(w) ==
  /\ run[w].at # "idle"
  /\ Return(w)
  /\ UNCHANGED <<db, clock>>

RunOnce(w) ==
  \/ RegisterWorker(w) \/ ClaimTask(w) \/ ClaimRefused(w)
  \/ BuildFails(w) \/ StartTask(w) \/ Spawn(w)
  \/ Heartbeat(w) \/ Abandon(w) \/ Terminated(w) \/ ProcessExits(w)
  \/ CompleteTask(w) \/ FailTask(w) \/ Crash(w)

Next ==
  \/ Tick
  \/ \E t \in Task : SubmitTask(t)
  \/ ReapExpired
  \/ \E w \in Worker : RetireWorker(w) \/ HeartbeatWorker(w) \/ GiveUp(w)
  \/ \E w \in Worker : RunOnce(w)

Spec == Init /\ [][Next]_vars

-----------------------------------------------------------------------------
(* Properties. *)

TypeOK ==
  /\ db.worker \in [Worker -> [status : WorkerStatus, expires : Nat,
                               cap : Capability \cup {NoCapability}]]
  /\ db.owner \in [Device -> Worker \cup {NoWorker}]
  /\ db.task \in [Task -> [state : TaskState, attempt : Nat, lease : Nat,
                           worker : Worker \cup {NoWorker}, completed : Nat]]
  /\ \A l \in DOMAIN db.lease :
       db.lease[l] \in [task : Task, worker : Worker, attempt : Nat \ {0},
                        device : Device \cup {NoDevice}, state : LeaseState,
                        expires : Nat]
  /\ run \in [Worker -> [lease : Nat, beat : Nat, at :
       {"idle", "registered", "claimed", "started", "running", "stopping",
        "succeeded", "reporting"}]]

(* Whatever was lost, retired, restarted or requeued in between, a task is    *)
(* leased or running exactly when one active lease names it, and that lease   *)
(* is of its current attempt, of an active worker and, for a GPU, of the      *)
(* worker that owns the device.  Otherwise the task could neither be claimed  *)
(* again nor finished, or a device would serve a worker that does not own it. *)
LeasesBackTasks ==
  /\ \A t \in Task :
       IF db.task[t].state \in {"leased", "running"}
         THEN /\ db.task[t].lease \in ActiveLeases(db)
              /\ db.lease[db.task[t].lease].worker = db.task[t].worker
         ELSE db.task[t].lease = 0
  /\ \A l \in ActiveLeases(db) :
       LET row == db.lease[l]
       IN  /\ db.task[row.task].lease = l
           /\ row.attempt = db.task[row.task].attempt
           /\ db.worker[row.worker].status = "active"
           /\ row.device # NoDevice => db.owner[row.device] = row.worker

(* A worker that registers again, with leases from before or with other       *)
(* capabilities, is never given more than it can hold: the leases it has fit  *)
(* its slots and its two memories as they are registered now.                 *)
CapacityHeld ==
  \A w \in Worker :
    LeasesOf(db, w) # {} =>
      /\ Cardinality(LeasesOf(db, w)) <= Slots(db.worker[w].cap)
      /\ ReservedMemory(db, w) <= db.worker[w].cap.memory
      /\ ReservedGpuMemory(db, w) <= db.worker[w].cap.gpuMemory

(* A finished task was finished by the lease of its last attempt, and a late  *)
(* worker of an earlier attempt never moves it again: no two leases of a task *)
(* are of the same attempt, and a complete or failed task stays as it is.     *)
NewestLeaseDelivers ==
  [][/\ \A t \in Task :
          db.task[t].state \in {"complete", "failed"} => db'.task[t] = db.task[t]
     /\ \A t \in Task :
          db'.task[t].state = "complete" =>
            /\ db'.lease[db'.task[t].completed].state = "completed"
            /\ \A l \in DOMAIN db'.lease :
                 db'.lease[l].task = t /\ l # db'.task[t].completed =>
                   /\ l < db'.task[t].completed
                   /\ db'.lease[l].attempt < db'.task[t].attempt]_vars

(* Two render processes are on one device, or render one task, only while one *)
(* of their workers is late with its heartbeat or was retired in mid-task: a  *)
(* worker that renews its lease in time has the device and the task to        *)
(* itself, and one whose heartbeat is refused stops its process first.        *)
Late(w) ==
  db.worker[w].status = "retired" \/ clock > run[w].beat + Silence

Rendering(w) == run[w].at \in {"running", "stopping"}

OneProcessUnlessLate ==
  \A v, w \in Worker :
    v # w /\ Rendering(v) /\ Rendering(w) /\ ~Late(v) /\ ~Late(w) =>
      LET a == db.lease[run[v].lease]
          b == db.lease[run[w].lease]
      IN  a.task # b.task /\ (a.device # b.device \/ a.device = NoDevice)

(* The tables keep the promise of TaskDelivery: a task waits, is held by the  *)
(* worker its lease names, or was delivered by the one whose lease completed  *)
(* it; its attempts are the rounds.                                           *)
Phase(state) ==
  CASE state = "absent" -> "absent"
    [] state = "pending" -> "waiting"
    [] state \in {"leased", "running"} -> "held"
    [] state = "complete" -> "delivered"
    [] state = "failed" -> "given up"

By(s, t) ==
  CASE Phase(s.task[t].state) = "held" -> s.task[t].worker
    [] Phase(s.task[t].state) = "delivered" -> s.lease[s.task[t].completed].worker
    [] OTHER -> NoWorker

View(s) ==
  [t \in Task |-> [phase |-> Phase(s.task[t].state), round |-> s.task[t].attempt,
                   by |-> By(s, t)]]

Delivery == INSTANCE TaskDelivery WITH task <- View(db)

DeliveryPromise == Delivery!Spec
=============================================================================
