-------------------------- MODULE RenderTaskScheduler --------------------------
(* PersistentRenderScheduler of backend/app/mission_control/scheduler.py: the *)
(* tables of workers, devices, render tasks and leases, and what one BEGIN    *)
(* IMMEDIATE transaction makes of them.  An operation is a condition (when    *)
(* the code does not raise) and the tables it leaves; a transaction that      *)
(* raises is rolled back, its reaping of expired leases included.             *)
(*                                                                            *)
(* Leases are numbered in the order they are granted.  A token is known only  *)
(* to the worker it was given to, so presenting it is knowing the number.     *)
EXTENDS Integers, Sequences, FiniteSets, FiniteSetsExt

CONSTANTS
  Worker, Task, Device,
  Capability,   \* WorkerCapabilities: [gpu, device, memory, gpuMemory, slots]
  Need,         \* [Task -> TaskResourceRequirements: [gpu, memory, gpuMemory]]
  LeaseTerm,    \* default_lease_duration, in ticks
  WorkerTimeout,\* default_worker_timeout, in ticks
  NoWorker, NoDevice, NoCapability

ASSUME TermsAssumption == LeaseTerm \in Nat \ {0} /\ WorkerTimeout \in Nat \ {0}
ASSUME NamesAssumption == NoWorker \notin Worker
ASSUME CapabilityAssumption ==
  \A c \in Capability :
    /\ c.gpu \in BOOLEAN /\ (c.gpu => c.device \in Device)
    /\ c.memory \in Nat /\ c.gpuMemory \in Nat /\ c.slots \in Nat
ASSUME NeedAssumption == \A t \in Task : Need[t].memory \in Nat /\ Need[t].gpuMemory \in Nat

WorkerStatus == {"none", "active", "lost", "retired"}
TaskState == {"absent", "pending", "leased", "running", "complete", "failed"}
LeaseState == {"active", "completed", "ended"}

(* The tables.  task[t].lease and .completed are 0 where the column is NULL;  *)
(* order lists the tasks by created_at.  Every lease that ended otherwise     *)
(* than by completion is "ended", whatever the reason the row records; what   *)
(* no later operation reads is left out: when a lease that is no longer       *)
(* active would have expired, and the capabilities of a worker that is not.   *)
EmptyTables ==
  [worker |-> [w \in Worker |->
                 [status |-> "none", cap |-> NoCapability, expires |-> 0]],
   owner  |-> [d \in Device |-> NoWorker],
   task   |-> [t \in Task |-> [state |-> "absent", attempt |-> 0,
                               lease |-> 0, worker |-> NoWorker, completed |-> 0]],
   lease  |-> <<>>,
   order  |-> <<>>]

ActiveLeases(s) == {l \in DOMAIN s.lease : s.lease[l].state = "active"}
LeasesOf(s, w) == {l \in ActiveLeases(s) : s.lease[l].worker = w}

Closed(row, state) == [row EXCEPT !.state = state, !.expires = 0]

Requeued(row) == [row EXCEPT !.state = "pending", !.attempt = @ + 1,
                             !.lease = 0, !.worker = NoWorker]

(* The leases in gone stop holding their tasks, which become pending again    *)
(* (the loops of _reap_expired_locked and _requeue_worker_leases_locked).     *)
(* Where reaping, start_task and fail_task also compare the task's own lease  *)
(* and state, LeasesBackTasks says that they agree.                           *)
EndLeases(s, gone) ==
  [s EXCEPT
    !.lease = [l \in DOMAIN @ |-> IF l \in gone THEN Closed(@[l], "ended") ELSE @[l]],
    !.task = [t \in Task |-> IF @[t].lease \in gone THEN Requeued(@[t]) ELSE @[t]]]

FreeDevices(s, workers) ==
  [s EXCEPT !.owner = [d \in Device |-> IF @[d] \in workers THEN NoWorker ELSE @[d]]]

MarkWorkers(s, workers, status) ==
  [s EXCEPT !.worker = [w \in Worker |-> IF w \in workers
              THEN [status |-> status, cap |-> NoCapability, expires |-> 0]
              ELSE @[w]]]

LostWorkers(s, now) ==
  {w \in Worker : s.worker[w].status = "active" /\ s.worker[w].expires <= now}

(* Mutant: a lost worker keeps its leases until they expire. *)
MutantReap(s, now) ==
  LET lost == LostWorkers(s, now)
  IN  EndLeases(FreeDevices(MarkWorkers(s, lost, "lost"), lost),
                {l \in ActiveLeases(s) : s.lease[l].expires <= now})

Reap(s, now) ==
  LET lost == LostWorkers(s, now)
  IN  EndLeases(FreeDevices(MarkWorkers(s, lost, "lost"), lost),
                {l \in ActiveLeases(s) : \/ s.lease[l].worker \in lost
                                        \/ s.lease[l].expires <= now})

(* Mutant: attempts are counted from 0. *)
MutantSubmit(s, t) ==
  IF s.task[t].state # "absent" THEN s
  ELSE [s EXCEPT !.task[t].state = "pending", !.order = Append(@, t)]

(* submit_task; a task already known is returned as it is. *)
Submit(s, t) ==
  IF s.task[t].state # "absent" THEN s
  ELSE [s EXCEPT !.task[t].state = "pending", !.task[t].attempt = 1,
                 !.order = Append(@, t)]

-----------------------------------------------------------------------------
(* Workers *)

(* Mutant: capabilities may change while leases are held. *)
MutantMayRegister(s, w, cap) == cap.gpu => s.owner[cap.device] \in {NoWorker, w}

MayRegister(s, w, cap) ==
  /\ LeasesOf(s, w) # {} => s.worker[w].cap = cap
  /\ cap.gpu => s.owner[cap.device] \in {NoWorker, w}

Register(s, w, cap, now) ==
  LET own == FreeDevices(s, {w})
      row == [status |-> "active", cap |-> cap, expires |-> now + WorkerTimeout]
  IN  [own EXCEPT !.worker[w] = row,
                  !.owner = IF cap.gpu THEN [@ EXCEPT ![cap.device] = w] ELSE @]

(* heartbeat_worker *)
BeatWorker(s, w, now) == [s EXCEPT !.worker[w].expires = now + WorkerTimeout]

(* retire_worker does not reap. *)
Retire(s, w) ==
  FreeDevices(MarkWorkers(EndLeases(s, LeasesOf(s, w)), {w}, "retired"), {w})

-----------------------------------------------------------------------------
(* Leases *)

Slots(cap) == IF cap.gpu THEN 1 ELSE cap.slots

ReservedMemory(s, w) ==
  SumFunction([l \in LeasesOf(s, w) |-> Need[s.lease[l].task].memory])
ReservedGpuMemory(s, w) ==
  SumFunction([l \in LeasesOf(s, w) |-> Need[s.lease[l].task].gpuMemory])

(* _worker_can_run; sizes and formats are left out. *)
CanRun(s, w, t) ==
  LET cap == s.worker[w].cap
  IN  /\ Need[t].gpu => cap.gpu
      /\ ReservedMemory(s, w) + Need[t].memory <= cap.memory
      /\ Need[t].gpuMemory > 0 =>
           /\ cap.device # NoDevice
           /\ ReservedGpuMemory(s, w) + Need[t].gpuMemory <= cap.gpuMemory

MayClaim(s, w, now) ==
  s.worker[w].status = "active" /\ s.worker[w].expires > now

(* The pending tasks that fit, by position; none when the worker is full.     *)
Candidates(s, w) ==
  IF Cardinality(LeasesOf(s, w)) >= Slots(s.worker[w].cap) THEN {}
  ELSE {i \in DOMAIN s.order : /\ s.task[s.order[i]].state = "pending"
                               /\ CanRun(s, w, s.order[i])}

(* claim_next_task selects the first of them. *)
Selected(s, w) ==
  {s.order[i] : i \in {i \in Candidates(s, w) : \A j \in Candidates(s, w) : i <= j}}

Claim(s, w, t, now) ==
  LET cap == s.worker[w].cap
      row == [task |-> t, worker |-> w, attempt |-> s.task[t].attempt,
              device |-> IF cap.gpu THEN cap.device ELSE NoDevice,
              state |-> "active", expires |-> now + LeaseTerm]
  IN  [s EXCEPT !.lease = Append(@, row),
                !.task[t] = [@ EXCEPT !.state = "leased", !.worker = w,
                                      !.lease = Len(s.lease) + 1]]

IsActive(s, l) == s.lease[l].state = "active"

Start(s, l) == [s EXCEPT !.task[s.lease[l].task].state = "running"]

BeatLease(s, l, now) ==
  [s EXCEPT !.lease[l].expires = now + LeaseTerm,
            !.worker = IF @[s.lease[l].worker].status = "active"
                         THEN [@ EXCEPT ![s.lease[l].worker].expires =
                                           now + WorkerTimeout]
                         ELSE @]

(* Mutant: the token is checked, but not whether the lease is still active. *)
MutantMayComplete(s, l) == TRUE

(* complete_task accepts an active lease that owns its task, and returns the  *)
(* task as it is when this lease completed it before.                         *)
MayComplete(s, l) ==
  \/ IsActive(s, l) /\ s.task[s.lease[l].task].lease = l
  \/ s.lease[l].state = "completed" /\ s.task[s.lease[l].task].completed = l

Complete(s, l) ==
  IF s.lease[l].state = "completed" THEN s
  ELSE [s EXCEPT !.lease[l] = Closed(@, "completed"),
                 !.task[s.lease[l].task] =
                    [@ EXCEPT !.state = "complete", !.lease = 0,
                              !.worker = NoWorker, !.completed = l]]

Fail(s, l, retry) ==
  [s EXCEPT !.lease[l] = Closed(@, "ended"),
            !.task[s.lease[l].task] =
               IF retry THEN Requeued(@)
               ELSE [@ EXCEPT !.state = "failed", !.lease = 0, !.worker = NoWorker]]
=============================================================================
