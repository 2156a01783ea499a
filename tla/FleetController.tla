---------------------------- MODULE FleetController ----------------------------
(* FleetController.reconcile of cloud_render/fleet.py beside a running        *)
(* scheduler.  It decides from SqliteScheduler.status(), which is not a       *)
(* transaction: four SELECTs in autocommit, each with a snapshot of its own.  *)
(* The lock of the object keeps out the threads of the same process; the      *)
(* workers are other processes and may commit between any two SELECTs.        *)
EXTENDS ChunkScheduler, Sequences

VARIABLES
  next,      \* index in Reads of the SELECT status() runs next; 0 outside a call
  input,     \* what the caller passed: [overBudget, idle]; NoInput outside a call
  seen,      \* what the SELECTs of the current call returned
  reason,    \* reason of the running or last reconcile, "none" before it
  targets    \* instances stop_instance is still to be called for

fleetVars == <<vars, next, input, seen, reason, targets>>
ctlVars == <<next, input, seen, reason, targets>>
SchedulerStutters == UNCHANGED vars

(* One instance per worker.  The caller computes the budget verdict (see      *)
(* budget_status) and the idle list before status() is read.                  *)
Input == [overBudget : BOOLEAN, idle : SUBSET Worker]

(* Mutant: the conflicts are counted before the chunks. *)
MutantReadsConflictsFirst == <<"job", "conflicts", "chunks", "published">>

Reads == <<"job", "chunks", "published", "conflicts">>

Select(table) ==
  CASE table = "job" -> cancelled
    [] table = "chunks" -> Cardinality({c \in Chunk : chunk[c].state # "COMPLETE"})
    [] table = "published" -> Cardinality({f \in Frame : Published(f)})
    [] table = "conflicts" ->
         Cardinality({r \in conflicts : r.resolution = "PENDING_OPERATOR"})

NoInput == [overBudget |-> FALSE, idle |-> {}]
Nothing == [job |-> FALSE, chunks |-> 0, published |-> 0, conflicts |-> 0]

FleetInit ==
  /\ Init
  /\ next = 0
  /\ input = NoInput
  /\ seen = Nothing
  /\ reason = "none"
  /\ targets = {}

(* Mutant: the chunk counts are not consulted. *)
MutantSeenWithoutChunks(s) ==
  /\ ~s.job
  /\ s.conflicts = 0
  /\ s.published = FrameEnd - FrameStart + 1

(* status().complete, from what was read *)
SeenComplete(s) ==
  /\ ~s.job
  /\ s.conflicts = 0
  /\ s.published = FrameEnd - FrameStart + 1
  /\ s.chunks = 0

Reason(s, in) ==
  CASE SeenComplete(s) -> "job-complete"
    [] ~SeenComplete(s) /\ in.overBudget -> "budget-safety-stop"
    [] ~SeenComplete(s) /\ ~in.overBudget /\ in.idle # {} -> "idle-worker-timeout"
    [] OTHER -> "fleet-retained"

Targets(why, in) ==
  CASE why \in {"job-complete", "budget-safety-stop"} -> Worker
    [] why = "idle-worker-timeout" -> in.idle
    [] why = "fleet-retained" -> {}

Reconcile(in) ==
  /\ next = 0 /\ targets = {}
  /\ next' = 1 /\ input' = in /\ seen' = Nothing /\ reason' = "none"
  /\ UNCHANGED targets /\ SchedulerStutters

ReadNext ==
  /\ next \in 1 .. Len(Reads)
  /\ seen' = [seen EXCEPT ![Reads[next]] = Select(Reads[next])]
  /\ IF next < Len(Reads)
       THEN /\ next' = next + 1
            /\ UNCHANGED <<input, reason, targets>>
       ELSE /\ next' = 0 /\ input' = NoInput
            /\ reason' = Reason(seen', input)
            /\ targets' = Targets(reason', input)
  /\ SchedulerStutters

(* stop_instance, one instance after the other *)
StopInstance(w) ==
  /\ w \in targets
  /\ targets' = targets \ {w}
  /\ UNCHANGED <<next, input, seen, reason>> /\ SchedulerStutters

FleetNext ==
  \/ Next /\ UNCHANGED ctlVars
  \/ \E in \in Input : Reconcile(in)
  \/ ReadNext
  \/ \E w \in Worker : StopInstance(w)

FleetSpec == FleetInit /\ [][FleetNext]_fleetVars

-----------------------------------------------------------------------------
(* Properties. *)

(* Although the four SELECTs see four different states, a "job-complete"      *)
(* verdict is true when it is taken: every chunk is COMPLETE and every frame  *)
(* has an undisputed publication at the moment of the last read.  (Only the   *)
(* cancelled flag may be out of date.)                                        *)
VerdictIsCurrent ==
  [][(reason' = "job-complete" /\ reason # reason') =>
       /\ \A c \in Chunk : chunk[c].state = "COMPLETE"
       /\ \A f \in Frame : Published(f) /\ pub[f].status = "ACCEPTED"]_fleetVars

(* Instances stopped because the job is complete had nothing left to do:      *)
(* until the next reconcile no lease is live and none is granted again, so    *)
(* stopping them one by one interrupts nobody's chunk.                        *)
CompletedFleetIsQuiet ==
  reason = "job-complete" => \A c \in Chunk : chunk[c].token = 0
=============================================================================
