----------------------------- MODULE TaskDelivery -----------------------------
(* What the render scheduler promises about tasks, with no leases and no      *)
(* clock: a task is rendered in rounds.  In a round one worker at most holds  *)
(* it; a round ends by delivery, by giving the task up, or by withdrawing it, *)
(* which opens the next round; only the holder of the round delivers, and     *)
(* what is delivered or given up stays so.                                    *)
EXTENDS Naturals

CONSTANTS Task, Worker, NoWorker

VARIABLE task   \* task[t] = [phase, round, by], by the worker of the round

Row(phase, round, by) == [phase |-> phase, round |-> round, by |-> by]

Absent == Row("absent", 0, NoWorker)
Waiting(n) == Row("waiting", n, NoWorker)

Init == task = [t \in Task |-> Absent]

-----------------------------------------------------------------------------
(* What one call does to the one task it is about. *)

Enter(a, b) == a.phase = "absent" /\ b = Waiting(1)

Take(a, b) ==
  a.phase = "waiting" /\ \E w \in Worker : b = Row("held", a.round, w)

Deliver(a, b) == a.phase = "held" /\ b = Row("delivered", a.round, a.by)

GiveUp(a, b) == a.phase = "held" /\ b = Row("given up", a.round, NoWorker)

Withdraw(a, b) == a.phase = "held" /\ b = Waiting(a.round + 1)

Serve(a, b) ==
  Enter(a, b) \/ Take(a, b) \/ Deliver(a, b) \/ GiveUp(a, b) \/ Withdraw(a, b)

(* A call: some held tasks lapse, because their holder is lost, too late or   *)
(* retired; then the call is served, or serves nothing.                       *)
Next ==
  \E gone \in SUBSET {t \in Task : task[t].phase = "held"} :
    LET mid == [t \in Task |-> IF t \in gone THEN Waiting(task[t].round + 1) ELSE task[t]]
    IN  \/ task' = mid
        \/ \E t \in Task :
             /\ Serve(mid[t], task'[t])
             /\ task' = [mid EXCEPT ![t] = task'[t]]

Spec == Init /\ [][Next]_task
=============================================================================
