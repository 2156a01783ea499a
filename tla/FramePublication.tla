--------------------------- MODULE FramePublication ---------------------------
(* What frame publication promises, with no tables: a frame has at most one   *)
(* current value; a different value is never swapped in silently but opens a  *)
(* dispute; only an operator's choice among the values that were offered      *)
(* closes it.                                                                 *)
CONSTANTS Frame,    \* frames of the job
          Sha       \* contents a frame may have

VARIABLES slot,     \* slot[f] = [status, value], the current value of f
          offered   \* offered[f]: every value anybody ever delivered for f

vars == <<slot, offered>>

Empty == [status |-> "empty"]
Accepted(s) == [status |-> "accepted", value |-> s]
Disputed(s) == [status |-> "disputed", value |-> s]

Init ==
  /\ slot = [f \in Frame |-> Empty]
  /\ offered = [f \in Frame |-> {}]

-----------------------------------------------------------------------------
(* The three things that can happen to one frame. *)

FirstValue(f, s) ==
  /\ slot[f] = Empty
  /\ slot'[f] = Accepted(s)
  /\ offered'[f] = offered[f] \cup {s}

(* The same value again changes nothing; another value opens a dispute (or    *)
(* joins the open one), and either value may stand provisionally.             *)
AnotherValue(f, s) ==
  /\ slot[f] # Empty
  /\ IF s = slot[f].value
       THEN slot'[f] = slot[f]
       ELSE slot'[f] \in {Disputed(slot[f].value), Disputed(s)}
  /\ offered'[f] = offered[f] \cup {s}

Settle(f, s) ==
  /\ slot[f] # Empty
  /\ slot[f].status = "disputed"
  /\ s \in offered[f]
  /\ slot'[f] = Accepted(s)
  /\ offered'[f] = offered[f]

Untouched(f) ==
  /\ slot'[f] = slot[f]
  /\ offered'[f] = offered[f]

FrameStep(f) ==
  \/ \E s \in Sha : FirstValue(f, s) \/ AnotherValue(f, s) \/ Settle(f, s)
  \/ Untouched(f)

(* A chunk delivers all its frames in one transaction: frames step together.  *)
Next ==
  /\ slot' \in [Frame -> {Empty} \cup {Accepted(s) : s \in Sha} \cup {Disputed(s) : s \in Sha}]
  /\ offered' \in [Frame -> SUBSET Sha]
  /\ \A f \in Frame : FrameStep(f)

Spec == Init /\ [][Next]_vars
=============================================================================
