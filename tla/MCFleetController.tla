--------------------------- MODULE MCFleetController ---------------------------
(* A small instance of FleetController: two chunks of one frame with one      *)
(* attempt, and a rendering of the second frame made outside the queue, so    *)
(* that a conflict can open before or after the chunk is delivered.           *)
EXTENDS FleetController

CONSTANTS home, cloud, a, b

MCFrame == FrameStart .. FrameEnd
MCObjectKey == 0 .. MaxAttempts
MCOutside == {[frame |-> FrameEnd, worker |-> home, sha |-> a]}
=============================================================================
