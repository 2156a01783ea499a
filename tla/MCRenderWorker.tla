----------------------------- MODULE MCRenderWorker -----------------------------
(* Small instances of RenderWorker: a local and a cloud worker pull the       *)
(* chunks of a short job; worker.cfg with crashes and late calls, timely.cfg  *)
(* with punctual workers, settle.cfg under fairness.                          *)
EXTENDS RenderWorker

CONSTANTS home, cloud, a, b

MCFrame == FrameStart .. FrameEnd
MCObjectKey == 0 .. MaxAttempts
MCOutside == {}
MCOneOutside == {[frame |-> FrameStart, worker |-> home, sha |-> b]}
=============================================================================
