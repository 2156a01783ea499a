---------------------------- MODULE MCChunkScheduler ----------------------------
(* A small instance of ChunkScheduler: a job of three frames in chunks of two *)
(* (so that the last chunk is shorter), one local and one cloud worker, two   *)
(* attempts per chunk, two possible contents per frame.                       *)
EXTENDS ChunkScheduler

CONSTANTS home, cloud, a, b

(* Frames rendered outside the queue compete with the content of the chunks. *)
MCOutside == {[frame |-> 2, worker |-> home, sha |-> a],
              [frame |-> 3, worker |-> cloud, sha |-> b]}

MCFrame == FrameStart .. FrameEnd
MCObjectKey == 0 .. MaxAttempts
=============================================================================
