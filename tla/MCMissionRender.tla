---------------------------- MODULE MCMissionRender ----------------------------
(* A render of two chunks, and two processes: one the server knows and one it *)
(* has lost sight of.                                                         *)
EXTENDS MissionRender
=============================================================================
