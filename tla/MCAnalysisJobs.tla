---------------------------- MODULE MCAnalysisJobs ----------------------------
(* Two heavy jobs that both get a worker slot and compete for the GPU slot;   *)
(* one of them is cancelled and deleted, twice in all.                        *)
EXTENDS AnalysisJobs
=============================================================================
