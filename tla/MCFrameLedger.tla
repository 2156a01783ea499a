----------------------------- MODULE MCFrameLedger -----------------------------
(* A small instance of FrameLedger: a local renderer and a cloud worker       *)
(* deliver three contents for one frame, in any order and any number of       *)
(* times; the operator decides whenever a conflict is open.  The only bound   *)
(* is the number of rows the conflict table may reach.                        *)
EXTENDS FrameLedger, FiniteSets

CONSTANT MaxConflicts   \* rows of publication_conflicts this instance explores

MCNext == LedgerNext /\ Cardinality(conflicts') <= MaxConflicts

MCSpec == LedgerInit /\ [][MCNext]_ledgerVars
=============================================================================
