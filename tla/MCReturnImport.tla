----------------------------- MODULE MCReturnImport -----------------------------
(* A small instance of ReturnImport: two imports of chunks of up to two       *)
(* frames into one directory, two possible contents per frame.                *)
EXTENDS ReturnImport

CONSTANTS a, b, first, second
=============================================================================
