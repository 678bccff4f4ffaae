--------------------------- MODULE MCTempRegistry ---------------------------
(***************************************************************************)
(* TempRegistry with three temporary files, two signals and a table that   *)
(* starts with one slot, so that it grows twice.                           *)
(***************************************************************************)
EXTENDS TempRegistry

=============================================================================
