----------------------------- MODULE MCTaskPool -----------------------------
(***************************************************************************)
(* TaskPool with four tasks and up to three workers, one of which the cap  *)
(* takes away from the four threads asked for.                             *)
(***************************************************************************)
EXTENDS TaskPool

=============================================================================
