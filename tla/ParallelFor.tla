----------------------------- MODULE ParallelFor -----------------------------
(***************************************************************************)
(* What rank_run_tasks promises its callers in src/radix.c: every task is  *)
(* carried out exactly once, in any order, and the call returns when all   *)
(* are done.                                                               *)
(***************************************************************************)
CONSTANT Tasks

VARIABLES
  done,       \* tasks that have been carried out
  returned    \* the call has returned

vars == <<done, returned>>

\* A call without tasks returns at once.
Init == done = {} /\ returned = (Tasks = {})

CarryOut(t) ==
  /\ ~returned
  /\ t \notin done
  /\ done' = done \cup {t}
  /\ UNCHANGED returned

Return ==
  /\ ~returned
  /\ done = Tasks
  /\ returned' = TRUE
  /\ UNCHANGED done

Next == (\E t \in Tasks : CarryOut(t)) \/ Return

Spec == Init /\ [][Next]_vars

=============================================================================
