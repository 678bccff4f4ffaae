---------------------------- MODULE SortContract ----------------------------
(***************************************************************************)
(* What rank promises of one sort, whichever engine carries it out: the    *)
(* records of the input come back once, ordered by a comparator, records   *)
(* that compare equal stay in input order, and with -u only the first of   *)
(* each group of equal records is kept.  A sort may also fail; it then     *)
(* delivers nothing that anybody may rely on.                              *)
(***************************************************************************)
EXTENDS SortOrder

CONSTANTS
  Orders      \* the comparators the options admit: one, except for -R,
              \* which may pick any hash order

VARIABLES
  unique,     \* -u was given
  input,      \* the records, in the order they are read
  result      \* what the sort delivers

vars == <<unique, input, result>>

NotYet == [state |-> "running", recs |-> <<>>]
Failed == [state |-> "failed",  recs |-> <<>>]
Delivered(recs) == [state |-> "delivered", recs |-> recs]

Sorted(recs, ord) ==
  IF unique THEN FirstOfEquals(StableSort(recs, ord), ord)
            ELSE StableSort(recs, ord)

Init == result = NotYet

Deliver ==
  /\ result = NotYet
  /\ \E ord \in Orders : result' = Delivered(Sorted(input, ord))
  /\ UNCHANGED <<unique, input>>

Fail ==
  /\ result = NotYet
  /\ result' = Failed
  /\ UNCHANGED <<unique, input>>

Next == Deliver \/ Fail

Spec == Init /\ [][Next]_vars

\* A sort that is not stopped comes to an end.
Ends == <>(result # NotYet)

Total == Spec /\ Ends

=============================================================================
