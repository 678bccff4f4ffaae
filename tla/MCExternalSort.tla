--------------------------- MODULE MCExternalSort ---------------------------
(***************************************************************************)
(* Instances of ExternalSort.  The keys of the records that are read are   *)
(* numbers or letters; the position makes every record different, so a     *)
(* record that is lost, doubled or out of place shows.                     *)
(***************************************************************************)
EXTENDS ExternalSort

\* The usual comparator on two keys.
ByNumber == {[k \in Keys |-> k]}

NumberedPaths == 1 .. 12

Sort(operands) == [files : operands, unique : {FALSE}, compress : {FALSE}]

\* Four records that need two passes.
FourRecords == {<< <<2, 1, 2, 1>> >>, << <<1, 1>>, <<2, 1>> >>}
SortFour == Sort(FourRecords)

\* One operand of five records, runs of one record: two passes with
\* --batch-size=2; every assignment of keys, so every pattern of ties.  And,
\* with -u and a compressing program, shorter ones, one operand that is
\* empty, and two of which the first one is.
SortMany ==
  Sort({<<f>> : f \in [1 .. 5 -> {1, 2}]})
    \cup [files : FourRecords \cup {<< <<>> >>, << <<>>, <<1, 1>> >>},
          unique : BOOLEAN, compress : {TRUE}]

=============================================================================
