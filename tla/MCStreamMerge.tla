---------------------------- MODULE MCStreamMerge ----------------------------
(***************************************************************************)
(* Instances of StreamMerge: inputs of at most two records, enough inputs  *)
(* for a heap of three levels, empty files and empty records among them.   *)
(***************************************************************************)
EXTENDS StreamMerge

Identity == [k \in Keys |-> k]

Files(max) == UNION {[1 .. n -> Keys] : n \in 0 .. max}
IsInOrder(f) == \A i, j \in DOMAIN f : i < j => Order[f[i]] <= Order[f[j]]
SortedFiles(max) == {f \in Files(max) : IsInOrder(f)}

\* Three sorted files, and five with at most one record.
SortedInputs == [1 .. 3 -> SortedFiles(2)] \cup [1 .. 5 -> SortedFiles(1)]

ThreeFiles == {<< <<1>>, <<0>>, <<0>> >>}

=============================================================================
