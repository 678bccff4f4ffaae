------------------------------ MODULE SortOrder ------------------------------
(***************************************************************************)
(* Sorting and merging of records, by their results.                       *)
(*                                                                         *)
(* A record is [key, pos]: the key stands for everything the comparator    *)
(* looks at, the position for the place of the record in the input.  A     *)
(* comparator is a function from keys to numbers: a key is smaller than    *)
(* another when its number is.  Without -s and -u rank compares whole      *)
(* lines last, so records that are equal then are equal byte by byte.      *)
(***************************************************************************)
EXTENDS Naturals, Sequences, FiniteSetsExt, SequencesExt

\* Byte strings in dictionary order.
BytesLess(x, y) ==
  \E n \in 0 .. Min({Len(x), Len(y)}) :
    /\ \A p \in 1 .. n : x[p] = y[p]
    /\ n < Len(y)
    /\ n = Len(x) \/ (n < Len(x) /\ x[n + 1] < y[n + 1])

\* The members of a finite set one after the other, each of them once all of
\* ahead[i] are gone.
InTurn(ahead) ==
  [n \in 1 .. Cardinality(DOMAIN ahead) |->
     CHOOSE i \in DOMAIN ahead : Cardinality(ahead[i]) = n - 1]

\* The smaller key first, and of equal ones the record that comes first.
StableSort(recs, ord) ==
  LET before(j, i) ==
        \/ ord[recs[j].key] < ord[recs[i].key]
        \/ ord[recs[j].key] = ord[recs[i].key] /\ j < i
      order == InTurn([i \in DOMAIN recs |-> {j \in DOMAIN recs : before(j, i)}])
  IN  [n \in DOMAIN order |-> recs[order[n]]]

\* The first record of every group of equal neighbours.
FirstOfEquals(recs, ord) ==
  LET kept  == {i \in DOMAIN recs : i = 1 \/ ord[recs[i - 1].key] # ord[recs[i].key]}
      order == InTurn([i \in kept |-> {j \in kept : j < i}])
  IN  [n \in DOMAIN order |-> recs[order[n]]]

\* What a merge of runs writes that always takes the smallest head, the head
\* of the earlier run when they are equal.  A record is seen when those ahead
\* of it in its run are gone, so its turn comes with the largest of them;
\* in a run that is in order that is the record itself.
StableMerge(rs, ord) ==
  LET places  == UNION {{r} \X DOMAIN rs[r] : r \in DOMAIN rs}
      turn(p) == Max({ord[rs[p[1]][j].key] : j \in 1 .. p[2]})
      sooner(p, q) ==
        \/ turn(p) < turn(q)
        \/ turn(p) = turn(q) /\ p[1] < q[1]
        \/ turn(p) = turn(q) /\ p[1] = q[1] /\ p[2] < q[2]
      order == InTurn([q \in places |-> {p \in places : sooner(p, q)}])
  IN  [n \in DOMAIN order |-> rs[order[n][1]][order[n][2]]]

=============================================================================
