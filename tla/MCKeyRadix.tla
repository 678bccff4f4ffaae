----------------------------- MODULE MCKeyRadix -----------------------------
(***************************************************************************)
(* Instances of KeyRadix: up to five lines, insertion for one or two,      *)
(* bytes 1 and 2, and a depth limit that some keys exceed.  Some lines     *)
(* differ but have equal keys, some keys are prefixes of others, some are  *)
(* empty.                                                                  *)
(***************************************************************************)
EXTENDS KeyRadix

\* No field says anything of the place of its line.
ThreeFields ==
  << << <<1, 1>>,       <<1, 1>>, <<2>>    >>,
     << <<1>>,          <<1, 1>>, <<1>>    >>,
     << <<1, 1>>,       <<1, 1>>, <<2>>    >>,
     << <<2, 1, 1, 2>>, <<>>,     <<1>>    >>,
     << <<2, 1, 1, 1>>, <<1>>,    <<1, 2>> >>,
     << <<>>,           <<2>>,    <<>>     >> >>

Key(f, rev) == [field |-> f, reverse |-> rev]

\* -s -k1,1
StableForward ==
  [keys |-> <<Key(1, FALSE)>>, reverse |-> FALSE, stable |-> TRUE, unique |-> FALSE]

\* -r -k2,2 -k3,3b: a key with a modifier of its own does not inherit -r.
Mixed ==
  [keys |-> <<Key(2, TRUE), Key(3, FALSE)>>,
   reverse |-> TRUE, stable |-> FALSE, unique |-> FALSE]

\* -u -k2,2 -k3,3
UniqueTwo ==
  [keys |-> <<Key(2, FALSE), Key(3, FALSE)>>,
   reverse |-> FALSE, stable |-> FALSE, unique |-> TRUE]

\* -u -r -k1,1
UniqueBackward ==
  [keys |-> <<Key(1, TRUE)>>, reverse |-> TRUE, stable |-> FALSE, unique |-> TRUE]

Ways(opts, inputs) == {[options |-> opts, lines |-> ls] : ls \in inputs}

SeveralSorts ==
  Ways(StableForward, [1 .. 5 -> Lines])
    \cup Ways(Mixed, UNION {[1 .. n -> Lines \ {6}] : n \in {0, 1, 4}})
    \cup Ways(UniqueTwo, [1 .. 4 -> Lines \ {6}])

\* Three lines whose keys are equal, the least that are not inserted at once.
SameKeysBackward == Ways(UniqueBackward, {<<1, 3, 1>>})

=============================================================================
