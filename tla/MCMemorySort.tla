---------------------------- MODULE MCMemorySort ----------------------------
(***************************************************************************)
(* Instances of MemorySort: every way of sorting over short inputs, for    *)
(* the reading and the writing, and longer inputs for the radix sort.      *)
(***************************************************************************)
EXTENDS MemorySort

Byte == Letters \cup {Delim}
FilesUpTo(max) == UNION {[1 .. n -> Byte] : n \in 0 .. max}

\* The options one combination of flags stands for; a flag is a set member.
Flags == {"forced", "keyed", "key_reverse", "fold", "special", "reverse", "stable", "unique"}
With(on) ==
  [forced |-> "forced" \in on, keyed |-> "keyed" \in on, key_reverse |-> "key_reverse" \in on,
   fold |-> "fold" \in on, special |-> "special" \in on, reverse |-> "reverse" \in on,
   stable |-> "stable" \in on, unique |-> "unique" \in on]

\* -s, -u, -r in any combination; a key has its own direction.
Directions == SUBSET {"reverse", "stable", "unique"}
KeyDirections == SUBSET {"key_reverse", "reverse", "stable", "unique"}

ByLine == {With(on \cup d) : on \in {{}, {"forced"}, {"fold"}, {"special"}}, d \in Directions}
ByKey == {With({"keyed"} \cup on \cup d) : on \in {{}, {"fold"}, {"special"}}, d \in KeyDirections}

\* For the reading and the writing: one file and two files.
ShortOperands ==
  {<<f>> : f \in FilesUpTo(3)} \cup {<<f, g>> : f, g \in FilesUpTo(2)}

\* For the engines: lines that differ in what is compared and lines that do
\* not, equal ones among them, with and without a last delimiter.
Texts_(lines) == FlattenSeq([i \in DOMAIN lines |-> Append(lines[i], Delim)])
MixedOperands ==
  { <<Texts_(<< <<2>>, <<1>>, <<2>>, <<1, 2>>, <<1, 1>> >>)>>,
    <<Texts_(<< <<1, 2>>, <<2, 1>>, <<>> >>), Texts_(<< <<1, 1>>, <<1, 2>> >>)>>,
    <<Texts_(<< <<2, 2>> >>) \o <<2>>, <<1>> >> }

\* For the radix sort: four lines, equal ones, prefixes of each other, and
\* some that agree beyond the depth limit.
SomeLines == {<<>>, <<1>>, <<1, 1, 2>>, <<1, 1, 1>>, <<2, 1>>}
FourLines == {<<Texts_(ls)>> : ls \in [1 .. 4 -> SomeLines]}

ManyJobs ==
  [operands : ShortOperands, options : {With({}), With({"unique"})},
   may_fail : {TRUE}]
    \cup [operands : MixedOperands, options : ByLine \cup ByKey, may_fail : {FALSE}]
    \cup [operands : FourLines, options : {With({}), With({"reverse"})}, may_fail : {FALSE}]

=============================================================================
