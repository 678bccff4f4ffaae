--------------------------- MODULE LineOrderProofs ---------------------------
(***************************************************************************)
(* Proofs about the command line and the order of lines: for all words and *)
(* all command lines, the operands are collected in argv without touching  *)
(* what is still to be read, no key ends up with two orderings, the key    *)
(* that is found in a line, by a search or in the arrays of positions, is  *)
(* the one of the definition of fields, and all engines of the sort, the   *)
(* check and the merge have the order of rank_compare_lines for all lines. *)
(***************************************************************************)
EXTENDS LineOrder, FiniteSetTheorems, SequenceTheorems, WellFoundedInduction, TLAPS

\* The words there are.
Vocabulary == DOMAIN Words

\* The words that are still to be read are where they were given.
ArgsOK ==
  stage = "parse" =>
    /\ args \in Seq(Vocabulary) /\ given \in Seq(Vocabulary) /\ Len(args) = Len(given)
    /\ operands \in Nat /\ at \in Nat \ {0} /\ operands < at /\ at <= Len(args) + 1
    /\ \A p \in at .. Len(given) : args[p] = given[p]

\* The mode of a key or of the command is one of the orderings it was given.
ModeNoted(o) == IF o.mode = None THEN o.mode_flags = {} ELSE o.mode \in o.mode_flags

KeyType ==
  [start : 1 .. MaxSize, start_char : Int, start_blanks : BOOLEAN,
   end : 0 .. MaxSize, end_char : Int, end_blanks : BOOLEAN,
   flags : SUBSET {"d", "f", "i", "r"}, mode : Modes \cup {None}, mode_flags : SUBSET Modes]

OptsOK ==
  /\ {"flags", "check", "mode", "mode_flags", "keys"} \subseteq DOMAIN opts
  /\ opts.flags \subseteq Flags /\ opts.check \in Checks \cup {None}
  /\ opts.mode \in Modes \cup {None} /\ opts.mode_flags \subseteq Modes
  /\ ModeNoted(opts)
  /\ opts.keys \in Seq(KeyType)
  /\ \A k \in ToSet(opts.keys) : ModeNoted(k)

Checked == {"defaults", "operands", "accepted", "prepare", "ordered"}

\* What the check of the orderings has made sure of.
OrderingsOK ==
  stage \in Checked =>
    /\ stage = "defaults" => Compatible(opts.mode_flags, opts.flags)
    /\ \A k \in ToSet(opts.keys) : Compatible(k.mode_flags, k.flags)

-----------------------------------------------------------------------------
(***************************************************************************)
(* Words and keys                                                          *)
(***************************************************************************)

\* What a word looks like.
LEMMA WordTyped ==
  ASSUME NEW w \in Vocabulary
  PROVE  /\ Words[w] \in WordType
         /\ Words[w].key \in Seq(PositionType)
         /\ Words[w].mode \in Modes \cup {None} /\ Words[w].check \in Checks \cup {None}
         /\ Words[w].attached \in Vocabulary \cup {None}
  BY CommandAssumption DEF Vocabulary, WordType

Below == {p \in Nat \X Nat : p[1] < p[2]}

\* Every set of numbers has a least one.
LEMMA BelowWellFounded == IsWellFoundedOn(Below, Nat)
<1>1. IsWellFoundedOn({p \in Nat \X Nat : p[1] < p[2]}, Nat)
  BY NatLessThanWellFounded DEF OpToRel
<1> QED BY <1>1 DEF Below

LEMMA LeastNumber ==
  ASSUME NEW T \in SUBSET Nat, T # {}
  PROVE  \E x \in T : \A y \in T : x <= y
<1>1. PICK x \in T : \A y \in T : <<y, x>> \notin Below
  BY BelowWellFounded, WFMin
<1>2. \A y \in T : ~ y < x
  BY <1>1 DEF Below
<1> QED BY <1>2

\* Max gives a member of a bounded set of numbers.
LEMMA MaxIsMember ==
  ASSUME NEW n \in Nat, NEW T \in SUBSET (1 .. n), T # {}
  PROVE  Max(T) \in T
<1> DEFINE U == {n - p : p \in T}
<1>1. U \in SUBSET Nat /\ U # {}
  <2>1. \A p \in T : n - p \in Nat
    OBVIOUS
  <2> QED BY <2>1
<1>2. PICK x \in U : \A y \in U : x <= y
  BY <1>1, LeastNumber
<1>3. PICK m \in T : x = n - m
  BY <1>2
<1>4. \A p \in T : m >= p
  <2> TAKE p \in T
  <2>1. n - m <= n - p
    BY <1>2, <1>3
  <2> QED BY <2>1
<1> QED BY <1>4 DEF Max

\* Two sequences, one behind the other.
LEMMA Joined ==
  ASSUME NEW S, NEW s \in Seq(S), NEW t \in Seq(S)
  PROVE  s \o t \in Seq(S) /\ DOMAIN (s \o t) = 1 .. Len(s \o t) /\ Len(s \o t) \in Nat
  OBVIOUS

\* What an appended sequence holds.
LEMMA AppendedMembers ==
  ASSUME NEW S, NEW s \in Seq(S), NEW x \in S
  PROVE  \A y \in ToSet(Append(s, x)) : y = x \/ y \in ToSet(s)
<1>1. \A i \in 1 .. Len(s) + 1 : Append(s, x)[i] = IF i <= Len(s) THEN s[i] ELSE x
  OBVIOUS
<1>2. Len(s) \in Nat /\ DOMAIN Append(s, x) = 1 .. Len(s) + 1 /\ DOMAIN s = 1 .. Len(s)
  OBVIOUS
<1>3. \A i \in 1 .. Len(s) + 1 : i = Len(s) + 1 \/ i \in 1 .. Len(s)
  BY <1>2
<1> QED BY <1>1, <1>2, <1>3 DEF ToSet

\* A key that is accepted has one of the orderings that were named in it.
LEMMA ParsedKeyTyped ==
  ASSUME NEW text \in Seq(PositionType), IsKey(text)
  PROVE  ParsedKey(text) \in KeyType /\ ModeNoted(ParsedKey(text))
<1> DEFINE start == text[1]
           end == IF Len(text) = 2 THEN text[2] ELSE [field |-> 0, char |-> Absent, mods |-> <<>>]
           mods == start.mods \o end.mods
           modes == {p \in DOMAIN mods : mods[p] \in Modes}
           mode == IF modes = {} THEN None ELSE mods[Max(modes)]
<1>1. Len(text) \in {1, 2} /\ text[1] \in PositionType
      /\ (Len(text) = 2 => text[2] \in PositionType)
  BY DEF IsKey
<1>2. [field |-> 0, char |-> Absent, mods |-> <<>>] \in PositionType
  BY DEF PositionType, Absent
<1>3. start \in PositionType /\ end \in PositionType
  BY <1>1, <1>2
<1> HIDE DEF start, end
<1>4. /\ start.field \in 1 .. MaxSize /\ start.char \in Int /\ start.mods \in Seq(STRING)
      /\ end.field \in 0 .. MaxSize /\ end.char \in Int /\ end.mods \in Seq(STRING)
  <2>1. start.field \in 1 .. MaxSize
    BY <1>1, CommandAssumption DEF IsKey, IsPosition, IsSize, ToSet, start
  <2>2. end.field \in 0 .. MaxSize
    <3>1. CASE Len(text) = 2
      BY <1>1, <3>1, CommandAssumption DEF IsKey, IsPosition, IsSize, ToSet, end
    <3>2. CASE Len(text) # 2
      BY <3>2, CommandAssumption DEF end
    <3> QED BY <3>1, <3>2
  <2> QED BY <1>3, <2>1, <2>2 DEF PositionType
<1>5. mods \in Seq(STRING) /\ DOMAIN mods = 1 .. Len(mods) /\ Len(mods) \in Nat
  BY <1>4, Joined
<1>6. ParsedKey(text) =
        [start |-> start.field, start_char |-> start.char, start_blanks |-> "b" \in ToSet(start.mods),
         end |-> end.field, end_char |-> end.char, end_blanks |-> "b" \in ToSet(end.mods),
         flags |-> ToSet(mods) \cap {"d", "f", "i", "r"},
         mode |-> mode, mode_flags |-> ToSet(mods) \cap Modes]
  BY DEF ParsedKey, start, end
<1> HIDE DEF mods, modes, mode
<1>7. mode \in Modes \cup {None} /\ (IF mode = None THEN ToSet(mods) \cap Modes = {}
                                          ELSE mode \in ToSet(mods) \cap Modes)
  <2>1. CASE modes = {}
    BY <2>1 DEF ToSet, modes, mode
  <2>2. CASE modes # {}
    <3>1. modes \in SUBSET (1 .. Len(mods))
      BY <1>5 DEF modes
    <3>2. Max(modes) \in modes
      BY <1>5, <2>2, <3>1, MaxIsMember
    <3>3. mode \in ToSet(mods) \cap Modes
      BY <2>2, <3>2 DEF ToSet, modes, mode
    <3>4. mode # None
      BY <3>3 DEF Modes, None
    <3> QED BY <3>3, <3>4
  <2> QED BY <2>1, <2>2
<1> QED BY <1>4, <1>6, <1>7 DEF KeyType, ModeNoted

-----------------------------------------------------------------------------
(***************************************************************************)
(* What an option changes                                                  *)
(***************************************************************************)

\* One more key.
LEMMA KeyAdded ==
  ASSUME OptsOK, NEW k \in KeyType, ModeNoted(k), opts' = [opts EXCEPT !.keys = Append(@, k)]
  PROVE  OptsOK'
<1>1. /\ opts'.keys = Append(opts.keys, k) /\ DOMAIN opts' = DOMAIN opts
      /\ opts'.mode = opts.mode /\ opts'.mode_flags = opts.mode_flags
      /\ opts'.flags = opts.flags /\ opts'.check = opts.check
  BY DEF OptsOK
<1>2. Append(opts.keys, k) \in Seq(KeyType)
  BY DEF OptsOK
<1>3. \A q \in ToSet(Append(opts.keys, k)) : q = k \/ q \in ToSet(opts.keys)
  BY AppendedMembers DEF OptsOK
<1> QED BY <1>1, <1>2, <1>3 DEF OptsOK, ModeNoted

\* One more ordering for the whole command.
LEMMA OrderingAdded ==
  ASSUME OptsOK, NEW m \in Modes,
         opts' = [opts EXCEPT !.mode = m, !.mode_flags = @ \cup {m}]
  PROVE  OptsOK'
<1>1. /\ DOMAIN opts' = DOMAIN opts /\ opts'.keys = opts.keys
      /\ opts'.mode = m /\ opts'.mode_flags = opts.mode_flags \cup {m}
      /\ opts'.flags = opts.flags /\ opts'.check = opts.check
  BY DEF OptsOK
<1>2. m # None
  BY DEF Modes, None
<1> QED BY <1>1, <1>2 DEF OptsOK, ModeNoted

\* Options that say nothing about the order.
LEMMA OptsStay ==
  ASSUME OptsOK, DOMAIN opts' = DOMAIN opts, opts'.keys = opts.keys,
         opts'.mode = opts.mode, opts'.mode_flags = opts.mode_flags,
         opts'.flags \subseteq Flags, opts'.check \in Checks \cup {None}
  PROVE  OptsOK'
  BY DEF OptsOK, ModeNoted

\* A letter that takes no value.
LEMMA LetterOK ==
  ASSUME OptsOK, NEW l \in Flags \cup Modes \cup Checks, opts' = WithLetter(l)
  PROVE  OptsOK'
<1>1. CASE l \in Flags
  <2>1. opts' = [opts EXCEPT !.flags = @ \cup {l}]
    BY <1>1 DEF WithLetter, Flags, Modes, Checks
  <2> QED BY <1>1, <2>1, OptsStay DEF OptsOK
<1>2. CASE l \in Modes
  <2>1. opts' = [opts EXCEPT !.mode = l, !.mode_flags = @ \cup {l}]
    BY <1>2 DEF WithLetter, Flags, Modes, Checks
  <2> QED BY <1>2, <2>1, OrderingAdded
<1>3. CASE l \in Checks
  <2>1. opts' = [opts EXCEPT !.check = l]
    BY <1>3 DEF WithLetter, Flags, Modes, Checks
  <2> QED BY <1>3, <2>1, OptsStay DEF OptsOK
<1> QED BY <1>1, <1>2, <1>3

\* An option with its value.
LEMMA ValueOK ==
  ASSUME OptsOK, NEW l \in TakesValue, NEW value \in Vocabulary,
         Accepts(l, value), opts' = WithValue(l, value)
  PROVE  OptsOK'
<1> USE DEF TakesValue, Named, Counts
<1>1. CASE l = "k"
  <2>1. IsKey(Words[value].key) /\ opts' = [opts EXCEPT !.keys = Append(@, ParsedKey(Words[value].key))]
    BY <1>1 DEF Accepts, WithValue
  <2> QED BY <2>1, WordTyped, ParsedKeyTyped, KeyAdded
<1>2. CASE l = "sort"
  <2>1. /\ Words[value].mode # None
        /\ opts' = [opts EXCEPT !.mode = Words[value].mode,
                                !.mode_flags = @ \cup {Words[value].mode}]
    BY <1>2 DEF Accepts, WithValue
  <2>2. Words[value].mode \in Modes
    BY <2>1, WordTyped
  <2> QED BY <2>1, <2>2, OrderingAdded
<1>3. CASE l \notin {"k", "sort"}
  <2>1. /\ DOMAIN opts' = DOMAIN opts /\ opts'.keys = opts.keys
        /\ opts'.mode = opts.mode /\ opts'.mode_flags = opts.mode_flags
        /\ opts'.flags = opts.flags /\ opts'.check \in Checks \cup {None}
    <3>1. CASE l \in Counts
      BY <3>1 DEF WithValue, OptsOK
    <3>2. CASE l \in Named
      BY <3>2 DEF WithValue, OptsOK
    <3>3. CASE l \in {"t", "S", "T"}
      BY <3>3 DEF WithValue, OptsOK
    <3>4. CASE l = "check="
      <4>1. opts' = [opts EXCEPT !.check = Words[value].check]
        BY <3>4 DEF WithValue
      <4> QED BY <4>1, WordTyped DEF OptsOK
    <3> QED BY <1>3, <3>1, <3>2, <3>3, <3>4
  <2> QED BY <2>1, OptsStay DEF OptsOK
<1> QED BY <1>1, <1>2, <1>3

-----------------------------------------------------------------------------
(***************************************************************************)
(* Every step                                                              *)
(***************************************************************************)

CInv == ArgsOK /\ OptsOK /\ OrderingsOK

LEMMA InitCInv == Init => CInv
<1> SUFFICES ASSUME Init PROVE CInv
  OBVIOUS
<1>1. ArgsOK
  BY CommandAssumption DEF Init, CommandInit, ArgsOK, Vocabulary
<1>2. OptsOK
  BY DEF Init, CommandInit, OptsOK, Defaults, ModeNoted, ToSet
<1>3. OrderingsOK
  BY DEF Init, CommandInit, OrderingsOK, Checked
<1> QED BY <1>1, <1>2, <1>3 DEF CInv

\* Nothing is read any more, and nothing is checked.
LEMMA LaterCInv ==
  ASSUME CInv, opts' = opts, stage' # "parse", stage' # "defaults",
         stage' \in Checked => stage \in Checked
  PROVE  CInv'
  BY DEF CInv, ArgsOK, OptsOK, ModeNoted, OrderingsOK

LEMMA RefuseCInv == CInv /\ Refuse => CInv'
  BY LaterCInv DEF Refuse, Checked

\* While arguments are read the orderings need not go together.
LEMMA ParsingCInv ==
  ASSUME CInv, stage = "parse", stage' = "parse", OptsOK', ArgsOK'
  PROVE  CInv'
  BY DEF CInv, OrderingsOK, Checked

\* An argument or two have been read.
LEMMA ArgumentsRead ==
  ASSUME ArgsOK, stage = "parse", at' \in {at, at + 1, at + 2},
         at' <= Len(args) + 1, UNCHANGED <<args, given, operands>>
  PROVE  ArgsOK'
  BY DEF ArgsOK

\* An obsolete position that is one is one of the new form.
LEMMA TranslatedTyped ==
  ASSUME NEW p, NEW is_end, IsPosition(Translated(p, is_end))
  PROVE  Translated(p, is_end) \in PositionType
<1> DEFINE t == Translated(p, is_end)
<1>1. t = [field |-> t.field, char |-> t.char, mods |-> <<>>]
  BY DEF Translated
<1>2. t.field \in Int /\ t.char \in Int
  BY CommandAssumption DEF IsPosition, IsSize, Absent
<1>3. \A f \in Int, c \in Int : [field |-> f, char |-> c, mods |-> <<>>] \in PositionType
  BY DEF PositionType
<1> HIDE DEF t
<1>4. t \in PositionType
  BY <1>1, <1>2, <1>3
<1> QED BY <1>4 DEF t

LEMMA ReadObsoleteKeyCInv == CInv /\ ReadObsoleteKey => CInv'
<1> SUFFICES ASSUME CInv, ReadObsoleteKey, ~Refuse PROVE CInv'
  BY RefuseCInv
<1> DEFINE paired == at < Len(args) /\ Words[args[at + 1]].form = "minus"
           start == Translated(Word.key[1], FALSE)
           end == Translated(Words[args[at + 1]].key[1], TRUE)
           text == <<start>> \o IF paired THEN <<end>> ELSE <<>>
<1>1. /\ IsKey(text) /\ opts' = [opts EXCEPT !.keys = Append(@, ParsedKey(text))]
      /\ at' = (IF paired THEN at + 2 ELSE at + 1) /\ at <= Len(args)
      /\ stage = "parse" /\ UNCHANGED <<stage, given, args, operands>>
  BY DEF ReadObsoleteKey, Reading
<1>2. IsPosition(start) => start \in PositionType
  BY TranslatedTyped
<1>3. IsPosition(end) => end \in PositionType
  BY TranslatedTyped
<1> HIDE DEF start, end
<1>4. text \in Seq(PositionType)
  <2>1. CASE paired
    <3>1. text = <<start>> \o <<end>>
      BY <2>1
    <3> HIDE DEF text
    <3>2. DOMAIN text = 1 .. 2 /\ text[1] = start /\ text[2] = end
      BY <3>1
    <3>3. start \in PositionType /\ end \in PositionType
      BY <1>1, <1>2, <1>3, <3>2 DEF IsKey, ToSet
    <3> QED BY <3>1, <3>3, Joined
  <2>2. CASE ~paired
    <3>1. text = <<start>> \o <<>>
      BY <2>2
    <3> HIDE DEF text
    <3>2. DOMAIN text = 1 .. 1 /\ text[1] = start
      BY <3>1
    <3>3. start \in PositionType
      BY <1>1, <1>2, <3>2 DEF IsKey, ToSet
    <3> QED BY <3>1, <3>3, Joined
  <2> QED BY <2>1, <2>2
<1> HIDE DEF text
<1>5. OptsOK'
  BY <1>1, <1>4, ParsedKeyTyped, KeyAdded DEF CInv
<1>6. at' \in {at + 1, at + 2} /\ at' <= Len(args) + 1
  BY <1>1 DEF CInv, ArgsOK
<1>7. ArgsOK'
  BY <1>1, <1>6, ArgumentsRead DEF CInv
<1> QED BY <1>1, <1>5, <1>7, ParsingCInv

LEMMA ReadOperandCInv == CInv /\ ReadOperand => CInv'
<1> SUFFICES ASSUME CInv, ReadOperand PROVE CInv'
  OBVIOUS
<1>1. /\ stage = "parse" /\ at <= Len(args) /\ args' = [args EXCEPT ![operands + 1] = args[at]]
      /\ operands' = operands + 1 /\ at' = at + 1 /\ UNCHANGED <<stage, given, opts>>
  BY DEF ReadOperand, Reading
<1>2. /\ args \in Seq(Vocabulary) /\ Len(args) = Len(given) /\ Len(args) \in Nat
      /\ operands \in Nat /\ at \in Nat \ {0} /\ operands < at
      /\ given \in Seq(Vocabulary) /\ \A p \in at .. Len(given) : args[p] = given[p]
  BY <1>1 DEF CInv, ArgsOK
<1>3. /\ args[at] \in Vocabulary /\ operands + 1 \in 1 .. Len(args)
  BY <1>1, <1>2
<1>4. /\ args' \in Seq(Vocabulary) /\ Len(args') = Len(args)
      /\ \A p \in 1 .. Len(args) : p # operands + 1 => args'[p] = args[p]
  BY <1>1, <1>2, <1>3
<1>5. \A p \in at' .. Len(given) : args'[p] = given[p]
  BY <1>1, <1>2, <1>4
<1>6. ArgsOK'
  BY <1>1, <1>2, <1>4, <1>5 DEF ArgsOK
<1>7. OptsOK'
  BY <1>1, OptsStay DEF CInv, OptsOK
<1> QED BY <1>1, <1>6, <1>7, ParsingCInv

LEMMA EndOptionsCInv == CInv /\ EndOptions => CInv'
<1> SUFFICES ASSUME CInv, EndOptions PROVE CInv'
  OBVIOUS
<1>1. /\ stage = "parse" /\ at <= Len(args) /\ operands' = operands + (Len(args) - at)
      /\ args' = [p \in DOMAIN args |-> IF p - operands \in 1 .. Len(args) - at
                                        THEN args[at + (p - operands)] ELSE args[p]]
      /\ at' = Len(args) + 1 /\ UNCHANGED <<stage, given, opts>>
  BY DEF EndOptions, Reading
<1>2. /\ args \in Seq(Vocabulary) /\ Len(args) = Len(given) /\ Len(args) \in Nat
      /\ operands \in Nat /\ at \in Nat \ {0} /\ operands < at /\ given \in Seq(Vocabulary)
      /\ DOMAIN args = 1 .. Len(args)
  BY <1>1 DEF CInv, ArgsOK
<1>3. ASSUME NEW p \in 1 .. Len(args) PROVE args'[p] \in Vocabulary
  <2>1. args'[p] = IF p - operands \in 1 .. Len(args) - at THEN args[at + (p - operands)] ELSE args[p]
    BY <1>1, <1>2
  <2>2. \A q \in 1 .. Len(args) : args[q] \in Vocabulary
    BY <1>2
  <2>3. CASE p - operands \in 1 .. Len(args) - at
    <3>1. at + (p - operands) \in 1 .. Len(args)
      BY <1>2, <2>3
    <3> QED BY <2>1, <2>2, <2>3, <3>1
  <2>4. CASE p - operands \notin 1 .. Len(args) - at
    BY <2>1, <2>2, <2>4
  <2> QED BY <2>3, <2>4
<1>4. args' \in Seq(Vocabulary) /\ Len(args') = Len(args)
  <2>1. args' = [p \in 1 .. Len(args) |-> args'[p]]
    BY <1>1, <1>2, Zenon
  <2> QED BY <2>1, <1>2, <1>3
<1>5. ArgsOK'
  BY <1>1, <1>2, <1>4 DEF ArgsOK
<1>6. OptsOK'
  BY <1>1, OptsStay DEF CInv, OptsOK
<1> QED BY <1>1, <1>5, <1>6, ParsingCInv

LEMMA ReadLetterCInv == CInv /\ ReadLetter => CInv'
<1> SUFFICES ASSUME CInv, ReadLetter PROVE CInv'
  OBVIOUS
<1>1. /\ stage = "parse" /\ Word.letters[letter] \in Flags \cup Modes \cup Checks
      /\ opts' = WithLetter(Word.letters[letter])
      /\ at <= Len(args) /\ at' \in {at, at + 1} /\ UNCHANGED <<stage, given, args, operands>>
  BY DEF ReadLetter, Reading
<1>2. OptsOK'
  BY <1>1, LetterOK DEF CInv
<1>3. ArgsOK'
  <2>1. at' <= Len(args) + 1
    BY <1>1 DEF CInv, ArgsOK
  <2> QED BY <1>1, <2>1, ArgumentsRead DEF CInv
<1> QED BY <1>1, <1>2, <1>3, ParsingCInv

LEMMA ReadValueCInv == CInv /\ ReadValue => CInv'
<1> SUFFICES ASSUME CInv, ReadValue, ~Refuse PROVE CInv'
  BY RefuseCInv
<1> DEFINE l == Word.letters[letter]
           attached == Word.attached # None
           value == IF attached THEN Word.attached ELSE args[at + 1]
<1>1. /\ stage = "parse" /\ at <= Len(args) /\ l \in TakesValue
      /\ attached \/ at < Len(args)
      /\ Accepts(l, value) /\ opts' = WithValue(l, value)
      /\ at' = (IF attached THEN at + 1 ELSE at + 2) /\ UNCHANGED <<stage, given, args, operands>>
  BY DEF ReadValue, Reading
<1>2. args \in Seq(Vocabulary) /\ at \in Nat \ {0}
  BY <1>1 DEF CInv, ArgsOK
<1>3. value \in Vocabulary
  <2>1. CASE attached
    <3>1. args[at] \in Vocabulary
      BY <1>1, <1>2
    <3> QED BY <2>1, <3>1, WordTyped DEF Word
  <2>2. CASE ~attached
    BY <1>1, <1>2, <2>2
  <2> QED BY <2>1, <2>2
<1> HIDE DEF value, l, attached
<1>4. OptsOK'
  BY <1>1, <1>3, ValueOK DEF CInv
<1>5. ArgsOK'
  <2>1. at' \in {at + 1, at + 2} /\ at' <= Len(args) + 1
    BY <1>1 DEF CInv, ArgsOK
  <2> QED BY <1>1, <2>1, ArgumentsRead DEF CInv
<1> QED BY <1>1, <1>4, <1>5, ParsingCInv

LEMMA LoadFiles0CInv == CInv /\ LoadFiles0 => CInv'
<1> SUFFICES ASSUME CInv, LoadFiles0, ~Refuse PROVE CInv'
  BY RefuseCInv
<1>1. opts' = opts /\ stage' = "check"
  BY DEF LoadFiles0
<1> QED BY <1>1, LaterCInv DEF Checked

LEMMA CheckOrderingCInv == CInv /\ CheckOrdering => CInv'
<1> SUFFICES ASSUME CInv, CheckOrdering, ~Refuse PROVE CInv'
  BY RefuseCInv
<1>1. /\ stage' = "defaults" /\ opts' = opts /\ Compatible(opts.mode_flags, opts.flags)
      /\ \A k \in ToSet(opts.keys) : Compatible(k.mode_flags, k.flags)
  BY DEF CheckOrdering
<1>2. OptsOK'
  BY <1>1, OptsStay DEF CInv, OptsOK
<1> QED BY <1>1, <1>2 DEF CInv, ArgsOK, OrderingsOK

\* Of the flags, only -d and -i count for what goes together.
LEMMA CompatibleRestricted ==
  ASSUME NEW modes, NEW flags, Compatible(modes, flags)
  PROVE  Compatible(modes, flags \cap {"d", "f", "i", "r"})
<1>1. (flags \cap {"d", "f", "i", "r"}) \cap {"d", "i"} = flags \cap {"d", "i"}
  OBVIOUS
<1> QED BY <1>1 DEF Compatible

\* A key keeps what it has, or has what the command says and nothing else.
LEMMA InheritedOK ==
  ASSUME OptsOK, Compatible(opts.mode_flags, opts.flags),
         NEW key \in KeyType, ModeNoted(key), Compatible(key.mode_flags, key.flags)
  PROVE  /\ Inherited(key) \in KeyType /\ ModeNoted(Inherited(key))
         /\ Compatible(Inherited(key).mode_flags, Inherited(key).flags)
<1>1. CASE ~Plain(key)
  BY <1>1 DEF Inherited
<1>2. CASE Plain(key)
  <2> DEFINE new == Inherited(key)
  <2>1. new = [key EXCEPT !.mode = opts.mode, !.mode_flags = opts.mode_flags,
                          !.flags = opts.flags \cap {"d", "f", "i", "r"},
                          !.start_blanks = "b" \in opts.flags, !.end_blanks = "b" \in opts.flags]
    BY <1>2 DEF Inherited
  <2> HIDE DEF new
  <2>2. /\ new.mode = opts.mode /\ new.mode_flags = opts.mode_flags
        /\ new.flags = opts.flags \cap {"d", "f", "i", "r"}
    BY <2>1 DEF KeyType
  <2>3. new \in KeyType
    <3>1. /\ opts.mode \in Modes \cup {None} /\ opts.mode_flags \in SUBSET Modes
          /\ opts.flags \cap {"d", "f", "i", "r"} \in SUBSET {"d", "f", "i", "r"}
          /\ ("b" \in opts.flags) \in BOOLEAN
      BY DEF OptsOK
    <3>2. new = [start |-> key.start, start_char |-> key.start_char,
                 start_blanks |-> "b" \in opts.flags,
                 end |-> key.end, end_char |-> key.end_char, end_blanks |-> "b" \in opts.flags,
                 flags |-> opts.flags \cap {"d", "f", "i", "r"},
                 mode |-> opts.mode, mode_flags |-> opts.mode_flags]
      BY <2>1 DEF KeyType
    <3> QED BY <3>1, <3>2 DEF KeyType
  <2>4. ModeNoted(new)
    BY <2>2 DEF ModeNoted, OptsOK
  <2>5. Compatible(new.mode_flags, new.flags)
    BY <2>2, CompatibleRestricted
  <2> QED BY <2>3, <2>4, <2>5 DEF new
<1> QED BY <1>1, <1>2

LEMMA ApplyKeyDefaultsCInv == CInv /\ ApplyKeyDefaults => CInv'
<1> SUFFICES ASSUME CInv, ApplyKeyDefaults PROVE CInv'
  OBVIOUS
<1> DEFINE keys == [k \in DOMAIN opts.keys |-> Inherited(opts.keys[k])]
<1>1. /\ stage = "defaults" /\ stage' = "operands"
      /\ opts' = [opts EXCEPT !.keys = keys]
  BY DEF ApplyKeyDefaults
<1>2. /\ OptsOK /\ Compatible(opts.mode_flags, opts.flags)
      /\ \A k \in ToSet(opts.keys) : ModeNoted(k) /\ Compatible(k.mode_flags, k.flags)
      /\ opts.keys \in Seq(KeyType)
  BY <1>1 DEF CInv, OptsOK, OrderingsOK, Checked
<1>3. \A i \in 1 .. Len(opts.keys) : opts.keys[i] \in KeyType /\ opts.keys[i] \in ToSet(opts.keys)
  BY <1>2 DEF ToSet
<1>4. \A i \in 1 .. Len(opts.keys) :
        /\ Inherited(opts.keys[i]) \in KeyType /\ ModeNoted(Inherited(opts.keys[i]))
        /\ Compatible(Inherited(opts.keys[i]).mode_flags, Inherited(opts.keys[i]).flags)
  BY <1>2, <1>3, InheritedOK
<1>5. DOMAIN opts.keys = 1 .. Len(opts.keys) /\ Len(opts.keys) \in Nat
  BY <1>2
<1>6. keys \in Seq(KeyType)
  BY <1>4, <1>5
<1>7. \A k \in ToSet(keys) : ModeNoted(k) /\ Compatible(k.mode_flags, k.flags)
  BY <1>4, <1>5 DEF ToSet
<1> HIDE DEF keys
<1>8. /\ DOMAIN opts' = DOMAIN opts /\ opts'.keys = keys
      /\ opts'.mode = opts.mode /\ opts'.mode_flags = opts.mode_flags
      /\ opts'.flags = opts.flags /\ opts'.check = opts.check
  BY <1>1, <1>2 DEF OptsOK
<1>9. OptsOK'
  BY <1>2, <1>6, <1>7, <1>8 DEF OptsOK, ModeNoted
<1>10. OrderingsOK' /\ ArgsOK'
  BY <1>1, <1>7, <1>8 DEF OrderingsOK, ArgsOK
<1> QED BY <1>9, <1>10 DEF CInv

LEMMA NextCInv == CInv /\ [Next]_vars => CInv'
<1> SUFFICES ASSUME CInv, [Next]_vars PROVE CInv'
  OBVIOUS
<1>1. CASE UNCHANGED vars
  BY <1>1 DEF vars, command_vars, CInv, ArgsOK, OptsOK, ModeNoted, OrderingsOK
<1>2. CASE CommandNext
  <2>1. CASE ReadUnknown
    BY <2>1, RefuseCInv DEF ReadUnknown
  <2>2. CASE EndParse
    BY <2>2, LaterCInv DEF EndParse, Checked
  <2>3. CASE CheckOperands
    <3>1. CASE opts.check # None /\ operands > 1
      BY <2>3, <3>1, RefuseCInv DEF CheckOperands
    <3>2. CASE ~(opts.check # None /\ operands > 1)
      BY <2>3, <3>2, LaterCInv DEF CheckOperands, Checked
    <3> QED BY <3>1, <3>2
  <2> QED BY <1>2, <2>1, <2>2, <2>3, ReadObsoleteKeyCInv, EndOptionsCInv, ReadOperandCInv,
             ReadLetterCInv, ReadValueCInv, LoadFiles0CInv, CheckOrderingCInv, ApplyKeyDefaultsCInv
          DEF CommandNext
<1>3. CASE ReadLines
  BY <1>3, LaterCInv DEF ReadLines, Checked
<1>4. CASE SeedFails
  BY <1>4, RefuseCInv DEF SeedFails
<1>5. CASE PrepareLine
  BY <1>5, LaterCInv DEF PrepareLine, Checked
<1> QED BY <1>1, <1>2, <1>3, <1>4, <1>5 DEF Next, Stopped

-----------------------------------------------------------------------------
(***************************************************************************)
(* Results of comparisons                                                  *)
(***************************************************************************)

\* The least of a set of numbers.
LEMMA MinOf ==
  ASSUME NEW T \in SUBSET Nat, T # {}
  PROVE  Min(T) \in T /\ \A y \in T : Min(T) <= y
<1>1. PICK m \in T : \A y \in T : m <= y
  BY LeastNumber
<1> QED BY <1>1, Zenon DEF Min

LEMMA OneResult ==
  ASSUME NEW r, DOMAIN r = {1}
  PROVE  FirstOfResults(r) = r[1]
<1> DEFINE decided == {k \in DOMAIN r : r[k] # 0}
<1>1. CASE r[1] = 0
  BY <1>1 DEF FirstOfResults
<1>2. CASE r[1] # 0
  <2>1. decided = {1}
    BY <1>2
  <2>2. Min(decided) = 1
    BY <2>1, MinOf
  <2> QED BY <2>1, <2>2 DEF FirstOfResults
<1> QED BY <1>1, <1>2

LEMMA TwoResults ==
  ASSUME NEW x, NEW y
  PROVE  FirstOfResults(<<x, y>>) = IF x # 0 THEN x ELSE y
<1> DEFINE r == <<x, y>>
           decided == {k \in DOMAIN r : r[k] # 0}
<1>1. DOMAIN r = {1, 2} /\ r[1] = x /\ r[2] = y
  OBVIOUS
<1>2. FirstOfResults(r) = IF decided = {} THEN 0 ELSE r[Min(decided)]
  BY DEF FirstOfResults
<1> HIDE DEF r
<1>3. CASE x # 0
  <2>1. 1 \in decided /\ decided \subseteq {1, 2}
    BY <1>1, <1>3
  <2>2. decided \in SUBSET Nat /\ decided # {}
    BY <2>1
  <2>3. Min(decided) \in {1, 2} /\ Min(decided) <= 1
    BY <2>1, <2>2, MinOf
  <2>4. Min(decided) = 1
    BY <2>3
  <2> QED BY <1>1, <1>2, <1>3, <2>2, <2>4 DEF r
<1>4. CASE x = 0
  <2>1. CASE y = 0
    BY <1>1, <1>2, <1>4, <2>1 DEF r
  <2>2. CASE y # 0
    <3>1. decided = {2}
      BY <1>1, <1>4, <2>2
    <3>2. Min(decided) = 2
      BY <3>1, MinOf
    <3> QED BY <1>1, <1>2, <1>4, <3>1, <3>2 DEF r
  <2> QED BY <2>1, <2>2
<1> QED BY <1>3, <1>4

LEMMA BytesResult ==
  ASSUME NEW a, NEW b
  PROVE  CompareBytes(a, b) \in {-1, 0, 1}
  BY DEF CompareBytes

\* Without -d, -i and -f a text stays what it is.
LEMMA NothingFiltered ==
  ASSUME NEW flags, ~HasModifiers(flags), NEW text
  PROVE  Filtered(text, ModifiersIn(flags)) = text
<1>1. /\ ~ModifiersIn(flags).dictionary /\ ~ModifiersIn(flags).nonprinting
      /\ ~ModifiersIn(flags).fold
  BY DEF HasModifiers, ModifiersIn
<1> QED BY <1>1 DEF Filtered

-----------------------------------------------------------------------------
(***************************************************************************)
(* Fields                                                                  *)
(***************************************************************************)

Text == Seq(0 .. 255)

LEMMA AllNumbers ==
  ASSUME NEW T \in SUBSET Nat, 0 \in T, \A n \in T : n + 1 \in T
  PROVE  \A n \in Nat : n \in T
<1> SUFFICES ASSUME Nat \ T # {} PROVE FALSE
  OBVIOUS
<1>1. PICK x \in Nat \ T : \A y \in Nat \ T : x <= y
  BY LeastNumber
<1>2. x # 0 /\ x - 1 \in Nat
  OBVIOUS
<1>3. x - 1 \in T
  BY <1>1, <1>2
<1>4. (x - 1) + 1 = x
  OBVIOUS
<1> QED BY <1>3, <1>4

\* What is searched for is found at or behind the place where the search
\* begins.
LEMMA FirstOfInLine ==
  ASSUME NEW text \in Text, NEW from \in 0 .. Len(text), NEW bytes
  PROVE  FirstOf(text, from, bytes) \in from .. Len(text)
<1> DEFINE T == {o \in from .. Len(text) - 1 : text[o + 1] \in bytes} \cup {Len(text)}
<1>1. Len(text) \in Nat
  BY DEF Text
<1>2. T \in SUBSET Nat /\ T # {} /\ \A o \in T : o \in from .. Len(text)
  BY <1>1
<1>3. Min(T) \in T
  BY <1>2, MinOf
<1> QED BY <1>2, <1>3 DEF FirstOf

LEMMA SkipBlanksInLine ==
  ASSUME NEW text \in Text, NEW from \in 0 .. Len(text)
  PROVE  /\ SkipBlanks(text, from) \in from .. Len(text)
         /\ SkipBlanks(text, SkipBlanks(text, from)) = SkipBlanks(text, from)
<1> DEFINE T(f) == {o \in f .. Len(text) - 1 : text[o + 1] \notin Blanks} \cup {Len(text)}
           m == Min(T(from))
<1>1. Len(text) \in Nat
  BY DEF Text
<1>2. T(from) \in SUBSET Nat /\ T(from) # {} /\ \A o \in T(from) : o \in from .. Len(text)
  BY <1>1
<1>3. m \in T(from) /\ \A y \in T(from) : m <= y
  BY <1>2, MinOf
<1>4. m \in from .. Len(text)
  BY <1>2, <1>3
<1> HIDE DEF m
<1>5. T(m) \in SUBSET Nat /\ m \in T(m) /\ T(m) \subseteq T(from)
  BY <1>1, <1>3, <1>4
<1>6. Min(T(m)) \in T(m) /\ \A y \in T(m) : Min(T(m)) <= y
  BY <1>5, MinOf
<1>7. Min(T(m)) = m
  BY <1>3, <1>4, <1>5, <1>6
<1> QED BY <1>4, <1>7 DEF SkipBlanks, m

\* The ends of the words of a text, up to the m-th.
WordEnds(text, m, e) ==
  e = [f \in 0 .. m |-> IF f = 0 THEN 0 ELSE SkipWord(text, SkipBlanks(text, e[f - 1]))]

LEMMA WordEndsExist ==
  ASSUME NEW text, NEW n \in Nat
  PROVE  \E e : WordEnds(text, n, e)
<1> DEFINE T == {m \in Nat : \E e : WordEnds(text, m, e)}
<1>1. 0 \in T
  <2> DEFINE e == [f \in 0 .. 0 |-> 0]
  <2>1. WordEnds(text, 0, e)
    BY DEF WordEnds
  <2> HIDE DEF e
  <2> QED BY <2>1
<1>2. ASSUME NEW m \in T PROVE m + 1 \in T
  <2>1. PICK g : WordEnds(text, m, g)
    OBVIOUS
  <2> DEFINE next(x) == SkipWord(text, SkipBlanks(text, x))
             e == [f \in 0 .. m + 1 |-> IF f = 0 THEN 0 ELSE next(g[f - 1])]
  <2>2. ASSUME NEW f \in 0 .. m PROVE e[f] = g[f]
    <3>1. f \in 0 .. m + 1
      OBVIOUS
    <3>2. g[f] = IF f = 0 THEN 0 ELSE next(g[f - 1])
      BY <2>1, Zenon DEF WordEnds
    <3> QED BY <3>1, <3>2, Zenon
  <2>3. \A f \in 0 .. m + 1 : f # 0 => f - 1 \in 0 .. m
    OBVIOUS
  <2>4. \A f \in 0 .. m + 1 : e[f] = IF f = 0 THEN 0 ELSE next(e[f - 1])
    BY <2>2, <2>3
  <2>5. WordEnds(text, m + 1, e)
    BY <2>4 DEF WordEnds
  <2> HIDE DEF e
  <2> QED BY <2>5
<1> HIDE DEF T
<1>3. \A m \in Nat : m \in T
  BY <1>1, <1>2, AllNumbers DEF T
<1> QED BY <1>3 DEF T

LEMMA WordEndsInLine ==
  ASSUME NEW text \in Text, NEW n \in Nat, NEW e, WordEnds(text, n, e)
  PROVE  \A f \in 0 .. n : e[f] \in 0 .. Len(text)
<1>1. \A f \in 0 .. n : e[f] = IF f = 0 THEN 0 ELSE SkipWord(text, SkipBlanks(text, e[f - 1]))
  BY Zenon DEF WordEnds
<1>2. Len(text) \in Nat
  BY DEF Text
<1> DEFINE T == {m \in Nat : m <= n => e[m] \in 0 .. Len(text)}
<1>3. 0 \in T
  BY <1>1, <1>2
<1>4. ASSUME NEW m \in T PROVE m + 1 \in T
  <2> SUFFICES ASSUME m + 1 <= n PROVE e[m + 1] \in 0 .. Len(text)
    OBVIOUS
  <2>1. m \in Nat /\ e[m] \in 0 .. Len(text) /\ m + 1 \in 0 .. n /\ m + 1 # 0 /\ (m + 1) - 1 = m
    OBVIOUS
  <2>2. e[m + 1] = SkipWord(text, SkipBlanks(text, e[m]))
    BY <1>1, <2>1
  <2>3. SkipBlanks(text, e[m]) \in 0 .. Len(text)
    BY <1>2, <2>1, SkipBlanksInLine
  <2>4. SkipWord(text, SkipBlanks(text, e[m])) \in 0 .. Len(text)
    BY <1>2, <2>3, FirstOfInLine DEF SkipWord
  <2> QED BY <2>2, <2>4
<1> HIDE DEF T
<1>5. \A m \in Nat : m \in T
  BY <1>3, <1>4, AllNumbers DEF T
<1> QED BY <1>5 DEF T

\* Where a field of words begins: with its blanks or behind them, which does
\* not matter to where it ends.
LEMMA BlankFieldFound ==
  ASSUME NEW text \in Text, NEW field \in Nat \ {0}
  PROVE  \E b \in 0 .. Len(text) : \A ignore \in BOOLEAN :
           BlankFieldStart(text, field, ignore) \in {b, SkipBlanks(text, b)}
<1> DEFINE e == CHOOSE end : end = [f \in 0 .. field |->
                  IF f = 0 THEN 0 ELSE SkipWord(text, SkipBlanks(text, end[f - 1]))]
           b == e[field - 1]
<1>1. WordEnds(text, field, e)
  <2>1. \E end : WordEnds(text, field, end)
    BY WordEndsExist
  <2> QED BY <2>1, Zenon DEF WordEnds
<1>2. \A ignore : BlankFieldStart(text, field, ignore) =
        IF SkipBlanks(text, b) = Len(text) \/ ignore THEN SkipBlanks(text, b) ELSE b
  BY DEF BlankFieldStart
<1> HIDE DEF e
<1>3. b \in 0 .. Len(text)
  <2>1. field - 1 \in 0 .. field
    OBVIOUS
  <2> QED BY <1>1, <2>1, WordEndsInLine
<1> QED BY <1>2, <1>3

\* The starts of the fields between separators, up to the m-th.
FieldStarts(text, sep, m, e) ==
  e = [f \in 1 .. m |-> IF f = 1 THEN 0
                        ELSE LET hit == FirstOf(text, e[f - 1], {sep})
                             IN  IF hit = Len(text) THEN hit ELSE hit + 1]

LEMMA FieldStartsExist ==
  ASSUME NEW text, NEW sep, NEW n \in Nat
  PROVE  \E e : FieldStarts(text, sep, n, e)
<1> DEFINE T == {m \in Nat : \E e : FieldStarts(text, sep, m, e)}
<1>1. 0 \in T
  <2> DEFINE e == [f \in 1 .. 0 |-> 0]
  <2>1. FieldStarts(text, sep, 0, e)
    BY DEF FieldStarts
  <2> HIDE DEF e
  <2> QED BY <2>1
<1>2. ASSUME NEW m \in T PROVE m + 1 \in T
  <2>1. PICK g : FieldStarts(text, sep, m, g)
    OBVIOUS
  <2> DEFINE next(x) == LET hit == FirstOf(text, x, {sep}) IN IF hit = Len(text) THEN hit ELSE hit + 1
             e == [f \in 1 .. m + 1 |-> IF f = 1 THEN 0 ELSE next(g[f - 1])]
  <2>2. ASSUME NEW f \in 1 .. m PROVE e[f] = g[f]
    <3>1. f \in 1 .. m + 1
      OBVIOUS
    <3>2. g[f] = IF f = 1 THEN 0 ELSE next(g[f - 1])
      BY <2>1, Zenon DEF FieldStarts
    <3> QED BY <3>1, <3>2, Zenon
  <2>3. \A f \in 1 .. m + 1 : f # 1 => f - 1 \in 1 .. m
    OBVIOUS
  <2>4. \A f \in 1 .. m + 1 : e[f] = IF f = 1 THEN 0 ELSE next(e[f - 1])
    <3> HIDE DEF next
    <3> QED BY <2>2, <2>3
  <2>5. FieldStarts(text, sep, m + 1, e)
    BY <2>4 DEF FieldStarts
  <2> HIDE DEF e
  <2> QED BY <2>5
<1> HIDE DEF T
<1>3. \A m \in Nat : m \in T
  BY <1>1, <1>2, AllNumbers DEF T
<1> QED BY <1>3 DEF T

LEMMA FieldStartsInLine ==
  ASSUME NEW text \in Text, NEW sep, NEW n \in Nat, NEW e, FieldStarts(text, sep, n, e)
  PROVE  \A f \in 1 .. n : e[f] \in 0 .. Len(text)
<1> DEFINE next(x) == LET hit == FirstOf(text, x, {sep}) IN IF hit = Len(text) THEN hit ELSE hit + 1
<1>1. \A f \in 1 .. n : e[f] = IF f = 1 THEN 0 ELSE next(e[f - 1])
  BY Zenon DEF FieldStarts
<1>2. Len(text) \in Nat
  BY DEF Text
<1> DEFINE T == {m \in Nat : m + 1 <= n => e[m + 1] \in 0 .. Len(text)}
<1>3. 0 \in T
  <2> HIDE DEF next
  <2>1. 1 <= n => e[1] = 0
    BY <1>1
  <2> QED BY <1>2, <2>1
<1>4. ASSUME NEW m \in T PROVE m + 1 \in T
  <2> SUFFICES ASSUME m + 2 <= n PROVE e[m + 2] \in 0 .. Len(text)
    OBVIOUS
  <2>1. m \in Nat /\ e[m + 1] \in 0 .. Len(text) /\ m + 2 \in 1 .. n /\ m + 2 # 1 /\ (m + 2) - 1 = m + 1
    OBVIOUS
  <2>2. e[m + 2] = next(e[m + 1])
    <3> HIDE DEF next
    <3> QED BY <1>1, <2>1
  <2>3. FirstOf(text, e[m + 1], {sep}) \in 0 .. Len(text)
    BY <1>2, <2>1, FirstOfInLine
  <2>4. next(e[m + 1]) \in 0 .. Len(text)
    BY <1>2, <2>3
  <2> QED BY <2>2, <2>4
<1> HIDE DEF T
<1>5. \A m \in Nat : m \in T
  BY <1>3, <1>4, AllNumbers DEF T
<1>6. \A f \in 1 .. n : f - 1 \in Nat /\ (f - 1) + 1 = f
  OBVIOUS
<1> QED BY <1>5, <1>6 DEF T

LEMMA ExplicitFieldInLine ==
  ASSUME NEW text \in Text, NEW sep, NEW field \in Nat \ {0}
  PROVE  ExplicitFieldStart(text, sep, field) \in 0 .. Len(text)
<1> DEFINE e == CHOOSE start : start = [f \in 1 .. field |->
                  IF f = 1 THEN 0
                  ELSE LET hit == FirstOf(text, start[f - 1], {sep})
                       IN  IF hit = Len(text) THEN hit ELSE hit + 1]
<1>1. FieldStarts(text, sep, field, e)
  <2>1. \E start : FieldStarts(text, sep, field, start)
    BY FieldStartsExist
  <2> QED BY <2>1, Zenon DEF FieldStarts
<1>2. ExplicitFieldStart(text, sep, field) = e[field]
  BY DEF ExplicitFieldStart
<1> HIDE DEF e
<1>3. field \in 1 .. field
  OBVIOUS
<1> QED BY <1>1, <1>2, <1>3, FieldStartsInLine

\* A key that is one field, as SimpleKey asks for.
OneField(sep, key) ==
  /\ key.start \in Nat \ {0} /\ key.end = key.start
  /\ key.start_blanks \in BOOLEAN /\ key.end_blanks \in BOOLEAN
  /\ key.start_char \in Int /\ key.end_char \in Int
  /\ key.start_char < 0 /\ key.end_char < 0
  /\ sep # NoSeparator => ~key.start_blanks /\ ~key.end_blanks

\* rank_simple_key_span finds such a key where extract_key_span does.
LEMMA SimpleSpanIsSpan ==
  ASSUME NEW text \in Text, NEW sep, NEW key, OneField(sep, key)
  PROVE  SimpleSpan(text, sep, key) = UncachedSpan(text, sep, key)
<1> DEFINE start == FieldStart(text, sep, key.start, key.start_blanks)
           limit == IF sep = NoSeparator THEN BlankFieldEnd(text, start)
                    ELSE ExplicitFieldEnd(text, sep, start)
           end_start == FieldStart(text, sep, key.end, key.end_blanks)
           end_end == IF sep = NoSeparator THEN BlankFieldEnd(text, end_start)
                      ELSE ExplicitFieldEnd(text, sep, ExplicitFieldStart(text, sep, key.end))
<1>1. Len(text) \in Nat
  BY DEF Text
<1>2. start \in 0 .. Len(text) /\ limit \in 0 .. Len(text) /\ end_end = limit
  <2>1. CASE sep = NoSeparator
    <3>1. PICK b \in 0 .. Len(text) : \A ignore \in BOOLEAN :
            BlankFieldStart(text, key.start, ignore) \in {b, SkipBlanks(text, b)}
      BY BlankFieldFound DEF OneField
    <3>2. start \in {b, SkipBlanks(text, b)} /\ end_start \in {b, SkipBlanks(text, b)}
      BY <2>1, <3>1 DEF OneField, FieldStart
    <3> HIDE DEF start, end_start
    <3>3. SkipBlanks(text, b) \in 0 .. Len(text)
      BY <1>1, <3>1, SkipBlanksInLine
    <3>4. SkipBlanks(text, start) = SkipBlanks(text, b) /\ SkipBlanks(text, end_start) = SkipBlanks(text, b)
      BY <3>1, <3>2, SkipBlanksInLine
    <3>5. SkipWord(text, SkipBlanks(text, b)) \in 0 .. Len(text)
      BY <1>1, <3>3, FirstOfInLine DEF SkipWord
    <3> QED BY <1>1, <2>1, <3>1, <3>2, <3>3, <3>4, <3>5 DEF BlankFieldEnd
  <2>2. CASE sep # NoSeparator
    <3>1. start = ExplicitFieldStart(text, sep, key.start)
      BY <2>2 DEF OneField, FieldStart
    <3>2. start \in 0 .. Len(text)
      BY <3>1, ExplicitFieldInLine DEF OneField
    <3>3. end_end = limit
      BY <2>2, <3>1 DEF OneField
    <3>4. ExplicitFieldEnd(text, sep, start) \in 0 .. Len(text)
      BY <1>1, <3>2, FirstOfInLine DEF ExplicitFieldEnd
    <3> QED BY <2>2, <3>2, <3>3, <3>4
  <2> QED BY <2>1, <2>2
<1>3. SimpleSpan(text, sep, key) = [from |-> start, upto |-> Max({start, limit})]
  BY DEF SimpleSpan
<1>4. UncachedSpan(text, sep, key) = Span(text, key, start, end_start, end_end)
  BY DEF UncachedSpan, OneField, NoEnd
<1> HIDE DEF start, limit, end_start, end_end
<1>5. Span(text, key, start, end_start, limit) =
        [from |-> Min({start, Len(text)}), upto |-> Max({Min({start, Len(text)}), Min({limit, Len(text)})})]
  <2>1. key.start_char < 0 /\ key.end # NoEnd /\ ~(key.end_char > 0)
    BY DEF OneField, NoEnd
  <2> QED BY <2>1, Zenon DEF Span
<1>6. \A x \in 0 .. Len(text) : Min({x, Len(text)}) = x
  <2> SUFFICES ASSUME NEW x \in 0 .. Len(text) PROVE Min({x, Len(text)}) = x
    OBVIOUS
  <2>1. {x, Len(text)} \in SUBSET Nat /\ {x, Len(text)} # {}
    BY <1>1
  <2>2. Min({x, Len(text)}) \in {x, Len(text)} /\ Min({x, Len(text)}) <= x
    BY <2>1, MinOf
  <2> QED BY <1>1, <2>2
<1> QED BY <1>2, <1>3, <1>4, <1>5, <1>6

-----------------------------------------------------------------------------
(***************************************************************************)
(* Both ways to find a key, and the fields of the definition               *)
(***************************************************************************)

\* The greatest of a bounded set of numbers.
LEMMA MaxOf ==
  ASSUME NEW n \in Nat, NEW T \in SUBSET (0 .. n), T # {}
  PROVE  Max(T) \in T /\ \A y \in T : y <= Max(T)
<1> DEFINE U == {n - p : p \in T}
<1>1. U \in SUBSET Nat /\ U # {}
  <2>1. \A p \in T : n - p \in Nat
    OBVIOUS
  <2> QED BY <2>1
<1>2. PICK x \in U : \A y \in U : x <= y
  BY <1>1, LeastNumber
<1>3. PICK m \in T : x = n - m
  BY <1>2
<1>4. \A p \in T : m >= p
  <2> TAKE p \in T
  <2>1. n - m <= n - p
    BY <1>2, <1>3
  <2> QED BY <2>1
<1>5. Max(T) \in T /\ \A y \in T : Max(T) >= y
  BY <1>4, Zenon DEF Max
<1>6. \A y \in T : y \in Nat
  OBVIOUS
<1> QED BY <1>5, <1>6

-----------------------------------------------------------------------------
(***************************************************************************)
(* Fields, one after the other                                             *)
(***************************************************************************)

\* What a search finds, and what it has passed.
LEMMA FirstFound ==
  ASSUME NEW text \in Text, NEW p \in Nat, NEW bytes
  PROVE  LET m == FirstOf(text, p, bytes)
         IN  /\ m \in 0 .. Len(text)
             /\ m < Len(text) => p <= m /\ text[m + 1] \in bytes
             /\ \A o \in p .. m - 1 : text[o + 1] \notin bytes
<1> DEFINE T == {o \in p .. Len(text) - 1 : text[o + 1] \in bytes} \cup {Len(text)}
           m == Min(T)
<1>1. Len(text) \in Nat
  BY DEF Text
<1>2. T \in SUBSET Nat /\ Len(text) \in T
  BY <1>1
<1>3. m \in T /\ \A y \in T : m <= y
  BY <1>2, MinOf
<1> HIDE DEF m
<1>4. \A o \in p .. m - 1 : text[o + 1] \notin bytes
  <2> SUFFICES ASSUME NEW o \in p .. m - 1, text[o + 1] \in bytes PROVE FALSE
    OBVIOUS
  <2>1. o \in p .. Len(text) - 1
    BY <1>1, <1>2, <1>3
  <2>2. m <= o
    BY <1>3, <2>1
  <2> QED BY <1>2, <1>3, <2>2
<1> QED BY <1>1, <1>2, <1>3, <1>4 DEF FirstOf, m

\* The same for the search for something that is not blank.
LEMMA NonblankFound ==
  ASSUME NEW text \in Text, NEW p \in Nat
  PROVE  LET m == SkipBlanks(text, p)
         IN  /\ m \in 0 .. Len(text)
             /\ m < Len(text) => p <= m /\ text[m + 1] \notin Blanks
             /\ \A o \in p .. m - 1 : text[o + 1] \in Blanks
<1> DEFINE T == {o \in p .. Len(text) - 1 : text[o + 1] \notin Blanks} \cup {Len(text)}
           m == Min(T)
<1>1. Len(text) \in Nat
  BY DEF Text
<1>2. T \in SUBSET Nat /\ Len(text) \in T
  BY <1>1
<1>3. m \in T /\ \A y \in T : m <= y
  BY <1>2, MinOf
<1> HIDE DEF m
<1>4. \A o \in p .. m - 1 : text[o + 1] \in Blanks
  <2> SUFFICES ASSUME NEW o \in p .. m - 1, text[o + 1] \notin Blanks PROVE FALSE
    OBVIOUS
  <2>1. o \in p .. Len(text) - 1
    BY <1>1, <1>2, <1>3
  <2>2. m <= o
    BY <1>3, <2>1
  <2> QED BY <1>2, <1>3, <2>2
<1> QED BY <1>1, <1>2, <1>3, <1>4 DEF SkipBlanks, m

\* Where the search for the field after the one from p on begins.
NextBegin(text, sep, p) ==
  FieldFrom(text, sep, p).end + (IF sep = NoSeparator THEN 0 ELSE 1)

\* An offset the search may come to.
Reached(text, sep, p) ==
  /\ p \in 0 .. Len(text) + 1 /\ (sep = NoSeparator => p <= Len(text))
  /\ IsField(text, sep, p) =>
       IF sep = NoSeparator THEN p = 0 \/ \E v \in WordsOf(text) : p = v[2] + 1
       ELSE p = 0 \/ (p \in 1 .. Len(text) /\ text[p] = sep)

\* What the field from p on is among all fields of the line.
IsNextField(text, sep, p) ==
  LET f == FieldFrom(text, sep, p)
      q == NextBegin(text, sep, p)
  IN  /\ f \in FieldsOf(text, sep) /\ f.start = p
      /\ p < q /\ Reached(text, sep, q)
      /\ \A g \in FieldsOf(text, sep) : g.start < q => g.start < p \/ g = f

\* What stands between separators.
LEMMA ExplicitFieldNext ==
  ASSUME NEW text \in Text, NEW sep, sep # NoSeparator, NEW p,
         Reached(text, sep, p), IsField(text, sep, p)
  PROVE  IsNextField(text, sep, p)
<1> DEFINE cuts == {-1, Len(text)} \cup {o \in 0 .. Len(text) - 1 : text[o + 1] = sep}
           behind(c) == {d \in cuts : d > c}
           field(c) == [start |-> c + 1, word |-> SkipBlanks(text, c + 1), end |-> Min(behind(c))]
           e == FirstOf(text, p, {sep})
           f == FieldFrom(text, sep, p)
           q == NextBegin(text, sep, p)
<1>1. Len(text) \in Nat
  BY DEF Text
<1>2. p \in 0 .. Len(text) /\ (p = 0 \/ (p \in 1 .. Len(text) /\ text[p] = sep))
  BY <1>1 DEF Reached, IsField
<1>3. FieldsOf(text, sep) = {field(c) : c \in cuts \ {Len(text)}}
  BY DEF FieldsOf
<1>4. p - 1 \in cuts \ {Len(text)} /\ (p - 1) + 1 = p
  BY <1>1, <1>2
<1>5. behind(p - 1) = {o \in p .. Len(text) - 1 : text[o + 1] \in {sep}} \cup {Len(text)}
  BY <1>1, <1>2
<1>6. Min(behind(p - 1)) = e
  BY <1>5 DEF FirstOf
<1>7. /\ e \in 0 .. Len(text) /\ (e < Len(text) => p <= e /\ text[e + 1] = sep)
      /\ \A o \in p .. e - 1 : text[o + 1] # sep
  BY <1>2, FirstFound
<1>8. f = field(p - 1) /\ f.start = p /\ q = e + 1
  <2>1. f = [start |-> p, word |-> SkipBlanks(text, p), end |-> e]
    BY DEF FieldFrom
  <2> HIDE DEF f, e, behind
  <2>2. f = field(p - 1)
    BY <1>4, <1>6, <2>1
  <2> QED BY <2>1, <2>2 DEF NextBegin, f
<1> HIDE DEF e, f, q
<1>9. p <= e /\ p < q
  BY <1>1, <1>2, <1>7, <1>8
<1>10. Reached(text, sep, q)
  <2>1. q \in 0 .. Len(text) + 1
    BY <1>1, <1>7, <1>8
  <2>2. ASSUME IsField(text, sep, q) PROVE q \in 1 .. Len(text) /\ text[q] = sep
    <3>1. q <= Len(text)
      BY <2>2 DEF IsField
    <3> QED BY <1>1, <1>7, <1>8, <3>1
  <2> QED BY <2>1, <2>2 DEF Reached
<1>11. ASSUME NEW g \in FieldsOf(text, sep), g.start < q PROVE g.start < p \/ g = f
  <2>1. PICK c \in cuts \ {Len(text)} : g = field(c)
    BY <1>3
  <2> HIDE DEF behind
  <2>2. g.start = c + 1
    BY <2>1
  <2>3. c \in Int /\ c < e
    BY <1>1, <1>7, <1>8, <1>11, <2>2
  <2>4. CASE c < p - 1
    BY <1>2, <2>2, <2>3, <2>4
  <2>5. CASE c = p - 1
    BY <1>8, <2>1, <2>5
  <2>6. CASE c > p - 1
    <3>1. c \in p .. e - 1 /\ c # -1
      BY <1>2, <1>7, <2>3, <2>6
    <3>2. text[c + 1] = sep
      BY <3>1
    <3> QED BY <1>7, <3>1, <3>2
  <2> QED BY <1>2, <2>3, <2>4, <2>5, <2>6
<1>12. f \in FieldsOf(text, sep)
  BY <1>3, <1>4, <1>8
<1> QED BY <1>8, <1>9, <1>10, <1>11, <1>12 DEF IsNextField, f, q

\* Where the field of a word begins.
FieldOfWord(text, w) == Max({0} \cup {v[2] + 1 : v \in {u \in WordsOf(text) : u[2] < w[1]}})

LEMMA FieldOfWordBegins ==
  ASSUME NEW text \in Text, NEW w \in WordsOf(text)
  PROVE  LET T == {0} \cup {v[2] + 1 : v \in {u \in WordsOf(text) : u[2] < w[1]}}
         IN  /\ FieldOfWord(text, w) \in T /\ FieldOfWord(text, w) \in 0 .. w[1]
             /\ \A y \in T : y <= FieldOfWord(text, w)
<1> DEFINE T == {0} \cup {v[2] + 1 : v \in {u \in WordsOf(text) : u[2] < w[1]}}
<1>1. \A u \in WordsOf(text) : u[1] \in Nat /\ u[2] \in Nat
  BY DEF WordsOf
<1>2. w[1] \in Nat /\ T \in SUBSET (0 .. w[1]) /\ T # {}
  BY <1>1
<1>3. Max(T) \in T /\ \A y \in T : y <= Max(T)
  BY <1>2, MaxOf
<1> QED BY <1>2, <1>3 DEF FieldOfWord

\* The field of the next word.
LEMMA BlankFieldNext ==
  ASSUME NEW text \in Text, NEW p, Reached(text, NoSeparator, p), IsField(text, NoSeparator, p)
  PROVE  IsNextField(text, NoSeparator, p)
<1> DEFINE m == SkipBlanks(text, p)
           e == SkipWord(text, m)
           w == <<m, e - 1>>
           f == FieldFrom(text, NoSeparator, p)
           q == NextBegin(text, NoSeparator, p)
           field(u) == [start |-> FieldOfWord(text, u), word |-> u[1], end |-> u[2] + 1]
<1>1. Len(text) \in Nat
  BY DEF Text
<1>2. p \in Nat /\ m < Len(text) /\ (p = 0 \/ \E v \in WordsOf(text) : p = v[2] + 1)
  BY <1>1 DEF Reached, IsField
<1>3. FieldsOf(text, NoSeparator) = {field(u) : u \in WordsOf(text)}
  BY DEF FieldsOf, FieldOfWord
<1>4. /\ m \in Nat /\ p <= m /\ text[m + 1] \notin Blanks
      /\ \A o \in p .. m - 1 : text[o + 1] \in Blanks
  BY <1>2, NonblankFound
<1> HIDE DEF m
<1>5. /\ e \in 0 .. Len(text) /\ (e < Len(text) => m <= e /\ text[e + 1] \in Blanks)
      /\ \A o \in m .. e - 1 : text[o + 1] \notin Blanks
  BY <1>4, FirstFound DEF SkipWord
<1>6. f = [start |-> p, word |-> m, end |-> e] /\ q = e
  <2>1. f = [start |-> p, word |-> m, end |-> e]
    BY DEF FieldFrom, m
  <2> HIDE DEF f, e
  <2> QED BY <1>5, <2>1 DEF NextBegin, f
<1> HIDE DEF e, f, q
<1>7. m < e
  BY <1>1, <1>2, <1>4, <1>5
<1>8. \A u \in WordsOf(text) :
        /\ u = <<u[1], u[2]>> /\ u[1] \in 0 .. Len(text) - 1 /\ u[2] \in 0 .. Len(text) - 1 /\ u[1] <= u[2]
        /\ \A o \in u[1] .. u[2] : text[o + 1] \notin Blanks
        /\ u[1] = 0 \/ text[u[1]] \in Blanks
        /\ u[2] = Len(text) - 1 \/ text[u[2] + 2] \in Blanks
  BY DEF WordsOf
<1>9. w \in WordsOf(text)
  <2>1. m = 0 \/ text[m] \in Blanks
    <3>1. CASE m > p
      <4>1. m - 1 \in p .. m - 1 /\ (m - 1) + 1 = m
        BY <1>2, <1>4, <3>1
      <4> QED BY <1>4, <4>1
    <3>2. CASE m = p /\ p # 0
      <4>1. PICK v \in WordsOf(text) : p = v[2] + 1
        BY <1>2, <3>2
      <4>2. v[2] # Len(text) - 1 /\ v[2] + 2 = m + 1
        BY <1>1, <1>2, <1>8, <3>2, <4>1
      <4> QED BY <1>4, <1>8, <4>1, <4>2
    <3> QED BY <1>2, <1>4, <3>1, <3>2
  <2>2. e - 1 = Len(text) - 1 \/ text[(e - 1) + 2] \in Blanks
    <3>1. (e - 1) + 2 = e + 1
      BY <1>5
    <3> QED BY <1>1, <1>5, <3>1
  <2>3. m \in 0 .. Len(text) - 1 /\ e - 1 \in 0 .. Len(text) - 1 /\ m <= e - 1
    BY <1>1, <1>2, <1>4, <1>5, <1>7
  <2>4. w \in (0 .. Len(text) - 1) \X (0 .. Len(text) - 1) /\ w[1] = m /\ w[2] = e - 1
    BY <2>3
  <2> QED BY <1>5, <2>1, <2>2, <2>3, <2>4 DEF WordsOf
<1>10. w[1] = m /\ w[2] = e - 1
  OBVIOUS
<1> HIDE DEF w
\* A word that begins before the next one begins before p.
<1>11. \A o \in Nat : o < m /\ text[o + 1] \notin Blanks => o < p
  BY <1>2, <1>4
<1>12. FieldOfWord(text, w) = p
  <2> DEFINE T == {0} \cup {v[2] + 1 : v \in {u \in WordsOf(text) : u[2] < w[1]}}
  <2>1. FieldOfWord(text, w) \in T /\ \A y \in T : y <= FieldOfWord(text, w)
    BY <1>9, FieldOfWordBegins
  <2>2. p \in T
    BY <1>2, <1>4, <1>8, <1>10
  <2>3. \A y \in T : y \in Nat /\ y <= p
    <3>1. ASSUME NEW u \in WordsOf(text), u[2] < w[1] PROVE u[2] + 1 \in Nat /\ u[2] + 1 <= p
      <4>1. u[2] \in Nat /\ u[2] \in u[1] .. u[2]
        BY <1>8
      <4>2. text[u[2] + 1] \notin Blanks
        BY <1>8, <4>1
      <4> QED BY <1>2, <1>10, <1>11, <3>1, <4>1, <4>2
    <3> QED BY <1>2, <3>1
  <2> HIDE DEF T
  <2>4. /\ FieldOfWord(text, w) \in Nat /\ FieldOfWord(text, w) <= p
        /\ p <= FieldOfWord(text, w)
    BY <2>1, <2>2, <2>3
  <2> HIDE DEF m
  <2> QED BY <1>2, <2>4
<1>13. f = field(w) /\ f.start = p /\ p < q
  BY <1>2, <1>4, <1>5, <1>6, <1>7, <1>10, <1>12
<1>14. Reached(text, NoSeparator, q)
  <2>1. w[2] + 1 = e
    BY <1>5, <1>10
  <2> QED BY <1>1, <1>5, <1>6, <1>9, <2>1 DEF Reached
<1>15. ASSUME NEW g \in FieldsOf(text, NoSeparator), g.start < q PROVE g.start < p \/ g = f
  <2>1. PICK u \in WordsOf(text) : g = field(u)
    BY <1>3
  <2>2. g.start = FieldOfWord(text, u) /\ g.start \in 0 .. u[1] /\ u[1] \in Nat /\ u[2] \in Nat
    BY <1>8, <2>1, FieldOfWordBegins
  <2>3. text[u[1] + 1] \notin Blanks
    BY <1>8
  <2>4. CASE u[1] < m
    <3>1. u[1] < p
      BY <1>11, <2>2, <2>3, <2>4
    <3> QED BY <1>2, <2>2, <3>1
  <2>5. CASE u[1] = m
    <3>1. ~ u[2] < w[2]
      <4> SUFFICES ASSUME u[2] < w[2] PROVE FALSE
        OBVIOUS
      <4>1. u[2] + 1 \in m .. e - 1 /\ u[2] # Len(text) - 1 /\ (u[2] + 1) + 1 = u[2] + 2
        BY <1>1, <1>5, <1>8, <1>10, <2>5
      <4> QED BY <1>5, <1>8, <4>1
    <3>2. ~ w[2] < u[2]
      <4> SUFFICES ASSUME w[2] < u[2] PROVE FALSE
        OBVIOUS
      <4>1. e \in u[1] .. u[2] /\ e < Len(text)
        BY <1>1, <1>4, <1>5, <1>7, <1>8, <1>10, <2>5
      <4> QED BY <1>5, <1>8, <4>1
    <3>3. u[2] = w[2]
      BY <1>5, <1>10, <2>2, <3>1, <3>2
    <3> QED BY <1>10, <1>13, <2>1, <2>5, <3>3, <1>8, <1>9
  <2>6. CASE u[1] > m
    <3>1. u[1] >= e
      <4> SUFFICES ASSUME u[1] < e PROVE FALSE
        BY <1>5, <2>2
      <4>1. \A i \in Nat : i > m /\ i < e => i # 0 /\ i - 1 \in m .. e - 1 /\ (i - 1) + 1 = i
        BY <1>4, <1>5
      <4>2. u[1] # 0 /\ u[1] - 1 \in m .. e - 1 /\ (u[1] - 1) + 1 = u[1]
        BY <2>2, <2>6, <4>1
      <4> QED BY <1>5, <1>8, <4>2
    <3>2. w[2] < u[1] /\ w[2] + 1 = e
      BY <1>5, <1>10, <2>2, <3>1
    <3>3. e <= g.start
      BY <1>9, <2>2, <3>2, FieldOfWordBegins
    <3> QED BY <1>5, <1>6, <1>15, <2>2, <3>3
  <2> QED BY <1>4, <2>2, <2>4, <2>5, <2>6
<1>16. f \in FieldsOf(text, NoSeparator)
  BY <1>3, <1>9, <1>13
<1> QED BY <1>13, <1>14, <1>15, <1>16 DEF IsNextField, f, q

\* Fields lie in the line.
LEMMA FieldsInLine ==
  ASSUME NEW text \in Text, NEW sep, NEW g \in FieldsOf(text, sep)
  PROVE  g.start \in 0 .. Len(text) /\ g.word \in 0 .. Len(text) /\ g.end \in 0 .. Len(text)
<1>1. Len(text) \in Nat
  BY DEF Text
<1>2. CASE sep = NoSeparator
  <2>1. PICK w \in WordsOf(text) : g = [start |-> FieldOfWord(text, w), word |-> w[1], end |-> w[2] + 1]
    BY <1>2 DEF FieldsOf, FieldOfWord
  <2>2. w[1] \in 0 .. Len(text) - 1 /\ w[2] \in 0 .. Len(text) - 1
    BY DEF WordsOf
  <2>3. FieldOfWord(text, w) \in 0 .. w[1]
    BY FieldOfWordBegins
  <2> QED BY <1>1, <2>1, <2>2, <2>3
<1>3. CASE sep # NoSeparator
  <2> DEFINE cuts == {-1, Len(text)} \cup {o \in 0 .. Len(text) - 1 : text[o + 1] = sep}
  <2>1. PICK c \in cuts \ {Len(text)} :
          g = [start |-> c + 1, word |-> SkipBlanks(text, c + 1), end |-> Min({d \in cuts : d > c})]
    BY <1>3 DEF FieldsOf
  <2>2. c + 1 \in 0 .. Len(text)
    BY <1>1
  <2>3. {d \in cuts : d > c} \in SUBSET (0 .. Len(text)) /\ Len(text) \in {d \in cuts : d > c}
    BY <1>1
  <2> HIDE DEF cuts
  <2>4. Min({d \in cuts : d > c}) \in {d \in cuts : d > c}
    BY <1>1, <2>3, MinOf
  <2>5. SkipBlanks(text, c + 1) \in 0 .. Len(text)
    BY <1>1, <2>2, NonblankFound
  <2> QED BY <2>1, <2>2, <2>3, <2>4, <2>5
<1> QED BY <1>2, <1>3

\* Where the search finds no field there is none, and none behind it.
LEMMA NoFieldLeft ==
  ASSUME NEW text \in Text, NEW sep, NEW p, Reached(text, sep, p), ~IsField(text, sep, p)
  PROVE  /\ Reached(text, sep, NextBegin(text, sep, p)) /\ ~IsField(text, sep, NextBegin(text, sep, p))
         /\ p <= NextBegin(text, sep, p)
         /\ \A g \in FieldsOf(text, sep) : g.start < p
<1>1. Len(text) \in Nat /\ p \in Nat /\ p <= Len(text) + 1
  BY DEF Text, Reached
<1>2. CASE sep = NoSeparator
  <2> DEFINE m == SkipBlanks(text, p)
  <2>1. m = Len(text) /\ \A o \in p .. Len(text) - 1 : text[o + 1] \in Blanks
    <3>1. m \in 0 .. Len(text) /\ ~ m < Len(text) /\ \A o \in p .. m - 1 : text[o + 1] \in Blanks
      BY <1>1, <1>2, NonblankFound DEF IsField
    <3> HIDE DEF m
    <3>2. m = Len(text)
      BY <1>1, <3>1
    <3> QED BY <3>1, <3>2
  <2>2. SkipWord(text, Len(text)) = Len(text)
    <3>1. /\ SkipWord(text, Len(text)) \in 0 .. Len(text)
          /\ SkipWord(text, Len(text)) < Len(text) => Len(text) <= SkipWord(text, Len(text))
      BY <1>1, FirstFound DEF SkipWord
    <3> QED BY <1>1, <3>1
  <2>3. NextBegin(text, sep, p) = Len(text)
    BY <1>1, <1>2, <2>1, <2>2 DEF NextBegin, FieldFrom
  <2>4. ~ SkipBlanks(text, Len(text)) < Len(text)
    BY <1>1, NonblankFound
  <2>5. ASSUME NEW g \in FieldsOf(text, sep) PROVE g.start < p
    <3>1. PICK w \in WordsOf(text) : g = [start |-> FieldOfWord(text, w), word |-> w[1], end |-> w[2] + 1]
      BY <1>2 DEF FieldsOf, FieldOfWord
    <3>2. /\ w[1] \in 0 .. Len(text) - 1 /\ w[2] \in 0 .. Len(text) - 1 /\ w[1] <= w[2]
          /\ \A o \in w[1] .. w[2] : text[o + 1] \notin Blanks
      BY DEF WordsOf
    <3>3. text[w[1] + 1] \notin Blanks
      BY <3>2
    <3>4. w[1] < p
      BY <1>1, <2>1, <3>2, <3>3
    <3>5. FieldOfWord(text, w) \in 0 .. w[1]
      BY FieldOfWordBegins
    <3> QED BY <1>1, <3>1, <3>2, <3>4, <3>5
  <2> QED BY <1>1, <1>2, <2>3, <2>4, <2>5 DEF Reached, IsField
<1>3. CASE sep # NoSeparator
  <2>1. p = Len(text) + 1
    BY <1>1, <1>3 DEF IsField
  <2>2. FirstOf(text, p, {sep}) = Len(text)
    <3>1. /\ FirstOf(text, p, {sep}) \in 0 .. Len(text)
          /\ FirstOf(text, p, {sep}) < Len(text) => p <= FirstOf(text, p, {sep})
      BY <1>1, FirstFound
    <3> QED BY <1>1, <2>1, <3>1
  <2>3. NextBegin(text, sep, p) = Len(text) + 1
    BY <1>3, <2>2 DEF NextBegin, FieldFrom
  <2>4. \A g \in FieldsOf(text, sep) : g.start < p
    BY <1>1, <2>1, FieldsInLine
  <2> QED BY <1>1, <1>3, <2>1, <2>3, <2>4 DEF Reached, IsField
<1> QED BY <1>2, <1>3

\* The fields of a line that begin before an offset.
Before(text, sep, p) == {g \in FieldsOf(text, sep) : g.start < p}

\* When the search for the n-th field begins at p, n - 1 fields lie before p,
\* or fewer if there is no n-th field.
Counted(text, sep, n, p) ==
  /\ Reached(text, sep, p)
  /\ IsFiniteSet(Before(text, sep, p)) /\ Cardinality(Before(text, sep, p)) < n
  /\ IsField(text, sep, p) => Cardinality(Before(text, sep, p)) = n - 1 /\ n - 1 <= p

LEMMA CountedFirst ==
  ASSUME NEW text \in Text, NEW sep
  PROVE  Counted(text, sep, 1, 0)
<1>1. Len(text) \in Nat
  BY DEF Text
<1>2. Before(text, sep, 0) = {}
  <2>1. \A g \in FieldsOf(text, sep) : ~ g.start < 0
    BY <1>1, FieldsInLine
  <2> QED BY <2>1 DEF Before
<1>3. IsFiniteSet({}) /\ Cardinality({}) = 0
  BY FS_EmptySet
<1>4. Reached(text, sep, 0)
  BY <1>1 DEF Reached
<1>5. IsFiniteSet(Before(text, sep, 0)) /\ Cardinality(Before(text, sep, 0)) = 0
  BY <1>2, <1>3
<1> QED BY <1>4, <1>5 DEF Counted

LEMMA CountedNext ==
  ASSUME NEW text \in Text, NEW sep, NEW n \in Nat \ {0}, NEW p, Counted(text, sep, n, p)
  PROVE  Counted(text, sep, n + 1, NextBegin(text, sep, p))
<1> DEFINE q == NextBegin(text, sep, p)
           B == Before(text, sep, p)
<1>1. /\ Len(text) \in Nat /\ p \in 0 .. Len(text) + 1 /\ Reached(text, sep, p)
      /\ IsFiniteSet(B) /\ Cardinality(B) \in Nat /\ Cardinality(B) < n
  BY FS_CardinalityType DEF Counted, Reached, Text
<1>2. CASE IsField(text, sep, p)
  <2> DEFINE f == FieldFrom(text, sep, p)
  <2>1. IsNextField(text, sep, p)
    BY <1>1, <1>2, ExplicitFieldNext, BlankFieldNext
  <2>2. /\ f \in FieldsOf(text, sep) /\ f.start = p /\ p < q /\ Reached(text, sep, q)
        /\ \A g \in FieldsOf(text, sep) : g.start < q => g.start < p \/ g = f
    BY <2>1 DEF IsNextField
  <2> HIDE DEF f, q
  <2>3. q \in Nat
    BY <1>1, <2>2 DEF Reached
  <2>4. Before(text, sep, q) = B \cup {f} /\ f \notin B
    <3>1. ASSUME NEW g \in FieldsOf(text, sep), g.start < p PROVE g.start < q
      <4>1. g.start \in Nat
        BY <1>1, FieldsInLine
      <4> QED BY <1>1, <2>2, <2>3, <3>1, <4>1
    <3>2. ~ p < p
      BY <1>1
    <3> QED BY <2>2, <3>1, <3>2 DEF Before
  <2> HIDE DEF B
  <2>5. IsFiniteSet(B \cup {f}) /\ Cardinality(B \cup {f}) = Cardinality(B) + 1
    BY <1>1, <2>4, FS_AddElement
  <2>6. Cardinality(B) = n - 1 /\ n - 1 <= p
    BY <1>2 DEF Counted, B
  <2>7. Cardinality(Before(text, sep, q)) = n /\ n <= q
    BY <1>1, <2>2, <2>3, <2>4, <2>5, <2>6
  <2> QED BY <2>2, <2>4, <2>5, <2>7 DEF Counted, q
<1>3. CASE ~IsField(text, sep, p)
  <2>1. /\ Reached(text, sep, q) /\ ~IsField(text, sep, q)
        /\ p <= q
        /\ \A g \in FieldsOf(text, sep) : g.start < p
    BY <1>1, <1>3, NoFieldLeft
  <2> HIDE DEF q
  <2>2. q \in 0 .. Len(text) + 1
    BY <2>1 DEF Reached
  <2>3. \A g \in FieldsOf(text, sep) : g.start < q
    <3> SUFFICES ASSUME NEW g \in FieldsOf(text, sep) PROVE g.start < q
      OBVIOUS
    <3>1. g.start \in 0 .. Len(text) /\ g.start < p
      BY <2>1, FieldsInLine
    <3> QED BY <1>1, <2>1, <2>2, <3>1
  <2>4. Before(text, sep, q) = B
    BY <2>1, <2>3 DEF Before
  <2> HIDE DEF B
  <2> QED BY <1>1, <2>1, <2>4 DEF Counted, q
<1> QED BY <1>2, <1>3

\* Where the first m searches for a field begin.
Positions(text, sep, m, e) ==
  e = [f \in 1 .. m |-> IF f = 1 THEN 0 ELSE NextBegin(text, sep, e[f - 1])]

LEMMA PositionsExist ==
  ASSUME NEW text, NEW sep, NEW n \in Nat
  PROVE  \E e : Positions(text, sep, n, e)
<1> DEFINE T == {m \in Nat : \E e : Positions(text, sep, m, e)}
<1>1. 0 \in T
  <2> DEFINE e == [f \in 1 .. 0 |-> 0]
  <2>1. Positions(text, sep, 0, e)
    BY DEF Positions
  <2> HIDE DEF e
  <2> QED BY <2>1
<1>2. ASSUME NEW m \in T PROVE m + 1 \in T
  <2>1. PICK g : Positions(text, sep, m, g)
    OBVIOUS
  <2> DEFINE e == [f \in 1 .. m + 1 |-> IF f = 1 THEN 0 ELSE NextBegin(text, sep, g[f - 1])]
  <2>2. ASSUME NEW f \in 1 .. m PROVE e[f] = g[f]
    <3>1. f \in 1 .. m + 1
      OBVIOUS
    <3>2. g[f] = IF f = 1 THEN 0 ELSE NextBegin(text, sep, g[f - 1])
      BY <2>1, Zenon DEF Positions
    <3> QED BY <3>1, <3>2, Zenon
  <2>3. \A f \in 1 .. m + 1 : f # 1 => f - 1 \in 1 .. m
    OBVIOUS
  <2>4. \A f \in 1 .. m + 1 : e[f] = IF f = 1 THEN 0 ELSE NextBegin(text, sep, e[f - 1])
    BY <2>2, <2>3
  <2>5. Positions(text, sep, m + 1, e)
    BY <2>4 DEF Positions
  <2> HIDE DEF e
  <2> QED BY <2>5
<1> HIDE DEF T
<1>3. \A m \in Nat : m \in T
  BY <1>1, <1>2, AllNumbers DEF T
<1> QED BY <1>3 DEF T

LEMMA PositionsCounted ==
  ASSUME NEW text \in Text, NEW sep, NEW n \in Nat, NEW e, Positions(text, sep, n, e)
  PROVE  \A f \in 1 .. n : Counted(text, sep, f, e[f])
<1>1. \A f \in 1 .. n : e[f] = IF f = 1 THEN 0 ELSE NextBegin(text, sep, e[f - 1])
  BY Zenon DEF Positions
<1> DEFINE T == {m \in Nat : m + 1 <= n => Counted(text, sep, m + 1, e[m + 1])}
<1>2. 0 \in T
  <2>1. 1 <= n => e[1] = 0
    BY <1>1
  <2> QED BY <2>1, CountedFirst
<1>3. ASSUME NEW m \in T PROVE m + 1 \in T
  <2> SUFFICES ASSUME m + 2 <= n PROVE Counted(text, sep, m + 2, e[m + 2])
    OBVIOUS
  <2>1. m \in Nat /\ Counted(text, sep, m + 1, e[m + 1])
    OBVIOUS
  <2>2. m + 2 \in 1 .. n /\ m + 2 # 1 /\ (m + 2) - 1 = m + 1 /\ (m + 1) + 1 = m + 2
    BY <2>1
  <2>3. e[m + 2] = NextBegin(text, sep, e[m + 1])
    BY <1>1, <2>2
  <2>4. m + 1 \in Nat \ {0}
    BY <2>1
  <2>5. Counted(text, sep, (m + 1) + 1, NextBegin(text, sep, e[m + 1]))
    BY <2>1, <2>4, CountedNext
  <2> QED BY <2>2, <2>3, <2>5
<1> HIDE DEF T
<1>4. \A m \in Nat : m \in T
  BY <1>2, <1>3, AllNumbers DEF T
<1>5. \A f \in 1 .. n : f - 1 \in Nat /\ (f - 1) + 1 = f /\ (f - 1) + 1 <= n
  OBVIOUS
<1> QED BY <1>4, <1>5 DEF T

\* A line has finitely many fields: the searches pass every offset.
LEMMA FieldsAreFinite ==
  ASSUME NEW text \in Text, NEW sep
  PROVE  IsFiniteSet(FieldsOf(text, sep))
<1> DEFINE n == Len(text) + 2
<1>1. Len(text) \in Nat /\ n \in Nat /\ n \in 1 .. n
  BY DEF Text
<1> HIDE DEF n
<1>2. PICK e : Positions(text, sep, n, e)
  BY <1>1, PositionsExist
<1>3. Counted(text, sep, n, e[n])
  BY <1>1, <1>2, PositionsCounted
<1>4. ASSUME NEW g \in FieldsOf(text, sep) PROVE g.start < e[n]
  <2>1. g.start \in 0 .. Len(text)
    BY FieldsInLine
  <2>2. CASE IsField(text, sep, e[n])
    <3>1. e[n] \in 0 .. Len(text) + 1 /\ n - 1 <= e[n]
      BY <1>3, <2>2 DEF Counted, Reached
    <3> QED BY <1>1, <2>1, <3>1 DEF n
  <2>3. CASE ~IsField(text, sep, e[n])
    BY <1>3, <2>3, NoFieldLeft DEF Counted
  <2> QED BY <2>2, <2>3
<1>5. FieldsOf(text, sep) = Before(text, sep, e[n])
  BY <1>4 DEF Before
<1> QED BY <1>3, <1>5 DEF Counted

\* The n-th field of the definition is the one the n-th search finds.
LEMMA FieldNumbered ==
  ASSUME NEW text \in Text, NEW sep, NEW m \in Nat, NEW e, Positions(text, sep, m, e),
         NEW n \in 1 .. m
  PROVE  FieldAt(text, sep, n) =
           IF IsField(text, sep, e[n]) THEN FieldFrom(text, sep, e[n]) ELSE EndOfLine(text)
<1> DEFINE F == FieldsOf(text, sep)
           p == e[n]
           f == FieldFrom(text, sep, p)
           it == {g \in F : Cardinality({h \in F : h.start < g.start}) = n - 1}
           count(g) == Cardinality(Before(text, sep, g.start))
<1>1. Counted(text, sep, n, p)
  BY PositionsCounted
<1>2. FieldAt(text, sep, n) = IF it = {} THEN EndOfLine(text) ELSE CHOOSE g \in it : TRUE
  BY DEF FieldAt
<1>3. it = {g \in F : count(g) = n - 1}
  BY DEF Before
<1> HIDE DEF it, p
<1>4. IsFiniteSet(F) /\ Len(text) \in Nat /\ p \in 0 .. Len(text) + 1
  BY <1>1, FieldsAreFinite DEF Counted, Reached, Text
<1>5. \A g \in F : g.start \in Nat
  BY <1>4, FieldsInLine
<1>6. ASSUME NEW q PROVE IsFiniteSet(Before(text, sep, q)) /\ Cardinality(Before(text, sep, q)) \in Nat
  <2>1. Before(text, sep, q) \in SUBSET F
    BY DEF Before
  <2>2. IsFiniteSet(Before(text, sep, q))
    BY <1>4, <2>1, FS_Subset
  <2> QED BY <2>2, FS_CardinalityType
<1>7. ASSUME NEW q \in Nat, NEW r \in Nat, q <= r
      PROVE  Cardinality(Before(text, sep, q)) <= Cardinality(Before(text, sep, r))
  <2>1. Before(text, sep, q) \in SUBSET Before(text, sep, r)
    BY <1>5, <1>7 DEF Before
  <2> QED BY <1>6, <2>1, FS_Subset
<1>8. CASE IsField(text, sep, p)
  <2>1. IsNextField(text, sep, p)
    BY <1>1, <1>8, ExplicitFieldNext, BlankFieldNext DEF Counted
  <2>2. f \in F /\ f.start = p /\ count(f) = n - 1
    BY <1>1, <1>8, <2>1 DEF IsNextField, Counted
  <2>3. Counted(text, sep, n + 1, NextBegin(text, sep, p)) /\ p < NextBegin(text, sep, p)
    BY <1>1, <2>1, CountedNext DEF IsNextField
  <2> HIDE DEF f
  <2>4. ASSUME NEW g \in F, count(g) = n - 1 PROVE g = f
    <3>1. CASE g.start < p
      <4>1. Before(text, sep, g.start) \in SUBSET Before(text, sep, p) /\ g \in Before(text, sep, p)
        BY <1>4, <1>5, <3>1 DEF Before
      <4>2. g \notin Before(text, sep, g.start)
        BY <1>5 DEF Before
      <4>3. count(g) # count(f)
        BY <1>6, <2>2, <4>1, <4>2, FS_Subset
      <4> QED BY <2>2, <2>4, <4>3
    <3>2. CASE ~ g.start < p /\ g # f
      <4>1. f \notin Before(text, sep, p)
        BY <1>4, <2>2 DEF Before
      <4>2. p < g.start
        <5>1. ~ g.start < NextBegin(text, sep, p)
          BY <2>1, <3>2 DEF IsNextField, f
        <5>2. NextBegin(text, sep, p) \in Nat
          BY <1>4, <2>3 DEF Counted, Reached
        <5> QED BY <1>4, <1>5, <2>3, <5>1, <5>2
      <4>3. Before(text, sep, p) \in SUBSET Before(text, sep, g.start) /\ f \in Before(text, sep, g.start)
        BY <1>4, <1>5, <2>2, <4>2 DEF Before
      <4>4. count(g) # count(f)
        BY <1>6, <2>2, <4>1, <4>3, FS_Subset
      <4> QED BY <2>2, <2>4, <4>4
    <3> QED BY <3>1, <3>2
  <2>5. it = {f}
    BY <1>3, <2>2, <2>4
  <2>6. (CHOOSE g \in it : TRUE) = f
    BY <2>5
  <2> QED BY <1>2, <1>8, <2>5, <2>6 DEF f, p
<1>9. CASE ~IsField(text, sep, p)
  <2>1. \A g \in F : g.start < p
    BY <1>1, <1>9, NoFieldLeft DEF Counted
  <2>2. ASSUME NEW g \in F PROVE count(g) # n - 1
    <3>1. Before(text, sep, g.start) \in SUBSET Before(text, sep, p) /\ g \in Before(text, sep, p)
      BY <1>4, <1>5, <2>1 DEF Before
    <3>2. g \notin Before(text, sep, g.start)
      BY <1>5 DEF Before
    <3>3. /\ count(g) <= Cardinality(Before(text, sep, p)) /\ count(g) # Cardinality(Before(text, sep, p))
          /\ count(g) \in Nat /\ Cardinality(Before(text, sep, p)) \in Nat
      BY <1>6, <3>1, <3>2, FS_Subset
    <3>4. Cardinality(Before(text, sep, p)) < n
      BY <1>1 DEF Counted
    <3> HIDE DEF count
    <3> QED BY <3>3, <3>4
  <2>3. it = {}
    BY <1>3, <2>2
  <2> QED BY <1>2, <1>9, <2>3 DEF p
<1> QED BY <1>8, <1>9

-----------------------------------------------------------------------------
(***************************************************************************)
(* The searches and the cache find the fields of the definition            *)
(***************************************************************************)

LEMMA WordEndsArePositions ==
  ASSUME NEW text \in Text, NEW n \in Nat, NEW w, WordEnds(text, n, w),
         NEW e, Positions(text, NoSeparator, n, e)
  PROVE  \A f \in 1 .. n : w[f - 1] = e[f]
<1>1. \A f \in 0 .. n : w[f] = IF f = 0 THEN 0 ELSE SkipWord(text, SkipBlanks(text, w[f - 1]))
  BY Zenon DEF WordEnds
<1>2. \A f \in 1 .. n : e[f] = IF f = 1 THEN 0 ELSE NextBegin(text, NoSeparator, e[f - 1])
  BY Zenon DEF Positions
<1>3. ASSUME NEW p \in 0 .. Len(text) + 1
      PROVE  NextBegin(text, NoSeparator, p) = SkipWord(text, SkipBlanks(text, p))
  <2> DEFINE m == SkipBlanks(text, p)
  <2>1. m \in Nat
    BY NonblankFound DEF Text
  <2> HIDE DEF m
  <2>2. SkipWord(text, m) \in Nat
    BY <2>1, FirstFound DEF SkipWord, Text
  <2>3. SkipWord(text, m) + 0 = SkipWord(text, m)
    BY <2>2
  <2> QED BY <2>3 DEF NextBegin, FieldFrom, m
<1> DEFINE T == {m \in Nat : m + 1 <= n => w[m] = e[m + 1]}
<1>4. 0 \in T
  <2>1. 0 \in 0 .. n /\ (1 <= n => 1 \in 1 .. n)
    OBVIOUS
  <2> QED BY <1>1, <1>2, <2>1
<1>5. ASSUME NEW m \in T PROVE m + 1 \in T
  <2> SUFFICES ASSUME m + 2 <= n PROVE w[m + 1] = e[m + 2]
    OBVIOUS
  <2>1. m \in Nat /\ w[m] = e[m + 1]
    OBVIOUS
  <2>2. /\ m + 2 \in 1 .. n /\ m + 2 # 1 /\ (m + 2) - 1 = m + 1 /\ m + 1 \in 1 .. n
        /\ m + 1 \in 0 .. n /\ m + 1 # 0 /\ (m + 1) - 1 = m
    BY <2>1
  <2>3. e[m + 2] = NextBegin(text, NoSeparator, e[m + 1])
    BY <1>2, <2>2
  <2>4. w[m + 1] = SkipWord(text, SkipBlanks(text, w[m]))
    BY <1>1, <2>2
  <2>5. e[m + 1] \in 0 .. Len(text) + 1
    BY <2>2, PositionsCounted DEF Counted, Reached
  <2> QED BY <1>3, <2>1, <2>3, <2>4, <2>5
<1> HIDE DEF T
<1>6. \A m \in Nat : m \in T
  BY <1>4, <1>5, AllNumbers DEF T
<1>7. \A f \in 1 .. n : f - 1 \in Nat /\ (f - 1) + 1 = f /\ (f - 1) + 1 <= n
  OBVIOUS
<1> QED BY <1>6, <1>7 DEF T

\* The search from one separator to the next stops at the end of the line.
LEMMA FieldStartsArePositions ==
  ASSUME NEW text \in Text, NEW sep, sep # NoSeparator, NEW n \in Nat,
         NEW s, FieldStarts(text, sep, n, s), NEW e, Positions(text, sep, n, e)
  PROVE  \A f \in 1 .. n : s[f] = IF e[f] <= Len(text) THEN e[f] ELSE Len(text)
<1> DEFINE next(x) == LET hit == FirstOf(text, x, {sep}) IN IF hit = Len(text) THEN hit ELSE hit + 1
           cut(x) == IF x <= Len(text) THEN x ELSE Len(text)
<1>1. \A f \in 1 .. n : s[f] = IF f = 1 THEN 0 ELSE next(s[f - 1])
  BY Zenon DEF FieldStarts
<1>2. \A f \in 1 .. n : e[f] = IF f = 1 THEN 0 ELSE NextBegin(text, sep, e[f - 1])
  BY Zenon DEF Positions
<1>3. Len(text) \in Nat
  BY DEF Text
<1>4. ASSUME NEW p \in 0 .. Len(text) + 1
      PROVE  next(cut(p)) = cut(NextBegin(text, sep, p))
  <2>1. NextBegin(text, sep, p) = FirstOf(text, p, {sep}) + 1
    BY DEF NextBegin, FieldFrom
  <2>2. CASE p <= Len(text)
    <3> DEFINE hit == FirstOf(text, p, {sep})
    <3>1. hit \in 0 .. Len(text)
      BY <1>3, FirstFound
    <3> HIDE DEF hit
    <3>2. (IF hit = Len(text) THEN hit ELSE hit + 1) = IF hit + 1 <= Len(text) THEN hit + 1 ELSE Len(text)
      BY <1>3, <3>1
    <3> QED BY <2>1, <2>2, <3>2 DEF hit
  <2>3. CASE ~ p <= Len(text)
    <3>1. cut(p) = Len(text)
      BY <2>3
    <3>2. FirstOf(text, Len(text), {sep}) = Len(text) /\ FirstOf(text, p, {sep}) = Len(text)
      <4>1. ASSUME NEW q \in Nat, Len(text) <= q PROVE FirstOf(text, q, {sep}) = Len(text)
        <5>1. /\ FirstOf(text, q, {sep}) \in 0 .. Len(text)
              /\ FirstOf(text, q, {sep}) < Len(text) => q <= FirstOf(text, q, {sep})
          BY FirstFound
        <5> QED BY <1>3, <4>1, <5>1
      <4>2. p \in Nat /\ Len(text) <= p /\ Len(text) <= Len(text)
        BY <1>3, <2>3
      <4> QED BY <1>3, <4>1, <4>2
    <3>3. ~ Len(text) + 1 <= Len(text)
      BY <1>3
    <3> QED BY <2>1, <3>1, <3>2, <3>3
  <2> QED BY <2>2, <2>3
<1> HIDE DEF next, cut
<1> DEFINE T == {m \in Nat : m + 1 <= n => s[m + 1] = cut(e[m + 1])}
<1>5. 0 \in T
  <2>1. 1 <= n => 1 \in 1 .. n
    OBVIOUS
  <2>2. cut(0) = 0
    BY <1>3 DEF cut
  <2> QED BY <1>1, <1>2, <2>1, <2>2
<1>6. ASSUME NEW m \in T PROVE m + 1 \in T
  <2> SUFFICES ASSUME m + 2 <= n PROVE s[m + 2] = cut(e[m + 2])
    OBVIOUS
  <2>1. m \in Nat /\ s[m + 1] = cut(e[m + 1])
    OBVIOUS
  <2>2. m + 2 \in 1 .. n /\ m + 2 # 1 /\ (m + 2) - 1 = m + 1 /\ m + 1 \in 1 .. n
    BY <2>1
  <2>3. e[m + 2] = NextBegin(text, sep, e[m + 1]) /\ s[m + 2] = next(s[m + 1])
    BY <1>1, <1>2, <2>2
  <2>4. e[m + 1] \in 0 .. Len(text) + 1
    BY <2>2, PositionsCounted DEF Counted, Reached
  <2> QED BY <1>4, <2>1, <2>3, <2>4
<1> HIDE DEF T
<1>7. \A m \in Nat : m \in T
  BY <1>5, <1>6, AllNumbers DEF T
<1>8. \A f \in 1 .. n : f - 1 \in Nat /\ (f - 1) + 1 = f /\ (f - 1) + 1 <= n
  OBVIOUS
<1> QED BY <1>7, <1>8 DEF T, cut

\* The field found in a line, with or without its blanks.
At(field, blanks) == IF blanks THEN field.word ELSE field.start

\* Where extract_key_span finds a field to begin and to end, by definition.
LEMMA SearchFindsField ==
  ASSUME NEW text \in Text, NEW sep, NEW n \in Nat \ {0}, NEW blanks \in BOOLEAN
  PROVE  LET field == FieldAt(text, sep, n)
             start == FieldStart(text, sep, n, blanks)
         IN  /\ start = At(field, blanks)
             /\ (IF sep = NoSeparator THEN BlankFieldEnd(text, start)
                 ELSE ExplicitFieldEnd(text, sep, ExplicitFieldStart(text, sep, n))) = field.end
             /\ field.start \in 0 .. Len(text) /\ field.word \in 0 .. Len(text)
             /\ field.end \in 0 .. Len(text)
<1> DEFINE field == FieldAt(text, sep, n)
           start == FieldStart(text, sep, n, blanks)
<1>1. PICK e : Positions(text, sep, n, e)
  BY PositionsExist
<1> DEFINE p == e[n]
<1>2. field = IF IsField(text, sep, p) THEN FieldFrom(text, sep, p) ELSE EndOfLine(text)
  <2>1. n \in 1 .. n
    OBVIOUS
  <2> QED BY <1>1, <2>1, FieldNumbered
<1> HIDE DEF p
<1>3. Len(text) \in Nat /\ p \in 0 .. Len(text) + 1
  BY <1>1, PositionsCounted DEF Counted, Reached, Text, p
<1> DEFINE m == SkipBlanks(text, p)
<1>4. m \in 0 .. Len(text) /\ (m < Len(text) => p <= m)
  BY <1>3, NonblankFound
<1>5. SkipBlanks(text, Len(text)) = Len(text)
  <2>1. SkipBlanks(text, Len(text)) \in Len(text) .. Len(text)
    BY <1>3, SkipBlanksInLine
  <2> QED BY <1>3, <2>1
<1>6. ASSUME NEW bytes PROVE FirstOf(text, Len(text), bytes) = Len(text)
  <2>1. FirstOf(text, Len(text), bytes) \in Len(text) .. Len(text)
    BY <1>3, FirstOfInLine
  <2> QED BY <1>3, <2>1
<1>7. CASE sep = NoSeparator
  <2> DEFINE w == CHOOSE end : end = [f \in 0 .. n |->
                    IF f = 0 THEN 0 ELSE SkipWord(text, SkipBlanks(text, end[f - 1]))]
  <2>1. WordEnds(text, n, w)
    <3>1. \E end : WordEnds(text, n, end)
      BY WordEndsExist
    <3> QED BY <3>1, Zenon DEF WordEnds
  <2>2. BlankFieldStart(text, n, blanks) =
          IF SkipBlanks(text, w[n - 1]) = Len(text) \/ blanks THEN SkipBlanks(text, w[n - 1]) ELSE w[n - 1]
    BY DEF BlankFieldStart
  <2> HIDE DEF w
  <2>3. w[n - 1] = p
    <3>1. n \in 1 .. n
      OBVIOUS
    <3> QED BY <1>1, <1>7, <2>1, <3>1, WordEndsArePositions DEF p
  <2>4. start = IF m = Len(text) \/ blanks THEN m ELSE p
    BY <1>7, <2>2, <2>3 DEF FieldStart
  <2>5. SkipWord(text, m) \in 0 .. Len(text)
    BY <1>3, <1>4, FirstOfInLine DEF SkipWord
  <2>6. CASE m < Len(text)
    <3>1. field = [start |-> p, word |-> m, end |-> SkipWord(text, m)]
      BY <1>2, <1>7, <2>6 DEF IsField, FieldFrom
    <3>2. p \in 0 .. Len(text) /\ m # Len(text)
      BY <1>3, <1>4, <2>6
    <3>3. SkipBlanks(text, m) = m
      BY <3>2, SkipBlanksInLine
    <3>4. start = At(field, blanks) /\ start \in {p, m}
      BY <2>4, <3>1, <3>2 DEF At
    <3>5. BlankFieldEnd(text, start) = SkipWord(text, m)
      BY <3>3, <3>4 DEF BlankFieldEnd
    <3> QED BY <1>4, <1>7, <2>5, <3>1, <3>2, <3>4, <3>5
  <2>7. CASE ~ m < Len(text)
    <3>1. m = Len(text)
      BY <1>3, <1>4, <2>7
    <3>2. field = EndOfLine(text)
      BY <1>2, <1>7, <2>7 DEF IsField
    <3>3. start = Len(text)
      BY <2>4, <3>1
    <3>4. BlankFieldEnd(text, start) = Len(text)
      BY <1>5, <1>6, <3>3 DEF BlankFieldEnd, SkipWord
    <3> QED BY <1>3, <1>7, <3>2, <3>3, <3>4 DEF EndOfLine, At
  <2> QED BY <2>6, <2>7
<1>8. CASE sep # NoSeparator
  <2> DEFINE s == CHOOSE st : st = [f \in 1 .. n |->
                    IF f = 1 THEN 0
                    ELSE LET hit == FirstOf(text, st[f - 1], {sep})
                         IN  IF hit = Len(text) THEN hit ELSE hit + 1]
  <2>1. FieldStarts(text, sep, n, s)
    <3>1. \E st : FieldStarts(text, sep, n, st)
      BY FieldStartsExist
    <3> QED BY <3>1, Zenon DEF FieldStarts
  <2>2. ExplicitFieldStart(text, sep, n) = s[n]
    BY DEF ExplicitFieldStart
  <2> HIDE DEF s
  <2>3. s[n] = IF p <= Len(text) THEN p ELSE Len(text)
    <3>1. n \in 1 .. n
      OBVIOUS
    <3> QED BY <1>1, <1>8, <2>1, <3>1, FieldStartsArePositions DEF p
  <2>4. start = IF blanks THEN SkipBlanks(text, s[n]) ELSE s[n]
    BY <1>8, <2>2 DEF FieldStart
  <2>5. ExplicitFieldEnd(text, sep, ExplicitFieldStart(text, sep, n)) = FirstOf(text, s[n], {sep})
    BY <2>2 DEF ExplicitFieldEnd
  <2>6. CASE p <= Len(text)
    <3>1. field = [start |-> p, word |-> m, end |-> FirstOf(text, p, {sep})] /\ s[n] = p
      BY <1>2, <1>8, <2>3, <2>6 DEF IsField, FieldFrom
    <3>2. FirstOf(text, p, {sep}) \in 0 .. Len(text)
      BY <1>3, FirstFound
    <3> QED BY <1>3, <1>4, <1>8, <2>4, <2>5, <2>6, <3>1, <3>2 DEF At
  <2>7. CASE ~ p <= Len(text)
    <3>1. field = EndOfLine(text) /\ s[n] = Len(text)
      BY <1>2, <1>8, <2>3, <2>7 DEF IsField
    <3> QED BY <1>3, <1>5, <1>6, <1>8, <2>4, <2>5, <3>1 DEF EndOfLine, At
  <2> QED BY <2>6, <2>7
<1> QED BY <1>7, <1>8

\* The cache holds the fields of the line, whatever it held before.
LEMMA CacheFindsField ==
  ASSUME NEW text \in Text, NEW sep, NEW max \in Nat, NEW c, DOMAIN c = 0 .. max,
         NEW n \in 1 .. max
  PROVE  FilledCache(c, text, sep)[n] = FieldAt(text, sep, n)
<1> DEFINE e == FieldPositions(text, sep, max)
           found == {g \in DOMAIN e : IsField(text, sep, e[g])}
<1>1. Positions(text, sep, max, e)
  <2>1. \E from : Positions(text, sep, max, from)
    BY PositionsExist
  <2>2. e = CHOOSE from : Positions(text, sep, max, from)
    BY DEF FieldPositions, Positions, NextBegin
  <2> QED BY <2>1, <2>2
<1>2. Max(DOMAIN c) = max
  <2>1. Max(0 .. max) \in 0 .. max /\ max <= Max(0 .. max)
    <3>1. max \in 0 .. max
      OBVIOUS
    <3> QED BY <3>1, MaxOf
  <2> QED BY <2>1
<1>3. LineFields(c, text, sep) = [f \in found |-> FieldFrom(text, sep, e[f])]
  BY <1>2 DEF LineFields
<1> HIDE DEF e
<1>4. DOMAIN e = 1 .. max
  BY <1>1 DEF Positions
<1>5. n \in DOMAIN c
  OBVIOUS
<1>6. FilledCache(c, text, sep)[n] =
        IF n \in found THEN FieldFrom(text, sep, e[n]) ELSE EndOfLine(text)
  <2> DEFINE fields == [f \in found |-> FieldFrom(text, sep, e[f])]
  <2>1. FilledCache(c, text, sep)[n] = IF n \in DOMAIN fields THEN fields[n] ELSE EndOfLine(text)
    BY <1>3, <1>5 DEF FilledCache
  <2> QED BY <2>1
<1>7. n \in found <=> IsField(text, sep, e[n])
  BY <1>4
<1> QED BY <1>1, <1>6, <1>7, FieldNumbered

LEMMA OfTwo ==
  ASSUME NEW x \in Int, NEW y \in Int
  PROVE  Min({x, y}) = (IF x <= y THEN x ELSE y) /\ Max({x, y}) = (IF x >= y THEN x ELSE y)
<1>1. \E v \in {x, y} : \A u \in {x, y} : v <= u
  OBVIOUS
<1>2. Min({x, y}) \in {x, y} /\ \A u \in {x, y} : Min({x, y}) <= u
  BY <1>1, Zenon DEF Min
<1>3. \E v \in {x, y} : \A u \in {x, y} : v >= u
  OBVIOUS
<1>4. Max({x, y}) \in {x, y} /\ \A u \in {x, y} : Max({x, y}) >= u
  BY <1>3, Zenon DEF Max
<1>5. Min({x, y}) <= x /\ Min({x, y}) <= y /\ Min({x, y}) \in {x, y}
  BY <1>2
<1>6. Max({x, y}) >= x /\ Max({x, y}) >= y /\ Max({x, y}) \in {x, y}
  BY <1>4
<1> QED BY <1>5, <1>6

\* A key as it is accepted.
IsKeyDef(key) ==
  /\ key.start \in Nat \ {0} /\ key.end \in Nat
  /\ key.start_char \in Int /\ key.end_char \in Int
  /\ key.start_blanks \in BOOLEAN /\ key.end_blanks \in BOOLEAN

\* The span of a key, by the fields of the definition.
FieldSpan(text, sep, key) ==
  LET last == FieldAt(text, sep, key.end)
  IN  Span(text, key, At(FieldAt(text, sep, key.start), key.start_blanks),
           IF key.end = NoEnd THEN 0 ELSE At(last, key.end_blanks),
           IF key.end = NoEnd THEN 0 ELSE last.end)

\* extract_key_span finds it ...
LEMMA SearchFindsKey ==
  ASSUME NEW text \in Text, NEW sep, NEW key, IsKeyDef(key)
  PROVE  UncachedSpan(text, sep, key) = FieldSpan(text, sep, key)
<1> DEFINE end_start == FieldStart(text, sep, key.end, key.end_blanks)
           end_end == IF sep = NoSeparator THEN BlankFieldEnd(text, end_start)
                      ELSE ExplicitFieldEnd(text, sep, ExplicitFieldStart(text, sep, key.end))
           first == FieldStart(text, sep, key.start, key.start_blanks)
           last == FieldAt(text, sep, key.end)
<1>1. first = At(FieldAt(text, sep, key.start), key.start_blanks)
  BY SearchFindsField DEF IsKeyDef
<1>2. key.end # NoEnd => end_start = At(last, key.end_blanks) /\ end_end = last.end
  BY SearchFindsField DEF IsKeyDef, NoEnd
<1>3. UncachedSpan(text, sep, key) =
        Span(text, key, first, IF key.end = NoEnd THEN 0 ELSE end_start,
             IF key.end = NoEnd THEN 0 ELSE end_end)
  BY DEF UncachedSpan
<1>4. FieldSpan(text, sep, key) =
        Span(text, key, At(FieldAt(text, sep, key.start), key.start_blanks),
             IF key.end = NoEnd THEN 0 ELSE At(last, key.end_blanks),
             IF key.end = NoEnd THEN 0 ELSE last.end)
  BY DEF FieldSpan
<1> HIDE DEF first, end_start, end_end, last
<1>5. CASE key.end = NoEnd
  BY <1>1, <1>3, <1>4, <1>5
<1>6. CASE key.end # NoEnd
  BY <1>1, <1>2, <1>3, <1>4, <1>6
<1> QED BY <1>5, <1>6

\* ... and the cached variants do when the cache has its fields.
LEMMA CacheFindsKey ==
  ASSUME NEW text \in Text, NEW sep, NEW key, IsKeyDef(key), NEW max \in Nat,
         key.start <= max, key.end <= max, NEW c, DOMAIN c = 0 .. max
  PROVE  CachedSpan(text, key, FilledCache(c, text, sep)) = FieldSpan(text, sep, key)
<1> DEFINE filled == FilledCache(c, text, sep)
           last == FieldAt(text, sep, key.end)
           place(field, blanks) == IF blanks THEN filled[field].word ELSE filled[field].start
<1>1. filled[key.start] = FieldAt(text, sep, key.start)
  <2>1. key.start \in 1 .. max
    BY DEF IsKeyDef
  <2> QED BY <2>1, CacheFindsField
<1>2. key.end # NoEnd => filled[key.end] = last
  <2>1. key.end # NoEnd => key.end \in 1 .. max
    BY DEF IsKeyDef, NoEnd
  <2> QED BY <2>1, CacheFindsField
<1>3. CachedSpan(text, key, filled) =
        Span(text, key, place(key.start, key.start_blanks),
             IF key.end = NoEnd THEN 0 ELSE place(key.end, key.end_blanks),
             IF key.end = NoEnd THEN 0 ELSE filled[key.end].end)
  BY DEF CachedSpan
<1>4. FieldSpan(text, sep, key) =
        Span(text, key, At(FieldAt(text, sep, key.start), key.start_blanks),
             IF key.end = NoEnd THEN 0 ELSE At(last, key.end_blanks),
             IF key.end = NoEnd THEN 0 ELSE last.end)
  BY DEF FieldSpan
<1>5. place(key.start, key.start_blanks) = At(FieldAt(text, sep, key.start), key.start_blanks)
  BY <1>1 DEF At
<1>6. key.end # NoEnd => place(key.end, key.end_blanks) = At(last, key.end_blanks)
  BY <1>2 DEF At
<1> HIDE DEF filled, last, place
<1>7. CachedSpan(text, key, filled) = FieldSpan(text, sep, key)
  <2>1. CASE key.end = NoEnd
    BY <1>3, <1>4, <1>5, <2>1
  <2>2. CASE key.end # NoEnd
    BY <1>2, <1>3, <1>4, <1>5, <1>6, <2>2
  <2> QED BY <2>1, <2>2
<1> QED BY <1>7 DEF filled

\* A field begins and ends in its line.
LEMMA FieldInLine ==
  ASSUME NEW text \in Text, NEW sep, NEW n \in Nat \ {0}, NEW blanks \in BOOLEAN
  PROVE  At(FieldAt(text, sep, n), blanks) \in Nat /\ FieldAt(text, sep, n).end \in Nat
<1> DEFINE field == FieldAt(text, sep, n)
<1>1. /\ field.start \in 0 .. Len(text) /\ field.word \in 0 .. Len(text)
      /\ field.end \in 0 .. Len(text)
  BY SearchFindsField
<1> HIDE DEF field
<1>2. field.start \in Nat /\ field.word \in Nat /\ field.end \in Nat
  BY <1>1 DEF Text
<1>3. At(field, blanks) \in Nat
  BY <1>2 DEF At
<1> QED BY <1>2, <1>3 DEF field

\* What lies in it is the key of the definition.
LEMMA SpanIsKey ==
  ASSUME NEW text \in Text, NEW sep, NEW key, IsKeyDef(key)
  PROVE  LET span == FieldSpan(text, sep, key)
         IN  /\ span.from \in Nat /\ span.upto \in Nat
             /\ span.from <= span.upto /\ span.upto <= Len(text)
             /\ Slice(text, span) = KeyByDefinition(text, sep, key)
<1> DEFINE begin == At(FieldAt(text, sep, key.start), key.start_blanks)
           last == FieldAt(text, sep, key.end)
           skip == At(last, key.end_blanks)
           span == FieldSpan(text, sep, key)
           first == begin + Max({key.start_char - 1, 0})
           limit == IF key.end = NoEnd THEN Len(text)
                    ELSE IF key.end_char > 0 THEN skip + key.end_char ELSE last.end
           from == Min({first, Len(text)})
           upto == Min({limit, Len(text)})
<1>1. Len(text) \in Nat /\ key.start_char \in Int /\ key.end_char \in Int
  BY DEF Text, IsKeyDef
<1>2. begin \in Nat
  BY FieldInLine DEF IsKeyDef
<1>3. key.end # NoEnd => skip \in Nat /\ last.end \in Nat
  BY FieldInLine DEF IsKeyDef, NoEnd
<1>4. Max({key.start_char - 1, 0}) = IF key.start_char - 1 >= 0 THEN key.start_char - 1 ELSE 0
  <2>1. key.start_char - 1 \in Int /\ 0 \in Int
    BY <1>1
  <2> QED BY <2>1, OfTwo
<1>5. first \in Nat /\ first = IF key.start_char < 0 THEN begin ELSE first
  <2> HIDE DEF begin
  <2>1. key.start_char < 0 => Max({key.start_char - 1, 0}) = 0
    BY <1>1, <1>4
  <2>2. Max({key.start_char - 1, 0}) \in Nat
    BY <1>1, <1>4
  <2> QED BY <1>2, <2>1, <2>2
<1>6. limit \in Nat
  BY <1>1, <1>3
<1>7. span = [from |-> from, upto |-> Max({from, upto})]
  <2> DEFINE es == IF key.end = NoEnd THEN 0 ELSE skip
             ee == IF key.end = NoEnd THEN 0 ELSE last.end
             f1 == IF key.start_char < 0 THEN begin ELSE first
             l1 == IF key.end = NoEnd THEN Len(text)
                   ELSE IF key.end_char > 0 THEN es + key.end_char ELSE ee
  <2>1. span = Span(text, key, begin, es, ee)
    BY DEF FieldSpan
  <2>2. Span(text, key, begin, es, ee) =
          [from |-> Min({f1, Len(text)}), upto |-> Max({Min({f1, Len(text)}), Min({l1, Len(text)})})]
    <3> HIDE DEF begin, es, ee
    <3> QED BY Zenon DEF Span
  <2>3. f1 = first
    BY <1>5
  <2>4. l1 = limit
    OBVIOUS
  <2> HIDE DEF f1, l1, span, first, limit, begin
  <2> QED BY <2>1, <2>2, <2>3, <2>4
<1>8. KeyByDefinition(text, sep, key) = SubSeq(text, first + 1, upto)
  <2> DEFINE l2 == IF key.end = NoEnd THEN Len(text)
                   ELSE IF key.end_char <= 0 THEN last.end ELSE skip + key.end_char
  <2>1. KeyByDefinition(text, sep, key) = SubSeq(text, first + 1, Min({l2, Len(text)}))
    BY DEF KeyByDefinition, At
  <2>2. l2 = limit
    BY <1>1
  <2> HIDE DEF l2, first, limit
  <2> QED BY <2>1, <2>2
<1> HIDE DEF span, first, limit
<1>9. /\ from = IF first <= Len(text) THEN first ELSE Len(text)
      /\ upto = IF limit <= Len(text) THEN limit ELSE Len(text)
  BY <1>1, <1>5, <1>6, OfTwo
<1> HIDE DEF from, upto
<1>10. from \in 0 .. Len(text) /\ upto \in 0 .. Len(text)
  BY <1>1, <1>5, <1>6, <1>9
<1>11. Max({from, upto}) = IF from >= upto THEN from ELSE upto
  BY <1>10, OfTwo
<1>12. span.from = from /\ span.upto = IF from >= upto THEN from ELSE upto
  BY <1>7, <1>11
<1>13. Slice(text, span) = SubSeq(text, from + 1, IF from >= upto THEN from ELSE upto)
  BY <1>12 DEF Slice
<1>14. Slice(text, span) = SubSeq(text, first + 1, upto)
  <2>1. CASE first < upto
    <3>1. from = first /\ ~ from >= upto
      BY <1>5, <1>9, <1>10, <2>1
    <3> QED BY <1>13, <3>1
  <2>2. CASE ~ first < upto
    <3>1. from >= upto
      BY <1>1, <1>5, <1>9, <1>10, <2>2
    <3>2. SubSeq(text, from + 1, from) = <<>>
      <4>1. from + 1 \in Int /\ from \in Int /\ from < from + 1
        BY <1>10
      <4> QED BY <4>1, SubSeqEmpty
    <3>3. SubSeq(text, first + 1, upto) = <<>>
      <4>1. first + 1 \in Int /\ upto \in Int /\ upto < first + 1
        BY <1>5, <1>10, <2>2
      <4> QED BY <4>1, SubSeqEmpty
    <3> QED BY <1>13, <3>1, <3>2, <3>3
  <2> QED BY <2>1, <2>2
<1>15. span.from \in Nat /\ span.upto \in Nat /\ span.from <= span.upto /\ span.upto <= Len(text)
  BY <1>1, <1>10, <1>12
<1> QED BY <1>8, <1>14, <1>15 DEF span

\* The cache has a place for every field a key names.
LEMMA KeysHavePlaces ==
  ASSUME NEW keys \in Seq(KeyType), keys # <<>>
  PROVE  /\ MaxField(keys) \in Nat
         /\ \A k \in DOMAIN keys : keys[k].start <= MaxField(keys) /\ keys[k].end <= MaxField(keys)
<1> DEFINE T == {keys[k].start : k \in DOMAIN keys} \cup {keys[k].end : k \in DOMAIN keys}
<1>1. \A k \in DOMAIN keys : keys[k].start \in 0 .. MaxSize /\ keys[k].end \in 0 .. MaxSize
  <2> SUFFICES ASSUME NEW k \in DOMAIN keys
               PROVE  keys[k].start \in 0 .. MaxSize /\ keys[k].end \in 0 .. MaxSize
    OBVIOUS
  <2>1. keys[k] \in KeyType
    OBVIOUS
  <2> QED BY <2>1, CommandAssumption DEF KeyType
<1>2. T \in SUBSET (0 .. MaxSize) /\ T # {} /\ MaxSize \in Nat
  <2>1. 1 \in DOMAIN keys
    OBVIOUS
  <2> QED BY <1>1, <2>1, CommandAssumption
<1>3. Max(T) \in T /\ \A y \in T : y <= Max(T)
  BY <1>2, MaxOf
<1>4. MaxField(keys) = Max(T)
  BY DEF MaxField
<1>5. \A k \in DOMAIN keys : keys[k].start \in T /\ keys[k].end \in T
  OBVIOUS
<1> HIDE DEF T
<1>6. Max(T) \in Nat
  <2>1. Max(T) \in 0 .. MaxSize
    BY <1>2, <1>3, Zenon
  <2> QED BY <2>1
<1>7. \A k \in DOMAIN keys : keys[k].start <= Max(T) /\ keys[k].end <= Max(T)
  BY <1>3, <1>5, Zenon
<1> QED BY <1>4, <1>6, <1>7

-----------------------------------------------------------------------------
(***************************************************************************)
(* The spans of the lines, and the orders of the engines                   *)
(***************************************************************************)

IsList(s) == \E S : s \in Seq(S)

LEMMA Appended ==
  ASSUME NEW s, IsList(s), NEW x
  PROVE  /\ IsList(Append(s, x)) /\ Len(s) \in Nat /\ Len(Append(s, x)) = Len(s) + 1
         /\ \A i \in 1 .. Len(s) + 1 : Append(s, x)[i] = IF i = Len(s) + 1 THEN x ELSE s[i]
<1>1. PICK S : s \in Seq(S)
  BY DEF IsList
<1> DEFINE T == S \cup {x}
<1>2. s \in Seq(T) /\ x \in T
  <2>1. s \in [1 .. Len(s) -> S] /\ Len(s) \in Nat
    BY <1>1
  <2>2. s \in [1 .. Len(s) -> T]
    BY <2>1
  <2> QED BY <2>1, <2>2
<1> HIDE DEF T
<1>3. Append(s, x) \in Seq(T)
  BY <1>2
<1> QED BY <1>2, <1>3 DEF IsList

\* The spans that extract_key_span finds in a text.
Searched(text) == [k \in DOMAIN Keys |-> UncachedSpan(text, opts.separator, Keys[k])]

\* Lines are prepared one after the other, and each has the spans a search of
\* it would find, whatever the arrays hold of the lines before.
SInv ==
  /\ lines \in Seq(Text) /\ IsList(spans) /\ Len(spans) <= Len(lines)
  /\ stage \notin OrderStages => spans = <<>> /\ cache = <<>>
  /\ stage = "prepare" => Len(spans) < Len(lines)
  /\ stage = "ordered" /\ Keys # <<>> => Len(spans) = Len(lines)
  /\ cache = <<>> \/ (Keys # <<>> /\ DOMAIN cache = 0 .. MaxField(Keys))
  /\ \A a \in 1 .. Len(spans) : spans[a] = Searched(lines[a])

LEMMA EmptyList == IsList(<<>>) /\ Len(<<>>) = 0
<1>1. <<>> \in Seq({}) /\ Len(<<>>) = 0
  OBVIOUS
<1> QED BY <1>1 DEF IsList

LEMMA InitSInv == Init => SInv
<1> SUFFICES ASSUME Init PROVE SInv
  OBVIOUS
<1>1. stage = "parse" /\ lines = <<>> /\ spans = <<>> /\ cache = <<>>
  BY DEF Init, CommandInit
<1> QED BY <1>1, EmptyList DEF SInv, OrderStages

\* The steps before lines are read.
LEMMA CommandStages == CommandNext => stage \notin OrderStages /\ stage' \notin OrderStages
<1> SUFFICES ASSUME CommandNext PROVE stage \notin OrderStages /\ stage' \notin OrderStages
  OBVIOUS
<1> USE DEF OrderStages, Refuse, Reading
<1>1. CASE ReadObsoleteKey
  BY <1>1 DEF ReadObsoleteKey
<1>2. CASE EndOptions
  BY <1>2 DEF EndOptions
<1>3. CASE ReadOperand
  BY <1>3 DEF ReadOperand
<1>4. CASE ReadUnknown
  BY <1>4 DEF ReadUnknown
<1>5. CASE ReadLetter
  BY <1>5 DEF ReadLetter
<1>6. CASE ReadValue
  BY <1>6 DEF ReadValue
<1>7. CASE EndParse
  BY <1>7 DEF EndParse
<1>8. CASE LoadFiles0
  BY <1>8 DEF LoadFiles0
<1>9. CASE CheckOrdering
  BY <1>9 DEF CheckOrdering
<1>10. CASE ApplyKeyDefaults
  BY <1>10 DEF ApplyKeyDefaults
<1>11. CASE CheckOperands
  BY <1>11 DEF CheckOperands
<1> QED BY <1>1, <1>2, <1>3, <1>4, <1>5, <1>6, <1>7, <1>8, <1>9, <1>10, <1>11 DEF CommandNext

\* Nothing is prepared yet.
LEMMA NothingPrepared ==
  ASSUME SInv, stage \notin OrderStages, stage' \notin OrderStages, UNCHANGED order_vars
  PROVE  SInv'
<1>1. spans' = <<>> /\ cache' = <<>> /\ lines' = lines /\ Len(<<>>) = 0
  BY DEF SInv, order_vars
<1> QED BY <1>1, EmptyList DEF SInv, OrderStages

LEMMA ReadLinesSInv == SInv /\ ReadLines => SInv'
<1> SUFFICES ASSUME SInv, ReadLines PROVE SInv'
  OBVIOUS
<1>1. /\ stage = "accepted" /\ lines' \in Seq(Text) /\ spans' = spans /\ opts' = opts
      /\ stage' = IF Keys = <<>> \/ lines' = <<>> THEN "ordered" ELSE "prepare"
  <2>1. \E input \in Inputs(opts) : input \in Seq(Seq(0 .. 255)) /\ lines' = input
    BY Zenon DEF ReadLines
  <2>2. /\ stage = "accepted" /\ spans' = spans /\ opts' = opts
        /\ stage' = IF Keys = <<>> \/ lines' = <<>> THEN "ordered" ELSE "prepare"
    BY Zenon DEF ReadLines
  <2> QED BY <2>1, <2>2, Zenon DEF Text
<1>2. spans' = <<>> /\ Keys' = Keys
  BY <1>1 DEF SInv, OrderStages, Keys
<1>3. cache' = <<>> \/ (Keys # <<>> /\ DOMAIN cache' = 0 .. MaxField(Keys))
  <2>1. Len(Keys) > 1 => Keys # <<>>
    OBVIOUS
  <2>2. CASE Len(Keys) > 1
    <3> DEFINE c == [f \in 0 .. MaxField(Keys) |-> [start |-> Garbage, word |-> Garbage, end |-> Garbage]]
    <3>1. cache' = c
      BY <2>2, Zenon DEF ReadLines
    <3> QED BY <2>1, <2>2, <3>1
  <2>3. CASE ~(Len(Keys) > 1)
    BY <2>3, Zenon DEF ReadLines
  <2> QED BY <2>2, <2>3
<1>4. MaxField(Keys)' = MaxField(Keys)
  BY <1>2 DEF MaxField
<1>5. Len(spans') = 0 /\ Len(lines') \in Nat
  BY <1>1, <1>2
<1>6. lines' # <<>> => Len(spans') < Len(lines')
  BY <1>1, <1>2
<1>7. lines' = <<>> => Len(spans') = Len(lines')
  BY <1>2
<1> QED BY <1>1, <1>2, <1>3, <1>4, <1>5, <1>6, <1>7, EmptyList DEF SInv, OrderStages

\* A key of the command is one as the lemmas about fields want it.
LEMMA KeyDefined ==
  ASSUME NEW key \in KeyType
  PROVE  IsKeyDef(key)
  BY CommandAssumption DEF KeyType, IsKeyDef

\* What is looked up in the arrays is what a search finds.
LEMMA LookedUp ==
  ASSUME Keys \in Seq(KeyType), Keys # <<>>, DOMAIN cache = 0 .. MaxField(Keys),
         NEW text \in Text, NEW k \in DOMAIN Keys
  PROVE  CachedSpan(text, Keys[k], FilledCache(cache, text, opts.separator)) =
           UncachedSpan(text, opts.separator, Keys[k])
<1>1. IsKeyDef(Keys[k])
  <2>1. Keys[k] \in KeyType
    OBVIOUS
  <2> QED BY <2>1, KeyDefined
<1>2. MaxField(Keys) \in Nat /\ Keys[k].start <= MaxField(Keys) /\ Keys[k].end <= MaxField(Keys)
  BY KeysHavePlaces
<1> QED BY <1>1, <1>2, SearchFindsKey, CacheFindsKey

LEMMA PrepareLineSInv == CInv /\ SInv /\ PrepareLine => SInv'
<1> SUFFICES ASSUME CInv, SInv, PrepareLine PROVE SInv'
  OBVIOUS
<1> DEFINE text == lines[Len(spans) + 1]
           found(k) == IF cache = <<>> THEN UncachedSpan(text, opts.separator, Keys[k])
                       ELSE CachedSpan(text, Keys[k], cache')
           new == [k \in DOMAIN Keys |-> found(k)]
<1>1. /\ stage = "prepare" /\ spans' = Append(spans, new) /\ lines' = lines /\ opts' = opts
      /\ stage' = IF Len(spans') = Len(lines) THEN "ordered" ELSE stage
      /\ cache' = IF cache = <<>> THEN cache ELSE FilledCache(cache, text, opts.separator)
  BY DEF PrepareLine
<1>2. /\ lines \in Seq(Text) /\ IsList(spans) /\ Len(spans) < Len(lines)
      /\ cache = <<>> \/ (Keys # <<>> /\ DOMAIN cache = 0 .. MaxField(Keys))
      /\ \A a \in 1 .. Len(spans) : spans[a] = Searched(lines[a])
      /\ Len(lines) \in Nat
  BY <1>1 DEF SInv
<1>3. /\ IsList(spans') /\ Len(spans) \in Nat /\ Len(spans') = Len(spans) + 1
      /\ \A i \in 1 .. Len(spans) + 1 : spans'[i] = IF i = Len(spans) + 1 THEN new ELSE spans[i]
  <2> HIDE DEF new
  <2> QED BY <1>1, <1>2, Appended
<1>4. text \in Text
  BY <1>2, <1>3
<1>5. new = Searched(text)
  <2>1. Keys \in Seq(KeyType)
    BY DEF CInv, OptsOK, Keys
  <2> SUFFICES ASSUME NEW k \in DOMAIN Keys
               PROVE  found(k) = UncachedSpan(text, opts.separator, Keys[k])
    BY DEF Searched
  <2>2. CASE cache = <<>>
    BY <2>2
  <2>3. CASE cache # <<>>
    BY <1>1, <1>2, <1>4, <2>1, <2>3, LookedUp
  <2> QED BY <2>2, <2>3
<1> HIDE DEF new
<1>6. Keys' = Keys /\ MaxField(Keys)' = MaxField(Keys) /\ \A t : Searched(t)' = Searched(t)
  BY <1>1 DEF Keys, Searched, MaxField
<1>7. \A a \in 1 .. Len(spans') : spans'[a] = Searched(lines[a])
  <2> SUFFICES ASSUME NEW a \in 1 .. Len(spans') PROVE spans'[a] = Searched(lines[a])
    OBVIOUS
  <2>1. a \in 1 .. Len(spans) + 1 /\ (a = Len(spans) + 1 \/ a \in 1 .. Len(spans))
    BY <1>3
  <2> QED BY <1>2, <1>3, <1>5, <2>1
<1>8. cache' = <<>> \/ (Keys # <<>> /\ DOMAIN cache' = 0 .. MaxField(Keys))
  <2>1. DOMAIN FilledCache(cache, text, opts.separator) = DOMAIN cache
    BY DEF FilledCache
  <2> QED BY <1>1, <1>2, <2>1
<1>9. Len(spans') <= Len(lines) /\ (stage' = "prepare" => Len(spans') < Len(lines))
  BY <1>1, <1>2, <1>3
<1> HIDE DEF text
<1> QED BY <1>1, <1>2, <1>3, <1>6, <1>7, <1>8, <1>9 DEF SInv, OrderStages

LEMMA NextSInv == CInv /\ SInv /\ [Next]_vars => SInv'
<1> SUFFICES ASSUME CInv, SInv, [Next]_vars PROVE SInv'
  OBVIOUS
<1>1. CASE UNCHANGED vars
  <2>1. UNCHANGED <<stage, opts, lines, spans, cache>>
    BY <1>1 DEF vars, command_vars, order_vars
  <2> QED BY <2>1 DEF SInv, Searched, Keys, MaxField
<1>2. CASE CommandNext /\ UNCHANGED order_vars
  BY <1>2, CommandStages, NothingPrepared
<1>3. CASE SeedFails
  BY <1>3, NothingPrepared DEF SeedFails, Refuse, OrderStages
<1> QED BY <1>1, <1>2, <1>3, ReadLinesSInv, PrepareLineSInv DEF Next, Stopped

\* The span of a key of a line that is prepared.
LEMMA SpanFound ==
  ASSUME CInv, SInv, NEW a \in DOMAIN spans, NEW k \in DOMAIN Keys
  PROVE  /\ spans[a][k].from <= spans[a][k].upto /\ spans[a][k].upto <= Len(lines[a])
         /\ Slice(lines[a], spans[a][k]) = KeyByDefinition(lines[a], opts.separator, Keys[k])
<1>1. a \in 1 .. Len(spans) /\ lines[a] \in Text
  <2>1. IsList(spans) /\ Len(spans) <= Len(lines) /\ lines \in Seq(Text)
    BY DEF SInv
  <2>2. DOMAIN spans = 1 .. Len(spans) /\ Len(spans) \in Nat
    BY <2>1 DEF IsList
  <2> QED BY <2>1, <2>2
<1>2. spans[a][k] = UncachedSpan(lines[a], opts.separator, Keys[k])
  <2>1. spans[a] = Searched(lines[a])
    BY <1>1 DEF SInv
  <2> QED BY <2>1 DEF Searched
<1>3. IsKeyDef(Keys[k])
  <2>1. Keys \in Seq(KeyType)
    BY DEF CInv, OptsOK, Keys
  <2>2. Keys[k] \in KeyType
    BY <2>1
  <2> QED BY <2>2, KeyDefined
<1>4. spans[a][k] = FieldSpan(lines[a], opts.separator, Keys[k])
  BY <1>1, <1>2, <1>3, SearchFindsKey
<1> QED BY <1>1, <1>3, <1>4, SpanIsKey

\* Spans and arrays are what TypeOK says.
LEMMA SpansTyped ==
  ASSUME CInv, SInv
  PROVE  /\ Len(spans) <= Len(lines)
         /\ \A a \in DOMAIN spans : \A k \in DOMAIN Keys :
              spans[a][k].from <= spans[a][k].upto /\ spans[a][k].upto <= Len(lines[a])
         /\ cache # <<>> => \A key \in ToSet(Keys) : {key.start, key.end} \subseteq DOMAIN cache
<1>1. ASSUME cache # <<>>, NEW key \in ToSet(Keys)
      PROVE  key.start \in DOMAIN cache /\ key.end \in DOMAIN cache
  <2>1. Keys \in Seq(KeyType)
    BY DEF CInv, OptsOK, Keys
  <2>2. Keys # <<>> /\ DOMAIN cache = 0 .. MaxField(Keys)
    BY <1>1 DEF SInv
  <2>3. PICK k \in DOMAIN Keys : key = Keys[k]
    BY <1>1 DEF ToSet
  <2>4. key \in KeyType
    BY <2>1, <2>3
  <2>5. MaxField(Keys) \in Nat /\ key.start <= MaxField(Keys) /\ key.end <= MaxField(Keys)
    BY <2>1, <2>2, <2>3, KeysHavePlaces
  <2>6. key.start \in Nat /\ key.end \in Nat
    BY <2>4, KeyDefined DEF IsKeyDef
  <2> QED BY <2>2, <2>5, <2>6
<1>2. Len(spans) <= Len(lines)
  BY DEF SInv
<1> QED BY <1>1, <1>2, SpanFound

\* What the comparator makes of the result of the keys or lines.
LEMMA LinesCompared ==
  ASSUME NEW a, NEW b
  PROVE  CompareLines(a, b) = IF Keys = <<>> THEN LastResort(CompareAscending(a, b), a, b)
                                             ELSE AfterKeys(CompareKeys(a, b), a, b)
  BY DEF CompareLines, CompareUnique

LEMMA BytesAgree ==
  ASSUME Keys = <<>>, opts.mode = None, "b" \notin opts.flags, ~HasModifiers(opts.flags),
         NEW a, NEW b
  PROVE  OrderOf("bytes", a, b) = CompareLines(a, b)
<1> DEFINE result == CompareBytes(lines[a], lines[b])
<1>1. opts.mode \in {"V", "R", None} /\ Body(a) = lines[a] /\ Body(b) = lines[b]
  BY DEF Body
<1>2. CompareAscending(a, b) = CompareTexts(opts.mode, ModifiersIn(opts.flags), lines[a], lines[b])
  BY <1>1 DEF CompareAscending
<1>3. CompareAscending(a, b) = result
  BY <1>2, NothingFiltered DEF CompareTexts, None
<1>4. LastResort(result, a, b) = Directed(result, Reversed)
  BY DEF LastResort
<1>5. OrderOf("bytes", a, b) = Directed(result, Reversed)
  BY DEF OrderOf
<1> QED BY <1>3, <1>4, <1>5, LinesCompared

LEMMA KeysAgree ==
  ASSUME Keys # <<>>, \A k \in DOMAIN Keys : Keys[k].mode = None /\ ~HasModifiers(Keys[k].flags),
         NEW a, NEW b
  PROVE  OrderOf("keys", a, b) = CompareLines(a, b)
<1>1. ASSUME NEW k \in DOMAIN Keys
      PROVE  CompareKey(Keys[k], KeyText(a, k), KeyText(b, k)) =
               Directed(CompareBytes(KeyText(a, k), KeyText(b, k)), "r" \in Keys[k].flags)
  BY NothingFiltered DEF CompareKey, CompareTexts, None
<1>2. CompareKeys(a, b) = FirstOfResults([k \in DOMAIN Keys |->
        Directed(CompareBytes(KeyText(a, k), KeyText(b, k)), "r" \in Keys[k].flags)])
  BY <1>1 DEF CompareKeys
<1>3. OrderOf("keys", a, b) = KeysOrder(a, b)
  BY DEF OrderOf
<1> QED BY <1>2, <1>3, LinesCompared DEF KeysOrder

LEMMA OneMember ==
  ASSUME NEW S, NEW s \in Seq(S), Len(s) = 1
  PROVE  DOMAIN s = {1} /\ s[1] \in S /\ s # <<>>
  OBVIOUS

\* A single key decides alone.
LEMMA SingleKey ==
  ASSUME Keys \in Seq(KeyType), Len(Keys) = 1, NEW a, NEW b
  PROVE  Keys # <<>> /\ CompareKeys(a, b) = CompareKey(Keys[1], KeyText(a, 1), KeyText(b, 1))
<1> DEFINE results == [k \in DOMAIN Keys |-> CompareKey(Keys[k], KeyText(a, k), KeyText(b, k))]
<1>1. DOMAIN Keys = {1} /\ Keys # <<>>
  OBVIOUS
<1>2. DOMAIN results = {1} /\ results[1] = CompareKey(Keys[1], KeyText(a, 1), KeyText(b, 1))
  BY <1>1
<1> HIDE DEF results
<1>3. FirstOfResults(results) = results[1]
  BY <1>2, OneResult
<1> QED BY <1>1, <1>2, <1>3 DEF CompareKeys, results

LEMMA TransformsAgree ==
  ASSUME Keys \in Seq(KeyType), Transformable, NEW a, NEW b
  PROVE  OrderOf("transformed", a, b) = CompareLines(a, b)
<1>0. OrderOf("transformed", a, b) = TransformsOrder(a, b)
  BY DEF OrderOf
<1> DEFINE y == CompareBytes(lines[a], lines[b])
<1>1. CASE Keys = <<>>
  <2> DEFINE text(c) == Filtered(Body(c), ModifiersIn(opts.flags))
             x == CompareBytes(text(a), text(b))
  <2>1. CompareAscending(a, b) = x
    BY DEF Transformable, CompareAscending, CompareTexts, None
  <2>2. TransformsOrder(a, b) = Directed(FirstOfResults(<<x, IF Settled THEN 0 ELSE y>>), Reversed)
    BY <1>1 DEF TransformsOrder
  <2> HIDE DEF x
  <2>3. LastResort(x, a, b) = Directed(IF x # 0 \/ Settled THEN x ELSE y, Reversed)
    BY DEF LastResort
  <2>4. FirstOfResults(<<x, IF Settled THEN 0 ELSE y>>) = IF x # 0 \/ Settled THEN x ELSE y
    BY TwoResults
  <2> QED BY <1>0, <1>1, <2>1, <2>2, <2>3, <2>4, LinesCompared
<1>2. CASE Keys # <<>>
  <2> DEFINE text(c) == Filtered(KeyText(c, 1), ModifiersIn(Keys[1].flags))
             x == CompareBytes(text(a), text(b))
             stable == "s" \in opts.flags
  <2>1. /\ Len(Keys) = 1 /\ "r" \notin opts.flags /\ "u" \notin opts.flags
        /\ "r" \notin Keys[1].flags /\ Keys[1].mode = None
    BY <1>2 DEF Transformable
  <2>2. CompareKeys(a, b) = x
    BY <2>1, SingleKey DEF CompareKey, CompareTexts, Directed, None
  <2>3. TransformsOrder(a, b) = Directed(FirstOfResults(<<x, IF stable THEN 0 ELSE y>>), Reversed)
    BY <1>2 DEF TransformsOrder
  <2> HIDE DEF x
  <2>4. ~Reversed /\ (Settled <=> stable)
    BY <2>1 DEF Reversed, Settled
  <2>5. AfterKeys(x, a, b) = IF x # 0 \/ stable THEN x ELSE y
    BY <2>4 DEF AfterKeys, LastResort, Directed
  <2>6. FirstOfResults(<<x, IF stable THEN 0 ELSE y>>) = IF x # 0 \/ stable THEN x ELSE y
    BY TwoResults
  <2> QED BY <1>0, <1>2, <2>2, <2>3, <2>4, <2>5, <2>6, LinesCompared DEF Directed
<1> QED BY <1>1, <1>2

LEMMA SimpleAgrees ==
  ASSUME Keys \in Seq(KeyType), SimpleKey, SInv, stage = "ordered",
         NEW a \in DOMAIN lines, NEW b \in DOMAIN lines
  PROVE  OrderOf("simple", a, b) = CompareLines(a, b)
<1>1. Len(Keys) = 1 /\ DOMAIN Keys = {1} /\ Keys[1] \in KeyType /\ Keys # <<>>
  <2>1. Len(Keys) = 1
    BY Zenon DEF SimpleKey
  <2> QED BY <2>1, OneMember
<1>2. OneField(opts.separator, Keys[1])
  BY <1>1 DEF SimpleKey, OneField, KeyType
<1>3. ASSUME NEW c \in DOMAIN lines
      PROVE  Slice(lines[c], SimpleSpan(lines[c], opts.separator, Keys[1])) = KeyText(c, 1)
  <2>1. lines[c] \in Text /\ c \in 1 .. Len(spans)
    BY <1>1 DEF SInv
  <2>2. spans[c] = Searched(lines[c])
    BY <1>1, <2>1 DEF SInv
  <2>3. spans[c][1] = UncachedSpan(lines[c], opts.separator, Keys[1])
    BY <1>1, <2>2 DEF Searched
  <2> QED BY <1>2, <2>1, <2>3, SimpleSpanIsSpan DEF KeyText
<1>4. SimpleOrder(a, b) = AfterKeys(CompareKey(Keys[1], KeyText(a, 1), KeyText(b, 1)), a, b)
  BY <1>3 DEF SimpleOrder
<1>5. OrderOf("simple", a, b) = SimpleOrder(a, b)
  BY DEF OrderOf
<1> QED BY <1>1, <1>4, <1>5, SingleKey, LinesCompared

\* What the planner, the check and the merge have made sure of.
LEMMA EnginesChosen ==
  ASSUME Keys \in Seq(KeyType)
  PROVE  \A engine \in {SortEngine, CheckEngine, MergeEngine} :
           \/ engine = "comparator"
           \/ engine = "bytes" /\ Keys = <<>> /\ opts.mode = None /\ "b" \notin opts.flags
                /\ ~HasModifiers(opts.flags)
           \/ engine = "keys" /\ Keys # <<>>
                /\ \A k \in DOMAIN Keys : Keys[k].mode = None /\ ~HasModifiers(Keys[k].flags)
           \/ engine = "transformed" /\ Transformable
           \/ engine = "simple" /\ SimpleKey
           \/ engine = "parsed" /\ Keys = <<>>
<1> DEFINE Right(engine) ==
           \/ engine = "comparator"
           \/ engine = "bytes" /\ Keys = <<>> /\ opts.mode = None /\ "b" \notin opts.flags
                /\ ~HasModifiers(opts.flags)
           \/ engine = "keys" /\ Keys # <<>>
                /\ \A k \in DOMAIN Keys : Keys[k].mode = None /\ ~HasModifiers(Keys[k].flags)
           \/ engine = "transformed" /\ Transformable
           \/ engine = "simple" /\ SimpleKey
           \/ engine = "parsed" /\ Keys = <<>>
<1>1. Right(SortEngine)
  <2>1. CASE SortEngine = "comparator"
    BY <2>1
  <2>2. CASE SortEngine # "comparator"
    <3>1. SortEngine = Plan /\ Plan # "scalar"
      BY <2>2 DEF SortEngine
    <3>2. \A k \in DOMAIN Keys : Keys[k] \in ToSet(Keys)
      BY DEF ToSet
    <3> HIDE DEF SortEngine, Transformable, HasModifiers
    <3>3. CASE AnyModifiers \/ (Keys = <<>> /\ "b" \in opts.flags)
      BY <3>1, <3>3 DEF Plan
    <3>4. CASE ~(AnyModifiers \/ (Keys = <<>> /\ "b" \in opts.flags))
      <4>1. ~AnyMode
        BY <3>1, <3>4 DEF Plan
      <4>2. opts.mode = None /\ \A k \in DOMAIN Keys : Keys[k].mode = None
        BY <3>2, <4>1 DEF AnyMode
      <4>3. ~HasModifiers(opts.flags) /\ \A k \in DOMAIN Keys : ~HasModifiers(Keys[k].flags)
        BY <3>2, <3>4 DEF AnyModifiers
      <4>4. CASE Keys = <<>>
        BY <3>1, <3>4, <4>1, <4>2, <4>3, <4>4 DEF Plan
      <4>5. CASE Keys # <<>>
        BY <3>1, <3>4, <4>1, <4>2, <4>3, <4>5 DEF Plan
      <4> QED BY <4>4, <4>5
    <3> QED BY <3>3, <3>4
  <2> QED BY <2>1, <2>2
<1>2. PlainLines => Keys = <<>> /\ opts.mode = None /\ "b" \notin opts.flags /\ ~HasModifiers(opts.flags)
  BY DEF PlainLines, HasModifiers
<1>3. Right(CheckEngine)
  BY <1>2 DEF CheckEngine
<1>4. Right(MergeEngine)
  <2>1. CASE "debug" \in opts.flags
    BY <2>1 DEF MergeEngine
  <2>2. CASE "debug" \notin opts.flags /\ Keys = <<>>
    BY <1>2, <2>2 DEF MergeEngine
  <2>3. CASE "debug" \notin opts.flags /\ Keys # <<>>
    BY <2>3 DEF MergeEngine
  <2> QED BY <2>1, <2>2, <2>3
<1> QED BY <1>1, <1>3, <1>4

-----------------------------------------------------------------------------
(***************************************************************************)
(* Stages, and the places in the arguments                                 *)
(***************************************************************************)

PlacesOK ==
  /\ stage \in Stages \cup OrderStages
  /\ IF stage \in OrderStages THEN operands = 0 ELSE operands \in 0 .. Len(args)
  /\ at \in Nat \ {0} /\ letter \in Nat \ {0}

LEMMA InitPlaces == Init => PlacesOK
<1> SUFFICES ASSUME Init PROVE PlacesOK
  OBVIOUS
<1>1. stage = "parse" /\ operands = 0 /\ at = 1 /\ letter = 1 /\ args \in Seq(Vocabulary)
  BY CommandAssumption DEF Init, CommandInit, Vocabulary
<1> QED BY <1>1 DEF PlacesOK, Stages, OrderStages

\* While arguments are read they are what ArgsOK says.
LEMMA PlacesParsing ==
  ASSUME CInv', stage' = "parse", letter' \in Nat \ {0}
  PROVE  PlacesOK'
  BY DEF CInv, ArgsOK, PlacesOK, Stages, OrderStages

\* A step of another kind leaves the arguments alone.
LEMMA PlacesKept ==
  ASSUME PlacesOK, stage \notin OrderStages, stage' \in Stages,
         UNCHANGED <<args, operands, at, letter>>
  PROVE  PlacesOK'
  BY DEF PlacesOK, Stages, OrderStages

\* Reading ends with a letter of the next argument, or of this one.
LEMMA CommandPlaces ==
  ASSUME CInv', PlacesOK, CommandNext
  PROVE  PlacesOK'
<1>1. stage \notin OrderStages
  BY CommandStages
<1>2. ASSUME Refuse
      PROVE  PlacesOK'
  BY <1>1, <1>2, PlacesKept DEF Refuse, Stages
<1>3. ASSUME stage' = "parse", letter' \in {1, letter, letter + 1}
      PROVE  PlacesOK'
  <2>1. letter' \in Nat \ {0}
    BY <1>3 DEF PlacesOK
  <2> QED BY <1>3, <2>1, PlacesParsing
<1>4. CASE ReadObsoleteKey
  BY <1>2, <1>3, <1>4 DEF ReadObsoleteKey, Reading
<1>5. CASE EndOptions
  BY <1>3, <1>5 DEF EndOptions, Reading
<1>6. CASE ReadOperand
  BY <1>3, <1>6 DEF ReadOperand, Reading
<1>7. CASE ReadUnknown
  BY <1>2, <1>7 DEF ReadUnknown
<1>8. CASE ReadLetter
  BY <1>3, <1>8 DEF ReadLetter, Reading
<1>9. CASE ReadValue
  BY <1>2, <1>3, <1>9 DEF ReadValue, Reading
<1>10. CASE EndParse
  BY <1>1, <1>10, PlacesKept DEF EndParse, Stages
<1>11. CASE LoadFiles0
  <2>1. CASE stage' = "check" /\ UNCHANGED <<given, args, operands, at, letter, opts>>
    BY <1>1, <2>1, PlacesKept DEF Stages
  <2>2. ASSUME NEW list \in NameLists, stage' = "check", args' = list, operands' = Len(list),
               UNCHANGED <<given, at, letter, opts>>
        PROVE  PlacesOK'
    <3>1. list \in Seq(STRING)
      BY CommandAssumption
    <3> QED BY <2>2, <3>1 DEF PlacesOK, Stages, OrderStages
  <2> QED BY <1>2, <1>11, <2>1, <2>2 DEF LoadFiles0
<1>12. CASE CheckOrdering
  BY <1>1, <1>2, <1>12, PlacesKept DEF CheckOrdering, Stages
<1>13. CASE ApplyKeyDefaults
  BY <1>1, <1>13, PlacesKept DEF ApplyKeyDefaults, Stages
<1>14. CASE CheckOperands
  BY <1>1, <1>2, <1>14, PlacesKept DEF CheckOperands, Stages
<1> QED BY <1>4, <1>5, <1>6, <1>7, <1>8, <1>9, <1>10, <1>11, <1>12, <1>13, <1>14 DEF CommandNext

LEMMA NextPlaces == CInv /\ CInv' /\ PlacesOK /\ [Next]_vars => PlacesOK'
<1> SUFFICES ASSUME CInv', PlacesOK, [Next]_vars PROVE PlacesOK'
  OBVIOUS
<1>1. CASE UNCHANGED vars
  BY <1>1 DEF vars, command_vars, PlacesOK
<1>2. CASE CommandNext
  BY <1>2, CommandPlaces
<1>3. CASE ReadLines
  <2>1. stage' \in OrderStages /\ operands' = 0 /\ at' = 1 /\ letter' = letter
    BY <1>3, Zenon DEF ReadLines, OrderStages
  <2> QED BY <2>1 DEF PlacesOK
<1>4. CASE SeedFails
  BY <1>4, PlacesKept DEF SeedFails, Refuse, OrderStages, Stages
<1>5. CASE PrepareLine
  <2>1. /\ stage = "prepare" /\ stage' \in OrderStages
        /\ operands' = operands /\ at' = at /\ letter' = letter
    BY <1>5, Zenon DEF PrepareLine, OrderStages
  <2> QED BY <2>1 DEF PlacesOK, OrderStages
<1> QED BY <1>1, <1>2, <1>3, <1>4, <1>5 DEF Next, Stopped

\* The part of TypeOK that is about the command.
LEMMA PlacesTyped ==
  ASSUME CInv, PlacesOK
  PROVE  IF stage \in OrderStages THEN operands = 0 ELSE CommandTypeOK
<1>1. CASE stage \in OrderStages
  BY <1>1 DEF PlacesOK
<1>2. CASE stage \notin OrderStages
  <2>1. /\ stage \in Stages /\ operands \in 0 .. Len(args)
        /\ at \in Nat \ {0} /\ letter \in Nat \ {0}
    BY <1>2 DEF PlacesOK
  <2>2. \A k \in ToSet(opts.keys) : k.start \in 1 .. MaxSize /\ k.end \in 0 .. MaxSize
    <3> SUFFICES ASSUME NEW k \in ToSet(opts.keys)
                 PROVE  k.start \in 1 .. MaxSize /\ k.end \in 0 .. MaxSize
      OBVIOUS
    <3>1. opts.keys \in Seq(KeyType)
      BY DEF CInv, OptsOK
    <3>2. PICK p \in DOMAIN opts.keys : k = opts.keys[p]
      BY DEF ToSet
    <3>3. k \in KeyType
      BY <3>1, <3>2
    <3> QED BY <3>3 DEF KeyType
  <2>3. CommandTypeOK
    BY <2>1, <2>2 DEF CommandTypeOK, CInv, OptsOK
  <2> QED BY <1>2, <2>3
<1> QED BY <1>1, <1>2

-----------------------------------------------------------------------------

\* CInv is an invariant, for all words and command lines.
THEOREM Inductive == Spec => []CInv
  BY InitCInv, NextCInv, PTL DEF Spec

\* Every line has the spans that a search of it finds.
THEOREM SpansInductive == Spec => []SInv
  BY Inductive, InitSInv, NextSInv, PTL DEF Spec

\* Stages, operands and keys are what their names say, every span is a part of
\* its line, and the arrays of field positions have a place for every field a
\* key names (rank_lines_prepare_keys, max_blank_key_field).
THEOREM TypeCorrect == Spec => []TypeOK
<1>1. CInv /\ SInv /\ PlacesOK => TypeOK
  BY PlacesTyped, SpansTyped DEF TypeOK
<1>2. Init => PlacesOK
  BY InitPlaces
<1>3. CInv /\ CInv' /\ PlacesOK /\ [Next]_vars => PlacesOK'
  BY NextPlaces
<1> QED BY <1>1, <1>2, <1>3, Inductive, SpansInductive, PTL DEF Spec

\* The key that extract_key_span finds, and the one its cached variants find
\* after any lines before, is the one of the definition of fields in
\* doc/rank.1:80-82: for all lines, separators and keys.
THEOREM SpansAreFieldsCorrect == Spec => []SpansAreFields
<1>1. CInv /\ SInv => SpansAreFields
  <2> SUFFICES ASSUME CInv, SInv, NEW a \in DOMAIN spans, NEW k \in DOMAIN Keys
               PROVE  KeyText(a, k) = KeyByDefinition(lines[a], opts.separator, Keys[k])
    BY DEF SpansAreFields
  <2> QED BY SpanFound DEF KeyText
<1> QED BY <1>1, Inductive, SpansInductive, PTL

\* With the same options every engine of the sort, the check and the merge
\* orders any two lines as rank_compare_lines does, whatever shortcut it takes:
\* for all command lines, all lines and any digest (src/plan.c:12,
\* src/check.c:241, src/merge.c:133).
THEOREM EnginesAgreeCorrect == Spec => []EnginesAgree
<1>1. CInv /\ SInv => EnginesAgree
  <2> SUFFICES ASSUME CInv, SInv, stage = "ordered", NEW a \in DOMAIN lines, NEW b \in DOMAIN lines,
                      NEW engine \in {SortEngine, CheckEngine, MergeEngine}
               PROVE  OrderOf(engine, a, b) = CompareLines(a, b)
    BY DEF EnginesAgree
  <2>1. Keys \in Seq(KeyType)
    BY DEF CInv, OptsOK, Keys
  <2>2. CASE engine = "comparator"
    BY <2>2 DEF OrderOf
  <2>3. CASE engine = "parsed" /\ Keys = <<>>
    BY <2>3, LinesCompared DEF OrderOf
  <2> QED BY <2>1, <2>2, <2>3, EnginesChosen, BytesAgree, KeysAgree, TransformsAgree, SimpleAgrees
<1> QED BY <1>1, Inductive, SpansInductive, PTL

\* No operand is ever written over an argument that has still to be read.
THEOREM UnreadIntactCorrect == Spec => []UnreadIntact
<1>1. CInv => UnreadIntact
  BY DEF CInv, ArgsOK, UnreadIntact
<1> QED BY <1>1, Inductive, PTL

\* No key has two orderings, or one with -d or -i, after it has inherited the
\* options of the command.
THEOREM OneOrderingCorrect == Spec => []OneOrdering
<1>1. CInv => OneOrdering
  BY DEF CInv, OptsOK, ModeNoted, OrderingsOK, Checked, OneOrdering
<1> QED BY <1>1, Inductive, PTL

=============================================================================
