----------------------------- MODULE CommandLine -----------------------------
(***************************************************************************)
(* The command line: src/options.c and src/key.c, in the order main calls  *)
(* them.  The arguments are read from left to right; an option takes its   *)
(* value from the rest of its argument or from the next one, whatever that *)
(* looks like.  Operands are collected in argv itself: operand n overwrites*)
(* argument n, which has been read by then.  When all is read, the list of *)
(* --files0-from replaces the operands, orderings that do not go together  *)
(* are refused, and keys without options take those of the whole command.  *)
(*                                                                         *)
(* An argument is a name.  What the code finds in its characters is in     *)
(* Words: how it reads as an argument and how it reads as a value.         *)
(***************************************************************************)
EXTENDS Integers, Sequences, FiniteSets, SequencesExt

CONSTANTS
  Words,       \* the words: a function to WordType
  Commands,    \* the command lines: sequences of words
  NameLists,   \* what --files0-from may read: sequences of names
  MaxSize      \* SIZE_MAX, ULONG_MAX and ULLONG_MAX

Modes == {"n", "g", "h", "M", "V", "R"}          \* orderings, and their flags
Flags == {"r", "s", "u", "m", "z", "b", "f", "d", "i", "debug", "help", "version"}
Checks == {"c", "C"}
Named == {"o", "random-source", "files0-from", "compress-program"}
Counts == {"batch-size", "parallel"}
Modifiers == Modes \cup {"b", "d", "f", "i", "r"}

None == "none"          \* a pointer that is NULL
NoNumber == -1          \* no digits where a number belongs
Absent == -2            \* no dot and character in a position

\* FIELD[.CHAR][MODS], the text up to a comma or the end
PositionType == [field : Int, char : Int, mods : Seq(STRING)]

(***************************************************************************)
(* The form of an argument: "plus" and "minus" are + and - with a digit,   *)
(* "dashes" is --, "options" is any other - with characters.  A cluster    *)
(* such as -rk2 is its letters up to the first that takes a value, and the *)
(* text after that one; a long option is one letter with its own name.  As *)
(* a value a word is a key, a size, a separator, or one of the words of    *)
(* --sort and --check.  Obsolete positions are read from +F.C and -F.C.    *)
(***************************************************************************)
WordType ==
  [form : {"plus", "minus", "dashes", "options", "operand"},
   letters : Seq(STRING), attached : STRING,
   key : Seq(PositionType),          \* the text between commas
   sign : {1, -1},                   \* -1: a minus before the digits
   number : Int, scale : Int,        \* digits, and 1, K, M or G after them; else NoNumber
   separator : Int,                  \* the only byte of the word, else NoNumber
   mode : Modes \cup {None}, check : Checks \cup {None}]    \* of --sort and --check

ASSUME CommandAssumption ==
  /\ \A w \in DOMAIN Words : /\ Words[w] \in WordType
                               /\ Words[w].attached \in DOMAIN Words \cup {None}
  /\ Commands \subseteq Seq(DOMAIN Words)
  /\ MaxSize \in Nat
  /\ \A l \in NameLists : l \in Seq(STRING)

VARIABLES
  stage,      \* how far main has come
  given,      \* the command line
  args,       \* argv, or the names of --files0-from: the array operands is in
  operands,   \* options->operand_count
  at,         \* the argument that is read
  letter,     \* its letter that is read, in a cluster
  opts        \* the other options

command_vars == <<stage, given, args, operands, at, letter, opts>>

Stages == {"parse", "files0", "check", "defaults", "operands", "accepted", "help", "refused"}

Defaults ==
  [flags |-> {}, check |-> None, mode |-> None, mode_flags |-> {},
   separator |-> NoNumber, keys |-> <<>>, dirs |-> <<>>, buffer_size |-> NoNumber,
   counts |-> [batch |-> NoNumber, parallel |-> 1],
   names |-> [n \in Named |-> None]]

-----------------------------------------------------------------------------
(***************************************************************************)
(* Keys                                                                    *)
(***************************************************************************)

\* parse_size: digits, as far as they fit.
IsSize(n) == n \in 0 .. MaxSize

\* parse_pos and parse_modifiers: fields count from 1, characters from 0.
IsPosition(p) ==
  /\ IsSize(p.field) /\ p.field # 0
  /\ p.char = Absent \/ IsSize(p.char)
  /\ ToSet(p.mods) \subseteq Modifiers

\* rank_key_parse accepts one or two positions.
IsKey(text) == Len(text) \in {1, 2} /\ \A p \in ToSet(text) : IsPosition(p)

\* The key; the last ordering decides the mode and all of them are noted.
ParsedKey(text) ==
  LET start == text[1]
      end   == IF Len(text) = 2 THEN text[2] ELSE [field |-> 0, char |-> Absent, mods |-> <<>>]
      mods  == start.mods \o end.mods
      modes == {p \in DOMAIN mods : mods[p] \in Modes}
  IN  [start |-> start.field, start_char |-> start.char, start_blanks |-> "b" \in ToSet(start.mods),
       end |-> end.field, end_char |-> end.char, end_blanks |-> "b" \in ToSet(end.mods),
       flags |-> ToSet(mods) \cap {"d", "f", "i", "r"},
       mode |-> IF modes = {} THEN None ELSE mods[Max(modes)],
       mode_flags |-> ToSet(mods) \cap Modes]

\* translate_obsolete_pos: strtoul stops at the largest number, and adding one
\* to that is zero.
PlusOne(n) == IF n >= MaxSize THEN 0 ELSE n + 1

IsObsolete(p, is_end) ==
  /\ p.field # NoNumber /\ p.char # NoNumber /\ p.mods = <<>>
  /\ is_end => p.field # 0

Translated(p, is_end) ==
  [field |-> IF is_end THEN IF p.field > MaxSize THEN MaxSize ELSE p.field ELSE PlusOne(p.field),
   char |-> IF p.char = Absent THEN Absent ELSE PlusOne(p.char),
   mods |-> <<>>]

-----------------------------------------------------------------------------
(***************************************************************************)
(* Options                                                                 *)
(***************************************************************************)

TakesValue == {"k", "t", "S", "T", "sort", "check="} \cup Named \cup Counts

\* The options after a letter that takes no value.
WithLetter(l) ==
  CASE l \in Flags  -> [opts EXCEPT !.flags = @ \cup {l}]
    [] l \in Modes  -> [opts EXCEPT !.mode = l, !.mode_flags = @ \cup {l}]
    [] l \in Checks -> [opts EXCEPT !.check = l]

\* strtoul, strtoull: out of range is only what the digits alone say; a minus
\* negates them in the width.
Unsigned(word) ==
  IF word.number \in 0 .. MaxSize THEN (word.sign * word.number) % (MaxSize + 1) ELSE NoNumber

\* Variant: the size is multiplied without looking at the width first.
Size_wraps(word) ==
  IF Unsigned(word) = NoNumber THEN NoNumber ELSE (Unsigned(word) * word.scale) % (MaxSize + 1)

\* set_buffer_size: the number times its scale, if the width holds them.
Size(word) ==
  IF Unsigned(word) = NoNumber \/ Unsigned(word) * word.scale > MaxSize
  THEN NoNumber ELSE Unsigned(word) * word.scale

\* set_batch_size, set_parallel: a number alone, and not zero.
IsCount(word) == Unsigned(word) \notin {0, NoNumber} /\ word.scale = 1

Accepts(l, value) ==
  CASE l = "k"      -> IsKey(Words[value].key)
    [] l = "t"      -> Words[value].separator # NoNumber
    [] l = "S"      -> Size(Words[value]) # NoNumber
    [] l = "T"      -> value # ""
    [] l = "sort"   -> Words[value].mode # None
    [] l = "check=" -> Words[value].check # None
    [] l \in Counts -> IsCount(Words[value])
    [] OTHER        -> TRUE

WithValue(l, value) ==
  LET word == Words[value]
  IN  CASE l = "k"      -> [opts EXCEPT !.keys = Append(@, ParsedKey(word.key))]
        [] l = "t"      -> [opts EXCEPT !.separator = word.separator]
        [] l = "S"      -> [opts EXCEPT !.buffer_size = Size(word)]
        [] l = "T"      -> [opts EXCEPT !.dirs = Append(@, value)]
        [] l = "sort"   -> [opts EXCEPT !.mode = word.mode, !.mode_flags = @ \cup {word.mode}]
        [] l = "check=" -> [opts EXCEPT !.check = word.check]
        [] l = "batch-size" -> [opts EXCEPT !.counts.batch = Unsigned(word)]
        [] l = "parallel"   -> [opts EXCEPT !.counts.parallel = Unsigned(word)]
        [] l \in Named  -> [opts EXCEPT !.names[l] = value]

-----------------------------------------------------------------------------
(***************************************************************************)
(* rank_options_parse                                                      *)
(***************************************************************************)

CommandInit ==
  /\ stage = "parse"
  /\ given \in Commands
  /\ args = given /\ operands = 0
  /\ at = 1 /\ letter = 1
  /\ opts = Defaults

Word == Words[args[at]]
Reading(form) == stage = "parse" /\ at <= Len(args) /\ Word.form = form

\* A diagnostic and the exit status 2.
Refuse ==
  /\ stage' = "refused"
  /\ UNCHANGED <<given, args, operands, at, letter, opts>>

\* +F.C, with -F.C if that follows
ReadObsoleteKey ==
  /\ Reading("plus")
  /\ LET paired == at < Len(args) /\ Words[args[at + 1]].form = "minus"
         start  == Word.key[1]
         end    == Words[args[at + 1]].key[1]
         text   == <<Translated(start, FALSE)>>
                     \o IF paired THEN <<Translated(end, TRUE)>> ELSE <<>>
     IN  IF IsObsolete(start, FALSE) /\ (paired => IsObsolete(end, TRUE)) /\ IsKey(text)
         THEN /\ opts' = [opts EXCEPT !.keys = Append(@, ParsedKey(text))]
              /\ at' = IF paired THEN at + 2 ELSE at + 1
              /\ UNCHANGED <<stage, given, args, operands, letter>>
         ELSE Refuse

\* --: all that follow are operands.
EndOptions ==
  /\ Reading("dashes")
  /\ args' = [p \in DOMAIN args |->
               IF p - operands \in 1 .. Len(args) - at THEN args[at + (p - operands)]
               ELSE args[p]]
  /\ operands' = operands + (Len(args) - at)
  /\ at' = Len(args) + 1
  /\ UNCHANGED <<stage, given, letter, opts>>

\* Variant: the array begins one argument later.
ReadOperand_later ==
  /\ Reading("operand")
  /\ args' = [args EXCEPT ![operands + 2] = args[at]]
  /\ operands' = operands + 1
  /\ at' = at + 1
  /\ UNCHANGED <<stage, given, letter, opts>>

ReadOperand ==
  /\ Reading("operand")
  /\ args' = [args EXCEPT ![operands + 1] = args[at]]
  /\ operands' = operands + 1
  /\ at' = at + 1
  /\ UNCHANGED <<stage, given, letter, opts>>

\* - and a digit where no + is before it, or a letter there is no option for.
ReadUnknown ==
  /\ stage = "parse" /\ at <= Len(args)
  /\ \/ Word.form = "minus"
     \/ /\ Word.form = "options"
        /\ Word.letters[letter] \notin Flags \cup Modes \cup Checks \cup TakesValue
  /\ Refuse

ReadLetter ==
  /\ Reading("options")
  /\ Word.letters[letter] \in Flags \cup Modes \cup Checks
  /\ opts' = WithLetter(Word.letters[letter])
  /\ IF letter < Len(Word.letters)
     THEN letter' = letter + 1 /\ at' = at
     ELSE letter' = 1 /\ at' = at + 1
  /\ UNCHANGED <<stage, given, args, operands>>

\* Variant: the value is also left in the array of operands.
ReadValue_keeps ==
  /\ Reading("options")
  /\ Word.letters[letter] \in TakesValue
  /\ LET l        == Word.letters[letter]
         attached == Word.attached # None
         value    == IF attached THEN Word.attached ELSE args[at + 1]
     IN  IF (attached \/ at < Len(args)) /\ Accepts(l, value)
         THEN /\ opts' = WithValue(l, value)
              /\ at' = IF attached THEN at + 1 ELSE at + 2
              /\ letter' = 1
              /\ args' = IF attached THEN args ELSE [args EXCEPT ![operands + 1] = value]
              /\ operands' = IF attached THEN operands ELSE operands + 1
              /\ UNCHANGED <<stage, given>>
         ELSE Refuse

\* A letter with a value ends its cluster.
ReadValue ==
  /\ Reading("options")
  /\ Word.letters[letter] \in TakesValue
  /\ LET l        == Word.letters[letter]
         attached == Word.attached # None
         value    == IF attached THEN Word.attached ELSE args[at + 1]
     IN  IF (attached \/ at < Len(args)) /\ Accepts(l, value)
         THEN /\ opts' = WithValue(l, value)
              /\ at' = IF attached THEN at + 1 ELSE at + 2
              /\ letter' = 1
              /\ UNCHANGED <<stage, given, args, operands>>
         ELSE Refuse

\* All is read; --help and --version come before everything else.
EndParse ==
  /\ stage = "parse" /\ at > Len(args)
  /\ stage' = IF {"help", "version"} \cap opts.flags # {} THEN "help" ELSE "files0"
  /\ UNCHANGED <<given, args, operands, at, letter, opts>>

-----------------------------------------------------------------------------
(***************************************************************************)
(* What main does with the options                                         *)
(***************************************************************************)

\* rank_options_load_files0: the names replace the operands, of which there
\* may be none.  No name is empty or stands for the standard input.
LoadFiles0 ==
  /\ stage = "files0"
  /\ \/ /\ opts.names["files0-from"] = None
        /\ stage' = "check" /\ UNCHANGED <<given, args, operands, at, letter, opts>>
     \/ /\ opts.names["files0-from"] # None
        /\ \E list \in NameLists :
             IF operands = 0 /\ list # <<>> /\ {"", "-"} \cap ToSet(list) = {}
             THEN /\ stage' = "check"
                  /\ args' = list /\ operands' = Len(list)
                  /\ UNCHANGED <<given, at, letter, opts>>
             ELSE Refuse
     \/ opts.names["files0-from"] # None /\ Refuse    \* it cannot be read

\* mode_set_compatible: of n, g, h and M one, and none of V, R, d and i with it.
Compatible(mode_flags, flags) ==
  Cardinality(mode_flags \cap {"n", "g", "h", "M"})
    + (IF (mode_flags \cap {"V", "R"}) \cup (flags \cap {"d", "i"}) = {} THEN 0 ELSE 1) <= 1

CheckOrdering ==
  /\ stage = "check"
  /\ IF /\ Compatible(opts.mode_flags, opts.flags)
        /\ \A k \in ToSet(opts.keys) : Compatible(k.mode_flags, k.flags)
     THEN stage' = "defaults" /\ UNCHANGED <<given, args, operands, at, letter, opts>>
     ELSE Refuse

\* A key with no option of its own.
Plain(key) ==
  key.mode = None /\ key.mode_flags = {} /\ key.flags = {} /\ ~key.start_blanks /\ ~key.end_blanks

\* Variant: what the command says is added to what the key says.
Inherited_mixed(key) ==
  IF key.mode # None THEN key
  ELSE [key EXCEPT !.mode = opts.mode, !.mode_flags = opts.mode_flags,
                   !.flags = @ \cup (opts.flags \cap {"d", "f", "i", "r"})]

Inherited(key) ==
  IF ~Plain(key) THEN key
  ELSE [key EXCEPT !.mode = opts.mode, !.mode_flags = opts.mode_flags,
                   !.flags = opts.flags \cap {"d", "f", "i", "r"},
                   !.start_blanks = "b" \in opts.flags, !.end_blanks = "b" \in opts.flags]

ApplyKeyDefaults ==
  /\ stage = "defaults"
  /\ stage' = "operands"
  /\ opts' = [opts EXCEPT !.keys = [k \in DOMAIN @ |-> Inherited(@[k])]]
  /\ UNCHANGED <<given, args, operands, at, letter>>

\* rank_check_options_valid: -c and -C read one file.
CheckOperands ==
  /\ stage = "operands"
  /\ IF opts.check # None /\ operands > 1 THEN Refuse
     ELSE stage' = "accepted" /\ UNCHANGED <<given, args, operands, at, letter, opts>>

CommandNext ==
  \/ ReadObsoleteKey \/ EndOptions \/ ReadOperand \/ ReadUnknown \/ ReadLetter \/ ReadValue
  \/ EndParse \/ LoadFiles0 \/ CheckOrdering \/ ApplyKeyDefaults \/ CheckOperands

-----------------------------------------------------------------------------
(***************************************************************************)
(* Properties                                                              *)
(***************************************************************************)

\* Stages, keys and operands are what their names say: no accepted key has
\* field 0, and operands never outnumber the array they are in.
CommandTypeOK ==
  /\ stage \in Stages
  /\ operands \in 0 .. Len(args)
  /\ at \in Nat \ {0} /\ letter \in Nat \ {0}
  /\ opts.flags \subseteq Flags /\ opts.check \in Checks \cup {None}
  /\ opts.mode \in Modes \cup {None} /\ opts.mode_flags \subseteq Modes
  /\ \A k \in ToSet(opts.keys) : k.start \in 1 .. MaxSize /\ k.end \in 0 .. MaxSize

\* The operands are written over the arguments, but over none that has still
\* to be read: the loop of rank_options_parse never reads a word twice or
\* loses one, however options, values and operands are mixed.
UnreadIntact ==
  stage = "parse" =>
    operands < at /\ \A p \in at .. Len(given) : args[p] = given[p]

\* What each word of a command line is, decided by the words before it.
RolesIn(argv) ==
  LET takes(w) == w.form = "options" /\ w.attached = None
                    /\ w.letters[Len(w.letters)] \in TakesValue
      role[p \in 0 .. Len(argv)] ==
        IF p = 0 THEN "none"
        ELSE IF role[p - 1] \in {"dashes", "after dashes"} THEN "after dashes"
        ELSE IF role[p - 1] = "takes" THEN "value"
        ELSE IF role[p - 1] = "plus" /\ Words[argv[p]].form = "minus" THEN "value"
        ELSE IF takes(Words[argv[p]]) THEN "takes" ELSE Words[argv[p]].form
  IN  role

\* When all is read every word of the command has been used exactly as what it
\* is: the operands are the words that are neither options nor values, in
\* their order, every letter of an option is set, no other is, and there are
\* as many keys as were given (the parser of src/options.c:74-494).  The size
\* and the counts are those of the last -S, --batch-size and --parallel: the
\* number that was written times its unit, which does not wrap
\* (src/options.c:913-996).  Only a number below zero is not what was written:
\* it stands for the one that is larger by two to the width.
ReadAsGiven ==
  stage \in {"files0", "help"} =>
    LET word(p) == Words[given[p]]
        readBy(role) ==
          LET at_role(roles) == {p \in DOMAIN given : role[p] \in roles}
              written(settings, places) ==
                LET letters == UNION {ToSet(word(p).letters) : p \in settings}
                    last(l) == Max({p \in settings : l \in ToSet(word(p).letters)})
                    value(l) == IF word(last(l)).attached # None
                                THEN Words[word(last(l)).attached] ELSE word(last(l) + 1)
                    meant(w) ==
                      (w.sign * w.number + IF w.sign * w.number < 0 THEN MaxSize + 1 ELSE 0) * w.scale
                    asMeant(l, unset, stored) ==
                      stored = IF l \in letters THEN meant(value(l)) ELSE unset
                IN  /\ opts.flags = letters \cap Flags
                    /\ "sort" \notin letters => opts.mode_flags = letters \cap Modes
                    /\ Len(opts.keys) = Cardinality(at_role({"plus"}))
                         + Cardinality({p \in settings : "k" \in ToSet(word(p).letters)})
                    /\ SubSeq(args, 1, operands) = [n \in DOMAIN places |-> given[places[n]]]
                    /\ asMeant("S", NoNumber, opts.buffer_size)
                    /\ asMeant("batch-size", NoNumber, opts.counts.batch)
                    /\ asMeant("parallel", 1, opts.counts.parallel)
          IN  written(at_role({"options", "takes"}),
                      SetToSortSeq(at_role({"operand", "after dashes"}), <))
    IN  readBy(RolesIn(given))

\* After the inheritance no key has two orderings, or one together with -d or
\* -i, though the orderings were checked before: what a key inherits does not
\* mix with what it has ("Combining ordering modes is rejected", "Global
\* ordering options apply to a key only when that key has no options of its
\* own", doc/rank.1:68-70).
OneOrdering ==
  stage \in {"operands", "accepted", "prepare", "ordered"} =>
    \A k \in ToSet(opts.keys) :
      /\ Compatible(k.mode_flags, k.flags)
      /\ IF k.mode = None THEN k.mode_flags = {} ELSE k.mode \in k.mode_flags

=============================================================================
