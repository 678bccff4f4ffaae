------------------------------ MODULE LineOrder ------------------------------
(***************************************************************************)
(* From the command line to the order of the lines: the options that       *)
(* CommandLine reads, the keys of the lines they select (KeySpans), what   *)
(* is compared of these (Comparators), and the orders in which the engines *)
(* of the planner, the check of -c and the merge of -m put two lines, all  *)
(* in a locale that compares bytes.                                        *)
(*                                                                         *)
(* The keys are found line by line (rank_lines_prepare_keys); the arrays   *)
(* of field positions live on from one line to the next.                   *)
(***************************************************************************)
EXTENDS CommandLine, KeySpans, Comparators

CONSTANTS
  Inputs(_),     \* the lines that may be read with these options
  Digest(_),     \* the digest of -R, a number
  Garbage        \* what is in memory that malloc returns

VARIABLES
  lines,     \* lines->items, the texts
  spans,     \* lines->key_spans, a sequence of spans for each line prepared
  cache      \* the field positions, from field 0 on

order_vars == <<lines, spans, cache>>
vars == <<command_vars, order_vars>>

OrderStages == {"prepare", "ordered"}
Ended == {"help", "refused", "ordered"}

-----------------------------------------------------------------------------

Init ==
  /\ CommandInit
  /\ lines = <<>> /\ spans = <<>> /\ cache = <<>>

Keys == opts.keys

\* The operands have been read, and memory for the keys is there.
ReadLines ==
  /\ stage = "accepted"
  /\ \E input \in Inputs(opts) : input \in Seq(Seq(0 .. 255)) /\ lines' = input
  /\ stage' = IF Keys = <<>> \/ lines' = <<>> THEN "ordered" ELSE "prepare"
  /\ cache' = IF Len(Keys) > 1
              THEN [f \in 0 .. MaxField(Keys) |-> [start |-> Garbage, word |-> Garbage, end |-> Garbage]]
              ELSE <<>>
  /\ given' = <<>> /\ args' = <<>> /\ operands' = 0 /\ at' = 1
  /\ UNCHANGED <<letter, opts, spans>>

\* -R has no 16 bytes to begin with.
SeedFails ==
  /\ stage = "accepted"
  /\ "R" \in {opts.mode} \cup {k.mode : k \in ToSet(Keys)}
  /\ Refuse
  /\ UNCHANGED order_vars

\* With one key its fields are searched for, with more they are looked up.
PrepareLine ==
  /\ stage = "prepare"
  /\ LET text == lines[Len(spans) + 1]
     IN  /\ cache' = IF cache = <<>> THEN cache ELSE FilledCache(cache, text, opts.separator)
         /\ spans' = Append(spans,
              [k \in DOMAIN Keys |->
                IF cache = <<>> THEN UncachedSpan(text, opts.separator, Keys[k])
                ELSE CachedSpan(text, Keys[k], cache')])
  /\ stage' = IF Len(spans') = Len(lines) THEN "ordered" ELSE stage
  /\ UNCHANGED <<given, args, operands, at, letter, opts, lines>>

Stopped == stage \in Ended /\ UNCHANGED vars

Next ==
  \/ CommandNext /\ UNCHANGED order_vars
  \/ ReadLines \/ SeedFails \/ PrepareLine
  \/ Stopped

Spec == Init /\ [][Next]_vars

-----------------------------------------------------------------------------
(***************************************************************************)
(* Comparing lines a and b, by their numbers                               *)
(***************************************************************************)

ModifiersIn(flags) ==
  [dictionary |-> "d" \in flags, nonprinting |-> "i" \in flags, fold |-> "f" \in flags]
HasModifiers(flags) == {"d", "f", "i"} \cap flags # {}

KeyText(a, k) == Slice(lines[a], spans[a][k])

\* What -b leaves of a line without keys.
Body(a) == IF "b" \in opts.flags THEN SkipLeadingBlanks(lines[a]) ELSE lines[a]

\* -R: digests, and if these are alike what they were made of.
CompareRandom(a, b, modifiers) ==
  FirstOfResults(<<Sign(Digest(Filtered(a, modifiers)) - Digest(Filtered(b, modifiers))),
                   CompareModified(a, b, modifiers)>>)

\* What one of the orderings that parse makes of a text, and how that compares.
ParsedValue(mode, text) ==
  CASE mode = "n" -> NumericParse(text)
    [] mode = "g" -> StrToLd(text)
    [] mode = "h" -> HumanValue(text)
    [] mode = "M" -> MonthParse(text)
    [] mode = "V" -> text

CompareParsed(mode, x, y) ==
  CASE mode = "n" -> CompareNumeric(x, y)
    [] mode = "g" -> CompareGeneral(x, y)
    [] mode = "h" -> CompareHuman(x, y)
    [] mode = "M" -> Sign(x - y)
    [] mode = "V" -> CompareVersion(x, y)

\* Two texts, by a mode or as they are with -d, -i and -f.
CompareTexts(mode, modifiers, a, b) ==
  CASE mode = "R"  -> CompareRandom(a, b, modifiers)
    [] mode = None -> CompareBytes(Filtered(a, modifiers), Filtered(b, modifiers))
    [] OTHER       -> CompareParsed(mode, ParsedValue(mode, a), ParsedValue(mode, b))

\* rank_compare_lines_ascending.  -d, -i, -f and -b have the transform of the
\* line compared; the orderings that skip blanks themselves have the line.
CompareAscending(a, b) ==
  LET text(c) == IF opts.mode \in {"V", "R", None} THEN Body(c) ELSE lines[c]
  IN  CompareTexts(opts.mode, ModifiersIn(opts.flags), text(a), text(b))

CompareKey(key, a, b) ==
  Directed(CompareTexts(key.mode, ModifiersIn(key.flags), a, b), "r" \in key.flags)

\* compare_keys
CompareKeys(a, b) ==
  FirstOfResults([k \in DOMAIN Keys |-> CompareKey(Keys[k], KeyText(a, k), KeyText(b, k))])

\* rank_compare_unique
CompareUnique(a, b) == IF Keys = <<>> THEN CompareAscending(a, b) ELSE CompareKeys(a, b)

Settled == {"s", "u"} \cap opts.flags # {}
Reversed == "r" \in opts.flags

\* Lines compared as a whole, by their bytes if nothing else has decided.
LastResort(result, a, b) ==
  Directed(IF result # 0 \/ Settled THEN result ELSE CompareBytes(lines[a], lines[b]), Reversed)

\* The same after keys, whose results the -r of the command does not reverse.
AfterKeys(result, a, b) == IF result # 0 THEN result ELSE LastResort(result, a, b)

\* rank_compare_lines
CompareLines(a, b) ==
  LET decide(result) == IF Keys = <<>> THEN LastResort(result, a, b) ELSE AfterKeys(result, a, b)
  IN  decide(CompareUnique(a, b))

-----------------------------------------------------------------------------
(***************************************************************************)
(* Who puts lines in which order                                           *)
(***************************************************************************)

AnyModifiers == HasModifiers(opts.flags) \/ \E k \in ToSet(Keys) : HasModifiers(k.flags)
AnyMode == opts.mode # None \/ \E k \in ToSet(Keys) : k.mode # None

\* The radix sort of transforms takes lines without keys, and lines with one
\* key if nothing is reversed.
Transformable ==
  /\ opts.mode = None
  /\ \/ Keys = <<>> /\ ~{"r", "s"} \subseteq opts.flags
     \/ /\ Len(Keys) = 1 /\ {"r", "u"} \cap opts.flags = {}
        /\ "r" \notin Keys[1].flags /\ Keys[1].mode = None

\* rank_plan_from_options
Plan ==
  IF "debug" \in opts.flags THEN "scalar"
  ELSE IF AnyModifiers \/ (Keys = <<>> /\ "b" \in opts.flags)
       THEN IF Transformable THEN "transformed" ELSE "scalar"
  ELSE IF AnyMode THEN "scalar"
  ELSE IF Keys # <<>> THEN "keys" ELSE "bytes"

\* rank_sort_lines.  The sort of transforms leaves lines to the comparator
\* when their only key is not transformed.
SortEngine ==
  IF Plan = "scalar" \/ (Plan = "transformed" /\ Keys # <<>> /\ ~HasModifiers(Keys[1].flags))
  THEN "comparator" ELSE Plan

\* Variant: blanks are skipped in fields that end at a separator, too.
SimpleKey_blanks ==
  /\ Len(Keys) = 1
  /\ LET key == Keys[1]
     IN  /\ key.end = key.start /\ key.start_char < 0 /\ key.end_char < 0
         /\ key.mode # "R" /\ (key.mode = None => ~HasModifiers(key.flags))

\* One key that is one field, found by rank_simple_key_span: the condition of
\* check_fast_kind_from_options and of merge_fast_mode.
SimpleKey ==
  /\ Len(Keys) = 1
  /\ LET key == Keys[1]
     IN  /\ key.end = key.start /\ key.start_char < 0 /\ key.end_char < 0
         /\ opts.separator # NoSeparator => ~key.start_blanks /\ ~key.end_blanks
         /\ key.mode # "R" /\ (key.mode = None => ~HasModifiers(key.flags))

PlainLines == Keys = <<>> /\ opts.mode = None /\ {"b", "d", "f", "i"} \cap opts.flags = {}

\* check_fast_kind_from_options
CheckEngine ==
  IF PlainLines THEN "bytes" ELSE IF SimpleKey THEN "simple" ELSE "comparator"

\* rank_merge_all: streams of lines, heads with a parsed line or key, or the
\* comparator.  --debug is for the comparator.
MergeEngine ==
  CASE "debug" \in opts.flags -> "comparator"
    [] "debug" \notin opts.flags /\ Keys = <<>> ->
         IF PlainLines THEN "bytes"
         ELSE IF opts.mode \in {None, "R"} \/ (opts.mode = "V" /\ "b" \in opts.flags)
         THEN "comparator" ELSE "parsed"
    [] "debug" \notin opts.flags /\ Keys # <<>> -> IF SimpleKey THEN "simple" ELSE "comparator"

\* rank_radix_sort_key: keys as they are, then the line.
KeysOrder(a, b) ==
  AfterKeys(FirstOfResults([k \in DOMAIN Keys |->
              Directed(CompareBytes(KeyText(a, k), KeyText(b, k)), "r" \in Keys[k].flags)]), a, b)

\* rank_radix_sort_transformed_lines and _key.
TransformsOrder(a, b) ==
  LET text(c) == IF Keys = <<>> THEN Filtered(Body(c), ModifiersIn(opts.flags))
                 ELSE Filtered(KeyText(c, 1), ModifiersIn(Keys[1].flags))
      last    == IF Keys = <<>> THEN Settled ELSE "s" \in opts.flags
  IN  Directed(FirstOfResults(<<CompareBytes(text(a), text(b)),
                                IF last THEN 0 ELSE CompareBytes(lines[a], lines[b])>>), Reversed)

\* check_key_records_disordered, merge_fast_run_less: the key, then the line.
SimpleOrder(a, b) ==
  LET text(c) == Slice(lines[c], SimpleSpan(lines[c], opts.separator, Keys[1]))
  IN  AfterKeys(CompareKey(Keys[1], text(a), text(b)), a, b)

\* The order an engine has for lines.
OrderOf(engine, a, b) ==
  CASE engine = "bytes"       -> Directed(CompareBytes(lines[a], lines[b]), Reversed)
    [] engine = "keys"        -> KeysOrder(a, b)
    [] engine = "transformed" -> TransformsOrder(a, b)
    [] engine = "simple"      -> SimpleOrder(a, b)
    [] engine = "parsed"      -> LastResort(CompareAscending(a, b), a, b)
    [] engine = "comparator"  -> CompareLines(a, b)

-----------------------------------------------------------------------------
(***************************************************************************)
(* Properties                                                              *)
(***************************************************************************)

\* Every span is a part of its line, and field positions are there for every
\* field a key names.
TypeOK ==
  /\ IF stage \in OrderStages THEN operands = 0 ELSE CommandTypeOK
  /\ Len(spans) <= Len(lines)
  /\ \A a \in DOMAIN spans : \A k \in DOMAIN Keys :
       spans[a][k].from <= spans[a][k].upto /\ spans[a][k].upto <= Len(lines[a])
  /\ cache # <<>> => \A key \in ToSet(Keys) : {key.start, key.end} \subseteq DOMAIN cache

\* The key that is found, in either way, is the one of the definition of
\* fields in doc/rank.1:80-82, whatever lines came before.
SpansAreFields ==
  \A a \in DOMAIN spans : \A k \in DOMAIN Keys :
    KeyText(a, k) = KeyByDefinition(lines[a], opts.separator, Keys[k])

\* With the same options the sort by each of its engines, the check and the
\* merge agree on the order of any two lines, so that what rank has sorted
\* passes -c and can be merged (src/plan.c:12, src/check.c:241,
\* src/merge.c:133 choose shortcuts by conditions of their own).
EnginesAgree ==
  stage = "ordered" =>
    \A a, b \in DOMAIN lines : \A engine \in {SortEngine, CheckEngine, MergeEngine} :
      OrderOf(engine, a, b) = CompareLines(a, b)

\* rank_compare_lines orders lines: it is antisymmetric and transitive for
\* every combination of options, which no pair of lines can show; only lines
\* with the same bytes are equal unless -s or -u leaves them so.
OrderIsTotal ==
  stage = "ordered" =>
    LET pairs == (DOMAIN lines) \X (DOMAIN lines)
        total(result) ==
          /\ \A a, b \in DOMAIN lines :
               /\ result[a, b] < 0 <=> result[b, a] > 0
               /\ result[a, b] = 0 => \/ lines[a] = lines[b]
                                      \/ Settled /\ CompareUnique(a, b) = 0
          /\ \A a, b, c \in DOMAIN lines :
               result[a, b] <= 0 /\ result[b, c] <= 0 => result[a, c] <= 0
    IN  total([p \in pairs |-> CompareLines(p[1], p[2])])

\* The number a text begins with after blanks, times a power of ten that is
\* the same for all: the longest beginning that is a sign, digits, a dot and
\* digits, each of which may be missing.
NumberIn(text) ==
  LET body == SkipLeadingBlanks(text)
      signed == body # <<>> /\ body[1] \in {Plus, Minus}
      start == IF signed THEN 2 ELSE 1
      number(n) == /\ \A p \in start .. n : IsDigit(body[p]) \/ body[p] = Dot
                   /\ Cardinality({p \in start .. n : body[p] = Dot}) <= 1
      last == Max({n \in 0 .. Len(body) : number(n)})
      dots == {p \in start .. last : body[p] = Dot}
      point == IF dots = {} THEN last + 1 ELSE Min(dots)
      worth(p) == IF p < point THEN 10 ^ (point - 1 - p + 4) ELSE 10 ^ (4 - (p - point))
      value == MapThenSumSet(LAMBDA p : (body[p] - 48) * worth(p), (start .. last) \ dots)
  IN  IF signed /\ body[1] = Minus THEN -value ELSE value

\* -n orders by value, however a number is written: zeros before and after it,
\* signs, a missing integer or fraction, -0 (src/numeric.c:26-130).
NumbersByValue ==
  stage = "ordered" /\ Keys = <<>> /\ opts.mode = "n" =>
    \A a, b \in DOMAIN lines :
      CompareAscending(a, b) = Sign(NumberIn(lines[a]) - NumberIn(lines[b]))

=============================================================================
