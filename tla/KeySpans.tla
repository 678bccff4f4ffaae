------------------------------ MODULE KeySpans ------------------------------
(***************************************************************************)
(* Where in a line a key is: the field arithmetic of src/line.c.           *)
(*                                                                         *)
(* A text is a sequence of bytes, which are numbers.  Offsets count from   *)
(* zero, as in the code: the byte at offset o is text[o + 1], and Len(text)*)
(* is the end of the line.  The code finds a key in three ways:            *)
(*   - UncachedSpan searches the line for the key's fields each time;      *)
(*   - CachedSpan looks them up in arrays that are filled once for a line  *)
(*     and used for all its keys, and are reused for the next line;        *)
(*   - SimpleSpan is for keys that are one field, in -c and -m.            *)
(***************************************************************************)
EXTENDS Integers, Sequences, FiniteSetsExt, SequencesExt

Tab == 9
Space == 32
Blanks == {Space, Tab}

NoSeparator == -1    \* has_field_separator is false
NoEnd == 0           \* has_end is false; a field that is given is at least 1

\* A key is [start, start_char, start_blanks, end, end_char, end_blanks]; a
\* character that is not given is negative.

-----------------------------------------------------------------------------

\* memchr and rank_scan_blank: the first of these bytes from an offset on.
FirstOf(text, from, bytes) ==
  Min({o \in from .. Len(text) - 1 : text[o + 1] \in bytes} \cup {Len(text)})

\* rank_scan_nonblank
SkipBlanks(text, from) ==
  Min({o \in from .. Len(text) - 1 : text[o + 1] \notin Blanks} \cup {Len(text)})

SkipWord(text, from) == FirstOf(text, from, Blanks)

\* One separator after the other, until the field is reached.
ExplicitFieldStart(text, sep, field) ==
  LET start[f \in 1 .. field] ==
        IF f = 1 THEN 0
        ELSE LET hit == FirstOf(text, start[f - 1], {sep})
             IN  IF hit = Len(text) THEN hit ELSE hit + 1
  IN  start[field]

ExplicitFieldEnd(text, sep, field_start) == FirstOf(text, field_start, {sep})

\* One word after the other.  Blanks at the end of the line belong to no field.
BlankFieldStart(text, field, ignore_blanks) ==
  LET end[f \in 0 .. field] ==
        IF f = 0 THEN 0 ELSE SkipWord(text, SkipBlanks(text, end[f - 1]))
      blanks == end[field - 1]
      word == SkipBlanks(text, blanks)
  IN  IF word = Len(text) \/ ignore_blanks THEN word ELSE blanks

BlankFieldEnd(text, field_start) == SkipWord(text, SkipBlanks(text, field_start))

FieldStart(text, sep, field, ignore_blanks) ==
  IF sep = NoSeparator THEN BlankFieldStart(text, field, ignore_blanks)
  ELSE LET start == ExplicitFieldStart(text, sep, field)
       IN  IF ignore_blanks THEN SkipBlanks(text, start) ELSE start

-----------------------------------------------------------------------------

\* What both kinds of search do with the fields they found.  Character 0 is
\* character 1 at a start and the end of the field at an end.
Span(text, key, start_field, end_start, end_end) ==
  LET first == IF key.start_char < 0 THEN start_field
               ELSE start_field + Max({key.start_char - 1, 0})
      limit == IF key.end = NoEnd THEN Len(text)
               ELSE IF key.end_char > 0 THEN end_start + key.end_char
               ELSE end_end
      from  == Min({first, Len(text)})
  IN  [from |-> from, upto |-> Max({from, Min({limit, Len(text)})})]

\* extract_key_span
UncachedSpan(text, sep, key) ==
  LET end_start == FieldStart(text, sep, key.end, key.end_blanks)
      end_end == IF sep = NoSeparator THEN BlankFieldEnd(text, end_start)
                 ELSE ExplicitFieldEnd(text, sep, ExplicitFieldStart(text, sep, key.end))
  IN  Span(text, key, FieldStart(text, sep, key.start, key.start_blanks),
           IF key.end = NoEnd THEN 0 ELSE end_start, IF key.end = NoEnd THEN 0 ELSE end_end)

EndOfLine(text) == [start |-> Len(text), word |-> Len(text), end |-> Len(text)]

\* The field that begins at an offset: it ends at the next separator, or where
\* blanks follow its word.
FieldFrom(text, sep, from) ==
  LET word == SkipBlanks(text, from)
  IN  [start |-> from, word |-> word,
       end |-> IF sep = NoSeparator THEN SkipWord(text, word) ELSE FirstOf(text, from, {sep})]

\* A line that ends with a separator has an empty field behind it; blanks at
\* the end are none.
IsField(text, sep, from) ==
  IF sep = NoSeparator THEN SkipBlanks(text, from) < Len(text) ELSE from <= Len(text)

\* Where the fields of a line begin, in one pass: after the separator, or with
\* the blanks after the word before.
FieldPositions(text, sep, max) ==
  LET from[f \in 1 .. max] ==
        IF f = 1 THEN 0
        ELSE FieldFrom(text, sep, from[f - 1]).end + (IF sep = NoSeparator THEN 0 ELSE 1)
  IN  from

\* The fields of a line that have a place in the cache.
LineFields(cache, text, sep) ==
  LET from == FieldPositions(text, sep, Max(DOMAIN cache))
  IN  [f \in {g \in DOMAIN from : IsField(text, sep, from[g])} |-> FieldFrom(text, sep, from[f])]

\* Variant: the arrays keep what they held for the line before where this line
\* has no such field.
FilledCache_no_reset(cache, text, sep) ==
  LET fields == LineFields(cache, text, sep)
  IN  [f \in DOMAIN cache |-> IF f \in DOMAIN fields THEN fields[f] ELSE cache[f]]

\* fill_explicit_field_cache and fill_blank_field_cache: fields the line does
\* not have are empty and at its end, whatever the arrays held before.
FilledCache(cache, text, sep) ==
  LET fields == LineFields(cache, text, sep)
  IN  [f \in DOMAIN cache |-> IF f \in DOMAIN fields THEN fields[f] ELSE EndOfLine(text)]

\* Variant: fields only keys end with are forgotten.
MaxField_starts(keys) == Max({keys[k].start : k \in DOMAIN keys})

\* max_blank_key_field
MaxField(keys) == Max({keys[k].start : k \in DOMAIN keys} \cup {keys[k].end : k \in DOMAIN keys})

\* extract_explicit_key_span_cached and extract_blank_key_span_cached
CachedSpan(text, key, cache) ==
  LET at(field, blanks) == IF blanks THEN cache[field].word ELSE cache[field].start
  IN  Span(text, key, at(key.start, key.start_blanks),
           IF key.end = NoEnd THEN 0 ELSE at(key.end, key.end_blanks),
           IF key.end = NoEnd THEN 0 ELSE cache[key.end].end)

\* rank_simple_key_span
SimpleSpan(text, sep, key) ==
  LET start == FieldStart(text, sep, key.start, key.start_blanks)
      end   == IF sep = NoSeparator THEN BlankFieldEnd(text, start)
               ELSE ExplicitFieldEnd(text, sep, start)
  IN  [from |-> start, upto |-> Max({start, end})]

Slice(text, span) == SubSeq(text, span.from + 1, span.upto)

-----------------------------------------------------------------------------
(***************************************************************************)
(* The fields as doc/rank.1:80-82 defines them, to compare with.           *)
(***************************************************************************)

\* The words of a line, each from its first byte to the byte before the next
\* blank: offsets first .. last.
WordsOf(text) ==
  {w \in (0 .. Len(text) - 1) \X (0 .. Len(text) - 1) :
    /\ w[1] <= w[2] /\ \A o \in w[1] .. w[2] : text[o + 1] \notin Blanks
    /\ w[1] = 0 \/ text[w[1]] \in Blanks
    /\ w[2] = Len(text) - 1 \/ text[w[2] + 2] \in Blanks}

\* A field is [start, word, end].  With -t "adjacent separators delimit empty
\* fields"; without it "leading blanks belong to the following field".
FieldsOf(text, sep) ==
  IF sep # NoSeparator
  THEN LET cuts == {-1, Len(text)} \cup {o \in 0 .. Len(text) - 1 : text[o + 1] = sep}
       IN  {[start |-> c + 1, word |-> SkipBlanks(text, c + 1),
             end |-> Min({d \in cuts : d > c})] : c \in cuts \ {Len(text)}}
  ELSE {[start |-> Max({0} \cup {v[2] + 1 : v \in {u \in WordsOf(text) : u[2] < w[1]}}),
         word |-> w[1], end |-> w[2] + 1] : w \in WordsOf(text)}

\* The field with that number, an empty one at the end if there is none.
FieldAt(text, sep, number) ==
  LET fields == FieldsOf(text, sep)
      it == {f \in fields : Cardinality({g \in fields : g.start < f.start}) = number - 1}
  IN  IF it = {} THEN EndOfLine(text) ELSE CHOOSE f \in it : TRUE

\* The bytes of a key F.C,G.D by the definition.
KeyByDefinition(text, sep, key) ==
  LET first == FieldAt(text, sep, key.start)
      last  == FieldAt(text, sep, key.end)
      skip(field, blanks) == IF blanks THEN field.word ELSE field.start
      from  == skip(first, key.start_blanks) + Max({key.start_char - 1, 0})
      upto  == IF key.end = NoEnd THEN Len(text)
               ELSE IF key.end_char <= 0 THEN last.end
               ELSE skip(last, key.end_blanks) + key.end_char
  IN  SubSeq(text, from + 1, Min({upto, Len(text)}))

=============================================================================
