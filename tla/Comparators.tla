----------------------------- MODULE Comparators -----------------------------
(***************************************************************************)
(* What -n, -g, -h, -M, -V, -d, -i and -f make of a text, and how two      *)
(* texts compare: src/numeric.c, and the spans of src/cmp.c and src/line.c *)
(* in a locale that compares bytes.                                        *)
(*                                                                         *)
(* A text is a sequence of bytes, which are numbers (their ASCII codes).   *)
(* Positions of a text count from 1 here, from 0 in the code.              *)
(***************************************************************************)
EXTENDS Integers, Sequences, SortOrder

IsBlank(byte) == byte \in {9, 32}
IsDigit(byte) == byte \in 48 .. 57
IsUpper(byte) == byte \in 65 .. 90
IsLower(byte) == byte \in 97 .. 122
IsAlpha(byte) == IsUpper(byte) \/ IsLower(byte)
IsAlnum(byte) == IsAlpha(byte) \/ IsDigit(byte)
Plus == 43
Minus == 45
Dot == 46
Tilde == 126

Sign(x) == IF x < 0 THEN -1 ELSE IF x > 0 THEN 1 ELSE 0

Directed(result, reverse) == IF reverse THEN -result ELSE result

\* The first result that is not zero.
FirstOfResults(results) ==
  LET decided == {k \in DOMAIN results : results[k] # 0}
  IN  IF decided = {} THEN 0 ELSE results[Min(decided)]

\* compare_bytes
CompareBytes(a, b) == IF BytesLess(a, b) THEN -1 ELSE IF a = b THEN 0 ELSE 1

\* The first position from p on whose byte does not pass, Len + 1 if all do.
After(text, p, Passes(_)) ==
  Min({q \in p .. Len(text) : ~Passes(text[q])} \cup {IF p > Len(text) THEN p ELSE Len(text) + 1})

SkipLeadingBlanks(text) == SubSeq(text, After(text, 1, IsBlank), Len(text))

-----------------------------------------------------------------------------
(***************************************************************************)
(* Bytes, with -d, -i and -f: [dictionary, nonprinting, fold]              *)
(***************************************************************************)

\* filtered_keep, span_modifier_keep
Keep(byte, modifiers) ==
  /\ modifiers.dictionary => IsBlank(byte) \/ IsAlnum(byte)
  /\ modifiers.nonprinting => byte \in 32 .. 126

\* filtered_fold, span_modifier_fold
Fold(byte, modifiers) == IF modifiers.fold /\ IsLower(byte) THEN byte - 32 ELSE byte

\* append_filtered_span and, without -d, -i and -f, append_transform_span: the
\* transform that is prepared for a line or a key.
Filtered(text, modifiers) ==
  LET kept == SelectSeq(text, LAMBDA b : Keep(b, modifiers))
  IN  IF ~(modifiers.dictionary \/ modifiers.nonprinting \/ modifiers.fold) THEN text
      ELSE [p \in DOMAIN kept |-> Fold(kept[p], modifiers)]

\* compare_modified_spans, which compares texts without a transform: from
\* positions p and q on it passes over bytes that are not kept, and goes on
\* as long as the bytes it stops at are alike.
CompareModified(a, b, modifiers) ==
  LET next(text, p) == Min({r \in p .. Len(text) : Keep(text[r], modifiers)} \cup {Len(text) + 1})
      compare[p \in 1 .. Len(a) + 1, q \in 1 .. Len(b) + 1] ==
        LET r == next(a, p)
            s == next(b, q)
        IN  IF r > Len(a) \/ s > Len(b)
            THEN IF r > Len(a) /\ s > Len(b) THEN 0 ELSE IF r > Len(a) THEN -1 ELSE 1
            ELSE IF Fold(a[r], modifiers) # Fold(b[s], modifiers)
                 THEN Sign(Fold(a[r], modifiers) - Fold(b[s], modifiers))
                 ELSE compare[r + 1, s + 1]
  IN  compare[1, 1]

-----------------------------------------------------------------------------
(***************************************************************************)
(* -n                                                                      *)
(***************************************************************************)

IsZero(byte) == byte = 48

PastSign(text, p) == IF p <= Len(text) /\ text[p] \in {Plus, Minus} THEN p + 1 ELSE p

\* The digits after a dot at p, if there is one.
FractionAt(text, p) ==
  IF p <= Len(text) /\ text[p] = Dot
  THEN SubSeq(text, p + 1, After(text, p + 1, IsDigit) - 1) ELSE <<>>

\* rank_numeric_parse: blanks, a sign, zeros, then the digits of the number.
NumericParse(text) ==
  LET sign   == After(text, 1, IsBlank)
      zeros  == After(text, PastSign(text, sign), IsZero)
      point  == After(text, zeros, IsDigit)
      parsed(int, frac) ==
        [negative |-> sign <= Len(text) /\ text[sign] = Minus, int |-> int, frac |-> frac,
         nonzero |-> int # <<>> \/ \E p \in DOMAIN frac : ~IsZero(frac[p])]
  IN  parsed(SubSeq(text, zeros, point - 1), FractionAt(text, point))

\* compare_reverse_digits and the like: longer numbers are larger.
CompareDigits(a, b) ==
  IF Len(a) # Len(b) THEN Sign(Len(a) - Len(b)) ELSE CompareBytes(a, b)

\* A fraction with zeros up to so many places.
Padded(frac, places) == [p \in 1 .. places |-> IF p <= Len(frac) THEN frac[p] ELSE 48]

\* Variant: numbers with as many digits are compared, whichever is longer.
CompareMagnitude_by_text(a, b) ==
  IF a.int # b.int THEN CompareBytes(a.int, b.int) ELSE CompareBytes(a.frac, b.frac)

\* compare_magnitude: the integers, and the fractions as if the shorter one
\* went on with zeros.
CompareMagnitude(a, b) ==
  LET places == Max({Len(a.frac), Len(b.frac)})
  IN  FirstOfResults(<<CompareDigits(a.int, b.int),
                       CompareBytes(Padded(a.frac, places), Padded(b.frac, places))>>)

\* rank_numeric_compare_values
CompareNumeric(a, b) ==
  IF ~a.nonzero /\ ~b.nonzero THEN 0
  ELSE IF a.negative # b.negative THEN IF a.negative THEN -1 ELSE 1
  ELSE Directed(CompareMagnitude(a, b), a.negative)

-----------------------------------------------------------------------------
(***************************************************************************)
(* -g and -h                                                               *)
(***************************************************************************)

\* The value of digits, the least of them worth one.
ValueOf(digits) ==
  FoldLeft(LAMBDA value, digit : 10 * value + (digit - 48), 0, digits)

Places == 2    \* decimal places the values below are kept with
Scale == 10 ^ Places

\* strtold as the code uses it, for decimals: whether there is a number (2), a
\* NaN (1) or neither (0), the value, in units of 1 / Scale, and the byte after
\* the number, 0 at the end.  Exponents and hexadecimals are left out.
StrToLd(text) ==
  LET first == PastSign(text, After(text, 1, IsBlank))
      parsed(number, point, frac) ==
        LET end   == point + (IF point <= Len(text) /\ text[point] = Dot THEN 1 + Len(frac) ELSE 0)
            value == ValueOf(number.int) * Scale + ValueOf(Padded(frac, Places))
            word  == SubSeq(text, first, Min({first + 2, Len(text)}))
        IN  IF Filtered(word, [dictionary |-> FALSE, nonprinting |-> FALSE, fold |-> TRUE])
                 = <<78, 65, 78>>
            THEN [class |-> 1, value |-> 0, next |-> 0]
            ELSE IF point = first /\ frac = <<>> THEN [class |-> 0, value |-> 0, next |-> 0]
            ELSE [class |-> 2, value |-> Directed(value, number.negative),
                  next |-> IF end <= Len(text) THEN text[end] ELSE 0]
      digits(point) == parsed(NumericParse(text), point, FractionAt(text, point))
  IN  digits(After(text, first, IsDigit))

\* rank_general_numeric_parse, rank_general_numeric_compare_values: what is no
\* number comes first, then NaNs, then numbers.
CompareGeneral(a, b) ==
  IF a.class # b.class THEN Sign(a.class - b.class)
  ELSE IF a.class # 2 THEN 0 ELSE Sign(a.value - b.value)

\* human_suffix_power: K or k is one, M two, G three; T, P, E, Z, Y, R and Q
\* go on from there, beyond the numbers TLC has.
SuffixPower(byte) ==
  IF byte \in {75, 107} THEN 1 ELSE IF byte = 77 THEN 2 ELSE IF byte = 71 THEN 3 ELSE 0

\* rank_human_numeric_parse, rank_human_numeric_compare_values
HumanValue(text) ==
  LET number == StrToLd(text)
  IN  IF number.class # 2 THEN 0 ELSE number.value * 1024 ^ SuffixPower(number.next)

CompareHuman(a, b) == Sign(a - b)

-----------------------------------------------------------------------------
(***************************************************************************)
(* -M                                                                      *)
(***************************************************************************)

Months ==
  << <<106, 97, 110>>, <<102, 101, 98>>, <<109, 97, 114>>, <<97, 112, 114>>,
     <<109, 97, 121>>, <<106, 117, 110>>, <<106, 117, 108>>, <<97, 117, 103>>,
     <<115, 101, 112>>, <<111, 99, 116>>, <<110, 111, 118>>, <<100, 101, 99>> >>

\* rank_month_parse: the number of the month a text begins with, 0 for none.
MonthParse(text) ==
  LET word  == SkipLeadingBlanks(text)
      lower == [p \in 1 .. Min({3, Len(word)}) |->
                 IF IsUpper(word[p]) THEN word[p] + 32 ELSE word[p]]
  IN  Max({0} \cup {n \in DOMAIN Months : Months[n] = lower})

-----------------------------------------------------------------------------
(***************************************************************************)
(* -V                                                                      *)
(***************************************************************************)

\* version_file_prefix_len: a text without its suffixes, such as .tar.gz; the
\* longest tail of suffixes, each a dot, a letter or tilde, and more letters,
\* digits or tildes.  The first byte is never part of a suffix.
FilePrefixLen(text) ==
  LET word(b) == IsAlnum(b) \/ b = Tilde
      suffix(p) == p + 1 <= Len(text) /\ text[p] = Dot
                     /\ (IsAlpha(text[p + 1]) \/ text[p + 1] = Tilde)
      tail[p \in 1 .. Len(text) + 1] ==
        p = Len(text) + 1 \/ (suffix(p) /\ tail[After(text, p + 2, word)])
  IN  IF text = <<>> THEN 0 ELSE Min({p \in 2 .. Len(text) + 1 : tail[p]}) - 1

\* version_order: a tilde is before the end of the text, the end before a
\* digit, a digit before letters, letters before all other bytes.
VersionOrder(text, p) ==
  IF p = Len(text) + 1 THEN -1
  ELSE IF IsDigit(text[p]) THEN 0
  ELSE IF IsAlpha(text[p]) THEN text[p]
  ELSE IF text[p] = Tilde THEN -2 ELSE text[p] + 256

\* version_reverse_compare: bytes that are not digits by their order, then
\* runs of digits by their value, in turns.
CompareVersions(a, b) ==
  LET other(text, p) == p <= Len(text) /\ ~IsDigit(text[p])
      run(text, p) == SubSeq(text, After(text, p, IsZero), After(text, p, IsDigit) - 1)
      compare[p \in 1 .. Len(a) + 1, q \in 1 .. Len(b) + 1] ==
        LET goOn(result, r, s) == IF result # 0 THEN result ELSE compare[r, s]
        IN  IF other(a, p) \/ other(b, q)
            THEN goOn(Sign(VersionOrder(a, p) - VersionOrder(b, q)), p + 1, q + 1)
            ELSE IF p > Len(a) /\ q > Len(b) THEN 0
            ELSE goOn(CompareDigits(run(a, p), run(b, q)),
                      After(a, p, IsDigit), After(b, q, IsDigit))
  IN  compare[1, 1]

\* The empty text, ".", "..", texts that begin with a dot, and all others.
VersionClass(text) ==
  CASE text = <<>> -> 0
    [] text = <<Dot>> -> 1
    [] text = <<Dot, Dot>> -> 2
    [] OTHER -> IF text[1] = Dot THEN 3 ELSE 4

WithoutSuffixes(text) == SubSeq(text, 1, FilePrefixLen(text))

\* Variant: one text without suffixes is enough for one pass.
CompareVersion_either(a, b) ==
  LET inTwo(x, y) == FirstOfResults(<<CompareVersions(x, y),
                       IF x = a \/ y = b THEN 0 ELSE CompareVersions(a, b)>>)
  IN  IF VersionClass(a) # VersionClass(b) THEN Sign(VersionClass(a) - VersionClass(b))
      ELSE IF VersionClass(a) < 3 THEN 0
      ELSE inTwo(WithoutSuffixes(a), WithoutSuffixes(b))

\* rank_version_compare: by their classes, then by what is before their
\* suffixes, then as a whole.
CompareVersion(a, b) ==
  LET inTwo(x, y) == FirstOfResults(<<CompareVersions(x, y),
                       IF x = a /\ y = b THEN 0 ELSE CompareVersions(a, b)>>)
  IN  IF VersionClass(a) # VersionClass(b) THEN Sign(VersionClass(a) - VersionClass(b))
      ELSE IF VersionClass(a) < 3 THEN 0
      ELSE inTwo(WithoutSuffixes(a), WithoutSuffixes(b))

=============================================================================
