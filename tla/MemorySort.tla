----------------------------- MODULE MemorySort -----------------------------
(***************************************************************************)
(* The sort in memory from end to end: main reads all operands into one    *)
(* block of bytes and splits it into lines (src/line.c), prepares what the *)
(* comparator looks at, sorts with the engine the planner names            *)
(* (src/plan.c, src/sort.c, src/radix.c) and writes the lines with vectors *)
(* of pieces of that block, or through a buffer under -u (src/output.c).   *)
(*                                                                         *)
(* The outside decides how many bytes each read(2), write(2) and writev(2) *)
(* moves, which calls fail, and in which order workers take the ranges of  *)
(* the radix sort.  Everything else is sequential.                         *)
(*                                                                         *)
(* Bytes are numbers; 0 is the delimiter, 1 and 2 are the letters A and a  *)
(* to -f, the digits 1 and 2 to -n.                                        *)
(***************************************************************************)
EXTENDS Integers, Sequences, FiniteSets, SortOrder

CONSTANTS
  Jobs,         \* what is sorted and how: [operands, options, may_fail]
  MaxRead,      \* the most bytes one read(2) returns
  MaxOffset,    \* the largest 32-bit offset of the radix sort
  Threshold,    \* RADIX_INSERTION_THRESHOLD, 24 in the code
  DepthLimit,   \* RADIX_DEPTH_LIMIT, 4096 in the code
  IovMax,       \* RANK_IOV_MAX, 1024 in the code
  BufferSize    \* RANK_OUTPUT_BUFFER_SIZE, 1 MiB in the code

\* Keyed is one key, the first byte of a line.
OptionsType ==
  [forced : BOOLEAN, keyed : BOOLEAN, key_reverse : BOOLEAN, fold : BOOLEAN,
   special : BOOLEAN, reverse : BOOLEAN, stable : BOOLEAN, unique : BOOLEAN]

Delim == 0
Letters == {1, 2}

ASSUME ConstantsAssumption ==
  /\ \A j \in Jobs : /\ j.operands \in Seq(Seq(Letters \cup {Delim}))
                     /\ j.options \in OptionsType /\ j.may_fail \in BOOLEAN
  /\ {MaxRead, MaxOffset, Threshold, DepthLimit, BufferSize} \subseteq Nat \ {0}
  /\ IovMax \in Nat /\ IovMax > 2

VARIABLES
  pc,            \* the place in the code, see Places
  options, operands,
  may_fail,      \* calls may fail
  operand,       \* index of the operand that is read
  taken,         \* how much of it was read
  record_start,  \* where the record begins whose end was not seen yet
  data,          \* lines->data, the bytes of all operands
  items,         \* lines->items
  monotonic,     \* lines->monotonic_valid and monotonic_direction
  ok,            \* no call has failed
  views,         \* what the comparator looks at, by the ordinal of a line
  pending,       \* ranges of items the radix sort has still to sort
  reversed,      \* lines->output_reversed
  index,         \* the next line of the output
  previous,      \* the last line that was written, none or one
  iov,           \* the pieces on their way to the output
  buf,           \* the writer's buffer
  written,       \* the bytes the output has received
  status         \* of the process

vars == <<pc, options, operands, may_fail, operand, taken, record_start, data, items, monotonic,
          ok, views, pending, reversed, index, previous, iov, buf, written, status>>

job_vars == <<options, operands, may_fail>>
read_vars == <<operand, taken, record_start, data, monotonic>>
output_vars == <<index, previous, iov, buf, written>>

Places == {"open", "read", "sort", "radix", "groups", "output", "put", "write", "close", "ended"}

-----------------------------------------------------------------------------
(***************************************************************************)
(* Comparing                                                               *)
(***************************************************************************)

Compare(x, y) == IF BytesLess(x, y) THEN -1 ELSE IF BytesLess(y, x) THEN 1 ELSE 0

BytesAt(d, line) == SubSeq(d, line.off, line.off + line.len - 1)
Text(line) == BytesAt(data, line)
TextsOf(lines) == [l \in ToSet(lines) |-> Text(l)]

\* A line or its key as it is compared: -f folds letters, numbers without
\* leading zeros compare by their length first.
View(text) ==
  LET key == IF options.keyed THEN SubSeq(text, 1, Min({1, Len(text)})) ELSE text
  IN  IF options.special THEN <<Len(key)>> \o key
      ELSE IF options.fold THEN [i \in DOMAIN key |-> Min({key[i], 1})]
      ELSE key

\* Transforms, numbers and key spans are found by the ordinal of a line; when
\* none are prepared the comparator reads the line.
ViewOf(line) ==
  IF options.fold \/ options.special \/ options.keyed THEN views[line.ordinal] ELSE Text(line)

\* rank_compare_unique
CompareViews(a, b) ==
  LET result == Compare(ViewOf(a), ViewOf(b))
  IN  IF options.keyed /\ options.key_reverse THEN -result ELSE result

\* rank_compare_lines
CompareLines(a, b) ==
  LET result == CompareViews(a, b)
      settled == result # 0 \/ options.stable \/ options.unique
      last == IF settled THEN result ELSE Compare(Text(a), Text(b))
  IN  IF options.reverse /\ (~options.keyed \/ ~settled) THEN -last ELSE last

\* Variant: the output is turned round for -r, with -s as without it.
Transformable_stable ==
  /\ ~options.special
  /\ options.keyed => ~options.reverse /\ ~options.unique /\ ~options.key_reverse

\* Folded lines or keys that the radix sort of transforms may sort: turning
\* the output round would undo what -s asks for.
Transformable ==
  /\ ~options.special
  /\ IF options.keyed
     THEN ~options.reverse /\ ~options.unique /\ ~options.key_reverse
     ELSE ~(options.reverse /\ options.stable)

\* rank_plan_from_options in a locale that compares bytes
Plan ==
  CASE options.forced                                      -> "scalar"
    [] ~options.forced /\ options.fold /\ Transformable    -> "transformed"
    [] ~options.forced /\ options.fold /\ ~Transformable   -> "scalar"
    [] ~options.forced /\ ~options.fold /\ options.special -> "scalar"
    [] OTHER -> IF options.keyed THEN "keys" ELSE "bytes"

-----------------------------------------------------------------------------
(***************************************************************************)
(* Reading                                                                 *)
(***************************************************************************)

Init ==
  /\ pc = "open"
  /\ \E j \in Jobs : options = j.options /\ operands = j.operands /\ may_fail = j.may_fail
  /\ operand = 1 /\ taken = 0 /\ record_start = 1
  /\ data = <<>> /\ items = <<>>
  /\ monotonic = [valid |-> TRUE, direction |-> 0]
  /\ ok = TRUE
  /\ views = <<>> /\ pending = {} /\ reversed = FALSE
  /\ index = 1 /\ previous = <<>> /\ iov = <<>> /\ buf = <<>> /\ written = <<>>
  /\ status = "running"

File == operands[operand]

\* Variant: only the last two lines decide.
Monotonic_forgets(m, result) ==
  [valid |-> m.valid, direction |-> IF result = 0 THEN m.direction ELSE result]

\* update_monotonic: a line that compares with the one before it by result.
Monotonic(m, result) ==
  [valid     |-> m.valid /\ (result = 0 \/ m.direction # -result),
   direction |-> IF m.valid /\ m.direction = 0 THEN result ELSE m.direction]

\* add_line for the line off .. end - 1 of d.
AddLine(d, lines, off, end) ==
  LET line == [off |-> off, len |-> end - off, ordinal |-> Len(lines.items) + 1]
  IN  [items |-> Append(lines.items, line),
       monotonic |->
         IF lines.items = <<>> THEN lines.monotonic
         ELSE Monotonic(lines.monotonic,
                        Compare(BytesAt(d, Last(lines.items)), BytesAt(d, line))),
       start |-> end + 1]

\* parse_records: every delimiter of d behind the first upto bytes ends a line.
ParseRecords(d, upto, start) ==
  LET ends == SelectSeq([i \in DOMAIN d |-> i], LAMBDA i : i > upto /\ d[i] = Delim)
  IN  FoldLeft(LAMBDA lines, end : AddLine(d, lines, lines.start, end),
               [items |-> items, monotonic |-> monotonic, start |-> start], ends)

\* The rest of d behind the last delimiter is a line, if there is any.
ParseRest(d, lines) ==
  IF lines.start <= Len(d) THEN AddLine(d, lines, lines.start, Len(d) + 1) ELSE lines

OpenOperand ==
  /\ pc = "open" /\ operand <= Len(operands)
  /\ \/ /\ pc' = "read" /\ taken' = 0 /\ record_start' = Len(data) + 1
        /\ UNCHANGED <<operand, ok>>
     \/ /\ may_fail /\ ok' = FALSE /\ operand' = operand + 1
        /\ UNCHANGED <<pc, taken, record_start>>
  /\ UNCHANGED <<job_vars, data, items, monotonic, views, pending, reversed, output_vars, status>>

\* read_single_regular_mmap: one operand that is a file may come as a whole.
MapOperand ==
  /\ pc = "open" /\ operand = 1 /\ Len(operands) = 1 /\ File # <<>>
  /\ data' = File
  /\ LET lines == ParseRest(File, ParseRecords(File, 0, 1))
     IN  items' = lines.items /\ monotonic' = lines.monotonic
  /\ operand' = 2
  /\ UNCHANGED <<pc, job_vars, taken, record_start, ok, views, pending, reversed, output_vars, status>>

ReadChunk ==
  /\ pc = "read"
  /\ \E n \in 1 .. MaxRead :
       /\ taken + n <= Len(File)
       /\ taken' = taken + n
       /\ data' = data \o SubSeq(File, taken + 1, taken + n)
  /\ LET lines == ParseRecords(data', Len(data), record_start)
     IN  items' = lines.items /\ monotonic' = lines.monotonic /\ record_start' = lines.start
  /\ UNCHANGED <<pc, job_vars, operand, ok, views, pending, reversed, output_vars, status>>

\* Variant: an operand has to end with a delimiter.
ReadEof_drops ==
  /\ pc = "read" /\ taken = Len(File)
  /\ operand' = operand + 1 /\ pc' = "open"
  /\ UNCHANGED <<job_vars, items, monotonic, taken, record_start, data, ok, views, pending,
                 reversed, output_vars, status>>

ReadEof ==
  /\ pc = "read" /\ taken = Len(File)
  /\ LET lines == ParseRest(data, [items |-> items, monotonic |-> monotonic, start |-> record_start])
     IN  items' = lines.items /\ monotonic' = lines.monotonic
  /\ operand' = operand + 1 /\ pc' = "open"
  /\ UNCHANGED <<job_vars, taken, record_start, data, ok, views, pending, reversed, output_vars,
                 status>>

\* The bytes of a record that a failing read leaves unfinished stay in data.
ReadFails ==
  /\ pc = "read" /\ may_fail
  /\ ok' = FALSE /\ operand' = operand + 1 /\ pc' = "open"
  /\ UNCHANGED <<job_vars, taken, record_start, data, items, monotonic, views, pending, reversed,
                 output_vars, status>>

\* All operands are read: rank_lines_prepare_keys, or the end if one failed.
Prepare ==
  /\ pc = "open" /\ operand > Len(operands)
  /\ IF ok THEN pc' = "sort" /\ views' = [i \in DOMAIN items |-> View(Text(items[i]))]
               /\ UNCHANGED status
           ELSE pc' = "ended" /\ status' = "failed" /\ UNCHANGED views
  /\ UNCHANGED <<job_vars, read_vars, items, ok, pending, reversed, output_vars>>

-----------------------------------------------------------------------------
(***************************************************************************)
(* Sorting: rank_sort_lines                                                *)
(***************************************************************************)

\* compare_from_depth < 0: bytes before depth are taken to be equal.
LessFrom(x, y, depth) ==
  LET differ == {p \in depth + 1 .. Min({Len(x), Len(y)}) : x[p] # y[p]}
      pos    == Max({depth, Min({Len(x), Len(y)})})
  IN  IF differ # {} THEN x[Min(differ)] < y[Min(differ)] ELSE pos = Len(x) /\ pos # Len(y)

\* Insertion by bisection, text being what is looked at of each line: a line
\* goes behind all those it is not less than.
Inserted(s, text, depth) ==
  LET insert[sorted \in Seq(ToSet(s)), left \in Nat, right \in Nat] ==
        IF Len(sorted) = Len(s) THEN sorted
        ELSE LET x   == s[Len(sorted) + 1]
                 mid == left + (right - left) \div 2
             IN  IF left >= right
                 THEN insert[InsertAt(sorted, left + 1, x), 0, Len(sorted) + 1]
                 ELSE IF LessFrom(text[x], text[sorted[mid + 1]], depth)
                 THEN insert[sorted, left, mid]
                 ELSE insert[sorted, mid + 1, right]
  IN  insert[<<>>, 0, 0]

Bucket(text, depth) == IF depth >= Len(text) THEN 0 ELSE text[depth + 1] + 1

\* The radix sort with a second array, by a text of each line: buckets keep
\* the order of their lines.
RadixSorted(lines, text) ==
  LET sort[s \in Seq(ToSet(lines)), depth \in Nat] ==
        IF Len(s) <= Threshold \/ depth >= DepthLimit
        THEN Inserted(s, text, depth)
        ELSE LET bucket(b) == SelectSeq(s, LAMBDA l : Bucket(text[l], depth) = b)
                 part(b) == IF b = 0 \/ Len(bucket(b)) < 2 THEN bucket(b)
                            ELSE sort[bucket(b), depth + 1]
             IN  part(0) \o part(1) \o part(2) \o part(3)
  IN  sort[lines, 0]

\* The merge sort.
MergeSorted(lines) ==
  LET merge[a \in Seq(ToSet(lines)), b \in Seq(ToSet(lines))] ==
        IF a = <<>> THEN b
        ELSE IF b = <<>> THEN a
        ELSE IF CompareLines(Head(a), Head(b)) <= 0
        THEN <<Head(a)>> \o merge[Tail(a), b]
        ELSE <<Head(b)>> \o merge[a, Tail(b)]
      sort[s \in Seq(ToSet(lines))] ==
        IF Len(s) < 2 THEN s
        ELSE LET mid == Len(s) \div 2
             IN  merge[sort[SubSeq(s, 1, mid)], sort[SubSeq(s, mid + 1, Len(s))]]
  IN  sort[lines]

\* radix_range in place: the line at the first free place of the first bucket
\* that is not full changes places with the one its own bucket has next.
Permuted(s, depth) ==
  LET b(line) == Bucket(Text(line), depth) + 1
      upto(k) == Cardinality({i \in DOMAIN s : b(s[i]) <= k})
      place[lines \in Seq(ToSet(s)), next \in [1 .. 4 -> Nat], ends \in [1 .. 4 -> Nat]] ==
        LET open == {k \in 1 .. 4 : next[k] <= ends[k]}
            at   == next[Min(open)]
            k    == b(lines[at])
            to   == next[k]
        IN  IF open = {} THEN lines
            ELSE place[[lines EXCEPT ![at] = lines[to], ![to] = lines[at]],
                       [next EXCEPT ![k] = to + 1], ends]
  IN  place[s, <<1, upto(1) + 1, upto(2) + 1, upto(3) + 1>>,
            <<upto(1), upto(2), upto(3), upto(4)>>]

Splice(s, lo, part) ==
  SubSeq(s, 1, lo - 1) \o part \o SubSeq(s, lo + Len(part), Len(s))

Part(t) == SubSeq(items, t.lo, t.hi)
Texts(t) == {Text(items[i]) : i \in t.lo .. t.hi}
Small(t) == t.hi - t.lo + 1 <= Threshold

\* Variant: the first and the last line speak for all.
CommonDepth_ends(t) ==
  LET first == Text(items[t.lo])
      limit == Min({Len(first), Len(Text(items[t.hi])), DepthLimit})
  IN  Max({t.depth} \cup {n \in t.depth .. limit :
                            SubSeq(Text(items[t.hi]), 1, n) = SubSeq(first, 1, n)})

\* skip_common_prefix_lcp: how deep the lines of a range are equal; the limit
\* when they are equal altogether.
CommonDepth(t) ==
  LET first == Text(items[t.lo])
      limit == Min({Len(first), DepthLimit})
      common == Max({t.depth} \cup
                    {n \in t.depth .. limit :
                       \A x \in Texts(t) : Len(x) >= n /\ SubSeq(x, 1, n) = SubSeq(first, 1, n)})
  IN  IF common > t.depth /\ common = Len(first) /\ \A x \in Texts(t) : Len(x) = Len(first)
      THEN DepthLimit ELSE common

\* Where the lines of a range part, or all end: one bucket is no reason to
\* move anything.
SplitDepth(t) ==
  LET together(d) == \E b \in 1 .. 3 : \A x \in Texts(t) : Bucket(x, d) = b
  IN  IF Small(t) THEN t.depth
      ELSE Min({d \in CommonDepth(t) .. DepthLimit : d = DepthLimit \/ ~together(d)})

\* The buckets that have more than one line, but for the one of lines that
\* have ended.
Children(t, depth) ==
  LET of(b) == {i \in t.lo .. t.hi : Bucket(Text(items[i]), depth) = b}
      below(b) == {i \in t.lo .. t.hi : Bucket(Text(items[i]), depth) < b}
      child(b) == [lo |-> t.lo + Cardinality(below(b)),
                   hi |-> t.lo + Cardinality(below(b)) + Cardinality(of(b)) - 1,
                   depth |-> depth + 1]
  IN  {child(b) : b \in {k \in 1 .. 3 : Cardinality(of(k)) > 1}}

sort_unchanged == <<job_vars, read_vars, ok, views, output_vars, status>>

\* maybe_use_monotonic_run
UseMonotonicRun ==
  /\ pc = "sort" /\ Plan = "bytes" /\ monotonic.valid
  /\ reversed' = IF \/ monotonic.direction < 0 /\ options.reverse
                    \/ monotonic.direction > 0 /\ ~options.reverse
                 THEN ~reversed ELSE reversed
  /\ pc' = "output"
  /\ UNCHANGED <<sort_unchanged, items, pending>>

StartRadix ==
  /\ pc = "sort" /\ Plan = "bytes" /\ ~monotonic.valid
  /\ Len(data) <= MaxOffset
  /\ pending' = {[lo |-> 1, hi |-> Len(items), depth |-> 0]}
  /\ pc' = "radix"
  /\ UNCHANGED <<sort_unchanged, items, reversed>>

\* Ranges share no line, so workers take them in any order; what one does to
\* its range is one step.
InsertRange(t, depth) ==
  /\ pc = "radix" /\ depth = SplitDepth(t)
  /\ Small(t) \/ depth = DepthLimit
  /\ items' = Splice(items, t.lo, Inserted(Part(t), TextsOf(Part(t)), depth))
  /\ pending' = pending \ {t}
  /\ UNCHANGED <<sort_unchanged, pc, reversed>>

PermuteRange(t, depth) ==
  /\ pc = "radix" /\ depth = SplitDepth(t)
  /\ ~Small(t) /\ depth < DepthLimit
  /\ items' = Splice(items, t.lo, Permuted(Part(t), depth))
  /\ pending' = (pending \ {t}) \cup Children(t, depth)
  /\ UNCHANGED <<sort_unchanged, pc, reversed>>

\* What was sorted is copied back, all but the ordinals of lines->items.
RadixDone ==
  /\ pc = "radix" /\ pending = {}
  /\ items' = [i \in DOMAIN items |-> [items[i] EXCEPT !.ordinal = i]]
  /\ reversed' = IF options.reverse THEN ~reversed ELSE reversed
  /\ pc' = "output"
  /\ UNCHANGED <<sort_unchanged, pending>>

\* scalar_sort_lines, also where offsets do not fit the radix sort.
SortScalar ==
  /\ pc = "sort"
  /\ \/ Plan = "scalar"
     \/ Plan = "bytes" /\ ~monotonic.valid /\ Len(data) > MaxOffset
  /\ items' = MergeSorted(items)
  /\ pc' = "output"
  /\ UNCHANGED <<sort_unchanged, pending, reversed>>

\* rank_radix_sort_transformed_lines, rank_radix_sort_transformed_key
SortTransformed ==
  /\ pc = "sort" /\ Plan = "transformed"
  /\ items' = RadixSorted(items, [l \in ToSet(items) |-> ViewOf(l)])
  /\ pc' = "groups"
  /\ UNCHANGED <<sort_unchanged, pending, reversed>>

\* Lines that look the same are sorted by their bytes, unless -s or -u forbids
\* it; under -u -r only the first stays, since the output is turned round.
Settled(group) ==
  IF ~options.stable /\ ~options.unique THEN RadixSorted(group, TextsOf(group))
  ELSE IF options.unique /\ options.reverse THEN <<Head(group)>> ELSE group

SettleGroups ==
  /\ pc = "groups"
  /\ LET settle[done \in Seq(ToSet(items)), rest \in Seq(ToSet(items))] ==
           LET same == {n \in DOMAIN rest : \A i \in 1 .. n : ViewOf(rest[i]) = ViewOf(rest[1])}
           IN  IF rest = <<>> THEN done
               ELSE settle[done \o Settled(SubSeq(rest, 1, Max(same))),
                           SubSeq(rest, Max(same) + 1, Len(rest))]
     IN  items' = settle[<<>>, items]
  /\ reversed' = IF options.reverse THEN ~reversed ELSE reversed
  /\ pc' = "output"
  /\ UNCHANGED <<sort_unchanged, pending>>

\* rank_radix_sort_key does what KeyRadix shows of it; ranges of more than 48
\* equal keys under r, where it does not (KeyRadix_reverse), are beyond the
\* inputs here.
SortKeys ==
  /\ pc = "sort" /\ Plan = "keys"
  /\ LET before(a, b) == \/ CompareLines(a, b) < 0
                         \/ CompareLines(a, b) = 0 /\ a.ordinal < b.ordinal
     IN  items' = SortSeq(items, before)
  /\ pc' = "output"
  /\ UNCHANGED <<sort_unchanged, pending, reversed>>

-----------------------------------------------------------------------------
(***************************************************************************)
(* Writing: rank_output_lines                                              *)
(***************************************************************************)

output_unchanged == <<job_vars, read_vars, items, views, pending, reversed>>

Line(i) == items[IF reversed THEN Len(items) + 1 - i ELSE i]

\* Whether a line is followed by a delimiter in data.
Delimited(line) ==
  line.off + line.len <= Len(data) /\ data[line.off + line.len] = Delim

\* append_plain_line_iov, write_line: the bytes of a line and its delimiter,
\* which need not be the one that ended the line when it was read.
Pieces(line) ==
  IF Delimited(line) THEN <<Append(Text(line), Delim)>>
  ELSE (IF line.len > 0 THEN <<Text(line)>> ELSE <<>>) \o << <<Delim>> >>

\* append_contiguous_run_iov: the last of the lines from i on that lie one
\* behind the other in data.
ContiguousEnd(i) ==
  LET follows(j) == /\ Delimited(items[j]) /\ Delimited(items[j + 1])
                    /\ items[j + 1].off = items[j].off + items[j].len + 1
  IN  Max({i} \cup {j \in i + 1 .. Len(items) : \A k \in i .. j - 1 : follows(k)})

Contiguous == ~reversed /\ monotonic.valid /\ monotonic.direction <= 0

OpenOutput ==
  /\ pc = "output"
  /\ \/ pc' = "put" /\ UNCHANGED <<ok, status>>
     \/ may_fail /\ pc' = "ended" /\ ok' = FALSE /\ status' = "failed"
  /\ UNCHANGED <<output_unchanged, output_vars>>

\* Variant: a line is taken to need one piece.
Room_for_one == Len(iov) < IovMax

\* A line needs up to two pieces.
Room == Len(iov) < IovMax - 2

\* One round of write_plain_lines.
PutPlain ==
  /\ pc = "put" /\ ~options.unique /\ index <= Len(items)
  /\ Room
  /\ LET end == ContiguousEnd(index)
     IN  IF Contiguous /\ end > index
         THEN /\ iov' = Append(iov, SubSeq(data, items[index].off, items[end].off + items[end].len))
              /\ index' = end + 1
         ELSE /\ iov' = iov \o Pieces(Line(index))
              /\ index' = index + 1
  /\ UNCHANGED <<output_unchanged, pc, ok, previous, buf, written, status>>

\* The vector has no room for two more pieces, or there are no more lines.
FlushPlain ==
  /\ pc = "put" /\ ~options.unique
  /\ index > Len(items) \/ ~Room
  /\ pc' = "write"
  /\ UNCHANGED <<output_unchanged, ok, output_vars, status>>

\* writer_write: what is written now and what the buffer keeps.
Buffered(w, bytes) ==
  LET flushed == IF w.buf = <<>> THEN w.iov ELSE Append(w.iov, w.buf)
  IN  IF Len(bytes) > BufferSize THEN [iov |-> Append(flushed, bytes), buf |-> <<>>]
      ELSE IF Len(w.buf) + Len(bytes) > BufferSize THEN [iov |-> flushed, buf |-> bytes]
      ELSE [w EXCEPT !.buf = @ \o bytes]

\* One round of the loop of rank_output_lines.
PutUnique ==
  /\ pc = "put" /\ options.unique /\ index <= Len(items)
  /\ LET line == Line(index)
     IN  IF previous # <<>> /\ CompareViews(previous[1], line) = 0
         THEN UNCHANGED <<pc, previous, iov, buf>>
         ELSE LET w == FoldLeft(Buffered, [iov |-> <<>>, buf |-> buf], Pieces(line))
              IN  /\ iov' = w.iov /\ buf' = w.buf
                  /\ previous' = <<line>>
                  /\ pc' = IF w.iov = <<>> THEN "put" ELSE "write"
  /\ index' = index + 1
  /\ UNCHANGED <<output_unchanged, ok, written, status>>

\* writer_flush
FlushUnique ==
  /\ pc = "put" /\ options.unique /\ index > Len(items)
  /\ iov' = IF buf = <<>> THEN <<>> ELSE <<buf>>
  /\ buf' = <<>>
  /\ pc' = "write"
  /\ UNCHANGED <<output_unchanged, ok, index, previous, written, status>>

\* Variant: a piece that was written to its last byte stays, empty.
Unwritten_strict(n) ==
  LET gone == Max({0} \cup {k \in 1 .. Len(iov) : Len(FlattenSeq(SubSeq(iov, 1, k))) < n})
      cut  == n - Len(FlattenSeq(SubSeq(iov, 1, gone)))
  IN  IF gone = Len(iov) THEN <<>>
      ELSE <<SubSeq(iov[gone + 1], cut + 1, Len(iov[gone + 1]))>> \o SubSeq(iov, gone + 2, Len(iov))

\* flush_iov: what is left after n bytes.
Unwritten(n) ==
  LET gone == Max({k \in 0 .. Len(iov) : Len(FlattenSeq(SubSeq(iov, 1, k))) <= n})
      cut  == n - Len(FlattenSeq(SubSeq(iov, 1, gone)))
  IN  IF gone = Len(iov) THEN <<>>
      ELSE <<SubSeq(iov[gone + 1], cut + 1, Len(iov[gone + 1]))>> \o SubSeq(iov, gone + 2, Len(iov))

\* One writev of all pieces, or one write of one piece.
Write ==
  /\ pc = "write" /\ iov # <<>>
  /\ \/ /\ \E n \in 1 .. Len(IF options.unique THEN iov[1] ELSE FlattenSeq(iov)) :
             /\ written' = written \o SubSeq(FlattenSeq(iov), 1, n)
             /\ iov' = Unwritten(n)
        /\ UNCHANGED <<pc, ok>>
     \/ may_fail /\ ok' = FALSE /\ pc' = "close" /\ UNCHANGED <<iov, written>>
  /\ UNCHANGED <<output_unchanged, index, previous, buf, status>>

WriteDone ==
  /\ pc = "write" /\ iov = <<>>
  /\ pc' = IF index <= Len(items) \/ buf # <<>> THEN "put" ELSE "close"
  /\ UNCHANGED <<output_unchanged, ok, output_vars, status>>

Close ==
  /\ pc = "close"
  /\ \/ status' = IF ok THEN "succeeded" ELSE "failed"
     \/ may_fail /\ status' = "failed"
  /\ pc' = "ended"
  /\ UNCHANGED <<output_unchanged, ok, output_vars>>

Next ==
  \/ OpenOperand \/ MapOperand \/ ReadChunk \/ ReadEof \/ ReadFails \/ Prepare
  \/ UseMonotonicRun \/ StartRadix \/ RadixDone
  \/ \E t \in pending, depth \in 0 .. DepthLimit : InsertRange(t, depth) \/ PermuteRange(t, depth)
  \/ SortScalar \/ SortTransformed \/ SettleGroups \/ SortKeys
  \/ OpenOutput \/ PutPlain \/ FlushPlain \/ PutUnique \/ FlushUnique
  \/ Write \/ WriteDone \/ Close

Spec == Init /\ [][Next]_vars

\* One process; its workers are scheduled.
FairSpec == Spec /\ WF_vars(Next)

-----------------------------------------------------------------------------
(***************************************************************************)
(* Properties                                                              *)
(***************************************************************************)

LineType == [off : Nat, len : Nat, ordinal : Nat]
Bytes == Letters \cup {Delim}

\* Every variable has the type its comment says; no vector is longer than the
\* array it is built in, and no buffer holds more than it can.
TypeOK ==
  /\ pc \in Places
  /\ options \in OptionsType /\ operands \in Seq(Seq(Bytes))
  /\ operand \in 1 .. Len(operands) + 1 /\ taken \in Nat
  /\ data \in Seq(Bytes) /\ record_start \in 1 .. Len(data) + 1
  /\ items \in Seq(LineType) /\ \A l \in ToSet(items) : l.off + l.len <= Len(data) + 1
  /\ monotonic \in [valid : BOOLEAN, direction : {-1, 0, 1}]
  /\ {may_fail, ok, reversed} \subseteq BOOLEAN
  /\ \A t \in pending : t.lo \in DOMAIN items /\ t.hi \in DOMAIN items /\ t.depth \in 0 .. DepthLimit
  /\ index \in 1 .. Len(items) + 1
  /\ iov \in Seq(Seq(Bytes)) /\ Len(iov) <= IovMax
  /\ buf \in Seq(Bytes) /\ Len(buf) <= BufferSize
  /\ written \in Seq(Bytes)
  /\ status \in {"running", "succeeded", "failed"}

\* The records of a file by definition: what stands between delimiters, and
\* what stands behind the last one if that is anything.
RecordsOf(file) ==
  LET ends == {i \in DOMAIN file : file[i] = Delim \/ i = Len(file)}
      from(i) == Max({0} \cup {j \in ends : j < i}) + 1
      upto(i) == IF file[i] = Delim THEN i - 1 ELSE i
      places == SetToSortSeq(ends, LAMBDA i, j : i < j)
  IN  [k \in DOMAIN places |-> SubSeq(file, from(places[k]), upto(places[k]))]

Records(upto) == FlattenSeq([i \in 1 .. upto |-> RecordsOf(operands[i])])

\* However the input is cut into chunks, the lines are the records of the
\* operands read so far, in their order.
LinesAreRecords ==
  pc = "open" /\ ok => [i \in DOMAIN items |-> Text(items[i])] = Records(operand - 1)

\* The run that is noticed while reading is one: the lines are in order, in
\* the opposite order, or all the same; and no run is missed.
RunIsThere ==
  LET results == {Compare(Text(items[i]), Text(items[i + 1])) : i \in 1 .. Len(items) - 1}
  IN  pc \in {"open", "read", "sort"} =>
        /\ monotonic.valid = (~ {-1, 1} \subseteq results)
        /\ monotonic.valid => results \ {0} = {monotonic.direction} \ {0}

\* What the reader hands to the sort: the lines, and what it noticed of them.
LinesAreRead == LinesAreRecords /\ RunIsThere

\* Ranges that wait share no line, and two lines that are not in one of them
\* are in order: no range has to look outside itself, whoever sorts it when.
RangesApart ==
  pc = "radix" =>
    /\ \A s, t \in pending : s # t => s.lo .. s.hi \cap t.lo .. t.hi = {}
    /\ \A i, j \in DOMAIN items :
         i < j =>
                  \/ \E t \in pending : {i, j} \subseteq t.lo .. t.hi
                  \/ Compare(Text(items[i]), Text(items[j])) <= 0

\* The order of doc/rank.1: by the key or the line, then by the bytes of the
\* lines unless -s or -u is given.
LineLess(x, y) ==
  LET byKey == Compare(View(x), View(y))
      byView == IF IF options.keyed THEN options.key_reverse ELSE options.reverse
                THEN -byKey ELSE byKey
      byLine == IF options.stable \/ options.unique THEN 0
                ELSE IF options.reverse THEN Compare(y, x) ELSE Compare(x, y)
  IN  byView < 0 \/ (byView = 0 /\ byLine < 0)

\* What is to be written, by the definition of a sort in SortOrder.
Wanted ==
  LET texts  == Records(Len(operands))
      order  == [x \in ToSet(texts) |-> Cardinality({y \in ToSet(texts) : LineLess(y, x)})]
      recs   == [i \in DOMAIN texts |-> [key |-> texts[i], pos |-> i]]
      sorted == StableSort(recs, order)
      kept   == IF options.unique THEN FirstOfEquals(sorted, order) ELSE sorted
  IN  FlattenSeq([i \in DOMAIN kept |-> Append(kept[i].key, Delim)])

\* Whatever the engine, the chunks and the partial writes, the output is at
\* every moment a beginning of the sorted lines, and all of them when the
\* process succeeds; nothing is written when an operand could not be read.
WritesTheSort ==
  /\ written # <<>> => IsPrefix(written, Wanted)
  /\ status = "succeeded" => written = Wanted

\* The sort comes to an end.
Terminates == <>(pc = "ended")

=============================================================================
