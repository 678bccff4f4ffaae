----------------------------- MODULE CheckStream -----------------------------
(***************************************************************************)
(* rank_check_stream of src/check.c: -c and -C read one input in chunks,   *)
(* put records together in a buffer, and compare every record with the     *)
(* one before it, which is kept in a second buffer.  The buffers change    *)
(* places after each comparison.  For a single key the parsed key of the   *)
(* record before is kept too; it points into the buffer of that record.    *)
(***************************************************************************)
EXTENDS Integers, Sequences, FiniteSets, SortOrder

CONSTANTS
  Records,      \* the records there are: sequences of bytes without Delim
  Files,        \* the inputs: sequences of records
  Options,      \* combinations of options, see OptionsType
  Delim,        \* newline, or the NUL of -z
  Separator,    \* -t
  Field,        \* the key is -k Field,Field
  Reads,        \* how many bytes a read(2) may return, at most one chunk
  FirstCap,     \* RANK_CHECK_READ_CHUNK, the first size of a buffer
  MayFail       \* open, read and close may fail

\* Options that compare whole lines as they are go to "bytes", one key that
\* is a field to "key", and all others to "general": the same key written in
\* another way, such as -k1.1,1, among them.
OptionsType ==
  [engine : {"bytes", "key", "general"}, unique : BOOLEAN, stable : BOOLEAN,
   reverse : BOOLEAN, key_reverse : BOOLEAN]

ASSUME ConstantsAssumption ==
  /\ Delim \in Nat /\ Records \subseteq Seq(Nat \ {Delim})
  /\ Files \subseteq Seq(Records)
  /\ Options \subseteq OptionsType
  /\ Field \in Nat \ {0} /\ FirstCap \in Nat \ {0}
  /\ Reads \subseteq Nat \ {0} /\ 1 \in Reads
  /\ MayFail \in BOOLEAN

VARIABLES
  pc,          \* "open", "read", "scan", "process", "close", "ended"
  options,     \* the options of this check
  given,       \* the records of the input
  unread,      \* the bytes of the input that are still to be read
  chunk,       \* buf[pos .. nread - 1]
  eof,         \* read(2) has returned 0
  buffers,     \* the two buffers: data, capacity, how often they have moved
  previous,    \* the buffer of the record before; the other one is current
  number,      \* current.number
  have_previous,
  prev_key,    \* compare->prev_key and prev_key_valid: where the key is
  status,      \* "success", "disorder" or "serious"
  fast         \* how the records are compared, compare->fast

vars == <<pc, options, given, unread, chunk, eof, buffers, previous, number,
          have_previous, prev_key, status, fast>>

input_vars == <<options, given, fast>>
record_vars == <<buffers, previous, number, have_previous, prev_key>>

-----------------------------------------------------------------------------
(***************************************************************************)
(* Keys and comparisons                                                    *)
(***************************************************************************)

\* The bytes of the input, with or without the delimiter after a last record
\* that is not empty.
Bytes(records, open_end) ==
  LET all == FlattenSeq([i \in DOMAIN records |-> Append(records[i], Delim)])
  IN  IF open_end THEN Front(all) ELSE all

\* rank_simple_key_span with -t: bytes from + 1 .. upto of a record, between
\* two separators or an end.
KeySpan(r) ==
  LET seps  == {i \in DOMAIN r : r[i] = Separator}
      nth   == {i \in seps : Cardinality({j \in seps : j <= i}) = Field - 1}
      start == IF Field = 1 THEN 0 ELSE Min(nth \cup {Len(r)})
  IN  [from |-> start, upto |-> Min({i \in start .. Len(r) : i = Len(r) \/ i + 1 \in seps})]

Slice(r, span) == SubSeq(r, span.from + 1, span.upto)

CompareBytes(a, b) == IF BytesLess(a, b) THEN -1 ELSE IF a = b THEN 0 ELSE 1

Directed(result, reverse) == IF reverse THEN -result ELSE result

\* Disorder by whole lines.
LinesDisordered(a, b) ==
  LET result == Directed(CompareBytes(a, b), options.reverse)
  IN  result > 0 \/ (options.unique /\ result = 0)

\* Variant: the last resort also breaks ties under -u.
KeysDisordered_last_resort(a_key, b_key, a, b) ==
  LET byKey  == Directed(CompareBytes(a_key, b_key), options.key_reverse)
      result == IF byKey = 0 /\ ~options.stable
                THEN Directed(CompareBytes(a, b), options.reverse) ELSE byKey
  IN  result > 0 \/ (options.unique /\ result = 0)

\* Disorder by the key, and by whole lines if keys are equal and neither -s
\* nor -u is given.
KeysDisordered(a_key, b_key, a, b) ==
  LET byKey  == Directed(CompareBytes(a_key, b_key), options.key_reverse)
      result == IF byKey = 0 /\ ~(options.stable \/ options.unique)
                THEN Directed(CompareBytes(a, b), options.reverse) ELSE byKey
  IN  result > 0 \/ (options.unique /\ byKey = 0)

-----------------------------------------------------------------------------
(***************************************************************************)
(* Buffers                                                                 *)
(***************************************************************************)

Current == 3 - previous

NoKey == [valid |-> FALSE, buffer |-> 0, moved |-> 0, span |-> [from |-> 0, upto |-> 0]]

\* A parsed key is a pointer into a buffer as long as that does not move.
KeyIn(b) == [valid |-> TRUE, buffer |-> b, moved |-> buffers[b].moved,
             span |-> KeySpan(buffers[b].data)]
KeyAt(k) == Slice(buffers[k.buffer].data, k.span)

\* Variant: the buffer is not enlarged.
Appended_unbounded(buf, piece) == [buf EXCEPT !.data = @ \o piece]

\* check_record_append: a buffer that is too small is doubled until it is not.
Appended(buf, piece) ==
  LET needed == Len(buf.data) + Len(piece)
      doubled[n \in 0 .. needed] ==
        IF n = 0 THEN IF buf.cap = 0 THEN FirstCap ELSE buf.cap ELSE 2 * doubled[n - 1]
      enough == {n \in 0 .. needed : doubled[n] >= needed}
  IN  IF piece = <<>> \/ needed <= buf.cap
      THEN [buf EXCEPT !.data = @ \o piece]
      ELSE [data |-> buf.data \o piece, cap |-> doubled[Min(enough)], moved |-> buf.moved + 1]

-----------------------------------------------------------------------------

Init ==
  /\ pc = "open"
  /\ options \in Options
  /\ fast = options.engine
  /\ given \in Files
  /\ \E open_end \in BOOLEAN :
       /\ open_end => given # <<>> /\ given[Len(given)] # <<>>
       /\ unread = Bytes(given, open_end)
  /\ chunk = <<>> /\ eof = FALSE
  /\ buffers = [b \in 1 .. 2 |-> [data |-> <<>>, cap |-> 0, moved |-> 0]]
  /\ previous = 1 /\ number = 0 /\ have_previous = FALSE
  /\ prev_key = NoKey
  /\ status = "success"

OpenInput ==
  /\ pc = "open"
  /\ \/ pc' = "read" /\ UNCHANGED status
     \/ MayFail /\ pc' = "ended" /\ status' = "serious"
  /\ UNCHANGED <<input_vars, unread, chunk, eof, record_vars>>

ReadChunk ==
  /\ pc = "read"
  /\ \E n \in Reads :
       /\ n <= Len(unread)
       /\ chunk' = SubSeq(unread, 1, n)
       /\ unread' = SubSeq(unread, n + 1, Len(unread))
  /\ pc' = "scan"
  /\ UNCHANGED <<input_vars, eof, record_vars, status>>

ReadFails ==
  /\ pc = "read" /\ MayFail
  /\ pc' = "close" /\ status' = "serious"
  /\ UNCHANGED <<input_vars, unread, chunk, eof, record_vars>>

\* At the end of the input, bytes without a delimiter are a last record.
ReadEof ==
  /\ pc = "read" /\ unread = <<>>
  /\ eof' = TRUE
  /\ IF buffers[Current].data # <<>>
     THEN pc' = "process" /\ number' = number + 1
     ELSE pc' = "close" /\ UNCHANGED number
  /\ UNCHANGED <<input_vars, unread, chunk, status, buffers, previous,
                 have_previous, prev_key>>

\* The bytes up to the next delimiter, or all there are, join the record.
Scan ==
  /\ pc = "scan" /\ chunk # <<>>
  /\ LET hits == {i \in DOMAIN chunk : chunk[i] = Delim}
         take == IF hits = {} THEN Len(chunk) ELSE Min(hits) - 1
     IN  /\ buffers' = [buffers EXCEPT ![Current] = Appended(@, SubSeq(chunk, 1, take))]
         /\ IF hits = {}
            THEN chunk' = <<>> /\ UNCHANGED <<pc, number>>
            ELSE /\ chunk' = SubSeq(chunk, take + 2, Len(chunk))
                 /\ number' = number + 1
                 /\ pc' = "process"
  /\ UNCHANGED <<input_vars, unread, eof, previous, have_previous, prev_key, status>>

ScanDone ==
  /\ pc = "scan" /\ chunk = <<>>
  /\ pc' = "read"
  /\ UNCHANGED <<input_vars, unread, chunk, eof, record_vars, status>>

\* check_records_disordered, with the key of the record before as it is kept.
Disordered(kept) ==
  LET a == buffers[previous].data
      b == buffers[Current].data
  IN  CASE fast = "bytes"   -> LinesDisordered(a, b)
        [] fast = "key"     -> KeysDisordered(KeyAt(kept), Slice(b, KeySpan(b)), a, b)
        [] fast = "general" -> KeysDisordered(Slice(a, KeySpan(a)), Slice(b, KeySpan(b)), a, b)

\* The kept key is filled by the first comparison.
Kept == IF prev_key.valid THEN prev_key ELSE KeyIn(previous)

\* Variant: the kept key is that of the first record for ever.
Process_first_key ==
  /\ pc = "process"
  /\ prev_key' = IF fast = "key" /\ have_previous THEN Kept ELSE prev_key
  /\ IF have_previous /\ Disordered(Kept)
     THEN /\ status' = "disorder" /\ pc' = "close"
          /\ UNCHANGED <<buffers, previous, have_previous>>
     ELSE /\ previous' = Current
          /\ buffers' = [buffers EXCEPT ![previous].data = <<>>]
          /\ have_previous' = TRUE
          /\ pc' = IF eof THEN "close" ELSE "scan"
          /\ UNCHANGED status
  /\ UNCHANGED <<input_vars, unread, chunk, eof, number>>

\* check_process_record: the record is compared with the one before and takes
\* its place, along with its key; the old buffer is empty but stays.
Process ==
  /\ pc = "process"
  /\ prev_key' = IF fast = "key" /\ have_previous THEN KeyIn(Current) ELSE prev_key
  /\ IF have_previous /\ Disordered(Kept)
     THEN /\ status' = "disorder" /\ pc' = "close"
          /\ UNCHANGED <<buffers, previous, have_previous>>
     ELSE /\ previous' = Current
          /\ buffers' = [buffers EXCEPT ![previous].data = <<>>]
          /\ have_previous' = TRUE
          /\ pc' = IF eof THEN "close" ELSE "scan"
          /\ UNCHANGED status
  /\ UNCHANGED <<input_vars, unread, chunk, eof, number>>

\* A close that fails is an error unless there was another outcome already.
Close ==
  /\ pc = "close"
  /\ pc' = "ended"
  /\ \/ UNCHANGED status
     \/ MayFail /\ status' = IF status = "success" THEN "serious" ELSE status
  /\ UNCHANGED <<input_vars, unread, chunk, eof, record_vars>>

Next ==
  \/ OpenInput \/ ReadChunk \/ ReadFails \/ ReadEof
  \/ Scan \/ ScanDone \/ Process \/ Close

Spec == Init /\ [][Next]_vars

-----------------------------------------------------------------------------
(***************************************************************************)
(* Properties                                                              *)
(***************************************************************************)

\* Every variable has the type its comment says; no buffer holds more than it
\* has room for.
TypeOK ==
  /\ pc \in {"open", "read", "scan", "process", "close", "ended"}
  /\ options \in Options /\ given \in Files /\ fast = options.engine
  /\ unread \in Seq(Nat) /\ chunk \in Seq(Nat) /\ eof \in BOOLEAN
  /\ \A b \in 1 .. 2 : Len(buffers[b].data) <= buffers[b].cap
  /\ previous \in 1 .. 2
  /\ number \in Nat /\ have_previous \in BOOLEAN
  /\ prev_key.valid \in BOOLEAN
  /\ status \in {"success", "disorder", "serious"}

\* The record before and its key stay what they are while the next record is
\* read into a buffer that may move: the kept key is in the buffer of the
\* record before, at its present address, and is the key of that record.
KeptKeyIsPrevious ==
  pc \in {"read", "scan", "process"} /\ have_previous =>
    /\ buffers[previous].data =
         given[IF pc = "process" THEN number - 1 ELSE number]
    /\ prev_key.valid => prev_key = KeyIn(previous)

\* A sort with these options puts a before b.
Less(a, b) ==
  LET key(r) == Slice(r, KeySpan(r))
  IN  IF options.engine = "bytes"
      THEN IF options.reverse THEN BytesLess(b, a) ELSE BytesLess(a, b)
      ELSE \/ IF options.key_reverse THEN BytesLess(key(b), key(a))
                                     ELSE BytesLess(key(a), key(b))
           \/ /\ key(a) = key(b) /\ ~options.stable /\ ~options.unique
              /\ IF options.reverse THEN BytesLess(b, a) ELSE BytesLess(a, b)

\* How many records of the input come before one.
Comparator ==
  [r \in ToSet(given) |-> Cardinality({m \in ToSet(given) : Less(m, r)})]

Contract == INSTANCE SortContract WITH
  Orders <- {}, unique <- options.unique, input <- given, result <- status

\* A sort leaves the first n records as they are.
InOrder(n) ==
  LET recs == [i \in 1 .. n |-> [key |-> given[i], pos |-> i]]
  IN  Contract!Sorted(recs, Comparator) = recs

\* The check accepts an input exactly if a sort with the same options would
\* not change it, and otherwise stops at the first record that a sort of the
\* records so far would move or drop: whatever engine compares, and wherever
\* the chunks end.
AgreesWithSort ==
  pc = "ended" =>
    /\ status = "success" => InOrder(Len(given))
    /\ status = "disorder" => InOrder(number - 1) /\ ~InOrder(number)

=============================================================================
