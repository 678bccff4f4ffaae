----------------------------- MODULE KeyedMerge -----------------------------
(***************************************************************************)
(* -m in memory, the part of rank_merge_all of src/merge.c that serves     *)
(* keys and all comparisons other than by bytes.  All operands are read    *)
(* into one array of lines; every operand is a run of it.  If the options  *)
(* admit it merge_direct_output writes lines as they leave a heap of runs  *)
(* whose heads' parsed keys are cached; otherwise merge_order_lines        *)
(* permutes the array with a heap that compares lines, and                 *)
(* rank_output_lines writes the array.                                     *)
(*                                                                         *)
(* A line is what its text is: a number, also its place in byte order.     *)
(***************************************************************************)
EXTENDS Integers, Sequences, FiniteSets, SortOrder

CONSTANTS
  Texts,       \* the texts of lines
  Plain,       \* what a comparison makes of a text if it looks at the line,
               \* or at the field that is the key, as it is
  Prepared,    \* what it makes of it with another key, a second key, without
               \* leading blanks, with -f, -d or -i, or in another locale
  Jobs,        \* what rank may be called with, see IsJob
  IovMax,      \* RANK_MERGE_IOV_MAX
  MayFail      \* system calls may fail

\* mode is that of the first key, or of the lines if there is none; so are
\* blanks (-b) and modified (-f, -d or -i).  "number" stands for -n, -g, -h
\* and -M.  one_field: the key is -kF,F.
OptionsType ==
  [debug : BOOLEAN, identity : BOOLEAN, keys : 0 .. 2,
   mode : {"byte", "number", "version", "random"}, one_field : BOOLEAN,
   separated : BOOLEAN, blanks : BOOLEAN, modified : BOOLEAN,
   reverse : BOOLEAN, key_reverse : BOOLEAN, stable : BOOLEAN, unique : BOOLEAN]

\* target: where the output goes, an operand or, with 0, no operand; open_end:
\* the operands whose last line has no delimiter.
IsJob(j) ==
  /\ j.options \in OptionsType
  /\ j.given \in Seq(Seq(Texts)) \ {<<>>}
  /\ j.open_end \subseteq {r \in DOMAIN j.given : j.given[r] # <<>>}
  /\ j.target \in 0 .. Len(j.given)

\* merge_can_stream_bytes: those that StreamMerge models.
StreamsBytes(o) ==
  o.keys = 0 /\ o.mode = "byte" /\ o.identity /\ ~(o.debug \/ o.modified \/ o.blanks)

ASSUME ConstantsAssumption ==
  /\ Texts \subseteq Nat
  /\ Plain \in [Texts -> Nat] /\ Prepared \in [Texts -> Nat]
  /\ \A j \in Jobs : IsJob(j) /\ ~StreamsBytes(j.options)
  /\ IovMax \in Nat /\ IovMax > 2
  /\ MayFail \in BOOLEAN

VARIABLES
  pc,        \* "read", "direct", "prepare", "build", "heapify", "sift",
             \* "emit", "flush", "write", "ended"
  options,
  given,     \* the operands as they are when rank starts
  files,     \* the operands' lines now, each with its place among them
  open_end, target,
  operand,   \* how many operands have been read
  lines,     \* lines->items
  runs,      \* per operand: the first of its lines, the one after the last,
             \* and the one at its head
  heap,      \* heap[0 .. heap_len - 1] as a sequence
  node,      \* the node of the heap that is sifted down
  building,  \* the nodes still to be sifted while the heap is built
  caches,    \* per run, the text its cached key was parsed from; <<>>: none
  last,      \* last_cache and have_last, in the same way
  iov,       \* the pieces that wait for writev(2)
  merged,    \* the array merge_order_lines fills
  written,   \* the pieces written
  ok,        \* no operand has failed
  output     \* what the merge delivered, see SortContract

vars == <<pc, options, given, files, open_end, target, operand, lines, runs, heap, node,
          building, caches, last, iov, merged, written, ok, output>>

input_vars == <<options, given, open_end, target>>
heap_vars == <<runs, heap, node, building, caches>>
write_vars == <<last, iov, merged, written>>

-----------------------------------------------------------------------------
(***************************************************************************)
(* Comparisons                                                             *)
(***************************************************************************)

Sign(a, b) == IF a < b THEN -1 ELSE IF a > b THEN 1 ELSE 0

Directed(result, reverse) == IF reverse THEN -result ELSE result

\* merge_fast_mode # MERGE_FAST_NONE
DirectMode ==
  /\ ~options.debug /\ options.identity
  /\ \/ options.keys = 0 /\ options.mode = "number"
     \/ options.keys = 0 /\ options.mode = "version" /\ ~options.blanks
     \/ /\ options.keys = 1 /\ options.one_field
        /\ ~(options.separated /\ options.blanks)
        /\ \/ options.mode \in {"number", "version"}
           \/ options.mode = "byte" /\ ~options.modified

\* Whether the comparator of cmp.c looks at more or less than a whole line or
\* the field that is the key.  Numbers have no use for -f, -d and -i, and skip
\* blanks anyway; versions have no use for -f, -d and -i; -b with keys changes
\* nothing but where a field starts.
LooksElsewhere ==
  \/ options.keys = 2
  \/ options.keys = 1 /\ (~options.one_field \/ (options.separated /\ options.blanks))
  \/ options.keys = 0 /\ options.blanks /\ options.mode \in {"byte", "version", "random"}
  \/ options.mode = "byte" /\ (options.modified \/ ~options.identity)
  \/ options.mode = "random"

\* rank_compare_keys, or rank_compare_lines_ascending without keys.
CompareKeys(a, b) ==
  IF LooksElsewhere THEN Sign(Prepared[a], Prepared[b]) ELSE Sign(Plain[a], Plain[b])

\* Equal lines that nothing modifies are the same line.
LastResort ==
  /\ ~(options.stable \/ options.unique)
  /\ options.keys > 0 \/ options.mode # "byte" \/ options.modified \/ options.blanks

\* rank_compare_lines
CompareLines(a, b) ==
  LET byKey  == CompareKeys(a, b)
      result == IF byKey = 0 /\ LastResort THEN Sign(a, b) ELSE byKey
  IN  IF options.keys = 0 THEN Directed(result, options.reverse)
      ELSE IF byKey # 0 THEN Directed(byKey, options.key_reverse)
                        ELSE Directed(result, options.reverse)

\* How many texts are less than a text: the place of a line in the order the
\* options ask for, and all that SortContract has to know of it.
Order ==
  [t \in Texts |-> Cardinality({s \in Texts : CompareLines(s, t) < 0})]

Placed(recs) ==
  [i \in DOMAIN recs |-> [key |-> Order[recs[i].key], pos |-> recs[i].pos]]

\* The text at the head of a run.
Head_of(r) == lines[runs[r].pos].key

\* merge_head_cache_compare: cached keys were made from plain texts.
CompareCaches(a, b) == Sign(Plain[a], Plain[b])

\* Variant: the last resort of keys is reversed with the key.
DirectLess_key_last(a, b) ==
  LET byKey  == CompareCaches(caches[a][1], caches[b][1])
      byLine == IF byKey = 0 /\ LastResort THEN Sign(Head_of(a), Head_of(b)) ELSE byKey
      result == Directed(byLine, IF options.keys = 1 THEN options.key_reverse
                                 ELSE options.reverse)
  IN  result < 0 \/ (result = 0 /\ a < b)

\* merge_fast_run_less: keys have a direction of their own; what breaks a tie
\* takes the direction of the lines.
DirectLess(a, b) ==
  LET byKey  == CompareCaches(caches[a][1], caches[b][1])
      byLine == IF byKey = 0 /\ LastResort THEN Sign(Head_of(a), Head_of(b)) ELSE byKey
      result == Directed(byLine, IF options.keys = 1 /\ byKey # 0 THEN options.key_reverse
                                 ELSE options.reverse)
  IN  result < 0 \/ (result = 0 /\ a < b)

\* merge_run_less
LineLess(a, b) ==
  LET result == CompareLines(Head_of(a), Head_of(b))
  IN  result < 0 \/ (result = 0 /\ a < b)

Less(a, b) == IF DirectMode THEN DirectLess(a, b) ELSE LineLess(a, b)

-----------------------------------------------------------------------------
(***************************************************************************)
(* Reading                                                                 *)
(***************************************************************************)

Run == DOMAIN given

Numbered(fs) ==
  LET before(r) == Len(FlattenSeq(SubSeq(fs, 1, r - 1)))
  IN  [r \in DOMAIN fs |-> [i \in DOMAIN fs[r] |-> [key |-> fs[r][i], pos |-> before(r) + i]]]

AllRecords == FlattenSeq(Numbered(given))

Contract == INSTANCE SortContract WITH
  Orders <- {[n \in 0 .. Cardinality(Texts) |-> n]}, unique <- options.unique,
  input <- Placed(AllRecords), result <- [output EXCEPT !.recs = Placed(@)]

InOrder(f) == \A i, j \in DOMAIN f : i < j => CompareLines(f[i], f[j]) <= 0

Init ==
  /\ pc = "read"
  /\ \E j \in Jobs :
       /\ options = j.options /\ given = j.given
       /\ open_end = j.open_end /\ target = j.target
  /\ \A r \in DOMAIN given : InOrder(given[r])
  /\ files = Numbered(given)
  /\ operand = 0
  /\ lines = <<>>
  /\ runs = [r \in DOMAIN given |-> [begin |-> 0, end |-> 0, pos |-> 0]]
  /\ heap = <<>> /\ node = 0 /\ building = 0
  /\ caches = [r \in DOMAIN given |-> <<>>]
  /\ last = <<>> /\ iov = <<>> /\ merged = <<>> /\ written = <<>>
  /\ ok = TRUE
  /\ output = Contract!NotYet

\* read_merge_inputs, append_merge_input: an operand that cannot be opened or
\* read to its end leaves the lines read so far; the others are read still.
ReadOperand ==
  /\ pc = "read" /\ operand < Len(given)
  /\ operand' = operand + 1
  /\ \/ /\ lines' = lines \o files[operand']
        /\ runs' = [runs EXCEPT ![operand'] =
                      [begin |-> Len(lines) + 1, end |-> Len(lines') + 1,
                       pos |-> Len(lines) + 1]]
        /\ UNCHANGED ok
     \/ /\ MayFail
        /\ \E n \in 0 .. Len(files[operand']) :
             lines' = lines \o SubSeq(files[operand'], 1, n)
        /\ runs' = [runs EXCEPT ![operand'].begin = Len(lines) + 1]
        /\ ok' = FALSE
  /\ UNCHANGED <<pc, input_vars, files, heap, node, building, caches, write_vars, output>>

\* rank_merge_all, when everything has been read.
Dispatch ==
  /\ pc = "read" /\ operand = Len(given)
  /\ \/ ok /\ pc' = (IF DirectMode THEN "direct" ELSE "prepare") /\ UNCHANGED output
     \/ ~ok /\ pc' = "ended" /\ output' = Contract!Failed
  /\ UNCHANGED <<input_vars, files, operand, lines, heap_vars, write_vars, ok>>

Fails == MayFail /\ pc' = "ended" /\ output' = Contract!Failed

\* Some numbers, in order.
Listed(ns) == {l \in [1 .. Cardinality(ns) -> ns] : \A i, j \in DOMAIN l : i < j => l[i] < l[j]}

Emptied == [r \in Run |-> IF r = target THEN <<>> ELSE files[r]]

\* merge_direct_output opens the output, which empties it, and parses the
\* keys of all heads.
OpenOutput ==
  /\ pc = "direct"
  /\ \/ /\ pc' = "build"
        /\ files' = Emptied
        /\ caches' = [r \in Run |-> IF runs[r].pos < runs[r].end THEN <<Head_of(r)>> ELSE <<>>]
        /\ UNCHANGED output
     \/ Fails /\ UNCHANGED <<files, caches>>
  /\ UNCHANGED <<input_vars, operand, lines, runs, heap, node, building, write_vars, ok>>

\* rank_lines_prepare_keys; nothing is ordered if there are no lines.
PrepareKeys ==
  /\ pc = "prepare"
  /\ \/ pc' = (IF lines = <<>> THEN "write" ELSE "build") /\ UNCHANGED output
     \/ Fails
  /\ UNCHANGED <<input_vars, files, operand, lines, heap_vars, write_vars, ok>>

-----------------------------------------------------------------------------
(***************************************************************************)
(* The heap                                                                *)
(***************************************************************************)

\* Variant: a heap of one run or none is built like any other.
BuildHeap_always ==
  /\ pc = "build"
  /\ heap' \in Listed({r \in Run : runs[r].pos < runs[r].end})
  /\ building' = Len(heap') \div 2
  /\ pc' = "heapify"
  /\ UNCHANGED <<input_vars, files, operand, lines, runs, node, caches, write_vars, ok, output>>

\* Variant: the last node with a child is not sifted.
BuildHeap_short ==
  /\ pc = "build"
  /\ heap' \in Listed({r \in Run : runs[r].pos < runs[r].end})
  /\ building' = (Len(heap') - 1) \div 2
  /\ pc' = IF building' > 0 THEN "heapify" ELSE "emit"
  /\ UNCHANGED <<input_vars, files, operand, lines, runs, node, caches, write_vars, ok, output>>

\* merge_fast_heap_build and merge_heap_build: the runs that are not empty.
BuildHeap ==
  /\ pc = "build"
  /\ heap' \in Listed({r \in Run : runs[r].pos < runs[r].end})
  /\ building' = Len(heap') \div 2
  /\ pc' = IF Len(heap') > 1 THEN "heapify" ELSE "emit"
  /\ UNCHANGED <<input_vars, files, operand, lines, runs, node, caches, write_vars, ok, output>>

\* The nodes that have children are sifted, the last one first.
Heapify ==
  /\ pc = "heapify"
  /\ node' = building /\ building' = building - 1
  /\ pc' = "sift"
  /\ UNCHANGED <<input_vars, files, operand, lines, runs, heap, caches, write_vars, ok, output>>

\* One round of merge_fast_heap_sift_down or merge_heap_sift_down.
SiftDown ==
  /\ pc = "sift"
  /\ LET family == {n \in {node, 2 * node, 2 * node + 1} : n <= Len(heap)}
         best   == CHOOSE n \in family : \A m \in family \ {n} : Less(heap[n], heap[m])
     IN  IF best = node
         THEN /\ pc' = IF building > 0 THEN "heapify" ELSE "emit"
              /\ UNCHANGED <<heap, node>>
         ELSE /\ heap' = [heap EXCEPT ![node] = heap[best], ![best] = heap[node]]
              /\ node' = best
              /\ UNCHANGED pc
  /\ UNCHANGED <<input_vars, files, operand, lines, runs, building, caches, write_vars, ok, output>>

\* The root's run moves to its next line, or the run leaves the heap.
Advance(run) ==
  /\ runs' = [runs EXCEPT ![run].pos = @ + 1]
  /\ heap' = IF runs'[run].pos < runs[run].end THEN heap
             ELSE [n \in 1 .. Len(heap) - 1 |-> IF n = 1 THEN heap[Len(heap)] ELSE heap[n]]
  /\ IF Len(heap') > 1 THEN pc' = "sift" /\ node' = 1 ELSE UNCHANGED <<pc, node>>

-----------------------------------------------------------------------------
(***************************************************************************)
(* Writing                                                                 *)
(***************************************************************************)

\* A line with its delimiter is one piece.  A last line without one is two.
Pieces(rec) ==
  LET of(r) == SubSeq(lines, runs[r].begin, runs[r].end - 1)
  IN  IF \E r \in open_end : rec = of(r)[Len(of(r))]
      THEN <<[rec |-> rec, part |-> "text"], [rec |-> rec, part |-> "delim"]>>
      ELSE <<[rec |-> rec, part |-> "line"]>>

\* The lines that some pieces are, in order.
LinesOf(pieces) ==
  {[i \in DOMAIN texts |-> pieces[texts[i]].rec] :
     texts \in Listed({i \in DOMAIN pieces : pieces[i].part # "delim"})}

\* Variant: every slot of the vector is used before it is written.
Full_late == Len(iov) >= IovMax

\* merge_fast_append_line: a line may need two slots of the vector.
Full == Len(iov) >= IovMax - 2

Skipped(run) ==
  options.unique /\ last # <<>> /\ CompareCaches(last[1], caches[run][1]) = 0

\* Variant: the key of a line that -u drops stays in the cache.
EmitDirect_stale ==
  /\ pc = "emit" /\ DirectMode /\ heap # <<>>
  /\ \E run \in {heap[1]} :
       LET rec == lines[runs[run].pos]
       IN  IF ~Skipped(run) /\ Full
           THEN pc' = "flush" /\ UNCHANGED <<heap_vars, last, iov>>
           ELSE /\ iov' = IF Skipped(run) THEN iov ELSE iov \o Pieces(rec)
                /\ last' = IF options.unique /\ ~Skipped(run) THEN caches[run] ELSE last
                /\ Advance(run)
                /\ caches' = IF runs'[run].pos < runs[run].end /\ ~Skipped(run)
                             THEN [caches EXCEPT ![run] = <<lines[runs'[run].pos].key>>]
                             ELSE caches
                /\ UNCHANGED building
  /\ UNCHANGED <<input_vars, files, operand, lines, merged, written, ok, output>>

\* One round of the loop of merge_direct_output.  The vector is written
\* before a line goes into it that might not fit.
EmitDirect ==
  /\ pc = "emit" /\ DirectMode /\ heap # <<>>
  /\ \E run \in {heap[1]} :
       LET rec == lines[runs[run].pos]
       IN  IF ~Skipped(run) /\ Full
           THEN pc' = "flush" /\ UNCHANGED <<heap_vars, last, iov>>
           ELSE /\ iov' = IF Skipped(run) THEN iov ELSE iov \o Pieces(rec)
                /\ last' = IF options.unique /\ ~Skipped(run) THEN caches[run] ELSE last
                /\ Advance(run)
                /\ caches' = IF runs'[run].pos < runs[run].end
                             THEN [caches EXCEPT ![run] = <<lines[runs'[run].pos].key>>]
                             ELSE caches
                /\ UNCHANGED building
  /\ UNCHANGED <<input_vars, files, operand, lines, merged, written, ok, output>>

\* merge_fast_flush_iov: writev(2) takes some of the pieces; part of a piece
\* is as good as none of it.
Flush ==
  /\ pc = "flush"
  /\ \/ \E n \in 1 .. Len(iov) :
          /\ written' = written \o SubSeq(iov, 1, n)
          /\ iov' = SubSeq(iov, n + 1, Len(iov))
          /\ pc' = IF iov' = <<>> THEN "emit" ELSE "flush"
          /\ UNCHANGED output
     \/ Fails /\ UNCHANGED <<written, iov>>
  /\ UNCHANGED <<input_vars, files, operand, lines, heap_vars, last, merged, ok>>

\* The heap is empty: what is left in the vector is written, and the output
\* is closed.
CloseDirect ==
  /\ pc = "emit" /\ DirectMode /\ heap = <<>>
  /\ \/ iov # <<>> /\ pc' = "flush" /\ UNCHANGED output
     \/ /\ iov = <<>>
        /\ \/ /\ pc' = "ended"
              /\ \E recs \in LinesOf(written) : output' = Contract!Delivered(recs)
           \/ Fails
  /\ UNCHANGED <<input_vars, files, operand, lines, heap_vars, write_vars, ok>>

\* One round of the loop of merge_order_lines.
EmitLine ==
  /\ pc = "emit" /\ ~DirectMode /\ heap # <<>>
  /\ \E run \in {heap[1]} :
       /\ merged' = Append(merged, lines[runs[run].pos])
       /\ Advance(run)
  /\ UNCHANGED <<input_vars, files, operand, lines, building, caches, last, iov, written, ok,
                 output>>

\* The permuted lines take the place of the lines.
Replace ==
  /\ pc = "emit" /\ ~DirectMode /\ heap = <<>>
  /\ lines' = merged
  /\ pc' = "write"
  /\ UNCHANGED <<input_vars, files, operand, heap_vars, write_vars, ok, output>>

\* rank_output_lines: the output is opened now; -u compares neighbours.
WriteLines ==
  /\ pc = "write"
  /\ pc' = "ended"
  /\ \/ /\ files' = Emptied
        /\ LET first(i) == i = 1 \/ CompareKeys(lines[i - 1].key, lines[i].key) # 0
           IN  \E kept \in Listed({i \in DOMAIN lines : ~options.unique \/ first(i)}) :
                 output' = Contract!Delivered([i \in DOMAIN kept |-> lines[kept[i]]])
     \/ Fails /\ UNCHANGED files
  /\ UNCHANGED <<input_vars, operand, lines, heap_vars, write_vars, ok>>

Next ==
  \/ ReadOperand \/ Dispatch \/ OpenOutput \/ PrepareKeys
  \/ BuildHeap \/ Heapify \/ SiftDown
  \/ EmitDirect \/ Flush \/ CloseDirect
  \/ EmitLine \/ Replace \/ WriteLines

Spec == Init /\ [][Next]_vars

FairSpec == Spec /\ WF_vars(Next)

-----------------------------------------------------------------------------
(***************************************************************************)
(* Properties                                                              *)
(***************************************************************************)

Record == [key : Texts, pos : Nat]

\* Every variable has the type its comment says.
TypeOK ==
  /\ pc \in {"read", "direct", "prepare", "build", "heapify", "sift", "emit", "flush",
             "write", "ended"}
  /\ options \in OptionsType /\ given \in Seq(Seq(Texts))
  /\ files \in Seq(Seq(Record)) /\ DOMAIN files = Run
  /\ open_end \subseteq Run /\ target \in Nat
  /\ operand \in 0 .. Len(given)
  /\ lines \in Seq(Record)
  /\ runs \in [Run -> [begin : Nat, end : Nat, pos : Nat]]
  /\ heap \in Seq(Run) /\ node \in Nat /\ building \in Nat
  /\ caches \in [Run -> Seq(Texts)] /\ last \in Seq(Texts)
  /\ iov \in Seq([rec : Record, part : {"line", "text", "delim"}])
  /\ merged \in Seq(Record)
  /\ written \in Seq([rec : Record, part : {"line", "text", "delim"}])
  /\ ok \in BOOLEAN
  /\ output \in [state : {"running", "failed", "delivered"}, recs : Seq(Record)]

Merging == pc \in {"heapify", "sift", "emit", "flush"}

\* While lines leave the heap it holds every run that has one, once.
HeapHoldsRuns ==
  Merging => /\ IsInjective(heap)
             /\ ToSet(heap) = {r \in Run : runs[r].pos < runs[r].end}

\* The cached key of a run in the heap was parsed from the line that is at the
\* head of the run now, whatever lines -u has dropped in between.
CachesAreHeads ==
  Merging /\ DirectMode => \A r \in ToSet(heap) : caches[r] = <<Head_of(r)>>

\* The line that leaves next is the least of all heads, that of the earliest
\* operand among equals.
RootIsLeast ==
  pc = "emit" => \A n \in 2 .. Len(heap) : Less(heap[1], heap[n])

\* The next line to leave is always at the root, and it is found there by a
\* key that is its own.
HeapIsRight == HeapHoldsRuns /\ CachesAreHeads /\ RootIsLeast

\* The vector never has more pieces than room, and a line without a
\* delimiter is never written without getting one.
VectorFits ==
  /\ Len(iov) <= IovMax
  /\ \A i \in DOMAIN (written \o iov) :
       (written \o iov)[i].part = "text" =>
         /\ i < Len(written \o iov)
         /\ (written \o iov)[i + 1] = [rec |-> (written \o iov)[i].rec, part |-> "delim"]

\* Sorted operands merge to what a sort of them delivers, in both modes and
\* for all options, also when the output replaces one of them, and the merge
\* comes to an end.
ImplementsSort == Contract!Total

=============================================================================
