----------------------------- MODULE StreamMerge -----------------------------
(***************************************************************************)
(* merge_stream_bytes of src/merge.c: a k-way merge that keeps one record  *)
(* per input and a binary heap of input numbers.  It serves -m and every   *)
(* merge of the external sort that compares whole lines byte by byte.      *)
(* Equal records leave in the order of the inputs, which makes the merge   *)
(* of sorted files stable.                                                 *)
(*                                                                         *)
(* The loop of merge_stream_heap_sift_down is one action per round.        *)
(***************************************************************************)
EXTENDS Naturals, Sequences, FiniteSets, SortOrder

CONSTANTS
  Keys,         \* keys of records
  EmptyKey,     \* the key of the empty record
  Inputs,       \* the files to merge: sequences of sequences of keys
  Order,        \* the comparator
  Targets,      \* where the output may go: 0 is not an input file, any
                \* other number is the input of that number
  MayFail       \* system calls may fail

ASSUME ConstantsAssumption ==
  /\ EmptyKey \in Keys
  /\ Inputs \subseteq Seq(Seq(Keys))
  /\ Order \in [Keys -> Nat]
  /\ MayFail \in BOOLEAN
  /\ Targets \subseteq Nat

VARIABLES
  pc,        \* "start", "open", "heapify", "sift", "emit", "ended"
  unique,    \* -u
  given,     \* the operands as they are when rank starts
  files,     \* the operands' records now
  open_end,  \* the operands whose last record has no delimiter
  target,    \* see Targets
  opened,    \* how many inputs are open
  cursor,    \* per input, records read from it
  head,      \* per input, the record at its head; <<>> when it has none
  eof,       \* per input, its end was seen
  heap,      \* heap[0 .. heap_len - 1] as a sequence: heap[i] is heap[i + 1]
  node,      \* the node of the heap that is sifted down
  building,  \* the nodes still to be sifted while the heap is built
  written,   \* the records written
  output     \* what the merge delivered, see SortContract

vars == <<pc, unique, given, files, open_end, target, opened, cursor, head, eof, heap,
          node, building, written, output>>

input_vars == <<unique, given, files, open_end, target>>

-----------------------------------------------------------------------------

\* The records of some files, each with its place among all of them.
Numbered(fs) ==
  LET before(r) == Len(FlattenSeq(SubSeq(fs, 1, r - 1)))
  IN  [r \in DOMAIN fs |->
        [i \in DOMAIN fs[r] |-> [key |-> fs[r][i], pos |-> before(r) + i]]]

AllRecords == FlattenSeq(Numbered(given))

Contract == INSTANCE SortContract WITH
  Orders <- {Order}, unique <- unique, input <- AllRecords, result <- output

Run == DOMAIN given

\* A record without a delimiter is a record only if it has a byte.
MayEndOpen(f) == f # <<>> /\ f[Len(f)] # EmptyKey

\* Variant: ties go to the later input.
Less_backward(a, b) ==
  \/ Order[head[a][1].key] < Order[head[b][1].key]
  \/ Order[head[a][1].key] = Order[head[b][1].key] /\ a > b

\* merge_stream_run_less
Less(a, b) ==
  \/ Order[head[a][1].key] < Order[head[b][1].key]
  \/ Order[head[a][1].key] = Order[head[b][1].key] /\ a < b

\* merge_stream_read_head: the end of a file is seen when nothing is left to
\* read, or along with a last record that has no delimiter.
ReadHead(r) ==
  IF ~eof[r] /\ cursor[r] < Len(files[r])
  THEN /\ cursor' = [cursor EXCEPT ![r] = @ + 1]
       /\ head' = [head EXCEPT ![r] = <<files[r][cursor[r] + 1]>>]
       /\ eof' = [eof EXCEPT ![r] = cursor'[r] = Len(files[r]) /\ r \in open_end]
  ELSE /\ head' = [head EXCEPT ![r] = <<>>]
       /\ eof' = [eof EXCEPT ![r] = TRUE]
       /\ UNCHANGED cursor

Fails == MayFail /\ pc' = "ended" /\ output' = Contract!Failed

-----------------------------------------------------------------------------

Init ==
  /\ pc = "start"
  /\ unique \in BOOLEAN
  /\ given \in Inputs
  /\ files = Numbered(given)
  /\ open_end \in SUBSET {r \in DOMAIN given : MayEndOpen(given[r])}
  /\ target \in Targets \cap 0 .. Len(given)
  /\ opened = 0
  /\ cursor = [r \in DOMAIN given |-> 0]
  /\ head = [r \in DOMAIN given |-> <<>>]
  /\ eof = [r \in DOMAIN given |-> FALSE]
  /\ heap = <<>> /\ node = 0 /\ building = 0
  /\ written = <<>>
  /\ output = Contract!NotYet

\* The output is opened first, and opening it empties it.
OpenOutput ==
  /\ pc = "start"
  /\ \/ /\ files' = [r \in Run |-> IF r = target THEN <<>> ELSE files[r]]
        /\ pc' = "open"
        /\ UNCHANGED output
     \/ Fails /\ UNCHANGED files
  /\ UNCHANGED <<unique, given, open_end, target, opened, cursor, head, eof, heap, node,
                 building, written>>

\* merge_stream_open_runs: open the next input and read its first record.
OpenRun ==
  /\ pc = "open" /\ opened < Len(files)
  /\ \/ /\ opened' = opened + 1
        /\ ReadHead(opened')
        /\ UNCHANGED <<pc, output>>
     \/ Fails /\ opened' = 0 /\ UNCHANGED <<cursor, head, eof>>
  /\ UNCHANGED <<input_vars, heap, node, building, written>>

\* merge_stream_heap_build: an input is in the heap if it has a record or
\* may have one.  An empty record has no length, but the end of its file has
\* not been seen with it.
HasLength(r) == head[r] # <<>> /\ head[r][1].key # EmptyKey

\* Some inputs in their order.
Listed(rs) == {h \in [1 .. Cardinality(rs) -> rs] : \A i, j \in DOMAIN h : i < j => h[i] < h[j]}

\* Variant: an input whose first record is empty counts as empty.
BuildHeap_nonempty ==
  /\ pc = "open" /\ opened = Len(files)
  /\ heap' \in Listed({r \in Run : HasLength(r)})
  /\ building' = Len(heap') \div 2
  /\ pc' = IF Len(heap') > 1 THEN "heapify" ELSE "emit"
  /\ UNCHANGED <<input_vars, opened, cursor, head, eof, node, written, output>>

\* Variant: the last node with a child is not sifted.
BuildHeap_short ==
  /\ pc = "open" /\ opened = Len(files)
  /\ heap' \in Listed({r \in Run : HasLength(r) \/ ~eof[r]})
  /\ building' = (Len(heap') - 1) \div 2
  /\ pc' = IF building' > 0 THEN "heapify" ELSE "emit"
  /\ UNCHANGED <<input_vars, opened, cursor, head, eof, node, written, output>>

\* Variant: a heap of one input or none is built like any other.
BuildHeap_always ==
  /\ pc = "open" /\ opened = Len(files)
  /\ heap' \in Listed({r \in Run : HasLength(r) \/ ~eof[r]})
  /\ building' = Len(heap') \div 2
  /\ pc' = "heapify"
  /\ UNCHANGED <<input_vars, opened, cursor, head, eof, node, written, output>>

BuildHeap ==
  /\ pc = "open" /\ opened = Len(files)
  /\ heap' \in Listed({r \in Run : HasLength(r) \/ ~eof[r]})
  /\ building' = Len(heap') \div 2
  /\ pc' = IF Len(heap') > 1 THEN "heapify" ELSE "emit"
  /\ UNCHANGED <<input_vars, opened, cursor, head, eof, node, written, output>>

\* The nodes that have children are sifted, the last one first.
Heapify ==
  /\ pc = "heapify"
  /\ node' = building /\ building' = building - 1
  /\ pc' = "sift"
  /\ UNCHANGED <<input_vars, opened, cursor, head, eof, heap, written, output>>

\* One round of merge_stream_heap_sift_down: the least of a node and its
\* children moves up.
SiftDown ==
  /\ pc = "sift"
  /\ LET family == {n \in {node, 2 * node, 2 * node + 1} : n <= Len(heap)}
         best   == CHOOSE n \in family :
                     \A m \in family \ {n} : Less(heap[n], heap[m])
     IN  IF best = node
         THEN /\ pc' = IF building > 0 THEN "heapify" ELSE "emit"
              /\ UNCHANGED <<heap, node>>
         ELSE /\ heap' = [heap EXCEPT ![node] = heap[best], ![best] = heap[node]]
              /\ node' = best
              /\ UNCHANGED pc
  /\ UNCHANGED <<input_vars, opened, cursor, head, eof, building, written, output>>

\* One round of the merge loop: the record at the root is written unless -u
\* drops it, its input moves on, or leaves the heap at its end.
Repeated(rec) ==
  unique /\ written # <<>> /\ Order[written[Len(written)].key] = Order[rec.key]

Emit ==
  /\ pc = "emit" /\ heap # <<>>
  /\ LET run == heap[1]
         rec == head[run][1]
     IN  \/ /\ written' = IF Repeated(rec) THEN written ELSE Append(written, rec)
            /\ ReadHead(run)
            /\ heap' = IF head'[run] # <<>> THEN heap
                       ELSE [n \in 1 .. Len(heap) - 1 |->
                               IF n = 1 THEN heap[Len(heap)] ELSE heap[n]]
            /\ IF Len(heap') > 1
               THEN pc' = "sift" /\ node' = 1
               ELSE UNCHANGED <<pc, node>>
            /\ UNCHANGED <<opened, output>>
         \/ Fails /\ opened' = 0 /\ UNCHANGED <<cursor, head, eof, heap, node, written>>
  /\ UNCHANGED <<input_vars, building>>

\* The heap is empty: the inputs and the output are closed.
Close ==
  /\ pc = "emit" /\ heap = <<>>
  /\ opened' = 0
  /\ \/ pc' = "ended" /\ output' = Contract!Delivered(written)
     \/ Fails
  /\ UNCHANGED <<input_vars, cursor, head, eof, heap, node, building, written>>

Next == OpenOutput \/ OpenRun \/ BuildHeap \/ Heapify \/ SiftDown \/ Emit \/ Close

Spec == Init /\ [][Next]_vars

FairSpec == Spec /\ WF_vars(Next)

-----------------------------------------------------------------------------
(***************************************************************************)
(* Properties                                                              *)
(***************************************************************************)

Record == [key : Keys, pos : Nat]

\* Every variable has the type its comment says.
TypeOK ==
  /\ pc \in {"start", "open", "heapify", "sift", "emit", "ended"}
  /\ unique \in BOOLEAN
  /\ given \in Inputs
  /\ files \in Seq(Seq(Record)) /\ DOMAIN files = Run
  /\ open_end \subseteq Run
  /\ target \in Nat /\ opened \in 0 .. Len(given)
  /\ cursor \in [Run -> Nat]
  /\ head \in [Run -> Seq(Record)]
  /\ eof \in [Run -> BOOLEAN]
  /\ heap \in Seq(Run)
  /\ node \in Nat /\ building \in Nat
  /\ written \in Seq(Record)
  /\ output \in [state : {"running", "failed", "delivered"}, recs : Seq(Record)]

\* While records are written the heap holds every input that has one, once,
\* and no other: neither empty lines nor a missing last newline lose one.
HeapHoldsHeads ==
  pc \in {"heapify", "sift", "emit"} =>
    /\ IsInjective(heap)
    /\ ToSet(heap) = {r \in Run : head[r] # <<>>}

\* The record that is written next is the least of all heads, the one of the
\* earliest input among equals.
RootIsLeast ==
  pc = "emit" => \A n \in 2 .. Len(heap) : Less(heap[1], heap[n])

\* The next record to write is always at the root, and it is the right one.
HeapIsRight == HeapHoldsHeads /\ RootIsLeast

\* Sorted files merge to what a sort of their concatenation delivers, and the
\* merge comes to an end.
ImplementsSort == Contract!Total

\* doc/rank.1, -o: "Sorting a file onto itself is safe."  No record of the
\* operands is missing from the output that was written over one of them.
SafeOntoSelf ==
  output.state = "delivered" =>
    {r.key : r \in ToSet(output.recs)} = {r.key : r \in ToSet(AllRecords)}

=============================================================================
