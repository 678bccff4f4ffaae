-------------------------- MODULE StreamMergeProofs --------------------------
(***************************************************************************)
(* Proofs about StreamMerge for any number of inputs of any length: while  *)
(* records are written the heap holds the inputs that have one, the record *)
(* that is written next is the least of them, and sorted inputs merge to   *)
(* the stable sort of their concatenation.                                 *)
(***************************************************************************)
EXTENDS StreamMerge, SortOrderProofs

\* A record of an input has a key that can be compared.
IsHead(h) == h = <<>> \/ \E rec : h = <<rec>> /\ rec.key \in Keys

IsRecords(f, keys) ==
  f = <<>> \/ /\ f \in Seq(Range(f)) /\ Len(f) = Len(keys)
              /\ \A i \in 1 .. Len(keys) : f[i].key = keys[i]

\* The types of the variables the heap depends on.  An operand that is also
\* the output has been emptied.
InputsOK ==
  /\ pc \in {"start", "open", "heapify", "sift", "emit", "ended"}
  /\ given \in Seq(Seq(Keys))
  /\ DOMAIN files = Run /\ Len(files) = Len(given)
  /\ \A r \in Run : IsRecords(files[r], given[r])
  /\ \A r \in open_end : r \in Run /\ MayEndOpen(given[r])
  /\ opened \in Nat
  /\ cursor \in [Run -> Nat] /\ eof \in [Run -> BOOLEAN]
  /\ DOMAIN head = Run /\ \A r \in Run : IsHead(head[r])
  /\ heap \in Seq(Run) /\ node \in Nat /\ building \in Nat

\* The eof flag tells an input without a record from one whose record is
\* empty.
EndsSeen ==
  pc \in {"start", "open"} =>
    \A r \in 1 .. opened :
      /\ head[r] = <<>> => eof[r]
      /\ eof[r] /\ head[r] # <<>> => head[r][1].key # EmptyKey

Merging == pc \in {"heapify", "sift", "emit"}

\* Less, for the heads hd.
Precedes(hd, a, b) ==
  \/ Order[hd[a][1].key] < Order[hd[b][1].key]
  \/ Order[hd[a][1].key] = Order[hd[b][1].key] /\ a < b

\* The children of a node of the heap h.
Child(h, p, n) == n \in 1 .. Len(h) /\ (n = 2 * p \/ n = 2 * p + 1)

\* The nodes behind the first ones are in order with their children, but for
\* one; its parent is in order with its children, so that it may change
\* places with one of them.
Ordered(h, hd, upto, but) ==
  \A p, n \in 1 .. Len(h) :
    Child(h, p, n) /\ p > upto =>
      /\ p # but => Precedes(hd, h[p], h[n])
      /\ p = but => \A g \in 1 .. Len(h) :
                      Child(h, g, p) /\ g > upto => Precedes(hd, h[g], h[n])

HeapOrder ==
  /\ pc = "heapify" => building \in 1 .. Len(heap) /\ Ordered(heap, head, building, 0)
  /\ pc = "sift" => /\ node \in 1 .. Len(heap) /\ building < node
                    /\ Ordered(heap, head, building, node)
  /\ pc = "emit" => building = 0 /\ Ordered(heap, head, 0, 0)

IInv == InputsOK /\ EndsSeen /\ HeapHoldsHeads /\ HeapOrder

-----------------------------------------------------------------------------
(***************************************************************************)
(* Numbers                                                                 *)
(***************************************************************************)

LEMMA Halves ==
  ASSUME NEW n \in Nat
  PROVE  /\ n \div 2 \in Nat
         /\ n = 2 * (n \div 2) \/ n = 2 * (n \div 2) + 1
  OBVIOUS

-----------------------------------------------------------------------------
(***************************************************************************)
(* The heap                                                                *)
(***************************************************************************)

LEMMA HeapMembers ==
  ASSUME InputsOK, HeapHoldsHeads, Merging
  PROVE  /\ Len(heap) \in Nat /\ DOMAIN heap = 1 .. Len(heap)
         /\ \A n \in 1 .. Len(heap) : heap[n] \in Run /\ head[heap[n]] # <<>>
         /\ \A m, n \in 1 .. Len(heap) : heap[m] = heap[n] => m = n
         /\ \A r \in Run : head[r] # <<>> => \E n \in 1 .. Len(heap) : heap[n] = r
<1>1. Len(heap) \in Nat /\ DOMAIN heap = 1 .. Len(heap)
  BY DEF InputsOK
<1>2. \A n \in 1 .. Len(heap) : heap[n] \in ToSet(heap)
  BY <1>1 DEF ToSet
<1>3. ToSet(heap) = {r \in Run : head[r] # <<>>} /\ IsInjective(heap)
  BY DEF HeapHoldsHeads, Merging
<1>4. \A r \in ToSet(heap) : \E n \in 1 .. Len(heap) : heap[n] = r
  BY <1>1 DEF ToSet
<1>5. \A m, n \in 1 .. Len(heap) : heap[m] = heap[n] => m = n
  BY <1>1, <1>3 DEF IsInjective
<1> QED BY <1>1, <1>2, <1>3, <1>4, <1>5

\* A list without repetitions of the inputs that have a record is the heap.
LEMMA IsHeap ==
  ASSUME NEW h \in Seq(Run), NEW hd,
         \A m, n \in 1 .. Len(h) : h[m] = h[n] => m = n,
         \A n \in 1 .. Len(h) : hd[h[n]] # <<>>,
         \A r \in Run : hd[r] # <<>> => \E n \in 1 .. Len(h) : h[n] = r
  PROVE  IsInjective(h) /\ ToSet(h) = {r \in Run : hd[r] # <<>>}
<1>1. DOMAIN h = 1 .. Len(h) /\ \A n \in 1 .. Len(h) : h[n] \in Run
  OBVIOUS
<1>2. IsInjective(h)
  BY <1>1 DEF IsInjective
<1>3. ToSet(h) = {h[n] : n \in 1 .. Len(h)}
  BY <1>1 DEF ToSet
<1> QED BY <1>1, <1>2, <1>3

-----------------------------------------------------------------------------
(***************************************************************************)
(* The order of heads                                                      *)
(***************************************************************************)

\* Inputs that have a record are ordered by it.
LEMMA HeadsAreOrdered ==
  ASSUME InputsOK,
         NEW a \in Run, NEW b \in Run, NEW c \in Run,
         head[a] # <<>>, head[b] # <<>>, head[c] # <<>>
  PROVE  /\ a # b => Precedes(head, a, b) \/ Precedes(head, b, a)
         /\ Precedes(head, a, b) => ~Precedes(head, b, a)
         /\ Precedes(head, a, b) /\ Precedes(head, b, c) => Precedes(head, a, c)
<1>1. Order[head[a][1].key] \in Nat /\ Order[head[b][1].key] \in Nat /\ Order[head[c][1].key] \in Nat
  BY ConstantsAssumption, SMTT(30) DEF InputsOK, IsHead
<1>2. a \in Nat /\ b \in Nat /\ c \in Nat
  BY DEF InputsOK, Run
<1> QED BY <1>1, <1>2 DEF Precedes

\* In a heap that is in order no head is less than that at the root: a
\* smallest node that contradicts it has a parent that does not.
LEMMA RootFirst ==
  ASSUME InputsOK, HeapHoldsHeads, Merging, Ordered(heap, head, 0, 0)
  PROVE  \A n \in 2 .. Len(heap) : Precedes(head, heap[1], heap[n])
<1> DEFINE Wrong == {n \in 2 .. Len(heap) : ~Precedes(head, heap[1], heap[n])}
<1> SUFFICES ASSUME Wrong # {} PROVE FALSE
  OBVIOUS
<1>1. Wrong \subseteq Nat /\ Len(heap) \in Nat
  BY SMTT(30) DEF InputsOK
<1>2. PICK m \in Wrong : \A y \in Wrong : m <= y
  BY <1>1, LeastNumber
<1> DEFINE p == m \div 2
<1>3. m \in 2 .. Len(heap) /\ ~Precedes(head, heap[1], heap[m])
  OBVIOUS
<1>4. p \in Nat /\ (m = 2 * p \/ m = 2 * p + 1)
  BY <1>1, Halves
<1> HIDE DEF p
<1>5. p \in 1 .. Len(heap) /\ p < m /\ m \in 1 .. Len(heap)
  BY <1>1, <1>3, <1>4
<1>6. Precedes(head, heap[p], heap[m])
  BY <1>4, <1>5 DEF Ordered, Child
<1>7. p # 1
  BY <1>3, <1>6
<1>8. p \notin Wrong
  BY <1>1, <1>2, <1>5
<1>9. p \in 2 .. Len(heap)
  BY <1>5, <1>7
<1>10. Precedes(head, heap[1], heap[p])
  BY <1>8, <1>9
<1>11. /\ heap[1] \in Run /\ heap[p] \in Run /\ heap[m] \in Run
       /\ head[heap[1]] # <<>> /\ head[heap[p]] # <<>> /\ head[heap[m]] # <<>>
  BY <1>1, <1>5, HeapMembers
<1> QED BY <1>3, <1>6, <1>10, <1>11, HeadsAreOrdered

-----------------------------------------------------------------------------
(***************************************************************************)
(* The initial state                                                       *)
(***************************************************************************)

LEMMA RecordsNumbered ==
  ASSUME NEW g \in Seq(Seq(Keys))
  PROVE  /\ DOMAIN Numbered(g) = DOMAIN g /\ Len(Numbered(g)) = Len(g)
         /\ \A r \in DOMAIN g : IsRecords(Numbered(g)[r], g[r])
<1> DEFINE before(r) == Len(FlattenSeq(SubSeq(g, 1, r - 1)))
<1>1. Numbered(g) = [r \in DOMAIN g |->
        [i \in DOMAIN g[r] |-> [key |-> g[r][i], pos |-> before(r) + i]]]
  BY DEF Numbered
<1> HIDE DEF before
<1>2. DOMAIN Numbered(g) = DOMAIN g
  BY <1>1
<1>3. Len(Numbered(g)) = Len(g)
  BY <1>2, LenProperties
<1>4. ASSUME NEW r \in DOMAIN g PROVE IsRecords(Numbered(g)[r], g[r])
  <2> DEFINE f == Numbered(g)[r]
  <2>1. f = [i \in 1 .. Len(g[r]) |-> [key |-> g[r][i], pos |-> before(r) + i]]
    BY <1>1
  <2>2. g[r] \in Seq(Keys) /\ Len(g[r]) \in Nat
    OBVIOUS
  <2> HIDE DEF f
  <2>3. f \in [1 .. Len(g[r]) -> Range(f)]
    BY <2>1 DEF Range
  <2>4. f \in Seq(Range(f)) /\ Len(f) = Len(g[r])
    BY <2>2, <2>3, SeqOfFunction
  <2>5. \A i \in 1 .. Len(g[r]) : f[i].key = g[r][i]
    BY <2>1
  <2> QED BY <2>4, <2>5 DEF IsRecords, f
<1> QED BY <1>2, <1>3, <1>4

LEMMA InitIInv == Init => IInv
<1> SUFFICES ASSUME Init PROVE IInv
  OBVIOUS
<1>1. given \in Seq(Seq(Keys))
  BY ConstantsAssumption DEF Init
<1>2. DOMAIN files = Run /\ Len(files) = Len(given)
  BY <1>1, RecordsNumbered DEF Init, Run
<1>3. \A r \in Run : IsRecords(files[r], given[r])
  BY <1>1, RecordsNumbered DEF Init, Run
<1>4. \A r \in Run : IsHead(head[r])
  BY DEF Init, Run, IsHead
<1>5. heap \in Seq(Run)
  BY DEF Init
<1> QED
  BY <1>1, <1>2, <1>3, <1>4, <1>5
     DEF IInv, InputsOK, EndsSeen, HeapHoldsHeads, HeapOrder, Init, Run

-----------------------------------------------------------------------------
(***************************************************************************)
(* The steps                                                               *)
(***************************************************************************)

\* merge_stream_read_head gives an input its next record, or none at its end.
LEMMA ReadHeadReads ==
  ASSUME InputsOK, NEW r \in Run, ReadHead(r)
  PROVE  /\ cursor' \in [Run -> Nat] /\ eof' \in [Run -> BOOLEAN]
         /\ DOMAIN head' = Run /\ IsHead(head'[r])
         /\ \A q \in Run \ {r} : head'[q] = head[q] /\ eof'[q] = eof[q]
         /\ head'[r] = <<>> => eof'[r]
         /\ eof'[r] /\ head'[r] # <<>> => head'[r][1].key # EmptyKey
<1> USE DEF InputsOK
<1>0. given[r] \in Seq(Keys) /\ IsRecords(files[r], given[r])
  BY DEF Run
<1>1. CASE ~eof[r] /\ cursor[r] < Len(files[r])
  <2> DEFINE rec == files[r][cursor[r] + 1]
  <2>1. /\ cursor' = [cursor EXCEPT ![r] = @ + 1]
        /\ head' = [head EXCEPT ![r] = <<rec>>]
        /\ eof' = [eof EXCEPT ![r] = (cursor'[r] = Len(files[r]) /\ r \in open_end)]
    BY <1>1 DEF ReadHead
  <2>2. cursor[r] \in Nat /\ cursor'[r] = cursor[r] + 1
    BY <2>1
  <2>3. files[r] # <<>>
    BY <1>1, <2>2
  <2>4. /\ Len(files[r]) = Len(given[r]) /\ Len(given[r]) \in Nat
        /\ \A i \in 1 .. Len(given[r]) : files[r][i].key = given[r][i]
    BY <1>0, <2>3 DEF IsRecords
  <2>5. rec.key = given[r][cursor[r] + 1] /\ rec.key \in Keys
    <3>1. cursor[r] + 1 \in 1 .. Len(given[r])
      BY <1>1, <2>2, <2>4
    <3>2. given[r][cursor[r] + 1] \in Keys
      BY <1>0, <3>1
    <3> QED BY <2>4, <3>1, <3>2
  <2>6. IsHead(head'[r]) /\ head'[r] = <<rec>> /\ head'[r] # <<>> /\ head'[r][1] = rec
    BY <2>1, <2>5 DEF IsHead
  <2>7. ASSUME eof'[r] PROVE rec.key # EmptyKey
    <3>1. cursor[r] + 1 = Len(given[r]) /\ r \in open_end
      BY <2>1, <2>2, <2>4, <2>7
    <3> QED BY <2>5, <3>1 DEF MayEndOpen
  <2>8. eof' \in [Run -> BOOLEAN] /\ cursor' \in [Run -> Nat]
    BY <2>1, <2>2
  <2> QED BY <2>1, <2>6, <2>7, <2>8
<1>2. CASE ~(~eof[r] /\ cursor[r] < Len(files[r]))
  BY <1>2 DEF ReadHead, IsHead
<1> QED BY <1>1, <1>2

LEMMA OpenOutputStep == IInv /\ OpenOutput => IInv'
<1> SUFFICES ASSUME IInv, OpenOutput PROVE IInv'
  OBVIOUS
<1> USE DEF OpenOutput, IInv
<1>1. CASE files' = [r \in Run |-> IF r = target THEN <<>> ELSE files[r]] /\ pc' = "open"
  <2>1. DOMAIN files' = Run /\ Len(files') = Len(given)
    <3>1. DOMAIN files' = 1 .. Len(given) /\ Len(given) \in Nat
      BY <1>1 DEF Run, InputsOK
    <3> QED BY <3>1 DEF Run
  <2>2. \A r \in Run : IsRecords(files'[r], given[r])
    BY <1>1 DEF InputsOK, IsRecords
  <2> QED BY <1>1, <2>1, <2>2 DEF InputsOK, EndsSeen, HeapHoldsHeads, HeapOrder, Run
<1>2. CASE Fails /\ UNCHANGED files
  BY <1>2 DEF Fails, InputsOK, EndsSeen, HeapHoldsHeads, HeapOrder, Run
<1> QED BY <1>1, <1>2

LEMMA OpenRunStep == IInv /\ OpenRun => IInv'
<1> SUFFICES ASSUME IInv, OpenRun PROVE IInv'
  OBVIOUS
<1> USE DEF OpenRun, IInv, input_vars
<1>1. CASE opened' = opened + 1 /\ ReadHead(opened') /\ UNCHANGED <<pc, output>>
  <2>1. opened' \in Run /\ Run = 1 .. Len(given) /\ opened \in Nat
    BY <1>1 DEF InputsOK, Run
  <2>2. /\ cursor' \in [Run -> Nat] /\ eof' \in [Run -> BOOLEAN]
        /\ DOMAIN head' = Run /\ IsHead(head'[opened'])
        /\ \A q \in Run \ {opened'} : head'[q] = head[q] /\ eof'[q] = eof[q]
        /\ head'[opened'] = <<>> => eof'[opened']
        /\ eof'[opened'] /\ head'[opened'] # <<>> => head'[opened'][1].key # EmptyKey
    BY <1>1, <2>1, ReadHeadReads
  <2>3. InputsOK'
    <3>1. UNCHANGED <<pc, given, files, open_end, heap, node, building, Run>>
      BY <1>1 DEF Run
    <3>2. \A r \in Run : IsHead(head'[r])
      BY <2>2 DEF InputsOK
    <3> QED BY <2>1, <2>2, <3>1, <3>2 DEF InputsOK, Run
  <2>4. EndsSeen'
    <3> SUFFICES ASSUME pc = "open", NEW r \in 1 .. opened'
                 PROVE  /\ head'[r] = <<>> => eof'[r]
                        /\ eof'[r] /\ head'[r] # <<>> => head'[r][1].key # EmptyKey
      BY DEF EndsSeen
    <3>1. CASE r = opened'
      BY <2>2, <3>1
    <3>2. CASE r # opened'
      <4>1. r \in 1 .. opened /\ r \in Run \ {opened'}
        BY <1>1, <2>1, <3>2
      <4> QED BY <2>2, <4>1 DEF EndsSeen
    <3> QED BY <3>1, <3>2
  <2> QED BY <1>1, <2>3, <2>4 DEF HeapHoldsHeads, HeapOrder
<1>2. CASE Fails /\ opened' = 0 /\ UNCHANGED <<cursor, head, eof>>
  BY <1>2 DEF Fails, InputsOK, EndsSeen, HeapHoldsHeads, HeapOrder, Run
<1> QED BY <1>1, <1>2

\* Listed gives a set of inputs once each.
LEMMA ListedOnce ==
  ASSUME NEW n \in Nat, NEW S \in SUBSET (1 .. n), NEW h \in Listed(S)
  PROVE  /\ Len(h) \in Nat /\ h \in Seq(1 .. n)
         /\ \A i \in 1 .. Len(h) : h[i] \in S
         /\ \A i, j \in 1 .. Len(h) : h[i] = h[j] => i = j
         /\ \A x \in S : \E i \in 1 .. Len(h) : h[i] = x
<1> DEFINE k == Cardinality(S)
<1>1. IsFiniteSet(S) /\ k \in Nat
  <2>1. IsFiniteSet(1 .. n)
    BY FS_Interval
  <2>2. IsFiniteSet(S)
    BY <2>1, FS_Subset
  <2> QED BY <2>2, FS_CardinalityType
<1> HIDE DEF k
<1>2. h \in [1 .. k -> S] /\ \A i, j \in DOMAIN h : i < j => h[i] < h[j]
  BY DEF Listed, k
<1>3. h \in Seq(1 .. n) /\ Len(h) = k
  <2>1. h \in [1 .. k -> 1 .. n]
    BY <1>2
  <2> QED BY <1>1, <2>1, SeqOfFunction
<1>4. \A i \in 1 .. k : h[i] \in S /\ h[i] \in Nat
  <2>1. \A x \in S : x \in Nat
    OBVIOUS
  <2> QED BY <1>2, <2>1
<1>5. ASSUME NEW i \in 1 .. k, NEW j \in 1 .. k, h[i] = h[j] PROVE i = j
  <2>1. ~ i < j /\ ~ j < i
    BY <1>2, <1>4, <1>5
  <2> QED BY <1>1, <2>1
<1>6. h \in Injection(1 .. k, S)
  <2>1. DOMAIN h = 1 .. k
    BY <1>2
  <2>2. IsInjective(h)
    BY <1>5, <2>1 DEF IsInjective
  <2> QED BY <1>2, <2>2 DEF Injection
<1>7. Cardinality(1 .. k) = Cardinality(S)
  <2>1. Cardinality(1 .. k) = IF 1 > k THEN 0 ELSE k - 1 + 1
    BY <1>1, FS_Interval
  <2>2. Cardinality(1 .. k) = k
    BY <1>1, <2>1
  <2> QED BY <2>2 DEF k
<1>8. h \in Surjection(1 .. k, S)
  BY <1>1, <1>6, <1>7, FS_Injection
<1>9. \A x \in S : \E i \in 1 .. k : h[i] = x
  BY <1>8 DEF Surjection
<1> QED BY <1>1, <1>3, <1>4, <1>5, <1>9

\* Half of the nodes have children.
LEMMA Leaves ==
  ASSUME NEW h, NEW hd, Len(h) \in Nat
  PROVE  /\ Len(h) \div 2 \in Nat
         /\ Ordered(h, hd, Len(h) \div 2, 0)
         /\ Len(h) > 1 => Len(h) \div 2 \in 1 .. Len(h)
         /\ ~(Len(h) > 1) => Len(h) \div 2 = 0
<1> DEFINE n == Len(h)
           b == n \div 2
<1>1. b \in Nat /\ (n = 2 * b \/ n = 2 * b + 1)
  BY Halves
<1> HIDE DEF b
<1>2. \A p, c \in 1 .. n : c = 2 * p \/ c = 2 * p + 1 => p <= b
  BY <1>1
<1>3. Ordered(h, hd, b, 0)
  BY <1>1, <1>2 DEF Ordered, Child
<1>4. /\ n > 1 => b \in 1 .. n
      /\ ~(n > 1) => b = 0
  BY <1>1
<1> QED BY <1>1, <1>3, <1>4 DEF b

LEMMA BuildHeapStep == IInv /\ BuildHeap => IInv'
<1> SUFFICES ASSUME IInv, BuildHeap PROVE IInv'
  OBVIOUS
<1> DEFINE S == {r \in Run : HasLength(r) \/ ~eof[r]}
<1>1. PICK h \in Listed(S) :
        /\ pc = "open" /\ opened = Len(files) /\ heap' = h
        /\ building' = Len(h) \div 2
        /\ pc' = IF Len(h) > 1 THEN "heapify" ELSE "emit"
        /\ UNCHANGED <<given, files, open_end, opened, cursor, head, eof, node, Run>>
  BY DEF BuildHeap, input_vars, Run
<1>2. Run = 1 .. Len(given) /\ Len(given) \in Nat /\ opened = Len(given)
  BY <1>1 DEF IInv, InputsOK, Run
<1>3. S = {r \in Run : head[r] # <<>>}
  BY <1>1, <1>2 DEF IInv, EndsSeen, InputsOK, HasLength
<1>4. S \in SUBSET (1 .. Len(given))
  BY <1>2
<1> HIDE DEF S
<1>5. /\ Len(h) \in Nat /\ h \in Seq(Run)
      /\ \A i \in 1 .. Len(h) : h[i] \in S
      /\ \A i, j \in 1 .. Len(h) : h[i] = h[j] => i = j
      /\ \A x \in S : \E i \in 1 .. Len(h) : h[i] = x
  BY <1>2, <1>4, ListedOnce
<1>6. \A i \in 1 .. Len(h) : head[h[i]] # <<>>
  BY <1>3, <1>5
<1>7. \A r \in Run : head[r] # <<>> => \E i \in 1 .. Len(h) : h[i] = r
  BY <1>3, <1>5
<1>8. IsInjective(h) /\ ToSet(h) = {r \in Run : head[r] # <<>>}
  BY <1>5, <1>6, <1>7, IsHeap
<1>9. HeapHoldsHeads'
  BY <1>1, <1>8 DEF HeapHoldsHeads
<1>10. /\ building' \in Nat /\ Ordered(h, head, building', 0)
       /\ Len(h) > 1 => building' \in 1 .. Len(h)
       /\ ~(Len(h) > 1) => building' = 0
  BY <1>1, <1>5, Leaves
<1>11. InputsOK'
  BY <1>1, <1>5, <1>10 DEF IInv, InputsOK
<1>12. HeapOrder'
  BY <1>1, <1>10 DEF HeapOrder
<1> QED BY <1>1, <1>9, <1>11, <1>12 DEF IInv, EndsSeen

LEMMA HeapifyStep == IInv /\ Heapify => IInv'
<1> SUFFICES ASSUME IInv, Heapify PROVE IInv'
  OBVIOUS
<1>1. /\ pc = "heapify" /\ pc' = "sift" /\ node' = building /\ building' = building - 1
      /\ UNCHANGED <<given, files, open_end, opened, cursor, head, eof, heap, Run>>
  BY DEF Heapify, input_vars, Run
<1>2. building \in 1 .. Len(heap) /\ Ordered(heap, head, building, 0) /\ Len(heap) \in Nat
  BY <1>1 DEF IInv, HeapOrder, InputsOK
<1>3. InputsOK'
  BY <1>1, <1>2 DEF IInv, InputsOK
<1>4. HeapHoldsHeads'
  BY <1>1 DEF IInv, HeapHoldsHeads
<1>5. Ordered(heap', head', building', node')
  <2>1. Ordered(heap, head, building - 1, building)
    BY <1>2 DEF Ordered, Child
  <2> QED BY <1>1, <2>1
<1>6. HeapOrder'
  BY <1>1, <1>2, <1>5 DEF HeapOrder
<1> QED BY <1>1, <1>3, <1>4, <1>6 DEF IInv, EndsSeen

\* A node and its children have a least one.
LEMMA LeastOfFamily ==
  ASSUME IInv, pc = "sift"
  PROVE  LET family == {n \in {node, 2 * node, 2 * node + 1} : n <= Len(heap)}
             best   == CHOOSE n \in family :
                         \A m \in family \ {n} : Less(heap[n], heap[m])
         IN  /\ best \in family /\ family \subseteq 1 .. Len(heap)
             /\ \A m \in family \ {best} : Precedes(head, heap[best], heap[m])
<1> DEFINE family == {n \in {node, 2 * node, 2 * node + 1} : n <= Len(heap)}
           least(n) == n \in family
                        /\ \A m \in family \ {n} : Precedes(head, heap[n], heap[m])
<1>1. node \in 1 .. Len(heap) /\ Len(heap) \in Nat
  BY DEF IInv, InputsOK, HeapOrder
<1>2. family \subseteq 1 .. Len(heap) /\ node \in family
  BY <1>1
<1>3. ASSUME NEW a \in family, NEW b \in family, NEW c \in family
      PROVE  /\ a # b => \/ Precedes(head, heap[a], heap[b])
                         \/ Precedes(head, heap[b], heap[a])
             /\ Precedes(head, heap[a], heap[b]) /\ Precedes(head, heap[b], heap[c])
                  => Precedes(head, heap[a], heap[c])
  <2>1. /\ heap[a] \in Run /\ heap[b] \in Run /\ heap[c] \in Run
        /\ head[heap[a]] # <<>> /\ head[heap[b]] # <<>> /\ head[heap[c]] # <<>>
        /\ a # b => heap[a] # heap[b]
    BY <1>2, HeapMembers DEF IInv, Merging
  <2> QED BY <2>1, HeadsAreOrdered DEF IInv
<1>4. \E n : least(n)
  <2> DEFINE l == 2 * node
             r == 2 * node + 1
  <2>1. \A m \in family : m = node \/ m = l \/ m = r
    OBVIOUS
  <2>2. CASE l \notin family
    <3>1. r \notin family
      BY <1>1, <2>2
    <3> QED BY <1>2, <2>1, <2>2, <3>1
  <2>3. CASE l \in family /\ r \notin family
    <3>1. node # l
      BY <1>1
    <3>2. least(node) \/ least(l)
      <4> HIDE DEF family, l, r
      <4> QED BY <1>2, <1>3, <2>1, <2>3, <3>1
    <3> QED BY <3>2
  <2>4. CASE l \in family /\ r \in family
    <3>1. node # l /\ node # r /\ l # r
      BY <1>1
    <3>2. least(node) \/ least(l) \/ least(r)
      <4> HIDE DEF family, l, r
      <4> QED BY <1>2, <1>3, <2>1, <2>4, <3>1
    <3> QED BY <3>2
  <2> QED BY <2>2, <2>3, <2>4
<1>5. \A n, m : Less(heap[n], heap[m]) <=> Precedes(head, heap[n], heap[m])
  BY DEF Less, Precedes
<1>6. \E n \in family : \A m \in family \ {n} : Less(heap[n], heap[m])
  BY <1>4, <1>5
<1> DEFINE best == CHOOSE n \in family : \A m \in family \ {n} : Less(heap[n], heap[m])
<1>7. best \in family /\ \A m \in family \ {best} : Less(heap[best], heap[m])
  BY <1>6
<1> QED BY <1>2, <1>5, <1>7

\* When the least one moves up only its own place may be out of order.
LEMMA MoveUp ==
  ASSUME NEW h, NEW hd, NEW g, NEW upto \in Nat, NEW but, NEW best,
         Len(h) \in Nat, but \in 1 .. Len(h), upto < but, Ordered(h, hd, upto, but),
         Child(h, but, best), Precedes(hd, h[best], h[but]),
         \A m \in 1 .. Len(h) :
           Child(h, but, m) /\ m # best => Precedes(hd, h[best], h[m]),
         Len(g) = Len(h), g[but] = h[best], g[best] = h[but],
         \A m \in 1 .. Len(h) : m # but /\ m # best => g[m] = h[m]
  PROVE  Ordered(g, hd, upto, best)
<1>1. best \in 1 .. Len(h) /\ best > but
  BY DEF Child
<1>2. ASSUME NEW p \in 1 .. Len(g), NEW n \in 1 .. Len(g),
             Child(g, p, n), p > upto, p # best
      PROVE  Precedes(hd, g[p], g[n])
  <2>1. Child(h, p, n) /\ p \in 1 .. Len(h) /\ n \in 1 .. Len(h)
    BY <1>2 DEF Child
  <2>2. CASE p = but /\ n = best
    BY <2>2
  <2>3. CASE p = but /\ n # best
    <3>1. n # but
      BY <2>1, <2>3 DEF Child
    <3> QED BY <2>1, <2>3, <3>1
  <2>4. CASE p # but /\ n = but
    <3>1. Precedes(hd, h[p], h[best])
      BY <1>1, <1>2, <2>1, <2>4 DEF Ordered
    <3> QED BY <1>2, <2>1, <2>4, <3>1
  <2>5. CASE p # but /\ n # but
    <3>1. n # best
      BY <2>1, <2>5 DEF Child
    <3>2. Precedes(hd, h[p], h[n])
      BY <1>2, <2>1, <2>5 DEF Ordered
    <3> QED BY <1>2, <2>1, <2>5, <3>1, <3>2
  <2> QED BY <2>2, <2>3, <2>4, <2>5
<1>3. ASSUME NEW n \in 1 .. Len(g), NEW a \in 1 .. Len(g),
             Child(g, best, n), best > upto, Child(g, a, best), a > upto
      PROVE  Precedes(hd, g[a], g[n])
  <2>1. Child(h, best, n) /\ n \in 1 .. Len(h) /\ a = but
    BY <1>1, <1>3 DEF Child
  <2>2. n # but /\ n # best /\ best # but
    BY <1>1, <2>1 DEF Child
  <2>3. Precedes(hd, h[best], h[n])
    BY <1>1, <1>3, <2>1, <2>2 DEF Ordered
  <2> QED BY <2>1, <2>2, <2>3
<1> QED BY <1>2, <1>3 DEF Ordered

LEMMA SiftDownStep == IInv /\ SiftDown => IInv'
<1> SUFFICES ASSUME IInv, SiftDown PROVE IInv'
  OBVIOUS
<1> DEFINE family == {n \in {node, 2 * node, 2 * node + 1} : n <= Len(heap)}
           best   == CHOOSE n \in family :
                       \A m \in family \ {n} : Less(heap[n], heap[m])
<1>1. /\ pc = "sift"
      /\ UNCHANGED <<given, files, open_end, opened, cursor, head, eof, building, Run>>
      /\ IF best = node
         THEN /\ pc' = IF building > 0 THEN "heapify" ELSE "emit"
              /\ UNCHANGED <<heap, node>>
         ELSE /\ heap' = [heap EXCEPT ![node] = heap[best], ![best] = heap[node]]
              /\ node' = best
              /\ UNCHANGED pc
  BY DEF SiftDown, input_vars, Run
<1>2. /\ best \in family /\ family \subseteq 1 .. Len(heap)
      /\ \A m \in family \ {best} : Precedes(head, heap[best], heap[m])
  BY <1>1, LeastOfFamily
<1>3. \A m \in 1 .. Len(heap) : Child(heap, node, m) => m \in family
  BY DEF Child
<1>4. best # node => Child(heap, node, best)
  BY <1>2 DEF Child
<1>5. node \in family
  BY <1>1 DEF IInv, InputsOK, HeapOrder
<1> HIDE DEF family, best
<1>6. /\ node \in 1 .. Len(heap) /\ building < node /\ Len(heap) \in Nat /\ building \in Nat
      /\ Ordered(heap, head, building, node)
  BY <1>1 DEF IInv, InputsOK, HeapOrder
<1>7. CASE best = node
  <2>1. Ordered(heap, head, building, 0)
    BY <1>2, <1>3, <1>6, <1>7 DEF Ordered, Child
  <2>2. /\ pc' = IF building > 0 THEN "heapify" ELSE "emit"
        /\ UNCHANGED <<heap, node>>
    BY <1>1, <1>7
  <2>3. InputsOK'
    BY <1>1, <2>2 DEF IInv, InputsOK
  <2>4. HeapHoldsHeads'
    BY <1>1, <2>2 DEF IInv, HeapHoldsHeads
  <2>5. HeapOrder'
    BY <1>1, <1>6, <2>1, <2>2 DEF HeapOrder
  <2> QED BY <1>1, <2>2, <2>3, <2>4, <2>5 DEF IInv, EndsSeen
<1>8. CASE best # node
  <2>1. /\ heap' = [heap EXCEPT ![node] = heap[best], ![best] = heap[node]]
        /\ node' = best /\ pc' = "sift"
    BY <1>1, <1>8
  <2>2. best \in 1 .. Len(heap) /\ best > node
    BY <1>4, <1>6, <1>8 DEF Child
  <2>3. heap \in Seq(Run) /\ heap \in [1 .. Len(heap) -> Run]
    BY DEF IInv, InputsOK
  <2>4. heap' \in [1 .. Len(heap) -> Run]
    BY <1>6, <2>1, <2>2, <2>3
  <2>5. /\ heap' \in Seq(Run) /\ Len(heap') = Len(heap)
        /\ heap'[node] = heap[best] /\ heap'[best] = heap[node]
        /\ \A m \in 1 .. Len(heap) : m # node /\ m # best => heap'[m] = heap[m]
    <3>1. heap' \in Seq(Run) /\ Len(heap') = Len(heap)
      BY <1>6, <2>4, SeqOfFunction
    <3> QED BY <1>6, <2>1, <2>2, <2>3, <3>1
  <2>6. Ordered(heap', head, building, best)
    <3>1. Precedes(head, heap[best], heap[node])
      BY <1>2, <1>5, <1>8
    <3>2. \A m \in 1 .. Len(heap) :
            Child(heap, node, m) /\ m # best => Precedes(head, heap[best], heap[m])
      BY <1>2, <1>3
    <3> QED BY <1>4, <1>6, <1>8, <2>5, <3>1, <3>2, MoveUp
  <2>7. HeapHoldsHeads'
    <3>1. /\ \A n \in 1 .. Len(heap) : heap[n] \in Run /\ head[heap[n]] # <<>>
          /\ \A m, n \in 1 .. Len(heap) : heap[m] = heap[n] => m = n
          /\ \A r \in Run : head[r] # <<>> => \E n \in 1 .. Len(heap) : heap[n] = r
      BY <1>1, HeapMembers DEF IInv, Merging
    <3>2. \A m, n \in 1 .. Len(heap') : heap'[m] = heap'[n] => m = n
      BY <1>6, <2>2, <2>5, <3>1
    <3>3. \A n \in 1 .. Len(heap') : head[heap'[n]] # <<>>
      BY <1>6, <2>2, <2>5, <3>1
    <3>4. \A r \in Run : head[r] # <<>> => \E n \in 1 .. Len(heap') : heap'[n] = r
      BY <1>6, <2>2, <2>5, <3>1
    <3>5. IsInjective(heap') /\ ToSet(heap') = {r \in Run : head[r] # <<>>}
      BY <2>5, <3>2, <3>3, <3>4, IsHeap
    <3> QED BY <1>1, <3>5 DEF HeapHoldsHeads
  <2>8. InputsOK'
    BY <1>1, <2>1, <2>2, <2>5, SMTT(30) DEF IInv, InputsOK
  <2>9. HeapOrder'
    BY <1>1, <1>6, <2>1, <2>2, <2>5, <2>6 DEF HeapOrder
  <2> QED BY <2>1, <2>7, <2>8, <2>9 DEF IInv, EndsSeen
<1> QED BY <1>7, <1>8

\* When the head at the root changes, or the last node takes the place of the
\* root, only the root may be out of order.
LEMMA NewRoot ==
  ASSUME NEW h, NEW hd, NEW g, NEW ge, Len(h) \in Nat, Len(g) \in Nat,
         Len(g) <= Len(h), Ordered(h, hd, 0, 0),
         \A n \in 1 .. Len(g) : n # 1 => g[n] = h[n],
         \A m, n \in 2 .. Len(g) : Precedes(hd, h[m], h[n]) => Precedes(ge, h[m], h[n])
  PROVE  /\ Ordered(g, ge, 0, 1)
         /\ Len(g) <= 1 => Ordered(g, ge, 0, 0)
<1>1. ASSUME NEW p \in 1 .. Len(g), NEW n \in 1 .. Len(g), Child(g, p, n), p # 1
      PROVE  Precedes(ge, g[p], g[n])
  <2>1. /\ Child(h, p, n) /\ p \in 1 .. Len(h) /\ n \in 1 .. Len(h)
        /\ p \in 2 .. Len(g) /\ n \in 2 .. Len(g) /\ p # 0 /\ p > 0
    BY <1>1 DEF Child
  <2>2. Precedes(hd, h[p], h[n])
    BY <2>1 DEF Ordered
  <2> QED BY <2>1, <2>2
<1>2. \A p \in 1 .. Len(g) : ~Child(g, p, 1)
  BY DEF Child
<1>3. Len(g) <= 1 => \A p, n \in 1 .. Len(g) : ~Child(g, p, n)
  BY DEF Child
<1> QED BY <1>1, <1>2, <1>3 DEF Ordered

LEMMA EmitStep == IInv /\ Emit => IInv'
<1> SUFFICES ASSUME IInv, Emit PROVE IInv'
  OBVIOUS
<1> DEFINE run == heap[1]
           last == Len(heap)
<1>1. pc = "emit" /\ heap # <<>> /\ UNCHANGED <<given, files, open_end, building, Run>>
  BY DEF Emit, input_vars, Run
<1>2. CASE Fails /\ opened' = 0 /\ UNCHANGED <<cursor, head, eof, heap, node, written>>
  BY <1>1, <1>2 DEF Fails, IInv, InputsOK, EndsSeen, HeapHoldsHeads, HeapOrder
<1>3. CASE /\ ReadHead(run)
           /\ heap' = IF head'[run] # <<>> THEN heap
                      ELSE [n \in 1 .. Len(heap) - 1 |-> IF n = 1 THEN heap[Len(heap)] ELSE heap[n]]
           /\ IF Len(heap') > 1
              THEN pc' = "sift" /\ node' = 1
              ELSE UNCHANGED <<pc, node>>
           /\ UNCHANGED <<opened, output>>
  <2>1. /\ building = 0 /\ Ordered(heap, head, 0, 0) /\ heap \in Seq(Run)
        /\ last \in Nat /\ last # 0 /\ node \in Nat
    BY <1>1 DEF IInv, InputsOK, HeapOrder
  <2>2. /\ \A n \in 1 .. last : heap[n] \in Run /\ head[heap[n]] # <<>>
        /\ \A m, n \in 1 .. last : heap[m] = heap[n] => m = n
        /\ \A r \in Run : head[r] # <<>> => \E n \in 1 .. last : heap[n] = r
    BY <1>1, HeapMembers DEF IInv, Merging
  <2>3. run \in Run
    BY <2>1, <2>2
  <2>4. /\ cursor' \in [Run -> Nat] /\ eof' \in [Run -> BOOLEAN]
        /\ DOMAIN head' = Run /\ IsHead(head'[run])
        /\ \A q \in Run \ {run} : head'[q] = head[q]
    BY <1>3, <2>3, ReadHeadReads DEF IInv
  <2>5. \A n \in 2 .. last : heap[n] \in Run /\ heap[n] # run /\ head'[heap[n]] = head[heap[n]]
    BY <2>1, <2>2, <2>4
  <2>6. \A m, n \in 2 .. last :
          Precedes(head, heap[m], heap[n]) => Precedes(head', heap[m], heap[n])
    BY <2>5 DEF Precedes
  <2>7. /\ heap' \in Seq(Run) /\ Len(heap') \in Nat /\ Len(heap') <= last
        /\ \A n \in 1 .. Len(heap') : n # 1 => heap'[n] = heap[n]
        /\ \A m, n \in 1 .. Len(heap') : heap'[m] = heap'[n] => m = n
        /\ \A n \in 1 .. Len(heap') : head'[heap'[n]] # <<>>
        /\ \A r \in Run : head'[r] # <<>> => \E n \in 1 .. Len(heap') : heap'[n] = r
    <3>1. CASE head'[run] # <<>>
      <4>1. heap' = heap
        BY <1>3, <3>1
      <4>2. \A n \in 1 .. last : head'[heap[n]] # <<>>
        BY <2>1, <2>2, <2>5, <3>1
      <4>3. \A r \in Run : head'[r] # <<>> => \E n \in 1 .. last : heap[n] = r
        BY <2>1, <2>2, <2>4
      <4> QED BY <2>1, <2>2, <4>1, <4>2, <4>3
    <3>2. CASE head'[run] = <<>>
      <4> DEFINE g == [n \in 1 .. last - 1 |-> IF n = 1 THEN heap[last] ELSE heap[n]]
      <4>1. heap' = g
        BY <1>3, <3>2
      <4>2. g \in [1 .. last - 1 -> Run] /\ last - 1 \in Nat
        BY <2>1, <2>2
      <4>3. /\ \A n \in 1 .. last - 1 : n # 1 => g[n] = heap[n]
            /\ last - 1 >= 1 => g[1] = heap[last]
        BY <2>1
      <4> HIDE DEF g
      <4>4. g \in Seq(Run) /\ Len(g) = last - 1
        BY <4>2, SeqOfFunction
      <4>5. \A m, n \in 1 .. last - 1 : g[m] = g[n] => m = n
        BY <2>1, <2>2, <4>2, <4>3
      <4>6. \A n \in 1 .. last - 1 : head'[g[n]] # <<>>
        BY <2>1, <2>2, <2>5, <4>2, <4>3
      <4>7. ASSUME NEW r \in Run, head'[r] # <<>>
            PROVE  \E n \in 1 .. last - 1 : g[n] = r
        <5>1. r # run /\ head[r] # <<>>
          BY <2>4, <3>2, <4>7
        <5>2. PICK n \in 1 .. last : heap[n] = r
          BY <2>2, <5>1
        <5>3. n # 1
          BY <5>1, <5>2
        <5>4. CASE n = last
          BY <2>1, <4>3, <5>2, <5>3, <5>4
        <5>5. CASE n # last
          <6>1. n \in 1 .. last - 1
            BY <2>1, <5>5
          <6> QED BY <4>3, <5>2, <5>3, <6>1
        <5> QED BY <5>4, <5>5
      <4> QED BY <2>1, <4>1, <4>2, <4>3, <4>4, <4>5, <4>6, <4>7
    <3> QED BY <3>1, <3>2
  <2>8. Ordered(heap', head', 0, 1) /\ (Len(heap') <= 1 => Ordered(heap', head', 0, 0))
    <3>1. \A m, n \in 2 .. Len(heap') :
            Precedes(head, heap[m], heap[n]) => Precedes(head', heap[m], heap[n])
      BY <2>1, <2>6, <2>7
    <3> QED BY <2>1, <2>7, <3>1, NewRoot
  <2>9. HeapHoldsHeads'
    <3>1. IsInjective(heap') /\ ToSet(heap') = {r \in Run : head'[r] # <<>>}
      BY <2>7, IsHeap
    <3> QED BY <1>1, <3>1 DEF HeapHoldsHeads
  <2>10. pc' \in {"sift", "emit"} /\ node' \in Nat
    BY <1>1, <1>3, <2>1
  <2>11. InputsOK'
    <3>1. \A r \in Run : IsHead(head'[r])
      BY <2>4 DEF IInv, InputsOK
    <3> QED BY <1>1, <1>3, <2>4, <2>7, <2>10, <3>1 DEF IInv, InputsOK
  <2>12. HeapOrder'
    BY <1>1, <1>3, <2>1, <2>7, <2>8 DEF HeapOrder
  <2> QED BY <2>9, <2>10, <2>11, <2>12 DEF IInv, EndsSeen
<1> QED BY <1>2, <1>3 DEF Emit

LEMMA CloseStep == IInv /\ Close => IInv'
<1> SUFFICES ASSUME IInv, Close PROVE IInv'
  OBVIOUS
<1>1. /\ pc' = "ended" /\ opened' = 0
      /\ UNCHANGED <<given, files, open_end, cursor, head, eof, heap, node, building, Run>>
  BY DEF Close, Fails, input_vars, Run
<1> QED BY <1>1 DEF IInv, InputsOK, EndsSeen, HeapHoldsHeads, HeapOrder

-----------------------------------------------------------------------------
(***************************************************************************)
(* The theorem                                                             *)
(***************************************************************************)

LEMMA NextIInv == IInv /\ [Next]_vars => IInv'
<1> SUFFICES ASSUME IInv, [Next]_vars PROVE IInv'
  OBVIOUS
<1>1. CASE UNCHANGED vars
  BY <1>1 DEF vars, IInv, InputsOK, EndsSeen, HeapHoldsHeads, HeapOrder, Run
<1> QED BY <1>1, OpenOutputStep, OpenRunStep, BuildHeapStep, HeapifyStep, SiftDownStep, EmitStep,
           CloseStep DEF Next

\* While records are written every input that has one is in the heap, once,
\* and the record at the root is the least, the one of the earliest input
\* among equals: whatever the inputs, however many, with empty records and
\* without a last newline, and with failures anywhere (merge_stream_bytes).
THEOREM HeapIsRightCorrect == Spec => []HeapIsRight
<1>1. IInv => HeapIsRight
  <2> SUFFICES ASSUME IInv PROVE HeapIsRight
    OBVIOUS
  <2>1. ASSUME pc = "emit" PROVE \A n \in 2 .. Len(heap) : Less(heap[1], heap[n])
    <3>1. \A n \in 2 .. Len(heap) : Precedes(head, heap[1], heap[n])
      BY <2>1, RootFirst DEF IInv, HeapOrder, Merging
    <3> QED BY <3>1 DEF Less, Precedes
  <2> QED BY <2>1 DEF IInv, HeapIsRight, RootIsLeast
<1> QED BY InitIInv, NextIInv, <1>1, PTL DEF Spec

-----------------------------------------------------------------------------
(***************************************************************************)
(* What is read and written                                                *)
(***************************************************************************)

Outputs == [state : {"running", "failed", "delivered"}, recs : Seq(Record)]

Alive == pc # "ended"

\* The types of the other variables.
DataOK ==
  /\ unique \in BOOLEAN /\ given \in Inputs
  /\ files \in Seq(Seq(Record))
  /\ target \in Nat /\ opened \in 0 .. Len(given)
  /\ head \in [Run -> Seq(Record)]
  /\ written \in Seq(Record) /\ output \in Outputs

\* How far an input has been read: not at all, as far as the record at its
\* head, or to its end.
ReadTo(r) ==
  /\ cursor[r] <= Len(files[r])
  /\ head[r] # <<>> => cursor[r] # 0 /\ head[r] = <<files[r][cursor[r]]>>
  /\ eof[r] => cursor[r] = Len(files[r])
  /\ IF r <= opened \/ Merging
     THEN head[r] = <<>> => cursor[r] = Len(files[r])
     ELSE head[r] = <<>> /\ cursor[r] = 0

InputsRead ==
  Alive => /\ pc = "start" => opened = 0
           /\ output = Contract!NotYet
           /\ \A r \in Run : ReadTo(r)

DInv == DataOK /\ InputsRead

LEMMA NumberedAre ==
  ASSUME NEW g \in Seq(Seq(Keys))
  PROVE  LET fs == Numbered(g)
         IN  /\ fs \in Seq(Seq(Record)) /\ Len(fs) = Len(g)
             /\ \A r \in 1 .. Len(g) : Len(fs[r]) = Len(g[r])
             /\ \A r \in 1 .. Len(g) : \A i \in 1 .. Len(g[r]) : fs[r][i].key = g[r][i]
             /\ RunsInPosOrder(fs) /\ \A r \in 1 .. Len(fs) : InPosOrder(fs[r])
<1>1. Numbered(g) = AllNumbered(g)
  BY DEF Numbered, AllNumbered, Before
<1> DEFINE fs == AllNumbered(g)
<1>2. /\ fs \in Seq(Seq([key : Keys, pos : Nat])) /\ Len(fs) = Len(g)
      /\ \A r \in 1 .. Len(g) : Len(fs[r]) = Len(g[r])
      /\ \A r \in 1 .. Len(g) : \A i \in 1 .. Len(g[r]) : fs[r][i].key = g[r][i]
      /\ RunsInPosOrder(fs) /\ \A r \in 1 .. Len(fs) : InPosOrder(fs[r])
  BY AllNumberedAre, Zenon
<1> HIDE DEF fs
<1> QED BY <1>1, <1>2 DEF fs, Record

\* What a merge delivers is typed.
LEMMA Outcomes ==
  /\ Contract!Failed \in Outputs /\ Contract!NotYet \in Outputs
  /\ \A recs \in Seq(Record) : Contract!Delivered(recs) \in Outputs
<1>1. <<>> \in Seq(Record)
  OBVIOUS
<1> QED BY <1>1 DEF Outputs, Contract!Failed, Contract!NotYet, Contract!Delivered

LEMMA InitDInv == Init => DInv
<1> SUFFICES ASSUME Init PROVE DInv
  OBVIOUS
<1>1. given \in Seq(Seq(Keys)) /\ given \in Inputs
  BY ConstantsAssumption DEF Init
<1>2. files \in Seq(Seq(Record)) /\ Len(files) = Len(given) /\ Len(given) \in Nat
  BY <1>1, NumberedAre DEF Init
<1>3. Run = 1 .. Len(given)
  BY <1>1 DEF Run
<1>4. \A r \in Run : files[r] \in Seq(Record)
  BY <1>2, <1>3
<1>5. /\ unique \in BOOLEAN /\ target \in Nat /\ opened = 0 /\ pc = "start"
      /\ head = [r \in Run |-> <<>>] /\ cursor = [r \in Run |-> 0] /\ eof = [r \in Run |-> FALSE]
      /\ written = <<>> /\ output = Contract!NotYet
  BY <1>1, <1>2 DEF Init, Run
<1>6. DataOK
  BY <1>1, <1>2, <1>5, Outcomes DEF DataOK
<1>7. ASSUME NEW r \in Run PROVE ReadTo(r)
  <2>1. Len(files[r]) \in Nat /\ r \in Nat /\ r > 0
    BY <1>3, <1>4
  <2>2. head[r] = <<>> /\ cursor[r] = 0 /\ eof[r] = FALSE
    BY <1>5
  <2> QED BY <1>5, <2>1, <2>2 DEF ReadTo, Merging
<1> QED BY <1>5, <1>6, <1>7 DEF DInv, InputsRead

\* The places of an input.
LEMMA RunIs ==
  ASSUME InputsOK, DataOK
  PROVE  /\ Run = 1 .. Len(files) /\ Len(files) = Len(given) /\ Len(files) \in Nat
         /\ \A r \in Run : r \in Nat /\ files[r] \in Seq(Record) /\ Len(files[r]) \in Nat
<1>1. Run = 1 .. Len(given) /\ Len(files) = Len(given) /\ Len(files) \in Nat
  BY DEF InputsOK, DataOK, Run
<1>2. \A r \in Run : files[r] \in Seq(Record)
  BY <1>1 DEF DataOK
<1> QED BY <1>1, <1>2

\* Reading the next head of an input.
LEMMA ReadHeadData ==
  ASSUME InputsOK, DataOK, NEW r \in Run, ReadTo(r), ReadHead(r), files' = files
  PROVE  /\ head' \in [Run -> Seq(Record)]
         /\ \A q \in Run \ {r} : head'[q] = head[q] /\ cursor'[q] = cursor[q] /\ eof'[q] = eof[q]
         /\ cursor'[r] <= Len(files[r])
         /\ head'[r] # <<>> => cursor'[r] = cursor[r] + 1 /\ head'[r] = <<files[r][cursor'[r]]>>
         /\ head'[r] = <<>> => cursor'[r] = cursor[r] /\ cursor'[r] = Len(files[r])
         /\ eof'[r] => cursor'[r] = Len(files[r])
<1>1. /\ head \in [Run -> Seq(Record)] /\ cursor \in [Run -> Nat] /\ eof \in [Run -> BOOLEAN]
      /\ files[r] \in Seq(Record) /\ Len(files[r]) \in Nat /\ cursor[r] \in Nat
  BY RunIs DEF InputsOK, DataOK
<1>2. cursor[r] <= Len(files[r]) /\ (eof[r] => cursor[r] = Len(files[r]))
  BY DEF ReadTo
<1>3. CASE ~eof[r] /\ cursor[r] < Len(files[r])
  <2> DEFINE rec == files[r][cursor[r] + 1]
  <2>1. /\ cursor' = [cursor EXCEPT ![r] = @ + 1]
        /\ head' = [head EXCEPT ![r] = <<rec>>]
        /\ eof' = [eof EXCEPT ![r] = (cursor'[r] = Len(files[r]) /\ r \in open_end)]
    BY <1>3 DEF ReadHead
  <2>2. cursor[r] + 1 \in 1 .. Len(files[r])
    BY <1>1, <1>3
  <2>3. rec \in Record
    BY <1>1, <2>2
  <2>4. cursor'[r] = cursor[r] + 1 /\ head'[r] = <<rec>> /\ <<rec>> # <<>>
    BY <1>1, <2>1
  <2>5. <<rec>> \in Seq(Record)
    <3> HIDE DEF rec
    <3> QED BY <2>3
  <2>6. eof'[r] => cursor'[r] = Len(files[r])
    BY <1>1, <2>1
  <2>7. /\ head' \in [Run -> Seq(Record)]
        /\ \A q \in Run \ {r} : head'[q] = head[q] /\ cursor'[q] = cursor[q] /\ eof'[q] = eof[q]
    <3> HIDE DEF rec
    <3> QED BY <1>1, <2>1, <2>5
  <2> QED BY <1>3, <1>1, <2>4, <2>6, <2>7
<1>4. CASE ~(~eof[r] /\ cursor[r] < Len(files[r]))
  <2>1. /\ head' = [head EXCEPT ![r] = <<>>] /\ eof' = [eof EXCEPT ![r] = TRUE]
        /\ cursor' = cursor
    BY <1>4 DEF ReadHead
  <2>2. cursor[r] = Len(files[r])
    BY <1>1, <1>2, <1>4
  <2>3. <<>> \in Seq(Record)
    OBVIOUS
  <2> QED BY <1>1, <2>1, <2>2, <2>3
<1> QED BY <1>3, <1>4

-----------------------------------------------------------------------------
(***************************************************************************)
(* Steps                                                                   *)
(***************************************************************************)

\* A step that ends the merge.
LEMMA EndingData ==
  ASSUME DataOK, pc' = "ended", opened' = 0 \/ opened' = opened, output' \in Outputs,
         UNCHANGED <<unique, given, files, target, head, written>>
  PROVE  DInv'
<1>1. Len(given) \in Nat
  BY ConstantsAssumption DEF DataOK
<1>2. opened' \in 0 .. Len(given)
  BY <1>1 DEF DataOK
<1> QED BY <1>2 DEF DInv, DataOK, InputsRead, Alive, Run

LEMMA OpenOutputData == IInv /\ DInv /\ OpenOutput => DInv'
<1> SUFFICES ASSUME IInv, DInv, OpenOutput PROVE DInv'
  OBVIOUS
<1>1. /\ pc = "start" /\ Alive
      /\ UNCHANGED <<unique, given, target, opened, cursor, head, eof, written, Run>>
  BY DEF OpenOutput, Alive, Run
<1>2. DataOK /\ InputsOK
  BY DEF DInv, IInv
<1>3. CASE files' = [r \in Run |-> IF r = target THEN <<>> ELSE files[r]] /\ pc' = "open"
           /\ UNCHANGED output
  <2>1. /\ Run = 1 .. Len(files) /\ Len(files) = Len(given) /\ Len(files) \in Nat
        /\ \A r \in Run : r \in Nat /\ files[r] \in Seq(Record) /\ Len(files[r]) \in Nat
    BY <1>2, RunIs
  <2>2. \A r \in Run : files'[r] = IF r = target THEN <<>> ELSE files[r]
    BY <1>3
  <2>3. <<>> \in Seq(Record) /\ Len(<<>>) = 0
    OBVIOUS
  <2>4. files' \in [1 .. Len(files) -> Seq(Record)]
    BY <1>3, <2>1, <2>3
  <2>5. files' \in Seq(Seq(Record))
    BY <2>1, <2>4, SeqOfFunction
  <2>6. DataOK'
    BY <1>1, <1>2, <1>3, <2>5 DEF DataOK
  <2>7. opened = 0 /\ output = Contract!NotYet /\ \A r \in Run : ReadTo(r)
    BY <1>1 DEF DInv, InputsRead
  <2>8. ASSUME NEW r \in Run PROVE ReadTo(r)'
    <3>1. head[r] = <<>> /\ cursor[r] = 0
      BY <1>1, <2>1, <2>7 DEF ReadTo, Merging
    <3>2. Len(files'[r]) \in Nat /\ (files'[r] = files[r] \/ Len(files'[r]) = 0)
      BY <2>1, <2>2, <2>3
    <3>3. eof[r] => cursor[r] = Len(files'[r])
      BY <2>7, <3>1, <3>2 DEF ReadTo
    <3>4. ~(r <= opened)
      BY <2>1, <2>7
    <3> QED BY <1>1, <1>3, <3>1, <3>2, <3>3, <3>4 DEF ReadTo, Merging
  <2>9. InputsRead'
    BY <1>1, <1>3, <2>7, <2>8 DEF InputsRead
  <2> QED BY <2>6, <2>9 DEF DInv
<1>4. CASE Fails /\ UNCHANGED files
  BY <1>1, <1>2, <1>4, EndingData, Outcomes DEF Fails
<1> QED BY <1>3, <1>4 DEF OpenOutput

LEMMA OpenRunData == IInv /\ DInv /\ OpenRun => DInv'
<1> SUFFICES ASSUME IInv, DInv, OpenRun PROVE DInv'
  OBVIOUS
<1>1. /\ pc = "open" /\ Alive /\ opened < Len(files)
      /\ UNCHANGED <<unique, given, files, target, written, Run>>
  BY DEF OpenRun, Alive, Run, input_vars
<1>2. DataOK /\ InputsOK
  BY DEF DInv, IInv
<1>3. CASE opened' = opened + 1 /\ ReadHead(opened') /\ UNCHANGED <<pc, output>>
  <2> DEFINE o == opened + 1
  <2>1. /\ Run = 1 .. Len(files) /\ Len(files) = Len(given) /\ Len(files) \in Nat
        /\ opened \in Nat /\ \A r \in Run : r \in Nat
    BY <1>2, RunIs DEF InputsOK
  <2>2. o \in Run /\ o \in 0 .. Len(given) /\ ReadHead(o) /\ opened' = o
    BY <1>1, <1>3, <2>1
  <2>3. output = Contract!NotYet /\ \A r \in Run : ReadTo(r)
    BY <1>1 DEF DInv, InputsRead
  <2>4. /\ head' \in [Run -> Seq(Record)]
        /\ \A q \in Run \ {o} : head'[q] = head[q] /\ cursor'[q] = cursor[q] /\ eof'[q] = eof[q]
        /\ cursor'[o] <= Len(files[o])
        /\ head'[o] # <<>> => cursor'[o] = cursor[o] + 1 /\ head'[o] = <<files[o][cursor'[o]]>>
        /\ head'[o] = <<>> => cursor'[o] = cursor[o] /\ cursor'[o] = Len(files[o])
        /\ eof'[o] => cursor'[o] = Len(files[o])
    BY <1>1, <1>2, <2>2, <2>3, ReadHeadData
  <2>5. cursor[o] \in Nat
    BY <1>2, <2>2 DEF InputsOK
  <2> HIDE DEF o
  <2>6. DataOK'
    BY <1>1, <1>2, <1>3, <2>2, <2>4 DEF DataOK
  <2>7. ASSUME NEW r \in Run PROVE ReadTo(r)'
    <3>1. CASE r = o
      <4>1. r <= opened' /\ cursor[r] + 1 # 0
        BY <2>1, <2>2, <2>5, <3>1
      <4> QED BY <1>1, <2>4, <3>1, <4>1 DEF ReadTo
    <3>2. CASE r # o
      <4>1. r <= opened' <=> r <= opened
        BY <2>1, <3>2 , <2>2 DEF o
      <4>2. head'[r] = head[r] /\ cursor'[r] = cursor[r] /\ eof'[r] = eof[r] /\ pc' = pc
        BY <1>3, <2>4, <3>2
      <4> QED BY <1>1, <2>3, <4>1, <4>2 DEF ReadTo, Merging
    <3> QED BY <3>1, <3>2
  <2>8. InputsRead'
    BY <1>1, <1>3, <2>3, <2>7 DEF InputsRead
  <2> QED BY <2>6, <2>8 DEF DInv
<1>4. CASE Fails /\ opened' = 0 /\ UNCHANGED <<cursor, head, eof>>
  BY <1>1, <1>2, <1>4, EndingData, Outcomes DEF Fails
<1> QED BY <1>3, <1>4 DEF OpenRun

\* Building and sifting the heap.
LEMMA HeapData == IInv /\ DInv /\ (BuildHeap \/ Heapify \/ SiftDown) => DInv'
<1> SUFFICES ASSUME IInv, DInv, BuildHeap \/ Heapify \/ SiftDown PROVE DInv'
  OBVIOUS
<1>1. /\ Alive /\ Merging' /\ Alive' /\ pc' # "start"
      /\ Merging \/ (pc = "open" /\ opened = Len(files))
      /\ UNCHANGED <<unique, given, files, target, opened, cursor, head, eof, written, output, Run>>
  BY DEF BuildHeap, Heapify, SiftDown, Alive, Merging, Run, input_vars
<1>2. DataOK /\ InputsOK
  BY DEF DInv, IInv
<1>3. DataOK'
  BY <1>1, <1>2 DEF DataOK
<1>4. output = Contract!NotYet /\ \A r \in Run : ReadTo(r)
  BY <1>1 DEF DInv, InputsRead
<1>5. ASSUME NEW r \in Run PROVE ReadTo(r)'
  <2>1. r <= opened \/ Merging
    BY <1>1, <1>2, RunIs
  <2> QED BY <1>1, <1>4, <2>1 DEF ReadTo
<1> QED BY <1>1, <1>3, <1>4, <1>5 DEF DInv, InputsRead

LEMMA EmitData == IInv /\ DInv /\ Emit => DInv'
<1> SUFFICES ASSUME IInv, DInv, Emit PROVE DInv'
  OBVIOUS
<1> DEFINE run == heap[1]
           rec == head[run][1]
<1>1. /\ pc = "emit" /\ heap # <<>> /\ Alive /\ Merging
      /\ UNCHANGED <<unique, given, files, target, Run>>
  BY DEF Emit, Alive, Merging, Run, input_vars
<1>2. DataOK /\ InputsOK
  BY DEF DInv, IInv
<1>3. CASE /\ written' = IF Repeated(rec) THEN written ELSE Append(written, rec)
           /\ ReadHead(run)
           /\ IF Len(heap') > 1
              THEN pc' = "sift" /\ node' = 1
              ELSE UNCHANGED <<pc, node>>
           /\ UNCHANGED <<opened, output>>
  <2>1. run \in Run /\ head[run] # <<>>
    <3>1. heap \in Seq(Run)
      BY <1>2 DEF InputsOK
    <3>2. 1 \in 1 .. Len(heap)
      BY <1>1, <3>1
    <3> QED BY <1>1, <3>2, HeapMembers DEF IInv
  <2>2. output = Contract!NotYet /\ \A r \in Run : ReadTo(r)
    BY <1>1 DEF DInv, InputsRead
  <2>3. files[run] \in Seq(Record) /\ Len(files[run]) \in Nat /\ cursor[run] \in Nat
    BY <1>2, <2>1, RunIs DEF InputsOK
  <2>4. /\ rec = files[run][cursor[run]] /\ cursor[run] \in 1 .. Len(files[run])
        /\ rec \in Record
    BY <2>1, <2>2, <2>3 DEF ReadTo
  <2> HIDE DEF run
  <2>5. written' \in Seq(Record)
    <3>1. written \in Seq(Record)
      BY <1>2 DEF DataOK
    <3> HIDE DEF rec
    <3> QED BY <1>3, <2>4, <3>1
  <2>6. /\ head' \in [Run -> Seq(Record)]
        /\ \A q \in Run \ {run} : head'[q] = head[q] /\ cursor'[q] = cursor[q] /\ eof'[q] = eof[q]
        /\ cursor'[run] <= Len(files[run])
        /\ head'[run] # <<>> => cursor'[run] = cursor[run] + 1 /\ head'[run] = <<files[run][cursor'[run]]>>
        /\ head'[run] = <<>> => cursor'[run] = cursor[run] /\ cursor'[run] = Len(files[run])
        /\ eof'[run] => cursor'[run] = Len(files[run])
    BY <1>1, <1>2, <1>3, <2>1, <2>2, ReadHeadData
  <2>7. DataOK'
    BY <1>1, <1>2, <1>3, <2>5, <2>6 DEF DataOK
  <2>8. Merging' /\ pc' # "start"
    BY <1>1, <1>3 DEF Merging
  <2>9. ASSUME NEW r \in Run PROVE ReadTo(r)'
    <3>1. CASE r = run
      <4>1. cursor[run] + 1 # 0
        BY <2>3
      <4> QED BY <1>1, <2>6, <2>8, <3>1, <4>1 DEF ReadTo
    <3>2. CASE r # run
      <4>1. head'[r] = head[r] /\ cursor'[r] = cursor[r] /\ eof'[r] = eof[r]
        BY <2>6, <3>2
      <4> QED BY <1>1, <2>2, <2>8, <4>1 DEF ReadTo
    <3> QED BY <3>1, <3>2
  <2> QED BY <1>1, <1>3, <2>2, <2>7, <2>8, <2>9 DEF DInv, InputsRead
<1>4. CASE Fails /\ opened' = 0 /\ UNCHANGED <<cursor, head, eof, heap, node, written>>
  BY <1>1, <1>2, <1>4, EndingData, Outcomes DEF Fails
<1> QED BY <1>3, <1>4 DEF Emit

LEMMA CloseData == IInv /\ DInv /\ Close => DInv'
<1> SUFFICES ASSUME IInv, DInv, Close PROVE DInv'
  OBVIOUS
<1>1. /\ pc' = "ended" /\ opened' = 0
      /\ output' = Contract!Delivered(written) \/ output' = Contract!Failed
      /\ UNCHANGED <<unique, given, files, target, head, written>>
  BY DEF Close, Fails, input_vars
<1>2. DataOK
  BY DEF DInv
<1>3. output' \in Outputs
  BY <1>1, <1>2, Outcomes DEF DataOK
<1> QED BY <1>1, <1>2, <1>3, EndingData

LEMMA NextDInv == IInv /\ DInv /\ [Next]_vars => DInv'
<1> SUFFICES ASSUME IInv, DInv, [Next]_vars PROVE DInv'
  OBVIOUS
<1>1. CASE UNCHANGED vars
  BY <1>1 DEF vars, DInv, DataOK, InputsRead, ReadTo, Alive, Merging, Run
<1> QED BY <1>1, OpenOutputData, OpenRunData, HeapData, EmitData, CloseData DEF Next

LEMMA Inductive == Spec => [](IInv /\ DInv)
<1>1. Init => IInv /\ DInv
  BY InitIInv, InitDInv
<1>2. (IInv /\ DInv) /\ [Next]_vars => (IInv /\ DInv)'
  BY NextIInv, NextDInv
<1> QED BY <1>1, <1>2, PTL DEF Spec

\* Every variable has the type its comment says, whatever the inputs and
\* whatever fails.
THEOREM TypeCorrect == Spec => []TypeOK
<1>1. IInv /\ DInv => TypeOK
  BY DEF IInv, DInv, InputsOK, DataOK, TypeOK, Outputs
<1> QED BY <1>1, Inductive, PTL

-----------------------------------------------------------------------------
(***************************************************************************)
(* The merge of sorted files is the sort of their records                  *)
(***************************************************************************)

\* Every input is in order, as -m asks for.
SortedInputs ==
  \A g \in Inputs : \A r \in DOMAIN g : \A i, j \in DOMAIN g[r] :
    i < j => Order[g[r][i]] <= Order[g[r][j]]

\* The first record of every input that is not written yet.
Onward == [r \in Run |-> IF head[r] = <<>> THEN cursor[r] + 1 ELSE cursor[r]]

\* The operands are as they were, and what is written is what a merge writes
\* that has come as far as the heads.
MInv ==
  /\ target = 0
  /\ Alive => files = Numbered(given) /\ MergedSoFar(files, Order, unique, Onward, written)

LEMMA RecordsRank == Ranked(Record, Order)
  BY ConstantsAssumption DEF Ranked, Record

LEMMA FilesSorted ==
  ASSUME SortedInputs, given \in Inputs, files = Numbered(given)
  PROVE  /\ files \in Seq(Seq(Record)) /\ RunsInPosOrder(files)
         /\ \A r \in 1 .. Len(files) : InPosOrder(files[r]) /\ InSortOrder(files[r], Order)
<1>1. given \in Seq(Seq(Keys))
  BY ConstantsAssumption
<1>2. /\ files \in Seq(Seq(Record)) /\ Len(files) = Len(given)
      /\ \A r \in 1 .. Len(given) : Len(files[r]) = Len(given[r])
      /\ \A r \in 1 .. Len(given) : \A i \in 1 .. Len(given[r]) : files[r][i].key = given[r][i]
      /\ RunsInPosOrder(files) /\ \A r \in 1 .. Len(files) : InPosOrder(files[r])
  BY <1>1, NumberedAre
<1>3. ASSUME NEW r \in 1 .. Len(files) PROVE InSortOrder(files[r], Order)
  <2>1. files[r] \in Seq(Record) /\ given[r] \in Seq(Keys) /\ r \in DOMAIN given
    BY <1>1, <1>2
  <2>2. DOMAIN given[r] = 1 .. Len(files[r])
    BY <1>2, <2>1
  <2>3. ASSUME NEW i \in 1 .. Len(files[r]), NEW j \in 1 .. Len(files[r]), i < j
        PROVE  Sooner(Order, files[r][i], files[r][j])
    <3>1. files[r][i] \in Record /\ files[r][j] \in Record
      BY <2>1
    <3>2. Order[files[r][i].key] \in Nat /\ Order[files[r][j].key] \in Nat
      BY <3>1, RecordsRank DEF Ranked
    <3>3. files[r][i].pos < files[r][j].pos
      BY <1>2, <2>3 DEF InPosOrder
    <3>4. Order[given[r][i]] <= Order[given[r][j]]
      BY <2>1, <2>2, <2>3 DEF SortedInputs
    <3>5. files[r][i].key = given[r][i] /\ files[r][j].key = given[r][j]
      BY <1>2, <2>1, <2>2
    <3>6. Order[files[r][i].key] <= Order[files[r][j].key]
      BY <3>4, <3>5
    <3> QED BY <3>2, <3>3, <3>6 DEF Sooner
  <2> QED BY <2>3 DEF InSortOrder
<1> QED BY <1>2, <1>3

\* Where the heads are.
LEMMA OnwardIs ==
  ASSUME InputsOK, DataOK, \A r \in Run : ReadTo(r)
  PROVE  /\ Onward \in [1 .. Len(files) -> Nat \ {0}]
         /\ \A r \in Run :
              /\ head[r] # <<>> => /\ Onward[r] = cursor[r] /\ Onward[r] \in 1 .. Len(files[r])
                                   /\ head[r][1] = files[r][Onward[r]]
              /\ head[r] = <<>> => Onward[r] = cursor[r] + 1
              /\ head[r] = <<>> /\ Merging => Onward[r] > Len(files[r])
<1>1. /\ Run = 1 .. Len(files)
      /\ \A r \in Run : Len(files[r]) \in Nat /\ cursor[r] \in Nat
  BY RunIs DEF InputsOK
<1>2. \A r \in Run : Onward[r] = IF head[r] = <<>> THEN cursor[r] + 1 ELSE cursor[r]
  BY DEF Onward
<1>3. ASSUME NEW r \in Run
      PROVE  /\ Onward[r] \in Nat \ {0}
             /\ head[r] # <<>> => /\ Onward[r] = cursor[r] /\ Onward[r] \in 1 .. Len(files[r])
                                  /\ head[r][1] = files[r][Onward[r]]
             /\ head[r] = <<>> => Onward[r] = cursor[r] + 1
             /\ head[r] = <<>> /\ Merging => Onward[r] > Len(files[r])
  <2>1. CASE head[r] = <<>>
    <3>1. Onward[r] = cursor[r] + 1 /\ (Merging => cursor[r] = Len(files[r]))
      BY <1>2, <2>1 DEF ReadTo
    <3> QED BY <1>1, <2>1, <3>1
  <2>2. CASE head[r] # <<>>
    <3>1. /\ Onward[r] = cursor[r] /\ cursor[r] # 0 /\ cursor[r] <= Len(files[r])
          /\ head[r] = <<files[r][cursor[r]]>>
      BY <1>2, <2>2 DEF ReadTo
    <3>2. head[r][1] = files[r][Onward[r]]
      BY <3>1
    <3> QED BY <1>1, <2>2, <3>1, <3>2
  <2> QED BY <2>1, <2>2
<1>4. Onward \in [Run -> Nat \ {0}]
  <2>1. Onward = [r \in Run |-> Onward[r]]
    BY DEF Onward
  <2> HIDE DEF Onward
  <2> QED BY <1>3, <2>1
<1> QED BY <1>1, <1>3, <1>4

LEMMA InitMInv == ASSUME Targets = {0} PROVE Init => MInv
<1> SUFFICES ASSUME Init PROVE MInv
  OBVIOUS
<1>1. DInv /\ IInv
  BY InitDInv, InitIInv
<1>2. /\ target = 0 /\ files = Numbered(given) /\ written = <<>>
      /\ \A r \in Run : head[r] = <<>> /\ cursor[r] = 0
  BY DEF Init, Run
<1>3. files \in Seq(Seq(Record)) /\ Run = 1 .. Len(files)
  BY <1>1, RunIs DEF DInv, DataOK, IInv
<1>4. \A r \in 1 .. Len(files) : Onward[r] = 1
  BY <1>2, <1>3 DEF Onward
<1>5. MergedSoFar(files, Order, unique, Onward, <<>>)
  BY <1>3, <1>4, MergeStarts
<1> QED BY <1>2, <1>5 DEF MInv

-----------------------------------------------------------------------------
(***************************************************************************)
(* Steps                                                                   *)
(***************************************************************************)

\* Steps that write nothing and pass no record.
LEMMA StayMInv ==
  ASSUME MInv, Alive, Onward' = Onward, UNCHANGED <<unique, given, files, target, written>>
  PROVE  MInv'
  BY DEF MInv, MergedSoFar

LEMMA EndMInv ==
  ASSUME MInv, pc' = "ended", UNCHANGED target
  PROVE  MInv'
  BY DEF MInv, Alive

LEMMA OpenOutputMInv == IInv /\ DInv /\ MInv /\ OpenOutput => MInv'
<1> SUFFICES ASSUME IInv, DInv, MInv, OpenOutput PROVE MInv'
  OBVIOUS
<1>1. /\ pc = "start" /\ Alive
      /\ UNCHANGED <<unique, given, target, cursor, head, written, Run>>
  BY DEF OpenOutput, Alive, Run
<1>2. Onward' = Onward
  BY <1>1 DEF Onward
<1>3. CASE files' = [r \in Run |-> IF r = target THEN <<>> ELSE files[r]]
  <2>1. Run = 1 .. Len(files) /\ files \in Seq(Seq(Record)) /\ \A r \in Run : r # 0
    BY RunIs DEF IInv, DInv, DataOK
  <2>2. target = 0
    BY DEF MInv
  <2>3. files' = [r \in Run |-> files[r]]
    BY <1>3, <2>1, <2>2
  <2>4. files' = files
    BY <2>1, <2>3
  <2> QED BY <1>1, <1>2, <2>4, StayMInv
<1>4. CASE Fails
  BY <1>1, <1>4, EndMInv DEF Fails
<1> QED BY <1>3, <1>4 DEF OpenOutput

LEMMA OpenRunMInv == IInv /\ DInv /\ MInv /\ OpenRun => MInv'
<1> SUFFICES ASSUME IInv, DInv, MInv, OpenRun PROVE MInv'
  OBVIOUS
<1>1. /\ pc = "open" /\ Alive /\ opened < Len(files)
      /\ UNCHANGED <<unique, given, files, target, written, Run>>
  BY DEF OpenRun, Alive, Run, input_vars
<1>2. DataOK /\ InputsOK
  BY DEF DInv, IInv
<1>3. CASE opened' = opened + 1 /\ ReadHead(opened')
  <2> DEFINE o == opened + 1
  <2>1. o \in Run /\ ~(o <= opened) /\ ReadHead(o)
    BY <1>1, <1>2, <1>3, RunIs DEF InputsOK
  <2> HIDE DEF o
  <2>2. ReadTo(o)
    BY <1>1, <2>1 DEF DInv, InputsRead
  <2>3. head[o] = <<>> /\ cursor[o] = 0
    BY <1>1, <2>1, <2>2 DEF ReadTo, Merging
  <2>4. /\ \A q \in Run \ {o} : head'[q] = head[q] /\ cursor'[q] = cursor[q]
        /\ head'[o] # <<>> => cursor'[o] = cursor[o] + 1
        /\ head'[o] = <<>> => cursor'[o] = cursor[o]
    BY <1>1, <1>2, <2>1, <2>2, ReadHeadData
  <2>5. ASSUME NEW r \in Run
        PROVE  (IF head'[r] = <<>> THEN cursor'[r] + 1 ELSE cursor'[r]) =
               (IF head[r] = <<>> THEN cursor[r] + 1 ELSE cursor[r])
    BY <2>3, <2>4
  <2>6. Onward' = Onward
    BY <1>1, <2>5 DEF Onward
  <2> QED BY <1>1, <2>6, StayMInv
<1>4. CASE Fails
  BY <1>1, <1>4, EndMInv DEF Fails
<1> QED BY <1>3, <1>4 DEF OpenRun

LEMMA HeapMInv == MInv /\ (BuildHeap \/ Heapify \/ SiftDown) => MInv'
<1> SUFFICES ASSUME MInv, BuildHeap \/ Heapify \/ SiftDown PROVE MInv'
  OBVIOUS
<1>1. Alive /\ UNCHANGED <<unique, given, files, target, cursor, head, written, Run>>
  BY DEF BuildHeap, Heapify, SiftDown, Alive, Run, input_vars
<1>2. Onward' = Onward
  BY <1>1 DEF Onward
<1> QED BY <1>1, <1>2, StayMInv

\* The record at the root goes before all that are left.
LEMMA EmitMInv == ASSUME SortedInputs PROVE IInv /\ DInv /\ MInv /\ Emit => MInv'
<1> SUFFICES ASSUME IInv, DInv, MInv, Emit PROVE MInv'
  OBVIOUS
<1>1. /\ pc = "emit" /\ heap # <<>> /\ Alive /\ Merging
      /\ UNCHANGED <<unique, given, files, target, Run>>
  BY DEF Emit, Alive, Merging, Run, input_vars
<1>2. DataOK /\ InputsOK /\ HeapHoldsHeads /\ \A r \in Run : ReadTo(r)
  BY <1>1 DEF DInv, IInv, InputsRead
<1> DEFINE run == heap[1]
           rec == head[run][1]
<1>3. CASE /\ written' = IF Repeated(rec) THEN written ELSE Append(written, rec)
           /\ ReadHead(run)
  <2>1. /\ Run = 1 .. Len(files) /\ files \in Seq(Seq(Record)) /\ given \in Inputs
        /\ unique \in BOOLEAN /\ written \in Seq(Record)
    BY <1>2, RunIs DEF DataOK
  <2>2. files = Numbered(given) /\ MergedSoFar(files, Order, unique, Onward, written)
    BY <1>1 DEF MInv
  <2>3. /\ RunsInPosOrder(files)
        /\ \A r \in 1 .. Len(files) : InSortOrder(files[r], Order)
    BY <2>1, <2>2, FilesSorted
  <2>4. /\ \A n \in 1 .. Len(heap) : heap[n] \in Run /\ head[heap[n]] # <<>>
        /\ \A r \in Run : head[r] # <<>> => \E n \in 1 .. Len(heap) : heap[n] = r
        /\ Len(heap) \in Nat
    BY <1>1, <1>2, HeapMembers
  <2>5. 1 \in 1 .. Len(heap)
    <3>1. heap \in Seq(Run)
      BY <1>2 DEF InputsOK
    <3> QED BY <1>1, <3>1
  <2>6. run \in Run /\ head[run] # <<>>
    BY <2>4, <2>5
  <2>7. \A n \in 2 .. Len(heap) : Precedes(head, run, heap[n])
    BY <1>1, <1>2, RootFirst DEF IInv, HeapOrder
  <2> HIDE DEF run
  <2>8. ASSUME NEW q \in Run, q # run, head[q] # <<>> PROVE Precedes(head, run, q)
    <3>1. PICK n \in 1 .. Len(heap) : heap[n] = q
      BY <2>4, <2>8
    <3>2. n # 1
      BY <2>8, <3>1 DEF run
    <3>3. n \in 2 .. Len(heap)
      BY <2>4, <3>1, <3>2
    <3> QED BY <2>7, <3>1, <3>3
  <2>9. /\ Onward \in [1 .. Len(files) -> Nat \ {0}]
        /\ \A r \in Run :
             /\ head[r] # <<>> => /\ Onward[r] = cursor[r] /\ Onward[r] \in 1 .. Len(files[r])
                                  /\ head[r][1] = files[r][Onward[r]]
             /\ head[r] = <<>> => Onward[r] > Len(files[r])
    BY <1>1, <1>2, OnwardIs
  <2>10. run \in 1 .. Len(files) /\ Onward[run] \in 1 .. Len(files[run])
         /\ rec = files[run][Onward[run]] /\ Onward[run] = cursor[run]
    BY <2>1, <2>6, <2>9
  <2>11. ASSUME NEW q \in 1 .. Len(files), q # run, Onward[q] \in 1 .. Len(files[q])
         PROVE  \/ Order[files[run][Onward[run]].key] < Order[files[q][Onward[q]].key]
                \/ /\ Order[files[run][Onward[run]].key] = Order[files[q][Onward[q]].key]
                   /\ run < q
    <3>1. head[q] # <<>>
      <4>1. files[q] \in Seq(Record)
        BY <2>1
      <4>2. ~(Onward[q] > Len(files[q]))
        BY <2>11, <4>1
      <4> QED BY <2>1, <2>9, <4>2
    <3>2. Precedes(head, run, q) /\ head[q][1] = files[q][Onward[q]]
      BY <2>1, <2>8, <2>9, <2>11, <3>1
    <3> QED BY <2>10, <3>2 DEF Precedes
  <2>12. ComesNext(files, Order, Onward, run)
    BY <2>1, <2>3, <2>9, <2>10, <2>11, RecordsRank, LeastHead
  <2>13. /\ \A q \in Run \ {run} : head'[q] = head[q] /\ cursor'[q] = cursor[q]
         /\ head'[run] # <<>> => cursor'[run] = cursor[run] + 1
         /\ head'[run] = <<>> => cursor'[run] = cursor[run]
    BY <1>1, <1>2, <1>3, <2>6, ReadHeadData
  <2>14. \A r \in Run : Onward'[r] = IF head'[r] = <<>> THEN cursor'[r] + 1 ELSE cursor'[r]
    BY <1>1 DEF Onward
  <2>15. \A r \in Run : Onward[r] = IF head[r] = <<>> THEN cursor[r] + 1 ELSE cursor[r]
    BY DEF Onward
  <2> DEFINE from  == Onward
             later == Onward'
  <2>16. Onward'[run] = Onward[run] + 1
    BY <2>6, <2>10, <2>13, <2>14
  <2>17. Passes(files, from, run, later)
    BY <2>1, <2>13, <2>14, <2>15, <2>16 DEF Passes
  <2>18. /\ from \in [1 .. Len(files) -> Nat \ {0}] /\ from[run] \in 1 .. Len(files[run])
         /\ run \in 1 .. Len(files) /\ ComesNext(files, Order, from, run)
         /\ MergedSoFar(files, Order, unique, from, written)
    BY <2>2, <2>9, <2>10, <2>12
  <2>19. written' = Written(Order, unique, written, files[run][from[run]])
    BY <1>3, <2>10 DEF Repeated, Written
  <2> HIDE DEF from, later
  <2>20. MergedSoFar(files, Order, unique, later, Written(Order, unique, written, files[run][from[run]]))
    BY <2>1, <2>17, <2>18, RecordsRank, MergeTakes, Zenon
  <2> QED BY <1>1, <2>2, <2>19, <2>20 DEF MInv, later, MergedSoFar
<1>4. CASE Fails
  BY <1>1, <1>4, EndMInv DEF Fails
<1> QED BY <1>3, <1>4 DEF Emit

LEMMA NextMInv ==
  ASSUME SortedInputs PROVE IInv /\ DInv /\ MInv /\ [Next]_vars => MInv'
<1> SUFFICES ASSUME IInv, DInv, MInv, [Next]_vars PROVE MInv'
  OBVIOUS
<1>1. CASE UNCHANGED vars
  BY <1>1 DEF vars, MInv, MergedSoFar, Onward, Alive, Run
<1>2. CASE Close
  <2>1. pc' = "ended" /\ UNCHANGED target
    BY <1>2 DEF Close, Fails, input_vars
  <2> QED BY <2>1, EndMInv
<1> QED BY <1>1, <1>2, OpenOutputMInv, OpenRunMInv, HeapMInv, EmitMInv DEF Next

-----------------------------------------------------------------------------
(***************************************************************************)
(* The contract                                                            *)
(***************************************************************************)

LEMMA ContractSorts ==
  ASSUME NEW s, NEW ord
  PROVE  Contract!Sorted(s, ord) = SortedBy(s, ord, unique)
<1>1. \A ahead : Contract!InTurn(ahead) = InTurn(ahead)
  BY Zenon DEF Contract!InTurn, InTurn, Contract!Cardinality, Cardinality
<1>2. \A r, o : Contract!StableSort(r, o) = StableSort(r, o)
  BY <1>1, ZenonT(60) DEF Contract!StableSort, StableSort
<1>3. \A r, o : Contract!FirstOfEquals(r, o) = FirstOfEquals(r, o)
  BY <1>1, ZenonT(60) DEF Contract!FirstOfEquals, FirstOfEquals
<1> QED BY <1>2, <1>3, Zenon DEF Contract!Sorted, SortedBy

\* When the heap is empty all records are passed.
LEMMA WrittenSorted ==
  ASSUME SortedInputs, IInv, DInv, MInv, pc = "emit", heap = <<>>
  PROVE  written = Contract!Sorted(AllRecords, Order)
<1>1. Alive /\ Merging
  BY DEF Alive, Merging
<1>2. DataOK /\ InputsOK /\ HeapHoldsHeads /\ \A r \in Run : ReadTo(r)
  BY <1>1 DEF DInv, IInv, InputsRead
<1>3. /\ Run = 1 .. Len(files) /\ files \in Seq(Seq(Record)) /\ given \in Inputs
      /\ unique \in BOOLEAN /\ written \in Seq(Record)
  BY <1>2, RunIs DEF DataOK
<1>4. files = Numbered(given) /\ MergedSoFar(files, Order, unique, Onward, written)
  BY <1>1 DEF MInv
<1>5. RunsInPosOrder(files) /\ \A r \in 1 .. Len(files) : InPosOrder(files[r])
  BY <1>3, <1>4, FilesSorted
<1>6. Len(heap) = 0
  OBVIOUS
<1>7. \A r \in Run : head[r] = <<>>
  BY <1>1, <1>2, <1>6, HeapMembers
<1>8. Onward \in [1 .. Len(files) -> Nat \ {0}] /\ \A r \in Run : Onward[r] > Len(files[r])
  BY <1>1, <1>2, <1>7, OnwardIs
<1>9. Onward \in [1 .. Len(files) -> Nat] /\ \A r \in 1 .. Len(files) : Onward[r] > Len(files[r])
  BY <1>3, <1>8
<1>10. written = SortedBy(FlattenSeq(files), Order, unique)
  BY <1>3, <1>4, <1>5, <1>9, RecordsRank, MergeEnds
<1> QED BY <1>4, <1>10, ContractSorts DEF AllRecords

LEMMA StepImplements ==
  ASSUME SortedInputs, IInv, DInv, MInv, [Next]_vars
  PROVE  [Contract!Next]_(Contract!vars)
<1>1. CASE UNCHANGED vars
  BY <1>1 DEF vars, Contract!vars, AllRecords
<1>2. CASE Next
  <2>1. UNCHANGED <<unique, given, AllRecords>>
    BY <1>2 DEF Next, OpenOutput, OpenRun, BuildHeap, Heapify, SiftDown, Emit, Close, Fails,
                input_vars, AllRecords
  <2>2. output = Contract!NotYet
    <3>1. Alive
      BY <1>2 DEF Next, OpenOutput, OpenRun, BuildHeap, Heapify, SiftDown, Emit, Close, Alive
    <3> QED BY <3>1 DEF DInv, InputsRead
  <2>3. \/ output' = output \/ output' = Contract!Failed
        \/ Close /\ output' = Contract!Delivered(written)
    BY <1>2 DEF Next, OpenOutput, OpenRun, BuildHeap, Heapify, SiftDown, Emit, Close, Fails
  <2>4. CASE output' = output
    BY <2>1, <2>4 DEF Contract!vars
  <2>5. CASE output' = Contract!Failed
    BY <2>1, <2>2, <2>5 DEF Contract!Next, Contract!Fail
  <2>6. CASE Close /\ output' = Contract!Delivered(written)
    <3>1. written = Contract!Sorted(AllRecords, Order)
      BY <2>6, WrittenSorted DEF Close
    <3> QED BY <2>1, <2>2, <2>6, <3>1 DEF Contract!Next, Contract!Deliver
  <2> QED BY <2>3, <2>4, <2>5, <2>6
<1> QED BY <1>1, <1>2

\* The merge of sorted files, none of which is the output, delivers what a
\* stable sort of their concatenation delivers, with -u the first of each
\* group of equals, or it fails: whatever the files, however many, and
\* wherever a call fails (merge_stream_bytes).
THEOREM ImplementsContract ==
  ASSUME Targets = {0}, SortedInputs
  PROVE  Spec => Contract!Spec
<1>1. Init => MInv
  BY InitMInv
<1>2. IInv /\ DInv /\ MInv /\ [Next]_vars => MInv'
  BY NextMInv
<1>3. Init => Contract!Init
  BY DEF Init, Contract!Init
<1>4. IInv /\ DInv /\ MInv /\ [Next]_vars => [Contract!Next]_(Contract!vars)
  BY StepImplements
<1> QED BY <1>1, <1>2, <1>3, <1>4, Inductive, PTL DEF Spec, Contract!Spec

=============================================================================
