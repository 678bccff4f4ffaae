-------------------------- MODULE KeyedMergeProofs --------------------------
(***************************************************************************)
(* Proofs about KeyedMerge for any number of operands of any length and    *)
(* for all options: the comparison of cached keys is the comparison of     *)
(* lines, the heap holds the runs that have a line, the line that leaves   *)
(* it next is the least, and no piece of a line is written without the     *)
(* other.  So what has left the heap is a merge of the operands as far as  *)
(* their runs have come, and what is delivered is what SortContract says.  *)
(***************************************************************************)
EXTENDS KeyedMerge, SortOrderProofs

-----------------------------------------------------------------------------
(***************************************************************************)
(* Sequences                                                               *)
(***************************************************************************)

LEMMA Single == ASSUME NEW S, NEW t \in S PROVE <<t>> \in Seq(S)
  OBVIOUS

LEMMA Halves ==
  ASSUME NEW n \in Nat
  PROVE  /\ n \div 2 \in Nat
         /\ n = 2 * (n \div 2) \/ n = 2 * (n \div 2) + 1
  OBVIOUS

\* Listed gives the numbers of a set once each.
LEMMA ListedEvery ==
  ASSUME NEW S \in SUBSET Nat, IsFiniteSet(S), NEW h \in Listed(S)
  PROVE  LET k == Cardinality(S)
         IN  /\ k \in Nat /\ h \in [1 .. k -> S]
             /\ \A i, j \in 1 .. k : (i < j => h[i] < h[j]) /\ (h[i] = h[j] => i = j)
             /\ \A x \in S : \E i \in 1 .. k : h[i] = x
<1> DEFINE k == Cardinality(S)
<1>1. k \in Nat
  BY FS_CardinalityType
<1> HIDE DEF k
<1>2. h \in [1 .. k -> S] /\ \A i, j \in DOMAIN h : i < j => h[i] < h[j]
  BY DEF Listed, k
<1>3. \A i \in 1 .. k : h[i] \in S /\ h[i] \in Nat
  BY <1>2
<1>4. ASSUME NEW i \in 1 .. k, NEW j \in 1 .. k, h[i] = h[j] PROVE i = j
  <2>1. ~ i < j /\ ~ j < i
    BY <1>2, <1>3, <1>4
  <2> QED BY <1>1, <2>1
<1>5. h \in Injection(1 .. k, S)
  <2>1. DOMAIN h = 1 .. k
    BY <1>2
  <2>2. IsInjective(h)
    BY <1>4, <2>1 DEF IsInjective
  <2> QED BY <1>2, <2>2 DEF Injection
<1>6. Cardinality(1 .. k) = Cardinality(S) /\ IsFiniteSet(1 .. k)
  <2>1. Cardinality(1 .. k) = (IF 1 > k THEN 0 ELSE k - 1 + 1) /\ IsFiniteSet(1 .. k)
    BY <1>1, FS_Interval
  <2>2. Cardinality(1 .. k) = k
    BY <1>1, <2>1
  <2> QED BY <2>1, <2>2 DEF k
<1>7. h \in Surjection(1 .. k, S)
  BY <1>5, <1>6, FS_Injection
<1>8. \A x \in S : \E i \in 1 .. k : h[i] = x
  BY <1>7 DEF Surjection
<1> QED BY <1>1, <1>2, <1>4, <1>8 DEF k

LEMMA ListedOnce ==
  ASSUME NEW n \in Nat, NEW S \in SUBSET (1 .. n), NEW h \in Listed(S)
  PROVE  /\ Len(h) \in Nat /\ h \in Seq(1 .. n)
         /\ \A i \in 1 .. Len(h) : h[i] \in S
         /\ \A i, j \in 1 .. Len(h) : h[i] = h[j] => i = j
         /\ \A x \in S : \E i \in 1 .. Len(h) : h[i] = x
<1> DEFINE k == Cardinality(S)
<1>1. S \in SUBSET Nat /\ IsFiniteSet(S)
  <2>1. IsFiniteSet(1 .. n)
    BY FS_Interval
  <2>2. IsFiniteSet(S)
    BY <2>1, FS_Subset
  <2> QED BY <2>2
<1>2. /\ k \in Nat /\ h \in [1 .. k -> S]
      /\ \A i, j \in 1 .. k : (i < j => h[i] < h[j]) /\ (h[i] = h[j] => i = j)
      /\ \A x \in S : \E i \in 1 .. k : h[i] = x
  BY <1>1, ListedEvery
<1> HIDE DEF k
<1>3. h \in Seq(1 .. n) /\ Len(h) = k
  <2>1. h \in [1 .. k -> 1 .. n]
    BY <1>2
  <2> QED BY <1>2, <2>1, SeqOfFunction
<1> QED BY <1>2, <1>3

-----------------------------------------------------------------------------
(***************************************************************************)
(* The order of texts                                                      *)
(***************************************************************************)

\* What the options make of two texts, as a value.
Comparison == [p \in Texts \X Texts |-> CompareLines(p[1], p[2])]

IsOrder(cmp) ==
  \A x, y, z \in Texts :
    /\ cmp[<<x, y>>] \in Int
    /\ cmp[<<y, x>>] = -cmp[<<x, y>>]
    /\ cmp[<<x, y>>] <= 0 /\ cmp[<<y, z>>] <= 0 => cmp[<<x, z>>] <= 0

LEMMA DirectedSign ==
  ASSUME NEW a \in Nat, NEW b \in Nat, NEW r \in BOOLEAN
  PROVE  Directed(Sign(a, b), r) =
           IF a = b THEN 0 ELSE IF a < b THEN (IF r THEN 1 ELSE -1) ELSE (IF r THEN -1 ELSE 1)
<1>1. Sign(a, b) = IF a < b THEN -1 ELSE IF a > b THEN 1 ELSE 0
  BY DEF Sign
<1>2. CASE r
  BY <1>1, <1>2 DEF Directed
<1>3. CASE ~r
  BY <1>1, <1>3 DEF Directed
<1> QED BY <1>2, <1>3

\* A comparison of keys one way, and of what breaks ties one way.
Either(kx, ky, x, y, d, e, resort) ==
  IF kx # ky THEN IF (kx < ky) <=> d THEN 1 ELSE -1
  ELSE IF ~resort \/ x = y THEN 0 ELSE IF (x < y) <=> e THEN 1 ELSE -1

LEMMA ComparisonIsOrder ==
  ASSUME options \in OptionsType
  PROVE  IsOrder(Comparison)
<1> DEFINE k == IF LooksElsewhere THEN Prepared ELSE Plain
           d == IF options.keys = 0 THEN options.reverse ELSE options.key_reverse
           e == options.reverse
           resort == LastResort
<1>1. k \in [Texts -> Nat] /\ d \in BOOLEAN /\ e \in BOOLEAN /\ resort \in BOOLEAN
  BY ConstantsAssumption DEF OptionsType, LastResort
<1>2. ASSUME NEW x \in Texts, NEW y \in Texts
      PROVE  /\ Comparison[<<x, y>>] = Either(k[x], k[y], x, y, d, e, resort)
             /\ x \in Nat /\ y \in Nat /\ k[x] \in Nat /\ k[y] \in Nat
  <2>1. Comparison[<<x, y>>] = CompareLines(x, y)
    BY DEF Comparison
  <2>2. CompareKeys(x, y) = Sign(k[x], k[y])
    BY DEF CompareKeys
  <2>3. k[x] \in Nat /\ k[y] \in Nat /\ x \in Nat /\ y \in Nat
    BY <1>1, ConstantsAssumption
  <2>4. CompareLines(x, y) =
          IF CompareKeys(x, y) # 0 THEN Directed(CompareKeys(x, y), d)
          ELSE IF resort THEN Directed(Sign(x, y), e) ELSE Directed(CompareKeys(x, y), e)
    BY DEF CompareLines
  <2> HIDE DEF k, d, e, resort
  <2>5. CompareKeys(x, y) = 0 <=> k[x] = k[y]
    BY <2>2, <2>3 DEF Sign
  <2>6. CASE k[x] # k[y]
    <3>1. Comparison[<<x, y>>] = Directed(Sign(k[x], k[y]), d)
      BY <2>1, <2>2, <2>4, <2>5, <2>6
    <3> QED BY <1>1, <2>3, <2>6, <3>1, DirectedSign DEF Either
  <2>7. CASE k[x] = k[y] /\ resort
    <3>1. Comparison[<<x, y>>] = Directed(Sign(x, y), e)
      BY <2>1, <2>4, <2>5, <2>7
    <3> QED BY <1>1, <2>3, <2>7, <3>1, DirectedSign DEF Either
  <2>8. CASE k[x] = k[y] /\ ~resort
    <3>1. Comparison[<<x, y>>] = Directed(Sign(k[x], k[y]), e)
      BY <2>1, <2>2, <2>4, <2>5, <2>8
    <3> QED BY <1>1, <2>3, <2>8, <3>1, DirectedSign DEF Either
  <2> QED BY <2>3, <2>6, <2>7, <2>8
<1> HIDE DEF k, d, e, resort
<1>3. ASSUME NEW x \in Texts, NEW y \in Texts, NEW z \in Texts
      PROVE  /\ Comparison[<<x, y>>] \in Int
             /\ Comparison[<<y, x>>] = -Comparison[<<x, y>>]
             /\ Comparison[<<x, y>>] <= 0 /\ Comparison[<<y, z>>] <= 0 => Comparison[<<x, z>>] <= 0
  <2>1. /\ Comparison[<<x, y>>] = Either(k[x], k[y], x, y, d, e, resort)
        /\ Comparison[<<y, x>>] = Either(k[y], k[x], y, x, d, e, resort)
        /\ Comparison[<<y, z>>] = Either(k[y], k[z], y, z, d, e, resort)
        /\ Comparison[<<x, z>>] = Either(k[x], k[z], x, z, d, e, resort)
    BY <1>2
  <2>2. /\ x \in Nat /\ y \in Nat /\ z \in Nat
        /\ k[x] \in Nat /\ k[y] \in Nat /\ k[z] \in Nat
    BY <1>2
  <2> DEFINE a == k[x]
             b == k[y]
             c == k[z]
  <2> HIDE DEF a, b, c
  <2>3. a \in Nat /\ b \in Nat /\ c \in Nat
    BY <2>2 DEF a, b, c
  <2>4. /\ Either(a, b, x, y, d, e, resort) \in Int
        /\ Either(b, a, y, x, d, e, resort) = -Either(a, b, x, y, d, e, resort)
        /\ /\ Either(a, b, x, y, d, e, resort) <= 0
           /\ Either(b, c, y, z, d, e, resort) <= 0
           => Either(a, c, x, z, d, e, resort) <= 0
    <3> HIDE DEF k
    <3>1. Either(a, b, x, y, d, e, resort) \in Int
      BY <2>2, <2>3 DEF Either
    <3>2. Either(b, a, y, x, d, e, resort) = -Either(a, b, x, y, d, e, resort)
      BY <2>2, <2>3, <1>1 DEF Either
    <3>3. ASSUME Either(a, b, x, y, d, e, resort) <= 0, Either(b, c, y, z, d, e, resort) <= 0
          PROVE  Either(a, c, x, z, d, e, resort) <= 0
      <4>1. CASE d /\ e
        BY <2>2, <2>3, <3>3, <4>1 DEF Either
      <4>2. CASE d /\ ~e
        BY <2>2, <2>3, <3>3, <4>2 DEF Either
      <4>3. CASE ~d /\ e
        BY <2>2, <2>3, <3>3, <4>3 DEF Either
      <4>4. CASE ~d /\ ~e
        BY <2>2, <2>3, <3>3, <4>4 DEF Either
      <4> QED BY <4>1, <4>2, <4>3, <4>4, <1>1
    <3> QED BY <3>1, <3>2, <3>3
  <2> QED BY <2>1, <2>4 DEF a, b, c
<1> QED BY <1>3 DEF IsOrder

\* merge_fast_run_less finds by cached keys what merge_run_less would find by
\* the comparator of lines.
LEMMA CachedComparison ==
  ASSUME DirectMode, options \in OptionsType, NEW a, NEW b,
         caches[a] = <<Head_of(a)>>, caches[b] = <<Head_of(b)>>
  PROVE  DirectLess(a, b) = LineLess(a, b)
<1>1. ~LooksElsewhere
  BY DEF DirectMode, LooksElsewhere, OptionsType
<1>2. CompareKeys(Head_of(a), Head_of(b)) = Sign(Plain[Head_of(a)], Plain[Head_of(b)])
  BY <1>1 DEF CompareKeys
<1>3. options.keys = 0 \/ options.keys = 1
  BY DEF DirectMode
<1>4. caches[a][1] = Head_of(a) /\ caches[b][1] = Head_of(b)
  OBVIOUS
<1> QED BY <1>2, <1>3, <1>4 DEF DirectLess, LineLess, CompareCaches, CompareLines

LEMMA SameComparison == options' = options => Comparison' = Comparison /\ DirectMode' = DirectMode
<1> SUFFICES ASSUME options' = options PROVE Comparison' = Comparison /\ DirectMode' = DirectMode
  OBVIOUS
<1>1. DirectMode' = DirectMode
  BY DEF DirectMode
<1>2. LooksElsewhere' = LooksElsewhere /\ LastResort' = LastResort
  BY DEF LooksElsewhere, LastResort
<1>3. \A x, y \in Texts : CompareLines(x, y)' = CompareLines(x, y)
  BY <1>2 DEF CompareLines, CompareKeys
<1> QED BY <1>1, <1>3 DEF Comparison

-----------------------------------------------------------------------------
(***************************************************************************)
(* The inductive invariant                                                 *)
(***************************************************************************)

Piece == [rec : Record, part : {"line", "text", "delim"}]
Delivery == [state : {"running", "failed", "delivered"}, recs : Seq(Record)]

Types ==
  /\ pc \in {"read", "direct", "prepare", "build", "heapify", "sift", "emit", "flush",
             "write", "ended"}
  /\ options \in OptionsType /\ given \in Seq(Seq(Texts))
  /\ files \in Seq(Seq(Record)) /\ Len(files) = Len(given)
  /\ open_end \subseteq Run /\ target \in Nat
  /\ operand \in 0 .. Len(given)
  /\ lines \in Seq(Record)
  /\ runs \in [Run -> [begin : Nat, end : Nat, pos : Nat]]
  /\ heap \in Seq(Run) /\ node \in Nat /\ building \in Nat
  /\ caches \in [Run -> Seq(Texts)] /\ last \in Seq(Texts)
  /\ iov \in Seq(Piece) /\ merged \in Seq(Record) /\ written \in Seq(Piece)
  /\ ok \in BOOLEAN /\ output \in Delivery

HasLine(r) == runs[r].pos < runs[r].end

\* The runs are in the lines as they were read.
RunsAreThere ==
  pc \in {"read", "direct", "prepare", "build", "heapify", "sift", "emit", "flush"} =>
    \A r \in Run : runs[r].end <= Len(lines) + 1 /\ (HasLine(r) => runs[r].pos > 0)

ModeIsKept ==
  /\ pc \in {"direct", "flush"} => DirectMode
  /\ pc = "prepare" => ~DirectMode

\* Every run that has a line has its cached key.
CachesFilled ==
  (pc = "build" \/ Merging) /\ DirectMode =>
    \A r \in Run : HasLine(r) => caches[r] = <<Head_of(r)>>

\* The heads of all runs.
Heads == [r \in Run |-> Head_of(r)]

\* What Less says of runs whose heads are hd.
Precedes(cmp, hd, a, b) ==
  \/ cmp[<<hd[a], hd[b]>>] < 0
  \/ cmp[<<hd[a], hd[b]>>] = 0 /\ a < b

\* The children of a node of the heap h.
Child(h, p, n) == n \in 1 .. Len(h) /\ (n = 2 * p \/ n = 2 * p + 1)

\* The nodes behind the first ones are in order with their children, but for
\* one; its parent is in order with its children, so that it may change
\* places with one of them.
Ordered(cmp, h, hd, upto, but) ==
  \A p, n \in 1 .. Len(h) :
    Child(h, p, n) /\ p > upto =>
      /\ p # but => Precedes(cmp, hd, h[p], h[n])
      /\ p = but => \A g \in 1 .. Len(h) :
                      Child(h, g, p) /\ g > upto => Precedes(cmp, hd, h[g], h[n])

HeapOrder ==
  /\ pc = "heapify" => /\ building \in 1 .. Len(heap)
                       /\ Ordered(Comparison, heap, Heads, building, 0)
  /\ pc = "sift" => /\ node \in 1 .. Len(heap) /\ building < node
                    /\ Ordered(Comparison, heap, Heads, building, node)
  /\ pc \in {"emit", "flush"} => building = 0 /\ Ordered(Comparison, heap, Heads, 0, 0)

IInv ==
  /\ Types /\ RunsAreThere /\ ModeIsKept /\ CachesFilled
  /\ HeapHoldsRuns /\ HeapOrder /\ VectorFits

-----------------------------------------------------------------------------
(***************************************************************************)
(* The heap                                                                *)
(***************************************************************************)

\* The text at the head of a run that has a line.
LEMMA HeadIsThere ==
  ASSUME Types, RunsAreThere, pc \notin {"write", "ended"}, NEW r \in Run, HasLine(r)
  PROVE  /\ runs[r].pos \in 1 .. Len(lines) /\ lines[runs[r].pos] \in Record
         /\ Head_of(r) \in Texts /\ Heads[r] = Head_of(r)
<1>1. runs[r].pos \in Nat /\ runs[r].end \in Nat /\ lines \in Seq(Record) /\ Len(lines) \in Nat
  BY DEF Types
<1>2. runs[r].end <= Len(lines) + 1 /\ runs[r].pos > 0 /\ runs[r].pos < runs[r].end
  BY DEF RunsAreThere, HasLine, Types
<1>3. runs[r].pos \in 1 .. Len(lines)
  BY <1>1, <1>2
<1>4. lines[runs[r].pos] \in Record
  BY <1>1, <1>3
<1> QED BY <1>3, <1>4 DEF Head_of, Heads, Record

LEMMA HeapMembers ==
  ASSUME Types, HeapHoldsRuns, Merging
  PROVE  /\ Len(heap) \in Nat /\ DOMAIN heap = 1 .. Len(heap)
         /\ \A n \in 1 .. Len(heap) : heap[n] \in Run /\ HasLine(heap[n])
         /\ \A m, n \in 1 .. Len(heap) : heap[m] = heap[n] => m = n
         /\ \A r \in Run : HasLine(r) => \E n \in 1 .. Len(heap) : heap[n] = r
<1>1. Len(heap) \in Nat /\ DOMAIN heap = 1 .. Len(heap)
  BY DEF Types
<1>2. \A n \in 1 .. Len(heap) : heap[n] \in ToSet(heap)
  BY <1>1 DEF ToSet
<1>3. ToSet(heap) = {r \in Run : HasLine(r)} /\ IsInjective(heap)
  BY DEF HeapHoldsRuns, Merging, HasLine
<1>4. \A r \in ToSet(heap) : \E n \in 1 .. Len(heap) : heap[n] = r
  BY <1>1 DEF ToSet
<1>5. \A m, n \in 1 .. Len(heap) : heap[m] = heap[n] => m = n
  BY <1>1, <1>3 DEF IsInjective
<1> QED BY <1>1, <1>2, <1>3, <1>4, <1>5

\* A list without repetitions of some runs is an injection onto them.
LEMMA IsHeap ==
  ASSUME NEW h \in Seq(Run), NEW S \in SUBSET Run,
         \A m, n \in 1 .. Len(h) : h[m] = h[n] => m = n,
         \A n \in 1 .. Len(h) : h[n] \in S,
         \A r \in S : \E n \in 1 .. Len(h) : h[n] = r
  PROVE  IsInjective(h) /\ ToSet(h) = S
<1>1. DOMAIN h = 1 .. Len(h) /\ \A n \in 1 .. Len(h) : h[n] \in Run
  OBVIOUS
<1>2. IsInjective(h)
  BY <1>1 DEF IsInjective
<1>3. ToSet(h) = {h[n] : n \in 1 .. Len(h)}
  BY <1>1 DEF ToSet
<1> QED BY <1>1, <1>2, <1>3

\* Runs that have a line are ordered by it.
LEMMA HeadsAreOrdered ==
  ASSUME NEW cmp, IsOrder(cmp), NEW hd,
         NEW a \in Nat, NEW b \in Nat, NEW c \in Nat,
         hd[a] \in Texts, hd[b] \in Texts, hd[c] \in Texts
  PROVE  /\ a # b => Precedes(cmp, hd, a, b) \/ Precedes(cmp, hd, b, a)
         /\ Precedes(cmp, hd, a, b) => ~Precedes(cmp, hd, b, a)
         /\ Precedes(cmp, hd, a, b) /\ Precedes(cmp, hd, b, c) => Precedes(cmp, hd, a, c)
<1> DEFINE x == hd[a]
           y == hd[b]
           z == hd[c]
<1> HIDE DEF x, y, z
<1>1. x \in Texts /\ y \in Texts /\ z \in Texts
  BY DEF x, y, z
<1>2. /\ cmp[<<x, y>>] \in Int /\ cmp[<<y, x>>] = -cmp[<<x, y>>]
      /\ cmp[<<y, z>>] \in Int /\ cmp[<<z, y>>] = -cmp[<<y, z>>]
      /\ cmp[<<x, z>>] \in Int /\ cmp[<<z, x>>] = -cmp[<<x, z>>]
  BY <1>1 DEF IsOrder
<1>3. /\ cmp[<<x, y>>] <= 0 /\ cmp[<<y, z>>] <= 0 => cmp[<<x, z>>] <= 0
      /\ cmp[<<z, x>>] <= 0 /\ cmp[<<x, y>>] <= 0 => cmp[<<z, y>>] <= 0
      /\ cmp[<<y, z>>] <= 0 /\ cmp[<<z, x>>] <= 0 => cmp[<<y, x>>] <= 0
  BY <1>1 DEF IsOrder
<1>4. /\ a # b => Precedes(cmp, hd, a, b) \/ Precedes(cmp, hd, b, a)
      /\ Precedes(cmp, hd, a, b) => ~Precedes(cmp, hd, b, a)
  BY <1>2 DEF Precedes, x, y
<1>5. /\ Precedes(cmp, hd, a, b) <=> (cmp[<<x, y>>] < 0 \/ (cmp[<<x, y>>] = 0 /\ a < b))
      /\ Precedes(cmp, hd, b, c) <=> (cmp[<<y, z>>] < 0 \/ (cmp[<<y, z>>] = 0 /\ b < c))
      /\ Precedes(cmp, hd, a, c) <=> (cmp[<<x, z>>] < 0 \/ (cmp[<<x, z>>] = 0 /\ a < c))
  BY DEF Precedes, x, y, z
<1>6. Precedes(cmp, hd, a, b) /\ Precedes(cmp, hd, b, c) => Precedes(cmp, hd, a, c)
  BY <1>2, <1>3, <1>5
<1> QED BY <1>4, <1>6

\* Less is what the comparison of lines says, whether keys are cached or not.
LEMMA LessIsPrecedes ==
  ASSUME Types, RunsAreThere, CachesFilled, Merging,
         NEW a \in Run, NEW b \in Run, HasLine(a), HasLine(b)
  PROVE  Less(a, b) <=> Precedes(Comparison, Heads, a, b)
<1>1. pc \notin {"write", "ended"}
  BY DEF Merging
<1>2. /\ Head_of(a) \in Texts /\ Head_of(b) \in Texts
      /\ Heads[a] = Head_of(a) /\ Heads[b] = Head_of(b)
  BY <1>1, HeadIsThere
<1>3. Comparison[<<Heads[a], Heads[b]>>] = CompareLines(Head_of(a), Head_of(b))
  BY <1>2 DEF Comparison
<1>4. LineLess(a, b) <=> Precedes(Comparison, Heads, a, b)
  BY <1>3 DEF LineLess, Precedes
<1>5. Less(a, b) = LineLess(a, b)
  <2>1. CASE DirectMode
    <3>1. caches[a] = <<Head_of(a)>> /\ caches[b] = <<Head_of(b)>>
      BY <2>1 DEF CachesFilled
    <3>2. DirectLess(a, b) = LineLess(a, b)
      BY <2>1, <3>1, CachedComparison DEF Types
    <3> QED BY <2>1, <3>2 DEF Less
  <2>2. CASE ~DirectMode
    BY <2>2 DEF Less
  <2> QED BY <2>1, <2>2
<1> QED BY <1>4, <1>5

LEMMA RunIsNumber ==
  ASSUME Types
  PROVE  Run = 1 .. Len(given) /\ Len(given) \in Nat /\ \A r \in Run : r \in Nat
BY DEF Types, Run

\* In a heap that is in order no head is less than that at the root: a
\* smallest node that contradicts it has a parent that does not.
LEMMA RootFirst ==
  ASSUME Types, RunsAreThere, HeapHoldsRuns, Merging, Ordered(Comparison, heap, Heads, 0, 0)
  PROVE  \A n \in 2 .. Len(heap) : Precedes(Comparison, Heads, heap[1], heap[n])
<1> DEFINE Wrong == {n \in 2 .. Len(heap) : ~Precedes(Comparison, Heads, heap[1], heap[n])}
<1> SUFFICES ASSUME Wrong # {} PROVE FALSE
  OBVIOUS
<1>0. Len(heap) \in Nat
  BY DEF Types
<1>1. Wrong \subseteq Nat /\ Len(heap) \in Nat
  BY <1>0
<1>2. PICK m \in Wrong : \A y \in Wrong : m <= y
  BY <1>1, LeastNumber
<1> DEFINE p == m \div 2
<1>3. m \in 2 .. Len(heap) /\ ~Precedes(Comparison, Heads, heap[1], heap[m])
  OBVIOUS
<1>4. p \in Nat /\ (m = 2 * p \/ m = 2 * p + 1)
  BY <1>1, Halves
<1> HIDE DEF p
<1>5. p \in 1 .. Len(heap) /\ p < m /\ m \in 1 .. Len(heap)
  BY <1>1, <1>3, <1>4
<1>6. Precedes(Comparison, Heads, heap[p], heap[m])
  BY <1>4, <1>5 DEF Ordered, Child
<1>7. p # 1
  BY <1>3, <1>6
<1>8. p \notin Wrong
  BY <1>1, <1>2, <1>5
<1>9. p \in 2 .. Len(heap)
  BY <1>5, <1>7
<1>10. Precedes(Comparison, Heads, heap[1], heap[p])
  BY <1>8, <1>9
<1>11. \A n \in 1 .. Len(heap) : heap[n] \in Nat /\ Heads[heap[n]] \in Texts
  BY HeapMembers, HeadIsThere, RunIsNumber DEF Merging
<1>12. 1 \in 1 .. Len(heap)
  BY <1>1, <1>5
<1>13. IsOrder(Comparison)
  BY ComparisonIsOrder DEF Types
<1> HIDE DEF Wrong
<1> QED BY <1>3, <1>5, <1>6, <1>10, <1>11, <1>12, <1>13, HeadsAreOrdered

-----------------------------------------------------------------------------
(***************************************************************************)
(* Reading                                                                 *)
(***************************************************************************)

LEMMA NumberedTyped ==
  ASSUME NEW g \in Seq(Seq(Texts))
  PROVE  Numbered(g) \in Seq(Seq(Record)) /\ Len(Numbered(g)) = Len(g)
<1> DEFINE before(r) == Len(FlattenSeq(SubSeq(g, 1, r - 1)))
           nums == [r \in DOMAIN g |-> [i \in DOMAIN g[r] |-> [key |-> g[r][i], pos |-> before(r) + i]]]
<1>1. Numbered(g) = nums
  BY DEF Numbered
<1>2. Len(g) \in Nat /\ DOMAIN g = 1 .. Len(g)
  OBVIOUS
<1>3. ASSUME NEW r \in 1 .. Len(g) PROVE nums[r] \in Seq(Record)
  <2>1. g[r] \in Seq(Texts) /\ Len(g[r]) \in Nat /\ DOMAIN g[r] = 1 .. Len(g[r])
    BY <1>2
  <2>2. SubSeq(g, 1, r - 1) \in Seq(Seq(Texts))
    <3>1. r - 1 \in Nat /\ r - 1 <= Len(g)
      BY <1>2
    <3> QED BY <1>2, <3>1
  <2>3. FlattenSeq(SubSeq(g, 1, r - 1)) \in Seq(Texts)
    BY <2>2, FlattenSeqTyped
  <2>4. before(r) \in Nat
    BY <2>3
  <2> HIDE DEF before
  <2>5. \A i \in 1 .. Len(g[r]) : g[r][i] \in Texts /\ before(r) + i \in Nat
    BY <2>1, <2>4
  <2>6. nums[r] \in [1 .. Len(g[r]) -> Record]
    BY <1>2, <2>1, <2>5 DEF Record
  <2> HIDE DEF nums
  <2> QED BY <2>1, <2>6, SeqOfFunction
<1>4. nums \in [1 .. Len(g) -> Seq(Record)]
  <2>1. DOMAIN nums = 1 .. Len(g)
    BY <1>2
  <2>2. nums = [r \in 1 .. Len(g) |-> nums[r]]
    BY <1>2
  <2> HIDE DEF nums
  <2> QED BY <1>3, <2>2
<1> HIDE DEF nums
<1> QED BY <1>1, <1>2, <1>4, SeqOfFunction

LEMMA InitHolds == Init => IInv
<1> SUFFICES ASSUME Init PROVE IInv
  OBVIOUS
<1>1. PICK j \in Jobs : options = j.options /\ given = j.given /\ open_end = j.open_end /\ target = j.target
  BY DEF Init
<1>2. IsJob(j)
  BY ConstantsAssumption
<1>3. /\ options \in OptionsType /\ given \in Seq(Seq(Texts))
      /\ open_end \subseteq DOMAIN given /\ target \in 0 .. Len(given)
  BY <1>1, <1>2 DEF IsJob
<1>4. files \in Seq(Seq(Record)) /\ Len(files) = Len(given)
  BY <1>3, NumberedTyped DEF Init
<1>5. Len(given) \in Nat /\ target \in Nat /\ 0 \in 0 .. Len(given)
  BY <1>3
<1>6. /\ runs \in [Run -> [begin : Nat, end : Nat, pos : Nat]]
      /\ \A r \in Run : runs[r].end = 0 /\ runs[r].pos = 0
  <2>1. runs = [r \in Run |-> [begin |-> 0, end |-> 0, pos |-> 0]]
    BY DEF Init, Run
  <2> QED BY <2>1
<1>7. caches \in [Run -> Seq(Texts)]
  <2>1. caches = [r \in Run |-> <<>>] /\ <<>> \in Seq(Texts)
    BY DEF Init, Run
  <2> QED BY <2>1
<1>8. /\ pc = "read" /\ operand = 0 /\ lines = <<>> /\ heap = <<>> /\ node = 0 /\ building = 0
      /\ last = <<>> /\ iov = <<>> /\ merged = <<>> /\ written = <<>> /\ ok = TRUE
      /\ output = [state |-> "running", recs |-> <<>>]
  BY DEF Init, Contract!NotYet
<1>9. /\ <<>> \in Seq(Record) /\ <<>> \in Seq(Run) /\ <<>> \in Seq(Texts) /\ <<>> \in Seq(Piece)
      /\ 0 \in Nat /\ Len(<<>>) = 0
  OBVIOUS
<1>10. output \in Delivery
  BY <1>8, <1>9 DEF Delivery
<1>11. Types
  BY <1>3, <1>4, <1>5, <1>6, <1>7, <1>8, <1>9, <1>10, Zenon DEF Types, Run
<1>12. RunsAreThere
  BY <1>6, <1>8 DEF RunsAreThere, HasLine
<1>13. VectorFits
  <2>1. <<>> \o <<>> = <<>> /\ DOMAIN <<>> = {}
    OBVIOUS
  <2>2. 0 <= IovMax
    BY ConstantsAssumption
  <2> QED BY <1>8, <1>9, <2>1, <2>2 DEF VectorFits
<1> QED BY <1>8, <1>11, <1>12, <1>13
        DEF IInv, ModeIsKept, CachesFilled, HeapHoldsRuns, HeapOrder, Merging

LEMMA BeginChanged ==
  ASSUME NEW r \in [begin : Nat, end : Nat, pos : Nat], NEW n \in Nat
  PROVE  LET new == [r EXCEPT !.begin = n]
         IN  new \in [begin : Nat, end : Nat, pos : Nat] /\ new.end = r.end /\ new.pos = r.pos
<1>1. r = [begin |-> r.begin, end |-> r.end, pos |-> r.pos] /\ r.end \in Nat /\ r.pos \in Nat
  OBVIOUS
<1>2. [r EXCEPT !.begin = n] = [begin |-> n, end |-> r.end, pos |-> r.pos]
  BY <1>1
<1> QED BY <1>1, <1>2

LEMMA PosChanged ==
  ASSUME NEW r \in [begin : Nat, end : Nat, pos : Nat], NEW n \in Nat
  PROVE  LET new == [r EXCEPT !.pos = n]
         IN  /\ new \in [begin : Nat, end : Nat, pos : Nat]
             /\ new.begin = r.begin /\ new.end = r.end /\ new.pos = n
<1>1. r = [begin |-> r.begin, end |-> r.end, pos |-> r.pos] /\ r.end \in Nat /\ r.begin \in Nat
  OBVIOUS
<1>2. [r EXCEPT !.pos = n] = [begin |-> r.begin, end |-> r.end, pos |-> n]
  BY <1>1
<1> QED BY <1>1, <1>2

LEMMA ReadOperandStep == IInv /\ ReadOperand => IInv'
<1> SUFFICES ASSUME IInv, ReadOperand PROVE IInv'
  OBVIOUS
<1> DEFINE op == operand + 1
           file == files[op]
<1>1. /\ pc = "read" /\ operand < Len(given) /\ operand' = op
      /\ UNCHANGED <<pc, options, given, open_end, target, files, heap, node, building, caches,
                     last, iov, merged, written, output, Run>>
  BY DEF ReadOperand, input_vars, write_vars, Run
<1>2. op \in Run /\ op \in 0 .. Len(given) /\ op \in 1 .. Len(files)
  BY <1>1 DEF IInv, Types, Run
<1>3. file \in Seq(Record) /\ lines \in Seq(Record) /\ Len(lines) \in Nat
  <2>1. files \in Seq(Seq(Record)) /\ lines \in Seq(Record)
    BY DEF IInv, Types
  <2>2. files[op] \in Seq(Record)
    BY <1>2, <2>1
  <2> QED BY <2>1, <2>2
<1>4. \/ /\ lines' = lines \o file
         /\ runs' = [runs EXCEPT ![op] =
                       [begin |-> Len(lines) + 1, end |-> Len(lines') + 1, pos |-> Len(lines) + 1]]
         /\ ok' = ok
      \/ /\ \E n \in 0 .. Len(file) : lines' = lines \o SubSeq(file, 1, n)
         /\ runs' = [runs EXCEPT ![op].begin = Len(lines) + 1]
         /\ ok' = FALSE
  BY <1>1 DEF ReadOperand
<1> HIDE DEF op, file
<1>5. lines' \in Seq(Record) /\ Len(lines') \in Nat /\ Len(lines) <= Len(lines')
  <2>1. CASE lines' = lines \o file
    BY <1>3, <2>1
  <2>2. ASSUME NEW n \in 0 .. Len(file), lines' = lines \o SubSeq(file, 1, n) 
        PROVE  lines' \in Seq(Record) /\ Len(lines') \in Nat /\ Len(lines) <= Len(lines')
    <3>1. SubSeq(file, 1, n) \in Seq(Record)
      BY <1>3
    <3> QED BY <1>3, <2>2, <3>1
  <2> QED BY <1>4, <2>1, <2>2
<1>6. runs \in [Run -> [begin : Nat, end : Nat, pos : Nat]]
  BY DEF IInv, Types
<1>7. /\ runs' \in [Run -> [begin : Nat, end : Nat, pos : Nat]]
      /\ \A r \in Run \ {op} : runs'[r] = runs[r]
      /\ \/ runs'[op].end = Len(lines') + 1 /\ runs'[op].pos = Len(lines) + 1
         \/ runs'[op].end = runs[op].end /\ runs'[op].pos = runs[op].pos
  <2>1. CASE runs' = [runs EXCEPT ![op] =
                       [begin |-> Len(lines) + 1, end |-> Len(lines') + 1, pos |-> Len(lines) + 1]]
    BY <1>2, <1>3, <1>5, <1>6, <2>1
  <2>2. CASE runs' = [runs EXCEPT ![op].begin = Len(lines) + 1]
    <3> DEFINE new == [runs[op] EXCEPT !.begin = Len(lines) + 1]
    <3>1. runs' = [runs EXCEPT ![op] = new]
      BY <2>2
    <3>2. new \in [begin : Nat, end : Nat, pos : Nat] /\ new.end = runs[op].end /\ new.pos = runs[op].pos
      <4>1. runs[op] \in [begin : Nat, end : Nat, pos : Nat] /\ Len(lines) + 1 \in Nat
        BY <1>2, <1>3, <1>6
      <4> QED BY <4>1, BeginChanged
    <3> HIDE DEF new
    <3> QED BY <1>2, <1>6, <3>1, <3>2
  <2> QED BY <1>4, <2>1, <2>2
<1>8. RunsAreThere'
  <2> SUFFICES ASSUME NEW r \in Run
               PROVE  runs'[r].end <= Len(lines') + 1 /\ (runs'[r].pos < runs'[r].end => runs'[r].pos > 0)
    BY <1>1 DEF RunsAreThere, HasLine
  <2>1. runs[r].end <= Len(lines) + 1 /\ (runs[r].pos < runs[r].end => runs[r].pos > 0)
    BY <1>1 DEF IInv, RunsAreThere, HasLine
  <2>2. runs[r].end \in Nat /\ runs[r].pos \in Nat
    BY <1>6
  <2>3. CASE runs'[r].end = runs[r].end /\ runs'[r].pos = runs[r].pos
    BY <1>3, <1>5, <2>1, <2>2, <2>3
  <2>4. CASE runs'[r].end = Len(lines') + 1 /\ runs'[r].pos = Len(lines) + 1
    BY <1>3, <1>5, <2>4
  <2> QED BY <1>7, <2>3, <2>4
<1>9. Types'
  <2>1. ok' \in BOOLEAN
    BY <1>4 DEF IInv, Types
  <2> QED BY <1>1, <1>2, <1>5, <1>7, <2>1 DEF IInv, Types
<1> QED BY <1>1, <1>8, <1>9
        DEF IInv, ModeIsKept, CachesFilled, HeapHoldsRuns, HeapOrder, Merging, VectorFits

LEMMA FailedTyped == Contract!Failed \in Delivery
<1>1. <<>> \in Seq(Record)
  OBVIOUS
<1> QED BY <1>1 DEF Contract!Failed, Delivery

LEMMA DispatchStep == IInv /\ Dispatch => IInv'
<1> SUFFICES ASSUME IInv, Dispatch PROVE IInv'
  OBVIOUS
<1>1. UNCHANGED <<options, given, open_end, target, files, operand, lines, runs, heap, node, building,
                  caches, last, iov, merged, written, ok, Run, DirectMode>>
  BY SameComparison DEF Dispatch, input_vars, heap_vars, write_vars, Run
<1>2. /\ pc = "read" /\ pc' \in {"direct", "prepare", "ended"} /\ output' \in Delivery
      /\ pc' = "direct" => DirectMode
      /\ pc' = "prepare" => ~DirectMode
  BY FailedTyped DEF Dispatch, IInv, Types
<1>3. Types'
  BY <1>1, <1>2 DEF IInv, Types
<1> QED BY <1>1, <1>2, <1>3
        DEF IInv, RunsAreThere, HasLine, ModeIsKept, CachesFilled, HeapHoldsRuns, HeapOrder, Merging, VectorFits

LEMMA EmptiedTyped ==
  ASSUME Types
  PROVE  Emptied \in Seq(Seq(Record)) /\ Len(Emptied) = Len(given)
<1>1. Run = 1 .. Len(given) /\ Len(given) \in Nat
  BY RunIsNumber
<1>2. \A r \in Run : files[r] \in Seq(Record)
  BY <1>1 DEF Types
<1>3. Emptied \in [1 .. Len(given) -> Seq(Record)]
  <2>1. <<>> \in Seq(Record)
    OBVIOUS
  <2> QED BY <1>1, <1>2, <2>1 DEF Emptied
<1> QED BY <1>1, <1>3, SeqOfFunction

LEMMA OpenOutputStep == IInv /\ OpenOutput => IInv'
<1> SUFFICES ASSUME IInv, OpenOutput PROVE IInv'
  OBVIOUS
<1>1. /\ pc = "direct"
      /\ UNCHANGED <<options, given, open_end, target, operand, lines, runs, heap, node, building,
                     last, iov, merged, written, ok, Run, DirectMode>>
  BY SameComparison DEF OpenOutput, input_vars, write_vars, Run
<1>2. CASE /\ pc' = "build" /\ files' = Emptied
           /\ caches' = [r \in Run |-> IF HasLine(r) THEN <<Head_of(r)>> ELSE <<>>]
           /\ UNCHANGED output
  <2>1. \A r \in Run : HasLine(r) => Head_of(r) \in Texts
    BY <1>1, HeadIsThere DEF IInv
  <2>2. caches' \in [Run -> Seq(Texts)]
    <3>1. \A r \in Run : (IF HasLine(r) THEN <<Head_of(r)>> ELSE <<>>) \in Seq(Texts)
      BY <2>1
    <3> QED BY <1>2, <3>1
  <2>3. files' \in Seq(Seq(Record)) /\ Len(files') = Len(given)
    BY <1>2, EmptiedTyped DEF IInv
  <2>4. Types'
    BY <1>1, <1>2, <2>2, <2>3 DEF IInv, Types
  <2>5. CachesFilled'
    BY <1>1, <1>2 DEF CachesFilled, HasLine, Head_of
  <2> QED BY <1>1, <1>2, <2>4, <2>5
          DEF IInv, RunsAreThere, HasLine, ModeIsKept, HeapHoldsRuns, HeapOrder, Merging, VectorFits
<1>3. CASE Fails /\ UNCHANGED <<files, caches>>
  <2>1. pc' = "ended" /\ output' \in Delivery
    BY <1>3, FailedTyped DEF Fails
  <2>2. Types'
    BY <1>1, <1>3, <2>1 DEF IInv, Types
  <2> QED BY <1>1, <2>1, <2>2
          DEF IInv, RunsAreThere, ModeIsKept, CachesFilled, HeapHoldsRuns, HeapOrder, Merging, VectorFits
<1> QED BY <1>2, <1>3 DEF OpenOutput, HasLine

LEMMA PrepareKeysStep == IInv /\ PrepareKeys => IInv'
<1> SUFFICES ASSUME IInv, PrepareKeys PROVE IInv'
  OBVIOUS
<1>1. /\ pc = "prepare"
      /\ UNCHANGED <<options, given, open_end, target, files, operand, lines, runs, heap, node, building,
                     caches, last, iov, merged, written, ok, Run, DirectMode>>
  BY SameComparison DEF PrepareKeys, input_vars, heap_vars, write_vars, Run
<1>2. pc' \in {"write", "build", "ended"} /\ output' \in Delivery
  BY FailedTyped DEF PrepareKeys, Fails, IInv, Types
<1>3. Types'
  BY <1>1, <1>2 DEF IInv, Types
<1>4. ~DirectMode'
  BY <1>1 DEF IInv, ModeIsKept
<1> QED BY <1>1, <1>2, <1>3, <1>4
        DEF IInv, RunsAreThere, HasLine, ModeIsKept, CachesFilled, HeapHoldsRuns, HeapOrder, Merging, VectorFits

-----------------------------------------------------------------------------
(***************************************************************************)
(* The steps of the heap                                                   *)
(***************************************************************************)

\* Half of the nodes have children.
LEMMA Leaves ==
  ASSUME NEW cmp, NEW h, NEW hd, Len(h) \in Nat
  PROVE  /\ Len(h) \div 2 \in Nat
         /\ Ordered(cmp, h, hd, Len(h) \div 2, 0)
         /\ Len(h) > 1 => Len(h) \div 2 \in 1 .. Len(h)
         /\ ~(Len(h) > 1) => Len(h) \div 2 = 0
<1> DEFINE n == Len(h)
           b == n \div 2
<1>1. b \in Nat /\ (n = 2 * b \/ n = 2 * b + 1)
  BY Halves
<1> HIDE DEF b
<1>2. \A p, c \in 1 .. n : c = 2 * p \/ c = 2 * p + 1 => p <= b
  BY <1>1
<1>3. Ordered(cmp, h, hd, b, 0)
  BY <1>1, <1>2 DEF Ordered, Child
<1>4. /\ n > 1 => b \in 1 .. n
      /\ ~(n > 1) => b = 0
  BY <1>1
<1> QED BY <1>1, <1>3, <1>4 DEF b

\* When the least one moves up only its own place may be out of order.
LEMMA MoveUp ==
  ASSUME NEW cmp, NEW h, NEW hd, NEW g, NEW upto \in Nat, NEW but, NEW best,
         Len(h) \in Nat, but \in 1 .. Len(h), upto < but, Ordered(cmp, h, hd, upto, but),
         Child(h, but, best), Precedes(cmp, hd, h[best], h[but]),
         \A m \in 1 .. Len(h) :
           Child(h, but, m) /\ m # best => Precedes(cmp, hd, h[best], h[m]),
         Len(g) = Len(h), g[but] = h[best], g[best] = h[but],
         \A m \in 1 .. Len(h) : m # but /\ m # best => g[m] = h[m]
  PROVE  Ordered(cmp, g, hd, upto, best)
<1>1. best \in 1 .. Len(h) /\ best > but
  BY DEF Child
<1>2. ASSUME NEW p \in 1 .. Len(g), NEW n \in 1 .. Len(g),
             Child(g, p, n), p > upto, p # best
      PROVE  Precedes(cmp, hd, g[p], g[n])
  <2>1. Child(h, p, n) /\ p \in 1 .. Len(h) /\ n \in 1 .. Len(h)
    BY <1>2 DEF Child
  <2>2. CASE p = but /\ n = best
    BY <2>2
  <2>3. CASE p = but /\ n # best
    <3>1. n # but
      BY <2>1, <2>3 DEF Child
    <3> QED BY <2>1, <2>3, <3>1
  <2>4. CASE p # but /\ n = but
    <3>1. Precedes(cmp, hd, h[p], h[best])
      BY <1>1, <1>2, <2>1, <2>4 DEF Ordered
    <3> QED BY <1>2, <2>1, <2>4, <3>1
  <2>5. CASE p # but /\ n # but
    <3>1. n # best
      BY <2>1, <2>5 DEF Child
    <3>2. Precedes(cmp, hd, h[p], h[n])
      BY <1>2, <2>1, <2>5 DEF Ordered
    <3> QED BY <1>2, <2>1, <2>5, <3>1, <3>2
  <2> QED BY <2>2, <2>3, <2>4, <2>5
<1>3. ASSUME NEW n \in 1 .. Len(g), NEW a \in 1 .. Len(g),
             Child(g, best, n), best > upto, Child(g, a, best), a > upto
      PROVE  Precedes(cmp, hd, g[a], g[n])
  <2>1. Child(h, best, n) /\ n \in 1 .. Len(h) /\ a = but
    BY <1>1, <1>3 DEF Child
  <2>2. n # but /\ n # best /\ best # but
    BY <1>1, <2>1 DEF Child
  <2>3. Precedes(cmp, hd, h[best], h[n])
    BY <1>1, <1>3, <2>1, <2>2 DEF Ordered
  <2> QED BY <2>1, <2>2, <2>3
<1> QED BY <1>2, <1>3 DEF Ordered

\* When the head at the root changes, or the last node takes the place of the
\* root, only the root may be out of order.
LEMMA NewRoot ==
  ASSUME NEW cmp, NEW h, NEW hd, NEW g, NEW ge, Len(h) \in Nat, Len(g) \in Nat,
         Len(g) <= Len(h), Ordered(cmp, h, hd, 0, 0),
         \A n \in 1 .. Len(g) : n # 1 => g[n] = h[n],
         \A m, n \in 2 .. Len(g) : Precedes(cmp, hd, h[m], h[n]) => Precedes(cmp, ge, h[m], h[n])
  PROVE  /\ Ordered(cmp, g, ge, 0, 1)
         /\ Len(g) <= 1 => Ordered(cmp, g, ge, 0, 0)
<1>1. ASSUME NEW p \in 1 .. Len(g), NEW n \in 1 .. Len(g), Child(g, p, n), p # 1
      PROVE  Precedes(cmp, ge, g[p], g[n])
  <2>1. /\ Child(h, p, n) /\ p \in 1 .. Len(h) /\ n \in 1 .. Len(h)
        /\ p \in 2 .. Len(g) /\ n \in 2 .. Len(g) /\ p # 0 /\ p > 0
    BY <1>1 DEF Child
  <2>2. Precedes(cmp, hd, h[p], h[n])
    BY <2>1 DEF Ordered
  <2> QED BY <2>1, <2>2
<1>2. \A p \in 1 .. Len(g) : ~Child(g, p, 1)
  BY DEF Child
<1>3. Len(g) <= 1 => \A p, n \in 1 .. Len(g) : ~Child(g, p, n)
  BY DEF Child
<1> QED BY <1>1, <1>2, <1>3 DEF Ordered

LEMMA BuildHeapStep == IInv /\ BuildHeap => IInv'
<1> SUFFICES ASSUME IInv, BuildHeap PROVE IInv'
  OBVIOUS
<1> DEFINE S == {r \in Run : HasLine(r)}
           h == heap'
<1>1. /\ pc = "build" /\ h \in Listed(S)
      /\ building' = Len(h) \div 2
      /\ pc' = IF Len(h) > 1 THEN "heapify" ELSE "emit"
      /\ UNCHANGED <<options, given, open_end, target, files, operand, lines, runs, node, caches,
                     last, iov, merged, written, ok, output, Run, Comparison, DirectMode>>
  BY SameComparison DEF BuildHeap, input_vars, write_vars, Run, HasLine
<1>2. Run = 1 .. Len(given) /\ Len(given) \in Nat
  BY RunIsNumber DEF IInv
<1>3. S \in SUBSET (1 .. Len(given))
  BY <1>2
<1>4. Heads' = Heads /\ \A r \in Run : Head_of(r)' = Head_of(r)
  BY <1>1 DEF Heads, Head_of
<1>5. /\ Len(h) \in Nat /\ h \in Seq(Run)
      /\ \A i \in 1 .. Len(h) : h[i] \in S
      /\ \A i, j \in 1 .. Len(h) : h[i] = h[j] => i = j
      /\ \A x \in S : \E i \in 1 .. Len(h) : h[i] = x
  <2> HIDE DEF S, h
  <2> QED BY <1>1, <1>2, <1>3, ListedOnce
<1>6. IsInjective(h) /\ ToSet(h) = S
  <2>1. S \in SUBSET Run
    OBVIOUS
  <2> HIDE DEF S, h
  <2> QED BY <1>5, <2>1, IsHeap
<1>7. /\ building' \in Nat /\ Ordered(Comparison, h, Heads, building', 0)
      /\ Len(h) > 1 => building' \in 1 .. Len(h)
      /\ ~(Len(h) > 1) => building' = 0
  BY <1>1, <1>5, Leaves
<1>8. HeapHoldsRuns'
  BY <1>1, <1>6 DEF HeapHoldsRuns, HasLine
<1>9. HeapOrder'
  BY <1>1, <1>4, <1>7 DEF HeapOrder
<1>10. Types'
  BY <1>1, <1>5, <1>7 DEF IInv, Types
<1>11. CachesFilled'
  BY <1>1, <1>4 DEF IInv, CachesFilled, HasLine
<1> QED BY <1>1, <1>8, <1>9, <1>10, <1>11 DEF IInv, RunsAreThere, HasLine, ModeIsKept, VectorFits

LEMMA HeapifyStep == IInv /\ Heapify => IInv'
<1> SUFFICES ASSUME IInv, Heapify PROVE IInv'
  OBVIOUS
<1>1. /\ pc = "heapify" /\ pc' = "sift" /\ node' = building /\ building' = building - 1
      /\ UNCHANGED <<options, given, open_end, target, files, operand, lines, runs, heap, caches,
                     last, iov, merged, written, ok, output, Run, Comparison, DirectMode>>
  BY SameComparison DEF Heapify, input_vars, write_vars, Run
<1>2. /\ building \in 1 .. Len(heap) /\ Ordered(Comparison, heap, Heads, building, 0)
      /\ Len(heap) \in Nat
  BY <1>1 DEF IInv, HeapOrder, Types
<1>3. Types'
  <2>1. node' \in Nat /\ building' \in Nat
    BY <1>1, <1>2
  <2>2. Types
    BY DEF IInv
  <2> QED BY <1>1, <2>1, <2>2 DEF Types
<1>4. Heads' = Heads /\ \A r \in Run : Head_of(r)' = Head_of(r)
  BY <1>1 DEF Heads, Head_of
<1>5. Ordered(Comparison, heap, Heads, building - 1, building)
  BY <1>2 DEF Ordered, Child
<1>6. HeapOrder'
  BY <1>1, <1>2, <1>4, <1>5 DEF HeapOrder
<1>7. CachesFilled' /\ HeapHoldsRuns'
  BY <1>1, <1>4 DEF IInv, CachesFilled, HasLine, HeapHoldsRuns, Merging
<1> QED BY <1>1, <1>3, <1>6, <1>7 DEF IInv, RunsAreThere, HasLine, ModeIsKept, VectorFits

\* A node and its children have a least one.
LEMMA LeastOfFamily ==
  ASSUME IInv, pc = "sift"
  PROVE  LET family == {n \in {node, 2 * node, 2 * node + 1} : n <= Len(heap)}
             best   == CHOOSE n \in family :
                         \A m \in family \ {n} : Less(heap[n], heap[m])
         IN  /\ best \in family /\ family \subseteq 1 .. Len(heap)
             /\ \A m \in family \ {best} : Precedes(Comparison, Heads, heap[best], heap[m])
<1> DEFINE family == {n \in {node, 2 * node, 2 * node + 1} : n <= Len(heap)}
           least(n) == n \in family
                        /\ \A m \in family \ {n} : Precedes(Comparison, Heads, heap[n], heap[m])
<1>1. node \in 1 .. Len(heap) /\ Len(heap) \in Nat
  BY DEF IInv, Types, HeapOrder
<1>2. family \subseteq 1 .. Len(heap) /\ node \in family
  BY <1>1
<1>10. \A n \in 1 .. Len(heap) : /\ heap[n] \in Run /\ HasLine(heap[n]) /\ heap[n] \in Nat
                                 /\ Heads[heap[n]] \in Texts
  BY HeapMembers, HeadIsThere, RunIsNumber DEF IInv, Merging
<1>11. IsOrder(Comparison)
  BY ComparisonIsOrder DEF IInv, Types
<1>12. \A m, n \in 1 .. Len(heap) : heap[m] = heap[n] => m = n
  BY HeapMembers DEF IInv, Merging
<1>3. ASSUME NEW a \in family, NEW b \in family, NEW c \in family
      PROVE  /\ a # b => \/ Precedes(Comparison, Heads, heap[a], heap[b])
                         \/ Precedes(Comparison, Heads, heap[b], heap[a])
             /\ Precedes(Comparison, Heads, heap[a], heap[b]) /\ Precedes(Comparison, Heads, heap[b], heap[c])
                  => Precedes(Comparison, Heads, heap[a], heap[c])
  <2>1. a \in 1 .. Len(heap) /\ b \in 1 .. Len(heap) /\ c \in 1 .. Len(heap)
    BY <1>2
  <2>2. a # b => heap[a] # heap[b]
    BY <1>12, <2>1
  <2> HIDE DEF family
  <2> QED BY <1>10, <1>11, <2>1, <2>2, HeadsAreOrdered
<1>4. \E n : least(n)
  <2> DEFINE l == 2 * node
             r == 2 * node + 1
  <2>1. \A m \in family : m = node \/ m = l \/ m = r
    OBVIOUS
  <2>2. CASE l \notin family
    <3>1. r \notin family
      BY <1>1, <2>2
    <3> QED BY <1>2, <2>1, <2>2, <3>1
  <2>3. CASE l \in family /\ r \notin family
    <3>1. node # l
      BY <1>1
    <3>2. least(node) \/ least(l)
      <4> HIDE DEF family, l, r
      <4> QED BY <1>2, <1>3, <2>1, <2>3, <3>1
    <3> QED BY <3>2
  <2>4. CASE l \in family /\ r \in family
    <3>1. node # l /\ node # r /\ l # r
      BY <1>1
    <3>2. least(node) \/ least(l) \/ least(r)
      <4> HIDE DEF family, l, r
      <4> QED BY <1>2, <1>3, <2>1, <2>4, <3>1
    <3> QED BY <3>2
  <2> QED BY <2>2, <2>3, <2>4
<1>5. \A n, m \in family : Less(heap[n], heap[m]) <=> Precedes(Comparison, Heads, heap[n], heap[m])
  <2> HIDE DEF family
  <2> QED BY <1>2, <1>10, LessIsPrecedes DEF IInv, Merging
<1>6. \E n \in family : \A m \in family \ {n} : Less(heap[n], heap[m])
  <2> HIDE DEF family
  <2> QED BY <1>4, <1>5
<1> DEFINE best == CHOOSE n \in family : \A m \in family \ {n} : Less(heap[n], heap[m])
<1>7. best \in family /\ \A m \in family \ {best} : Less(heap[best], heap[m])
  BY <1>6
<1>8. \A m \in family \ {best} : Precedes(Comparison, Heads, heap[best], heap[m])
  <2> HIDE DEF family, best
  <2> QED BY <1>5, <1>7
<1> QED BY <1>2, <1>7, <1>8

LEMMA SiftDownStep == IInv /\ SiftDown => IInv'
<1> SUFFICES ASSUME IInv, SiftDown PROVE IInv'
  OBVIOUS
<1> DEFINE family == {n \in {node, 2 * node, 2 * node + 1} : n <= Len(heap)}
           best   == CHOOSE n \in family :
                       \A m \in family \ {n} : Less(heap[n], heap[m])
<1>1. /\ pc = "sift"
      /\ UNCHANGED <<options, given, open_end, target, files, operand, lines, runs, building, caches,
                     last, iov, merged, written, ok, output, Run, Comparison, DirectMode>>
      /\ IF best = node
         THEN /\ pc' = IF building > 0 THEN "heapify" ELSE "emit"
              /\ UNCHANGED <<heap, node>>
         ELSE /\ heap' = [heap EXCEPT ![node] = heap[best], ![best] = heap[node]]
              /\ node' = best
              /\ UNCHANGED pc
  BY SameComparison DEF SiftDown, input_vars, write_vars, Run
<1>2. /\ best \in family /\ family \subseteq 1 .. Len(heap)
      /\ \A m \in family \ {best} : Precedes(Comparison, Heads, heap[best], heap[m])
  BY <1>1, LeastOfFamily
<1>3. \A m \in 1 .. Len(heap) : Child(heap, node, m) => m \in family
  BY DEF Child
<1>4. best # node => Child(heap, node, best)
  BY <1>2 DEF Child
<1>5. node \in family
  BY <1>1 DEF IInv, Types, HeapOrder
<1> HIDE DEF family, best
<1>6. /\ node \in 1 .. Len(heap) /\ building < node /\ Len(heap) \in Nat /\ building \in Nat
      /\ Ordered(Comparison, heap, Heads, building, node)
  BY <1>1 DEF IInv, Types, HeapOrder
<1>9. Heads' = Heads /\ \A r \in Run : Head_of(r)' = Head_of(r)
  BY <1>1 DEF Heads, Head_of
<1>7. CASE best = node
  <2>1. Ordered(Comparison, heap, Heads, building, 0)
    BY <1>2, <1>3, <1>6, <1>7 DEF Ordered, Child
  <2>2. /\ pc' = IF building > 0 THEN "heapify" ELSE "emit"
        /\ UNCHANGED <<heap, node>>
    BY <1>1, <1>7
  <2>3. Types'
    BY <1>1, <2>2 DEF IInv, Types
  <2>4. HeapHoldsRuns' /\ CachesFilled'
    BY <1>1, <1>9, <2>2 DEF IInv, HeapHoldsRuns, CachesFilled, HasLine, Merging
  <2>5. HeapOrder'
    BY <1>1, <1>6, <1>9, <2>1, <2>2 DEF HeapOrder
  <2> QED BY <1>1, <2>2, <2>3, <2>4, <2>5 DEF IInv, RunsAreThere, HasLine, ModeIsKept, VectorFits
<1>8. CASE best # node
  <2>1. /\ heap' = [heap EXCEPT ![node] = heap[best], ![best] = heap[node]]
        /\ node' = best /\ pc' = "sift"
    BY <1>1, <1>8
  <2>2. best \in 1 .. Len(heap) /\ best > node
    BY <1>4, <1>6, <1>8 DEF Child
  <2>3. heap \in Seq(Run) /\ heap \in [1 .. Len(heap) -> Run]
    BY DEF IInv, Types
  <2>4. heap' \in [1 .. Len(heap) -> Run]
    BY <1>6, <2>1, <2>2, <2>3
  <2>5. /\ heap' \in Seq(Run) /\ Len(heap') = Len(heap)
        /\ heap'[node] = heap[best] /\ heap'[best] = heap[node]
        /\ \A m \in 1 .. Len(heap) : m # node /\ m # best => heap'[m] = heap[m]
    <3>1. heap' \in Seq(Run) /\ Len(heap') = Len(heap)
      BY <1>6, <2>4, SeqOfFunction
    <3> QED BY <1>6, <2>1, <2>2, <2>3, <3>1
  <2>6. Ordered(Comparison, heap', Heads, building, best)
    <3>1. Precedes(Comparison, Heads, heap[best], heap[node])
      BY <1>2, <1>5, <1>8
    <3>2. \A m \in 1 .. Len(heap) :
            Child(heap, node, m) /\ m # best => Precedes(Comparison, Heads, heap[best], heap[m])
      BY <1>2, <1>3
    <3> QED BY <1>4, <1>6, <1>8, <2>5, <3>1, <3>2, MoveUp
  <2>7. HeapHoldsRuns'
    <3>1. /\ \A n \in 1 .. Len(heap) : heap[n] \in Run /\ HasLine(heap[n])
          /\ \A m, n \in 1 .. Len(heap) : heap[m] = heap[n] => m = n
          /\ \A r \in Run : HasLine(r) => \E n \in 1 .. Len(heap) : heap[n] = r
      BY <1>1, HeapMembers DEF IInv, Merging
    <3> DEFINE S == {r \in Run : HasLine(r)}
    <3>2. \A m, n \in 1 .. Len(heap') : heap'[m] = heap'[n] => m = n
      BY <1>6, <2>2, <2>5, <3>1, SMTT(30)
    <3>3. \A n \in 1 .. Len(heap') : heap'[n] \in S
      BY <1>6, <2>2, <2>5, <3>1
    <3>4. \A r \in S : \E n \in 1 .. Len(heap') : heap'[n] = r
      BY <1>6, <2>2, <2>5, <3>1
    <3>5. S \in SUBSET Run
      OBVIOUS
    <3>6. IsInjective(heap') /\ ToSet(heap') = S
      <4> HIDE DEF S
      <4> QED BY <2>5, <3>2, <3>3, <3>4, <3>5, IsHeap
    <3> QED BY <1>1, <3>6 DEF HeapHoldsRuns, HasLine
  <2>8. Types'
    <3>1. node' \in Nat /\ heap' \in Seq(Run)
      BY <2>1, <2>2, <2>5
    <3> QED BY <1>1, <2>1, <3>1, Zenon DEF IInv, Types
  <2>9. HeapOrder'
    BY <1>1, <1>6, <1>9, <2>1, <2>2, <2>5, <2>6 DEF HeapOrder
  <2>10. CachesFilled'
    BY <1>1, <1>9, <2>1 DEF IInv, CachesFilled, HasLine, Merging
  <2> QED BY <1>1, <2>1, <2>7, <2>8, <2>9, <2>10 DEF IInv, RunsAreThere, HasLine, ModeIsKept, VectorFits
<1> QED BY <1>7, <1>8

\* The run at the root goes on to its next line or leaves the heap.
LEMMA AdvanceKeeps ==
  ASSUME IInv, pc = "emit", heap # <<>>, Advance(heap[1]),
         UNCHANGED <<options, given, lines, building, Run, Comparison>>
  PROVE  /\ heap[1] \in Run /\ HasLine(heap[1])
         /\ runs' \in [Run -> [begin : Nat, end : Nat, pos : Nat]]
         /\ \A r \in Run : r # heap[1] => runs'[r] = runs[r]
         /\ runs'[heap[1]].end = runs[heap[1]].end /\ runs'[heap[1]].pos = runs[heap[1]].pos + 1
         /\ heap' \in Seq(Run) /\ node' \in Nat /\ pc' \in {"sift", "emit"}
         /\ RunsAreThere' /\ HeapHoldsRuns' /\ HeapOrder'
<1> DEFINE run == heap[1]
           size == Len(heap)
           On(r) == runs'[r].pos < runs'[r].end
<1>1. /\ building = 0 /\ Ordered(Comparison, heap, Heads, 0, 0) /\ heap \in Seq(Run)
      /\ size \in Nat /\ size # 0 /\ node \in Nat
  BY DEF IInv, Types, HeapOrder
<1>2. /\ \A n \in 1 .. size : heap[n] \in Run /\ HasLine(heap[n])
      /\ \A m, n \in 1 .. size : heap[m] = heap[n] => m = n
      /\ \A r \in Run : HasLine(r) => \E n \in 1 .. size : heap[n] = r
  BY HeapMembers DEF IInv, Merging
<1>3. run \in Run /\ HasLine(run) /\ 1 \in 1 .. size
  BY <1>1, <1>2
<1>4. runs \in [Run -> [begin : Nat, end : Nat, pos : Nat]]
  BY DEF IInv, Types
<1>5. /\ runs' \in [Run -> [begin : Nat, end : Nat, pos : Nat]]
      /\ \A r \in Run : r # run => runs'[r] = runs[r]
      /\ runs'[run].end = runs[run].end /\ runs'[run].pos = runs[run].pos + 1
  <2> DEFINE new == [runs[run] EXCEPT !.pos = runs[run].pos + 1]
  <2>1. runs' = [runs EXCEPT ![run] = new]
    BY DEF Advance
  <2>2. runs[run] \in [begin : Nat, end : Nat, pos : Nat] /\ runs[run].pos + 1 \in Nat
    BY <1>3, <1>4
  <2>3. /\ new \in [begin : Nat, end : Nat, pos : Nat] /\ new.end = runs[run].end
        /\ new.pos = runs[run].pos + 1
    BY <2>2, PosChanged
  <2> HIDE DEF new, run
  <2> QED BY <1>3, <1>4, <2>1, <2>3
<1>6. RunsAreThere'
  <2>1. \A r \in Run : runs[r].end <= Len(lines) + 1 /\ (HasLine(r) => runs[r].pos > 0)
    BY DEF IInv, RunsAreThere
  <2>2. runs[run].pos \in Nat
    BY <1>3, <1>4
  <2>3. \A r \in Run : runs'[r].end <= Len(lines) + 1 /\ (On(r) => runs'[r].pos > 0)
    <3> HIDE DEF run
    <3> TAKE r \in Run
    <3>1. CASE r = run
      BY <1>3, <1>5, <2>1, <2>2, <3>1
    <3>2. CASE r # run
      BY <1>5, <2>1, <3>2 DEF HasLine
    <3> QED BY <3>1, <3>2
  <2> QED BY <2>3 DEF RunsAreThere, HasLine
<1>7. \A r \in Run : r # run => Heads'[r] = Heads[r] /\ (On(r) <=> HasLine(r))
  BY <1>5 DEF Heads, Head_of, HasLine
<1>8. /\ heap' = IF On(run) THEN heap
                 ELSE [n \in 1 .. size - 1 |-> IF n = 1 THEN heap[size] ELSE heap[n]]
      /\ IF Len(heap') > 1 THEN pc' = "sift" /\ node' = 1 ELSE UNCHANGED <<pc, node>>
  BY <1>5 DEF Advance
<1> HIDE DEF run, On
<1>9. \A n \in 2 .. size : n \in 1 .. size /\ heap[n] \in Run /\ heap[n] # run
  BY <1>1, <1>2 DEF run
<1>10. /\ heap' \in Seq(Run) /\ Len(heap') \in Nat /\ Len(heap') <= size
       /\ \A n \in 1 .. Len(heap') : n # 1 => heap'[n] = heap[n]
       /\ \A m, n \in 1 .. Len(heap') : heap'[m] = heap'[n] => m = n
       /\ \A n \in 1 .. Len(heap') : On(heap'[n])
       /\ \A r \in Run : On(r) => \E n \in 1 .. Len(heap') : heap'[n] = r
  <2>1. CASE On(run)
    <3>1. heap' = heap
      BY <1>8, <2>1
    <3>2. \A n \in 1 .. size : On(heap[n])
      BY <1>2, <1>7, <2>1
    <3>3. \A r \in Run : On(r) => \E n \in 1 .. size : heap[n] = r
      BY <1>2, <1>3, <1>7
    <3> QED BY <1>1, <1>2, <3>1, <3>2, <3>3
  <2>2. CASE ~On(run)
    <3> DEFINE g == [n \in 1 .. size - 1 |-> IF n = 1 THEN heap[size] ELSE heap[n]]
    <3>1. heap' = g
      BY <1>8, <2>2
    <3>2. g \in [1 .. size - 1 -> Run] /\ size - 1 \in Nat
      BY <1>1, <1>2
    <3>3. /\ \A n \in 1 .. size - 1 : n # 1 => g[n] = heap[n]
          /\ size - 1 >= 1 => g[1] = heap[size]
      BY <1>1
    <3> HIDE DEF g
    <3>4. g \in Seq(Run) /\ Len(g) = size - 1
      BY <3>2, SeqOfFunction
    <3>5. \A m, n \in 1 .. size - 1 : g[m] = g[n] => m = n
      BY <1>1, <1>2, <3>2, <3>3, SMTT(30)
    <3>6. \A n \in 2 .. size : On(heap[n])
      BY <1>2, <1>7, <1>9
    <3>7. \A n \in 1 .. size - 1 : On(g[n])
      <4> TAKE n \in 1 .. size - 1
      <4>1. CASE n = 1
        <5>1. g[n] = heap[size] /\ size \in 2 .. size
          BY <1>1, <3>3, <4>1
        <5> QED BY <3>6, <5>1
      <4>2. CASE n # 1
        <5>1. g[n] = heap[n] /\ n \in 2 .. size
          BY <1>1, <3>3, <4>2
        <5> QED BY <3>6, <5>1
      <4> QED BY <4>1, <4>2
    <3>8. ASSUME NEW r \in Run, On(r)
          PROVE  \E n \in 1 .. size - 1 : g[n] = r
      <4>1. r # run /\ HasLine(r)
        BY <1>7, <2>2, <3>8
      <4>2. PICK n \in 1 .. size : heap[n] = r
        BY <1>2, <4>1
      <4>3. n # 1
        BY <4>1, <4>2 DEF run
      <4>4. CASE n = size
        BY <1>1, <3>3, <4>2, <4>3, <4>4
      <4>5. CASE n # size
        <5>1. n \in 1 .. size - 1
          BY <1>1, <4>5
        <5> QED BY <3>3, <4>2, <4>3, <5>1
      <4> QED BY <4>4, <4>5
    <3>9. size - 1 <= size
      BY <1>1
    <3> QED BY <3>1, <3>2, <3>3, <3>4, <3>5, <3>7, <3>8, <3>9
  <2> QED BY <2>1, <2>2
<1>11. Ordered(Comparison, heap', Heads', 0, 1) /\ (Len(heap') <= 1 => Ordered(Comparison, heap', Heads', 0, 0))
  <2>1. \A n \in 2 .. Len(heap') : n \in 2 .. size
    BY <1>1, <1>10
  <2>2. \A m, n \in 2 .. Len(heap') :
          Precedes(Comparison, Heads, heap[m], heap[n]) => Precedes(Comparison, Heads', heap[m], heap[n])
    BY <1>7, <1>9, <2>1 DEF Precedes
  <2> QED BY <1>1, <1>10, <2>2, NewRoot
<1>12. HeapHoldsRuns'
  <2> DEFINE S == {r \in Run : On(r)}
  <2>1. S \in SUBSET Run /\ (\A n \in 1 .. Len(heap') : heap'[n] \in S)
        /\ \A r \in S : \E n \in 1 .. Len(heap') : heap'[n] = r
    BY <1>10
  <2>2. IsInjective(heap') /\ ToSet(heap') = S
    <3> HIDE DEF S
    <3> QED BY <1>10, <2>1, IsHeap
  <2> QED BY <2>2 DEF HeapHoldsRuns, On
<1>13. pc' \in {"sift", "emit"} /\ node' \in Nat
  BY <1>1, <1>8
<1>14. HeapOrder'
  <2>1. 0 < 1 /\ (Len(heap') > 1 => 1 \in 1 .. Len(heap')) /\ (~(Len(heap') > 1) => Len(heap') <= 1)
    BY <1>10
  <2>2. CASE Len(heap') > 1
    <3>1. pc' = "sift" /\ node' = 1 /\ building' = 0 /\ Comparison' = Comparison
      BY <1>1, <1>8, <2>2
    <3> QED BY <1>11, <2>1, <2>2, <3>1 DEF HeapOrder
  <2>3. CASE ~(Len(heap') > 1)
    <3>1. pc' = "emit" /\ building' = 0 /\ Comparison' = Comparison
      BY <1>1, <1>8, <2>3
    <3> QED BY <1>11, <2>1, <2>3, <3>1 DEF HeapOrder
  <2> QED BY <2>2, <2>3
<1> QED BY <1>3, <1>5, <1>6, <1>10, <1>12, <1>13, <1>14 DEF run

-----------------------------------------------------------------------------
(***************************************************************************)
(* The vector                                                              *)
(***************************************************************************)

\* Every text without a delimiter is followed by one.
Paired(all) ==
  \A i \in 1 .. Len(all) :
    all[i].part = "text" => i < Len(all) /\ all[i + 1] = [rec |-> all[i].rec, part |-> "delim"]

LEMMA FitsIsPaired ==
  ASSUME written \in Seq(Piece), iov \in Seq(Piece)
  PROVE  VectorFits <=> Len(iov) <= IovMax /\ Paired(written \o iov)
<1>1. written \o iov \in Seq(Piece)
  BY Joined
<1>2. DOMAIN (written \o iov) = 1 .. Len(written \o iov)
  BY <1>1
<1> QED BY <1>2 DEF VectorFits, Paired

LEMMA PiecesPaired ==
  ASSUME NEW rec \in Record
  PROVE  Pieces(rec) \in Seq(Piece) /\ Len(Pieces(rec)) \in 1 .. 2 /\ Paired(Pieces(rec))
<1> DEFINE t == [rec |-> rec, part |-> "text"]
           d == [rec |-> rec, part |-> "delim"]
           l == [rec |-> rec, part |-> "line"]
<1>1. Pieces(rec) = <<t, d>> \/ Pieces(rec) = <<l>>
  BY DEF Pieces
<1>2. t \in Piece /\ d \in Piece /\ l \in Piece
  BY DEF Piece
<1>3. t.part = "text" /\ d.part = "delim" /\ l.part = "line" /\ t.rec = rec
  OBVIOUS
<1>4. d = [rec |-> t.rec, part |-> "delim"]
  BY <1>3
<1> HIDE DEF t, d, l
<1>5. CASE Pieces(rec) = <<t, d>>
  <2>1. /\ <<t, d>> \in Seq(Piece) /\ Len(<<t, d>>) = 2
        /\ <<t, d>>[1] = t /\ <<t, d>>[2] = d
    BY <1>2
  <2>2. Paired(<<t, d>>)
    BY <1>3, <1>4, <2>1 DEF Paired
  <2> QED BY <1>5, <2>1, <2>2
<1>6. CASE Pieces(rec) = <<l>>
  <2>1. <<l>> \in Seq(Piece) /\ Len(<<l>>) = 1 /\ <<l>>[1] = l
    BY <1>2
  <2>2. Paired(<<l>>)
    BY <1>3, <2>1 DEF Paired
  <2> QED BY <1>6, <2>1, <2>2
<1> QED BY <1>1, <1>5, <1>6

LEMMA PairedJoined ==
  ASSUME NEW a \in Seq(Piece), NEW b \in Seq(Piece), Paired(a), Paired(b)
  PROVE  Paired(a \o b)
<1>1. /\ Len(a \o b) = Len(a) + Len(b) /\ Len(a) \in Nat /\ Len(b) \in Nat
      /\ \A p \in 1 .. Len(a) : (a \o b)[p] = a[p]
      /\ \A p \in 1 .. Len(b) : (a \o b)[Len(a) + p] = b[p]
  BY Joined
<1> SUFFICES ASSUME NEW i \in 1 .. Len(a) + Len(b), (a \o b)[i].part = "text"
             PROVE  /\ i < Len(a) + Len(b)
                    /\ (a \o b)[i + 1] = [rec |-> (a \o b)[i].rec, part |-> "delim"]
  BY <1>1 DEF Paired
<1>2. CASE i <= Len(a)
  <2>1. i \in 1 .. Len(a) /\ (a \o b)[i] = a[i]
    BY <1>1, <1>2
  <2>2. i < Len(a) /\ a[i + 1] = [rec |-> a[i].rec, part |-> "delim"]
    BY <2>1 DEF Paired
  <2>3. i + 1 \in 1 .. Len(a)
    BY <1>1, <2>2
  <2> QED BY <1>1, <2>1, <2>2, <2>3
<1>3. CASE ~(i <= Len(a))
  <2> DEFINE p == i - Len(a)
  <2>1. p \in 1 .. Len(b) /\ Len(a) + p = i
    BY <1>1, <1>3
  <2>2. (a \o b)[i] = b[p]
    BY <1>1, <2>1
  <2>3. p < Len(b) /\ b[p + 1] = [rec |-> b[p].rec, part |-> "delim"]
    BY <2>1, <2>2 DEF Paired
  <2>4. p + 1 \in 1 .. Len(b) /\ Len(a) + (p + 1) = i + 1
    BY <1>1, <2>1, <2>3
  <2>5. (a \o b)[i + 1] = b[p + 1]
    BY <1>1, <2>4
  <2>6. i < Len(a) + Len(b)
    BY <1>1, <2>1, <2>3
  <2> QED BY <2>2, <2>3, <2>5, <2>6
<1> QED BY <1>2, <1>3

LEMMA Associative ==
  ASSUME NEW a \in Seq(Piece), NEW b \in Seq(Piece), NEW c \in Seq(Piece)
  PROVE  (a \o b) \o c = a \o (b \o c)
  BY ConcatAssociative

LEMMA PieceCount == ASSUME NEW a \in Seq(Piece) PROVE Len(a) \in Nat
  OBVIOUS

LEMMA RoomForTwo ==
  ASSUME NEW x \in Nat, NEW y \in 1 .. 2, NEW z \in Nat, ~(x >= z - 2)
  PROVE  x + y <= z
  OBVIOUS

LEMMA ReplacedBy ==
  ASSUME NEW x, NEW w, NEW y, y = x, x \in Seq(Piece), Len(x) <= IovMax, Paired(w \o x)
  PROVE  y \in Seq(Piece) /\ Len(y) <= IovMax /\ Paired(w \o y)
  BY Zenon

LEMMA CacheSet ==
  ASSUME NEW S, NEW T, NEW c \in [S -> T], NEW r \in S, NEW v \in T,
         NEW d, d = [c EXCEPT ![r] = v]
  PROVE  d \in [S -> T] /\ d[r] = v /\ \A q \in S : q # r => d[q] = c[q]
  OBVIOUS

\* writev(2) takes pieces from the front of the vector.
LEMMA Taken ==
  ASSUME NEW a \in Seq(Piece), NEW b \in Seq(Piece), NEW n \in 1 .. Len(b)
  PROVE  /\ (a \o SubSeq(b, 1, n)) \o SubSeq(b, n + 1, Len(b)) = a \o b
         /\ SubSeq(b, 1, n) \in Seq(Piece) /\ SubSeq(b, n + 1, Len(b)) \in Seq(Piece)
         /\ Len(SubSeq(b, n + 1, Len(b))) <= Len(b)
<1> DEFINE f == SubSeq(b, 1, n)
           r == SubSeq(b, n + 1, Len(b))
<1>1. f \in Seq(Piece) /\ Len(f) = n /\ \A p \in 1 .. n : f[p] = b[p]
  OBVIOUS
<1>2. r \in Seq(Piece) /\ Len(r) = Len(b) - n /\ \A p \in 1 .. Len(b) - n : r[p] = b[n + p]
  OBVIOUS
<1> HIDE DEF f, r
<1>3. f \o r = b
  <2>1. /\ f \o r \in Seq(Piece) /\ Len(f \o r) = Len(b)
        /\ \A p \in 1 .. n : (f \o r)[p] = f[p]
        /\ \A p \in 1 .. Len(b) - n : (f \o r)[n + p] = r[p]
    <3>1. /\ f \o r \in Seq(Piece) /\ Len(f \o r) = Len(f) + Len(r)
          /\ \A p \in 1 .. Len(f) : (f \o r)[p] = f[p]
          /\ \A p \in 1 .. Len(r) : (f \o r)[Len(f) + p] = r[p]
      <4>1. f \in Seq(Piece) /\ r \in Seq(Piece)
        BY <1>1, <1>2
      <4> QED BY <4>1, Joined
    <3>2. n + (Len(b) - n) = Len(b)
      OBVIOUS
    <3> QED BY <1>1, <1>2, <3>1, <3>2
  <2>2. ASSUME NEW p \in 1 .. Len(b) PROVE (f \o r)[p] = b[p]
    <3>1. CASE p <= n
      <4>1. p \in 1 .. n
        BY <3>1
      <4> QED BY <1>1, <2>1, <4>1
    <3>2. CASE ~(p <= n)
      <4>1. p - n \in 1 .. Len(b) - n /\ n + (p - n) = p
        BY <3>2
      <4> QED BY <1>2, <2>1, <4>1
    <3> QED BY <3>1, <3>2
  <2>3. Len(f \o r) = Len(b) /\ \A p \in 1 .. Len(f \o r) : (f \o r)[p] = b[p]
    BY <2>1, <2>2
  <2> QED BY <2>1, <2>3, SeqEqual
<1>4. (a \o f) \o r = a \o (f \o r)
  <2>1. f \in Seq(Piece) /\ r \in Seq(Piece)
    BY <1>1, <1>2
  <2> QED BY <2>1, Associative
<1>5. Len(r) <= Len(b)
  BY <1>2
<1> QED BY <1>1, <1>2, <1>3, <1>4, <1>5 DEF f, r

-----------------------------------------------------------------------------
(***************************************************************************)
(* The steps that write                                                    *)
(***************************************************************************)

LEMMA EmitDirectStep == IInv /\ EmitDirect => IInv'
<1> SUFFICES ASSUME IInv, EmitDirect PROVE IInv'
  OBVIOUS
<1>0. PICK run : run = heap[1]
  OBVIOUS
<1> DEFINE rec == lines[runs[run].pos]
<1>1. /\ pc = "emit" /\ heap # <<>> /\ DirectMode
      /\ UNCHANGED <<options, given, open_end, target, files, operand, lines, merged, written, ok,
                     output, Run, Comparison, DirectMode>>
  BY SameComparison DEF EmitDirect, input_vars, Run
<1>2. CASE ~Skipped(run) /\ Full
  <2>1. pc' = "flush" /\ UNCHANGED <<runs, heap, node, building, caches, last, iov>>
    BY <1>0, <1>1, <1>2 DEF EmitDirect, heap_vars
  <2>2. Types'
    BY <1>1, <2>1 DEF IInv, Types
  <2>3. Heads' = Heads /\ \A r \in Run : Head_of(r)' = Head_of(r)
    BY <1>1, <2>1 DEF Heads, Head_of
  <2>4. HeapOrder' /\ CachesFilled' /\ HeapHoldsRuns'
    BY <1>1, <2>1, <2>3 DEF IInv, HeapOrder, CachesFilled, HasLine, HeapHoldsRuns, Merging
  <2> QED BY <1>1, <2>1, <2>2, <2>4 DEF IInv, RunsAreThere, HasLine, ModeIsKept, VectorFits
<1>3. CASE ~(~Skipped(run) /\ Full)
  <2>1. /\ iov' = IF Skipped(run) THEN iov ELSE iov \o Pieces(rec)
        /\ last' = IF options.unique /\ ~Skipped(run) THEN caches[run] ELSE last
        /\ Advance(run) /\ building' = building
        /\ caches' = IF runs'[run].pos < runs[run].end
                     THEN [caches EXCEPT ![run] = <<lines[runs'[run].pos].key>>]
                     ELSE caches
    BY <1>0, <1>1, <1>3 DEF EmitDirect
  <2>2. /\ run \in Run /\ HasLine(run)
        /\ runs' \in [Run -> [begin : Nat, end : Nat, pos : Nat]]
        /\ \A r \in Run : r # run => runs'[r] = runs[r]
        /\ runs'[run].end = runs[run].end /\ runs'[run].pos = runs[run].pos + 1
        /\ heap' \in Seq(Run) /\ node' \in Nat /\ pc' \in {"sift", "emit"}
        /\ RunsAreThere' /\ HeapHoldsRuns' /\ HeapOrder'
    BY <1>0, <1>1, <2>1, AdvanceKeeps
  <2> HIDE DEF rec
  <2>3. rec \in Record /\ runs[run].pos \in Nat
    BY <1>1, <2>2, HeadIsThere DEF IInv, rec, Types
  <2>4. caches \in [Run -> Seq(Texts)] /\ last \in Seq(Texts) /\ iov \in Seq(Piece) /\ written \in Seq(Piece)
    BY DEF IInv, Types
  <2>5. last' \in Seq(Texts)
    BY <2>1, <2>2, <2>4
  <2>6. /\ caches' \in [Run -> Seq(Texts)]
        /\ \A r \in Run : r # run => caches'[r] = caches[r]
        /\ HasLine(run)' => caches'[run] = <<Head_of(run)'>>
    <3>1. CASE runs'[run].pos < runs[run].end
      <4> DEFINE t == lines[runs'[run].pos].key
      <4>1. caches' = [caches EXCEPT ![run] = <<t>>]
        BY <2>1, <3>1
      <4>2. t \in Texts
        <5>1. runs'[run].end <= Len(lines') + 1 /\ runs'[run].pos > 0
          BY <2>2, <3>1, <1>1 DEF RunsAreThere, HasLine
        <5>2. runs'[run].pos \in Nat /\ runs'[run].end \in Nat /\ lines \in Seq(Record) /\ Len(lines) \in Nat
          <6>1. lines \in Seq(Record)
            BY DEF IInv, Types
          <6>2. runs'[run] \in [begin : Nat, end : Nat, pos : Nat]
            BY <2>2
          <6> QED BY <6>1, <6>2
        <5>3. runs'[run].pos \in 1 .. Len(lines)
          BY <1>1, <2>2, <3>1, <5>1, <5>2
        <5>4. lines[runs'[run].pos] \in Record
          BY <5>2, <5>3
        <5> QED BY <5>4 DEF Record
      <4>3. <<t>> \in Seq(Texts)
        BY <4>2, Single
      <4>4. Head_of(run)' = t
        BY <1>1 DEF Head_of
      <4> HIDE DEF t
      <4>5. run \in Run /\ caches \in [Run -> Seq(Texts)]
        BY <2>2, <2>4
      <4>6. /\ caches' \in [Run -> Seq(Texts)] /\ caches'[run] = <<t>>
            /\ \A r \in Run : r # run => caches'[r] = caches[r]
        BY <4>1, <4>3, <4>5, CacheSet
      <4> QED BY <4>4, <4>6
    <3>2. CASE ~(runs'[run].pos < runs[run].end)
      BY <2>1, <2>2, <2>4, <3>2 DEF HasLine
    <3> QED BY <3>1, <3>2
  <2>7. CachesFilled'
    <3> SUFFICES ASSUME NEW r \in Run, HasLine(r)' PROVE caches'[r] = <<Head_of(r)'>>
      BY <1>1 DEF CachesFilled
    <3>1. CASE r = run
      BY <2>6, <3>1
    <3>2. CASE r # run
      <4>1. HasLine(r) /\ Head_of(r)' = Head_of(r)
        BY <1>1, <2>2, <3>2 DEF HasLine, Head_of
      <4>2. caches[r] = <<Head_of(r)>>
        BY <1>1, <4>1 DEF IInv, CachesFilled, Merging
      <4> QED BY <2>6, <3>2, <4>1, <4>2
    <3> QED BY <3>1, <3>2
  <2>8. iov' \in Seq(Piece) /\ Len(iov') <= IovMax /\ Paired(written \o iov')
    <3>1. Len(iov) <= IovMax /\ Paired(written \o iov)
      BY <2>4, FitsIsPaired DEF IInv
    <3>2. CASE Skipped(run)
      BY <2>1, <2>4, <3>1, <3>2
    <3>3. CASE ~Skipped(run)
      <4> DEFINE new == Pieces(rec)
      <4>1. new \in Seq(Piece) /\ Len(new) \in 1 .. 2 /\ Paired(new)
        BY <2>3, PiecesPaired
      <4>2. iov' = iov \o new
        BY <2>1, <3>3
      <4>3. ~Full
        BY <1>3, <3>3
      <4> HIDE DEF new
      <4>4. iov \o new \in Seq(Piece) /\ Len(iov \o new) = Len(iov) + Len(new)
        BY <2>4, <4>1, Joined
      <4>5. Len(iov) \in Nat /\ IovMax \in Nat
        BY <2>4, PieceCount, ConstantsAssumption
      <4>6. Len(iov) + Len(new) <= IovMax
        <5>1. ~(Len(iov) >= IovMax - 2)
          BY <4>3, Zenon DEF Full
        <5>2. Len(new) \in 1 .. 2
          BY <4>1
        <5> QED BY <4>5, <5>1, <5>2, RoomForTwo
      <4>7. written \o iov \in Seq(Piece)
        BY <2>4, Joined
      <4>8. Paired((written \o iov) \o new)
        BY <3>1, <4>1, <4>7, PairedJoined
      <4>9. (written \o iov) \o new = written \o (iov \o new)
        BY <2>4, <4>1, Associative
      <4>10. Len(iov \o new) <= IovMax /\ Paired(written \o (iov \o new))
        BY <4>4, <4>6, <4>8, <4>9, Zenon
      <4>11. iov \o new \in Seq(Piece)
        BY <4>4, Zenon
      <4> QED BY <4>2, <4>10, <4>11, ReplacedBy
    <3> QED BY <3>2, <3>3
  <2>9. VectorFits'
    <3> DEFINE all == written \o iov'
    <3>1. DOMAIN all = 1 .. Len(all) /\ written' = written
      BY <1>1, <2>4, <2>8
    <3>2. Len(iov') <= IovMax /\ Paired(all)
      BY <2>8
    <3> SUFFICES Paired(all) => \A i \in DOMAIN all : all[i].part = "text" =>
                   /\ i < Len(all)
                   /\ all[i + 1] = [rec |-> all[i].rec, part |-> "delim"]
      BY <3>1, <3>2 DEF VectorFits
    <3> QED BY <3>1 DEF Paired
  <2>10. Types'
    BY <1>1, <2>1, <2>2, <2>5, <2>6, <2>8 DEF IInv, Types
  <2> QED BY <1>1, <2>2, <2>7, <2>9, <2>10 DEF IInv, ModeIsKept
<1> QED BY <1>2, <1>3

LEMMA FlushStep == IInv /\ Flush => IInv'
<1> SUFFICES ASSUME IInv, Flush PROVE IInv'
  OBVIOUS
<1>1. /\ pc = "flush"
      /\ UNCHANGED <<options, given, open_end, target, files, operand, lines, runs, heap, node, building,
                     caches, last, merged, ok, Run, Comparison, DirectMode>>
  BY SameComparison DEF Flush, input_vars, heap_vars, Run
<1>2. written \in Seq(Piece) /\ iov \in Seq(Piece)
  BY DEF IInv, Types
<1>3. Heads' = Heads /\ \A r \in Run : Head_of(r)' = Head_of(r)
  BY <1>1 DEF Heads, Head_of
<1>4. ASSUME NEW n \in 1 .. Len(iov),
             written' = written \o SubSeq(iov, 1, n), iov' = SubSeq(iov, n + 1, Len(iov)),
             pc' \in {"emit", "flush"}, output' = output
      PROVE  IInv'
  <2>1. /\ written' \o iov' = written \o iov
        /\ SubSeq(iov, 1, n) \in Seq(Piece) /\ iov' \in Seq(Piece)
        /\ Len(iov') <= Len(iov)
    BY <1>2, <1>4, Taken
  <2>2. written' \in Seq(Piece)
    BY <1>2, <1>4, <2>1, Joined
  <2>3. VectorFits'
    <3>1. Len(iov) <= IovMax /\ Len(iov) \in Nat /\ Len(iov') \in Nat /\ IovMax \in Nat
      BY <1>2, <2>1, ConstantsAssumption DEF IInv, VectorFits
    <3>2. Len(iov') <= IovMax
      BY <2>1, <3>1
    <3> QED BY <2>1, <3>2 DEF IInv, VectorFits
  <2>4. Types'
    BY <1>1, <1>4, <2>1, <2>2 DEF IInv, Types
  <2>5. HeapOrder' /\ CachesFilled' /\ HeapHoldsRuns'
    BY <1>1, <1>3, <1>4 DEF IInv, HeapOrder, CachesFilled, HasLine, HeapHoldsRuns, Merging
  <2>6. RunsAreThere' /\ ModeIsKept'
    BY <1>1, <1>4 DEF IInv, RunsAreThere, HasLine, ModeIsKept
  <2> QED BY <2>3, <2>4, <2>5, <2>6 DEF IInv
<1>5. CASE Fails /\ UNCHANGED <<written, iov>>
  <2>1. pc' = "ended" /\ output' \in Delivery
    BY <1>5, FailedTyped DEF Fails
  <2>2. Types'
    BY <1>1, <1>5, <2>1 DEF IInv, Types
  <2> QED BY <1>5, <2>1, <2>2
          DEF IInv, RunsAreThere, ModeIsKept, CachesFilled, HeapHoldsRuns, HeapOrder, Merging, VectorFits
<1>6. \/ \E n \in 1 .. Len(iov) :
           /\ written' = written \o SubSeq(iov, 1, n)
           /\ iov' = SubSeq(iov, n + 1, Len(iov))
           /\ pc' \in {"emit", "flush"}
           /\ output' = output
      \/ Fails /\ UNCHANGED <<written, iov>>
  BY DEF Flush
<1> QED BY <1>4, <1>5, <1>6

LEMMA ListedTyped ==
  ASSUME NEW n \in Nat, NEW S \in SUBSET (1 .. n), NEW f, \A i \in 1 .. n : f[i] \in Record,
         NEW h \in Listed(S)
  PROVE  [i \in DOMAIN h |-> f[h[i]]] \in Seq(Record)
<1>1. Len(h) \in Nat /\ h \in Seq(1 .. n) /\ \A i \in 1 .. Len(h) : h[i] \in S
  BY ListedOnce
<1>2. DOMAIN h = 1 .. Len(h)
  BY <1>1
<1>3. [i \in DOMAIN h |-> f[h[i]]] \in [1 .. Len(h) -> Record]
  BY <1>1, <1>2
<1> QED BY <1>1, <1>3, SeqOfFunction

LEMMA CloseDirectStep == IInv /\ CloseDirect => IInv'
<1> SUFFICES ASSUME IInv, CloseDirect PROVE IInv'
  OBVIOUS
<1>1. /\ pc = "emit" /\ DirectMode
      /\ UNCHANGED <<options, given, open_end, target, files, operand, lines, runs, heap, node, building,
                     caches, last, iov, merged, written, ok, Run, Comparison, DirectMode>>
  BY SameComparison DEF CloseDirect, input_vars, heap_vars, write_vars, Run
<1>2. Heads' = Heads /\ \A r \in Run : Head_of(r)' = Head_of(r)
  BY <1>1 DEF Heads, Head_of
<1>3. pc' \in {"flush", "ended"} /\ output' \in Delivery
  <2>1. CASE pc' = "flush" /\ UNCHANGED output
    BY <2>1 DEF IInv, Types
  <2>2. ASSUME pc' = "ended", NEW recs \in LinesOf(written), output' = Contract!Delivered(recs)
        PROVE  <1>3
    <3> DEFINE S == {i \in DOMAIN written : written[i].part # "delim"}
               f == [i \in DOMAIN written |-> written[i].rec]
    <3>1. PICK h \in Listed(S) : recs = [i \in DOMAIN h |-> written[h[i]].rec]
      BY <2>2 DEF LinesOf
    <3>2. /\ written \in Seq(Piece) /\ Len(written) \in Nat /\ DOMAIN written = 1 .. Len(written)
      BY DEF IInv, Types
    <3>3. S \in SUBSET (1 .. Len(written)) /\ \A i \in 1 .. Len(written) : f[i] \in Record
      <4>1. \A i \in 1 .. Len(written) : written[i] \in Piece
        BY <3>2
      <4> QED BY <3>2, <4>1 DEF Piece
    <3>4. \A i \in DOMAIN h : h[i] \in DOMAIN written
      <4>1. h \in [1 .. Cardinality(S) -> S]
        BY <3>1 DEF Listed
      <4> QED BY <4>1
    <3>5. recs = [i \in DOMAIN h |-> f[h[i]]]
      BY <3>1, <3>4
    <3>6. recs \in Seq(Record)
      <4> HIDE DEF S, f
      <4>1. [i \in DOMAIN h |-> f[h[i]]] \in Seq(Record)
        BY <3>2, <3>3, ListedTyped, Zenon
      <4> QED BY <3>5, <4>1, Zenon
    <3> QED BY <2>2, <3>6 DEF Contract!Delivered, Delivery
  <2>3. CASE Fails
    BY <2>3, FailedTyped DEF Fails
  <2> QED BY <2>1, <2>2, <2>3 DEF CloseDirect
<1>4. Types'
  BY <1>1, <1>3 DEF IInv, Types
<1>5. HeapOrder' /\ CachesFilled' /\ HeapHoldsRuns'
  BY <1>1, <1>2, <1>3 DEF IInv, HeapOrder, CachesFilled, HasLine, HeapHoldsRuns, Merging
<1> QED BY <1>1, <1>3, <1>4, <1>5 DEF IInv, RunsAreThere, HasLine, ModeIsKept, VectorFits

LEMMA EmitLineStep == IInv /\ EmitLine => IInv'
<1> SUFFICES ASSUME IInv, EmitLine PROVE IInv'
  OBVIOUS
<1>1. /\ pc = "emit" /\ heap # <<>> /\ ~DirectMode
      /\ merged' = Append(merged, lines[runs[heap[1]].pos]) /\ Advance(heap[1])
      /\ UNCHANGED <<options, given, open_end, target, files, operand, lines, building, caches, last, iov,
                     written, ok, output, Run, Comparison, DirectMode>>
  BY SameComparison DEF EmitLine, input_vars, Run
<1>2. /\ heap[1] \in Run /\ HasLine(heap[1])
      /\ runs' \in [Run -> [begin : Nat, end : Nat, pos : Nat]]
      /\ heap' \in Seq(Run) /\ node' \in Nat /\ pc' \in {"sift", "emit"}
      /\ RunsAreThere' /\ HeapHoldsRuns' /\ HeapOrder'
  BY <1>1, AdvanceKeeps
<1>3. lines[runs[heap[1]].pos] \in Record
  BY <1>1, <1>2, HeadIsThere DEF IInv
<1>4. merged' \in Seq(Record)
  BY <1>1, <1>3 DEF IInv, Types
<1>5. Types'
  BY <1>1, <1>2, <1>4 DEF IInv, Types
<1> QED BY <1>1, <1>2, <1>5 DEF IInv, ModeIsKept, CachesFilled, VectorFits

LEMMA ReplaceStep == IInv /\ Replace => IInv'
<1> SUFFICES ASSUME IInv, Replace PROVE IInv'
  OBVIOUS
<1>1. /\ lines' = merged /\ pc' = "write"
      /\ UNCHANGED <<options, given, open_end, target, files, operand, runs, heap, node, building,
                     caches, last, iov, merged, written, ok, output, Run>>
  BY DEF Replace, input_vars, heap_vars, write_vars, Run
<1>2. Types'
  BY <1>1 DEF IInv, Types
<1> QED BY <1>1, <1>2
        DEF IInv, RunsAreThere, ModeIsKept, CachesFilled, HeapHoldsRuns, HeapOrder, Merging, VectorFits

LEMMA WriteLinesStep == IInv /\ WriteLines => IInv'
<1> SUFFICES ASSUME IInv, WriteLines PROVE IInv'
  OBVIOUS
<1>1. /\ pc' = "ended"
      /\ UNCHANGED <<options, given, open_end, target, operand, lines, runs, heap, node, building,
                     caches, last, iov, merged, written, ok, Run>>
  BY DEF WriteLines, input_vars, heap_vars, write_vars, Run
<1>2. files' \in Seq(Seq(Record)) /\ Len(files') = Len(given) /\ output' \in Delivery
  <2>1. CASE Fails /\ UNCHANGED files
    BY <2>1, FailedTyped DEF Fails, IInv, Types
  <2>2. CASE ~(Fails /\ UNCHANGED files)
    <3> DEFINE first(i) == i = 1 \/ CompareKeys(lines[i - 1].key, lines[i].key) # 0
               S == {i \in DOMAIN lines : ~options.unique \/ first(i)}
    <3>1. PICK h \in Listed(S) : output' = Contract!Delivered([i \in DOMAIN h |-> lines[h[i]]])
      BY <2>2 DEF WriteLines
    <3>2. files' = Emptied
      BY <2>2 DEF WriteLines
    <3> HIDE DEF first
    <3>3. lines \in Seq(Record) /\ Len(lines) \in Nat /\ DOMAIN lines = 1 .. Len(lines)
      BY DEF IInv, Types
    <3>4. S \in SUBSET (1 .. Len(lines)) /\ \A i \in 1 .. Len(lines) : lines[i] \in Record
      BY <3>3
    <3> HIDE DEF S
    <3>5. [i \in DOMAIN h |-> lines[h[i]]] \in Seq(Record)
      BY <3>1, <3>3, <3>4, ListedTyped
    <3> QED BY <3>1, <3>2, <3>5, EmptiedTyped DEF Contract!Delivered, Delivery, IInv
  <2> QED BY <2>1, <2>2
<1>3. Types'
  BY <1>1, <1>2 DEF IInv, Types
<1> QED BY <1>1, <1>3
        DEF IInv, RunsAreThere, ModeIsKept, CachesFilled, HeapHoldsRuns, HeapOrder, Merging, VectorFits

-----------------------------------------------------------------------------
(***************************************************************************)
(* The theorems                                                            *)
(***************************************************************************)

LEMMA NextHolds == IInv /\ [Next]_vars => IInv'
<1> SUFFICES ASSUME IInv, [Next]_vars PROVE IInv'
  OBVIOUS
<1>1. CASE UNCHANGED vars
  <2>1. Comparison' = Comparison /\ DirectMode' = DirectMode /\ Run' = Run /\ Heads' = Heads
        /\ \A r \in Run : Head_of(r)' = Head_of(r)
    BY <1>1, SameComparison DEF vars, Run, Heads, Head_of
  <2>2. UNCHANGED <<pc, options, given, files, open_end, target, operand, lines, runs, heap, node,
                    building, caches, last, iov, merged, written, ok, output>>
    BY <1>1 DEF vars
  <2>3. Types' /\ RunsAreThere'
    BY <2>1, <2>2 DEF IInv, Types, RunsAreThere, HasLine
  <2>4. HeapOrder' /\ CachesFilled' /\ HeapHoldsRuns'
    BY <2>1, <2>2 DEF IInv, HeapOrder, CachesFilled, HasLine, HeapHoldsRuns, Merging
  <2> QED BY <2>1, <2>2, <2>3, <2>4 DEF IInv, ModeIsKept, VectorFits
<1> QED BY <1>1, ReadOperandStep, DispatchStep, OpenOutputStep, PrepareKeysStep, BuildHeapStep,
           HeapifyStep, SiftDownStep, EmitDirectStep, FlushStep, CloseDirectStep, EmitLineStep,
           ReplaceStep, WriteLinesStep DEF Next

\* Every variable has its type: the lines of the array, the runs' places in
\* it, the pieces of the vector and what is delivered at the end.
THEOREM TypeCorrect == Spec => []TypeOK
<1>1. IInv => TypeOK
  <2> SUFFICES ASSUME IInv PROVE TypeOK
    OBVIOUS
  <2>1. DOMAIN files = Run
    BY DEF IInv, Types, Run
  <2> QED BY <2>1 DEF IInv, Types, TypeOK, Piece, Delivery
<1> QED BY <1>1, InitHolds, NextHolds, PTL DEF Spec

\* While lines leave the heap it holds every run that has a line, once, finds
\* each by a key parsed from the line that is at its head, and has the least
\* at its root: for all options, also when -u drops lines in between
\* (merge_direct_output and merge_order_lines).
THEOREM HeapIsRightCorrect == Spec => []HeapIsRight
<1>1. IInv => HeapIsRight
  <2> SUFFICES ASSUME IInv PROVE HeapIsRight
    OBVIOUS
  <2>1. CachesAreHeads
    <3> SUFFICES ASSUME Merging, DirectMode, NEW r \in ToSet(heap) PROVE caches[r] = <<Head_of(r)>>
      BY DEF CachesAreHeads
    <3>1. r \in Run /\ HasLine(r)
      BY DEF IInv, HeapHoldsRuns, HasLine
    <3> QED BY <3>1 DEF IInv, CachesFilled
  <2>2. RootIsLeast
    <3> SUFFICES ASSUME pc = "emit", NEW n \in 2 .. Len(heap) PROVE Less(heap[1], heap[n])
      BY DEF RootIsLeast
    <3>1. Precedes(Comparison, Heads, heap[1], heap[n])
      BY RootFirst DEF IInv, HeapOrder, Merging
    <3>2. 1 \in 1 .. Len(heap) /\ n \in 1 .. Len(heap)
      BY DEF IInv, Types
    <3>3. heap[1] \in Run /\ heap[n] \in Run /\ HasLine(heap[1]) /\ HasLine(heap[n])
      BY <3>2, HeapMembers DEF IInv, Merging
    <3> QED BY <3>1, <3>3, LessIsPrecedes DEF IInv, Merging
  <2> QED BY <2>1, <2>2 DEF IInv, HeapIsRight
<1> QED BY <1>1, InitHolds, NextHolds, PTL DEF Spec

\* The vector never has more pieces than room, and a last line without a
\* delimiter gets one however writev(2) takes the pieces: for any size of the
\* vector above two (merge_fast_append_line, merge_fast_flush_iov).
THEOREM VectorFitsCorrect == Spec => []VectorFits
<1>1. IInv => VectorFits
  BY DEF IInv
<1> QED BY <1>1, InitHolds, NextHolds, PTL DEF Spec

-----------------------------------------------------------------------------
(***************************************************************************)
(* Listed and the lines of pieces                                          *)
(***************************************************************************)

\* There is one list of the numbers of a set.
LEMMA ListedUnique ==
  ASSUME NEW S \in SUBSET Nat, IsFiniteSet(S), NEW g \in Listed(S), NEW h \in Listed(S)
  PROVE  g = h
<1> DEFINE k == Cardinality(S)
<1>1. /\ k \in Nat /\ g \in [1 .. k -> S]
      /\ \A i, j \in 1 .. k : (i < j => g[i] < g[j]) /\ (g[i] = g[j] => i = j)
      /\ \A x \in S : \E i \in 1 .. k : g[i] = x
  BY ListedEvery
<1>2. /\ h \in [1 .. k -> S]
      /\ \A i, j \in 1 .. k : (i < j => h[i] < h[j]) /\ (h[i] = h[j] => i = j)
      /\ \A x \in S : \E i \in 1 .. k : h[i] = x
  BY ListedEvery
<1> HIDE DEF k
<1> DEFINE Wrong == {i \in 1 .. k : g[i] # h[i]}
<1>3. ASSUME Wrong # {} PROVE FALSE
  <2>1. Wrong \in SUBSET Nat
    OBVIOUS
  <2>2. PICK i \in Wrong : \A j \in Wrong : i <= j
    <3> HIDE DEF Wrong
    <3> QED BY <1>3, <2>1, LeastNumber
  <2>3. i \in 1 .. k /\ g[i] # h[i] /\ \A j \in 1 .. k : j < i => g[j] = h[j]
    BY <1>1, <2>2
  <2>4. g[i] \in S /\ h[i] \in S /\ g[i] \in Nat /\ h[i] \in Nat
    <3>1. g[i] \in S /\ h[i] \in S
      BY <1>1, <1>2, <2>3
    <3>2. \A x \in S : x \in Nat
      OBVIOUS
    <3> QED BY <3>1, <3>2
  <2>5. PICK p \in 1 .. k : h[p] = g[i]
    BY <1>2, <2>4
  <2>6. PICK q \in 1 .. k : g[q] = h[i]
    BY <1>1, <2>4
  <2>7. i < p
    <3>1. p # i
      BY <2>3, <2>5
    <3>2. ~(p < i)
      <4>1. ASSUME p < i PROVE FALSE
        <5>1. g[p] = g[i]
          BY <2>3, <2>5, <4>1
        <5> QED BY <1>1, <1>2, <2>3, <4>1, <5>1
      <4> QED BY <4>1
    <3> QED BY <1>1, <2>3, <3>1, <3>2
  <2>8. i < q
    <3>1. q # i
      BY <2>3, <2>6
    <3>2. ~(q < i)
      <4>1. ASSUME q < i PROVE FALSE
        <5>1. h[q] = h[i]
          BY <2>3, <2>6, <4>1
        <5> QED BY <1>1, <1>2, <2>3, <4>1, <5>1
      <4> QED BY <4>1
    <3> QED BY <1>1, <2>3, <3>1, <3>2
  <2>9. h[i] < g[i]
    BY <1>2, <2>3, <2>5, <2>7
  <2>10. g[i] < h[i]
    BY <1>1, <2>3, <2>6, <2>8
  <2> QED BY <2>4, <2>9, <2>10
<1>4. \A i \in 1 .. k : g[i] = h[i]
  BY <1>3
<1>5. g = [i \in 1 .. k |-> g[i]] /\ h = [i \in 1 .. k |-> h[i]]
  BY <1>1, <1>2
<1> QED BY <1>4, <1>5

\* A number above all others comes last.
LEMMA ListedMore ==
  ASSUME NEW n \in Nat, NEW S \in SUBSET (1 .. n), NEW h \in Listed(S)
  PROVE  Append(h, n + 1) \in Listed(S \cup {n + 1})
<1> DEFINE k == Cardinality(S)
           T == S \cup {n + 1}
           g == Append(h, n + 1)
<1>1. IsFiniteSet(S) /\ k \in Nat /\ n + 1 \notin S
  <2>1. IsFiniteSet(S)
    <3>1. IsFiniteSet(1 .. n)
      BY FS_Interval
    <3> QED BY <3>1, FS_Subset
  <2> QED BY <2>1, FS_CardinalityType
<1>2. Cardinality(T) = k + 1
  BY <1>1, FS_AddElement
<1>3. h \in [1 .. k -> S] /\ \A i, j \in 1 .. k : i < j => h[i] < h[j]
  BY DEF Listed
<1> HIDE DEF k
<1>4. h \in Seq(S) /\ Len(h) = k
  BY <1>1, <1>3, SeqOfFunction
<1>5. h \in Seq(T) /\ n + 1 \in T
  <2>1. h \in [1 .. k -> T]
    BY <1>3
  <2> QED BY <1>1, <2>1, SeqOfFunction
<1>6. /\ g \in Seq(T) /\ Len(g) = k + 1 /\ g[k + 1] = n + 1
      /\ \A i \in 1 .. k : g[i] = h[i]
  <2> HIDE DEF T
  <2> QED BY <1>1, <1>4, <1>5
<1> HIDE DEF g
<1>7. g \in [1 .. Cardinality(T) -> T]
  <2> HIDE DEF T
  <2> QED BY <1>2, <1>6
<1>8. ASSUME NEW i \in 1 .. k + 1, NEW j \in 1 .. k + 1, i < j PROVE g[i] < g[j]
  <2>1. i \in 1 .. k
    BY <1>1, <1>8
  <2>2. CASE j \in 1 .. k
    BY <1>3, <1>6, <1>8, <2>1, <2>2
  <2>3. CASE j = k + 1
    <3>1. h[i] \in 1 .. n
      BY <1>3, <2>1
    <3> QED BY <1>6, <2>1, <2>3, <3>1
  <2> QED BY <1>1, <2>2, <2>3
<1>9. DOMAIN g = 1 .. k + 1
  BY <1>2, <1>7
<1>10. \A i, j \in DOMAIN g : i < j => g[i] < g[j]
  BY <1>8, <1>9
<1>11. g \in Listed(T)
  BY <1>7, <1>10 DEF Listed
<1> QED BY <1>11 DEF g

LEMMA ListedAll == ASSUME NEW n \in Nat PROVE [i \in 1 .. n |-> i] \in Listed(1 .. n)
<1>1. Cardinality(1 .. n) = n
  BY FS_Interval
<1> QED BY <1>1 DEF Listed

\* The pieces that are lines or their texts.
TextsOf(pieces) == {i \in DOMAIN pieces : pieces[i].part # "delim"}

LEMMA LinesOfIs ==
  ASSUME NEW all \in Seq(Piece)
  PROVE  /\ TextsOf(all) \in SUBSET (1 .. Len(all))
         /\ \A t : t \in LinesOf(all) <=>
              \E h \in Listed(TextsOf(all)) : t = [i \in DOMAIN h |-> all[h[i]].rec]
         /\ \A t \in LinesOf(all) : t \in Seq(Record)
         /\ \A t, u \in LinesOf(all) : t = u
<1> DEFINE S == TextsOf(all)
           n == Len(all)
<1>1. S \in SUBSET (1 .. n) /\ n \in Nat
  BY DEF TextsOf
<1>2. \A t : t \in LinesOf(all) <=> \E h \in Listed(S) : t = [i \in DOMAIN h |-> all[h[i]].rec]
  BY DEF LinesOf, TextsOf
<1> HIDE DEF S
<1>3. \A g, h \in Listed(S) : g = h
  <2>1. IsFiniteSet(1 .. n) /\ S \in SUBSET Nat
    BY <1>1, FS_Interval
  <2>2. IsFiniteSet(S)
    BY <1>1, <2>1, FS_Subset
  <2> QED BY <2>1, <2>2, ListedUnique
<1>4. ASSUME NEW t \in LinesOf(all) PROVE t \in Seq(Record)
  <2>1. PICK h \in Listed(S) : t = [i \in DOMAIN h |-> all[h[i]].rec]
    BY <1>2
  <2> DEFINE f == [i \in 1 .. n |-> all[i].rec]
  <2>2. \A i \in 1 .. n : f[i] \in Record /\ f[i] = all[i].rec
    <3>1. \A i \in 1 .. n : all[i] \in Piece
      OBVIOUS
    <3>2. \A p \in Piece : p.rec \in Record
      BY DEF Piece
    <3> QED BY <3>1, <3>2
  <2>3. h \in Seq(1 .. n) /\ Len(h) \in Nat
    BY <1>1, ListedOnce
  <2>4. DOMAIN h = 1 .. Len(h) /\ \A i \in 1 .. Len(h) : h[i] \in 1 .. n
    BY <2>3
  <2> HIDE DEF f, n
  <2>5. [i \in DOMAIN h |-> f[h[i]]] \in Seq(Record)
    BY <1>1, <2>2, ListedTyped
  <2>6. t = [i \in DOMAIN h |-> f[h[i]]]
    BY <2>1, <2>2, <2>4
  <2> QED BY <2>5, <2>6
<1>5. \A t, u \in LinesOf(all) : t = u
  BY <1>2, <1>3
<1> QED BY <1>1, <1>2, <1>4, <1>5 DEF S

LEMMA NoLines == <<>> \in LinesOf(<<>>)
<1> DEFINE all == <<>>
<1>1. all \in Seq(Piece) /\ Len(all) = 0
  OBVIOUS
<1>2. TextsOf(all) = 1 .. 0
  <2> HIDE DEF all
  <2>1. TextsOf(all) \in SUBSET (1 .. Len(all))
    BY <1>1, LinesOfIs
  <2> QED BY <1>1, <2>1
<1>3. [i \in 1 .. 0 |-> i] \in Listed(1 .. 0)
  BY ListedAll
<1> DEFINE h == [i \in 1 .. 0 |-> i]
<1>4. DOMAIN h = 1 .. 0
  OBVIOUS
<1>5. [i \in DOMAIN h |-> all[h[i]].rec] = <<>>
  OBVIOUS
<1> HIDE DEF h, all
<1>6. <<>> \in LinesOf(all)
  BY <1>1, <1>2, <1>3, <1>5, LinesOfIs DEF h
<1> QED BY <1>6 DEF all

\* A line that joins the pieces joins the lines.
LEMMA LinesGrow ==
  ASSUME NEW all \in Seq(Piece), NEW t \in LinesOf(all), NEW rec \in Record
  PROVE  Append(t, rec) \in LinesOf(all \o Pieces(rec))
<1> DEFINE new == Pieces(rec)
           more == all \o new
           n == Len(all)
<1>1. /\ new \in Seq(Piece) /\ Len(new) \in 1 .. 2
      /\ new[1].rec = rec /\ new[1].part # "delim"
      /\ 2 \in 1 .. Len(new) => new[2].part = "delim"
  <2>1. new \in Seq(Piece) /\ Len(new) \in 1 .. 2
    BY PiecesPaired
  <2>2. \/ new = <<[rec |-> rec, part |-> "text"], [rec |-> rec, part |-> "delim"]>>
        \/ new = <<[rec |-> rec, part |-> "line"]>>
    BY DEF Pieces
  <2>3. CASE new = <<[rec |-> rec, part |-> "text"], [rec |-> rec, part |-> "delim"]>>
    <3>1. new[1] = [rec |-> rec, part |-> "text"] /\ new[2] = [rec |-> rec, part |-> "delim"]
      BY <2>3
    <3> QED BY <2>1, <3>1
  <2>4. CASE new = <<[rec |-> rec, part |-> "line"]>>
    <3>1. new[1] = [rec |-> rec, part |-> "line"] /\ Len(new) = 1
      BY <2>4
    <3> QED BY <2>1, <3>1
  <2> QED BY <2>2, <2>3, <2>4
<1> HIDE DEF new
<1>2. /\ more \in Seq(Piece) /\ Len(more) = n + Len(new) /\ n \in Nat
      /\ \A p \in 1 .. n : more[p] = all[p]
      /\ \A p \in 1 .. Len(new) : more[n + p] = new[p]
  BY <1>1, Joined
<1> HIDE DEF more
<1>3. more[n + 1].rec = rec /\ more[n + 1].part # "delim"
  BY <1>1, <1>2
<1>4. \A p \in 1 .. Len(more) : p \in 1 .. n \/ p = n + 1 \/ more[p].part = "delim"
  <2> SUFFICES ASSUME NEW p \in 1 .. Len(more), p \notin 1 .. n, p # n + 1
               PROVE  more[p].part = "delim"
    OBVIOUS
  <2>1. p = n + 2 /\ 2 \in 1 .. Len(new)
    <3> DEFINE m == Len(new)
    <3>1. n \in Nat /\ m \in 1 .. 2 /\ p \in 1 .. n + m /\ p \notin 1 .. n /\ p # n + 1
      BY <1>1, <1>2
    <3> HIDE DEF n, m
    <3>2. p = n + 2 /\ 2 \in 1 .. m
      BY <3>1
    <3> QED BY <3>2 DEF m
  <2> QED BY <1>1, <1>2, <2>1
<1>5. TextsOf(more) = TextsOf(all) \cup {n + 1}
  <2>1. DOMAIN more = 1 .. Len(more) /\ DOMAIN all = 1 .. n /\ n + 1 \in 1 .. Len(more)
    BY <1>1, <1>2
  <2>2. \A p \in 1 .. n : p \in 1 .. Len(more)
    BY <1>1, <1>2
  <2> QED BY <1>2, <1>3, <1>4, <2>1, <2>2 DEF TextsOf
<1>6. PICK h \in Listed(TextsOf(all)) : t = [i \in DOMAIN h |-> all[h[i]].rec]
  BY LinesOfIs
<1>7. TextsOf(all) \in SUBSET (1 .. n) /\ n \in Nat
  BY LinesOfIs
<1> DEFINE g == Append(h, n + 1)
<1>8. g \in Listed(TextsOf(more))
  BY <1>5, <1>7, ListedMore
<1>9. h \in Seq(1 .. n) /\ Len(h) \in Nat
  BY <1>7, ListedOnce
<1>10. /\ DOMAIN h = 1 .. Len(h) /\ DOMAIN g = 1 .. Len(h) + 1
       /\ \A i \in 1 .. Len(h) : g[i] = h[i] /\ h[i] \in 1 .. n
       /\ g[Len(h) + 1] = n + 1
  BY <1>9
<1> HIDE DEF g, n
<1>11. t \in Seq(Record) /\ Len(t) = Len(h) /\ \A i \in 1 .. Len(h) : t[i] = all[h[i]].rec
  <2>1. t \in Seq(Record)
    BY LinesOfIs
  <2>2. DOMAIN t = 1 .. Len(h)
    BY <1>6, <1>10
  <2> QED BY <1>6, <1>9, <1>10, <2>1, <2>2
<1>12. Append(t, rec) = [i \in DOMAIN g |-> more[g[i]].rec]
  <2> DEFINE u == Append(t, rec)
  <2>1. /\ DOMAIN u = 1 .. Len(h) + 1 /\ u[Len(h) + 1] = rec
        /\ \A i \in 1 .. Len(h) : u[i] = t[i]
        /\ u = [i \in 1 .. Len(h) + 1 |-> u[i]]
    <3>1. u \in Seq(Record) /\ Len(u) = Len(t) + 1
      BY <1>11
    <3>2. u[Len(t) + 1] = rec /\ \A i \in 1 .. Len(t) : u[i] = t[i]
      BY <1>11
    <3> HIDE DEF u
    <3>3. DOMAIN u = 1 .. Len(h) + 1 /\ u = [i \in DOMAIN u |-> u[i]]
      BY <1>11, <3>1
    <3> QED BY <1>11, <3>2, <3>3
  <2> HIDE DEF u
  <2>2. ASSUME NEW i \in 1 .. Len(h) + 1 PROVE u[i] = more[g[i]].rec
    <3>1. CASE i \in 1 .. Len(h)
      BY <1>2, <1>10, <1>11, <2>1, <3>1, ZenonT(60)
    <3>2. CASE i = Len(h) + 1
      BY <1>3, <1>10, <2>1, <3>2
    <3> QED BY <1>9, <3>1, <3>2
  <2>3. u = [i \in DOMAIN g |-> more[g[i]].rec]
    BY <1>10, <2>1, <2>2
  <2> QED BY <2>3 DEF u
<1>13. Append(t, rec) \in LinesOf(more)
  BY <1>2, <1>8, <1>12, LinesOfIs
<1> QED BY <1>13 DEF more, new

-----------------------------------------------------------------------------
(***************************************************************************)
(* Texts by their places                                                   *)
(***************************************************************************)

\* Order numbers the texts as the comparison orders them.
LEMMA OrderIs ==
  ASSUME IsFiniteSet(Texts), options \in OptionsType
  PROVE  /\ Order \in [Texts -> 0 .. Cardinality(Texts)]
         /\ \A x, y \in Texts : /\ Order[x] < Order[y] <=> Comparison[<<x, y>>] < 0
                                /\ Order[x] = Order[y] <=> Comparison[<<x, y>>] = 0
<1> DEFINE cmp == Comparison
           Less0(y) == {s \in Texts : cmp[<<s, y>>] < 0}
<1>1. IsOrder(cmp)
  BY ComparisonIsOrder
<1>2. Order = [y \in Texts |-> Cardinality(Less0(y))]
  BY DEF Order, Comparison
<1> HIDE DEF cmp
<1>3. \A y \in Texts : /\ IsFiniteSet(Less0(y)) /\ Cardinality(Less0(y)) \in Nat
                       /\ Cardinality(Less0(y)) <= Cardinality(Texts)
  BY FS_Subset, FS_CardinalityType
<1>4. Cardinality(Texts) \in Nat
  BY FS_CardinalityType
<1>5. ASSUME NEW x \in Texts, NEW y \in Texts, cmp[<<x, y>>] <= 0
      PROVE  Less0(x) \in SUBSET Less0(y)
  <2> SUFFICES ASSUME NEW s \in Texts, cmp[<<s, x>>] < 0 PROVE cmp[<<s, y>>] < 0
    OBVIOUS
  <2>1. /\ cmp[<<s, x>>] \in Int /\ cmp[<<s, y>>] \in Int
        /\ cmp[<<y, s>>] = -cmp[<<s, y>>] /\ cmp[<<x, s>>] = -cmp[<<s, x>>]
        /\ cmp[<<x, y>>] <= 0 /\ cmp[<<y, s>>] <= 0 => cmp[<<x, s>>] <= 0
    BY <1>1 DEF IsOrder
  <2> QED BY <1>5, <2>1
<1>6. ASSUME NEW x \in Texts, NEW y \in Texts, cmp[<<x, y>>] < 0
      PROVE  Cardinality(Less0(x)) < Cardinality(Less0(y))
  <2>1. cmp[<<x, y>>] \in Int /\ cmp[<<x, x>>] \in Int /\ cmp[<<x, x>>] = -cmp[<<x, x>>]
    BY <1>1 DEF IsOrder
  <2>2. x \in Less0(y) /\ x \notin Less0(x)
    BY <1>6, <2>1
  <2>3. Less0(x) \in SUBSET Less0(y) /\ Less0(x) # Less0(y)
    BY <1>5, <1>6, <2>1, <2>2
  <2>4. /\ Cardinality(Less0(x)) <= Cardinality(Less0(y))
        /\ Cardinality(Less0(x)) # Cardinality(Less0(y))
    <3> DEFINE a == Less0(x)
               b == Less0(y)
    <3>1. a \in SUBSET b /\ a # b /\ IsFiniteSet(b)
      BY <1>3, <2>3
    <3> HIDE DEF a, b
    <3>2. Cardinality(a) <= Cardinality(b) /\ (Cardinality(b) = Cardinality(a) => b = a)
      BY <3>1, FS_Subset
    <3>3. Cardinality(a) <= Cardinality(b) /\ Cardinality(a) # Cardinality(b)
      BY <3>1, <3>2
    <3> QED BY <3>3 DEF a, b
  <2> QED BY <1>3, <2>4, SMTT(30)
<1>7. ASSUME NEW x \in Texts, NEW y \in Texts, cmp[<<x, y>>] = 0
      PROVE  Cardinality(Less0(x)) = Cardinality(Less0(y))
  <2>1. cmp[<<y, x>>] = -cmp[<<x, y>>]
    BY <1>1 DEF IsOrder
  <2>2. Less0(x) = Less0(y)
    BY <1>5, <1>7, <2>1
  <2> QED BY <2>2
<1> DEFINE c(y) == Cardinality(Less0(y))
<1>8. \A y \in Texts : Order[y] = c(y) /\ c(y) \in 0 .. Cardinality(Texts) /\ c(y) \in Nat
  <2>1. \A y \in Texts : Order[y] = c(y)
    BY <1>2
  <2>2. \A y \in Texts : c(y) \in Nat /\ c(y) <= Cardinality(Texts)
    BY <1>3
  <2> HIDE DEF c
  <2> QED BY <1>4, <2>1, <2>2
<1>9. Order \in [Texts -> 0 .. Cardinality(Texts)]
  <2>1. Order = [y \in Texts |-> c(y)]
    BY <1>2
  <2> HIDE DEF c
  <2> QED BY <1>8, <2>1
<1>10. ASSUME NEW x \in Texts, NEW y \in Texts
       PROVE  /\ Order[x] < Order[y] <=> cmp[<<x, y>>] < 0
              /\ Order[x] = Order[y] <=> cmp[<<x, y>>] = 0
  <2>1. cmp[<<x, y>>] \in Int /\ cmp[<<y, x>>] = -cmp[<<x, y>>]
    BY <1>1 DEF IsOrder
  <2>2. /\ cmp[<<x, y>>] < 0 => c(x) < c(y)
        /\ cmp[<<y, x>>] < 0 => c(y) < c(x)
        /\ cmp[<<x, y>>] = 0 => c(x) = c(y)
    BY <1>6, <1>7
  <2> HIDE DEF c
  <2> QED BY <1>8, <2>1, <2>2
<1> QED BY <1>9, <1>10 DEF cmp

LEMMA SameOrder == options' = options => Order' = Order
<1> SUFFICES ASSUME options' = options PROVE Order' = Order
  OBVIOUS
<1>1. LooksElsewhere' = LooksElsewhere /\ LastResort' = LastResort
  BY DEF LooksElsewhere, LastResort
<1>2. \A x, y \in Texts : CompareLines(x, y)' = CompareLines(x, y)
  BY <1>1 DEF CompareLines, CompareKeys
<1> QED BY <1>2 DEF Order

\* With -u lines are equal when their keys are, and the cached keys say the
\* same.
LEMMA EqualKeys ==
  ASSUME options \in OptionsType, NEW x \in Texts, NEW y \in Texts, options.unique
  PROVE  /\ Comparison[<<x, y>>] = 0 <=> CompareKeys(x, y) = 0
         /\ DirectMode => CompareKeys(x, y) = CompareCaches(x, y)
<1>1. Comparison[<<x, y>>] = CompareLines(x, y)
  BY DEF Comparison
<1>2. ~LastResort /\ options.reverse \in BOOLEAN /\ options.key_reverse \in BOOLEAN
  BY DEF LastResort, OptionsType
<1>3. CompareKeys(x, y) \in {-1, 0, 1}
  BY DEF CompareKeys, Sign
<1>4. \A r \in {-1, 0, 1} : \A d \in BOOLEAN : Directed(r, d) = 0 <=> r = 0
  BY DEF Directed
<1>5. \/ CompareLines(x, y) = Directed(CompareKeys(x, y), options.reverse)
      \/ CompareLines(x, y) = Directed(CompareKeys(x, y), options.key_reverse)
  BY <1>2 DEF CompareLines
<1>6. Comparison[<<x, y>>] = 0 <=> CompareKeys(x, y) = 0
  BY <1>1, <1>2, <1>3, <1>4, <1>5
<1>7. ASSUME DirectMode PROVE CompareKeys(x, y) = CompareCaches(x, y)
  <2>1. ~LooksElsewhere
    BY <1>7 DEF DirectMode, LooksElsewhere, OptionsType
  <2> QED BY <2>1 DEF CompareKeys, CompareCaches
<1> QED BY <1>6, <1>7

-----------------------------------------------------------------------------
(***************************************************************************)
(* What is read and merged                                                 *)
(***************************************************************************)

\* The operands' lines as they are when rank starts.
Operands == Numbered(given)

InputsSorted ==
  \A r \in Run : \A i, j \in DOMAIN given[r] :
    i < j => Comparison[<<given[r][i], given[r][j]>>] <= 0

\* The lines of a run are those of its operand, from begin on.
IsRead(r) ==
  /\ runs[r].begin > 0 /\ runs[r].begin <= runs[r].pos /\ runs[r].pos <= runs[r].end
  /\ runs[r].end = runs[r].begin + Len(Operands[r])
  /\ \A i \in 1 .. Len(Operands[r]) : lines[runs[r].begin + i - 1] = Operands[r][i]

LinesRead ==
  /\ pc = "read" => files = Operands
  /\ pc = "read" /\ ok => \A r \in 1 .. operand : IsRead(r)
  /\ pc \notin {"read", "write", "ended"} => \A r \in Run : IsRead(r)

\* Before lines leave the heap every run is at its first line.
NothingTaken ==
  /\ pc \in {"read", "direct", "prepare", "build"} =>
       iov = <<>> /\ merged = <<>> /\ written = <<>> /\ last = <<>>
  /\ pc = "read" /\ ok => \A r \in 1 .. operand : runs[r].pos = runs[r].begin
  /\ pc \in {"direct", "prepare", "build"} => \A r \in Run : runs[r].pos = runs[r].begin

\* The first line of every run that has not left the heap.
Onward == [r \in Run |-> (runs[r].pos - runs[r].begin) + 1]

\* A merge that has come as far as the runs has written t.
TakenSoFar(once, t) == MergedSoFar(Operands, Order, once, Onward, t)

\* The last line that was written is the one -u compares with.
LastIs(t) ==
  options.unique => IF t = <<>> THEN last = <<>> ELSE last = <<t[Len(t)].key>>

LinesTaken ==
  Merging => IF DirectMode
             THEN \E t \in LinesOf(written \o iov) :
                    TakenSoFar(options.unique, t) /\ LastIs(t)
             ELSE TakenSoFar(FALSE, merged)

DInv ==
  /\ InputsSorted
  /\ pc # "ended" => output = Contract!NotYet
  /\ LinesRead /\ NothingTaken /\ LinesTaken
  /\ pc = "write" => lines = StableSort(AllRecords, Order)

-----------------------------------------------------------------------------
(***************************************************************************)
(* Facts about the operands and the runs                                   *)
(***************************************************************************)

LEMMA RecordsRank ==
  ASSUME IsFiniteSet(Texts), options \in OptionsType PROVE Ranked(Record, Order)
<1>1. Order \in [Texts -> 0 .. Cardinality(Texts)]
  BY OrderIs
<1>2. \A x \in Texts : Order[x] \in Nat
  BY <1>1
<1> QED BY <1>2 DEF Ranked, Record

LEMMA OperandsAre ==
  ASSUME Types
  PROVE  /\ Operands \in Seq(Seq(Record)) /\ Len(Operands) = Len(given)
         /\ Run = 1 .. Len(Operands) /\ Len(Operands) \in Nat
         /\ \A r \in Run : Operands[r] \in Seq(Record) /\ Len(Operands[r]) = Len(given[r])
         /\ \A r \in Run : \A i \in 1 .. Len(given[r]) : Operands[r][i].key = given[r][i]
         /\ RunsInPosOrder(Operands) /\ \A r \in 1 .. Len(Operands) : InPosOrder(Operands[r])
<1>1. given \in Seq(Seq(Texts))
  BY DEF Types
<1>2. Operands = AllNumbered(given)
  BY DEF Operands, Numbered, AllNumbered, Before
<1>3. /\ Operands \in Seq(Seq(Record)) /\ Len(Operands) = Len(given)
      /\ \A r \in 1 .. Len(given) : Len(Operands[r]) = Len(given[r])
      /\ \A r \in 1 .. Len(given) : \A i \in 1 .. Len(given[r]) : Operands[r][i].key = given[r][i]
      /\ RunsInPosOrder(Operands) /\ \A r \in 1 .. Len(Operands) : InPosOrder(Operands[r])
  BY <1>1, <1>2, AllNumberedAre DEF Record
<1>4. Run = 1 .. Len(given) /\ Len(given) \in Nat
  BY <1>1 DEF Run
<1>5. \A r \in 1 .. Len(Operands) : Operands[r] \in Seq(Record)
  BY <1>3
<1> QED BY <1>3, <1>4, <1>5

LEMMA OperandsSorted ==
  ASSUME IsFiniteSet(Texts), Types, InputsSorted
  PROVE  \A r \in 1 .. Len(Operands) : InSortOrder(Operands[r], Order)
<1> SUFFICES ASSUME NEW r \in Run, NEW i \in 1 .. Len(Operands[r]), NEW j \in 1 .. Len(Operands[r]), i < j
             PROVE  Sooner(Order, Operands[r][i], Operands[r][j])
  BY OperandsAre DEF InSortOrder
<1> DEFINE a == Operands[r][i]
           b == Operands[r][j]
<1>1. a \in Record /\ b \in Record /\ a.key = given[r][i] /\ b.key = given[r][j]
  <2>1. Operands[r] \in Seq(Record) /\ Len(Operands[r]) = Len(given[r])
    BY OperandsAre
  <2>2. a \in Record /\ b \in Record
    BY <2>1
  <2> QED BY <2>1, <2>2, OperandsAre
<1>2. a.pos < b.pos
  BY OperandsAre DEF InPosOrder
<1>3. Comparison[<<a.key, b.key>>] <= 0
  <2>1. given[r] \in Seq(Texts)
    <3>1. given \in Seq(Seq(Texts)) /\ r \in 1 .. Len(given)
      BY RunIsNumber DEF Types
    <3> QED BY <3>1
  <2>2. i \in DOMAIN given[r] /\ j \in DOMAIN given[r]
    BY <2>1, OperandsAre
  <2> QED BY <1>1, <2>2 DEF InputsSorted
<1>4. Comparison[<<a.key, b.key>>] \in Int
  <2>1. a.key \in Texts /\ b.key \in Texts
    BY <1>1 DEF Record
  <2> QED BY <2>1, ComparisonIsOrder DEF IsOrder, Types
<1> HIDE DEF a, b
<1>5. Order[a.key] < Order[b.key] \/ Order[a.key] = Order[b.key]
  <2>1. a.key \in Texts /\ b.key \in Texts
    BY <1>1 DEF Record
  <2>2. Comparison[<<a.key, b.key>>] < 0 \/ Comparison[<<a.key, b.key>>] = 0
    BY <1>3, <1>4
  <2> QED BY <2>1, <2>2, OrderIs DEF Types
<1>6. Sooner(Order, a, b)
  BY <1>2, <1>5 DEF Sooner
<1> QED BY <1>6 DEF a, b

\* Where the runs are.
LEMMA OnwardIs ==
  ASSUME Types, \A r \in Run : IsRead(r)
  PROVE  /\ Onward \in [1 .. Len(Operands) -> Nat \ {0}]
         /\ \A r \in Run :
              /\ Onward[r] = (runs[r].pos - runs[r].begin) + 1
              /\ HasLine(r) <=> Onward[r] \in 1 .. Len(Operands[r])
              /\ ~HasLine(r) <=> Onward[r] > Len(Operands[r])
              /\ HasLine(r) => lines[runs[r].pos] = Operands[r][Onward[r]]
<1>1. \A r \in Run : Onward[r] = (runs[r].pos - runs[r].begin) + 1
  BY DEF Onward
<1>2. ASSUME NEW r \in Run
      PROVE  /\ Onward[r] \in Nat \ {0}
             /\ HasLine(r) <=> Onward[r] \in 1 .. Len(Operands[r])
             /\ ~HasLine(r) <=> Onward[r] > Len(Operands[r])
             /\ HasLine(r) => lines[runs[r].pos] = Operands[r][Onward[r]]
  <2>1. runs[r].begin \in Nat /\ runs[r].pos \in Nat /\ runs[r].end \in Nat
    BY DEF Types
  <2>2. Len(Operands[r]) \in Nat
    <3>1. Operands[r] \in Seq(Record)
      BY OperandsAre
    <3> QED BY <3>1
  <2> DEFINE b == runs[r].begin
             p == runs[r].pos
             n == Len(Operands[r])
             o == Onward[r]
  <2>3. /\ b > 0 /\ b <= p /\ p <= b + n /\ runs[r].end = b + n
        /\ \A i \in 1 .. n : lines[b + i - 1] = Operands[r][i]
    BY DEF IsRead
  <2>4. o = (p - b) + 1
    BY <1>1
  <2>5. HasLine(r) <=> p < b + n
    BY <2>3 DEF HasLine
  <2>6. b \in Nat /\ p \in Nat /\ n \in Nat
    BY <2>1, <2>2
  <2> HIDE DEF b, p, n, o
  <2>7. /\ o \in Nat \ {0} /\ (p < b + n <=> o \in 1 .. n) /\ (~(p < b + n) <=> o > n)
        /\ b + o - 1 = p
    BY <2>3, <2>4, <2>6
  <2>8. HasLine(r) => lines[p] = Operands[r][o]
    BY <2>3, <2>5, <2>7
  <2> QED BY <2>5, <2>7, <2>8 DEF p, n, o
<1>3. Onward \in [Run -> Nat \ {0}]
  <2>1. Onward = [r \in Run |-> Onward[r]]
    BY DEF Onward
  <2> HIDE DEF Onward
  <2> QED BY <1>2, <2>1
<1> QED BY <1>1, <1>2, <1>3, OperandsAre

LEMMA SameInputs ==
  ASSUME UNCHANGED <<options, given>>
  PROVE  /\ Operands' = Operands /\ Run' = Run /\ AllRecords' = AllRecords
         /\ Order' = Order /\ Comparison' = Comparison /\ DirectMode' = DirectMode
<1>1. Operands' = Operands /\ Run' = Run /\ AllRecords' = AllRecords
  BY DEF Operands, Run, AllRecords
<1> QED BY <1>1, SameOrder, SameComparison

\* A run that did not change.
LEMMA StillRead ==
  ASSUME NEW r, IsRead(r), UNCHANGED <<options, given, lines>>, runs'[r] = runs[r]
  PROVE  IsRead(r)'
  BY SameInputs DEF IsRead

-----------------------------------------------------------------------------
(***************************************************************************)
(* What is read and merged: the steps                                      *)
(***************************************************************************)

LEMMA InitDInv == Init => DInv
<1> SUFFICES ASSUME Init PROVE DInv
  OBVIOUS
<1>1. IInv
  BY InitHolds
<1>2. /\ pc = "read" /\ files = Operands /\ operand = 0 /\ iov = <<>> /\ merged = <<>>
      /\ written = <<>> /\ last = <<>> /\ output = Contract!NotYet
      /\ \A r \in Run : InOrder(given[r])
  BY DEF Init, Operands, Run
<1>3. InputsSorted
  <2> SUFFICES ASSUME NEW r \in Run, NEW i \in DOMAIN given[r], NEW j \in DOMAIN given[r], i < j
               PROVE  Comparison[<<given[r][i], given[r][j]>>] <= 0
    BY DEF InputsSorted
  <2>1. given[r] \in Seq(Texts)
    <3>1. given \in Seq(Seq(Texts)) /\ r \in 1 .. Len(given)
      BY <1>1, RunIsNumber DEF IInv, Types
    <3> QED BY <3>1
  <2>2. given[r][i] \in Texts /\ given[r][j] \in Texts
    BY <2>1
  <2>3. CompareLines(given[r][i], given[r][j]) <= 0
    BY <1>2 DEF InOrder
  <2> QED BY <2>2, <2>3 DEF Comparison
<1>4. 1 .. operand = {}
  BY <1>2
<1> QED BY <1>2, <1>3, <1>4 DEF DInv, LinesRead, NothingTaken, LinesTaken, Merging

LEMMA StillSorted ==
  ASSUME InputsSorted, UNCHANGED <<options, given>> PROVE InputsSorted'
  BY SameInputs DEF InputsSorted

LEMMA EndData ==
  ASSUME DInv, pc' = "ended", UNCHANGED <<options, given>> PROVE DInv'
<1>1. InputsSorted'
  BY StillSorted DEF DInv
<1> QED BY <1>1 DEF DInv, LinesRead, NothingTaken, LinesTaken, Merging

LEMMA ReadOperandData == IInv /\ DInv /\ ReadOperand => DInv'
<1> SUFFICES ASSUME IInv, DInv, ReadOperand PROVE DInv'
  OBVIOUS
<1>0. PICK op : op = operand + 1
  OBVIOUS
<1> DEFINE file == files[op]
<1>1. /\ pc = "read" /\ pc' = "read" /\ operand < Len(given) /\ operand' = op
      /\ UNCHANGED <<options, given, files, iov, merged, written, last, output>>
  BY <1>0 DEF ReadOperand, input_vars, write_vars
<1>2. /\ Operands' = Operands /\ Run' = Run /\ InputsSorted' /\ files = Operands
  BY <1>1, SameInputs, StillSorted DEF DInv, LinesRead
<1>3. /\ operand \in Nat /\ op \in Run /\ Run = 1 .. Len(given) /\ Len(given) \in Nat
      /\ file \in Seq(Record) /\ Len(file) \in Nat /\ lines \in Seq(Record) /\ Len(lines) \in Nat
  <2>1. operand \in 0 .. Len(given) /\ Run = 1 .. Len(given) /\ Len(given) \in Nat /\ lines \in Seq(Record)
    BY RunIsNumber DEF IInv, Types
  <2>2. operand \in Nat /\ op \in Run /\ Len(lines) \in Nat
    BY <1>0, <1>1, <2>1
  <2>3. file \in Seq(Record)
    BY <1>2, <2>2, OperandsAre DEF IInv
  <2> HIDE DEF file
  <2> QED BY <2>1, <2>2, <2>3
<1>4. ASSUME ok' PROVE \A r \in 1 .. op : IsRead(r)' /\ runs'[r].pos = runs'[r].begin
  <2>1. /\ lines' = lines \o file /\ ok
        /\ runs' = [runs EXCEPT ![op] = [begin |-> Len(lines) + 1, end |-> Len(lines') + 1,
                                         pos |-> Len(lines) + 1]]
    BY <1>1, <1>4 DEF ReadOperand
  <2> HIDE DEF file
  <2>2. /\ Len(lines') = Len(lines) + Len(file)
        /\ \A p \in 1 .. Len(lines) : lines'[p] = lines[p]
        /\ \A p \in 1 .. Len(file) : lines'[Len(lines) + p] = file[p]
    BY <1>3, <2>1, Joined
  <2>3. /\ runs'[op] = [begin |-> Len(lines) + 1, end |-> Len(lines') + 1, pos |-> Len(lines) + 1]
        /\ \A r \in Run : r # op => runs'[r] = runs[r]
    <3>1. runs \in [Run -> [begin : Nat, end : Nat, pos : Nat]]
      BY DEF IInv, Types
    <3> QED BY <1>3, <2>1, <3>1
  <2>4. IsRead(op)' /\ runs'[op].pos = runs'[op].begin
    <3> DEFINE n == Len(lines)
    <3>1. runs'[op].begin = n + 1 /\ runs'[op].pos = n + 1 /\ runs'[op].end = Len(lines') + 1
      BY <2>3
    <3>2. \A i \in 1 .. Len(file) : lines'[n + 1 + i - 1] = file[i]
      <4> TAKE i \in 1 .. Len(file)
      <4>1. n + 1 + i - 1 = n + i
        BY <1>3
      <4> QED BY <2>2, <4>1
    <3>3. Operands'[op] = file
      BY <1>2 DEF file
    <3>4. /\ n + 1 > 0 /\ n + 1 <= Len(lines') + 1 /\ Len(lines') + 1 = n + 1 + Len(file)
      BY <1>3, <2>2
    <3> HIDE DEF n
    <3>5. /\ runs'[op].begin > 0 /\ runs'[op].begin <= runs'[op].pos
          /\ runs'[op].pos <= runs'[op].end
          /\ runs'[op].end = runs'[op].begin + Len(Operands'[op])
      BY <1>3, <3>1, <3>3, <3>4 DEF n
    <3>6. \A i \in 1 .. Len(Operands'[op]) : lines'[runs'[op].begin + i - 1] = Operands'[op][i]
      BY <3>1, <3>2, <3>3
    <3> QED BY <3>1, <3>5, <3>6 DEF IsRead
  <2>5. ASSUME NEW r \in 1 .. operand PROVE IsRead(r)' /\ runs'[r].pos = runs'[r].begin
    <3>1. r \in Run /\ r # op
      BY <1>0, <1>1, <1>3
    <3>2. runs'[r] = runs[r] /\ IsRead(r) /\ runs[r].pos = runs[r].begin
      BY <1>1, <2>1, <2>3, <3>1 DEF DInv, LinesRead, NothingTaken
    <3>3. runs[r].end <= Len(lines) + 1 /\ runs[r].begin \in Nat /\ Len(Operands[r]) \in Nat
      <4>1. runs[r].end <= Len(lines) + 1
        BY <1>1, <3>1 DEF IInv, RunsAreThere
      <4>2. runs[r] \in [begin : Nat, end : Nat, pos : Nat]
        BY <3>1 DEF IInv, Types
      <4>3. Operands[r] \in Seq(Record)
        BY <3>1, OperandsAre DEF IInv
      <4> QED BY <4>1, <4>2, <4>3
    <3>4. \A i \in 1 .. Len(Operands[r]) : lines'[runs[r].begin + i - 1] = Operands[r][i]
      <4> TAKE i \in 1 .. Len(Operands[r])
      <4> DEFINE p == runs[r].begin + i - 1
      <4>1. p \in 1 .. Len(lines)
        BY <1>3, <3>2, <3>3, SMTT(30) DEF IsRead
      <4>2. lines[p] = Operands[r][i]
        BY <3>2 DEF IsRead
      <4> QED BY <2>2, <4>1, <4>2
    <3> QED BY <1>2, <3>2, <3>4 DEF IsRead
  <2>6. \A r \in 1 .. op : r = op \/ r \in 1 .. operand
    BY <1>0, <1>3
  <2> QED BY <2>4, <2>5, <2>6
<1> HIDE DEF file
<1>5. LinesRead' /\ NothingTaken'
  BY <1>1, <1>2, <1>4 DEF LinesRead, NothingTaken, DInv
<1> QED BY <1>1, <1>2, <1>5 DEF DInv, LinesTaken, Merging

LEMMA DispatchData == IInv /\ DInv /\ Dispatch => DInv'
<1> SUFFICES ASSUME IInv, DInv, Dispatch PROVE DInv'
  OBVIOUS
<1>1. /\ pc = "read" /\ operand = Len(given)
      /\ UNCHANGED <<options, given, files, operand, lines, runs, iov, merged, written, last, ok>>
  BY DEF Dispatch, input_vars, write_vars, heap_vars
<1>2. Operands' = Operands /\ Run' = Run /\ InputsSorted'
  BY <1>1, SameInputs, StillSorted DEF DInv
<1>3. CASE ok /\ pc' \in {"direct", "prepare"} /\ UNCHANGED output
  <2>1. Run = 1 .. operand
    BY <1>1, RunIsNumber DEF IInv
  <2>2. \A r \in Run : IsRead(r) /\ runs[r].pos = runs[r].begin
    BY <1>1, <1>3, <2>1 DEF DInv, LinesRead, NothingTaken
  <2>3. \A r \in Run : IsRead(r)'
    BY <1>1, <1>2, <2>2, StillRead
  <2> QED BY <1>1, <1>2, <1>3, <2>2, <2>3
          DEF DInv, LinesRead, NothingTaken, LinesTaken, Merging
<1>4. CASE pc' = "ended"
  BY <1>1, <1>4, EndData
<1> QED BY <1>3, <1>4 DEF Dispatch

LEMMA OpenOutputData == IInv /\ DInv /\ OpenOutput => DInv'
<1> SUFFICES ASSUME IInv, DInv, OpenOutput PROVE DInv'
  OBVIOUS
<1>1. /\ pc = "direct"
      /\ UNCHANGED <<options, given, lines, runs, iov, merged, written, last>>
  BY DEF OpenOutput, input_vars, write_vars
<1>2. Operands' = Operands /\ Run' = Run /\ InputsSorted'
  BY <1>1, SameInputs, StillSorted DEF DInv
<1>3. CASE pc' = "build" /\ UNCHANGED output
  <2>1. \A r \in Run : IsRead(r)'
    BY <1>1, <1>2, StillRead DEF DInv, LinesRead
  <2> QED BY <1>1, <1>2, <1>3, <2>1 DEF DInv, LinesRead, NothingTaken, LinesTaken, Merging
<1>4. CASE pc' = "ended"
  BY <1>1, <1>4, EndData
<1> QED BY <1>3, <1>4 DEF OpenOutput, Fails

\* A merge that has not begun.
LEMMA NothingYet ==
  ASSUME Types, \A r \in Run : IsRead(r), \A r \in Run : runs[r].pos = runs[r].begin, NEW once
  PROVE  TakenSoFar(once, <<>>) /\ \A r \in Run : Onward[r] = 1
<1>1. \A r \in Run : Onward[r] = 1
  <2> SUFFICES ASSUME NEW r \in Run PROVE Onward[r] = 1
    OBVIOUS
  <2>1. runs[r].begin \in Nat /\ Onward[r] = (runs[r].pos - runs[r].begin) + 1
    BY OnwardIs DEF Types
  <2> QED BY <2>1
<1>2. Operands \in Seq(Seq(Record)) /\ Run = 1 .. Len(Operands)
  BY OperandsAre
<1> DEFINE from == Onward
           rs == Operands
           ord == Order
<1>3. rs \in Seq(Seq(Record)) /\ \A r \in 1 .. Len(rs) : from[r] = 1
  BY <1>1, <1>2
<1> HIDE DEF from, rs, ord
<1>4. MergedSoFar(rs, ord, once, from, <<>>)
  BY <1>3, MergeStarts
<1> QED BY <1>1, <1>4 DEF TakenSoFar, from, rs, ord

\* A merge of which no run has a line left.
LEMMA AllTaken ==
  ASSUME IsFiniteSet(Texts), Types, InputsSorted, \A r \in Run : IsRead(r) /\ ~HasLine(r),
         NEW once \in BOOLEAN, NEW t \in Seq(Record), TakenSoFar(once, t)
  PROVE  t = SortedBy(AllRecords, Order, once)
<1> DEFINE from == Onward
           rs == Operands
           ord == Order
<1>1. /\ Operands \in Seq(Seq(Record)) /\ Run = 1 .. Len(Operands)
      /\ RunsInPosOrder(Operands) /\ \A r \in 1 .. Len(Operands) : InPosOrder(Operands[r])
  BY OperandsAre
<1>2. /\ Onward \in [1 .. Len(Operands) -> Nat \ {0}]
      /\ \A r \in Run : Onward[r] > Len(Operands[r])
  BY OnwardIs
<1>3. /\ rs \in Seq(Seq(Record)) /\ RunsInPosOrder(rs)
      /\ \A r \in 1 .. Len(rs) : InPosOrder(rs[r])
      /\ from \in [1 .. Len(rs) -> Nat] /\ \A r \in 1 .. Len(rs) : from[r] > Len(rs[r])
  BY <1>1, <1>2
<1>4. MergedSoFar(rs, ord, once, from, t)
  BY DEF TakenSoFar
<1>5. Ranked(Record, ord)
  BY RecordsRank DEF Types
<1> HIDE DEF from, rs, ord
<1>6. t = SortedBy(FlattenSeq(rs), ord, once)
  BY <1>3, <1>4, <1>5, MergeEnds
<1> QED BY <1>6 DEF AllRecords, Operands, rs, ord

LEMMA PrepareKeysData == ASSUME IsFiniteSet(Texts) PROVE IInv /\ DInv /\ PrepareKeys => DInv'
<1> SUFFICES ASSUME IInv, DInv, PrepareKeys PROVE DInv'
  OBVIOUS
<1>1. /\ pc = "prepare"
      /\ UNCHANGED <<options, given, files, lines, runs, iov, merged, written, last>>
  BY DEF PrepareKeys, input_vars, write_vars, heap_vars
<1>2. Operands' = Operands /\ Run' = Run /\ InputsSorted' /\ AllRecords' = AllRecords /\ Order' = Order
  BY <1>1, SameInputs, StillSorted DEF DInv
<1>3. \A r \in Run : IsRead(r) /\ runs[r].pos = runs[r].begin
  BY <1>1 DEF DInv, LinesRead, NothingTaken
<1>4. CASE pc' = "build" /\ UNCHANGED output
  <2>1. \A r \in Run : IsRead(r)'
    BY <1>1, <1>2, <1>3, StillRead
  <2> QED BY <1>1, <1>2, <1>3, <1>4, <2>1 DEF DInv, LinesRead, NothingTaken, LinesTaken, Merging
<1>5. CASE lines = <<>> /\ pc' = "write" /\ UNCHANGED output
  <2>1. ASSUME NEW r \in Run PROVE ~HasLine(r)
    <3>1. runs[r].end <= Len(lines) + 1 /\ Len(lines) = 0
      BY <1>1, <1>5 DEF IInv, RunsAreThere
    <3>2. runs[r].begin > 0 /\ runs[r].begin \in Nat /\ runs[r].end \in Nat
      BY <1>3 DEF IsRead, IInv, Types
    <3> QED BY <1>3, <3>1, <3>2 DEF HasLine
  <2>2. TakenSoFar(FALSE, <<>>)
    BY <1>3, NothingYet DEF IInv
  <2>3. <<>> \in Seq(Record) /\ FALSE \in BOOLEAN
    OBVIOUS
  <2>4. <<>> = SortedBy(AllRecords, Order, FALSE)
    BY <1>3, <2>1, <2>2, <2>3, AllTaken DEF IInv, DInv
  <2>5. lines = StableSort(AllRecords, Order)
    BY <1>5, <2>4 DEF SortedBy
  <2>6. lines' = StableSort(AllRecords', Order')
    BY <1>1, <1>2, <2>5
  <2> QED BY <1>1, <1>2, <1>5, <2>6 DEF DInv, LinesRead, NothingTaken, LinesTaken, Merging
<1>6. CASE pc' = "ended"
  BY <1>1, <1>6, EndData
<1> QED BY <1>4, <1>5, <1>6 DEF PrepareKeys, Fails

\* Where the runs are does not change with the heap.
LEMMA SameOnward ==
  ASSUME UNCHANGED <<options, given, lines, runs>>
  PROVE  /\ Onward' = Onward /\ Operands' = Operands /\ Order' = Order /\ Run' = Run
         /\ \A r : IsRead(r) => IsRead(r)'
<1>1. Operands' = Operands /\ Order' = Order /\ Run' = Run
  BY SameInputs
<1>2. Onward' = Onward
  BY <1>1 DEF Onward
<1> QED BY <1>1, <1>2 DEF IsRead

LEMMA BuildHeapData == IInv /\ DInv /\ BuildHeap => DInv'
<1> SUFFICES ASSUME IInv, DInv, BuildHeap PROVE DInv'
  OBVIOUS
<1>1. /\ pc = "build" /\ pc' \in {"heapify", "emit"}
      /\ UNCHANGED <<options, given, files, lines, runs, iov, merged, written, last, output>>
  BY DEF BuildHeap, input_vars, write_vars
<1>2. /\ Onward' = Onward /\ Operands' = Operands /\ Order' = Order /\ Run' = Run
      /\ \A r : IsRead(r) => IsRead(r)'
  BY <1>1, SameOnward
<1>3. InputsSorted' /\ DirectMode' = DirectMode
  BY <1>1, SameInputs, StillSorted DEF DInv
<1>4. \A r \in Run : IsRead(r) /\ runs[r].pos = runs[r].begin
  BY <1>1 DEF DInv, LinesRead, NothingTaken
<1>5. iov = <<>> /\ merged = <<>> /\ written = <<>> /\ last = <<>>
  BY <1>1 DEF DInv, NothingTaken
<1>6. \A once : MergedSoFar(Operands, Order, once, Onward, <<>>)
  BY <1>4, NothingYet DEF IInv, TakenSoFar
<1>7. <<>> \in LinesOf(written' \o iov')
  <2>1. written' \o iov' = <<>>
    BY <1>1, <1>5
  <2> QED BY <2>1, NoLines
<1>8. \A once : MergedSoFar(Operands', Order', once, Onward', <<>>)
  BY <1>2, <1>6
<1>9. LastIs(<<>>)'
  BY <1>1, <1>5 DEF LastIs
<1>10. LinesTaken'
  BY <1>1, <1>5, <1>7, <1>8, <1>9 DEF LinesTaken, TakenSoFar
<1> QED BY <1>1, <1>2, <1>3, <1>4, <1>10 DEF DInv, LinesRead, NothingTaken

LEMMA StillTaken ==
  ASSUME LinesTaken, Merging, Merging',
         UNCHANGED <<options, given, lines, runs, iov, written, merged, last>>
  PROVE  LinesTaken'
<1>1. Onward' = Onward /\ Operands' = Operands /\ Order' = Order /\ DirectMode' = DirectMode
  BY SameOnward, SameInputs
<1>2. CASE DirectMode
  <2>1. PICK t \in LinesOf(written \o iov) : TakenSoFar(options.unique, t) /\ LastIs(t)
    BY <1>2 DEF LinesTaken
  <2>2. TakenSoFar(options.unique, t)' /\ LastIs(t)'
    BY <1>1, <2>1 DEF TakenSoFar, LastIs
  <2> QED BY <1>1, <1>2, <2>1, <2>2 DEF LinesTaken
<1>3. CASE ~DirectMode
  BY <1>1, <1>3 DEF LinesTaken, TakenSoFar
<1> QED BY <1>2, <1>3

LEMMA SiftData == IInv /\ DInv /\ (Heapify \/ SiftDown) => DInv'
<1> SUFFICES ASSUME IInv, DInv, Heapify \/ SiftDown PROVE DInv'
  OBVIOUS
<1>1. /\ pc \in {"heapify", "sift"} /\ pc' \in {"heapify", "sift", "emit"}
      /\ UNCHANGED <<options, given, files, lines, runs, iov, merged, written, last, output>>
  BY DEF Heapify, SiftDown, input_vars, write_vars
<1>2. Run' = Run /\ \A r : IsRead(r) => IsRead(r)'
  BY <1>1, SameOnward
<1>3. InputsSorted' /\ LinesTaken'
  BY <1>1, StillSorted, StillTaken DEF DInv, Merging
<1>4. \A r \in Run : IsRead(r)
  BY <1>1 DEF DInv, LinesRead
<1> QED BY <1>1, <1>2, <1>3, <1>4 DEF DInv, LinesRead, NothingTaken

LEMMA BeginKept ==
  ASSUME Types, heap[1] \in Run, Advance(heap[1])
  PROVE  runs'[heap[1]].begin = runs[heap[1]].begin
<1> DEFINE run == heap[1]
           new == [runs[run] EXCEPT !.pos = runs[run].pos + 1]
<1>1. runs' = [runs EXCEPT ![run] = new]
  BY DEF Advance
<1>2. runs[run] \in [begin : Nat, end : Nat, pos : Nat] /\ runs[run].pos + 1 \in Nat
  <2>1. runs \in [Run -> [begin : Nat, end : Nat, pos : Nat]]
    BY DEF Types
  <2>2. runs[run] \in [begin : Nat, end : Nat, pos : Nat]
    BY <2>1
  <2>3. runs[run].pos \in Nat
    BY <2>2
  <2> QED BY <2>2, <2>3
<1>3. new.begin = runs[run].begin
  BY <1>2, PosChanged
<1>4. run \in DOMAIN runs
  BY DEF Types
<1> HIDE DEF new, run
<1>5. runs'[run] = new
  BY <1>1, <1>4
<1> QED BY <1>3, <1>5 DEF run

\* The line at the root goes before all that are left.
LEMMA RootComesNext ==
  ASSUME IsFiniteSet(Texts), IInv, InputsSorted, \A r \in Run : IsRead(r), pc = "emit", heap # <<>>
  PROVE  /\ heap[1] \in 1 .. Len(Operands) /\ Onward[heap[1]] \in 1 .. Len(Operands[heap[1]])
         /\ lines[runs[heap[1]].pos] = Operands[heap[1]][Onward[heap[1]]]
         /\ ComesNext(Operands, Order, Onward, heap[1])
<1> DEFINE run == heap[1]
<1>1. /\ Types /\ RunsAreThere /\ CachesFilled /\ HeapHoldsRuns /\ Merging
      /\ Ordered(Comparison, heap, Heads, 0, 0)
  BY DEF IInv, Merging, HeapOrder
<1>2. /\ \A n \in 1 .. Len(heap) : heap[n] \in Run /\ HasLine(heap[n])
      /\ \A r \in Run : HasLine(r) => \E n \in 1 .. Len(heap) : heap[n] = r
      /\ Len(heap) \in Nat
  BY <1>1, HeapMembers
<1>3. 1 \in 1 .. Len(heap)
  <2>1. heap \in Seq(Run)
    BY <1>1 DEF Types
  <2> QED BY <2>1
<1>4. run \in Run /\ HasLine(run)
  BY <1>2, <1>3
<1>5. \A n \in 2 .. Len(heap) : Precedes(Comparison, Heads, heap[1], heap[n])
  BY <1>1, RootFirst
<1> HIDE DEF run
<1>6. ASSUME NEW q \in Run, q # run, HasLine(q) PROVE Precedes(Comparison, Heads, run, q)
  <2>1. PICK n \in 1 .. Len(heap) : heap[n] = q
    BY <1>2, <1>6
  <2>2. n # 1
    BY <1>6, <2>1 DEF run
  <2>3. n \in 2 .. Len(heap)
    BY <1>2, <2>1, <2>2
  <2> QED BY <1>5, <2>1, <2>3 DEF run
<1>7. /\ Operands \in Seq(Seq(Record)) /\ Run = 1 .. Len(Operands) /\ RunsInPosOrder(Operands)
      /\ \A r \in 1 .. Len(Operands) : InSortOrder(Operands[r], Order)
  BY <1>1, OperandsAre, OperandsSorted
<1>8. /\ Onward \in [1 .. Len(Operands) -> Nat \ {0}]
      /\ \A r \in Run :
           /\ HasLine(r) <=> Onward[r] \in 1 .. Len(Operands[r])
           /\ HasLine(r) => lines[runs[r].pos] = Operands[r][Onward[r]]
  BY <1>1, OnwardIs
<1>9. \A r \in Run : HasLine(r) =>
        Heads[r] \in Texts /\ Heads[r] = Operands[r][Onward[r]].key
  <2> SUFFICES ASSUME NEW r \in Run, HasLine(r)
               PROVE  Heads[r] \in Texts /\ Heads[r] = Operands[r][Onward[r]].key
    OBVIOUS
  <2>1. Heads[r] = Head_of(r) /\ Head_of(r) \in Texts
    BY <1>1, HeadIsThere DEF Merging
  <2> QED BY <1>8, <2>1 DEF Head_of
<1>10. /\ \A x, y \in Texts : /\ Order[x] < Order[y] <=> Comparison[<<x, y>>] < 0
                              /\ Order[x] = Order[y] <=> Comparison[<<x, y>>] = 0
  BY <1>1, OrderIs DEF Types
<1>11. ASSUME NEW q \in 1 .. Len(Operands), q # run, Onward[q] \in 1 .. Len(Operands[q])
       PROVE  \/ Order[Operands[run][Onward[run]].key] < Order[Operands[q][Onward[q]].key]
              \/ /\ Order[Operands[run][Onward[run]].key] = Order[Operands[q][Onward[q]].key]
                 /\ run < q
  <2>1. q \in Run /\ HasLine(q)
    BY <1>7, <1>8, <1>11
  <2>2. \/ Comparison[<<Heads[run], Heads[q]>>] < 0
        \/ Comparison[<<Heads[run], Heads[q]>>] = 0 /\ run < q
    BY <1>6, <1>11, <2>1 DEF Precedes
  <2>3. /\ Heads[run] \in Texts /\ Heads[run] = Operands[run][Onward[run]].key
        /\ Heads[q] \in Texts /\ Heads[q] = Operands[q][Onward[q]].key
    BY <1>4, <1>9, <2>1
  <2>4. \/ Order[Heads[run]] < Order[Heads[q]]
        \/ Order[Heads[run]] = Order[Heads[q]] /\ run < q
    BY <1>10, <2>2, <2>3
  <2> QED BY <2>3, <2>4
<1>12. run \in 1 .. Len(Operands) /\ Onward[run] \in 1 .. Len(Operands[run])
       /\ lines[runs[run].pos] = Operands[run][Onward[run]]
  BY <1>4, <1>7, <1>8
<1> DEFINE from == Onward
           rs == Operands
           ord == Order
<1>13. /\ rs \in Seq(Seq(Record)) /\ RunsInPosOrder(rs)
       /\ \A r \in 1 .. Len(rs) : InSortOrder(rs[r], ord)
       /\ from \in [1 .. Len(rs) -> Nat \ {0}]
       /\ run \in 1 .. Len(rs) /\ from[run] \in 1 .. Len(rs[run])
       /\ \A q \in 1 .. Len(rs) : q # run /\ from[q] \in 1 .. Len(rs[q]) =>
            \/ ord[rs[run][from[run]].key] < ord[rs[q][from[q]].key]
            \/ ord[rs[run][from[run]].key] = ord[rs[q][from[q]].key] /\ run < q
  BY <1>7, <1>8, <1>11, <1>12
<1>14. Ranked(Record, ord)
  BY <1>1, RecordsRank DEF Types
<1> HIDE DEF from, rs, ord
<1>15. ComesNext(rs, ord, from, run)
  BY <1>13, <1>14, LeastHead
<1> QED BY <1>12, <1>15 DEF run, from, rs, ord

\* When it has been taken the merge has come further by it.
LEMMA TakesNext ==
  ASSUME IsFiniteSet(Texts), IInv, InputsSorted, \A r \in Run : IsRead(r), pc = "emit",
         heap # <<>>, Advance(heap[1]), UNCHANGED <<options, given, lines, building>>,
         NEW once \in BOOLEAN, NEW t \in Seq(Record), TakenSoFar(once, t)
  PROVE  /\ \A r \in Run : IsRead(r)'
         /\ MergedSoFar(Operands', Order', once, Onward',
                        Written(Order, once, t, lines[runs[heap[1]].pos]))
<1>0. PICK run : run = heap[1]
  OBVIOUS
<1>1. UNCHANGED <<Run, Comparison, Operands, Order>>
  BY SameInputs
<1>2. /\ run \in Run /\ HasLine(run)
      /\ runs' \in [Run -> [begin : Nat, end : Nat, pos : Nat]]
      /\ \A r \in Run : r # run => runs'[r] = runs[r]
      /\ runs'[run].end = runs[run].end /\ runs'[run].pos = runs[run].pos + 1
  BY <1>0, <1>1, AdvanceKeeps
<1>3. runs'[run].begin = runs[run].begin
  BY <1>0, <1>2, BeginKept DEF IInv
<1>4. ASSUME NEW r \in Run PROVE IsRead(r)'
  <2>1. CASE r = run
    <3>1. IsRead(run)
      BY <1>2
    <3>2. runs[run].begin \in Nat /\ runs[run].pos \in Nat /\ runs[run].end \in Nat
      BY <1>2 DEF IInv, Types
    <3>3. runs'[run].begin <= runs'[run].pos /\ runs'[run].pos <= runs'[run].end
      BY <1>2, <1>3, <3>1, <3>2 DEF IsRead, HasLine
    <3> QED BY <1>1, <1>2, <1>3, <2>1, <3>1, <3>3 DEF IsRead
  <2>2. CASE r # run
    BY <1>1, <1>2, <2>2, StillRead
  <2> QED BY <2>1, <2>2
<1>5. /\ run \in 1 .. Len(Operands) /\ Onward[run] \in 1 .. Len(Operands[run])
      /\ lines[runs[run].pos] = Operands[run][Onward[run]]
      /\ ComesNext(Operands, Order, Onward, run)
  BY <1>0, RootComesNext
<1>6. /\ Onward \in [1 .. Len(Operands) -> Nat \ {0}]
      /\ \A r \in Run : Onward[r] = (runs[r].pos - runs[r].begin) + 1
  BY OnwardIs DEF IInv
<1>7. \A r \in Run : Onward'[r] = (runs'[r].pos - runs'[r].begin) + 1
  BY <1>1 DEF Onward
<1>8. Operands \in Seq(Seq(Record)) /\ Run = 1 .. Len(Operands)
  BY OperandsAre DEF IInv
<1> DEFINE from == Onward
           later == Onward'
           rs == Operands
           ord == Order
<1>9. Onward'[run] = Onward[run] + 1
  <2>1. runs[run].begin \in Nat /\ runs[run].pos \in Nat
    BY <1>2 DEF IInv, Types
  <2> QED BY <1>2, <1>3, <1>6, <1>7, <2>1, SMTT(30)
<1>10. Passes(rs, from, run, later)
  <2>1. ASSUME NEW q \in 1 .. Len(Operands), q # run PROVE Onward'[q] = Onward[q]
    <3>1. q \in Run /\ runs'[q] = runs[q]
      BY <1>2, <1>8, <2>1
    <3> QED BY <1>6, <1>7, <3>1
  <2>2. Onward'[run] = Onward[run] + 1 /\ \A q \in 1 .. Len(rs) \ {run} : Onward'[q] = Onward[q]
    BY <1>9, <2>1
  <2> QED BY <2>2, Zenon DEF Passes
<1>11. /\ rs \in Seq(Seq(Record)) /\ from \in [1 .. Len(rs) -> Nat \ {0}]
       /\ run \in 1 .. Len(rs) /\ from[run] \in 1 .. Len(rs[run])
       /\ ComesNext(rs, ord, from, run) /\ MergedSoFar(rs, ord, once, from, t)
  BY <1>5, <1>6, <1>8 DEF TakenSoFar
<1>12. Ranked(Record, ord)
  BY RecordsRank DEF IInv, Types
<1>13. lines[runs[run].pos] = rs[run][from[run]]
  BY <1>5
<1> HIDE DEF from, later, rs, ord
<1>14. MergedSoFar(rs, ord, once, later, Written(ord, once, t, rs[run][from[run]]))
  BY <1>10, <1>11, <1>12, MergeTakes, Zenon
<1>15. MergedSoFar(rs, ord, once, later, Written(ord, once, t, lines[runs[run].pos]))
  BY <1>13, <1>14
<1> QED BY <1>0, <1>1, <1>4, <1>15 DEF from, later, rs, ord

\* What is skipped under -u repeats the last line that was written.
LEMMA SkippedRepeats ==
  ASSUME IsFiniteSet(Texts), IInv, pc = "emit", DirectMode, NEW run \in Run, HasLine(run),
         NEW t \in Seq(Record), LastIs(t)
  PROVE  LET rec == lines[runs[run].pos]
         IN  Written(Order, options.unique, t, rec) = IF Skipped(run) THEN t ELSE Append(t, rec)
<1> DEFINE rec == lines[runs[run].pos]
           l == t[Len(t)]
<1>1. Types /\ RunsAreThere /\ caches[run] = <<Head_of(run)>>
  BY DEF IInv, CachesFilled, Merging
<1>2. Head_of(run) = rec.key /\ rec.key \in Texts
  BY <1>1, HeadIsThere DEF Head_of
<1>3. CASE ~options.unique
  BY <1>3 DEF Skipped, Written
<1>4. CASE options.unique /\ t = <<>>
  BY <1>4 DEF Skipped, Written, LastIs
<1>5. CASE options.unique /\ t # <<>>
  <2>1. l \in Record
    BY <1>5
  <2>2. l.key \in Texts /\ last = <<l.key>>
    BY <1>5, <2>1 DEF LastIs, Record
  <2>3. Skipped(run) <=> CompareCaches(l.key, rec.key) = 0
    <3>1. last # <<>> /\ last[1] = l.key /\ caches[run][1] = rec.key
      BY <1>1, <1>2, <2>2
    <3> QED BY <1>5, <3>1 DEF Skipped
  <2> HIDE DEF l, rec
  <2>4. CompareCaches(l.key, rec.key) = 0 <=> Comparison[<<l.key, rec.key>>] = 0
    BY <1>1, <1>2, <1>5, <2>2, EqualKeys DEF Types
  <2>5. Comparison[<<l.key, rec.key>>] = 0 <=> Order[l.key] = Order[rec.key]
    BY <1>1, <1>2, <2>2, OrderIs DEF Types
  <2>6. Skipped(run) <=> Order[l.key] = Order[rec.key]
    BY <2>3, <2>4, <2>5
  <2> QED BY <1>5, <2>6 DEF Written, l, rec
<1> QED BY <1>3, <1>4, <1>5

LEMMA EmitDirectData == ASSUME IsFiniteSet(Texts) PROVE IInv /\ DInv /\ EmitDirect => DInv'
<1> SUFFICES ASSUME IInv, DInv, EmitDirect PROVE DInv'
  OBVIOUS
<1>0. PICK run : run = heap[1]
  OBVIOUS
<1> DEFINE rec == lines[runs[run].pos]
<1>1. /\ pc = "emit" /\ heap # <<>> /\ DirectMode
      /\ UNCHANGED <<options, given, files, lines, merged, written, output, building>>
  BY DEF EmitDirect, input_vars, heap_vars
<1>2. InputsSorted' /\ DirectMode' = DirectMode /\ Run' = Run
  BY <1>1, SameInputs, StillSorted DEF DInv
<1>3. \A r \in Run : IsRead(r)
  BY <1>1 DEF DInv, LinesRead
<1>4. CASE ~Skipped(run) /\ Full
  <2>1. pc' = "flush" /\ UNCHANGED <<runs, last, iov>>
    BY <1>0, <1>1, <1>4 DEF EmitDirect, heap_vars
  <2>2. LinesTaken' /\ \A r \in Run : IsRead(r)'
    BY <1>1, <1>3, <2>1, StillTaken, SameOnward DEF DInv, Merging
  <2> QED BY <1>1, <1>2, <2>1, <2>2 DEF DInv, LinesRead, NothingTaken
<1>5. CASE ~(~Skipped(run) /\ Full)
  <2>1. /\ iov' = IF Skipped(run) THEN iov ELSE iov \o Pieces(rec)
        /\ last' = IF options.unique /\ ~Skipped(run) THEN caches[run] ELSE last
        /\ Advance(heap[1])
    BY <1>0, <1>1, <1>5 DEF EmitDirect
  <2>2. run \in Run /\ HasLine(run) /\ pc' \in {"sift", "emit"}
    BY <1>0, <1>1, <1>2, <2>1, SameComparison, AdvanceKeeps
  <2>3. PICK t \in LinesOf(written \o iov) : TakenSoFar(options.unique, t) /\ LastIs(t)
    BY <1>1 DEF DInv, LinesTaken, Merging
  <2>4. /\ written \in Seq(Piece) /\ iov \in Seq(Piece) /\ options.unique \in BOOLEAN
        /\ written \o iov \in Seq(Piece)
    <3>1. written \in Seq(Piece) /\ iov \in Seq(Piece) /\ options.unique \in BOOLEAN
      BY DEF IInv, Types, OptionsType
    <3> QED BY <3>1, Joined
  <2>5. t \in Seq(Record)
    BY <2>4, LinesOfIs
  <2> DEFINE u == Written(Order, options.unique, t, rec)
  <2>6. /\ \A r \in Run : IsRead(r)'
        /\ MergedSoFar(Operands', Order', options.unique, Onward', u)
    BY <1>0, <1>1, <1>3, <2>1, <2>3, <2>4, <2>5, TakesNext DEF DInv
  <2>7. u = IF Skipped(run) THEN t ELSE Append(t, rec)
    BY <1>1, <2>2, <2>3, <2>5, SkippedRepeats
  <2>8. rec \in Record /\ caches[run] = <<rec.key>>
    BY <1>1, <2>2, HeadIsThere DEF IInv, CachesFilled, Merging, Head_of
  <2> HIDE DEF rec, u
  <2>9. PICK v : v = u
    OBVIOUS
  <2>10. v \in LinesOf(written' \o iov') /\ LastIs(v)'
    <3>1. CASE Skipped(run)
      BY <1>1, <2>1, <2>3, <2>7, <2>9, <3>1 DEF LastIs, Skipped
    <3>2. CASE ~Skipped(run)
      <4>1. v = Append(t, rec)
        BY <2>7, <2>9, <3>2
      <4>2. v \in LinesOf((written \o iov) \o Pieces(rec))
        BY <2>3, <2>4, <2>8, <4>1, LinesGrow
      <4>3. (written \o iov) \o Pieces(rec) = written' \o iov'
        <5>1. Pieces(rec) \in Seq(Piece)
          BY <2>8, PiecesPaired
        <5>2. (written \o iov) \o Pieces(rec) = written \o (iov \o Pieces(rec))
          BY <2>4, <5>1, Associative
        <5> QED BY <1>1, <2>1, <3>2, <5>2
      <4>4. v # <<>> /\ v[Len(v)] = rec
        BY <2>5, <2>8, <4>1
      <4>5. LastIs(v)'
        BY <1>1, <2>1, <2>8, <3>2, <4>4 DEF LastIs
      <4> QED BY <4>2, <4>3, <4>5
    <3> QED BY <3>1, <3>2
  <2>11. TakenSoFar(options.unique, v)'
    BY <1>1, <2>6, <2>9 DEF TakenSoFar
  <2>12. LinesTaken'
    BY <1>1, <1>2, <2>10, <2>11 DEF LinesTaken
  <2> QED BY <1>1, <1>2, <2>2, <2>6, <2>12 DEF DInv, LinesRead, NothingTaken
<1> QED BY <1>4, <1>5

LEMMA FlushData == IInv /\ DInv /\ Flush => DInv'
<1> SUFFICES ASSUME IInv, DInv, Flush PROVE DInv'
  OBVIOUS
<1>1. /\ pc = "flush" /\ DirectMode
      /\ UNCHANGED <<options, given, files, lines, runs, last, merged>>
  BY DEF Flush, input_vars, heap_vars, IInv, ModeIsKept
<1>2. /\ InputsSorted' /\ DirectMode' = DirectMode /\ Run' = Run
      /\ Operands' = Operands /\ Order' = Order /\ Onward' = Onward
      /\ \A r \in Run : IsRead(r)'
  BY <1>1, SameInputs, SameOnward, StillSorted DEF DInv, LinesRead
<1>3. CASE /\ \E n \in 1 .. Len(iov) :
                /\ written' = written \o SubSeq(iov, 1, n)
                /\ iov' = SubSeq(iov, n + 1, Len(iov))
           /\ pc' \in {"emit", "flush"} /\ UNCHANGED output
  <2>1. PICK n \in 1 .. Len(iov) : /\ written' = written \o SubSeq(iov, 1, n)
                                   /\ iov' = SubSeq(iov, n + 1, Len(iov))
    BY <1>3
  <2>2. written \in Seq(Piece) /\ iov \in Seq(Piece)
    BY DEF IInv, Types
  <2>3. written' \o iov' = written \o iov
    BY <2>1, <2>2, Taken
  <2>4. PICK t \in LinesOf(written \o iov) : TakenSoFar(options.unique, t) /\ LastIs(t)
    BY <1>1 DEF DInv, LinesTaken, Merging
  <2>5. t \in LinesOf(written' \o iov')
    BY <2>3, <2>4
  <2>6. TakenSoFar(options.unique, t)' /\ LastIs(t)'
    BY <1>1, <1>2, <2>4 DEF TakenSoFar, LastIs
  <2>7. LinesTaken'
    BY <1>1, <1>2, <2>5, <2>6 DEF LinesTaken
  <2> QED BY <1>1, <1>2, <1>3, <2>7 DEF DInv, LinesRead, NothingTaken
<1>4. CASE pc' = "ended"
  BY <1>1, <1>4, EndData
<1> QED BY <1>3, <1>4 DEF Flush, Fails

LEMMA CloseDirectData == IInv /\ DInv /\ CloseDirect => DInv'
<1> SUFFICES ASSUME IInv, DInv, CloseDirect PROVE DInv'
  OBVIOUS
<1>1. /\ pc = "emit"
      /\ UNCHANGED <<options, given, files, lines, runs, iov, written, last, merged>>
  BY DEF CloseDirect, input_vars, heap_vars, write_vars
<1>2. CASE pc' = "flush" /\ UNCHANGED output
  <2>1. InputsSorted' /\ Run' = Run /\ \A r \in Run : IsRead(r)'
    BY <1>1, SameInputs, SameOnward, StillSorted DEF DInv, LinesRead
  <2>2. LinesTaken'
    BY <1>1, <1>2, StillTaken DEF DInv, Merging
  <2> QED BY <1>1, <1>2, <2>1, <2>2 DEF DInv, LinesRead, NothingTaken
<1>3. CASE pc' = "ended"
  BY <1>1, <1>3, EndData
<1> QED BY <1>2, <1>3 DEF CloseDirect, Fails

LEMMA EmitLineData == ASSUME IsFiniteSet(Texts) PROVE IInv /\ DInv /\ EmitLine => DInv'
<1> SUFFICES ASSUME IInv, DInv, EmitLine PROVE DInv'
  OBVIOUS
<1> DEFINE rec == lines[runs[heap[1]].pos]
<1>1. /\ pc = "emit" /\ heap # <<>> /\ ~DirectMode /\ merged' = Append(merged, rec)
      /\ Advance(heap[1])
      /\ UNCHANGED <<options, given, files, lines, written, iov, last, output, building>>
  BY DEF EmitLine, input_vars
<1>2. InputsSorted' /\ DirectMode' = DirectMode /\ Run' = Run
  BY <1>1, SameInputs, StillSorted DEF DInv
<1>3. \A r \in Run : IsRead(r)
  BY <1>1 DEF DInv, LinesRead
<1>4. TakenSoFar(FALSE, merged) /\ merged \in Seq(Record) /\ FALSE \in BOOLEAN
  BY <1>1 DEF DInv, LinesTaken, Merging, IInv, Types
<1>5. /\ \A r \in Run : IsRead(r)'
      /\ MergedSoFar(Operands', Order', FALSE, Onward', Written(Order, FALSE, merged, rec))
  BY <1>1, <1>3, <1>4, TakesNext DEF DInv
<1>6. merged' = Written(Order, FALSE, merged, rec)
  BY <1>1 DEF Written
<1>7. LinesTaken'
  BY <1>1, <1>2, <1>5, <1>6 DEF LinesTaken, TakenSoFar
<1>8. pc' \in {"sift", "emit"}
  BY <1>1, <1>2, SameComparison, AdvanceKeeps
<1> QED BY <1>1, <1>2, <1>5, <1>7, <1>8 DEF DInv, LinesRead, NothingTaken

\* When the heap is empty all lines have been taken.
LEMMA EmptyHeap ==
  ASSUME IInv, pc = "emit", heap = <<>>
  PROVE  \A r \in Run : ~HasLine(r)
<1>1. Len(heap) = 0
  OBVIOUS
<1> QED BY <1>1, HeapMembers DEF IInv, Merging

LEMMA ReplaceData == ASSUME IsFiniteSet(Texts) PROVE IInv /\ DInv /\ Replace => DInv'
<1> SUFFICES ASSUME IInv, DInv, Replace PROVE DInv'
  OBVIOUS
<1>1. /\ pc = "emit" /\ pc' = "write" /\ heap = <<>> /\ ~DirectMode /\ lines' = merged
      /\ UNCHANGED <<options, given, output>>
  BY DEF Replace, input_vars
<1>2. InputsSorted' /\ AllRecords' = AllRecords /\ Order' = Order
  BY <1>1, SameInputs, StillSorted DEF DInv
<1>3. \A r \in Run : IsRead(r) /\ ~HasLine(r)
  BY <1>1, EmptyHeap DEF DInv, LinesRead
<1>4. TakenSoFar(FALSE, merged) /\ merged \in Seq(Record) /\ FALSE \in BOOLEAN
  BY <1>1 DEF DInv, LinesTaken, Merging, IInv, Types
<1>5. merged = SortedBy(AllRecords, Order, FALSE)
  BY <1>3, <1>4, AllTaken DEF IInv, DInv
<1>6. lines' = StableSort(AllRecords', Order')
  BY <1>1, <1>2, <1>5 DEF SortedBy
<1> QED BY <1>1, <1>2, <1>6 DEF DInv, LinesRead, NothingTaken, LinesTaken, Merging

LEMMA NextDInv == ASSUME IsFiniteSet(Texts) PROVE IInv /\ DInv /\ [Next]_vars => DInv'
<1> SUFFICES ASSUME IInv, DInv, [Next]_vars PROVE DInv'
  OBVIOUS
<1>1. CASE UNCHANGED vars
  <2>1. UNCHANGED <<pc, options, given, files, operand, lines, runs, iov, written, last, merged, ok,
                    output>>
    BY <1>1 DEF vars
  <2>2. /\ InputsSorted' /\ Run' = Run /\ Operands' = Operands /\ Order' = Order
        /\ AllRecords' = AllRecords /\ \A r : IsRead(r) => IsRead(r)'
    BY <2>1, SameInputs, SameOnward, StillSorted DEF DInv
  <2>3. LinesTaken'
    BY <2>1, StillTaken DEF DInv, Merging, LinesTaken
  <2>4. LinesRead' /\ NothingTaken'
    BY <2>1, <2>2 DEF DInv, LinesRead, NothingTaken
  <2> QED BY <2>1, <2>2, <2>3, <2>4 DEF DInv
<1>2. CASE WriteLines
  <2>1. pc' = "ended" /\ UNCHANGED <<options, given>>
    BY <1>2 DEF WriteLines, Fails, input_vars
  <2> QED BY <2>1, EndData
<1> QED BY <1>1, <1>2, ReadOperandData, DispatchData, OpenOutputData, PrepareKeysData,
           BuildHeapData, SiftData, EmitDirectData, FlushData, CloseDirectData, EmitLineData,
           ReplaceData DEF Next

-----------------------------------------------------------------------------
(***************************************************************************)
(* Sorting places of texts for texts                                       *)
(***************************************************************************)

\* The numbers of the texts, as the contract orders them.
Ids == [n \in 0 .. Cardinality(Texts) |-> n]

LEMMA PlacedAlike ==
  ASSUME IsFiniteSet(Texts), options \in OptionsType, NEW s \in Seq(Record)
  PROVE  OrderedAlike(s, Order, Placed(s), Ids)
<1>1. Order \in [Texts -> 0 .. Cardinality(Texts)]
  BY OrderIs
<1>2. \A i \in DOMAIN s : s[i].key \in Texts
  <2>1. \A i \in DOMAIN s : s[i] \in Record
    OBVIOUS
  <2> QED BY <2>1 DEF Record
<1> QED BY <1>1, <1>2 DEF OrderedAlike, Placed, Ids

\* It does not matter whether lines are sorted or their texts' places.
LEMMA PlacedSort ==
  ASSUME IsFiniteSet(Texts), options \in OptionsType, NEW s \in Seq(Record), NEW once \in BOOLEAN
  PROVE  SortedBy(Placed(s), Ids, once) = Placed(SortedBy(s, Order, once))
<1>1. Ranked(Record, Order)
  BY RecordsRank
<1> DEFINE u == Placed(s)
           t == StableSort(s, Order)
           v == StableSort(u, Ids)
<1>2. OrderedAlike(s, Order, u, Ids)
  BY PlacedAlike
<1>3. DOMAIN u = DOMAIN s /\ \A i \in DOMAIN s : u[i] = [key |-> Order[s[i].key], pos |-> s[i].pos]
  BY DEF Placed
<1>4. Len(s) \in Nat /\ DOMAIN s = 1 .. Len(s)
  OBVIOUS
<1> HIDE DEF u
<1>15. Selects(s, u, t, v, Len(s))
  BY <1>1, <1>2, SortsAlike
<1>5. PICK f \in [1 .. Len(s) -> 1 .. Len(s)] :
        /\ t = [n \in 1 .. Len(s) |-> s[f[n]]]
        /\ v = [n \in 1 .. Len(s) |-> u[f[n]]]
  BY <1>15, Zenon DEF Selects
<1>6. t \in Seq(Record) /\ Len(t) = Len(s)
  BY <1>1, StableSortIs
<1> HIDE DEF t, v
<1>7. v = Placed(t)
  BY <1>3, <1>4, <1>5 DEF Placed
<1>8. OrderedAlike(t, Order, v, Ids)
  BY <1>6, <1>7, PlacedAlike
<1> DEFINE w == FirstOfEquals(t, Order)
           x == FirstOfEquals(v, Ids)
<1>14. PICK m \in Nat : Selects(t, v, w, x, m)
  BY <1>6, <1>8, FirstsAlike
<1>9. PICK g \in [1 .. m -> 1 .. Len(t)] :
        w = [n \in 1 .. m |-> t[g[n]]] /\ x = [n \in 1 .. m |-> v[g[n]]]
  BY <1>14, Zenon DEF Selects
<1>10. DOMAIN t = 1 .. Len(t)
  BY <1>6
<1>11. \A n \in 1 .. m : v[g[n]] = [key |-> Order[t[g[n]].key], pos |-> t[g[n]].pos]
  BY <1>7, <1>9, <1>10 DEF Placed
<1> HIDE DEF w, x
<1>12. x = Placed(w)
  BY <1>9, <1>11 DEF Placed
<1> QED BY <1>7, <1>12 DEF SortedBy, t, u, v, w, x

-----------------------------------------------------------------------------
(***************************************************************************)
(* What is delivered                                                       *)
(***************************************************************************)

LEMMA RecordsTyped == ASSUME Types PROVE AllRecords \in Seq(Record)
<1>1. Numbered(given) \in Seq(Seq(Record))
  BY NumberedTyped DEF Types
<1> QED BY <1>1, FlattenSeqTyped DEF AllRecords

\* rank_output_lines writes the lines in order, with -u the first of equals.
LEMMA WritesSorted ==
  ASSUME IsFiniteSet(Texts), Types, lines \in Seq(Record),
         NEW kept \in Listed({i \in DOMAIN lines :
                               ~options.unique
                               \/ i = 1 \/ CompareKeys(lines[i - 1].key, lines[i].key) # 0})
  PROVE  [i \in DOMAIN kept |-> lines[kept[i]]] =
           IF options.unique THEN FirstOfEquals(lines, Order) ELSE lines
<1> DEFINE K == {i \in DOMAIN lines :
                   ~options.unique
                   \/ i = 1 \/ CompareKeys(lines[i - 1].key, lines[i].key) # 0}
           n == Len(lines)
<1>1. n \in Nat /\ DOMAIN lines = 1 .. n /\ \A i \in 1 .. n : lines[i] \in Record
  OBVIOUS
<1>2. K \in SUBSET (1 .. n) /\ K \in SUBSET Nat /\ IsFiniteSet(K)
  <2>1. K \in SUBSET (1 .. n)
    BY <1>1
  <2>2. IsFiniteSet(1 .. n)
    BY <1>1, FS_Interval
  <2> HIDE DEF K
  <2>3. IsFiniteSet(K)
    BY <2>1, <2>2, FS_Subset
  <2> QED BY <1>1, <2>1, <2>3
<1>3. CASE ~options.unique
  <2>1. K = 1 .. n
    BY <1>1, <1>3
  <2> DEFINE all == [i \in 1 .. n |-> i]
  <2>2. all \in Listed(1 .. n)
    BY <1>1, ListedAll
  <2> HIDE DEF K, all
  <2>3. kept = all
    <3>1. kept \in Listed(K) /\ all \in Listed(K)
      BY <2>1, <2>2 DEF K
    <3> QED BY <1>2, <3>1, ListedUnique
  <2>4. DOMAIN kept = 1 .. n /\ \A i \in 1 .. n : kept[i] = i
    BY <2>3 DEF all
  <2> QED BY <1>1, <1>3, <2>4
<1>4. CASE options.unique
  <2>1. ASSUME NEW i \in 1 .. n, i # 1
        PROVE  CompareKeys(lines[i - 1].key, lines[i].key) # 0
               <=> Order[lines[i - 1].key] # Order[lines[i].key]
    <3>1. i - 1 \in 1 .. n
      BY <1>1, <2>1
    <3>2. lines[i - 1] \in Record /\ lines[i] \in Record
      BY <1>1, <3>1
    <3> DEFINE x == lines[i - 1].key
               y == lines[i].key
    <3>3. x \in Texts /\ y \in Texts
      BY <3>2 DEF Record
    <3> HIDE DEF x, y
    <3>4. Order[x] = Order[y] <=> Comparison[<<x, y>>] = 0
      BY <3>3, OrderIs DEF Types
    <3>5. Comparison[<<x, y>>] = 0 <=> CompareKeys(x, y) = 0
      BY <1>4, <3>3, EqualKeys DEF Types
    <3> QED BY <3>4, <3>5 DEF x, y
  <2>2. K = FirstPlaces(lines, Order)
    BY <1>1, <1>4, <2>1 DEF FirstPlaces
  <2> DEFINE F == FirstPlaces(lines, Order)
             m == Cardinality(F)
             order == InTurn(FirstAhead(lines, Order))
  <2>3. ListsFirst(lines, Order, FirstOfEquals(lines, Order), m, order)
    BY FirstOfEqualsListed
  <2>4. /\ FirstOfEquals(lines, Order) = [a \in 1 .. m |-> lines[order[a]]]
        /\ m \in Nat /\ order \in [1 .. m -> F]
        /\ \A a, b \in 1 .. m : a < b <=> order[a] < order[b]
    BY <2>3, Zenon DEF ListsFirst
  <2> HIDE DEF K, F, order
  <2>5. order \in Listed(F)
    BY <2>4 DEF Listed
  <2>6. kept = order
    <3>1. kept \in Listed(K) /\ order \in Listed(K)
      BY <2>2, <2>5 DEF K, F
    <3> QED BY <1>2, <3>1, ListedUnique
  <2>7. DOMAIN order = 1 .. m
    BY <2>4
  <2> QED BY <1>4, <2>4, <2>6, <2>7
<1> QED BY <1>3, <1>4

\* The lines that merge_direct_output has written are the lines in order.
LEMMA ClosesSorted ==
  ASSUME IsFiniteSet(Texts), IInv, DInv, pc = "emit", DirectMode, heap = <<>>, iov = <<>>,
         NEW recs \in LinesOf(written)
  PROVE  recs = SortedBy(AllRecords, Order, options.unique)
<1>1. written \in Seq(Piece) /\ written \o iov = written
  <2>1. written \in Seq(Piece)
    BY DEF IInv, Types
  <2> QED BY <2>1
<1>2. PICK t \in LinesOf(written) : TakenSoFar(options.unique, t)
  <2>1. \E t \in LinesOf(written \o iov) : TakenSoFar(options.unique, t) /\ LastIs(t)
    BY DEF DInv, LinesTaken, Merging
  <2> QED BY <1>1, <2>1
<1>3. recs = t /\ t \in Seq(Record)
  BY <1>1, <1>2, LinesOfIs
<1>4. \A r \in Run : IsRead(r) /\ ~HasLine(r)
  BY EmptyHeap DEF DInv, LinesRead
<1>5. options.unique \in BOOLEAN
  BY DEF IInv, Types, OptionsType
<1> QED BY <1>2, <1>3, <1>4, <1>5, AllTaken DEF IInv, DInv

LEMMA ContractSorts ==
  ASSUME NEW s, NEW ord
  PROVE  Contract!Sorted(s, ord) = SortedBy(s, ord, options.unique)
<1>1. \A ahead : Contract!InTurn(ahead) = InTurn(ahead)
  BY Zenon DEF Contract!InTurn, InTurn, Contract!Cardinality, Cardinality
<1>2. \A r, o : Contract!StableSort(r, o) = StableSort(r, o)
  BY <1>1, ZenonT(60) DEF Contract!StableSort, StableSort
<1>3. \A r, o : Contract!FirstOfEquals(r, o) = FirstOfEquals(r, o)
  BY <1>1, ZenonT(60) DEF Contract!FirstOfEquals, FirstOfEquals
<1> QED BY <1>2, <1>3, Zenon DEF Contract!Sorted, SortedBy

-----------------------------------------------------------------------------
(***************************************************************************)
(* The contract                                                            *)
(***************************************************************************)

\* What is delivered, as the contract sees it.
Result == [output EXCEPT !.recs = Placed(@)]

LEMMA ResultIs ==
  /\ output = Contract!NotYet => Result = Contract!NotYet
  /\ output = Contract!Failed => Result = Contract!Failed
  /\ \A recs : output = Contract!Delivered(recs) => Result = Contract!Delivered(Placed(recs))
<1>1. Placed(<<>>) = <<>>
  BY DEF Placed
<1>2. ASSUME NEW st, NEW recs, output = [state |-> st, recs |-> recs]
      PROVE  Result = [state |-> st, recs |-> Placed(recs)]
  BY <1>2 DEF Result
<1> QED BY <1>1, <1>2 DEF Contract!NotYet, Contract!Failed, Contract!Delivered

LEMMA SamePlaced ==
  ASSUME UNCHANGED <<options, given>>
  PROVE  /\ Placed(AllRecords)' = Placed(AllRecords)
         /\ output' = output => Result' = Result
         /\ output' = Contract!Failed => Result' = Contract!Failed
         /\ \A recs : output' = Contract!Delivered(recs) =>
              Result' = Contract!Delivered(Placed(recs))
<1>1. AllRecords' = AllRecords /\ Order' = Order
  BY SameInputs
<1>2. Placed(AllRecords)' = Placed(AllRecords)
  BY <1>1 DEF Placed
<1>3. Result' = [output' EXCEPT !.recs = [i \in DOMAIN @ |-> [key |-> Order[@[i].key], pos |-> @[i].pos]]]
  BY <1>1 DEF Result, Placed
<1>4. \A recs : Placed(recs) = [i \in DOMAIN recs |-> [key |-> Order[recs[i].key], pos |-> recs[i].pos]]
  BY DEF Placed
<1>5. ASSUME NEW st, NEW recs, output' = [state |-> st, recs |-> recs]
      PROVE  Result' = [state |-> st, recs |-> Placed(recs)]
  BY <1>3, <1>4, <1>5
<1>6. Placed(<<>>) = <<>>
  BY DEF Placed
<1>7. output' = output => Result' = Result
  BY <1>3 DEF Result, Placed
<1> QED BY <1>2, <1>5, <1>6, <1>7 DEF Contract!Failed, Contract!Delivered

\* What a step delivers is what is promised.
LEMMA DeliversSorted ==
  ASSUME IsFiniteSet(Texts), IInv, DInv, CloseDirect \/ WriteLines
  PROVE  \/ output' = output
         \/ output' = Contract!Failed
         \/ output' = Contract!Delivered(SortedBy(AllRecords, Order, options.unique))
<1>1. CASE CloseDirect
  <2>1. pc = "emit" /\ DirectMode /\ heap = <<>>
    BY <1>1 DEF CloseDirect
  <2>2. ASSUME iov = <<>>, NEW recs \in LinesOf(written)
        PROVE  recs = SortedBy(AllRecords, Order, options.unique)
    BY <2>1, <2>2, ClosesSorted
  <2>3. \/ output' = output
        \/ output' = Contract!Failed
        \/ iov = <<>> /\ \E recs \in LinesOf(written) : output' = Contract!Delivered(recs)
    BY <1>1 DEF CloseDirect, Fails
  <2> QED BY <2>2, <2>3
<1>2. CASE WriteLines
  <2> DEFINE K == {i \in DOMAIN lines :
                     ~options.unique
                     \/ i = 1 \/ CompareKeys(lines[i - 1].key, lines[i].key) # 0}
  <2>1. pc = "write"
    BY <1>2 DEF WriteLines
  <2>2. lines = StableSort(AllRecords, Order) /\ Types /\ lines \in Seq(Record)
    BY <2>1 DEF DInv, IInv, Types
  <2>3. ASSUME NEW kept \in Listed(K)
        PROVE  [i \in DOMAIN kept |-> lines[kept[i]]]
               = SortedBy(AllRecords, Order, options.unique)
    <3>1. [i \in DOMAIN kept |-> lines[kept[i]]] =
            IF options.unique THEN FirstOfEquals(lines, Order) ELSE lines
      BY <2>2, WritesSorted
    <3> QED BY <2>2, <3>1 DEF SortedBy
  <2>4. \/ output' = Contract!Failed
        \/ \E kept \in Listed(K) :
             output' = Contract!Delivered([i \in DOMAIN kept |-> lines[kept[i]]])
    BY <1>2 DEF WriteLines, Fails
  <2> HIDE DEF K
  <2> QED BY <2>3, <2>4
<1> QED BY <1>1, <1>2

LEMMA StepImplements ==
  ASSUME IsFiniteSet(Texts), IInv, DInv, [Next]_vars
  PROVE  [Contract!Next]_(Contract!vars)
<1>1. UNCHANGED <<options, given>>
  BY DEF Next, vars, ReadOperand, Dispatch, OpenOutput, PrepareKeys, BuildHeap, Heapify,
         SiftDown, EmitDirect, Flush, CloseDirect, EmitLine, Replace, WriteLines, input_vars
<1>2. options'.unique = options.unique /\ Placed(AllRecords)' = Placed(AllRecords)
  BY <1>1, SamePlaced
<1>3. CASE output' = output
  <2>1. Result' = Result
    BY <1>1, <1>3, SamePlaced
  <2> QED BY <1>2, <2>1 DEF Contract!vars, Result
<1>4. ASSUME Next, output' # output PROVE Result = Contract!NotYet
  <2>1. pc # "ended"
    BY <1>4 DEF Next, ReadOperand, Dispatch, OpenOutput, PrepareKeys, BuildHeap, Heapify,
                SiftDown, EmitDirect, Flush, CloseDirect, EmitLine, Replace, WriteLines
  <2> QED BY <2>1, ResultIs DEF DInv
<1>5. CASE Next /\ output' # output /\ output' = Contract!Failed
  <2>1. Result' = Contract!Failed /\ Result = Contract!NotYet
    BY <1>1, <1>4, <1>5, SamePlaced
  <2> QED BY <1>2, <2>1 DEF Contract!Next, Contract!Fail, Result
<1>6. CASE Next /\ output' # output
           /\ output' = Contract!Delivered(SortedBy(AllRecords, Order, options.unique))
  <2>1. Result = Contract!NotYet
    BY <1>4, <1>6
  <2>2. Result' = Contract!Delivered(Placed(SortedBy(AllRecords, Order, options.unique)))
    BY <1>1, <1>6, SamePlaced
  <2>3. AllRecords \in Seq(Record) /\ options \in OptionsType /\ options.unique \in BOOLEAN
    BY RecordsTyped DEF IInv, Types, OptionsType
  <2>4. Placed(SortedBy(AllRecords, Order, options.unique))
        = SortedBy(Placed(AllRecords), Ids, options.unique)
    BY <2>3, PlacedSort
  <2>5. SortedBy(Placed(AllRecords), Ids, options.unique)
        = Contract!Sorted(Placed(AllRecords), Ids)
    BY ContractSorts
  <2>6. Result' = Contract!Delivered(Contract!Sorted(Placed(AllRecords), Ids))
    BY <2>2, <2>4, <2>5
  <2>7. Contract!Deliver
    BY <1>2, <2>1, <2>6 DEF Contract!Deliver, Result, Ids
  <2> QED BY <2>7 DEF Contract!Next
<1>7. \/ output' = output \/ output' = Contract!Failed
      \/ output' = Contract!Delivered(SortedBy(AllRecords, Order, options.unique))
  <2>1. CASE CloseDirect \/ WriteLines
    BY <2>1, DeliversSorted
  <2>2. CASE ~(CloseDirect \/ WriteLines)
    BY <2>2 DEF Next, vars, ReadOperand, Dispatch, OpenOutput, PrepareKeys, BuildHeap, Heapify,
                SiftDown, EmitDirect, Flush, EmitLine, Replace, Fails
  <2> QED BY <2>1, <2>2
<1>8. CASE UNCHANGED vars
  BY <1>3, <1>8 DEF vars
<1> QED BY <1>3, <1>5, <1>6, <1>7, <1>8

\* The merge of sorted operands delivers what a stable sort of all their lines
\* delivers, with -u the first of each group of equals, or it fails: for all
\* options, whatever the operands, however many, also when the output replaces
\* one of them, and wherever a call fails (rank_merge_all).
THEOREM ImplementsContract ==
  ASSUME IsFiniteSet(Texts)
  PROVE  Spec => Contract!Spec
<1>1. Init => IInv /\ DInv
  BY InitHolds, InitDInv
<1>2. IInv /\ DInv /\ [Next]_vars => (IInv /\ DInv)'
  BY NextHolds, NextDInv
<1>3. Init => Contract!Init
  <2> SUFFICES ASSUME Init PROVE Contract!Init
    OBVIOUS
  <2>1. Result = Contract!NotYet
    BY ResultIs DEF Init
  <2> QED BY <2>1 DEF Contract!Init, Result
<1>4. IInv /\ DInv /\ [Next]_vars => [Contract!Next]_(Contract!vars)
  BY StepImplements
<1> QED BY <1>1, <1>2, <1>3, <1>4, PTL DEF Spec, Contract!Spec

=============================================================================
