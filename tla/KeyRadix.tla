------------------------------ MODULE KeyRadix ------------------------------
(***************************************************************************)
(* rank_radix_sort_key of src/radix.c: lines are sorted by their keys with *)
(* a most-significant-byte radix sort.  A range of lines is scattered by   *)
(* one byte into a second array, copied back, and every bucket becomes a   *)
(* range of its own; small or deep ranges are sorted by insertion.  With   *)
(* --parallel the buckets of the first pass are tasks of worker threads    *)
(* that share both arrays (see TaskPool).                                  *)
(*                                                                         *)
(* The ranges that wait are a set: taking them in any order, and other     *)
(* ranges' steps between the scattering and the copying of one, covers the *)
(* recursion of the code and every schedule of its workers.  The code goes *)
(* from key to key depth first, here all groups of one key come before     *)
(* those of the next; the groups are disjoint.                             *)
(***************************************************************************)
EXTENDS Integers, Sequences, FiniteSets, SortOrder

CONSTANTS
  Lines,        \* the lines there are, numbers in the order of their bytes
  Fields,       \* Fields[line][f] is field f, a sequence of bytes
  Sorts,        \* what may be sorted how: the lines in input order, and options
  Threshold,    \* KEY_RADIX_INSERTION_THRESHOLD, 48 in the code
  DepthLimit    \* RADIX_DEPTH_LIMIT, 4096 in the code

\* A key is a field and a direction, its own r or the one it inherits from -r.
OptionsType ==
  [keys : Seq([field : Nat, reverse : BOOLEAN]),
   reverse : BOOLEAN, stable : BOOLEAN, unique : BOOLEAN]

ASSUME ConstantsAssumption ==
  /\ Lines \subseteq Nat
  /\ Fields \in [Lines -> Seq(Seq(Nat))]
  /\ \A s \in Sorts :
       /\ s.lines \in Seq(Lines) /\ s.options \in OptionsType
       /\ s.options.keys # <<>>
       /\ \A l \in Lines : {k.field : k \in ToSet(s.options.keys)} \subseteq DOMAIN Fields[l]
  /\ Threshold \in Nat \ {0} /\ DepthLimit \in Nat \ {0}

VARIABLES
  pc,        \* "start", "radix", "groups", "lastresort", "done"
  options,   \* the options of this sort
  given,     \* the lines as they were read
  items,     \* lines->items
  aux,       \* the second array
  pending,   \* ranges lo .. hi of items that are still to be sorted
  key,       \* the key the ranges are sorted by
  groups,    \* ranges of lines whose keys so far are equal
  reversed   \* lines->output_reversed

vars == <<pc, options, given, items, aux, pending, key, groups, reversed>>

sort_vars == <<options, given>>

-----------------------------------------------------------------------------
(***************************************************************************)
(* Comparing and classifying                                               *)
(***************************************************************************)

KeyIds == DOMAIN options.keys

KeyOf(line, k) == Fields[line][options.keys[k].field]
KeyBytes(item, k) == KeyOf(item.key, k)

\* s with part in the places from lo on.
Splice(s, lo, part) ==
  SubSeq(s, 1, lo - 1) \o part \o SubSeq(s, lo + Len(part), Len(s))

\* compare_key_from_depth: bytes before depth are taken to be equal.
CompareFromDepth(a, b, k, depth) ==
  LET x      == KeyBytes(a, k)
      y      == KeyBytes(b, k)
      differ == {p \in depth + 1 .. Min({Len(x), Len(y)}) : x[p] # y[p]}
      pos    == Max({depth, Min({Len(x), Len(y)})})
      result == IF differ # {} THEN IF x[Min(differ)] < y[Min(differ)] THEN -1 ELSE 1
                ELSE IF pos = Len(x) /\ pos = Len(y) THEN 0
                ELSE IF pos = Len(x) THEN -1 ELSE 1
  IN  IF options.keys[k].reverse THEN -result ELSE result

\* same_key
SameKey(a, b, k) == CompareFromDepth(a, b, k, 0) = 0

\* Variant: keys that end go last.
Bucket_last(item, k, depth) ==
  IF depth >= Len(KeyBytes(item, k)) THEN 257 ELSE KeyBytes(item, k)[depth + 1] + 1

\* key_bucket: bucket 0 holds the keys that end here.
Bucket(item, k, depth) ==
  IF depth >= Len(KeyBytes(item, k)) THEN 0 ELSE KeyBytes(item, k)[depth + 1] + 1

\* The place of line i among those of lo .. i - 1, found by bisection; left and
\* right are b[1] and b[2].
Bisected(s, lo, i, k, depth) ==
  LET find[b \in (lo .. i) \X (lo .. i)] ==
        LET mid == b[1] + (b[2] - b[1]) \div 2
        IN  IF b[1] >= b[2] THEN b[1]
            ELSE IF CompareFromDepth(s[i], s[mid], k, depth) < 0
            THEN find[<<b[1], mid>>] ELSE find[<<mid + 1, b[2]>>]
  IN  find[<<lo, i>>]

\* The lines from at on make way for line i.
Inserted(s, i, at) == Splice(s, at, <<s[i]>> \o SubSeq(s, at, i - 1))

\* key_insertion_range
InsertionSorted(arr, lo, hi, k, depth) ==
  LET upto[i \in lo .. hi] ==
        IF i = lo THEN arr
        ELSE Inserted(upto[i - 1], i, Bisected(upto[i - 1], lo, i, k, depth))
  IN  upto[hi]

\* skip_key_common_prefix_lcp: how deep the keys of a range are equal.  When
\* they are equal altogether the answer is the limit, whatever their length.
SkipCommonPrefix(t) ==
  LET first  == KeyBytes(items[t.lo], t.key)
      limit  == Min({Len(first), DepthLimit})
      keys   == {KeyBytes(items[i], t.key) : i \in t.lo .. t.hi}
      common == {n \in t.depth .. limit :
                   \A x \in keys : Len(x) >= n /\ \A p \in t.depth + 1 .. n : x[p] = first[p]}
  IN  IF t.hi - t.lo + 1 <= Threshold \/ t.depth >= limit \/ Max(common) = t.depth
      THEN t.depth
      ELSE IF Max(common) = Len(first) /\ \A x \in keys : Len(x) = Len(first)
      THEN DepthLimit
      ELSE Max(common)

\* A range that waits for its first step; children are the ranges that
\* follow once it is copied back.
Range_(lo, hi, k, depth) ==
  [lo |-> lo, hi |-> hi, key |-> k, depth |-> depth, scattered |-> FALSE, children |-> {}]

\* The place of line i of a range: it goes behind the lines of earlier buckets and those
\* of its own bucket that are before it.
Target(t, depth, i) ==
  LET b(j) == Bucket(items[j], t.key, depth)
      ahead(j) ==
        \/ b(j) = b(i) /\ j < i
        \/ b(j) # b(i) /\ (b(j) < b(i)) = ~options.keys[t.key].reverse
  IN  t.lo + Cardinality({j \in t.lo .. t.hi : ahead(j)})

\* Variants: a range reaches one line too far, past the array or, bounded by
\* the range it came from, only into its neighbour.
Children_past(t, depth) ==
  LET buckets == {Bucket(items[i], t.key, depth) : i \in t.lo .. t.hi}
      places(b) == {Target(t, depth, i) :
                      i \in {j \in t.lo .. t.hi : Bucket(items[j], t.key, depth) = b}}
  IN  {Range_(Min(places(b)), Max(places(b)) + 1, t.key, depth + 1) :
         b \in {c \in buckets \ {0} : Cardinality(places(c)) > 1}}

Children_overlap(t, depth) ==
  {IF c.hi < t.hi THEN c ELSE [c EXCEPT !.hi = t.hi] : c \in Children_past(t, depth)}

\* Variant: the next byte is the same byte.
Children_same_depth(t, depth) ==
  LET buckets == {Bucket(items[i], t.key, depth) : i \in t.lo .. t.hi}
      places(b) == {Target(t, depth, i) :
                      i \in {j \in t.lo .. t.hi : Bucket(items[j], t.key, depth) = b}}
  IN  {Range_(Min(places(b)), Max(places(b)), t.key, depth) :
         b \in {c \in buckets \ {0} : Cardinality(places(c)) > 1}}

\* Buckets of more than one line are sorted by the next byte, except the one
\* of the keys that have ended.
Children(t, depth) ==
  LET buckets == {Bucket(items[i], t.key, depth) : i \in t.lo .. t.hi}
      places(b) == {Target(t, depth, i) :
                      i \in {j \in t.lo .. t.hi : Bucket(items[j], t.key, depth) = b}}
  IN  {Range_(Min(places(b)), Max(places(b)), t.key, depth + 1) :
         b \in {c \in buckets \ {0} : Cardinality(places(c)) > 1}}

-----------------------------------------------------------------------------

Init ==
  /\ pc = "start"
  /\ \E s \in Sorts : options = s.options /\ given = s.lines
  /\ items = [i \in DOMAIN given |-> [key |-> given[i], pos |-> i]]
  /\ aux = items
  /\ pending = {} /\ groups = {}
  /\ key = 1
  /\ reversed = FALSE

\* The comparisons of neighbours, as maybe_use_key_monotonic and
\* maybe_use_key_range_monotonic look at them.
Neighbours(lo, hi, k) ==
  {CompareFromDepth(items[i], items[i + 1], k, 0) : i \in lo .. hi - 1}
Ascending(lo, hi, k) == Neighbours(lo, hi, k) \subseteq {-1, 0}

\* Variant: equal neighbours count as descending.
StrictlyDescending_weak(lo, hi, k) == Neighbours(lo, hi, k) \subseteq {0, 1}

StrictlyDescending(lo, hi, k) == Neighbours(lo, hi, k) \subseteq {1}

\* maybe_use_key_monotonic
StartsInOrder ==
  /\ options.stable /\ ~options.unique /\ Len(options.keys) = 1
  /\ Ascending(1, Len(items), 1) \/ StrictlyDescending(1, Len(items), 1)

\* Lines that are in order, or in the opposite one, are left where they are.
KeyMonotonic ==
  /\ pc = "start" /\ Len(items) >= 2
  /\ StartsInOrder
  /\ reversed' = IF StrictlyDescending(1, Len(items), 1) THEN ~reversed ELSE reversed
  /\ pc' = "done"
  /\ UNCHANGED <<sort_vars, items, aux, pending, key, groups>>

StartRadix ==
  /\ pc = "start"
  /\ IF Len(items) < 2
     THEN pc' = "done" /\ UNCHANGED pending
     ELSE /\ ~StartsInOrder
          /\ pc' = "radix"
          /\ pending' = {Range_(1, Len(items), 1, 0)}
  /\ UNCHANGED <<sort_vars, items, aux, key, groups, reversed>>

\* key_radix_range, the first half: classify and scatter into aux.
Scatter(t) ==
  /\ pc = "radix" /\ ~t.scattered
  /\ LET depth == SkipCommonPrefix(t)
     IN  /\ t.hi - t.lo + 1 > Threshold /\ depth < DepthLimit
         /\ aux' = Splice(aux, t.lo,
                      [n \in 1 .. t.hi - t.lo + 1 |->
                         items[CHOOSE i \in t.lo .. t.hi :
                                 Target(t, depth, i) = t.lo + n - 1]])
         /\ pending' = (pending \ {t}) \cup
              {[t EXCEPT !.scattered = TRUE, !.children = Children(t, depth)]}
  /\ UNCHANGED <<pc, sort_vars, items, key, groups, reversed>>

\* The second half: copy the range back and go on with its buckets.
CopyBack(t) ==
  /\ pc = "radix" /\ t.scattered
  /\ items' = Splice(items, t.lo, SubSeq(aux, t.lo, t.hi))
  /\ pending' = (pending \ {t}) \cup t.children
  /\ UNCHANGED <<pc, sort_vars, aux, key, groups, reversed>>

Insert(t) ==
  /\ pc = "radix" /\ ~t.scattered
  /\ LET depth == SkipCommonPrefix(t)
     IN  /\ t.hi - t.lo + 1 <= Threshold \/ depth >= DepthLimit
         /\ items' = InsertionSorted(items, t.lo, t.hi, t.key, depth)
  /\ pending' = pending \ {t}
  /\ UNCHANGED <<pc, sort_vars, aux, key, groups, reversed>>

-----------------------------------------------------------------------------
(***************************************************************************)
(* From key to key: sort_next_key_groups, sort_line_last_resort_groups     *)
(***************************************************************************)

\* Maximal ranges of more than one line that agree on the keys up to k.
EqualGroups(k) ==
  LET same(i, j) == \A m \in 1 .. k : SameKey(items[i], items[j], m)
      starts     == {i \in DOMAIN items : i = 1 \/ ~same(i - 1, i)}
      last(i)    == Max({j \in i .. Len(items) : \A m \in i + 1 .. j : m \notin starts})
  IN  {<<i, last(i)>> : i \in {s \in starts : last(s) > s}}

KeyDone ==
  /\ pc = "radix" /\ pending = {}
  /\ IF key < Len(options.keys)
     THEN pc' = "groups" /\ groups' = EqualGroups(key)
     ELSE IF ~options.stable /\ ~options.unique
     THEN pc' = "lastresort" /\ groups' = EqualGroups(key)
     ELSE pc' = "done" /\ UNCHANGED groups
  /\ UNCHANGED <<sort_vars, items, aux, pending, key, reversed>>

\* reverse_line_range
Reversed(s, lo, hi) == Splice(s, lo, Reverse(SubSeq(s, lo, hi)))

\* A group is sorted by the next key unless it is in order already.
DescendGroup(g) ==
  /\ pc = "groups"
  /\ groups' = groups \ {g}
  /\ \/ /\ Ascending(g[1], g[2], key + 1)
        /\ UNCHANGED <<items, pending>>
     \/ /\ StrictlyDescending(g[1], g[2], key + 1)
        /\ items' = Reversed(items, g[1], g[2])
        /\ UNCHANGED pending
     \/ /\ ~Ascending(g[1], g[2], key + 1) /\ ~StrictlyDescending(g[1], g[2], key + 1)
        /\ pending' = pending \cup {Range_(g[1], g[2], key + 1, 0)}
        /\ UNCHANGED items
  /\ UNCHANGED <<pc, sort_vars, aux, key, reversed>>

NextKey ==
  /\ pc = "groups" /\ groups = {}
  /\ key' = key + 1
  /\ pc' = "radix"
  /\ UNCHANGED <<sort_vars, items, aux, pending, groups, reversed>>

\* The lines of lo .. hi in the order of their bytes.
ByLine(lo, hi) ==
  LET ahead(j, i) == items[j].key < items[i].key \/ (items[j].key = items[i].key /\ j < i)
      place(i)    == lo + Cardinality({j \in lo .. hi : ahead(j, i)})
  IN  [n \in 1 .. hi - lo + 1 |-> items[CHOOSE i \in lo .. hi : place(i) = lo + n - 1]]

\* Without -s and -u, lines whose keys are equal are sorted by their bytes.
LastResort(g) ==
  /\ pc = "lastresort"
  /\ groups' = groups \ {g}
  /\ LET byLine == ByLine(g[1], g[2])
     IN  items' = Splice(items, g[1], IF options.reverse THEN Reverse(byLine) ELSE byLine)
  /\ UNCHANGED <<pc, sort_vars, aux, pending, key, reversed>>

LastResortDone ==
  /\ pc = "lastresort" /\ groups = {}
  /\ pc' = "done"
  /\ UNCHANGED <<sort_vars, items, aux, pending, key, groups, reversed>>

\* A sort that is done stays as it is; short of that it is never stuck.
Done == pc = "done" /\ UNCHANGED vars

Next ==
  \/ KeyMonotonic \/ StartRadix
  \/ \E t \in pending : Scatter(t) \/ CopyBack(t) \/ Insert(t)
  \/ KeyDone \/ NextKey \/ LastResortDone
  \/ \E g \in groups : DescendGroup(g) \/ LastResort(g)
  \/ Done

Spec == Init /\ [][Next]_vars

-----------------------------------------------------------------------------
(***************************************************************************)
(* The order that is asked for                                             *)
(***************************************************************************)

KeyLess(l, m, k) ==
  IF options.keys[k].reverse THEN BytesLess(KeyOf(m, k), KeyOf(l, k))
                   ELSE BytesLess(KeyOf(l, k), KeyOf(m, k))

SameKeys(l, m, upto) == \A j \in 1 .. upto : KeyOf(l, j) = KeyOf(m, j)

\* One line comes before another by the first key that tells them apart, or
\* by its bytes.
LineLess(l, m) ==
  \/ \E k \in KeyIds : KeyLess(l, m, k) /\ SameKeys(l, m, k - 1)
  \/ /\ SameKeys(l, m, Len(options.keys))
     /\ ~options.stable /\ ~options.unique
     /\ IF options.reverse THEN m < l ELSE l < m

-----------------------------------------------------------------------------
(***************************************************************************)
(* Properties                                                              *)
(***************************************************************************)

Item == [key : Lines, pos : Nat]

\* Every variable has the type its comment says.
TypeOK ==
  /\ pc \in {"start", "radix", "groups", "lastresort", "done"}
  /\ options \in OptionsType /\ given \in Seq(Lines)
  /\ items \in Seq(Item) /\ aux \in Seq(Item)
  /\ Len(items) = Len(given) /\ Len(aux) = Len(given)
  /\ \A t \in pending :
       /\ t.lo \in DOMAIN items /\ t.hi \in DOMAIN items
       /\ t.key \in KeyIds /\ t.depth \in Nat /\ t.scattered \in BOOLEAN
  /\ key \in KeyIds
  /\ groups \subseteq (DOMAIN items) \X (DOMAIN items)
  /\ reversed \in BOOLEAN

\* Ranges that wait share no line: this is why workers may sort theirs at
\* the same time, in the same two arrays.
RangesDisjoint ==
  \A s, t \in pending : s # t => s.lo .. s.hi \cap t.lo .. t.hi = {}

\* Two lines that are not in one waiting range are in the right order by the
\* key at hand, whatever has been sorted so far, if they agree on the keys
\* before it: a range never has to look outside itself.
OrderedAcrossRanges ==
  pc = "radix" =>
    \A i, j \in DOMAIN items :
      \/ i >= j
      \/ \E t \in pending : {i, j} \subseteq t.lo .. t.hi
      \/ \E m \in 1 .. key - 1 : ~SameKey(items[i], items[j], m)
      \/ ~KeyLess(items[j].key, items[i].key, key)

\* No range needs another, neither its lines nor its result.
RangesApart == RangesDisjoint /\ OrderedAcrossRanges

Output == IF reversed THEN Reverse(items) ELSE items

\* Lines whose keys are all equal come out in the order they were read.
TiesInOrder ==
  \A i, j \in DOMAIN Output :
    i < j /\ SameKeys(Output[i].key, Output[j].key, Len(options.keys)) =>
      Output[i].pos < Output[j].pos

\* The lines come out once each and sorted; with -s or -u equal ones keep the
\* order they had unless a key is reversed (see FirstComesFirst).  The choice
\* between the engines, insertion, monotonic input, the limit of the depth
\* and the schedule of the workers do not show.
SortsByKeys ==
  pc = "done" =>
    /\ Len(Output) = Len(given)
    /\ ToSet(Output) = {[key |-> given[p], pos |-> p] : p \in DOMAIN given}
    /\ \A i, j \in DOMAIN Output : i < j => ~LineLess(Output[j].key, Output[i].key)
    /\ (options.stable \/ options.unique) /\ (\A k \in KeyIds : ~options.keys[k].reverse)
         => TiesInOrder

\* While the lines are sorted by one key, a range gives way only to ranges
\* inside it that are closer to the end: scattered, or compared from a
\* deeper byte, and never from one beyond the limit.  So the recursion ends.
RangesDescend ==
  [][pc = "radix" =>
       \A t \in pending' \ pending :
         /\ t.depth <= DepthLimit
         /\ \E s \in pending \ pending' :
              /\ t.lo .. t.hi \subseteq s.lo .. s.hi
              /\ \/ t.depth > s.depth
                 \/ t.depth = s.depth /\ t.scattered /\ ~s.scattered]_vars

\* doc/rank.1, -u: "Output only the first of runs comparing equal".  Lines
\* whose keys are all equal are output in the order they were read.
FirstComesFirst == pc = "done" /\ (options.stable \/ options.unique) => TiesInOrder

=============================================================================
