--------------------------- MODULE KeyRadixProofs ---------------------------
(***************************************************************************)
(* Proofs about KeyRadix for any lines, keys, thresholds and schedules.    *)
(***************************************************************************)
EXTENDS KeyRadix, SortOrderProofs

-----------------------------------------------------------------------------
(***************************************************************************)
(* The order of keys                                                       *)
(***************************************************************************)

\* What is sorted, and how, is one of the sorts there are.
Chosen == \E s \in Sorts : options = s.options /\ given = s.lines

LEMMA OptionsOK ==
  ASSUME Chosen
  PROVE  /\ options \in OptionsType /\ given \in Seq(Lines)
         /\ Len(options.keys) \in Nat \ {0} /\ KeyIds = 1 .. Len(options.keys)
         /\ \A k \in KeyIds : options.keys[k].reverse \in BOOLEAN
         /\ \A l \in Lines, k \in KeyIds : KeyOf(l, k) \in Text
         /\ Lines \subseteq Nat
<1>1. PICK s \in Sorts : options = s.options /\ given = s.lines
  BY DEF Chosen
<1>2. /\ options \in OptionsType /\ given \in Seq(Lines) /\ options.keys # <<>>
      /\ \A l \in Lines : {k.field : k \in ToSet(options.keys)} \subseteq DOMAIN Fields[l]
      /\ Lines \subseteq Nat /\ Fields \in [Lines -> Seq(Text)]
  BY <1>1, ConstantsAssumption DEF Text
<1> DEFINE keys == options.keys
<1>3. keys \in Seq([field : Nat, reverse : BOOLEAN]) /\ keys # <<>>
  BY <1>2 DEF OptionsType
<1> HIDE DEF keys
<1>4. /\ Len(keys) \in Nat \ {0} /\ DOMAIN keys = 1 .. Len(keys)
      /\ \A k \in 1 .. Len(keys) : keys[k] \in [field : Nat, reverse : BOOLEAN]
  <2>1. Len(keys) # 0
    BY <1>3, EmptySeq, Zenon
  <2>2. Len(keys) \in Nat /\ DOMAIN keys = 1 .. Len(keys)
    BY <1>3
  <2>3. \A k \in 1 .. Len(keys) : keys[k] \in [field : Nat, reverse : BOOLEAN]
    <3> DEFINE T == [field : Nat, reverse : BOOLEAN]
    <3>1. keys \in Seq(T)
      BY <1>3
    <3> HIDE DEF T
    <3>2. \A k \in 1 .. Len(keys) : keys[k] \in T
      BY <3>1
    <3> QED BY <3>2 DEF T
  <2> QED BY <2>1, <2>2, <2>3
<1>5. ASSUME NEW l \in Lines, NEW k \in DOMAIN keys PROVE Fields[l][keys[k].field] \in Text
  <2>1. keys[k].field \in DOMAIN Fields[l]
    BY <1>2, <1>5 DEF ToSet, keys
  <2>2. Fields[l] \in Seq(Text)
    BY <1>2
  <2> QED BY <2>1, <2>2
<1> QED BY <1>2, <1>4, <1>5 DEF KeyIds, KeyOf, keys

\* compare_key_from_depth compares the keys, if these agree as far as it does
\* not look.
LEMMA ComparedFromDepth ==
  ASSUME Chosen, NEW a, NEW b, a.key \in Lines, b.key \in Lines, NEW k \in KeyIds, NEW d \in Nat,
         Agree(KeyBytes(a, k), KeyBytes(b, k), d)
  PROVE  /\ CompareFromDepth(a, b, k, d) \in {-1, 0, 1}
         /\ CompareFromDepth(a, b, k, d) < 0 <=> KeyLess(a.key, b.key, k)
         /\ CompareFromDepth(a, b, k, d) > 0 <=> KeyLess(b.key, a.key, k)
         /\ CompareFromDepth(a, b, k, d) = 0 <=> KeyOf(a.key, k) = KeyOf(b.key, k)
<1> DEFINE x == KeyBytes(a, k)
           y == KeyBytes(b, k)
           differ == {p \in d + 1 .. Min({Len(x), Len(y)}) : x[p] # y[p]}
           pos == Max({d, Min({Len(x), Len(y)})})
           result == IF differ # {} THEN IF x[Min(differ)] < y[Min(differ)] THEN -1 ELSE 1
                     ELSE IF pos = Len(x) /\ pos = Len(y) THEN 0
                     ELSE IF pos = Len(x) THEN -1 ELSE 1
<1>1. x \in Text /\ y \in Text /\ Agree(x, y, d)
  BY OptionsOK DEF KeyBytes
<1>2. CompareFromDepth(a, b, k, d) = IF options.keys[k].reverse THEN -result ELSE result
  BY DEF CompareFromDepth
<1>3. KeyOf(a.key, k) = x /\ KeyOf(b.key, k) = y
  BY DEF KeyBytes
<1> HIDE DEF x, y
<1>4. /\ differ # {} =>
           /\ Min(differ) \in 1 .. Len(x) /\ Min(differ) \in 1 .. Len(y)
           /\ x[Min(differ)] < y[Min(differ)] => BytesLess(x, y)
           /\ y[Min(differ)] < x[Min(differ)] => BytesLess(y, x)
           /\ x[Min(differ)] # y[Min(differ)]
      /\ differ = {} =>
           /\ Len(x) < Len(y) => BytesLess(x, y)
           /\ Len(y) < Len(x) => BytesLess(y, x)
           /\ Len(x) = Len(y) => x = y
  BY <1>1, BytesTotalFrom, Zenon
<1>5. /\ Len(x) \in Nat /\ Len(y) \in Nat /\ d <= Len(x) /\ d <= Len(y)
      /\ \A p \in 1 .. Len(x) : x[p] \in Nat
      /\ \A p \in 1 .. Len(y) : y[p] \in Nat
  BY <1>1 DEF Agree, Text
<1>6. /\ pos <= Len(x) /\ pos <= Len(y) /\ (pos = Len(x) \/ pos = Len(y)) /\ pos \in Nat
  <2> DEFINE least == Min({Len(x), Len(y)})
  <2>1. least \in Nat /\ least <= Len(x) /\ least <= Len(y) /\ (least = Len(x) \/ least = Len(y))
    BY <1>5, MinOfTwo
  <2> HIDE DEF least
  <2>2. /\ Max({d, least}) \in Nat /\ Max({d, least}) >= d /\ Max({d, least}) >= least
        /\ Max({d, least}) = d \/ Max({d, least}) = least
    BY <2>1, MaxOfTwo
  <2>3. pos = Max({d, least})
    BY DEF least
  <2> HIDE DEF pos
  <2> QED BY <1>5, <2>1, <2>2, <2>3
<1> DEFINE q == Min(differ)
<1> HIDE DEF differ, pos, q
<1>7. /\ result \in {-1, 0, 1}
      /\ result = -1 => BytesLess(x, y)
      /\ result = 1 => BytesLess(y, x)
      /\ result = 0 => x = y
  <2>1. CASE differ # {}
    <3>1. result = IF x[q] < y[q] THEN -1 ELSE 1
      BY <2>1 DEF q
    <3>2. /\ q \in 1 .. Len(x) /\ q \in 1 .. Len(y) /\ x[q] # y[q]
          /\ x[q] < y[q] => BytesLess(x, y)
          /\ y[q] < x[q] => BytesLess(y, x)
      BY <1>4, <2>1, Zenon DEF q
    <3>3. x[q] \in Nat /\ y[q] \in Nat
      BY <1>5, <3>2
    <3> HIDE DEF result
    <3> QED BY <3>1, <3>2, <3>3
  <2>2. CASE differ = {}
    <3>1. result = IF pos = Len(x) /\ pos = Len(y) THEN 0 ELSE IF pos = Len(x) THEN -1 ELSE 1
      BY <2>2
    <3> HIDE DEF result
    <3> QED BY <3>1, <1>4, <1>5, <1>6, <2>2
  <2> QED BY <2>1, <2>2
<1> HIDE DEF result
<1>8. /\ result = -1 <=> BytesLess(x, y)
      /\ result = 1 <=> BytesLess(y, x)
      /\ result = 0 <=> x = y
  <2>1. ~BytesLess(x, x) /\ ~BytesLess(y, y) /\ ~(BytesLess(x, y) /\ BytesLess(y, x))
    BY <1>1, BytesIrreflexive, BytesTransitive
  <2> QED BY <1>7, <2>1
<1>9. options.keys[k].reverse \in BOOLEAN
  BY OptionsOK
<1>10. CASE options.keys[k].reverse
  <2>1. KeyLess(a.key, b.key, k) = BytesLess(y, x) /\ KeyLess(b.key, a.key, k) = BytesLess(x, y)
    BY <1>3, <1>10 DEF KeyLess
  <2>2. CompareFromDepth(a, b, k, d) = -result
    BY <1>2, <1>10
  <2> QED BY <1>3, <1>7, <1>8, <2>1, <2>2
<1>11. CASE ~options.keys[k].reverse
  <2>1. KeyLess(a.key, b.key, k) = BytesLess(x, y) /\ KeyLess(b.key, a.key, k) = BytesLess(y, x)
    BY <1>3, <1>11 DEF KeyLess
  <2>2. CompareFromDepth(a, b, k, d) = result
    BY <1>2, <1>11
  <2> QED BY <1>3, <1>7, <1>8, <2>1, <2>2
<1> QED BY <1>9, <1>10, <1>11

\* compare_key_from_depth from the beginning compares the keys.
LEMMA Compared ==
  ASSUME Chosen, NEW a, NEW b, a.key \in Lines, b.key \in Lines, NEW k \in KeyIds
  PROVE  /\ CompareFromDepth(a, b, k, 0) \in {-1, 0, 1}
         /\ CompareFromDepth(a, b, k, 0) < 0 <=> KeyLess(a.key, b.key, k)
         /\ CompareFromDepth(a, b, k, 0) > 0 <=> KeyLess(b.key, a.key, k)
         /\ CompareFromDepth(a, b, k, 0) = 0 <=> KeyOf(a.key, k) = KeyOf(b.key, k)
<1>1. KeyBytes(a, k) \in Text /\ KeyBytes(b, k) \in Text
  BY OptionsOK DEF KeyBytes
<1>2. Agree(KeyBytes(a, k), KeyBytes(b, k), 0)
  BY <1>1 DEF Agree, Text
<1> QED BY <1>2, ComparedFromDepth

-----------------------------------------------------------------------------

\* The order of lines by key c; behind the last key come their bytes.
AtKey(l, m, c) ==
  IF c <= Len(options.keys) THEN KeyLess(l, m, c)
  ELSE IF options.reverse THEN m < l ELSE l < m

LEMMA AtKeyOrder ==
  ASSUME Chosen, NEW c \in 1 .. Len(options.keys) + 1, NEW l \in Lines, NEW m \in Lines, NEW n \in Lines
  PROVE  /\ ~AtKey(l, l, c)
         /\ AtKey(l, m, c) /\ AtKey(m, n, c) => AtKey(l, n, c)
         /\ ~AtKey(m, l, c) /\ ~AtKey(n, m, c) => ~AtKey(n, l, c)
         /\ c \in KeyIds =>
              /\ KeyOf(l, c) = KeyOf(m, c) <=> ~AtKey(l, m, c) /\ ~AtKey(m, l, c)
              /\ AtKey(l, m, c) <=> KeyLess(l, m, c)
<1>1. CASE c \in KeyIds
  <2> DEFINE x == KeyOf(l, c)
             y == KeyOf(m, c)
             z == KeyOf(n, c)
  <2>1. x \in Text /\ y \in Text /\ z \in Text /\ c <= Len(options.keys)
    BY <1>1, OptionsOK
  <2>2. /\ AtKey(l, m, c) = KeyLess(l, m, c) /\ AtKey(m, l, c) = KeyLess(m, l, c)
        /\ AtKey(m, n, c) = KeyLess(m, n, c) /\ AtKey(n, m, c) = KeyLess(n, m, c)
        /\ AtKey(l, n, c) = KeyLess(l, n, c) /\ AtKey(n, l, c) = KeyLess(n, l, c)
        /\ AtKey(l, l, c) = KeyLess(l, l, c)
    BY <2>1 DEF AtKey
  <2>3. \A s, t \in {l, m, n} : KeyLess(s, t, c) =
          IF options.keys[c].reverse THEN BytesLess(KeyOf(t, c), KeyOf(s, c))
                                     ELSE BytesLess(KeyOf(s, c), KeyOf(t, c))
    BY DEF KeyLess
  <2> DEFINE T == {x, y, z}
  <2>4. /\ \A s \in T : ~BytesLess(s, s)
        /\ \A s, t, u \in T : BytesLess(s, t) /\ BytesLess(t, u) => BytesLess(s, u)
        /\ \A s, t \in T : BytesLess(s, t) \/ BytesLess(t, s) \/ s = t
    <3>1. T \subseteq Text
      BY <2>1
    <3> HIDE DEF T
    <3> QED BY <3>1, BytesIrreflexive, BytesTransitive, BytesTotal
  <2> HIDE DEF x, y, z
  <2>5. /\ ~BytesLess(x, x)
        /\ BytesLess(x, y) /\ BytesLess(y, z) => BytesLess(x, z)
        /\ BytesLess(z, y) /\ BytesLess(y, x) => BytesLess(z, x)
        /\ BytesLess(x, y) \/ BytesLess(y, x) \/ x = y
        /\ BytesLess(y, z) \/ BytesLess(z, y) \/ z = y
        /\ BytesLess(x, z) \/ BytesLess(z, x) \/ x = z
        /\ ~(BytesLess(x, y) /\ BytesLess(y, x)) /\ ~(BytesLess(x, z) /\ BytesLess(z, x))
        /\ ~(BytesLess(y, z) /\ BytesLess(z, y))
        /\ BytesLess(x, z) /\ BytesLess(z, y) => BytesLess(x, y)
        /\ BytesLess(y, z) /\ BytesLess(z, x) => BytesLess(y, x)
        /\ BytesLess(z, x) /\ BytesLess(x, y) => BytesLess(z, y)
        /\ BytesLess(y, x) /\ BytesLess(x, z) => BytesLess(y, z)
    BY <2>4
  <2>6. CASE options.keys[c].reverse
    <3>1. /\ AtKey(l, m, c) = BytesLess(y, x) /\ AtKey(m, l, c) = BytesLess(x, y)
          /\ AtKey(m, n, c) = BytesLess(z, y) /\ AtKey(n, m, c) = BytesLess(y, z)
          /\ AtKey(l, n, c) = BytesLess(z, x) /\ AtKey(n, l, c) = BytesLess(x, z)
          /\ AtKey(l, l, c) = BytesLess(x, x)
      BY <2>2, <2>3, <2>6 DEF x, y, z
    <3> QED BY <2>2, <2>5, <3>1 DEF x, y
  <2>7. CASE ~options.keys[c].reverse
    <3>1. /\ AtKey(l, m, c) = BytesLess(x, y) /\ AtKey(m, l, c) = BytesLess(y, x)
          /\ AtKey(m, n, c) = BytesLess(y, z) /\ AtKey(n, m, c) = BytesLess(z, y)
          /\ AtKey(l, n, c) = BytesLess(x, z) /\ AtKey(n, l, c) = BytesLess(z, x)
          /\ AtKey(l, l, c) = BytesLess(x, x)
      BY <2>2, <2>3, <2>7 DEF x, y, z
    <3> QED BY <2>2, <2>5, <3>1 DEF x, y
  <2> QED BY <2>6, <2>7
<1>2. CASE c \notin KeyIds
  <2>1. ~(c <= Len(options.keys)) /\ l \in Nat /\ m \in Nat /\ n \in Nat
    BY <1>2, OptionsOK
  <2> QED BY <1>2, <2>1 DEF AtKey
<1> QED BY <1>1, <1>2

-----------------------------------------------------------------------------
(***************************************************************************)
(* Lines that move within a range                                          *)
(***************************************************************************)

Distinct(s) == \A p, q \in 1 .. Len(s) : p # q => s[p] # s[q]

\* s2 is s but for the lines of lo .. hi, which have changed places.
Moved(s, s2, lo, hi) ==
  /\ s2 \in Seq(Item) /\ Len(s2) = Len(s)
  /\ \A p \in 1 .. Len(s) : p \notin lo .. hi => s2[p] = s[p]
  /\ \A p \in lo .. hi : \E q \in lo .. hi : s2[p] = s[q]
  /\ Distinct(s) => Distinct(s2)

\* Line j may stand behind line i, as far as key c is concerned.
After(s, i, j, c) ==
  SameKeys(s[i].key, s[j].key, c - 1) => ~AtKey(s[j].key, s[i].key, c)

InOrder(s, c) == \A i, j \in 1 .. Len(s) : i < j => After(s, i, j, c)

\* A block is a pair of places, the first and the last of a range.
Within(b) == b[1] .. b[2]
InBlock(B, i, j) == \E b \in B : i \in Within(b) /\ j \in Within(b)

\* Lines that are not in one block are in order.
Across(s, B, c) ==
  \A i, j \in 1 .. Len(s) : i < j => InBlock(B, i, j) \/ After(s, i, j, c)

\* The lines of a block agree on the keys before c.
Alike(s, b, c) == \A i, j \in Within(b) : SameKeys(s[i].key, s[j].key, c - 1)

LEMMA ItemsHaveLines ==
  ASSUME NEW s \in Seq(Item), NEW i \in 1 .. Len(s)
  PROVE  s[i] \in Item /\ s[i].key \in Lines /\ s[i].pos \in Nat
<1>1. s[i] \in Item
  OBVIOUS
<1> QED BY <1>1 DEF Item

LEMMA MovedFrom ==
  ASSUME NEW s \in Seq(Item), NEW s2, NEW lo \in 1 .. Len(s), NEW hi \in 1 .. Len(s),
         Moved(s, s2, lo, hi), NEW i \in 1 .. Len(s)
  PROVE  \E p \in 1 .. Len(s) :
           s2[i] = s[p] /\ (i \in lo .. hi => p \in lo .. hi) /\ (i \notin lo .. hi => p = i)
<1>1. Len(s) \in Nat /\ lo .. hi \subseteq 1 .. Len(s)
  OBVIOUS
<1>2. CASE i \in lo .. hi
  <2>1. PICK q \in lo .. hi : s2[i] = s[q]
    BY <1>2 DEF Moved
  <2> QED BY <1>1, <1>2, <2>1
<1>3. CASE i \notin lo .. hi
  BY <1>3 DEF Moved
<1> QED BY <1>2, <1>3

\* Lines p and q of s are lines i and j of s2.
Origins(s, s2, lo, hi, i, j, p, q) ==
  /\ s2[i] = s[p] /\ s2[j] = s[q]
  /\ i \in lo .. hi => p \in lo .. hi
  /\ i \notin lo .. hi => p = i
  /\ j \in lo .. hi => q \in lo .. hi
  /\ j \notin lo .. hi => q = j
  /\ ~(i \in lo .. hi /\ j \in lo .. hi) => p < q

\* Two lines that are not both in the range keep their order.
LEMMA MovedPair ==
  ASSUME NEW s \in Seq(Item), NEW s2, NEW lo \in 1 .. Len(s), NEW hi \in 1 .. Len(s),
         Moved(s, s2, lo, hi), NEW i \in 1 .. Len(s), NEW j \in 1 .. Len(s), i < j
  PROVE  \E p, q \in 1 .. Len(s) : Origins(s, s2, lo, hi, i, j, p, q)
<1>1. PICK p \in 1 .. Len(s) :
        s2[i] = s[p] /\ (i \in lo .. hi => p \in lo .. hi) /\ (i \notin lo .. hi => p = i)
  BY MovedFrom
<1>2. PICK q \in 1 .. Len(s) :
        s2[j] = s[q] /\ (j \in lo .. hi => q \in lo .. hi) /\ (j \notin lo .. hi => q = j)
  BY MovedFrom
<1>3. ASSUME ~(i \in lo .. hi /\ j \in lo .. hi) PROVE p < q
  <2>1. CASE i \in lo .. hi /\ j \notin lo .. hi
    <3>1. p \in lo .. hi /\ q = j
      BY <1>1, <1>2, <2>1
    <3>2. j > hi
      BY <2>1
    <3> QED BY <3>1, <3>2
  <2>2. CASE i \notin lo .. hi /\ j \in lo .. hi
    <3>1. q \in lo .. hi /\ p = i
      BY <1>1, <1>2, <2>2
    <3>2. i < lo
      BY <2>2
    <3> QED BY <3>1, <3>2
  <2>3. CASE i \notin lo .. hi /\ j \notin lo .. hi
    BY <1>1, <1>2, <2>3
  <2> QED BY <1>3, <2>1, <2>2, <2>3
<1> QED BY <1>1, <1>2, <1>3 DEF Origins

LEMMA MovedInOrder ==
  ASSUME Chosen, NEW s \in Seq(Item), NEW s2, NEW lo \in 1 .. Len(s), NEW hi \in 1 .. Len(s),
         Moved(s, s2, lo, hi), NEW c \in 1 .. Len(options.keys) + 1, Alike(s, <<lo, hi>>, c),
         NEW m \in 1 .. c - 1, InOrder(s, m)
  PROVE  InOrder(s2, m)
<1> SUFFICES ASSUME NEW i \in 1 .. Len(s2), NEW j \in 1 .. Len(s2), i < j,
                    SameKeys(s2[i].key, s2[j].key, m - 1)
             PROVE  ~AtKey(s2[j].key, s2[i].key, m)
  BY DEF InOrder, After
<1>1. /\ i \in 1 .. Len(s) /\ j \in 1 .. Len(s)
      /\ Len(options.keys) \in Nat /\ KeyIds = 1 .. Len(options.keys)
  BY OptionsOK DEF Moved
<1>2. PICK p, q \in 1 .. Len(s) :
        /\ s2[i] = s[p] /\ s2[j] = s[q]
        /\ i \in lo .. hi => p \in lo .. hi
        /\ i \notin lo .. hi => p = i
        /\ j \in lo .. hi => q \in lo .. hi
        /\ j \notin lo .. hi => q = j
        /\ ~(i \in lo .. hi /\ j \in lo .. hi) => p < q
  <2>1. \E p, q \in 1 .. Len(s) : Origins(s, s2, lo, hi, i, j, p, q)
    BY <1>1, MovedPair, Zenon
  <2> QED BY <2>1, Zenon DEF Origins
<1>3. CASE i \in lo .. hi /\ j \in lo .. hi
  <2>1. SameKeys(s[p].key, s[q].key, c - 1)
    <3>1. p \in Within(<<lo, hi>>) /\ q \in Within(<<lo, hi>>)
      BY <1>2, <1>3 DEF Within
    <3> QED BY <3>1 DEF Alike
  <2>2. KeyOf(s[p].key, m) = KeyOf(s[q].key, m)
    BY <2>1 DEF SameKeys
  <2>3. s[p].key \in Lines /\ s[q].key \in Lines /\ m \in KeyIds /\ m \in 1 .. Len(options.keys) + 1
    <3>1. m \in KeyIds /\ m \in 1 .. Len(options.keys) + 1
      BY <1>1, SMTT(30)
    <3> QED BY <3>1, ItemsHaveLines, Zenon
  <2>4. ~AtKey(s[q].key, s[p].key, m)
    BY <2>2, <2>3, AtKeyOrder
  <2> QED BY <1>2, <2>4
<1>4. CASE ~(i \in lo .. hi /\ j \in lo .. hi)
  BY <1>2, <1>4 DEF InOrder, After
<1> QED BY <1>3, <1>4

LEMMA MovedAlike ==
  ASSUME NEW s \in Seq(Item), NEW s2, NEW lo \in 1 .. Len(s), NEW hi \in 1 .. Len(s),
         Moved(s, s2, lo, hi), NEW c, NEW b, Alike(s, b, c), Within(b) \subseteq 1 .. Len(s),
         Within(b) \cap lo .. hi = {} \/ lo .. hi \subseteq Within(b)
  PROVE  Alike(s2, b, c)
<1> SUFFICES ASSUME NEW i \in Within(b), NEW j \in Within(b)
             PROVE  SameKeys(s2[i].key, s2[j].key, c - 1)
  BY DEF Alike
<1>0. i \in 1 .. Len(s) /\ j \in 1 .. Len(s)
  OBVIOUS
<1>1. PICK p \in 1 .. Len(s) :
        s2[i] = s[p] /\ (i \in lo .. hi => p \in lo .. hi) /\ (i \notin lo .. hi => p = i)
  BY <1>0, MovedFrom, Zenon
<1>2. PICK q \in 1 .. Len(s) :
        s2[j] = s[q] /\ (j \in lo .. hi => q \in lo .. hi) /\ (j \notin lo .. hi => q = j)
  BY <1>0, MovedFrom, Zenon
<1>3. p \in Within(b) /\ q \in Within(b)
  BY <1>1, <1>2
<1> QED BY <1>1, <1>2, <1>3 DEF Alike

LEMMA MovedAcross ==
  ASSUME NEW s \in Seq(Item), NEW s2, NEW lo \in 1 .. Len(s), NEW hi \in 1 .. Len(s),
         Moved(s, s2, lo, hi), NEW c, NEW B, Across(s, B, c), <<lo, hi>> \in B,
         \A b \in B : b = <<lo, hi>> \/ Within(b) \cap lo .. hi = {}
  PROVE  Across(s2, B, c)
<1> SUFFICES ASSUME NEW i \in 1 .. Len(s2), NEW j \in 1 .. Len(s2), i < j, ~InBlock(B, i, j)
             PROVE  After(s2, i, j, c)
  BY DEF Across
<1>1. i \in 1 .. Len(s) /\ j \in 1 .. Len(s)
  BY DEF Moved
<1>2. PICK p, q \in 1 .. Len(s) :
        /\ s2[i] = s[p] /\ s2[j] = s[q]
        /\ i \in lo .. hi => p \in lo .. hi
        /\ i \notin lo .. hi => p = i
        /\ j \in lo .. hi => q \in lo .. hi
        /\ j \notin lo .. hi => q = j
        /\ ~(i \in lo .. hi /\ j \in lo .. hi) => p < q
  <2>1. \E p, q \in 1 .. Len(s) : Origins(s, s2, lo, hi, i, j, p, q)
    BY <1>1, MovedPair, Zenon
  <2> QED BY <2>1, Zenon DEF Origins
<1>3. ~(i \in lo .. hi /\ j \in lo .. hi)
  <2>1. Within(<<lo, hi>>) = lo .. hi
    BY DEF Within
  <2> QED BY <2>1, Zenon DEF InBlock
<1>4. ~InBlock(B, p, q)
  <2> SUFFICES ASSUME NEW b \in B, p \in Within(b), q \in Within(b) PROVE FALSE
    BY DEF InBlock
  <2>1. Within(<<lo, hi>>) = lo .. hi
    BY DEF Within
  <2>2. CASE b = <<lo, hi>>
    BY <1>2, <1>3, <2>1, <2>2
  <2>3. CASE Within(b) \cap lo .. hi = {}
    <3>1. i \notin lo .. hi /\ j \notin lo .. hi
      BY <1>2, <2>3
    <3>2. p = i /\ q = j
      BY <1>2, <3>1
    <3> QED BY <3>2, Zenon DEF InBlock
  <2> QED BY <2>2, <2>3
<1>5. After(s, p, q, c)
  BY <1>2, <1>3, <1>4 DEF Across
<1> QED BY <1>2, <1>5 DEF After

\* Blocks may be given up for smaller ones, if what these leave out is in order.
LEMMA AcrossLess ==
  ASSUME NEW s, NEW B, NEW c, Across(s, B, c), NEW B2,
         \A i, j \in 1 .. Len(s) : i < j /\ InBlock(B, i, j) => InBlock(B2, i, j) \/ After(s, i, j, c)
  PROVE  Across(s, B2, c)
BY DEF Across

LEMMA MovedTrans ==
  ASSUME NEW s, NEW s2, NEW s3, NEW lo, NEW hi, Moved(s, s2, lo, hi), Moved(s2, s3, lo, hi)
  PROVE  Moved(s, s3, lo, hi)
<1>1. ASSUME NEW p \in lo .. hi PROVE \E q \in lo .. hi : s3[p] = s[q]
  <2>1. PICK r \in lo .. hi : s3[p] = s2[r]
    BY DEF Moved
  <2>2. PICK q \in lo .. hi : s2[r] = s[q]
    BY DEF Moved
  <2> QED BY <2>1, <2>2
<1> QED BY <1>1, Zenon DEF Moved

-----------------------------------------------------------------------------
(***************************************************************************)
(* Lines that are put in a range                                           *)
(***************************************************************************)

LEMMA Part ==
  ASSUME NEW S, NEW s \in Seq(S), NEW m \in 1 .. Len(s) + 1, NEW n \in 0 .. Len(s), m <= n + 1
  PROVE  /\ SubSeq(s, m, n) \in Seq(S) /\ Len(SubSeq(s, m, n)) = n + 1 - m
         /\ \A p \in 1 .. n + 1 - m : SubSeq(s, m, n)[p] = s[m + p - 1]
  OBVIOUS

LEMMA SpliceIs ==
  ASSUME NEW s \in Seq(Item), NEW part \in Seq(Item), NEW lo \in 1 .. Len(s),
         lo + Len(part) <= Len(s) + 1
  PROVE  /\ Splice(s, lo, part) \in Seq(Item) /\ Len(Splice(s, lo, part)) = Len(s)
         /\ \A p \in 1 .. Len(s) :
              Splice(s, lo, part)[p] =
                IF p \in lo .. lo + Len(part) - 1 THEN part[p - lo + 1] ELSE s[p]
<1> DEFINE a == SubSeq(s, 1, lo - 1)
           n == lo + Len(part)
           b == SubSeq(s, n, Len(s))
<1>1. Len(s) \in Nat /\ Len(part) \in Nat /\ lo \in Nat /\ lo >= 1
  OBVIOUS
<1>2. /\ a \in Seq(Item) /\ Len(a) = lo - 1
      /\ \A p \in 1 .. lo - 1 : a[p] = s[p]
  <2>1. 1 \in 1 .. Len(s) + 1 /\ lo - 1 \in 0 .. Len(s) /\ 1 <= (lo - 1) + 1 /\ (lo - 1) + 1 - 1 = lo - 1
    BY <1>1
  <2>2. /\ a \in Seq(Item) /\ Len(a) = lo - 1
        /\ \A p \in 1 .. lo - 1 : a[p] = s[1 + p - 1]
    BY <2>1, Part
  <2>3. \A p \in 1 .. lo - 1 : 1 + p - 1 = p
    BY <1>1
  <2> HIDE DEF a
  <2> QED BY <2>2, <2>3
<1>3. /\ b \in Seq(Item) /\ Len(b) = Len(s) + 1 - n
      /\ \A p \in 1 .. Len(s) + 1 - n : b[p] = s[n + p - 1]
  <2>1. n \in 1 .. Len(s) + 1 /\ Len(s) \in 0 .. Len(s) /\ n <= Len(s) + 1
    BY <1>1
  <2> HIDE DEF n
  <2> QED BY <2>1, Part
<1> HIDE DEF a, b
<1> DEFINE c == a \o part
<1>4. /\ c \in Seq(Item) /\ Len(c) = n - 1
      /\ \A p \in 1 .. lo - 1 : c[p] = a[p]
      /\ \A p \in 1 .. Len(part) : c[(lo - 1) + p] = part[p]
  <2>1. /\ c \in Seq(Item) /\ Len(c) = Len(a) + Len(part)
        /\ \A p \in 1 .. Len(a) : c[p] = a[p]
        /\ \A p \in 1 .. Len(part) : c[Len(a) + p] = part[p]
    <3>1. a \in Seq(Item) /\ part \in Seq(Item)
      BY <1>2
    <3> QED BY <3>1, Joined
  <2> HIDE DEF c
  <2> QED BY <1>1, <1>2, <2>1
<1> HIDE DEF c
<1> DEFINE d == c \o b
<1>5. /\ d \in Seq(Item) /\ Len(d) = Len(c) + Len(b)
      /\ \A p \in 1 .. Len(c) : d[p] = c[p]
      /\ \A p \in 1 .. Len(b) : d[Len(c) + p] = b[p]
  <2>1. c \in Seq(Item) /\ b \in Seq(Item)
    BY <1>3, <1>4
  <2> QED BY <2>1, Joined
<1>6. Splice(s, lo, part) = d
  BY DEF Splice, a, b, c, d
<1> HIDE DEF d
<1>7. Len(d) = Len(s)
  BY <1>1, <1>3, <1>4, <1>5
<1>8. ASSUME NEW p \in 1 .. Len(s)
      PROVE  d[p] = IF p \in lo .. lo + Len(part) - 1 THEN part[p - lo + 1] ELSE s[p]
  <2>1. CASE p < lo
    <3>1. p \in 1 .. lo - 1 /\ p \in 1 .. Len(c) /\ p \notin lo .. lo + Len(part) - 1
      BY <1>1, <1>4, <2>1
    <3> QED BY <3>1, <1>2, <1>4, <1>5
  <2>2. CASE p >= lo /\ p < n
    <3>1. /\ p - lo + 1 \in 1 .. Len(part) /\ p \in 1 .. Len(c) /\ p \in lo .. lo + Len(part) - 1
          /\ (lo - 1) + (p - lo + 1) = p
      BY <1>1, <1>4, <2>2
    <3>2. c[(lo - 1) + (p - lo + 1)] = part[p - lo + 1]
      BY <1>4, <3>1
    <3> QED BY <3>1, <3>2, <1>5
  <2>3. CASE p >= n
    <3>1. /\ p - Len(c) \in 1 .. Len(b) /\ p - Len(c) \in 1 .. Len(s) + 1 - n
          /\ p \notin lo .. lo + Len(part) - 1
          /\ Len(c) + (p - Len(c)) = p /\ n + (p - Len(c)) - 1 = p
      BY <1>1, <1>3, <1>4, <2>3
    <3>2. d[Len(c) + (p - Len(c))] = b[p - Len(c)]
      BY <1>5, <3>1
    <3>3. b[p - Len(c)] = s[n + (p - Len(c)) - 1]
      BY <1>3, <3>1
    <3> QED BY <3>1, <3>2, <3>3
  <2> QED BY <1>1, <2>1, <2>2, <2>3
<1> QED BY <1>5, <1>6, <1>7, <1>8

\* part has the lines of lo .. hi.
Fills(part, s, lo, hi) ==
  /\ part \in Seq(Item) /\ Len(part) = hi - lo + 1
  /\ \A n \in 1 .. hi - lo + 1 : \E i \in lo .. hi : part[n] = s[i]
  /\ Distinct(s) => \A m, n \in 1 .. hi - lo + 1 : m # n => part[m] # part[n]

\* A range that gets lines of its own back.
LEMMA SpliceMoved ==
  ASSUME NEW s \in Seq(Item), NEW lo \in 1 .. Len(s), NEW hi \in 1 .. Len(s), lo <= hi,
         NEW part, Fills(part, s, lo, hi)
  PROVE  /\ Moved(s, Splice(s, lo, part), lo, hi)
         /\ \A p \in lo .. hi : Splice(s, lo, part)[p] = part[p - lo + 1]
<1> DEFINE t == Splice(s, lo, part)
<1>0. /\ part \in Seq(Item) /\ Len(part) = hi - lo + 1
      /\ \A n \in 1 .. hi - lo + 1 : \E i \in lo .. hi : part[n] = s[i]
      /\ Distinct(s) => \A m, n \in 1 .. hi - lo + 1 : m # n => part[m] # part[n]
  BY Zenon DEF Fills
<1>1. Len(s) \in Nat /\ lo + Len(part) <= Len(s) + 1 /\ lo + Len(part) - 1 = hi
  BY <1>0
<1>2. /\ t \in Seq(Item) /\ Len(t) = Len(s)
      /\ \A p \in 1 .. Len(s) : t[p] = IF p \in lo .. hi THEN part[p - lo + 1] ELSE s[p]
  BY <1>0, <1>1, SpliceIs
<1> HIDE DEF t
<1>3. ASSUME NEW p \in lo .. hi
      PROVE  p \in 1 .. Len(s) /\ p - lo + 1 \in 1 .. hi - lo + 1 /\ t[p] = part[p - lo + 1]
  <2>1. p \in 1 .. Len(s) /\ p - lo + 1 \in 1 .. hi - lo + 1
    BY <1>1
  <2>2. t[p] = IF p \in lo .. hi THEN part[p - lo + 1] ELSE s[p]
    BY <1>2, <2>1
  <2> QED BY <2>1, <2>2
<1>4. ASSUME NEW p \in lo .. hi PROVE \E q \in lo .. hi : t[p] = s[q]
  <2>1. PICK i \in lo .. hi : part[p - lo + 1] = s[i]
    BY <1>0, <1>3
  <2> QED BY <1>3, <2>1
<1>5. ASSUME Distinct(s), NEW p \in 1 .. Len(s), NEW q \in 1 .. Len(s), p # q PROVE t[p] # t[q]
  <2>1. CASE p \in lo .. hi /\ q \in lo .. hi
    <3>1. p - lo + 1 # q - lo + 1
      BY <1>5
    <3> QED BY <1>0, <1>3, <1>5, <2>1, <3>1
  <2>2. CASE p \in lo .. hi /\ q \notin lo .. hi
    <3>1. PICK i \in lo .. hi : t[p] = s[i]
      BY <1>4, <2>2
    <3>2. t[q] = s[q] /\ i # q /\ i \in 1 .. Len(s)
      BY <1>2, <1>3, <2>2
    <3> QED BY <3>1, <3>2, <1>5 DEF Distinct
  <2>3. CASE p \notin lo .. hi /\ q \in lo .. hi
    <3>1. PICK i \in lo .. hi : t[q] = s[i]
      BY <1>4, <2>3
    <3>2. t[p] = s[p] /\ i # p /\ i \in 1 .. Len(s)
      BY <1>2, <1>3, <2>3
    <3> QED BY <3>1, <3>2, <1>5 DEF Distinct
  <2>4. CASE p \notin lo .. hi /\ q \notin lo .. hi
    BY <1>2, <1>5, <2>4 DEF Distinct
  <2> QED BY <2>1, <2>2, <2>3, <2>4
<1>6. Moved(s, t, lo, hi)
  <2>1. \A p \in 1 .. Len(s) : p \notin lo .. hi => t[p] = s[p]
    BY <1>2
  <2>2. Distinct(s) => Distinct(t)
    BY <1>2, <1>5 DEF Distinct
  <2> QED BY <1>2, <1>4, <2>1, <2>2 DEF Moved
<1> QED BY <1>3, <1>6 DEF t

-----------------------------------------------------------------------------

\* ahead[i] are the lines of lo .. hi that go before line i.
Orders(lo, hi, ahead) ==
  /\ ahead \in [lo .. hi -> SUBSET (lo .. hi)]
  /\ \A i \in lo .. hi : i \notin ahead[i]
  /\ \A i, j \in lo .. hi : j \in ahead[i] => ahead[j] \subseteq ahead[i]
  /\ \A i, j \in lo .. hi : i # j => j \in ahead[i] \/ i \in ahead[j]

\* Every line has a place of its own, behind those that go before it.
LEMMA Placed ==
  ASSUME NEW lo \in Nat, NEW hi \in Nat, lo <= hi, NEW ahead, Orders(lo, hi, ahead)
  PROVE  /\ \A i \in lo .. hi : lo + Cardinality(ahead[i]) \in lo .. hi
         /\ \A i, j \in lo .. hi :
              j \in ahead[i] <=> lo + Cardinality(ahead[j]) < lo + Cardinality(ahead[i])
         /\ \A n \in lo .. hi : \E i \in lo .. hi : lo + Cardinality(ahead[i]) = n
<1> DEFINE D == lo .. hi
           place == [i \in D |-> lo + Cardinality(ahead[i])]
<1>1. IsFiniteSet(D) /\ Cardinality(D) = hi - lo + 1
  BY FS_Interval
<1>2. /\ ahead \in [D -> SUBSET D]
      /\ \A i \in D : i \notin ahead[i]
      /\ \A i, j \in D : j \in ahead[i] => ahead[j] \subseteq ahead[i]
      /\ \A i, j \in D : i # j => j \in ahead[i] \/ i \in ahead[j]
  BY Zenon DEF Orders
<1>3. \A i \in D : place[i] = lo + Cardinality(ahead[i])
  OBVIOUS
<1> HIDE DEF place, D
<1>4. ASSUME NEW i \in D
      PROVE  IsFiniteSet(ahead[i]) /\ Cardinality(ahead[i]) \in 0 .. hi - lo
  <2>1. ahead[i] \subseteq D /\ ahead[i] # D
    BY <1>2
  <2>2. /\ IsFiniteSet(ahead[i]) /\ Cardinality(ahead[i]) <= Cardinality(D)
        /\ Cardinality(D) = Cardinality(ahead[i]) => D = ahead[i]
    BY <1>1, <2>1, FS_Subset
  <2>3. Cardinality(ahead[i]) \in Nat
    BY <2>2, FS_CardinalityType
  <2> QED BY <1>1, <2>1, <2>2, <2>3
<1>5. ASSUME NEW i \in D PROVE place[i] \in lo .. hi
  BY <1>3, <1>4
<1>6. ASSUME NEW i \in D, NEW j \in D, j \in ahead[i] PROVE place[j] < place[i]
  <2>1. ahead[j] \in SUBSET ahead[i] /\ ahead[j] # ahead[i]
    BY <1>2, <1>6
  <2>2. /\ Cardinality(ahead[j]) <= Cardinality(ahead[i])
        /\ Cardinality(ahead[i]) = Cardinality(ahead[j]) => ahead[i] = ahead[j]
    BY <1>4, <2>1, FS_Subset
  <2>3. Cardinality(ahead[j]) < Cardinality(ahead[i])
    BY <1>4, <2>1, <2>2
  <2> QED BY <1>3, <1>4, <2>3
<1>7. ASSUME NEW i \in D, NEW j \in D, place[j] < place[i] PROVE j \in ahead[i]
  <2>1. i # j /\ ~(place[i] < place[j])
    BY <1>5, <1>7
  <2> QED BY <1>2, <1>6, <2>1
<1>8. ASSUME NEW n \in lo .. hi PROVE \E i \in D : place[i] = n
  <2>1. place \in [D -> D]
    BY <1>5 DEF place, D
  <2>2. \A i, j \in D : place[i] = place[j] => i = j
    <3> SUFFICES ASSUME NEW i \in D, NEW j \in D, place[i] = place[j], i # j PROVE FALSE
      OBVIOUS
    <3>1. place[j] < place[i] \/ place[i] < place[j]
      BY <1>2, <1>6
    <3> QED BY <3>1, <1>5
  <2>3. place \in Injection(D, D)
    BY <2>1, <2>2 DEF Injection, IsInjective
  <2>4. place \in Surjection(D, D)
    BY <1>1, <2>3, FS_Injection
  <2> QED BY <2>4 DEF Surjection, D
<1> QED BY <1>3, <1>5, <1>6, <1>7, <1>8 DEF D

\* Lines of a range, each at its place.
LEMMA Arranged ==
  ASSUME NEW s \in Seq(Item), NEW lo \in 1 .. Len(s), NEW hi \in 1 .. Len(s), lo <= hi,
         NEW ahead, Orders(lo, hi, ahead), NEW source \in [1 .. hi - lo + 1 -> lo .. hi],
         \A n \in 1 .. hi - lo + 1 : lo + Cardinality(ahead[source[n]]) = lo + n - 1
  PROVE  LET part == [n \in 1 .. hi - lo + 1 |-> s[source[n]]]
         IN  /\ part \in Seq(Item) /\ Len(part) = hi - lo + 1
             /\ \A n \in 1 .. hi - lo + 1 : part[n] = s[source[n]]
             /\ Distinct(s) => \A m, n \in 1 .. hi - lo + 1 : m # n => part[m] # part[n]
             /\ \A m, n \in 1 .. hi - lo + 1 : m < n => source[m] \in ahead[source[n]]
<1> DEFINE size == hi - lo + 1
           part == [n \in 1 .. size |-> s[source[n]]]
<1>1. lo \in Nat /\ hi \in Nat /\ size \in Nat /\ lo .. hi \subseteq 1 .. Len(s)
  OBVIOUS
<1>2. \A n \in 1 .. size : part[n] = s[source[n]] /\ source[n] \in lo .. hi
  OBVIOUS
<1>3. \A n \in 1 .. size : s[source[n]] \in Item
  BY <1>1, <1>2
<1>4. part \in Seq(Item) /\ Len(part) = size
  BY <1>1, <1>3
<1> HIDE DEF part
<1>5. ASSUME NEW m \in 1 .. size, NEW n \in 1 .. size, m < n PROVE source[m] \in ahead[source[n]]
  <2>1. lo + Cardinality(ahead[source[m]]) = lo + m - 1 /\ lo + Cardinality(ahead[source[n]]) = lo + n - 1
    OBVIOUS
  <2>2. lo + Cardinality(ahead[source[m]]) < lo + Cardinality(ahead[source[n]])
    BY <1>1, <1>5, <2>1
  <2> QED BY <1>1, <1>2, <2>2, Placed
<1>6. ASSUME Distinct(s), NEW m \in 1 .. size, NEW n \in 1 .. size, m # n PROVE part[m] # part[n]
  <2>1. source[m] # source[n]
    <3>1. m < n \/ n < m
      BY <1>6
    <3>2. source[m] \in ahead[source[n]] \/ source[n] \in ahead[source[m]]
      BY <1>5, <3>1
    <3> QED BY <1>2, <3>2, Zenon DEF Orders
  <2>2. source[m] \in 1 .. Len(s) /\ source[n] \in 1 .. Len(s)
    BY <1>1, <1>2
  <2>3. s[source[m]] # s[source[n]]
    BY <1>6, <2>1, <2>2, Zenon DEF Distinct
  <2> QED BY <1>2, <2>3
<1> QED BY <1>2, <1>4, <1>5, <1>6 DEF part

-----------------------------------------------------------------------------
(***************************************************************************)
(* The invariant, of the state s of items, a of aux, P of pending, G of    *)
(* groups, c of the key, p of pc and r of reversed                         *)
(***************************************************************************)

\* The key that the blocks are sorted by, or will be.
Cur(p, c) == IF p = "radix" THEN c ELSE c + 1

\* The ranges that somebody still has to sort.
BlockOf(t) == <<t.lo, t.hi>>
Blocks(P, G) == {BlockOf(t) : t \in P} \cup G

\* Ranges, and the ranges that will follow them.
Kid ==
  [lo : Nat, hi : Nat, key : Nat, depth : Nat, scattered : {FALSE}, children : {{}}]
RangeType ==
  [lo : Nat, hi : Nat, key : Nat, depth : Nat, scattered : BOOLEAN, children : SUBSET Kid]

\* The keys k of a range agree on the first d bytes.
AgreeTo(s, lo, hi, k, d) ==
  \A i, j \in lo .. hi : Agree(KeyBytes(s[i], k), KeyBytes(s[j], k), d)

KidOK(a, t, c) ==
  /\ t.lo <= c.lo /\ c.lo <= c.hi /\ c.hi <= t.hi
  /\ c.key = t.key /\ c.depth \in t.depth + 1 .. DepthLimit
  /\ AgreeTo(a, c.lo, c.hi, t.key, c.depth)

\* Lines with equal keys are in the order they had.
TiesWithin(s, lo, hi) ==
  \A i, j \in lo .. hi :
    i < j /\ SameKeys(s[i].key, s[j].key, Len(options.keys)) => s[i].pos < s[j].pos
Ties(s) == TiesWithin(s, 1, Len(s))

Forward == \A k \in KeyIds : ~options.keys[k].reverse

\* The second array has the lines of the range in order, but for its children.
ScatteredOK(s, a, t) ==
  /\ \A n \in t.lo .. t.hi : \E i \in t.lo .. t.hi : a[n] = s[i]
  /\ \A m, n \in t.lo .. t.hi : m # n => a[m] # a[n]
  /\ \A c \in t.children : KidOK(a, t, c)
  /\ \A c, d \in t.children : c # d => Within(BlockOf(c)) \cap Within(BlockOf(d)) = {}
  /\ \A i, j \in t.lo .. t.hi :
       i < j => \/ \E c \in t.children : i \in Within(BlockOf(c)) /\ j \in Within(BlockOf(c))
                \/ ~KeyLess(a[j].key, a[i].key, t.key)
  /\ Forward => TiesWithin(a, t.lo, t.hi)

RangeOK(s, a, c, t) ==
  /\ t \in RangeType /\ t.key = c /\ t.key \in KeyIds /\ t.depth <= DepthLimit
  /\ t.scattered => ScatteredOK(s, a, t)
  /\ ~t.scattered => t.children = {} /\ AgreeTo(s, t.lo, t.hi, t.key, t.depth)

Types(p, s, a, c, r) ==
  /\ p \in {"start", "radix", "groups", "lastresort", "done"}
  /\ Chosen
  /\ s \in Seq(Item) /\ a \in Seq(Item)
  /\ Len(s) = Len(given) /\ Len(a) = Len(given)
  /\ c \in KeyIds /\ r \in BOOLEAN

\* The lines are those that were read.
Kept(s) ==
  /\ Distinct(s)
  /\ \A i \in 1 .. Len(s) : s[i].pos \in 1 .. Len(given) /\ s[i].key = given[s[i].pos]

Working(p) == p \in {"radix", "groups", "lastresort"}

Phase(p, P, G, c, r) ==
  /\ G \subseteq Nat \X Nat
  /\ p # "done" => ~r
  /\ ~Working(p) => P = {} /\ G = {}
  /\ p = "start" => c = 1
  /\ p = "radix" => G = {}
  /\ p = "groups" => c < Len(options.keys)
  /\ p = "lastresort" => P = {} /\ c = Len(options.keys) /\ ~options.stable /\ ~options.unique

\* No two of the ranges that wait share a line.
BlocksApart(n, P, G) ==
  /\ \A b \in Blocks(P, G) : b[1] \in 1 .. n /\ b[2] \in 1 .. n /\ b[1] <= b[2]
  /\ \A t, u \in P : t # u => Within(BlockOf(t)) \cap Within(BlockOf(u)) = {}
  /\ \A g, h \in G : g # h => Within(g) \cap Within(h) = {}
  /\ \A t \in P, g \in G : Within(BlockOf(t)) \cap Within(g) = {}

\* The keys before c are sorted, and c up to the blocks.
Sorted(s, B, c) ==
  /\ \A m \in 1 .. c - 1 : InOrder(s, m)
  /\ Across(s, B, c)
  /\ \A b \in B : Alike(s, b, c)

\* The lines are in the order that is asked for.
Finished(s) ==
  /\ \A i, j \in 1 .. Len(s) : i < j => ~LineLess(s[j].key, s[i].key)
  /\ (options.stable \/ options.unique) /\ Forward => Ties(s)

Out(s, r) == IF r THEN Reverse(s) ELSE s

\* What holds at place p of the code, of lines s, second array a, waiting ranges
\* P, groups G, key c, and with r once the lines are to be read backwards.
Holds(p, s, a, P, G, c, r) ==
  /\ Types(p, s, a, c, r) /\ Kept(s) /\ Phase(p, P, G, c, r)
  /\ Working(p) =>
       /\ BlocksApart(Len(s), P, G)
       /\ Sorted(s, Blocks(P, G), Cur(p, c))
       /\ \A t \in P : RangeOK(s, a, Cur(p, c), t)
  /\ Forward /\ p \in {"start", "radix", "groups"} => Ties(s)
  /\ p = "done" => Finished(Out(s, r))

\* The inductive invariant of the keyed radix sort.
KInv == Holds(pc, items, aux, pending, groups, key, reversed)


-----------------------------------------------------------------------------
(***************************************************************************)
(* How deep the keys of a range agree                                      *)
(***************************************************************************)

\* Range t is one of lines that agree as far as they are not looked at.
Sound(t) ==
  /\ t \in RangeType /\ t.lo \in 1 .. Len(items) /\ t.hi \in 1 .. Len(items) /\ t.lo <= t.hi
  /\ t.key \in KeyIds /\ t.depth <= DepthLimit
  /\ AgreeTo(items, t.lo, t.hi, t.key, t.depth)

AllEqual(s, lo, hi, k) == \A i, j \in lo .. hi : KeyOf(s[i].key, k) = KeyOf(s[j].key, k)

\* skip_key_common_prefix_lcp goes no deeper than the keys agree, or they are equal.
LEMMA SkippedPrefix ==
  ASSUME Chosen, items \in Seq(Item), NEW t, Sound(t)
  PROVE  /\ SkipCommonPrefix(t) \in t.depth .. DepthLimit
         /\ \/ AgreeTo(items, t.lo, t.hi, t.key, SkipCommonPrefix(t))
            \/ AllEqual(items, t.lo, t.hi, t.key) /\ SkipCommonPrefix(t) = DepthLimit
<1> DEFINE first  == KeyBytes(items[t.lo], t.key)
           limit  == Min({Len(first), DepthLimit})
           keys   == {KeyBytes(items[i], t.key) : i \in t.lo .. t.hi}
           common == {n \in t.depth .. limit :
                   \A x \in keys : Len(x) >= n /\ \A p \in t.depth + 1 .. n : x[p] = first[p]}
           d == t.depth
           small == t.hi - t.lo + 1 <= Threshold \/ t.depth >= limit \/ Max(common) = t.depth
           whole == Max(common) = Len(first) /\ \A x \in keys : Len(x) = Len(first)
<1>1. /\ t.lo \in 1 .. Len(items) /\ t.hi \in 1 .. Len(items) /\ t.lo <= t.hi /\ t.key \in KeyIds
      /\ d \in Nat /\ d <= DepthLimit /\ DepthLimit \in Nat
      /\ AgreeTo(items, t.lo, t.hi, t.key, d)
  BY ConstantsAssumption DEF Sound, RangeType
<1>2. /\ \A x \in keys : x \in Text
      /\ first \in keys
      /\ \A x, y \in keys : Agree(x, y, d)
  <2>1. ASSUME NEW i \in t.lo .. t.hi PROVE KeyBytes(items[i], t.key) \in Text
    <3>1. items[i].key \in Lines
      <4>1. i \in 1 .. Len(items)
        BY <1>1
      <4> QED BY <4>1, ItemsHaveLines
    <3> QED BY <1>1, <3>1, OptionsOK DEF KeyBytes
  <2>2. t.lo \in t.lo .. t.hi
    BY <1>1
  <2>3. \A i, j \in t.lo .. t.hi : Agree(KeyBytes(items[i], t.key), KeyBytes(items[j], t.key), d)
    BY <1>1, Zenon DEF AgreeTo
  <2> QED BY <2>1, <2>2, <2>3
<1>3. SkipCommonPrefix(t) = IF small THEN d ELSE IF whole THEN DepthLimit ELSE Max(common)
  BY DEF SkipCommonPrefix
<1>4. \A i \in t.lo .. t.hi : KeyBytes(items[i], t.key) \in keys
  OBVIOUS
<1>5. limit \in Nat /\ limit <= Len(first) /\ limit <= DepthLimit
  <2>1. Len(first) \in Nat
    BY <1>2 DEF Text
  <2> QED BY <1>1, <2>1, MinOfTwo
<1> HIDE DEF first, limit, keys
<1>6. CASE small
  BY <1>1, <1>3, <1>6
<1>7. CASE ~small
  <2>1. d < limit
    BY <1>1, <1>5, <1>7
  <2>2. common \subseteq Nat /\ \A n \in common : n <= limit
    BY <1>1, <1>5
  <2>3. d \in common
    <3>1. ASSUME NEW x \in keys PROVE Len(x) >= d /\ \A p \in d + 1 .. d : x[p] = first[p]
      <4>1. Agree(x, x, d) /\ Len(x) \in Nat
        BY <1>2 DEF Text
      <4> QED BY <1>1, <4>1 DEF Agree
    <3>2. d \in d .. limit
      BY <1>1, <1>5, <2>1
    <3> QED BY <3>1, <3>2
  <2> DEFINE n == Max(common)
  <2>4. n \in common
    BY <1>5, <2>2, <2>3, MaxIs
  <2>5. /\ n \in d .. limit
        /\ \A x \in keys : Len(x) >= n /\ \A p \in d + 1 .. n : x[p] = first[p]
    BY <2>4
  <2> HIDE DEF n, common
  <2>6. ASSUME NEW x \in keys, NEW y \in keys PROVE Agree(x, y, n)
    <3>1. Len(x) \in Nat /\ Len(y) \in Nat /\ Len(x) >= n /\ Len(y) >= n
      BY <1>2, <2>5 DEF Text
    <3>2. ASSUME NEW p \in 1 .. n PROVE x[p] = y[p]
      <4>1. CASE p <= d
        <5>1. p \in 1 .. d /\ Agree(x, y, d)
          BY <1>2, <4>1
        <5> QED BY <5>1 DEF Agree
      <4>2. CASE p > d
        <5>1. p \in d + 1 .. n
          BY <1>1, <4>2
        <5> QED BY <2>5, <5>1
      <4> QED BY <1>1, <4>1, <4>2
    <3> QED BY <2>5, <3>1, <3>2 DEF Agree
  <2>7. CASE whole
    <3>1. n = Len(first) /\ \A x \in keys : Len(x) = Len(first)
      BY <2>7 DEF n
    <3>2. ASSUME NEW x \in keys, NEW y \in keys PROVE x = y
      <4>1. Len(x) = n /\ Len(y) = n /\ x \in Seq(Nat) /\ y \in Seq(Nat) /\ Agree(x, y, n)
        BY <1>2, <2>6, <3>1 DEF Text
      <4>2. x = [p \in 1 .. n |-> x[p]] /\ y = [p \in 1 .. n |-> y[p]]
        BY <4>1
      <4>3. \A p \in 1 .. n : x[p] = y[p]
        BY <4>1 DEF Agree
      <4> QED BY <4>2, <4>3
    <3>3. AllEqual(items, t.lo, t.hi, t.key)
      BY <1>4, <3>2 DEF AllEqual, KeyBytes
    <3>4. SkipCommonPrefix(t) = DepthLimit
      BY <1>3, <1>7, <2>7
    <3> QED BY <1>1, <3>3, <3>4
  <2>8. CASE ~whole
    <3>1. SkipCommonPrefix(t) = n
      BY <1>3, <1>7, <2>8 DEF n
    <3>2. AgreeTo(items, t.lo, t.hi, t.key, n)
      BY <1>4, <2>6 DEF AgreeTo
    <3> QED BY <1>1, <1>5, <2>5, <3>1, <3>2
  <2> QED BY <2>7, <2>8
<1> QED BY <1>6, <1>7

\* Buckets stand in the order of the keys in them.
LEMMA BucketsInOrder ==
  ASSUME NEW a, NEW b, NEW k, NEW d \in Nat,
         KeyBytes(a, k) \in Text, KeyBytes(b, k) \in Text,
         Agree(KeyBytes(a, k), KeyBytes(b, k), d)
  PROVE  /\ Bucket(a, k, d) \in Nat /\ Bucket(b, k, d) \in Nat
         /\ Bucket(a, k, d) < Bucket(b, k, d) => BytesLess(KeyBytes(a, k), KeyBytes(b, k))
         /\ Bucket(a, k, d) = 0 /\ Bucket(b, k, d) = 0 => KeyBytes(a, k) = KeyBytes(b, k)
         /\ Bucket(a, k, d) # 0 /\ Bucket(a, k, d) = Bucket(b, k, d) =>
              Agree(KeyBytes(a, k), KeyBytes(b, k), d + 1)
<1> DEFINE x == KeyBytes(a, k)
           y == KeyBytes(b, k)
<1>1. /\ Bucket(a, k, d) = IF d >= Len(x) THEN 0 ELSE x[d + 1] + 1
      /\ Bucket(b, k, d) = IF d >= Len(y) THEN 0 ELSE y[d + 1] + 1
  BY DEF Bucket
<1>2. x \in Text /\ y \in Text /\ Agree(x, y, d)
  OBVIOUS
<1> HIDE DEF x, y
<1>3. /\ Len(x) \in Nat /\ Len(y) \in Nat /\ d <= Len(x) /\ d <= Len(y)
      /\ \A p \in 1 .. d : x[p] = y[p]
      /\ \A p \in 1 .. Len(x) : x[p] \in Nat
      /\ \A p \in 1 .. Len(y) : y[p] \in Nat
  BY <1>2 DEF Agree, Text
<1> DEFINE bx == Bucket(a, k, d)
           by == Bucket(b, k, d)
<1>4. /\ d < Len(x) => bx = x[d + 1] + 1 /\ x[d + 1] \in Nat
      /\ d = Len(x) => bx = 0
      /\ d < Len(y) => by = y[d + 1] + 1 /\ y[d + 1] \in Nat
      /\ d = Len(y) => by = 0
  <2>1. (d < Len(x) => d + 1 \in 1 .. Len(x)) /\ (d < Len(y) => d + 1 \in 1 .. Len(y))
    BY <1>3
  <2> QED BY <1>1, <1>3, <2>1
<1> HIDE DEF bx, by
<1>5. bx \in Nat /\ by \in Nat
  BY <1>3, <1>4
<1>6. bx < by => BytesLess(x, y)
  <2>1. bx < by => LessAt(x, y, d)
    BY <1>2, <1>3, <1>4 DEF LessAt
  <2> QED BY <1>2, <2>1, BytesLessAt
<1>7. bx = 0 /\ by = 0 => x = y
  <2> SUFFICES ASSUME bx = 0, by = 0 PROVE x = y
    OBVIOUS
  <2>1. Len(x) = d /\ Len(y) = d
    BY <1>3, <1>4
  <2>2. x = [p \in 1 .. d |-> x[p]] /\ y = [p \in 1 .. d |-> y[p]]
    BY <1>2, <2>1 DEF Text
  <2> QED BY <1>3, <2>2
<1>8. bx # 0 /\ bx = by => Agree(x, y, d + 1)
  <2> SUFFICES ASSUME bx # 0, bx = by PROVE Agree(x, y, d + 1)
    OBVIOUS
  <2>1. d < Len(x) /\ d < Len(y) /\ x[d + 1] = y[d + 1]
    BY <1>3, <1>4
  <2>2. \A p \in 1 .. d + 1 : p \in 1 .. d \/ p = d + 1
    OBVIOUS
  <2> QED BY <1>3, <2>1, <2>2 DEF Agree
<1> QED BY <1>5, <1>6, <1>7, <1>8 DEF bx, by, x, y

-----------------------------------------------------------------------------
(***************************************************************************)
(* Insertion                                                               *)
(***************************************************************************)

LEMMA MovedNone ==
  ASSUME NEW s \in Seq(Item), NEW lo, NEW hi
  PROVE  Moved(s, s, lo, hi)
BY Zenon DEF Moved

LEMMA MovedWider ==
  ASSUME NEW s \in Seq(Item), NEW s2, NEW lo \in 1 .. Len(s), NEW hi \in 1 .. Len(s),
         NEW m \in lo .. hi, NEW n \in lo .. hi, Moved(s, s2, m, n)
  PROVE  Moved(s, s2, lo, hi)
<1>1. \A p \in m .. n : p \in lo .. hi
  OBVIOUS
<1>2. ASSUME NEW p \in lo .. hi PROVE \E q \in lo .. hi : s2[p] = s[q]
  <2>1. CASE p \in m .. n
    <3>1. PICK q \in m .. n : s2[p] = s[q]
      BY <2>1 DEF Moved
    <3> QED BY <1>1, <3>1
  <2>2. CASE p \notin m .. n
    <3>1. p \in 1 .. Len(s)
      OBVIOUS
    <3> QED BY <2>2, <3>1 DEF Moved
  <2> QED BY <2>1, <2>2
<1> QED BY <1>1, <1>2, Zenon DEF Moved

\* f looks itself up at the next place until it stops, and the measure falls.
LooksUp(f, P, stop, value, next) == f = [p \in P |-> IF p \in stop THEN value[p] ELSE f[next[p]]]

Falls(P, stop, next, measure, top) ==
  /\ measure \in [P -> Nat] /\ next \in [P -> P] /\ top \in Nat
  /\ \A p \in P : measure[p] <= top
  /\ \A p \in P : p \notin stop => measure[next[p]] < measure[p]

\* A function may look itself up at a place of lesser measure.
LEMMA LookupExists ==
  ASSUME NEW P, NEW stop, NEW value, NEW next, NEW measure, NEW top, Falls(P, stop, next, measure, top)
  PROVE  \E f : LooksUp(f, P, stop, value, next)
<1> USE DEF Falls
<1> DEFINE Body(f, p) == IF p \in stop THEN value[p] ELSE f[next[p]]
           Good(f, n) == \A p \in P : measure[p] <= n => f[p] = Body(f, p)
           T == {n \in Nat : \E f : Good(f, n)}
<1>1. 0 \in T
  <2> DEFINE f == [p \in P |-> value[p]]
  <2>1. ASSUME NEW p \in P, measure[p] <= 0 PROVE f[p] = Body(f, p)
    <3>1. p \in stop
      <4>1. measure[p] \in Nat /\ measure[next[p]] \in Nat
        OBVIOUS
      <4> QED BY <2>1, <4>1
    <3> QED BY <3>1
  <2>2. Good(f, 0)
    BY <2>1
  <2> HIDE DEF Good
  <2> QED BY <2>2
<1>2. ASSUME NEW n \in T PROVE n + 1 \in T
  <2>1. PICK f : Good(f, n)
    OBVIOUS
  <2> DEFINE g == [p \in P |-> Body(f, p)]
  <2>2. \A p \in P : g[p] = Body(f, p)
    OBVIOUS
  <2>3. \A p \in P : measure[p] <= n => g[p] = f[p]
    BY <2>1, <2>2
  <2> HIDE DEF g
  <2>4. ASSUME NEW p \in P, measure[p] <= n + 1 PROVE g[p] = Body(g, p)
    <3>1. CASE p \in stop
      BY <2>2, <3>1
    <3>2. CASE p \notin stop
      <4>1. next[p] \in P /\ measure[next[p]] <= n
        <5>1. measure[p] \in Nat /\ measure[next[p]] \in Nat /\ n \in Nat
          OBVIOUS
        <5>2. measure[next[p]] < measure[p]
          BY <3>2
        <5> QED BY <2>4, <5>1, <5>2
      <4>2. g[next[p]] = f[next[p]]
        BY <2>3, <4>1
      <4>3. g[p] = f[next[p]]
        BY <2>2, <3>2
      <4> QED BY <3>2, <4>2, <4>3
    <3> QED BY <3>1, <3>2
  <2>5. Good(g, n + 1)
    BY <2>4
  <2> HIDE DEF Good
  <2>6. n + 1 \in Nat
    OBVIOUS
  <2> QED BY <2>5, <2>6
<1> HIDE DEF Good
<1>3. top \in T
  <2> DEFINE U == T
  <2>1. U \in SUBSET Nat /\ 0 \in U /\ \A n \in U : n + 1 \in U
    BY <1>1, <1>2
  <2> HIDE DEF T, U
  <2>2. top \in U
    BY <2>1, AllNumbers
  <2> QED BY <2>2 DEF U
<1>4. PICK f : Good(f, top)
  BY <1>3
<1>5. \A p \in P : f[p] = Body(f, p)
  BY <1>4 DEF Good
<1> DEFINE g == [p \in P |-> Body(f, p)]
<1>6. \A p \in P : g[p] = f[p]
  BY <1>5
<1>7. \A p \in P : Body(f, p) = Body(g, p)
  <2> HIDE DEF g
  <2> QED BY <1>6
<1>8. g = [p \in P |-> Body(g, p)]
  <2>1. [p \in P |-> Body(f, p)] = [p \in P |-> Body(g, p)]
    <3> HIDE DEF Body, g
    <3> QED BY <1>7
  <2> QED BY <2>1, Zenon
<1> HIDE DEF g
<1> QED BY <1>8, Zenon DEF LooksUp

\* The bisection finds where the lines of L begin.
LEMMA BisectedIs ==
  ASSUME NEW s, NEW k, NEW depth, NEW lo \in Nat, NEW i \in Nat, lo <= i,
         NEW L, \A p \in lo .. i - 1 : p \in L <=> CompareFromDepth(s[i], s[p], k, depth) < 0,
         \A p, q \in lo .. i - 1 : p < q /\ p \in L => q \in L
  PROVE  /\ Bisected(s, lo, i, k, depth) \in lo .. i
         /\ \A p \in lo .. Bisected(s, lo, i, k, depth) - 1 : p \notin L
         /\ \A p \in Bisected(s, lo, i, k, depth) .. i - 1 : p \in L
<1> DEFINE D == lo .. i
           P == D \X D
           mid(b) == b[1] + (b[2] - b[1]) \div 2
           Code(f, b) == IF b[1] >= b[2] THEN b[1]
                         ELSE IF CompareFromDepth(s[i], s[mid(b)], k, depth) < 0
                              THEN f[<<b[1], mid(b)>>] ELSE f[<<mid(b) + 1, b[2]>>]
           stop == {b \in P : b[1] >= b[2]}
           value == [b \in P |-> b[1]]
           next == [b \in P |-> IF b \in stop THEN b
                                ELSE IF mid(b) \in L THEN <<b[1], mid(b)>> ELSE <<mid(b) + 1, b[2]>>]
           measure == [b \in P |-> IF b \in stop THEN 0 ELSE b[2] - b[1]]
           find == CHOOSE f : f = [b \in P |-> Code(f, b)]
<1>1. \A b \in P : /\ b[1] \in D /\ b[2] \in D
                   /\ b[1] < b[2] => mid(b) \in lo .. i - 1 /\ b[1] <= mid(b) /\ mid(b) < b[2]
  OBVIOUS
<1>2. Bisected(s, lo, i, k, depth) = find[<<lo, i>>]
  BY Zenon DEF Bisected
<1> HIDE DEF mid, P
<1>3. \A x, y \in D : <<x, y>> \in P /\ <<x, y>>[1] = x /\ <<x, y>>[2] = y
  BY DEF P
<1>4. ASSUME NEW b \in P, b \notin stop
      PROVE  /\ b[1] < b[2] /\ mid(b) \in D /\ mid(b) + 1 \in D
             /\ b[1] <= mid(b) /\ mid(b) < b[2] /\ mid(b) \in lo .. i - 1
             /\ <<b[1], mid(b)>> \in P /\ <<mid(b) + 1, b[2]>> \in P
  <2>1. b[1] < b[2] /\ b[1] \in D /\ b[2] \in D
    BY <1>1, <1>4
  <2>2. mid(b) \in D /\ mid(b) + 1 \in D /\ b[1] <= mid(b) /\ mid(b) < b[2] /\ mid(b) \in lo .. i - 1
    BY <1>1, <2>1
  <2> QED BY <1>3, <2>1, <2>2
<1>5. next \in [P -> P]
  BY <1>4
<1>6. \A b \in P : measure[b] \in 0 .. i - lo
  BY <1>1
<1>7. ASSUME NEW b \in P, b \notin stop PROVE measure[next[b]] < measure[b]
  <2>1. measure[b] = b[2] - b[1]
    BY <1>7
  <2>2. next[b] = IF mid(b) \in L THEN <<b[1], mid(b)>> ELSE <<mid(b) + 1, b[2]>>
    BY <1>7
  <2>3. \A x, y \in D : x <= y => measure[<<x, y>>] = y - x
    <3> SUFFICES ASSUME NEW x \in D, NEW y \in D, x <= y PROVE measure[<<x, y>>] = y - x
      OBVIOUS
    <3>1. measure[<<x, y>>] = IF x >= y THEN 0 ELSE y - x
      BY <1>3
    <3> HIDE DEF measure
    <3> QED BY <3>1
  <2> HIDE DEF measure, next
  <2>4. /\ b[1] \in D /\ b[2] \in D /\ mid(b) \in D /\ mid(b) + 1 \in D
        /\ b[1] <= mid(b) /\ mid(b) + 1 <= b[2] /\ mid(b) < b[2]
    BY <1>1, <1>4, <1>7
  <2>5. measure[<<b[1], mid(b)>>] = mid(b) - b[1] /\ measure[<<mid(b) + 1, b[2]>>] = b[2] - (mid(b) + 1)
    BY <2>3, <2>4
  <2>6. CASE mid(b) \in L
    BY <2>1, <2>2, <2>4, <2>5, <2>6
  <2>7. CASE mid(b) \notin L
    BY <2>1, <2>2, <2>4, <2>5, <2>7
  <2> QED BY <2>6, <2>7
<1>8. measure \in [P -> Nat] /\ \A b \in P : measure[b] <= i - lo
  <2>1. \A b \in P : measure[b] \in Nat /\ measure[b] <= i - lo
    BY <1>6
  <2> QED BY <2>1
<1>9. i - lo \in Nat
  OBVIOUS
<1>10. \A b \in P : b \in stop <=> b[1] >= b[2]
  OBVIOUS
<1>11. \A b \in P : b \in stop => value[b] = b[1]
  OBVIOUS
<1>12. \A b \in P : b \notin stop =>
         next[b] = IF mid(b) \in L THEN <<b[1], mid(b)>> ELSE <<mid(b) + 1, b[2]>>
  OBVIOUS
<1> HIDE DEF stop, value, next, measure
<1>13. PICK h : h = [b \in P |-> IF b \in stop THEN value[b] ELSE h[next[b]]]
  <2>1. \A b \in P : b \notin stop => measure[next[b]] < measure[b]
    BY <1>7
  <2>2. Falls(P, stop, next, measure, i - lo)
    BY <1>5, <1>8, <1>9, <2>1 DEF Falls
  <2>3. \E f : LooksUp(f, P, stop, value, next)
    BY <2>2, LookupExists
  <2> QED BY <2>3, Zenon DEF LooksUp
<1> DEFINE Body(f, b) == IF b \in stop THEN value[b] ELSE f[next[b]]
<1>14. \A f, b : b \in P => Code(f, b) = Body(f, b)
  <2> SUFFICES ASSUME NEW f, NEW b \in P PROVE Code(f, b) = Body(f, b)
    OBVIOUS
  <2>1. CASE b \in stop
    BY <1>10, <1>11, <2>1, Zenon
  <2>2. CASE b \notin stop
    <3>1. mid(b) \in lo .. i - 1
      BY <1>4, <2>2
    <3>2. mid(b) \in L <=> CompareFromDepth(s[i], s[mid(b)], k, depth) < 0
      BY <3>1
    <3> QED BY <1>10, <1>12, <2>2, <3>2, Zenon
  <2> QED BY <2>1, <2>2
<1>15. h = [b \in P |-> Code(h, b)]
  <2>1. [b \in P |-> Code(h, b)] = [b \in P |-> Body(h, b)]
    <3> HIDE DEF Code, Body
    <3> QED BY <1>14
  <2> QED BY <1>13, <2>1, Zenon
<1>16. find = [b \in P |-> Code(find, b)]
  BY <1>15, Zenon
<1> HIDE DEF find
<1>17. \A b \in P : find[b] = Body(find, b)
  <2> SUFFICES ASSUME NEW b \in P PROVE find[b] = Body(find, b)
    OBVIOUS
  <2>1. find[b] = Code(find, b)
    <3> HIDE DEF Code
    <3> QED BY <1>16
  <2> QED BY <2>1, <1>14, Zenon
<1> DEFINE Bounds(l, r) == /\ \A p \in lo .. l - 1 : p \notin L
                           /\ \A p \in r .. i - 1 : p \in L
           Right(b) == b[1] <= b[2] /\ Bounds(b[1], b[2]) =>
                         find[b] \in D /\ Bounds(find[b], find[b])
           T == {n \in Nat : \A b \in P : b[2] - b[1] <= n => Right(b)}
<1>18. ASSUME NEW b \in P, b \in stop PROVE Right(b)
  <2> SUFFICES ASSUME b[1] <= b[2], Bounds(b[1], b[2])
               PROVE  find[b] \in D /\ Bounds(find[b], find[b])
    OBVIOUS
  <2>1. b[1] = b[2] /\ b[1] \in D
    BY <1>1, <1>10, <1>18
  <2>2. find[b] = b[1]
    BY <1>11, <1>17, <1>18
  <2> HIDE DEF Bounds
  <2> QED BY <2>1, <2>2
<1>19. 0 \in T
  <2> SUFFICES ASSUME NEW b \in P, b[2] - b[1] <= 0 PROVE Right(b)
    OBVIOUS
  <2>1. b \in stop
    BY <1>1, <1>10
  <2> QED BY <2>1, <1>18
<1>20. ASSUME NEW n \in T PROVE n + 1 \in T
  <2> SUFFICES ASSUME NEW b \in P, b[2] - b[1] <= n + 1, b \notin stop, b[1] <= b[2], Bounds(b[1], b[2])
               PROVE  find[b] \in D /\ Bounds(find[b], find[b])
    BY <1>18
  <2> DEFINE m == mid(b)
             l == b[1]
             r == b[2]
  <2>1. /\ m \in lo .. i - 1 /\ m \in D /\ m + 1 \in D /\ l <= m /\ m < r /\ l \in D /\ r \in D
        /\ <<l, m>> \in P /\ <<m + 1, r>> \in P
    BY <1>1, <1>4
  <2>2. find[b] = IF m \in L THEN find[<<l, m>>] ELSE find[<<m + 1, r>>]
    BY <1>12, <1>17
  <2>3. n \in Nat /\ r - l <= n + 1
    OBVIOUS
  <2>4. Bounds(l, r)
    OBVIOUS
  <2> HIDE DEF m, l, r
  <2>5. CASE m \in L
    <3>1. Bounds(l, m)
      <4>1. \A p \in m .. i - 1 : p = m \/ (m < p /\ p \in lo .. i - 1)
        BY <2>1
      <4> QED BY <2>1, <2>4, <2>5, <4>1
    <3> HIDE DEF Bounds
    <3>2. Right(<<l, m>>)
      <4>1. m - l <= n
        BY <2>1, <2>3
      <4> HIDE DEF Right
      <4> QED BY <1>3, <2>1, <4>1
    <3> QED BY <1>3, <2>1, <2>2, <2>5, <3>1, <3>2
  <2>6. CASE m \notin L
    <3>1. Bounds(m + 1, r)
      <4>1. \A p \in lo .. (m + 1) - 1 : p = m \/ (p < m /\ p \in lo .. i - 1)
        BY <2>1
      <4> QED BY <2>1, <2>4, <2>6, <4>1
    <3> HIDE DEF Bounds
    <3>2. Right(<<m + 1, r>>)
      <4>1. r - (m + 1) <= n
        BY <2>1, <2>3
      <4> HIDE DEF Right
      <4> QED BY <1>3, <2>1, <4>1
    <3>3. m + 1 <= r
      BY <2>1
    <3> QED BY <1>3, <2>1, <2>2, <2>6, <3>1, <3>2, <3>3
  <2> QED BY <2>5, <2>6
<1> HIDE DEF T
<1>21. i \in T
  <2>1. T \in SUBSET Nat
    BY DEF T
  <2> QED BY <1>19, <1>20, <2>1, AllNumbers
<1>22. Right(<<lo, i>>)
  <2>1. lo \in D /\ i \in D /\ i - lo <= i
    OBVIOUS
  <2> HIDE DEF Right
  <2> QED BY <1>3, <1>21, <2>1 DEF T
<1>23. find[<<lo, i>>] \in D /\ Bounds(find[<<lo, i>>], find[<<lo, i>>])
  <2>1. lo <= i /\ Bounds(lo, i) /\ lo \in D /\ i \in D
    OBVIOUS
  <2> HIDE DEF Bounds
  <2> QED BY <1>3, <1>22, <2>1
<1> QED BY <1>2, <1>23, Zenon

LEMMA InsertedIs ==
  ASSUME NEW s \in Seq(Item), NEW i \in 1 .. Len(s), NEW at \in 1 .. i
  PROVE  /\ Moved(s, Inserted(s, i, at), at, i)
         /\ Inserted(s, i, at)[at] = s[i]
         /\ \A p \in at + 1 .. i : Inserted(s, i, at)[p] = s[p - 1]
<1> DEFINE rest == SubSeq(s, at, i - 1)
           part == <<s[i]>> \o rest
<1>1. Len(s) \in Nat /\ at \in 1 .. Len(s) /\ at <= i /\ i \in Nat /\ at \in Nat
  OBVIOUS
<1>2. /\ rest \in Seq(Item) /\ Len(rest) = i - at
      /\ \A p \in 1 .. i - at : rest[p] = s[at + p - 1]
  <2>1. at \in 1 .. Len(s) + 1 /\ i - 1 \in 0 .. Len(s) /\ at <= (i - 1) + 1 /\ (i - 1) + 1 - at = i - at
    BY <1>1
  <2>2. /\ rest \in Seq(Item) /\ Len(rest) = (i - 1) + 1 - at
        /\ \A p \in 1 .. (i - 1) + 1 - at : rest[p] = s[at + p - 1]
    BY <2>1, Part
  <2> HIDE DEF rest
  <2> QED BY <2>1, <2>2
<1> HIDE DEF rest
<1>3. s[i] \in Item
  BY ItemsHaveLines
<1>4. /\ part \in Seq(Item) /\ Len(part) = i - at + 1
      /\ part[1] = s[i]
      /\ \A p \in 1 .. i - at : part[1 + p] = rest[p]
  <2> DEFINE one == <<s[i]>>
  <2>1. one \in Seq(Item) /\ Len(one) = 1 /\ one[1] = s[i]
    BY <1>3
  <2>2. part = one \o rest
    OBVIOUS
  <2> HIDE DEF one, part
  <2>3. /\ one \o rest \in Seq(Item) /\ Len(one \o rest) = Len(one) + Len(rest)
        /\ \A p \in 1 .. Len(one) : (one \o rest)[p] = one[p]
        /\ \A p \in 1 .. Len(rest) : (one \o rest)[Len(one) + p] = rest[p]
    <3>1. one \in Seq(Item) /\ rest \in Seq(Item)
      BY <1>2, <2>1
    <3> QED BY <3>1, Joined
  <2> QED BY <1>1, <1>2, <2>1, <2>2, <2>3, SMTT(30)
<1> HIDE DEF part
<1>5. \A p \in 2 .. i - at + 1 : part[p] = s[at + p - 2]
  <2> SUFFICES ASSUME NEW p \in 2 .. i - at + 1 PROVE part[p] = s[at + p - 2]
    OBVIOUS
  <2>1. p - 1 \in 1 .. i - at /\ 1 + (p - 1) = p /\ at + (p - 1) - 1 = at + p - 2
    BY <1>1
  <2>2. part[1 + (p - 1)] = rest[p - 1] /\ rest[p - 1] = s[at + (p - 1) - 1]
    BY <1>2, <1>4, <2>1
  <2> QED BY <2>1, <2>2
<1>6. \A n \in 1 .. i - at + 1 : \E q \in at .. i : part[n] = s[q]
  <2> SUFFICES ASSUME NEW n \in 1 .. i - at + 1 PROVE \E q \in at .. i : part[n] = s[q]
    OBVIOUS
  <2>1. CASE n = 1
    BY <1>1, <1>4, <2>1
  <2>2. CASE n # 1
    <3>1. n \in 2 .. i - at + 1 /\ at + n - 2 \in at .. i
      BY <1>1, <2>2
    <3> QED BY <1>5, <3>1
  <2> QED BY <2>1, <2>2
<1>7. ASSUME Distinct(s) PROVE \A m, n \in 1 .. i - at + 1 : m # n => part[m] # part[n]
  <2> DEFINE from(n) == IF n = 1 THEN i ELSE at + n - 2
  <2>1. ASSUME NEW n \in 1 .. i - at + 1 PROVE part[n] = s[from(n)] /\ from(n) \in 1 .. Len(s)
    <3>1. CASE n = 1
      BY <1>1, <1>4, <3>1
    <3>2. CASE n # 1
      <4>1. n \in 2 .. i - at + 1 /\ at + n - 2 \in 1 .. Len(s)
        BY <1>1, <3>2
      <4> QED BY <1>5, <3>2, <4>1
    <3> QED BY <3>1, <3>2
  <2>2. \A m, n \in 1 .. i - at + 1 : m # n => from(m) # from(n)
    BY <1>1
  <2> HIDE DEF from
  <2> QED BY <1>7, <2>1, <2>2, Zenon DEF Distinct
<1>8. /\ Moved(s, Splice(s, at, part), at, i)
      /\ \A p \in at .. i : Splice(s, at, part)[p] = part[p - at + 1]
  <2>1. Fills(part, s, at, i)
    BY <1>4, <1>6, <1>7, Zenon DEF Fills
  <2> QED BY <1>1, <2>1, SpliceMoved
<1>9. Inserted(s, i, at) = Splice(s, at, part)
  BY DEF Inserted, part, rest
<1>10. Inserted(s, i, at)[at] = s[i]
  <2>1. at \in at .. i /\ at - at + 1 = 1
    BY <1>1
  <2> QED BY <1>4, <1>8, <1>9, <2>1
<1>11. \A p \in at + 1 .. i : Inserted(s, i, at)[p] = s[p - 1]
  <2> SUFFICES ASSUME NEW p \in at + 1 .. i PROVE Inserted(s, i, at)[p] = s[p - 1]
    OBVIOUS
  <2>1. p \in at .. i /\ p - at + 1 \in 2 .. i - at + 1 /\ at + (p - at + 1) - 2 = p - 1
    BY <1>1
  <2>2. Inserted(s, i, at)[p] = part[p - at + 1]
    BY <1>8, <1>9, <2>1
  <2>3. part[p - at + 1] = s[at + (p - at + 1) - 2]
    BY <1>5, <2>1
  <2> QED BY <2>1, <2>2, <2>3
<1> QED BY <1>8, <1>9, <1>10, <1>11

\* The order of lines by one key.
LEMMA KeyOrder ==
  ASSUME Chosen, NEW k \in KeyIds, NEW l \in Lines, NEW m \in Lines, NEW n \in Lines
  PROVE  /\ ~KeyLess(l, l, k)
         /\ ~(KeyLess(l, m, k) /\ KeyLess(m, l, k))
         /\ ~KeyLess(m, l, k) /\ ~KeyLess(n, m, k) => ~KeyLess(n, l, k)
         /\ KeyOf(l, k) = KeyOf(m, k) <=> ~KeyLess(l, m, k) /\ ~KeyLess(m, l, k)
<1>1. k \in 1 .. Len(options.keys) + 1
  BY OptionsOK
<1>2. \A x, y, z \in {l, m, n} :
        /\ ~AtKey(x, x, k)
        /\ AtKey(x, y, k) /\ AtKey(y, z, k) => AtKey(x, z, k)
        /\ ~AtKey(y, x, k) /\ ~AtKey(z, y, k) => ~AtKey(z, x, k)
        /\ KeyOf(x, k) = KeyOf(y, k) <=> ~AtKey(x, y, k) /\ ~AtKey(y, x, k)
        /\ AtKey(x, y, k) <=> KeyLess(x, y, k)
  BY <1>1, AtKeyOrder
<1> QED BY <1>2

\* Key k is in order in a range.
KeysInOrder(s, lo, hi, k) ==
  \A p, q \in lo .. hi : p < q => ~KeyLess(s[q].key, s[p].key, k)

LEMMA InsertedInOrder ==
  ASSUME Chosen, NEW s \in Seq(Item), NEW i \in 1 .. Len(s), NEW lo \in 1 .. i, NEW at \in lo .. i,
         NEW k \in KeyIds, KeysInOrder(s, lo, i - 1, k),
         \A p \in lo .. at - 1 : ~KeyLess(s[i].key, s[p].key, k),
         \A p \in at .. i - 1 : ~KeyLess(s[p].key, s[i].key, k)
  PROVE  KeysInOrder(Inserted(s, i, at), lo, i, k)
<1> DEFINE t == Inserted(s, i, at)
           from(p) == IF p < at THEN p ELSE IF p = at THEN i ELSE p - 1
<1>1. at \in 1 .. i
  OBVIOUS
<1>2. /\ Moved(s, t, at, i) /\ t[at] = s[i]
      /\ \A p \in at + 1 .. i : t[p] = s[p - 1]
  BY <1>1, InsertedIs
<1> HIDE DEF t
<1>3. ASSUME NEW p \in lo .. i PROVE t[p] = s[from(p)]
  <2>1. CASE p < at
    <3>1. p \notin at .. i /\ p \in 1 .. Len(s)
      BY <2>1
    <3>2. t[p] = s[p]
      BY <1>2, <3>1 DEF Moved
    <3> QED BY <2>1, <3>2
  <2>2. CASE p = at
    BY <1>2, <2>2
  <2>3. CASE p > at
    <3>1. p \in at + 1 .. i
      BY <2>3
    <3> QED BY <1>2, <2>3, <3>1
  <2> QED BY <2>1, <2>2, <2>3
<1>4. ASSUME NEW p \in lo .. i, NEW q \in lo .. i, p < q
      PROVE  \/ from(p) \in lo .. i - 1 /\ from(q) \in lo .. i - 1 /\ from(p) < from(q)
             \/ from(q) = i /\ from(p) \in lo .. at - 1
             \/ from(p) = i /\ from(q) \in at .. i - 1
  BY <1>4
<1> HIDE DEF from
<1>5. ASSUME NEW p \in lo .. i, NEW q \in lo .. i, p < q PROVE ~KeyLess(t[q].key, t[p].key, k)
  <2>1. ~KeyLess(s[from(q)].key, s[from(p)].key, k)
    BY <1>4, <1>5 DEF KeysInOrder
  <2> QED BY <1>3, <2>1
<1> QED BY <1>5 DEF KeysInOrder, t

LEMMA InsertedTies ==
  ASSUME Chosen, NEW s \in Seq(Item), NEW i \in 1 .. Len(s), NEW at \in 1 .. i, NEW k \in KeyIds,
         \A p \in at .. i - 1 : KeyOf(s[p].key, k) # KeyOf(s[i].key, k), Ties(s)
  PROVE  Ties(Inserted(s, i, at))
<1> USE DEF TiesWithin
<1> DEFINE t == Inserted(s, i, at)
           from(p) == IF p < at \/ p > i THEN p ELSE IF p = at THEN i ELSE p - 1
<1>1. /\ Moved(s, t, at, i) /\ t[at] = s[i]
      /\ \A p \in at + 1 .. i : t[p] = s[p - 1]
  BY InsertedIs
<1> HIDE DEF t
<1>2. Len(t) = Len(s)
  BY <1>1 DEF Moved
<1>3. ASSUME NEW p \in 1 .. Len(s) PROVE t[p] = s[from(p)] /\ from(p) \in 1 .. Len(s)
  <2>1. CASE p \notin at .. i
    <3>1. t[p] = s[p]
      BY <1>1, <2>1 DEF Moved
    <3> QED BY <2>1, <3>1
  <2>2. CASE p = at
    BY <1>1, <2>2
  <2>3. CASE p \in at + 1 .. i
    BY <1>1, <2>3
  <2> QED BY <2>1, <2>2, <2>3
<1>4. ASSUME NEW p \in 1 .. Len(s), NEW q \in 1 .. Len(s), p < q
      PROVE  from(p) < from(q) \/ (from(p) = i /\ from(q) \in at .. i - 1)
  BY <1>4
<1> HIDE DEF from
<1>5. ASSUME NEW p \in 1 .. Len(s), NEW q \in 1 .. Len(s), p < q,
             SameKeys(t[p].key, t[q].key, Len(options.keys))
      PROVE  t[p].pos < t[q].pos
  <2>1. KeyOf(t[p].key, k) = KeyOf(t[q].key, k)
    BY <1>5, OptionsOK DEF SameKeys
  <2>2. from(p) < from(q)
    BY <1>3, <1>4, <1>5, <2>1
  <2>3. SameKeys(s[from(p)].key, s[from(q)].key, Len(options.keys))
    BY <1>3, <1>5
  <2>4. s[from(p)].pos < s[from(q)].pos
    BY <1>3, <2>2, <2>3 DEF Ties
  <2> QED BY <1>3, <2>4
<1> QED BY <1>2, <1>5 DEF Ties, t

\* Keys that are equal do not compare less, however deep, unless they are reversed.
LEMMA ComparedEqual ==
  ASSUME NEW a, NEW b, NEW c, NEW k, NEW d, KeyBytes(b, k) = KeyBytes(c, k)
  PROVE  /\ CompareFromDepth(a, b, k, d) = CompareFromDepth(a, c, k, d)
         /\ KeyBytes(a, k) = KeyBytes(b, k) /\ ~options.keys[k].reverse =>
              ~(CompareFromDepth(a, b, k, d) < 0)
<1>1. CompareFromDepth(a, b, k, d) = CompareFromDepth(a, c, k, d)
  BY Zenon DEF CompareFromDepth
<1>2. ASSUME KeyBytes(a, k) = KeyBytes(b, k), ~options.keys[k].reverse
      PROVE  CompareFromDepth(a, b, k, d) \in {0, 1}
  <2> DEFINE x == KeyBytes(a, k)
             y == KeyBytes(b, k)
             differ == {p \in d + 1 .. Min({Len(x), Len(y)}) : x[p] # y[p]}
             pos == Max({d, Min({Len(x), Len(y)})})
             result == IF differ # {} THEN IF x[Min(differ)] < y[Min(differ)] THEN -1 ELSE 1
                       ELSE IF pos = Len(x) /\ pos = Len(y) THEN 0
                       ELSE IF pos = Len(x) THEN -1 ELSE 1
  <2>1. CompareFromDepth(a, b, k, d) = IF options.keys[k].reverse THEN -result ELSE result
    BY DEF CompareFromDepth
  <2>2. x = y
    BY <1>2
  <2>3. differ = {}
    BY <2>2
  <2> HIDE DEF x, y, differ, pos
  <2>4. result = 0 \/ result = 1
    BY <2>2, <2>3
  <2> HIDE DEF result
  <2> QED BY <1>2, <2>1, <2>4
<1> QED BY <1>1, <1>2

\* What is known of the lines of lo .. hi when those up to i are in order.
InsertedUpTo(given0, s, lo, hi, i, k) ==
  /\ Moved(given0, s, lo, hi)
  /\ KeysInOrder(s, lo, i, k)
  /\ Ties(given0) /\ ~options.keys[k].reverse => Ties(s)

\* The keys of a range may be compared from depth d: so far they agree, or
\* they are equal and it does not matter.
Comparable(s, lo, hi, k, d) == AgreeTo(s, lo, hi, k, d) \/ AllEqual(s, lo, hi, k)

LEMMA MovedComparable ==
  ASSUME NEW s, NEW t, NEW lo, NEW hi, NEW k, NEW d, Moved(s, t, lo, hi), Comparable(s, lo, hi, k, d)
  PROVE  Comparable(t, lo, hi, k, d)
<1>1. ASSUME AgreeTo(s, lo, hi, k, d) PROVE AgreeTo(t, lo, hi, k, d)
  <2> SUFFICES ASSUME NEW i \in lo .. hi, NEW j \in lo .. hi
               PROVE  Agree(KeyBytes(t[i], k), KeyBytes(t[j], k), d)
    BY DEF AgreeTo
  <2>1. PICK p \in lo .. hi : t[i] = s[p]
    BY DEF Moved
  <2>2. PICK q \in lo .. hi : t[j] = s[q]
    BY DEF Moved
  <2> QED BY <1>1, <2>1, <2>2 DEF AgreeTo
<1>2. ASSUME AllEqual(s, lo, hi, k) PROVE AllEqual(t, lo, hi, k)
  <2> SUFFICES ASSUME NEW i \in lo .. hi, NEW j \in lo .. hi
               PROVE  KeyOf(t[i].key, k) = KeyOf(t[j].key, k)
    BY DEF AllEqual
  <2>1. PICK p \in lo .. hi : t[i] = s[p]
    BY DEF Moved
  <2>2. PICK q \in lo .. hi : t[j] = s[q]
    BY DEF Moved
  <2> QED BY <1>2, <2>1, <2>2 DEF AllEqual
<1> QED BY <1>1, <1>2 DEF Comparable

LEMMA InsertedOne ==
  ASSUME Chosen, NEW given0, NEW s \in Seq(Item), NEW lo \in 1 .. Len(s), NEW hi \in 1 .. Len(s),
         NEW i \in lo + 1 .. hi, NEW k \in KeyIds, NEW d \in Nat, Comparable(s, lo, hi, k, d),
         given0 \in Seq(Item), Len(given0) = Len(s), InsertedUpTo(given0, s, lo, hi, i - 1, k)
  PROVE  InsertedUpTo(given0, Inserted(s, i, Bisected(s, lo, i, k, d)), lo, hi, i, k)
<1> DEFINE at == Bisected(s, lo, i, k, d)
           L == {p \in lo .. i - 1 : CompareFromDepth(s[i], s[p], k, d) < 0}
<1>1. /\ lo \in Nat /\ i \in Nat /\ lo <= i /\ i \in 1 .. Len(s) /\ lo \in 1 .. i
      /\ \A p \in lo .. i : p \in 1 .. Len(s) /\ p \in lo .. hi
  OBVIOUS
<1>2. \A p \in lo .. i : s[p].key \in Lines
  BY <1>1, ItemsHaveLines
<1>3. KeysInOrder(s, lo, i - 1, k)
  BY DEF InsertedUpTo
<1>4. CASE AgreeTo(s, lo, hi, k, d)
  <2>1. ASSUME NEW p \in lo .. i - 1 PROVE p \in L <=> KeyLess(s[i].key, s[p].key, k)
    <3>1. Agree(KeyBytes(s[i], k), KeyBytes(s[p], k), d)
      BY <1>1, <1>4 DEF AgreeTo
    <3>2. CompareFromDepth(s[i], s[p], k, d) < 0 <=> KeyLess(s[i].key, s[p].key, k)
      BY <1>1, <1>2, <3>1, ComparedFromDepth
    <3> QED BY <3>2
  <2>2. ASSUME NEW p \in lo .. i - 1, NEW q \in lo .. i - 1, p < q, p \in L PROVE q \in L
    <3>1. ~KeyLess(s[q].key, s[p].key, k)
      BY <1>3, <2>2 DEF KeysInOrder
    <3>2. KeyLess(s[i].key, s[p].key, k)
      BY <2>1, <2>2
    <3>3. KeyLess(s[i].key, s[q].key, k)
      BY <1>1, <1>2, <3>1, <3>2, KeyOrder
    <3> QED BY <2>1, <3>3
  <2>3. at \in lo .. i /\ (\A p \in lo .. at - 1 : p \notin L) /\ (\A p \in at .. i - 1 : p \in L)
    <3>1. \A p \in lo .. i - 1 : p \in L <=> CompareFromDepth(s[i], s[p], k, d) < 0
      OBVIOUS
    <3>2. \A p, q \in lo .. i - 1 : p < q /\ p \in L => q \in L
      BY <2>2
    <3> HIDE DEF L
    <3>3. lo \in Nat /\ i \in Nat /\ lo <= i
      BY <1>1
    <3> HIDE DEF at
    <3>4. /\ Bisected(s, lo, i, k, d) \in lo .. i
          /\ \A p \in lo .. Bisected(s, lo, i, k, d) - 1 : p \notin L
          /\ \A p \in Bisected(s, lo, i, k, d) .. i - 1 : p \in L
      BY <3>1, <3>2, <3>3, BisectedIs, Zenon
    <3> QED BY <3>4, Zenon DEF at
  <2> HIDE DEF at, L
  <2>4. \A p \in lo .. at - 1 : ~KeyLess(s[i].key, s[p].key, k)
    <3>1. \A p \in lo .. at - 1 : p \in lo .. i - 1
      BY <2>3
    <3> QED BY <2>1, <2>3, <3>1
  <2>5. \A p \in at .. i - 1 : KeyLess(s[i].key, s[p].key, k) /\ p \in lo .. i - 1
    <3>1. \A p \in at .. i - 1 : p \in lo .. i - 1
      BY <2>3
    <3> QED BY <2>1, <2>3, <3>1
  <2>6. \A p \in at .. i - 1 : ~KeyLess(s[p].key, s[i].key, k) /\ KeyOf(s[p].key, k) # KeyOf(s[i].key, k)
    BY <1>1, <1>2, <2>5, KeyOrder
  <2>7. Moved(s, Inserted(s, i, at), lo, hi)
    <3>1. at \in 1 .. i /\ at \in lo .. hi /\ i \in lo .. hi
      BY <1>1, <2>3
    <3>2. Moved(s, Inserted(s, i, at), at, i)
      BY <1>1, <3>1, InsertedIs
    <3> QED BY <3>1, <3>2, MovedWider
  <2>8. KeysInOrder(Inserted(s, i, at), lo, i, k)
    BY <1>1, <1>3, <2>3, <2>4, <2>6, InsertedInOrder
  <2>9. Ties(s) => Ties(Inserted(s, i, at))
    <3>1. at \in 1 .. i
      BY <1>1, <2>3
    <3> QED BY <1>1, <2>6, <3>1, InsertedTies
  <2> QED BY <2>7, <2>8, <2>9, MovedTrans DEF InsertedUpTo, at
<1>5. CASE AllEqual(s, lo, hi, k)
  <2>1. ASSUME NEW p \in lo .. i, NEW q \in lo .. i PROVE KeyBytes(s[p], k) = KeyBytes(s[q], k)
    BY <1>1, <1>5 DEF AllEqual, KeyBytes
  <2>2. ASSUME NEW p \in lo .. i - 1, NEW q \in lo .. i - 1, p < q, p \in L PROVE q \in L
    <3>1. CompareFromDepth(s[i], s[p], k, d) = CompareFromDepth(s[i], s[q], k, d)
      BY <2>1, ComparedEqual
    <3> QED BY <2>2, <3>1
  <2>3. at \in lo .. i /\ (\A p \in lo .. at - 1 : p \notin L) /\ (\A p \in at .. i - 1 : p \in L)
    <3>1. \A p \in lo .. i - 1 : p \in L <=> CompareFromDepth(s[i], s[p], k, d) < 0
      OBVIOUS
    <3>2. \A p, q \in lo .. i - 1 : p < q /\ p \in L => q \in L
      BY <2>2
    <3> HIDE DEF L
    <3>3. lo \in Nat /\ i \in Nat /\ lo <= i
      BY <1>1
    <3> HIDE DEF at
    <3>4. /\ Bisected(s, lo, i, k, d) \in lo .. i
          /\ \A p \in lo .. Bisected(s, lo, i, k, d) - 1 : p \notin L
          /\ \A p \in Bisected(s, lo, i, k, d) .. i - 1 : p \in L
      BY <3>1, <3>2, <3>3, BisectedIs, Zenon
    <3> QED BY <3>4, Zenon DEF at
  <2>4. ASSUME ~options.keys[k].reverse PROVE at = i
    <3>1. \A p \in lo .. i - 1 : p \notin L
      <4> SUFFICES ASSUME NEW p \in lo .. i - 1 PROVE ~(CompareFromDepth(s[i], s[p], k, d) < 0)
        OBVIOUS
      <4>1. KeyBytes(s[i], k) = KeyBytes(s[p], k)
        BY <1>1, <2>1
      <4> QED BY <2>4, <4>1, ComparedEqual
    <3> HIDE DEF at, L
    <3>2. CASE at < i
      <4>1. i - 1 \in at .. i - 1 /\ i - 1 \in lo .. i - 1
        BY <1>1, <2>3, <3>2
      <4> QED BY <2>3, <3>1, <4>1
    <3> QED BY <1>1, <2>3, <3>2
  <2> HIDE DEF at, L
  <2>5. \A p, q \in lo .. i : ~KeyLess(s[p].key, s[q].key, k)
    <3> SUFFICES ASSUME NEW p \in lo .. i, NEW q \in lo .. i PROVE ~KeyLess(s[p].key, s[q].key, k)
      OBVIOUS
    <3>1. KeyOf(s[p].key, k) = KeyOf(s[q].key, k)
      BY <2>1 DEF KeyBytes
    <3> QED BY <1>2, <3>1, KeyOrder
  <2>6. /\ \A p \in lo .. at - 1 : ~KeyLess(s[i].key, s[p].key, k)
        /\ \A p \in at .. i - 1 : ~KeyLess(s[p].key, s[i].key, k)
    <3>1. /\ \A p \in lo .. at - 1 : p \in lo .. i
          /\ \A p \in at .. i - 1 : p \in lo .. i
          /\ i \in lo .. i
      BY <1>1, <2>3
    <3> QED BY <2>5, <3>1
  <2>7. Moved(s, Inserted(s, i, at), lo, hi)
    <3>1. at \in 1 .. i /\ at \in lo .. hi /\ i \in lo .. hi
      BY <1>1, <2>3
    <3>2. Moved(s, Inserted(s, i, at), at, i)
      BY <1>1, <3>1, InsertedIs
    <3> QED BY <3>1, <3>2, MovedWider
  <2>8. KeysInOrder(Inserted(s, i, at), lo, i, k)
    BY <1>1, <1>3, <2>3, <2>6, InsertedInOrder
  <2>9. Ties(s) /\ ~options.keys[k].reverse => Ties(Inserted(s, i, at))
    <3> SUFFICES ASSUME Ties(s), ~options.keys[k].reverse PROVE Ties(Inserted(s, i, at))
      OBVIOUS
    <3>1. at \in 1 .. i /\ \A p \in at .. i - 1 : FALSE
      BY <1>1, <2>4
    <3>2. \A p \in at .. i - 1 : KeyOf(s[p].key, k) # KeyOf(s[i].key, k)
      BY <3>1
    <3> QED BY <1>1, <3>1, <3>2, InsertedTies
  <2> QED BY <2>7, <2>8, <2>9, MovedTrans DEF InsertedUpTo, at
<1> QED BY <1>4, <1>5 DEF Comparable

\* key_insertion_range sorts a range by its key, and is stable unless the key
\* is reversed.
LEMMA InsertionIs ==
  ASSUME Chosen, NEW s \in Seq(Item), NEW lo \in 1 .. Len(s), NEW hi \in 1 .. Len(s), lo <= hi,
         NEW k \in KeyIds, NEW d \in Nat, Comparable(s, lo, hi, k, d)
  PROVE  InsertedUpTo(s, InsertionSorted(s, lo, hi, k, d), lo, hi, hi, k)
<1> DEFINE D == lo .. hi
           Body(f, i) == IF i = lo THEN s ELSE Inserted(f[i - 1], i, Bisected(f[i - 1], lo, i, k, d))
           upto == CHOOSE f : f = [i \in D |-> Body(f, i)]
           Good(f, n) == \A i \in D : i <= n => f[i] = Body(f, i)
           T == {n \in Nat : \E f : Good(f, n)}
<1>1. \A i \in D : i \in Nat /\ i >= lo /\ (i # lo => i - 1 \in D) /\ lo \in D /\ hi \in D /\ hi \in Nat
  OBVIOUS
<1>2. InsertionSorted(s, lo, hi, k, d) = upto[hi]
  BY Zenon DEF InsertionSorted
<1>3. 0 \in T
  <2> DEFINE f == [i \in D |-> s]
  <2>1. Good(f, 0)
    BY <1>1
  <2> QED BY <2>1
<1>4. ASSUME NEW n \in T PROVE n + 1 \in T
  <2>1. PICK f : Good(f, n)
    OBVIOUS
  <2> DEFINE g == [i \in D |-> Body(f, i)]
  <2>2. \A i \in D : g[i] = Body(f, i)
    OBVIOUS
  <2>3. \A i \in D : i <= n => g[i] = f[i]
    BY <2>1, <2>2
  <2> HIDE DEF g
  <2>4. ASSUME NEW i \in D, i <= n + 1 PROVE g[i] = Body(g, i)
    <3>1. CASE i = lo
      BY <2>2, <3>1
    <3>2. CASE i # lo
      <4>1. i - 1 \in D /\ i - 1 <= n /\ n \in Nat
        BY <1>1, <2>4, <3>2
      <4>2. g[i - 1] = f[i - 1]
        BY <2>3, <4>1
      <4> QED BY <2>2, <3>2, <4>2
    <3> QED BY <3>1, <3>2
  <2>5. Good(g, n + 1)
    BY <2>4
  <2>6. n + 1 \in Nat
    OBVIOUS
  <2> HIDE DEF Good
  <2> QED BY <2>5, <2>6
<1> HIDE DEF Good
<1>5. hi \in T
  <2> DEFINE U == T
  <2>1. U \in SUBSET Nat /\ 0 \in U /\ \A n \in U : n + 1 \in U
    BY <1>3, <1>4
  <2>2. hi \in Nat
    OBVIOUS
  <2> HIDE DEF T, U
  <2>3. hi \in U
    BY <2>1, <2>2, AllNumbers
  <2> QED BY <2>3 DEF U
<1>6. PICK f : Good(f, hi)
  BY <1>5
<1>7. \A i \in D : f[i] = Body(f, i)
  BY <1>6 DEF Good
<1>8. \E g : g = [i \in D |-> Body(g, i)]
  <2> DEFINE g == [i \in D |-> Body(f, i)]
  <2>1. \A i \in D : g[i] = f[i]
    BY <1>7
  <2>2. \A i \in D : Body(f, i) = Body(g, i)
    <3> HIDE DEF g
    <3> QED BY <1>1, <2>1
  <2>3. g = [i \in D |-> Body(g, i)]
    <3>1. [i \in D |-> Body(f, i)] = [i \in D |-> Body(g, i)]
      <4> HIDE DEF Body, g
      <4> QED BY <2>2
    <3> QED BY <3>1, Zenon
  <2> HIDE DEF g
  <2> QED BY <2>3, Zenon
<1>9. upto = [i \in D |-> Body(upto, i)]
  BY <1>8, Zenon
<1> HIDE DEF upto
<1>10. \A i \in D : upto[i] = Body(upto, i)
  <2> HIDE DEF Body
  <2> QED BY <1>9
<1> DEFINE V == {n \in Nat : \A i \in D : i <= n => InsertedUpTo(s, upto[i], lo, hi, i, k)}
<1>11. InsertedUpTo(s, upto[lo], lo, hi, lo, k)
  <2>1. upto[lo] = s
    BY <1>1, <1>10
  <2>2. KeysInOrder(s, lo, lo, k)
    BY DEF KeysInOrder
  <2> QED BY <2>1, <2>2, MovedNone DEF InsertedUpTo
<1>12. 0 \in V
  BY <1>1
<1>13. ASSUME NEW n \in V PROVE n + 1 \in V
  <2> SUFFICES ASSUME NEW i \in D, i <= n + 1 PROVE InsertedUpTo(s, upto[i], lo, hi, i, k)
    OBVIOUS
  <2>1. CASE i = lo
    BY <1>11, <2>1
  <2>2. CASE i # lo
    <3> DEFINE prev == upto[i - 1]
    <3>1. i - 1 \in D /\ i - 1 <= n /\ i \in lo + 1 .. hi
      BY <1>1, <2>2
    <3>2. InsertedUpTo(s, prev, lo, hi, i - 1, k)
      BY <3>1
    <3>3. upto[i] = Inserted(prev, i, Bisected(prev, lo, i, k, d))
      BY <1>10, <2>2
    <3> HIDE DEF prev
    <3>4. prev \in Seq(Item) /\ Len(prev) = Len(s) /\ Comparable(prev, lo, hi, k, d)
      <4>1. Moved(s, prev, lo, hi)
        BY <3>2 DEF InsertedUpTo
      <4> QED BY <4>1, MovedComparable DEF Moved
    <3>5. InsertedUpTo(s, Inserted(prev, i, Bisected(prev, lo, i, k, d)), lo, hi, i, k)
      <4>1. lo \in 1 .. Len(prev) /\ hi \in 1 .. Len(prev) /\ Len(s) = Len(prev) /\ s \in Seq(Item)
        BY <3>4
      <4> QED BY <3>1, <3>2, <3>4, <4>1, InsertedOne
    <3> QED BY <3>3, <3>5
  <2> QED BY <2>1, <2>2
<1>14. hi \in V
  <2> DEFINE U == V
  <2>1. U \in SUBSET Nat /\ 0 \in U /\ \A n \in U : n + 1 \in U
    BY <1>12, <1>13
  <2>2. hi \in Nat
    OBVIOUS
  <2> HIDE DEF V, U
  <2>3. hi \in U
    BY <2>1, <2>2, AllNumbers
  <2> QED BY <2>3 DEF U
<1>15. hi \in D /\ hi <= hi
  OBVIOUS
<1> QED BY <1>2, <1>14, <1>15

-----------------------------------------------------------------------------
(***************************************************************************)
(* Scattering                                                              *)
(***************************************************************************)

\* Line j of range t goes to a place before that of line i.
GoesBefore(t, d, j, i) ==
  \/ Bucket(items[j], t.key, d) = Bucket(items[i], t.key, d) /\ j < i
  \/ /\ Bucket(items[j], t.key, d) # Bucket(items[i], t.key, d)
     /\ (Bucket(items[j], t.key, d) < Bucket(items[i], t.key, d)) = ~options.keys[t.key].reverse

AheadOf(t, d) == [i \in t.lo .. t.hi |-> {j \in t.lo .. t.hi : GoesBefore(t, d, j, i)}]

\* The keys of range t may be told apart by their bytes behind the first d.
Divisible(t, d) ==
  /\ Chosen /\ items \in Seq(Item) /\ Sound(t)
  /\ d \in t.depth .. DepthLimit - 1
  /\ AgreeTo(items, t.lo, t.hi, t.key, d)

LEMMA DivisibleIs ==
  ASSUME NEW t, NEW d, Divisible(t, d)
  PROVE  /\ t.lo \in Nat /\ t.hi \in Nat /\ t.lo <= t.hi /\ t.lo \in 1 .. Len(items) /\ t.hi \in 1 .. Len(items)
         /\ t.key \in KeyIds /\ d \in Nat /\ t.depth \in Nat /\ options.keys[t.key].reverse \in BOOLEAN
         /\ \A i \in t.lo .. t.hi :
              /\ i \in 1 .. Len(items) /\ i \in Nat /\ items[i] \in Item /\ items[i].key \in Lines
              /\ Bucket(items[i], t.key, d) \in Nat
         /\ \A i, j \in t.lo .. t.hi :
              /\ Bucket(items[i], t.key, d) < Bucket(items[j], t.key, d) =>
                   BytesLess(KeyOf(items[i].key, t.key), KeyOf(items[j].key, t.key))
              /\ Bucket(items[i], t.key, d) = 0 /\ Bucket(items[j], t.key, d) = 0 =>
                   KeyOf(items[i].key, t.key) = KeyOf(items[j].key, t.key)
              /\ Bucket(items[i], t.key, d) # 0 /\ Bucket(items[i], t.key, d) = Bucket(items[j], t.key, d) =>
                   Agree(KeyBytes(items[i], t.key), KeyBytes(items[j], t.key), d + 1)
              /\ KeyOf(items[i].key, t.key) = KeyOf(items[j].key, t.key) =>
                   Bucket(items[i], t.key, d) = Bucket(items[j], t.key, d)
<1>1. /\ t.lo \in Nat /\ t.hi \in Nat /\ t.lo <= t.hi /\ t.lo \in 1 .. Len(items) /\ t.hi \in 1 .. Len(items)
      /\ t.key \in KeyIds /\ t.depth \in Nat /\ d \in Nat
  BY ConstantsAssumption DEF Divisible, Sound, RangeType
<1>2. options.keys[t.key].reverse \in BOOLEAN
  BY <1>1, OptionsOK DEF Divisible
<1>3. ASSUME NEW i \in t.lo .. t.hi
      PROVE  i \in 1 .. Len(items) /\ i \in Nat /\ items[i] \in Item /\ items[i].key \in Lines
  <2>1. i \in 1 .. Len(items) /\ i \in Nat
    BY <1>1
  <2> QED BY <2>1, ItemsHaveLines DEF Divisible
<1>4. \A i \in t.lo .. t.hi : KeyBytes(items[i], t.key) \in Text
  BY <1>1, <1>3, OptionsOK DEF Divisible, KeyBytes
<1>5. ASSUME NEW i \in t.lo .. t.hi, NEW j \in t.lo .. t.hi
      PROVE  Agree(KeyBytes(items[i], t.key), KeyBytes(items[j], t.key), d)
  BY Zenon DEF Divisible, AgreeTo
<1>6. \A i, j \in t.lo .. t.hi :
        /\ Bucket(items[i], t.key, d) \in Nat
        /\ Bucket(items[i], t.key, d) < Bucket(items[j], t.key, d) =>
             BytesLess(KeyBytes(items[i], t.key), KeyBytes(items[j], t.key))
        /\ Bucket(items[i], t.key, d) = 0 /\ Bucket(items[j], t.key, d) = 0 =>
             KeyBytes(items[i], t.key) = KeyBytes(items[j], t.key)
        /\ Bucket(items[i], t.key, d) # 0 /\ Bucket(items[i], t.key, d) = Bucket(items[j], t.key, d) =>
             Agree(KeyBytes(items[i], t.key), KeyBytes(items[j], t.key), d + 1)
  BY <1>1, <1>4, <1>5, BucketsInOrder
<1>7. \A i, j \in t.lo .. t.hi : KeyBytes(items[i], t.key) = KeyBytes(items[j], t.key) =>
        Bucket(items[i], t.key, d) = Bucket(items[j], t.key, d)
  BY DEF Bucket
<1>8. \A i \in t.lo .. t.hi : KeyOf(items[i].key, t.key) = KeyBytes(items[i], t.key)
  BY DEF KeyBytes
<1> HIDE DEF Divisible
<1> QED BY <1>1, <1>2, <1>3, <1>6, <1>7, <1>8

LEMMA AheadOrders ==
  ASSUME NEW t, NEW d, Divisible(t, d)
  PROVE  Orders(t.lo, t.hi, AheadOf(t, d))
<1> DEFINE R == t.lo .. t.hi
           ahead == AheadOf(t, d)
           b == [i \in R |-> Bucket(items[i], t.key, d)]
<1>1. /\ \A i \in R : b[i] \in Nat /\ i \in Nat
      /\ options.keys[t.key].reverse \in BOOLEAN
  BY DivisibleIs
<1>2. \A i, j \in R : GoesBefore(t, d, j, i) <=>
        \/ b[j] = b[i] /\ j < i
        \/ b[j] # b[i] /\ (b[j] < b[i]) = ~options.keys[t.key].reverse
  BY DEF GoesBefore
<1> HIDE DEF b
<1>3. ahead \in [R -> SUBSET R] /\ \A i, j \in R : j \in ahead[i] <=> GoesBefore(t, d, j, i)
  BY DEF AheadOf
<1> HIDE DEF ahead
<1>4. \A i, j \in R : j \in ahead[i] <=>
        IF options.keys[t.key].reverse THEN b[i] < b[j] \/ (b[i] = b[j] /\ j < i)
                                       ELSE b[j] < b[i] \/ (b[i] = b[j] /\ j < i)
  <2> SUFFICES ASSUME NEW i \in R, NEW j \in R
               PROVE  j \in ahead[i] <=>
        IF options.keys[t.key].reverse THEN b[i] < b[j] \/ (b[i] = b[j] /\ j < i)
                                       ELSE b[j] < b[i] \/ (b[i] = b[j] /\ j < i)
    OBVIOUS
  <2>1. b[i] \in Nat /\ b[j] \in Nat
    BY <1>1
  <2>2. j \in ahead[i] <=> \/ b[j] = b[i] /\ j < i
                           \/ b[j] # b[i] /\ (b[j] < b[i]) = ~options.keys[t.key].reverse
    BY <1>2, <1>3
  <2>3. CASE options.keys[t.key].reverse
    BY <2>1, <2>2, <2>3
  <2>4. CASE ~options.keys[t.key].reverse
    BY <2>1, <2>2, <2>4
  <2> QED BY <2>3, <2>4
<1>5. \A i \in R : i \notin ahead[i]
  BY <1>1, <1>4
<1>6. \A i, j \in R : i # j => j \in ahead[i] \/ i \in ahead[j]
  BY <1>1, <1>4
<1>7. ASSUME NEW i \in R, NEW j \in R, j \in ahead[i] PROVE ahead[j] \subseteq ahead[i]
  <2> SUFFICES ASSUME NEW m \in R, m \in ahead[j] PROVE m \in ahead[i]
    BY <1>3
  <2> QED BY <1>1, <1>4, <1>7
<1> QED BY <1>3, <1>5, <1>6, <1>7 DEF Orders, ahead

\* Every line of the range gets a place, buckets in order and lines in order
\* within a bucket.
LEMMA Targets ==
  ASSUME NEW t, NEW d, Divisible(t, d)
  PROVE  /\ \A i \in t.lo .. t.hi : Target(t, d, i) \in t.lo .. t.hi
         /\ \A i, j \in t.lo .. t.hi : GoesBefore(t, d, j, i) <=> Target(t, d, j) < Target(t, d, i)
         /\ \A n \in t.lo .. t.hi : \E i \in t.lo .. t.hi : Target(t, d, i) = n
         /\ \A i, j \in t.lo .. t.hi : Target(t, d, i) = Target(t, d, j) => i = j
<1> DEFINE R == t.lo .. t.hi
           ahead == AheadOf(t, d)
<1>1. \A i \in R : Target(t, d, i) = t.lo + Cardinality(ahead[i])
  <2> SUFFICES ASSUME NEW i \in R PROVE Target(t, d, i) = t.lo + Cardinality(ahead[i])
    OBVIOUS
  <2>1. ahead[i] = {j \in R : GoesBefore(t, d, j, i)}
    BY DEF AheadOf
  <2>2. Target(t, d, i) = t.lo + Cardinality({j \in R : GoesBefore(t, d, j, i)})
    BY Zenon DEF Target, GoesBefore
  <2> QED BY <2>1, <2>2
<1>2. Orders(t.lo, t.hi, ahead)
  BY AheadOrders
<1>3. \A i, j \in R : j \in ahead[i] <=> GoesBefore(t, d, j, i)
  BY DEF AheadOf
<1> HIDE DEF ahead
<1>4. t.lo \in Nat /\ t.hi \in Nat /\ t.lo <= t.hi
  BY DivisibleIs
<1>5. /\ \A i \in R : t.lo + Cardinality(ahead[i]) \in R
      /\ \A i, j \in R : j \in ahead[i] <=> t.lo + Cardinality(ahead[j]) < t.lo + Cardinality(ahead[i])
      /\ \A n \in R : \E i \in R : t.lo + Cardinality(ahead[i]) = n
  BY <1>2, <1>4, Placed
<1>6. /\ \A i \in R : Target(t, d, i) \in R
      /\ \A i, j \in R : j \in ahead[i] <=> Target(t, d, j) < Target(t, d, i)
      /\ \A n \in R : \E i \in R : Target(t, d, i) = n
  <2> HIDE DEF R
  <2> QED BY <1>1, <1>5
<1>7. ASSUME NEW i \in R, NEW j \in R, Target(t, d, i) = Target(t, d, j), i # j PROVE FALSE
  <2>1. i \in ahead[j] \/ j \in ahead[i]
    BY <1>2, <1>7 DEF Orders
  <2>2. Target(t, d, i) < Target(t, d, j) \/ Target(t, d, j) < Target(t, d, i)
    BY <1>6, <2>1
  <2>3. Target(t, d, i) \in R /\ Target(t, d, j) \in R
    BY <1>6
  <2> QED BY <1>4, <1>7, <2>2, <2>3
<1> QED BY <1>3, <1>6, <1>7

\* The lines of range t, each at its place.
PartOf(t, d) ==
  [n \in 1 .. t.hi - t.lo + 1 |-> items[CHOOSE i \in t.lo .. t.hi : Target(t, d, i) = t.lo + n - 1]]

LEMMA PartIs ==
  ASSUME NEW t, NEW d, Divisible(t, d)
  PROVE  /\ PartOf(t, d) \in Seq(Item) /\ Len(PartOf(t, d)) = t.hi - t.lo + 1
         /\ \A n \in 1 .. t.hi - t.lo + 1 :
              \E i \in t.lo .. t.hi : Target(t, d, i) = t.lo + n - 1 /\ PartOf(t, d)[n] = items[i]
<1> DEFINE size == t.hi - t.lo + 1
           source(n) == CHOOSE i \in t.lo .. t.hi : Target(t, d, i) = t.lo + n - 1
<1>1. t.lo \in Nat /\ t.hi \in Nat /\ t.lo <= t.hi /\ size \in Nat /\ \A i \in t.lo .. t.hi : items[i] \in Item
  BY DivisibleIs
<1>2. ASSUME NEW n \in 1 .. size
      PROVE  source(n) \in t.lo .. t.hi /\ Target(t, d, source(n)) = t.lo + n - 1
  <2>1. t.lo + n - 1 \in t.lo .. t.hi
    BY <1>1
  <2>2. \E i \in t.lo .. t.hi : Target(t, d, i) = t.lo + n - 1
    BY <2>1, Targets
  <2> QED BY <2>2, Zenon
<1>3. PartOf(t, d) = [n \in 1 .. size |-> items[source(n)]]
  BY DEF PartOf
<1> HIDE DEF source
<1>4. PartOf(t, d) \in Seq(Item) /\ Len(PartOf(t, d)) = size
  BY <1>1, <1>2, <1>3, SMTT(30)
<1>5. \A n \in 1 .. size : PartOf(t, d)[n] = items[source(n)]
  BY <1>3
<1> QED BY <1>2, <1>4, <1>5

\* b is a with line i of the range at its place.
InPlace(b, a, t, d) ==
  /\ b \in Seq(Item) /\ Len(b) = Len(items)
  /\ \A p \in 1 .. Len(items) : p \notin t.lo .. t.hi => b[p] = a[p]
  /\ \A p \in t.lo .. t.hi : \E i \in t.lo .. t.hi : Target(t, d, i) = p /\ b[p] = items[i]

LEMMA ScatteredIs ==
  ASSUME NEW t, NEW d, Divisible(t, d), NEW a \in Seq(Item), Len(a) = Len(items)
  PROVE  InPlace(Splice(a, t.lo, PartOf(t, d)), a, t, d)
<1> DEFINE part == PartOf(t, d)
           b == Splice(a, t.lo, part)
<1>1. /\ t.lo \in 1 .. Len(items) /\ t.hi \in 1 .. Len(items) /\ t.lo <= t.hi
      /\ Len(items) \in Nat /\ t.lo \in Nat /\ t.hi \in Nat
  BY DivisibleIs
<1>2. part \in Seq(Item) /\ Len(part) = t.hi - t.lo + 1
  BY PartIs
<1>3. /\ b \in Seq(Item) /\ Len(b) = Len(a)
      /\ \A p \in 1 .. Len(a) : b[p] = IF p \in t.lo .. t.lo + Len(part) - 1 THEN part[p - t.lo + 1] ELSE a[p]
  <2>1. t.lo \in 1 .. Len(a) /\ t.lo + Len(part) <= Len(a) + 1
    BY <1>1, <1>2
  <2> HIDE DEF part
  <2> QED BY <1>2, <2>1, SpliceIs
<1> HIDE DEF b
<1>4. t.lo + Len(part) - 1 = t.hi
  BY <1>1, <1>2
<1>5. ASSUME NEW p \in t.lo .. t.hi
      PROVE  \E i \in t.lo .. t.hi : Target(t, d, i) = p /\ b[p] = items[i]
  <2>1. p \in 1 .. Len(a) /\ p - t.lo + 1 \in 1 .. t.hi - t.lo + 1 /\ t.lo + (p - t.lo + 1) - 1 = p
    BY <1>1
  <2>2. b[p] = part[p - t.lo + 1]
    BY <1>3, <1>4, <2>1
  <2>3. \E i \in t.lo .. t.hi : Target(t, d, i) = t.lo + (p - t.lo + 1) - 1 /\ part[p - t.lo + 1] = items[i]
    BY <2>1, PartIs
  <2> QED BY <2>1, <2>2, <2>3
<1>6. \A p \in 1 .. Len(items) : p \notin t.lo .. t.hi => b[p] = a[p]
  BY <1>3, <1>4
<1>7. b \in Seq(Item) /\ Len(b) = Len(items)
  BY <1>3
<1>8. InPlace(b, a, t, d)
  BY <1>5, <1>6, <1>7, Zenon DEF InPlace
<1> QED BY <1>8 DEF b

\* Range c has the lines of one bucket, b.
Holding(t, d, c, b) ==
  /\ b # 0
  /\ c = Range_(c.lo, c.hi, t.key, d + 1)
  /\ t.lo <= c.lo /\ c.lo <= c.hi /\ c.hi <= t.hi /\ c.lo \in Nat /\ c.hi \in Nat
  /\ \A i \in t.lo .. t.hi : Target(t, d, i) \in c.lo .. c.hi <=> Bucket(items[i], t.key, d) = b

LEMMA ChildrenHold ==
  ASSUME NEW t, NEW d, Divisible(t, d), NEW c \in Children(t, d)
  PROVE  \E b : Holding(t, d, c, b)
<1> DEFINE R == t.lo .. t.hi
           buckets == {Bucket(items[i], t.key, d) : i \in R}
           places(b) == {Target(t, d, i) : i \in {j \in R : Bucket(items[j], t.key, d) = b}}
<1>1. PICK b \in buckets \ {0} : c = Range_(Min(places(b)), Max(places(b)), t.key, d + 1)
  <2>1. c \in {Range_(Min(places(b)), Max(places(b)), t.key, d + 1) :
                 b \in {e \in buckets \ {0} : Cardinality(places(e)) > 1}}
    BY Zenon DEF Children
  <2> HIDE DEF buckets, places
  <2> QED BY <2>1
<1> DEFINE S == places(b)
           lo == Min(S)
           hi == Max(S)
<1>2. t.lo \in Nat /\ t.hi \in Nat /\ t.lo <= t.hi /\ \A i \in R : Bucket(items[i], t.key, d) \in Nat
  BY DivisibleIs
<1>3. S \in SUBSET Nat /\ S # {} /\ \A y \in S : y <= t.hi /\ y >= t.lo
  <2>1. \A i \in R : Target(t, d, i) \in R
    BY Targets
  <2>2. \E i \in R : Bucket(items[i], t.key, d) = b
    OBVIOUS
  <2> QED BY <1>2, <2>1, <2>2
<1>4. \A y \in S : \E i \in R : Bucket(items[i], t.key, d) = b /\ Target(t, d, i) = y
  OBVIOUS
<1>5. \A i \in R : Bucket(items[i], t.key, d) = b => Target(t, d, i) \in S
  OBVIOUS
<1> HIDE DEF places, S, buckets
<1>6. lo \in S /\ hi \in S /\ \A y \in S : lo <= y /\ y <= hi
  BY <1>2, <1>3, MinIs, MaxIs
<1> HIDE DEF lo, hi
<1>7. lo \in Nat /\ hi \in Nat /\ t.lo <= lo /\ lo <= hi /\ hi <= t.hi
  BY <1>2, <1>3, <1>6
<1>8. PICK x \in R : Bucket(items[x], t.key, d) = b /\ Target(t, d, x) = lo
  BY <1>4, <1>6
<1>9. PICK y \in R : Bucket(items[y], t.key, d) = b /\ Target(t, d, y) = hi
  BY <1>4, <1>6
<1>10. ASSUME NEW i \in R
       PROVE  Target(t, d, i) \in lo .. hi <=> Bucket(items[i], t.key, d) = b
  <2>0. Target(t, d, i) \in Nat
    BY <1>2, Targets
  <2>1. ASSUME Bucket(items[i], t.key, d) = b PROVE Target(t, d, i) \in lo .. hi
    BY <1>5, <1>6, <1>7, <2>0, <2>1
  <2>2. ASSUME Bucket(items[i], t.key, d) # b PROVE Target(t, d, i) \notin lo .. hi
    <3>1. GoesBefore(t, d, i, x) <=> GoesBefore(t, d, i, y)
      BY <1>8, <1>9, <2>2 DEF GoesBefore
    <3>2. GoesBefore(t, d, y, i) <=> GoesBefore(t, d, x, i)
      BY <1>8, <1>9, <2>2 DEF GoesBefore
    <3>3. GoesBefore(t, d, i, x) \/ GoesBefore(t, d, x, i)
      <4>1. i # x
        BY <1>8, <2>2
      <4> QED BY <4>1, AheadOrders DEF Orders, AheadOf
    <3>4. CASE GoesBefore(t, d, i, x)
      <4>1. Target(t, d, i) < lo
        BY <1>8, <3>4, Targets
      <4> QED BY <1>7, <2>0, <4>1
    <3>5. CASE GoesBefore(t, d, x, i)
      <4>1. Target(t, d, y) < Target(t, d, i)
        BY <3>2, <3>5, Targets
      <4> QED BY <1>7, <1>9, <2>0, <4>1
    <3> QED BY <3>3, <3>4, <3>5
  <2> QED BY <2>1, <2>2
<1>11. c = Range_(lo, hi, t.key, d + 1)
  BY <1>1, Zenon DEF lo, hi, S
<1>12. c.lo = lo /\ c.hi = hi
  BY <1>11 DEF Range_
<1>13. b # 0
  OBVIOUS
<1> QED BY <1>7, <1>10, <1>11, <1>12, <1>13 DEF Holding

LEMMA ChildOfTwo ==
  ASSUME NEW t, NEW d, Divisible(t, d), NEW i \in t.lo .. t.hi, NEW j \in t.lo .. t.hi, i # j,
         Bucket(items[i], t.key, d) # 0, Bucket(items[i], t.key, d) = Bucket(items[j], t.key, d)
  PROVE  \E c \in Children(t, d) : Target(t, d, i) \in c.lo .. c.hi /\ Target(t, d, j) \in c.lo .. c.hi
<1> DEFINE R == t.lo .. t.hi
           buckets == {Bucket(items[n], t.key, d) : n \in R}
           places(b) == {Target(t, d, n) : n \in {m \in R : Bucket(items[m], t.key, d) = b}}
           e == Bucket(items[i], t.key, d)
           S == places(e)
           x == Target(t, d, i)
           y == Target(t, d, j)
           c == Range_(Min(S), Max(S), t.key, d + 1)
<1>1. t.lo \in Nat /\ t.hi \in Nat /\ \A n \in R : Target(t, d, n) \in R
  BY DivisibleIs, Targets
<1>2. x \in S /\ y \in S /\ S \subseteq R
  BY <1>1
<1>3. x # y
  BY Targets
<1>4. e \in buckets \ {0}
  OBVIOUS
<1>5. Children(t, d) = {Range_(Min(places(b)), Max(places(b)), t.key, d + 1) :
                          b \in {f \in buckets \ {0} : Cardinality(places(f)) > 1}}
  BY Zenon DEF Children
<1> HIDE DEF buckets, places, e, S, x, y
<1>6. Cardinality(S) > 1
  <2>1. IsFiniteSet(S)
    <3>1. IsFiniteSet(R)
      <4>1. \A m, n \in Int : IsFiniteSet(m .. n)
        BY FS_Interval
      <4> QED BY <1>1, <4>1
    <3> QED BY <1>2, <3>1, FS_Subset
  <2>2. IsFiniteSet({x, y}) /\ Cardinality({x, y}) = 2
    <3>1. IsFiniteSet({x}) /\ Cardinality({x}) = 1
      BY FS_Singleton
    <3>2. IsFiniteSet({x} \cup {y}) /\ Cardinality({x} \cup {y}) = 2
      <4>1. y \notin {x}
        BY <1>3
      <4>2. IsFiniteSet({x} \cup {y}) /\ Cardinality({x} \cup {y}) = Cardinality({x}) + 1
        BY <3>1, <4>1, FS_AddElement
      <4> QED BY <3>1, <4>2
    <3>3. {x} \cup {y} = {x, y}
      OBVIOUS
    <3> QED BY <3>2, <3>3
  <2>3. Cardinality({x, y}) <= Cardinality(S)
    <3>1. {x, y} \in SUBSET S
      BY <1>2
    <3> QED BY <2>1, <3>1, FS_Subset
  <2>4. Cardinality(S) \in Nat
    BY <2>1, FS_CardinalityType
  <2> QED BY <2>2, <2>3, <2>4
<1>7. c \in Children(t, d)
  BY <1>4, <1>5, <1>6 DEF S
<1>8. x \in Min(S) .. Max(S) /\ y \in Min(S) .. Max(S)
  <2>1. S \in SUBSET Nat /\ S # {} /\ \A z \in S : z <= t.hi
    BY <1>1, <1>2
  <2>2. /\ Min(S) \in S /\ \A z \in S : Min(S) <= z
        /\ Max(S) \in S /\ \A z \in S : z <= Max(S)
    BY <1>1, <2>1, MinIs, MaxIs
  <2> QED BY <1>2, <2>1, <2>2
<1>9. c.lo = Min(S) /\ c.hi = Max(S)
  BY DEF Range_
<1> QED BY <1>7, <1>8, <1>9 DEF x, y

\* After the first half of key_radix_range the range is one that waits to be copied.
LEMMA ScatteredRange ==
  ASSUME NEW t, NEW d, Divisible(t, d), Distinct(items), Forward => Ties(items), NEW a,
         \A p \in t.lo .. t.hi : \E i \in t.lo .. t.hi : Target(t, d, i) = p /\ a[p] = items[i]
  PROVE  RangeOK(items, a, t.key, [t EXCEPT !.scattered = TRUE, !.children = Children(t, d)])
<1> DEFINE R == t.lo .. t.hi
           t2 == [t EXCEPT !.scattered = TRUE, !.children = Children(t, d)]
           b(i) == Bucket(items[i], t.key, d)
<1>1. /\ t.lo \in Nat /\ t.hi \in Nat /\ t.lo <= t.hi /\ t.key \in KeyIds /\ d \in Nat /\ t.depth \in Nat
      /\ options.keys[t.key].reverse \in BOOLEAN
      /\ \A i \in R : i \in 1 .. Len(items) /\ i \in Nat /\ items[i].key \in Lines /\ b(i) \in Nat
  BY DivisibleIs
<1>2. /\ t \in RangeType /\ t.depth <= DepthLimit /\ d >= t.depth /\ d + 1 <= DepthLimit /\ Chosen
      /\ DepthLimit \in Nat
  BY ConstantsAssumption DEF Divisible, Sound, RangeType
<1>3. \A c \in Children(t, d) : \E e : Holding(t, d, c, e)
  BY ChildrenHold
<1> DEFINE Line(p, i) == i \in R /\ Target(t, d, i) = p /\ a[p] = items[i]
<1>4. \A p \in R : \E i : Line(p, i)
  OBVIOUS
<1>5. t2 \in RangeType /\ t2.lo = t.lo /\ t2.hi = t.hi /\ t2.key = t.key /\ t2.depth = t.depth
      /\ t2.scattered = TRUE /\ t2.children = Children(t, d)
  <2>1. Children(t, d) \subseteq Kid
    <3> SUFFICES ASSUME NEW c \in Children(t, d) PROVE c \in Kid
      OBVIOUS
    <3>1. PICK e : Holding(t, d, c, e)
      BY <1>3
    <3>2. c = Range_(c.lo, c.hi, t.key, d + 1) /\ c.lo \in Nat /\ c.hi \in Nat
      BY <3>1 DEF Holding
    <3>3. t.key \in Nat /\ d + 1 \in Nat
      BY <1>1, <1>2 DEF RangeType
    <3>4. Range_(c.lo, c.hi, t.key, d + 1) \in Kid
      BY <3>2, <3>3 DEF Range_, Kid
    <3> QED BY <3>2, <3>4
  <2> DEFINE C == Children(t, d)
  <2> HIDE DEF C
  <2>2. C \subseteq Kid
    BY <2>1 DEF C
  <2>3. t \in [lo : Nat, hi : Nat, key : Nat, depth : Nat, scattered : BOOLEAN, children : SUBSET Kid]
    BY <1>2 DEF RangeType
  <2>4. t2 = [t EXCEPT !.scattered = TRUE, !.children = C]
    BY DEF C
  <2> HIDE DEF t2
  <2>5. /\ t2 \in [lo : Nat, hi : Nat, key : Nat, depth : Nat, scattered : BOOLEAN, children : SUBSET Kid]
        /\ t2.lo = t.lo /\ t2.hi = t.hi /\ t2.key = t.key /\ t2.depth = t.depth
        /\ t2.scattered = TRUE /\ t2.children = C
    BY <2>2, <2>3, <2>4
  <2> QED BY <2>5 DEF RangeType, C
<1> HIDE DEF t2, b
<1>6. \A n \in R : \E i \in R : a[n] = items[i]
  OBVIOUS
<1>7. ASSUME NEW m \in R, NEW n \in R, m # n PROVE a[m] # a[n]
  <2>1. PICK i : Line(m, i)
    BY <1>4
  <2>2. PICK j : Line(n, j)
    BY <1>4
  <2>3. i # j /\ i \in 1 .. Len(items) /\ j \in 1 .. Len(items)
    BY <1>1, <1>7, <2>1, <2>2
  <2>4. items[i] # items[j]
    BY <2>3 DEF Distinct
  <2> QED BY <2>1, <2>2, <2>4
<1>8. ASSUME NEW c \in Children(t, d) PROVE KidOK(a, t2, c)
  <2>1. PICK e : Holding(t, d, c, e)
    BY <1>3
  <2>2. /\ e # 0 /\ t.lo <= c.lo /\ c.lo <= c.hi /\ c.hi <= t.hi /\ c.lo \in Nat /\ c.hi \in Nat
        /\ c = Range_(c.lo, c.hi, t.key, d + 1)
        /\ \A i \in R : Target(t, d, i) \in c.lo .. c.hi <=> b(i) = e
    BY <2>1 DEF Holding, b
  <2>3. c.key = t.key /\ c.depth = d + 1
    BY <2>2 DEF Range_
  <2>4. ASSUME NEW m \in c.lo .. c.hi, NEW n \in c.lo .. c.hi
        PROVE  Agree(KeyBytes(a[m], t.key), KeyBytes(a[n], t.key), d + 1)
    <3>1. m \in R /\ n \in R
      <4>1. t.lo <= c.lo /\ c.hi <= t.hi /\ c.lo \in Nat /\ c.hi \in Nat
        BY <2>2
      <4> QED BY <1>1, <4>1
    <3>2. PICK i : Line(m, i)
      BY <1>4, <3>1
    <3>3. PICK j : Line(n, j)
      BY <1>4, <3>1
    <3>4. b(i) = e /\ b(j) = e
      BY <2>2, <2>4, <3>2, <3>3
    <3>5. Agree(KeyBytes(items[i], t.key), KeyBytes(items[j], t.key), d + 1)
      BY <2>2, <3>2, <3>3, <3>4, DivisibleIs DEF b
    <3> QED BY <3>2, <3>3, <3>5
  <2>5. AgreeTo(a, c.lo, c.hi, t.key, c.depth)
    BY <2>3, <2>4 DEF AgreeTo
  <2>6. c.depth \in t.depth + 1 .. DepthLimit
    BY <1>1, <1>2, <2>3
  <2> QED BY <1>5, <2>2, <2>3, <2>5, <2>6 DEF KidOK
<1>9. ASSUME NEW c \in Children(t, d), NEW f \in Children(t, d), c # f
      PROVE  Within(BlockOf(c)) \cap Within(BlockOf(f)) = {}
  <2> SUFFICES ASSUME NEW p \in Within(BlockOf(c)), p \in Within(BlockOf(f)) PROVE FALSE
    OBVIOUS
  <2>1. PICK e : Holding(t, d, c, e)
    BY <1>3
  <2>2. PICK g : Holding(t, d, f, g)
    BY <1>3
  <2>3. p \in c.lo .. c.hi /\ p \in f.lo .. f.hi
    BY DEF Within, BlockOf
  <2>4. /\ t.lo <= c.lo /\ c.lo <= c.hi /\ c.hi <= t.hi /\ c.lo \in Nat /\ c.hi \in Nat
        /\ c = Range_(c.lo, c.hi, t.key, d + 1)
        /\ \A i \in R : Target(t, d, i) \in c.lo .. c.hi <=> b(i) = e
    BY <2>1 DEF Holding, b
  <2>5. /\ t.lo <= f.lo /\ f.lo <= f.hi /\ f.hi <= t.hi /\ f.lo \in Nat /\ f.hi \in Nat
        /\ f = Range_(f.lo, f.hi, t.key, d + 1)
        /\ \A i \in R : Target(t, d, i) \in f.lo .. f.hi <=> b(i) = g
    BY <2>2 DEF Holding, b
  <2>a. t.lo <= c.lo /\ c.lo <= c.hi /\ c.hi <= t.hi /\ c.lo \in Nat /\ c.hi \in Nat
    BY <2>4
  <2>b. t.lo <= f.lo /\ f.lo <= f.hi /\ f.hi <= t.hi /\ f.lo \in Nat /\ f.hi \in Nat
    BY <2>5
  <2>6. PICK i : Line(p, i)
    <3>1. p \in R
      BY <1>1, <2>3, <2>a
    <3> QED BY <1>4, <3>1
  <2>7. e = g
    BY <2>3, <2>4, <2>5, <2>6
  <2>8. ASSUME NEW q \in R PROVE q \in c.lo .. c.hi <=> q \in f.lo .. f.hi
    <3>1. PICK j : Line(q, j)
      BY <1>4
    <3> QED BY <2>4, <2>5, <2>7, <3>1
  <2>9. /\ c.lo \in R /\ c.hi \in R /\ f.lo \in R /\ f.hi \in R
        /\ c.lo \in c.lo .. c.hi /\ c.hi \in c.lo .. c.hi /\ f.lo \in f.lo .. f.hi /\ f.hi \in f.lo .. f.hi
    <3>1. t.lo \in Nat /\ t.hi \in Nat
      BY <1>1
    <3>2. c.lo \in R /\ c.hi \in R /\ c.lo \in c.lo .. c.hi /\ c.hi \in c.lo .. c.hi
      BY <2>a, <3>1
    <3>3. f.lo \in R /\ f.hi \in R /\ f.lo \in f.lo .. f.hi /\ f.hi \in f.lo .. f.hi
      BY <2>b, <3>1
    <3> QED BY <3>2, <3>3
  <2>10. c.lo \in f.lo .. f.hi /\ c.hi \in f.lo .. f.hi /\ f.lo \in c.lo .. c.hi /\ f.hi \in c.lo .. c.hi
    BY <2>8, <2>9
  <2>11. c.lo = f.lo /\ c.hi = f.hi
    BY <2>a, <2>b, <2>10
  <2> QED BY <1>9, <2>4, <2>5, <2>11
<1>10. ASSUME NEW p \in R, NEW q \in R, p < q
       PROVE  \/ \E c \in Children(t, d) : p \in c.lo .. c.hi /\ q \in c.lo .. c.hi
              \/ ~KeyLess(a[q].key, a[p].key, t.key)
  <2>1. PICK i : Line(p, i)
    BY <1>4
  <2>2. PICK j : Line(q, j)
    BY <1>4
  <2>3. i \in R /\ j \in R /\ i # j /\ GoesBefore(t, d, i, j)
    <3>1. Target(t, d, i) < Target(t, d, j)
      BY <1>10, <2>1, <2>2
    <3>2. i # j
      BY <1>1, <1>10, <2>1, <2>2
    <3> QED BY <2>1, <2>2, <3>1, <3>2, Targets
  <2>4. b(i) \in Nat /\ b(j) \in Nat /\ items[i].key \in Lines /\ items[j].key \in Lines
    BY <1>1, <2>3
  <2>5. CASE b(i) = b(j) /\ b(i) # 0
    <3>1. \E c \in Children(t, d) : Target(t, d, i) \in c.lo .. c.hi /\ Target(t, d, j) \in c.lo .. c.hi
      BY <2>3, <2>5, ChildOfTwo DEF b
    <3> QED BY <2>1, <2>2, <3>1
  <2>6. CASE b(i) = b(j) /\ b(i) = 0
    <3>1. KeyOf(items[i].key, t.key) = KeyOf(items[j].key, t.key)
      BY <2>3, <2>6, DivisibleIs DEF b
    <3>2. ~KeyLess(items[j].key, items[i].key, t.key)
      BY <1>1, <1>2, <2>4, <3>1, KeyOrder
    <3> QED BY <2>1, <2>2, <3>2
  <2>7. CASE b(i) # b(j)
    <3> DEFINE x == KeyOf(items[i].key, t.key)
               y == KeyOf(items[j].key, t.key)
    <3>1. (b(i) < b(j)) = ~options.keys[t.key].reverse
      BY <2>3, <2>7 DEF GoesBefore, b
    <3>2. (b(i) < b(j) => BytesLess(x, y)) /\ (b(j) < b(i) => BytesLess(y, x))
      BY <2>3, DivisibleIs DEF b
    <3>3. KeyLess(items[i].key, items[j].key, t.key)
      <4>1. CASE options.keys[t.key].reverse
        <5>1. b(j) < b(i)
          BY <2>4, <2>7, <3>1, <4>1
        <5> QED BY <3>2, <4>1, <5>1 DEF KeyLess
      <4>2. CASE ~options.keys[t.key].reverse
        <5>1. b(i) < b(j)
          BY <3>1, <4>2
        <5> QED BY <3>2, <4>2, <5>1 DEF KeyLess
      <4> QED BY <1>1, <4>1, <4>2
    <3>4. ~KeyLess(items[j].key, items[i].key, t.key)
      BY <1>1, <1>2, <2>4, <3>3, KeyOrder
    <3> QED BY <2>1, <2>2, <3>4
  <2> QED BY <2>5, <2>6, <2>7
<1>11. ASSUME Forward, NEW p \in R, NEW q \in R, p < q,
              SameKeys(a[p].key, a[q].key, Len(options.keys))
       PROVE  a[p].pos < a[q].pos
  <2>1. PICK i : Line(p, i)
    BY <1>4
  <2>2. PICK j : Line(q, j)
    BY <1>4
  <2>3. i \in R /\ j \in R /\ i # j /\ GoesBefore(t, d, i, j)
    <3>1. Target(t, d, i) < Target(t, d, j)
      BY <1>11, <2>1, <2>2
    <3>2. i # j
      BY <1>1, <1>11, <2>1, <2>2
    <3> QED BY <2>1, <2>2, <3>1, <3>2, Targets
  <2>4. SameKeys(items[i].key, items[j].key, Len(options.keys))
    BY <1>11, <2>1, <2>2
  <2>5. KeyOf(items[i].key, t.key) = KeyOf(items[j].key, t.key)
    BY <1>1, <1>2, <2>4, OptionsOK DEF SameKeys
  <2>6. b(i) = b(j)
    <3>1. i \in t.lo .. t.hi /\ j \in t.lo .. t.hi
      BY <2>3
    <3> QED BY <3>1, <2>5, DivisibleIs, ZenonT(30) DEF b
  <2>7. i < j
    BY <2>3, <2>6 DEF GoesBefore, b
  <2>8. i \in 1 .. Len(items) /\ j \in 1 .. Len(items)
    BY <1>1, <2>3
  <2>9. items[i].pos < items[j].pos
    BY <1>11, <2>4, <2>7, <2>8 DEF Ties, TiesWithin
  <2> QED BY <2>1, <2>2, <2>9
<1>12. ScatteredOK(items, a, t2)
  <2>1. \A c : Within(BlockOf(c)) = c.lo .. c.hi
    BY DEF Within, BlockOf
  <2>2. Forward => TiesWithin(a, t.lo, t.hi)
    BY <1>11 DEF TiesWithin
  <2>3. t2.lo = t.lo /\ t2.hi = t.hi /\ t2.key = t.key /\ t2.children = Children(t, d)
    BY <1>5
  <2>4. \A n \in t2.lo .. t2.hi : \E i \in t2.lo .. t2.hi : a[n] = items[i]
    BY <1>6, <2>3
  <2>5. \A m, n \in t2.lo .. t2.hi : m # n => a[m] # a[n]
    BY <1>7, <2>3
  <2>6. /\ \A c \in t2.children : KidOK(a, t2, c)
        /\ \A c, f \in t2.children : c # f => Within(BlockOf(c)) \cap Within(BlockOf(f)) = {}
    BY <1>8, <1>9, <2>3, Zenon
  <2>7. \A p, q \in t2.lo .. t2.hi :
          p < q => \/ \E c \in t2.children : p \in Within(BlockOf(c)) /\ q \in Within(BlockOf(c))
                   \/ ~KeyLess(a[q].key, a[p].key, t2.key)
    BY <1>10, <2>1, <2>3
  <2>8. Forward => TiesWithin(a, t2.lo, t2.hi)
    BY <2>2, <2>3
  <2> HIDE DEF R
  <2> QED BY <2>4, <2>5, <2>6, <2>7, <2>8, Zenon DEF ScatteredOK
<1>13. t2 \in RangeType /\ t2.key = t.key /\ t2.key \in KeyIds /\ t2.depth <= DepthLimit
  BY <1>1, <1>2, <1>5
<1> QED BY <1>5, <1>12, <1>13 DEF RangeOK, t2

-----------------------------------------------------------------------------
(***************************************************************************)
(* The options and the input do not change                                 *)
(***************************************************************************)

LEMMA OrderFrame ==
  ASSUME UNCHANGED sort_vars
  PROVE  /\ options' = options /\ given' = given /\ KeyIds' = KeyIds /\ (Chosen' <=> Chosen)
         /\ \A l, k : KeyOf(l, k)' = KeyOf(l, k)
         /\ \A i, k : KeyBytes(i, k)' = KeyBytes(i, k)
         /\ \A l, m, k : KeyLess(l, m, k)' <=> KeyLess(l, m, k)
         /\ \A l, m, k : SameKeys(l, m, k)' <=> SameKeys(l, m, k)
         /\ \A l, m, k : AtKey(l, m, k)' <=> AtKey(l, m, k)
         /\ \A l, m : LineLess(l, m)' <=> LineLess(l, m)
         /\ Forward' <=> Forward
<1>1. options' = options /\ given' = given
  BY DEF sort_vars
<1>2. KeyIds' = KeyIds /\ (Chosen' <=> Chosen)
  BY <1>1 DEF KeyIds, Chosen
<1>3. \A l, k : KeyOf(l, k)' = KeyOf(l, k)
  BY <1>1 DEF KeyOf
<1>4. \A i, k : KeyBytes(i, k)' = KeyBytes(i, k)
  BY <1>3 DEF KeyBytes
<1>5. \A l, m, k : KeyLess(l, m, k)' <=> KeyLess(l, m, k)
  BY <1>1, <1>3 DEF KeyLess
<1>6. \A l, m, k : SameKeys(l, m, k)' <=> SameKeys(l, m, k)
  BY <1>3 DEF SameKeys
<1>7. \A l, m, k : AtKey(l, m, k)' <=> AtKey(l, m, k)
  BY <1>1, <1>5 DEF AtKey
<1>8. \A l, m : LineLess(l, m)' <=> LineLess(l, m)
  BY <1>1, <1>2, <1>5, <1>6, Zenon DEF LineLess
<1>9. Forward' <=> Forward
  BY <1>1, <1>2 DEF Forward
<1> QED BY <1>1, <1>2, <1>3, <1>4, <1>5, <1>6, <1>7, <1>8, <1>9, Zenon

LEMMA SortedFrame ==
  ASSUME UNCHANGED sort_vars, NEW s, NEW B, NEW c
  PROVE  Sorted(s, B, c)' <=> Sorted(s, B, c)
<1>1. \A i, j, m : After(s, i, j, m)' <=> After(s, i, j, m)
  BY OrderFrame, Zenon DEF After
<1>2. \A m : InOrder(s, m)' <=> InOrder(s, m)
  BY <1>1, Zenon DEF InOrder
<1>3. Across(s, B, c)' <=> Across(s, B, c)
  BY <1>1, Zenon DEF Across
<1>4. \A b : Alike(s, b, c)' <=> Alike(s, b, c)
  BY OrderFrame, Zenon DEF Alike
<1> QED BY <1>2, <1>3, <1>4, Zenon DEF Sorted

LEMMA TiesFrame ==
  ASSUME UNCHANGED sort_vars, NEW s
  PROVE  /\ \A lo, hi : TiesWithin(s, lo, hi)' <=> TiesWithin(s, lo, hi)
         /\ Ties(s)' <=> Ties(s)
<1>1. options' = options
  BY OrderFrame
<1>2. \A lo, hi : TiesWithin(s, lo, hi)' <=> TiesWithin(s, lo, hi)
  BY <1>1, OrderFrame, Zenon DEF TiesWithin
<1> QED BY <1>2, Zenon DEF Ties

LEMMA RangeFrame ==
  ASSUME UNCHANGED sort_vars, NEW s, NEW a, NEW c, NEW t
  PROVE  RangeOK(s, a, c, t)' <=> RangeOK(s, a, c, t)
<1>1. \A x, lo, hi, k, d : AgreeTo(x, lo, hi, k, d)' <=> AgreeTo(x, lo, hi, k, d)
  BY OrderFrame, ZenonT(40) DEF AgreeTo
<1>2. \A e : KidOK(a, t, e)' <=> KidOK(a, t, e)
  BY <1>1, Zenon DEF KidOK
<1>3. /\ \A l, m, k : KeyLess(l, m, k)' <=> KeyLess(l, m, k)
      /\ Forward' <=> Forward
      /\ KeyIds' = KeyIds
      /\ \A lo, hi : TiesWithin(a, lo, hi)' <=> TiesWithin(a, lo, hi)
  BY OrderFrame, TiesFrame
<1>4. ScatteredOK(s, a, t)' <=> ScatteredOK(s, a, t)
  BY <1>2, <1>3, Zenon DEF ScatteredOK
<1> QED BY <1>1, <1>3, <1>4, Zenon DEF RangeOK

LEMMA FinishedFrame ==
  ASSUME UNCHANGED sort_vars, NEW s
  PROVE  Finished(s)' <=> Finished(s)
<1>1. options' = options
  BY OrderFrame
<1> QED BY <1>1, OrderFrame, TiesFrame, Zenon DEF Finished

LEMMA HoldsNext ==
  ASSUME UNCHANGED sort_vars, NEW p, NEW s, NEW a, NEW P, NEW G, NEW c, NEW r,
         pc' = p, items' = s, aux' = a, pending' = P, groups' = G, key' = c, reversed' = r,
         Holds(p, s, a, P, G, c, r)
  PROVE  KInv'
<1>1. options' = options /\ given' = given /\ KeyIds' = KeyIds /\ (Chosen' <=> Chosen) /\ (Forward' <=> Forward)
  BY OrderFrame
<1>2. Types(p, s, a, c, r)'
  BY <1>1, Zenon DEF Holds, Types
<1>3. Kept(s)'
  BY <1>1, Zenon DEF Holds, Kept
<1>4. Phase(p, P, G, c, r)'
  BY <1>1, Zenon DEF Holds, Phase
<1>5. Working(p) => /\ BlocksApart(Len(s), P, G)'
                    /\ Sorted(s, Blocks(P, G), Cur(p, c))'
                    /\ \A t \in P : RangeOK(s, a, Cur(p, c), t)'
  <2> DEFINE B == Blocks(P, G)
             m == Cur(p, c)
  <2>1. Working(p) => BlocksApart(Len(s), P, G) /\ Sorted(s, B, m) /\ \A t \in P : RangeOK(s, a, m, t)
    BY Zenon DEF Holds
  <2> HIDE DEF B, m
  <2>2. Sorted(s, B, m)' <=> Sorted(s, B, m)
    BY SortedFrame
  <2>3. \A t : RangeOK(s, a, m, t)' <=> RangeOK(s, a, m, t)
    BY RangeFrame
  <2>4. Working(p) => Sorted(s, B, m)' /\ \A t \in P : RangeOK(s, a, m, t)'
    BY <2>1, <2>2, <2>3, Zenon
  <2>5. Working(p) => BlocksApart(Len(s), P, G)'
    BY <2>1, Zenon
  <2> QED BY <2>4, <2>5, Zenon DEF B, m
<1>6. Forward' /\ p \in {"start", "radix", "groups"} => Ties(s)'
  BY <1>1, TiesFrame, Zenon DEF Holds
<1>7. p = "done" => Finished(Out(s, r))'
  <2> DEFINE o == Out(s, r)
  <2>1. p = "done" => Finished(o)
    BY Zenon DEF Holds
  <2> HIDE DEF o
  <2>2. Finished(o)' <=> Finished(o)
    BY FinishedFrame
  <2>3. p = "done" => Finished(o)'
    BY <2>1, <2>2
  <2> QED BY <2>3, Zenon DEF o
<1>8. Holds(p, s, a, P, G, c, r)'
  BY <1>2, <1>3, <1>4, <1>5, <1>6, <1>7, Zenon DEF Holds
<1> QED BY <1>8 DEF KInv

-----------------------------------------------------------------------------
(***************************************************************************)
(* What a step leaves as it was                                            *)
(***************************************************************************)

LEMMA KeptMoved ==
  ASSUME NEW s \in Seq(Item), Kept(s), NEW s2, NEW lo \in 1 .. Len(s), NEW hi \in 1 .. Len(s),
         Moved(s, s2, lo, hi)
  PROVE  Kept(s2)
<1>1. Distinct(s2) /\ Len(s2) = Len(s)
  BY DEF Kept, Moved
<1>2. ASSUME NEW i \in 1 .. Len(s)
      PROVE  s2[i].pos \in 1 .. Len(given) /\ s2[i].key = given[s2[i].pos]
  <2>1. PICK p \in 1 .. Len(s) : s2[i] = s[p]
    BY MovedFrom
  <2> QED BY <2>1 DEF Kept
<1> QED BY <1>1, <1>2 DEF Kept

\* A range whose lines nobody touches.
LEMMA RangeElsewhere ==
  ASSUME NEW s, NEW a, NEW c, NEW t, RangeOK(s, a, c, t), NEW s2, NEW a2,
         \A p \in t.lo .. t.hi : s2[p] = s[p] /\ a2[p] = a[p]
  PROVE  RangeOK(s2, a2, c, t)
<1>1. t.lo \in Nat /\ t.hi \in Nat /\ \A e \in t.children : e.lo \in Nat /\ e.hi \in Nat
  BY DEF RangeOK, RangeType, Kid
<1>2. ~t.scattered => AgreeTo(s2, t.lo, t.hi, t.key, t.depth)
  BY DEF RangeOK, AgreeTo
<1>3. ASSUME t.scattered PROVE ScatteredOK(s2, a2, t)
  <2>1. ScatteredOK(s, a, t)
    BY <1>3 DEF RangeOK
  <2>2. ASSUME NEW e \in t.children PROVE KidOK(a2, t, e)
    <3>1. KidOK(a, t, e)
      BY <2>1 DEF ScatteredOK
    <3>2. t.lo <= e.lo /\ e.lo <= e.hi /\ e.hi <= t.hi
      BY <3>1 DEF KidOK
    <3>3. \A p \in e.lo .. e.hi : a2[p] = a[p]
      <4>1. \A p \in e.lo .. e.hi : p \in t.lo .. t.hi
        BY <1>1, <3>2
      <4> QED BY <4>1
    <3>4. AgreeTo(a2, e.lo, e.hi, t.key, e.depth)
      BY <3>1, <3>3 DEF KidOK, AgreeTo
    <3> QED BY <3>1, <3>4 DEF KidOK
  <2>3. \A n \in t.lo .. t.hi : \E i \in t.lo .. t.hi : a2[n] = s2[i]
    BY <2>1, Zenon DEF ScatteredOK
  <2>4. \A m, n \in t.lo .. t.hi : m # n => a2[m] # a2[n]
    BY <2>1, Zenon DEF ScatteredOK
  <2>5. \A i, j \in t.lo .. t.hi :
          i < j => \/ \E e \in t.children : i \in Within(BlockOf(e)) /\ j \in Within(BlockOf(e))
                   \/ ~KeyLess(a2[j].key, a2[i].key, t.key)
    BY <2>1, Zenon DEF ScatteredOK
  <2>6. Forward => TiesWithin(a2, t.lo, t.hi)
    BY <2>1, Zenon DEF ScatteredOK, TiesWithin
  <2>7. \A e, d \in t.children : e # d => Within(BlockOf(e)) \cap Within(BlockOf(d)) = {}
    BY <2>1, Zenon DEF ScatteredOK
  <2> QED BY <2>2, <2>3, <2>4, <2>5, <2>6, <2>7, Zenon DEF ScatteredOK
<1> QED BY <1>2, <1>3, Zenon DEF RangeOK

\* Block b of B is by itself.
Alone(b, B) == b \in B /\ \A e \in B : e = b \/ Within(e) \cap Within(b) = {}

LEMMA BlocksAlone ==
  ASSUME NEW n, NEW P, NEW G, BlocksApart(n, P, G), NEW b \in Blocks(P, G)
  PROVE  Alone(b, Blocks(P, G))
<1> SUFFICES ASSUME NEW e \in Blocks(P, G), e # b PROVE Within(e) \cap Within(b) = {}
  BY DEF Alone
<1>1. CASE b \in G /\ e \in G
  BY <1>1 DEF BlocksApart
<1>2. CASE b \in G /\ e \notin G
  <2>1. PICK t \in P : e = BlockOf(t)
    BY <1>2 DEF Blocks
  <2> QED BY <1>2, <2>1 DEF BlocksApart
<1>3. CASE b \notin G /\ e \in G
  <2>1. PICK t \in P : b = BlockOf(t)
    BY <1>3 DEF Blocks
  <2> QED BY <1>3, <2>1 DEF BlocksApart
<1>4. CASE b \notin G /\ e \notin G
  <2>1. PICK t \in P : b = BlockOf(t)
    BY <1>4 DEF Blocks
  <2>2. PICK u \in P : e = BlockOf(u)
    BY <1>4 DEF Blocks
  <2> QED BY <2>1, <2>2 DEF BlocksApart
<1> QED BY <1>1, <1>2, <1>3, <1>4

\* Block lo .. hi makes way for the blocks of B2 inside it.
Replaced(B, B2, lo, hi) ==
  /\ \A b \in B : b = <<lo, hi>> \/ b \in B2
  /\ \A b \in B2 : b \in B \/ Within(b) \subseteq lo .. hi

\* A block whose lines are put in order, up to smaller blocks.
LEMMA SortedLess ==
  ASSUME Chosen, NEW s \in Seq(Item), NEW s2, NEW B, NEW B2, NEW c \in 1 .. Len(options.keys) + 1,
         NEW lo \in 1 .. Len(s), NEW hi \in 1 .. Len(s),
         Sorted(s, B, c), Alone(<<lo, hi>>, B), \A b \in B : Within(b) \subseteq 1 .. Len(s),
         Moved(s, s2, lo, hi), Replaced(B, B2, lo, hi),
         \A i, j \in lo .. hi : i < j => InBlock(B2, i, j) \/ ~AtKey(s2[j].key, s2[i].key, c)
  PROVE  Sorted(s2, B2, c)
<1>1. Within(<<lo, hi>>) = lo .. hi
  BY DEF Within
<1>2. <<lo, hi>> \in B /\ \A b \in B : b = <<lo, hi>> \/ Within(b) \cap lo .. hi = {}
  BY <1>1 DEF Alone
<1>3. Alike(s, <<lo, hi>>, c)
  BY <1>2 DEF Sorted
<1>4. \A m \in 1 .. c - 1 : InOrder(s2, m)
  BY <1>3, MovedInOrder DEF Sorted
<1>5. Across(s2, B, c)
  BY <1>2, MovedAcross DEF Sorted
<1>6. Across(s2, B2, c)
  <2> SUFFICES ASSUME NEW i \in 1 .. Len(s2), NEW j \in 1 .. Len(s2), i < j, InBlock(B, i, j)
               PROVE  InBlock(B2, i, j) \/ After(s2, i, j, c)
    BY <1>5, AcrossLess
  <2>1. PICK b \in B : i \in Within(b) /\ j \in Within(b)
    BY DEF InBlock
  <2>2. CASE b = <<lo, hi>>
    <3>1. i \in lo .. hi /\ j \in lo .. hi
      BY <1>1, <2>1, <2>2
    <3> QED BY <3>1 DEF After
  <2>3. CASE b # <<lo, hi>>
    <3>1. b \in B2
      BY <2>3 DEF Replaced
    <3> QED BY <2>1, <3>1 DEF InBlock
  <2> QED BY <2>2, <2>3
<1>7. \A b \in B : Alike(s2, b, c)
  <2> SUFFICES ASSUME NEW b \in B PROVE Alike(s2, b, c)
    OBVIOUS
  <2>1. Alike(s, b, c) /\ Within(b) \subseteq 1 .. Len(s)
    BY DEF Sorted
  <2>2. Within(b) \cap lo .. hi = {} \/ lo .. hi \subseteq Within(b)
    BY <1>1, <1>2
  <2> QED BY <2>1, <2>2, MovedAlike
<1>8. ASSUME NEW b \in B2 PROVE Alike(s2, b, c)
  <2>1. CASE b \in B
    BY <1>7, <2>1
  <2>2. CASE Within(b) \subseteq lo .. hi
    <3>1. Alike(s2, <<lo, hi>>, c)
      BY <1>2, <1>7
    <3> QED BY <1>1, <2>2, <3>1 DEF Alike
  <2> QED BY <2>1, <2>2 DEF Replaced
<1> QED BY <1>4, <1>6, <1>8 DEF Sorted

\* Range t makes way for ranges inside it.
LEMMA ApartLess ==
  ASSUME NEW n \in Nat, NEW P, NEW G, BlocksApart(n, P, G), NEW t \in P, NEW C,
         t.lo \in Nat, t.hi \in Nat,
         \A c \in C : c.lo \in Nat /\ c.hi \in Nat /\ t.lo <= c.lo /\ c.lo <= c.hi /\ c.hi <= t.hi,
         \A c, d \in C : c # d => Within(BlockOf(c)) \cap Within(BlockOf(d)) = {}
  PROVE  /\ BlocksApart(n, (P \ {t}) \cup C, G)
         /\ Replaced(Blocks(P, G), Blocks((P \ {t}) \cup C, G), t.lo, t.hi)
<1> DEFINE Q == (P \ {t}) \cup C
<1>1. \A u : Within(BlockOf(u)) = u.lo .. u.hi /\ BlockOf(u)[1] = u.lo /\ BlockOf(u)[2] = u.hi
  BY DEF Within, BlockOf
<1>2. /\ t.lo \in 1 .. n /\ t.hi \in 1 .. n /\ t.lo <= t.hi
  <2>1. BlockOf(t) \in Blocks(P, G)
    BY DEF Blocks
  <2> QED BY <1>1, <2>1 DEF BlocksApart
<1>3. \A c \in C : Within(BlockOf(c)) \subseteq Within(BlockOf(t)) /\ c.lo \in 1 .. n /\ c.hi \in 1 .. n /\ c.lo <= c.hi
  BY <1>1, <1>2
<1>4. \A b \in Blocks(Q, G) : b \in Blocks(P, G) \/ \E c \in C : b = BlockOf(c)
  BY DEF Blocks
<1>5. \A b \in Blocks(Q, G) : b[1] \in 1 .. n /\ b[2] \in 1 .. n /\ b[1] <= b[2]
  BY <1>1, <1>3, <1>4 DEF BlocksApart
<1>6. ASSUME NEW u \in Q, NEW v \in Q, u # v PROVE Within(BlockOf(u)) \cap Within(BlockOf(v)) = {}
  <2>1. CASE u \in C /\ v \in C
    BY <1>6, <2>1
  <2>2. CASE u \in C /\ v \notin C
    <3>1. v \in P /\ v # t
      BY <2>2
    <3>2. Within(BlockOf(t)) \cap Within(BlockOf(v)) = {}
      BY <3>1 DEF BlocksApart
    <3> QED BY <1>3, <2>2, <3>2
  <2>3. CASE u \notin C /\ v \in C
    <3>1. u \in P /\ u # t
      BY <2>3
    <3>2. Within(BlockOf(u)) \cap Within(BlockOf(t)) = {}
      BY <3>1 DEF BlocksApart
    <3> QED BY <1>3, <2>3, <3>2
  <2>4. CASE u \notin C /\ v \notin C
    BY <1>6, <2>4 DEF BlocksApart
  <2> QED BY <2>1, <2>2, <2>3, <2>4
<1>7. ASSUME NEW u \in Q, NEW g \in G PROVE Within(BlockOf(u)) \cap Within(g) = {}
  <2>1. Within(BlockOf(t)) \cap Within(g) = {}
    BY DEF BlocksApart
  <2>2. CASE u \in C
    BY <1>3, <2>1, <2>2
  <2>3. CASE u \notin C
    BY <2>3 DEF BlocksApart
  <2> QED BY <2>2, <2>3
<1>8. BlocksApart(n, Q, G)
  BY <1>5, <1>6, <1>7, Zenon DEF BlocksApart
<1>9. Replaced(Blocks(P, G), Blocks(Q, G), t.lo, t.hi)
  <2>1. ASSUME NEW b \in Blocks(P, G), b # <<t.lo, t.hi>> PROVE b \in Blocks(Q, G)
    <3>1. CASE b \in G
      BY <3>1 DEF Blocks
    <3>2. CASE b \notin G
      <4>1. PICK u \in P : b = BlockOf(u)
        BY <3>2 DEF Blocks
      <4>2. u # t
        BY <2>1, <4>1 DEF BlockOf
      <4> QED BY <4>1, <4>2 DEF Blocks
    <3> QED BY <3>1, <3>2
  <2>2. ASSUME NEW b \in Blocks(Q, G), b \notin Blocks(P, G) PROVE Within(b) \subseteq t.lo .. t.hi
    <3>1. PICK c \in C : b = BlockOf(c)
      BY <1>4, <2>2
    <3> QED BY <1>1, <1>3, <3>1
  <2> QED BY <2>1, <2>2 DEF Replaced
<1> QED BY <1>8, <1>9

-----------------------------------------------------------------------------
(***************************************************************************)
(* The steps of key_radix_range                                            *)
(***************************************************************************)

LEMMA RadixFacts ==
  ASSUME KInv, pc = "radix", NEW t \in pending
  PROVE  /\ Chosen /\ items \in Seq(Item) /\ aux \in Seq(Item) /\ Len(aux) = Len(items)
         /\ key \in KeyIds /\ Kept(items) /\ Distinct(items) /\ groups = {} /\ ~reversed
         /\ Len(items) \in Nat /\ Len(items) = Len(given) /\ reversed \in BOOLEAN
         /\ BlocksApart(Len(items), pending, groups)
         /\ Sorted(items, Blocks(pending, groups), key)
         /\ \A u \in pending : RangeOK(items, aux, key, u)
         /\ t.lo \in 1 .. Len(items) /\ t.hi \in 1 .. Len(items) /\ t.lo <= t.hi
         /\ t.lo \in Nat /\ t.hi \in Nat
         /\ Alone(<<t.lo, t.hi>>, Blocks(pending, groups))
         /\ \A b \in Blocks(pending, groups) : Within(b) \subseteq 1 .. Len(items)
         /\ \A u \in pending : u # t => u.lo .. u.hi \cap t.lo .. t.hi = {}
         /\ Forward => Ties(items)
         /\ ~t.scattered => Sound(t)
<1>1. /\ Chosen /\ items \in Seq(Item) /\ aux \in Seq(Item) /\ Len(aux) = Len(items)
      /\ key \in KeyIds /\ Len(items) = Len(given) /\ reversed \in BOOLEAN
  BY DEF KInv, Holds, Types
<1>2. Kept(items) /\ Distinct(items)
  BY DEF KInv, Holds, Kept
<1>3. groups = {} /\ ~reversed
  BY DEF KInv, Holds, Phase
<1>4. /\ BlocksApart(Len(items), pending, groups)
      /\ Sorted(items, Blocks(pending, groups), key)
      /\ \A u \in pending : RangeOK(items, aux, key, u)
  BY DEF KInv, Holds, Working, Cur
<1>5. Forward => Ties(items)
  BY DEF KInv, Holds
<1>6. \A b \in Blocks(pending, groups) : b[1] \in 1 .. Len(items) /\ b[2] \in 1 .. Len(items) /\ b[1] <= b[2]
  BY <1>4 DEF BlocksApart
<1>7. Len(items) \in Nat
  BY <1>1
<1>8. /\ BlockOf(t) \in Blocks(pending, groups) /\ BlockOf(t) = <<t.lo, t.hi>>
      /\ BlockOf(t)[1] = t.lo /\ BlockOf(t)[2] = t.hi
  BY DEF Blocks, BlockOf
<1>9. /\ t.lo \in 1 .. Len(items) /\ t.hi \in 1 .. Len(items) /\ t.lo <= t.hi
      /\ t.lo \in Nat /\ t.hi \in Nat
  BY <1>6, <1>7, <1>8
<1>10. Alone(<<t.lo, t.hi>>, Blocks(pending, groups))
  <2>1. Alone(BlockOf(t), Blocks(pending, groups))
    BY <1>4, <1>8, BlocksAlone
  <2> QED BY <1>8, <2>1
<1>11. \A b \in Blocks(pending, groups) : Within(b) \subseteq 1 .. Len(items)
  BY <1>6, <1>7 DEF Within
<1>12. \A u \in pending : u # t => u.lo .. u.hi \cap t.lo .. t.hi = {}
  BY <1>4 DEF BlocksApart, Within, BlockOf
<1>13. ~t.scattered => Sound(t)
  BY <1>4, <1>9, Zenon DEF RangeOK, Sound
<1> QED BY <1>1, <1>2, <1>3, <1>4, <1>5, <1>7, <1>9, <1>10, <1>11, <1>12, <1>13, Zenon

\* What has to be shown of a step of key_radix_range.
LEMMA RadixHolds ==
  ASSUME KInv, pc = "radix", NEW s, NEW a, NEW P, s \in Seq(Item), a \in Seq(Item),
         Len(s) = Len(items), Len(a) = Len(items), Kept(s),
         BlocksApart(Len(s), P, {}), Sorted(s, Blocks(P, {}), key),
         \A t \in P : RangeOK(s, a, key, t), Forward => Ties(s)
  PROVE  Holds("radix", s, a, P, {}, key, reversed)
<1>1. Types("radix", s, a, key, reversed)
  BY DEF KInv, Holds, Types
<1>2. Phase("radix", P, {}, key, reversed)
  BY DEF KInv, Holds, Phase, Working
<1>3. Cur("radix", key) = key
  BY DEF Cur
<1> QED BY <1>1, <1>2, <1>3, Zenon DEF Holds

LEMMA ScatterStep ==
  ASSUME KInv, NEW t \in pending, Scatter(t)
  PROVE  KInv'
<1> DEFINE d == SkipCommonPrefix(t)
           t2 == [t EXCEPT !.scattered = TRUE, !.children = Children(t, d)]
           a == Splice(aux, t.lo, PartOf(t, d))
           P == (pending \ {t}) \cup {t2}
           B == Blocks(pending, groups)
<1>1. pc = "radix" /\ ~t.scattered
  BY DEF Scatter
<1>2. /\ d < DepthLimit /\ aux' = a /\ pending' = P
      /\ UNCHANGED <<pc, sort_vars, items, key, groups, reversed>>
  BY Zenon DEF Scatter, PartOf
<1>3. /\ Chosen /\ items \in Seq(Item) /\ aux \in Seq(Item) /\ Len(aux) = Len(items)
      /\ key \in KeyIds /\ Kept(items) /\ Distinct(items) /\ groups = {} /\ Len(items) \in Nat
      /\ BlocksApart(Len(items), pending, groups) /\ Sorted(items, B, key)
      /\ \A u \in pending : RangeOK(items, aux, key, u)
      /\ t.lo \in 1 .. Len(items) /\ t.hi \in 1 .. Len(items) /\ t.lo <= t.hi
      /\ t.lo \in Nat /\ t.hi \in Nat
      /\ \A u \in pending : u # t => u.lo .. u.hi \cap t.lo .. t.hi = {}
      /\ Forward => Ties(items)
      /\ Sound(t)
  BY <1>1, RadixFacts
<1>4. Divisible(t, d)
  <2>1. /\ d \in t.depth .. DepthLimit
        /\ AgreeTo(items, t.lo, t.hi, t.key, d) \/ (AllEqual(items, t.lo, t.hi, t.key) /\ d = DepthLimit)
    BY <1>3, SkippedPrefix
  <2>2. t.depth \in Nat /\ DepthLimit \in Nat
    BY <1>3, ConstantsAssumption DEF Sound, RangeType
  <2> HIDE DEF d
  <2>3. d \in t.depth .. DepthLimit - 1 /\ AgreeTo(items, t.lo, t.hi, t.key, d)
    BY <1>2, <2>1, <2>2
  <2> QED BY <1>3, <2>3 DEF Divisible
<1> HIDE DEF d
<1>5. /\ a \in Seq(Item) /\ Len(a) = Len(items)
      /\ \A p \in 1 .. Len(items) : p \notin t.lo .. t.hi => a[p] = aux[p]
      /\ \A p \in t.lo .. t.hi : \E i \in t.lo .. t.hi : Target(t, d, i) = p /\ a[p] = items[i]
  <2>1. aux \in Seq(Item) /\ Len(aux) = Len(items)
    BY <1>3
  <2>2. InPlace(a, aux, t, d)
    BY <1>4, <2>1, ScatteredIs
  <2> HIDE DEF a
  <2> QED BY <2>2, Zenon DEF InPlace
<1> HIDE DEF a
<1>6. t.key = key /\ t \in RangeType
  BY <1>3 DEF RangeOK
<1>7. RangeOK(items, a, key, t2)
  <2>1. RangeOK(items, a, t.key, t2)
    BY <1>3, <1>4, <1>5, ScatteredRange
  <2> QED BY <1>6, <2>1
<1>8. t2.lo = t.lo /\ t2.hi = t.hi
  BY <1>6 DEF RangeType
<1> HIDE DEF t2
<1>9. BlocksApart(Len(items), P, groups)
  <2> DEFINE C == {t2}
  <2>1. \A c \in C : c.lo \in Nat /\ c.hi \in Nat /\ t.lo <= c.lo /\ c.lo <= c.hi /\ c.hi <= t.hi
    BY <1>3, <1>8
  <2>2. \A c, e \in C : c # e => Within(BlockOf(c)) \cap Within(BlockOf(e)) = {}
    OBVIOUS
  <2> HIDE DEF C
  <2>3. BlocksApart(Len(items), (pending \ {t}) \cup C, groups)
    BY <1>3, <2>1, <2>2, ApartLess
  <2> QED BY <2>3 DEF C
<1>10. Blocks(P, groups) = B
  <2>1. BlockOf(t2) = BlockOf(t)
    BY <1>8 DEF BlockOf
  <2> QED BY <2>1 DEF Blocks
<1>11. ASSUME NEW u \in P PROVE RangeOK(items, a, key, u)
  <2>1. CASE u = t2
    BY <1>7, <2>1
  <2>2. CASE u # t2
    <3>1. u \in pending /\ u # t
      BY <2>2
    <3>2. RangeOK(items, aux, key, u) /\ u.lo .. u.hi \cap t.lo .. t.hi = {}
      BY <1>3, <3>1
    <3>3. u.lo .. u.hi \subseteq 1 .. Len(items)
      <4>1. u.lo \in 1 .. Len(items) /\ u.hi \in 1 .. Len(items)
        BY <1>1, <3>1, RadixFacts
      <4> QED BY <1>3, <4>1
    <3>4. \A p \in u.lo .. u.hi : items[p] = items[p] /\ a[p] = aux[p]
      BY <1>5, <3>2, <3>3
    <3> QED BY <3>2, <3>4, RangeElsewhere
  <2> QED BY <2>1, <2>2
<1>12. Holds("radix", items, a, P, {}, key, reversed)
  <2>1. BlocksApart(Len(items), P, {}) /\ Sorted(items, Blocks(P, {}), key)
    BY <1>3, <1>9, <1>10
  <2> HIDE DEF P
  <2> QED BY <1>1, <1>3, <1>5, <1>11, <2>1, RadixHolds
<1> HIDE DEF P
<1> QED BY <1>1, <1>2, <1>3, <1>12, HoldsNext

\* A range is put in order without mixing up lines with equal keys.
LEMMA TiesMoved ==
  ASSUME NEW s \in Seq(Item), NEW s2, NEW lo \in 1 .. Len(s), NEW hi \in 1 .. Len(s),
         Moved(s, s2, lo, hi), Ties(s), TiesWithin(s2, lo, hi)
  PROVE  Ties(s2)
<1> SUFFICES ASSUME NEW i \in 1 .. Len(s2), NEW j \in 1 .. Len(s2), i < j,
                    SameKeys(s2[i].key, s2[j].key, Len(options.keys))
             PROVE  s2[i].pos < s2[j].pos
  BY DEF Ties, TiesWithin
<1>1. i \in 1 .. Len(s) /\ j \in 1 .. Len(s)
  BY DEF Moved
<1>2. CASE i \in lo .. hi /\ j \in lo .. hi
  BY <1>2 DEF TiesWithin
<1>3. CASE ~(i \in lo .. hi /\ j \in lo .. hi)
  <2>1. PICK p, q \in 1 .. Len(s) : Origins(s, s2, lo, hi, i, j, p, q)
    BY <1>1, MovedPair, Zenon
  <2>2. s2[i] = s[p] /\ s2[j] = s[q] /\ p < q
    BY <1>3, <2>1, Zenon DEF Origins
  <2> QED BY <2>2 DEF Ties, TiesWithin
<1> QED BY <1>2, <1>3

\* A range is copied from the second array.
LEMMA CopiedIs ==
  ASSUME NEW s \in Seq(Item), NEW a \in Seq(Item), Len(a) = Len(s),
         NEW lo \in 1 .. Len(s), NEW hi \in 1 .. Len(s), lo <= hi,
         \A n \in lo .. hi : \E i \in lo .. hi : a[n] = s[i],
         \A m, n \in lo .. hi : m # n => a[m] # a[n]
  PROVE  /\ Moved(s, Splice(s, lo, SubSeq(a, lo, hi)), lo, hi)
         /\ \A p \in lo .. hi : Splice(s, lo, SubSeq(a, lo, hi))[p] = a[p]
<1> DEFINE part == SubSeq(a, lo, hi)
           size == hi - lo + 1
<1>1. /\ lo \in 1 .. Len(a) + 1 /\ hi \in 0 .. Len(a) /\ lo <= hi + 1
  OBVIOUS
<1>2. /\ part \in Seq(Item) /\ Len(part) = hi + 1 - lo
      /\ \A n \in 1 .. hi + 1 - lo : part[n] = a[lo + n - 1]
  BY <1>1, Part, SMTT(30)
<1>3. lo \in Nat /\ hi \in Nat /\ lo <= hi /\ size \in Nat /\ hi + 1 - lo = size
  OBVIOUS
<1>4. \A n \in 1 .. size : lo + n - 1 \in lo .. hi
  BY <1>3
<1>5. /\ part \in Seq(Item) /\ Len(part) = size
      /\ \A n \in 1 .. size : part[n] = a[lo + n - 1]
  <2> HIDE DEF part, size
  <2> QED BY <1>2, <1>3
<1> HIDE DEF part, size
<1>6. ASSUME NEW n \in 1 .. size PROVE \E i \in lo .. hi : part[n] = s[i]
  <2>1. part[n] = a[lo + n - 1]
    BY <1>5, Zenon
  <2>2. PICK i \in lo .. hi : a[lo + n - 1] = s[i]
    BY <1>4, Zenon
  <2> QED BY <2>1, <2>2
<1>7. ASSUME NEW m \in 1 .. size, NEW n \in 1 .. size, m # n PROVE part[m] # part[n]
  <2>1. lo + m - 1 # lo + n - 1
    BY <1>3, <1>7
  <2>2. a[lo + m - 1] # a[lo + n - 1]
    BY <1>4, <2>1, Zenon
  <2>3. part[m] = a[lo + m - 1] /\ part[n] = a[lo + n - 1]
    BY <1>5, Zenon
  <2> QED BY <2>2, <2>3
<1>8. /\ Moved(s, Splice(s, lo, part), lo, hi)
      /\ \A p \in lo .. hi : Splice(s, lo, part)[p] = part[p - lo + 1]
  <2>1. part \in Seq(Item) /\ Len(part) = hi - lo + 1
    BY <1>5 DEF size
  <2>2. Fills(part, s, lo, hi)
    BY <1>6, <1>7, <2>1, Zenon DEF Fills, size
  <2> QED BY <2>2, SpliceMoved
<1>9. ASSUME NEW p \in lo .. hi PROVE part[p - lo + 1] = a[p]
  <2>1. p - lo + 1 \in 1 .. size /\ lo + (p - lo + 1) - 1 = p
    BY <1>3 DEF size
  <2> QED BY <1>5, <2>1, Zenon
<1> QED BY <1>8, <1>9, Zenon DEF part

LEMMA CopyBackStep ==
  ASSUME KInv, NEW t \in pending, CopyBack(t)
  PROVE  KInv'
<1> DEFINE s == Splice(items, t.lo, SubSeq(aux, t.lo, t.hi))
           C == t.children
           P == (pending \ {t}) \cup C
           B == Blocks(pending, groups)
<1>1. /\ pc = "radix" /\ t.scattered /\ items' = s /\ pending' = P
      /\ UNCHANGED <<pc, sort_vars, aux, key, groups, reversed>>
  BY Zenon DEF CopyBack
<1>2. /\ Chosen /\ items \in Seq(Item) /\ aux \in Seq(Item) /\ Len(aux) = Len(items)
      /\ key \in KeyIds /\ Kept(items) /\ Distinct(items) /\ groups = {} /\ Len(items) \in Nat
      /\ BlocksApart(Len(items), pending, groups) /\ Sorted(items, B, key)
      /\ \A u \in pending : RangeOK(items, aux, key, u)
      /\ t.lo \in 1 .. Len(items) /\ t.hi \in 1 .. Len(items) /\ t.lo <= t.hi
      /\ t.lo \in Nat /\ t.hi \in Nat
      /\ Alone(<<t.lo, t.hi>>, B) /\ \A b \in B : Within(b) \subseteq 1 .. Len(items)
      /\ \A u \in pending : u # t => u.lo .. u.hi \cap t.lo .. t.hi = {}
      /\ Forward => Ties(items)
  BY <1>1, RadixFacts
<1>3. /\ ScatteredOK(items, aux, t) /\ t \in RangeType /\ t.key = key
  BY <1>1, <1>2 DEF RangeOK
<1>4. /\ \A n \in t.lo .. t.hi : \E i \in t.lo .. t.hi : aux[n] = items[i]
      /\ \A m, n \in t.lo .. t.hi : m # n => aux[m] # aux[n]
      /\ \A c \in C : KidOK(aux, t, c)
      /\ \A c, e \in C : c # e => Within(BlockOf(c)) \cap Within(BlockOf(e)) = {}
      /\ \A i, j \in t.lo .. t.hi :
           i < j => \/ \E c \in C : i \in Within(BlockOf(c)) /\ j \in Within(BlockOf(c))
                    \/ ~KeyLess(aux[j].key, aux[i].key, key)
      /\ Forward => TiesWithin(aux, t.lo, t.hi)
  BY <1>3, Zenon DEF ScatteredOK
<1>5a. /\ t.lo \in 1 .. Len(items) /\ t.hi \in 1 .. Len(items) /\ t.lo <= t.hi
      /\ t.lo \in Nat /\ t.hi \in Nat /\ Len(items) \in Nat
  BY <1>2
<1>5b. items \in Seq(Item) /\ aux \in Seq(Item) /\ Len(aux) = Len(items)
  BY <1>2
<1>5c. /\ \A n \in t.lo .. t.hi : \E i \in t.lo .. t.hi : aux[n] = items[i]
      /\ \A m, n \in t.lo .. t.hi : m # n => aux[m] # aux[n]
  BY <1>4
<1>6. /\ Moved(items, s, t.lo, t.hi)
      /\ \A p \in t.lo .. t.hi : s[p] = aux[p]
  BY <1>5a, <1>5b, <1>5c, CopiedIs
<1> HIDE DEF s
<1>7. s \in Seq(Item) /\ Len(s) = Len(items) /\ Kept(s)
      /\ \A p \in 1 .. Len(items) : p \notin t.lo .. t.hi => s[p] = items[p]
  <2>1. Kept(s)
    BY <1>2, <1>6, KeptMoved
  <2> QED BY <1>6, <2>1 DEF Moved
<1>8. ASSUME NEW c \in C
      PROVE  /\ c.lo \in Nat /\ c.hi \in Nat /\ t.lo <= c.lo /\ c.lo <= c.hi /\ c.hi <= t.hi
             /\ c \in RangeType /\ c.key = key /\ c.depth <= DepthLimit /\ ~c.scattered /\ c.children = {}
             /\ AgreeTo(aux, c.lo, c.hi, key, c.depth)
  <2>1. c \in Kid
    BY <1>3 DEF RangeType
  <2>2. /\ t.lo <= c.lo /\ c.lo <= c.hi /\ c.hi <= t.hi /\ c.key = t.key
        /\ c.depth \in t.depth + 1 .. DepthLimit /\ AgreeTo(aux, c.lo, c.hi, t.key, c.depth)
    BY <1>4 DEF KidOK
  <2>3. c \in RangeType /\ ~c.scattered /\ c.children = {} /\ c.lo \in Nat /\ c.hi \in Nat
    BY <2>1 DEF Kid, RangeType
  <2>4. c.depth <= DepthLimit
    BY <2>2, <1>3, ConstantsAssumption DEF RangeType
  <2> QED BY <1>3, <2>2, <2>3, <2>4
<1>9. /\ BlocksApart(Len(items), P, groups)
      /\ Replaced(B, Blocks(P, groups), t.lo, t.hi)
  <2>1. \A c \in C : c.lo \in Nat /\ c.hi \in Nat /\ t.lo <= c.lo /\ c.lo <= c.hi /\ c.hi <= t.hi
    BY <1>8
  <2> HIDE DEF C
  <2> QED BY <1>2, <1>4, <2>1, ApartLess
<1>10. Sorted(s, Blocks(P, groups), key)
  <2>1. key \in 1 .. Len(options.keys) + 1 /\ key <= Len(options.keys)
    BY <1>2, OptionsOK
  <2>2. ASSUME NEW i \in t.lo .. t.hi, NEW j \in t.lo .. t.hi, i < j
        PROVE  InBlock(Blocks(P, groups), i, j) \/ ~AtKey(s[j].key, s[i].key, key)
    <3>1. CASE \E c \in C : i \in Within(BlockOf(c)) /\ j \in Within(BlockOf(c))
      <4>1. \A c \in C : BlockOf(c) \in Blocks(P, groups)
        BY DEF Blocks
      <4> QED BY <3>1, <4>1, Zenon DEF InBlock
    <3>2. CASE ~KeyLess(aux[j].key, aux[i].key, key)
      <4>1. ~KeyLess(s[j].key, s[i].key, key)
        BY <1>6, <3>2
      <4> QED BY <2>1, <4>1 DEF AtKey
    <3> QED BY <1>4, <2>2, <3>1, <3>2
  <2> HIDE DEF B, P
  <2> QED BY <1>2, <1>6, <1>9, <2>1, <2>2, SortedLess
<1>11. ASSUME NEW u \in P PROVE RangeOK(s, aux, key, u)
  <2>1. CASE u \in C
    <3>1. AgreeTo(s, u.lo, u.hi, key, u.depth)
      <4>1. \A p \in u.lo .. u.hi : p \in t.lo .. t.hi
        <5>1. u.lo \in Nat /\ u.hi \in Nat /\ t.lo <= u.lo /\ u.hi <= t.hi
          BY <1>8, <2>1
        <5> QED BY <1>2, <5>1
      <4>2. AgreeTo(aux, u.lo, u.hi, key, u.depth)
        BY <1>8, <2>1
      <4>3. \A p \in u.lo .. u.hi : s[p] = aux[p]
        BY <1>6, <4>1
      <4> QED BY <4>2, <4>3, Zenon DEF AgreeTo
    <3> QED BY <1>2, <1>8, <2>1, <3>1 DEF RangeOK
  <2>2. CASE u \notin C
    <3>1. u \in pending /\ u # t
      BY <2>2
    <3>2. RangeOK(items, aux, key, u) /\ u.lo .. u.hi \cap t.lo .. t.hi = {}
      BY <1>2, <3>1
    <3>3. u.lo .. u.hi \subseteq 1 .. Len(items)
      <4>1. u.lo \in 1 .. Len(items) /\ u.hi \in 1 .. Len(items)
        BY <1>1, <3>1, RadixFacts
      <4> QED BY <1>2, <4>1
    <3>4. \A p \in u.lo .. u.hi : s[p] = items[p] /\ aux[p] = aux[p]
      BY <1>7, <3>2, <3>3
    <3> QED BY <3>2, <3>4, RangeElsewhere
  <2> QED BY <2>1, <2>2
<1>12. Forward => Ties(s)
  <2>1. Forward => TiesWithin(s, t.lo, t.hi)
    BY <1>4, <1>6, Zenon DEF TiesWithin
  <2> QED BY <1>2, <1>6, <2>1, TiesMoved
<1>13. Holds("radix", s, aux, P, {}, key, reversed)
  <2>1. BlocksApart(Len(s), P, {}) /\ Sorted(s, Blocks(P, {}), key)
    BY <1>2, <1>7, <1>9, <1>10
  <2> HIDE DEF P
  <2> QED BY <1>1, <1>2, <1>7, <1>11, <1>12, <2>1, RadixHolds
<1> HIDE DEF P
<1> QED BY <1>1, <1>2, <1>13, HoldsNext

LEMMA InsertStep ==
  ASSUME KInv, NEW t \in pending, Insert(t)
  PROVE  KInv'
<1> DEFINE d == SkipCommonPrefix(t)
           s == InsertionSorted(items, t.lo, t.hi, t.key, d)
           P == pending \ {t}
           B == Blocks(pending, groups)
<1>1. /\ pc = "radix" /\ ~t.scattered /\ items' = s /\ pending' = P
      /\ UNCHANGED <<pc, sort_vars, aux, key, groups, reversed>>
  BY Zenon DEF Insert
<1>2. /\ Chosen /\ items \in Seq(Item) /\ aux \in Seq(Item) /\ Len(aux) = Len(items)
      /\ key \in KeyIds /\ Kept(items) /\ Distinct(items) /\ groups = {} /\ Len(items) \in Nat
      /\ BlocksApart(Len(items), pending, groups) /\ Sorted(items, B, key)
      /\ \A u \in pending : RangeOK(items, aux, key, u)
      /\ t.lo \in 1 .. Len(items) /\ t.hi \in 1 .. Len(items) /\ t.lo <= t.hi
      /\ t.lo \in Nat /\ t.hi \in Nat
      /\ Alone(<<t.lo, t.hi>>, B) /\ \A b \in B : Within(b) \subseteq 1 .. Len(items)
      /\ \A u \in pending : u # t => u.lo .. u.hi \cap t.lo .. t.hi = {}
      /\ Forward => Ties(items)
      /\ Sound(t)
  BY <1>1, RadixFacts
<1>3. t.key = key /\ t \in RangeType
  BY <1>2 DEF RangeOK
<1>4. InsertedUpTo(items, s, t.lo, t.hi, t.hi, key)
  <2>1. /\ d \in t.depth .. DepthLimit
        /\ AgreeTo(items, t.lo, t.hi, t.key, d) \/ AllEqual(items, t.lo, t.hi, t.key)
    BY <1>2, SkippedPrefix
  <2>2. t.depth \in Nat /\ DepthLimit \in Nat
    BY <1>3, ConstantsAssumption DEF RangeType
  <2> HIDE DEF d
  <2>3. d \in Nat /\ Comparable(items, t.lo, t.hi, key, d)
    BY <1>3, <2>1, <2>2 DEF Comparable
  <2>4. InsertedUpTo(items, InsertionSorted(items, t.lo, t.hi, key, d), t.lo, t.hi, t.hi, key)
    BY <1>2, <2>3, InsertionIs
  <2> QED BY <1>3, <2>4
<1> HIDE DEF s
<1>5. /\ Moved(items, s, t.lo, t.hi) /\ KeysInOrder(s, t.lo, t.hi, key)
      /\ Ties(items) /\ ~options.keys[key].reverse => Ties(s)
  BY <1>4, Zenon DEF InsertedUpTo
<1>6. s \in Seq(Item) /\ Len(s) = Len(items) /\ Kept(s)
      /\ \A p \in 1 .. Len(items) : p \notin t.lo .. t.hi => s[p] = items[p]
  <2>1. Kept(s)
    BY <1>2, <1>5, KeptMoved
  <2> QED BY <1>5, <2>1 DEF Moved
<1>7. /\ BlocksApart(Len(items), P, groups)
      /\ Replaced(B, Blocks(P, groups), t.lo, t.hi)
  <2> DEFINE C == {}
  <2>1. /\ \A c \in C : c.lo \in Nat /\ c.hi \in Nat /\ t.lo <= c.lo /\ c.lo <= c.hi /\ c.hi <= t.hi
        /\ \A c, e \in C : c # e => Within(BlockOf(c)) \cap Within(BlockOf(e)) = {}
    OBVIOUS
  <2>2. (pending \ {t}) \cup C = P
    OBVIOUS
  <2> HIDE DEF C, P
  <2>3. /\ BlocksApart(Len(items), (pending \ {t}) \cup C, groups)
        /\ Replaced(B, Blocks((pending \ {t}) \cup C, groups), t.lo, t.hi)
    BY <1>2, <2>1, ApartLess
  <2> QED BY <2>2, <2>3
<1>8. Sorted(s, Blocks(P, groups), key)
  <2>1. key \in 1 .. Len(options.keys) + 1 /\ key <= Len(options.keys)
    BY <1>2, OptionsOK
  <2>2. ASSUME NEW i \in t.lo .. t.hi, NEW j \in t.lo .. t.hi, i < j
        PROVE  InBlock(Blocks(P, groups), i, j) \/ ~AtKey(s[j].key, s[i].key, key)
    <3>1. ~KeyLess(s[j].key, s[i].key, key)
      BY <1>5, <2>2 DEF KeysInOrder
    <3> QED BY <2>1, <3>1 DEF AtKey
  <2> HIDE DEF B, P
  <2>3. Chosen /\ items \in Seq(Item) /\ Sorted(items, B, key) /\ Alone(<<t.lo, t.hi>>, B)
        /\ t.lo \in 1 .. Len(items) /\ t.hi \in 1 .. Len(items)
        /\ key \in 1 .. Len(options.keys) + 1
        /\ \A b \in B : Within(b) \subseteq 1 .. Len(items)
    BY <1>2, <2>1
  <2>4. Moved(items, s, t.lo, t.hi) /\ Replaced(B, Blocks(P, groups), t.lo, t.hi)
    BY <1>5, <1>7
  <2> QED BY <2>2, <2>3, <2>4, SortedLess, ZenonT(40)
<1>9. ASSUME NEW u \in P PROVE RangeOK(s, aux, key, u)
  <2>1. u \in pending /\ u # t
    OBVIOUS
  <2>2. RangeOK(items, aux, key, u) /\ u.lo .. u.hi \cap t.lo .. t.hi = {}
    BY <1>2, <2>1
  <2>3. u.lo .. u.hi \subseteq 1 .. Len(items)
    <3>1. u.lo \in 1 .. Len(items) /\ u.hi \in 1 .. Len(items)
      BY <1>1, <2>1, RadixFacts
    <3> QED BY <1>2, <3>1
  <2>4. \A p \in u.lo .. u.hi : s[p] = items[p] /\ aux[p] = aux[p]
    BY <1>6, <2>2, <2>3
  <2> QED BY <2>2, <2>4, RangeElsewhere
<1>10. Forward => Ties(s)
  BY <1>2, <1>5 DEF Forward
<1>11. Holds("radix", s, aux, P, {}, key, reversed)
  <2>1. BlocksApart(Len(s), P, {}) /\ Sorted(s, Blocks(P, {}), key)
    BY <1>2, <1>6, <1>7, <1>8
  <2> HIDE DEF P
  <2> QED BY <1>1, <1>2, <1>6, <1>9, <1>10, <2>1, RadixHolds
<1> HIDE DEF P
<1> QED BY <1>1, <1>2, <1>11, HoldsNext

-----------------------------------------------------------------------------
(***************************************************************************)
(* The ends of the sort                                                    *)
(***************************************************************************)

\* Lines in the order of every key, and of the last resort.
LEMMA FinishedIs ==
  ASSUME Chosen, NEW s \in Seq(Item), \A m \in KeyIds : InOrder(s, m),
         options.stable \/ options.unique \/ InOrder(s, Len(options.keys) + 1),
         (options.stable \/ options.unique) /\ Forward => Ties(s)
  PROVE  Finished(s)
<1> SUFFICES ASSUME NEW i \in 1 .. Len(s), NEW j \in 1 .. Len(s), i < j, LineLess(s[j].key, s[i].key)
             PROVE  FALSE
  BY Zenon DEF Finished
<1>1. KeyIds = 1 .. Len(options.keys) /\ Len(options.keys) \in Nat
  BY OptionsOK
<1>2. ASSUME NEW k \in KeyIds, KeyLess(s[j].key, s[i].key, k), SameKeys(s[j].key, s[i].key, k - 1)
      PROVE  FALSE
  <2>1. SameKeys(s[i].key, s[j].key, k - 1)
    BY <1>2, Zenon DEF SameKeys
  <2>2. ~AtKey(s[j].key, s[i].key, k)
    BY <2>1, Zenon DEF InOrder, After
  <2>3. k <= Len(options.keys)
    BY <1>1
  <2> QED BY <1>2, <2>2, <2>3 DEF AtKey
<1>3. ASSUME SameKeys(s[j].key, s[i].key, Len(options.keys)), ~options.stable, ~options.unique,
             IF options.reverse THEN s[i].key < s[j].key ELSE s[j].key < s[i].key
      PROVE  FALSE
  <2>1. (Len(options.keys) + 1) - 1 = Len(options.keys) /\ ~(Len(options.keys) + 1 <= Len(options.keys))
    BY <1>1
  <2>2. SameKeys(s[i].key, s[j].key, (Len(options.keys) + 1) - 1)
    BY <1>3, <2>1, Zenon DEF SameKeys
  <2>3. InOrder(s, Len(options.keys) + 1)
    BY <1>3
  <2>4. ~AtKey(s[j].key, s[i].key, Len(options.keys) + 1)
    BY <2>2, <2>3, Zenon DEF InOrder, After
  <2> QED BY <1>3, <2>1, <2>4 DEF AtKey
<1> QED BY <1>2, <1>3, Zenon DEF LineLess

\* Without blocks the lines are in the order of the key, too.
LEMMA SortedNoBlocks ==
  ASSUME NEW s, NEW c \in Nat, c >= 1, Sorted(s, {}, c)
  PROVE  \A m \in 1 .. c : InOrder(s, m)
<1>1. \A i, j : ~InBlock({}, i, j)
  BY DEF InBlock
<1>2. InOrder(s, c)
  BY <1>1, Zenon DEF Sorted, Across, InOrder
<1>3. \A m \in 1 .. c - 1 : InOrder(s, m)
  BY DEF Sorted
<1> QED
  <2> TAKE m \in 1 .. c
  <2>1. m \in 1 .. c - 1 \/ m = c
    OBVIOUS
  <2> QED BY <1>2, <1>3, <2>1

LEMMA ReverseIs ==
  ASSUME NEW S, NEW s \in Seq(S)
  PROVE  /\ Reverse(s) \in Seq(S) /\ Len(Reverse(s)) = Len(s)
         /\ \A p \in 1 .. Len(s) : Reverse(s)[p] = s[Len(s) - p + 1] /\ Len(s) - p + 1 \in 1 .. Len(s)
<1>1. Len(s) \in Nat
  OBVIOUS
<1>2. \A p \in 1 .. Len(s) : Len(s) - p + 1 \in 1 .. Len(s)
  BY <1>1
<1>3. \A p \in 1 .. Len(s) : s[Len(s) - p + 1] \in S
  BY <1>2
<1>4. Reverse(s) = [p \in 1 .. Len(s) |-> s[(Len(s) - p) + 1]]
  BY DEF Reverse
<1> QED BY <1>1, <1>2, <1>3, <1>4

-----------------------------------------------------------------------------
(***************************************************************************)
(* Ranges that are in order already                                        *)
(***************************************************************************)

\* Neighbours that do not descend make a range that does not.
LEMMA Ascends ==
  ASSUME Chosen, items \in Seq(Item), NEW lo \in 1 .. Len(items), NEW hi \in 1 .. Len(items),
         NEW k \in KeyIds, Ascending(lo, hi, k)
  PROVE  KeysInOrder(items, lo, hi, k)
<1> DEFINE line(i) == items[i].key
           T == {n \in Nat : \A i, j \in lo .. hi : j = i + n => ~KeyLess(line(j), line(i), k)}
<1>1. lo \in Nat /\ hi \in Nat /\ lo .. hi \subseteq 1 .. Len(items)
  OBVIOUS
<1>2. \A i \in lo .. hi : line(i) \in Lines
  <2> TAKE i \in lo .. hi
  <2>1. i \in 1 .. Len(items)
    BY <1>1
  <2> QED BY <2>1, ItemsHaveLines
<1>3. ASSUME NEW i \in lo .. hi, i + 1 \in lo .. hi PROVE ~KeyLess(line(i + 1), line(i), k)
  <2>1. i \in lo .. hi - 1
    BY <1>1, <1>3
  <2>2. CompareFromDepth(items[i], items[i + 1], k, 0) \in {-1, 0}
    BY <2>1, Zenon DEF Ascending, Neighbours
  <2>3. ~(CompareFromDepth(items[i], items[i + 1], k, 0) > 0)
    BY <2>2
  <2>4. items[i].key \in Lines /\ items[i + 1].key \in Lines
    BY <1>2, <1>3
  <2> QED BY <2>3, <2>4, Compared
<1> HIDE DEF line
<1>4. 0 \in T
  <2> SUFFICES ASSUME NEW i \in lo .. hi PROVE ~KeyLess(line(i), line(i), k)
    BY <1>1
  <2> QED BY <1>2, KeyOrder
<1>5. ASSUME NEW n \in T PROVE n + 1 \in T
  <2> SUFFICES ASSUME NEW i \in lo .. hi, NEW j \in lo .. hi, j = i + (n + 1)
               PROVE  ~KeyLess(line(j), line(i), k)
    OBVIOUS
  <2>1. i + n \in lo .. hi /\ j = (i + n) + 1
    BY <1>1
  <2>2. ~KeyLess(line(i + n), line(i), k)
    BY <2>1
  <2>3. ~KeyLess(line(j), line(i + n), k)
    BY <1>3, <2>1
  <2>4. line(i) \in Lines /\ line(i + n) \in Lines /\ line(j) \in Lines
    BY <1>2, <2>1
  <2> QED BY <2>2, <2>3, <2>4, KeyOrder
<1>6. \A n \in Nat : n \in T
  <2>1. T \in SUBSET Nat
    OBVIOUS
  <2> HIDE DEF T
  <2> QED BY <1>4, <1>5, <2>1, AllNumbers
<1>7. ASSUME NEW p \in lo .. hi, NEW q \in lo .. hi, p < q PROVE ~KeyLess(line(q), line(p), k)
  <2>1. q - p \in Nat /\ q = p + (q - p)
    BY <1>1, <1>7
  <2>2. q - p \in T
    BY <1>6, <2>1
  <2> QED BY <2>1, <2>2
<1> QED BY <1>7, Zenon DEF KeysInOrder, line

\* Neighbours that descend make a range that descends.
LEMMA Descends ==
  ASSUME Chosen, items \in Seq(Item), NEW lo \in 1 .. Len(items), NEW hi \in 1 .. Len(items),
         NEW k \in KeyIds, StrictlyDescending(lo, hi, k)
  PROVE  \A p, q \in lo .. hi : p < q => KeyLess(items[q].key, items[p].key, k)
<1> DEFINE line(i) == items[i].key
           T == {n \in Nat : \A i, j \in lo .. hi : j = i + n + 1 => KeyLess(line(j), line(i), k)}
<1>1. lo \in Nat /\ hi \in Nat /\ lo .. hi \subseteq 1 .. Len(items)
  OBVIOUS
<1>2. \A i \in lo .. hi : line(i) \in Lines
  <2> TAKE i \in lo .. hi
  <2>1. i \in 1 .. Len(items)
    BY <1>1
  <2> QED BY <2>1, ItemsHaveLines
<1>3. ASSUME NEW i \in lo .. hi, i + 1 \in lo .. hi PROVE KeyLess(line(i + 1), line(i), k)
  <2>1. i \in lo .. hi - 1
    BY <1>1, <1>3
  <2>2. CompareFromDepth(items[i], items[i + 1], k, 0) \in {1}
    BY <2>1, Zenon DEF StrictlyDescending, Neighbours
  <2>3. CompareFromDepth(items[i], items[i + 1], k, 0) > 0
    BY <2>2
  <2>4. items[i].key \in Lines /\ items[i + 1].key \in Lines
    BY <1>2, <1>3
  <2> QED BY <2>3, <2>4, Compared
<1> HIDE DEF line
<1>4. 0 \in T
  <2> SUFFICES ASSUME NEW i \in lo .. hi, NEW j \in lo .. hi, j = i + 0 + 1
               PROVE  KeyLess(line(j), line(i), k)
    OBVIOUS
  <2>1. j = i + 1
    BY <1>1
  <2> QED BY <1>3, <2>1
<1>5. ASSUME NEW n \in T PROVE n + 1 \in T
  <2> SUFFICES ASSUME NEW i \in lo .. hi, NEW j \in lo .. hi, j = i + (n + 1) + 1
               PROVE  KeyLess(line(j), line(i), k)
    OBVIOUS
  <2>1. i + n + 1 \in lo .. hi /\ j = (i + n + 1) + 1
    BY <1>1
  <2>2. KeyLess(line(i + n + 1), line(i), k)
    BY <2>1
  <2>3. KeyLess(line(j), line(i + n + 1), k)
    BY <1>3, <2>1
  <2>4. line(i) \in Lines /\ line(i + n + 1) \in Lines /\ line(j) \in Lines
    BY <1>2, <2>1
  <2>5. k \in 1 .. Len(options.keys) + 1
    BY OptionsOK
  <2> QED BY <2>2, <2>3, <2>4, <2>5, AtKeyOrder
<1>6. \A n \in Nat : n \in T
  <2>1. T \in SUBSET Nat
    OBVIOUS
  <2> HIDE DEF T
  <2> QED BY <1>4, <1>5, <2>1, AllNumbers
<1>7. ASSUME NEW p \in lo .. hi, NEW q \in lo .. hi, p < q PROVE KeyLess(line(q), line(p), k)
  <2>1. q - p - 1 \in Nat /\ q = p + (q - p - 1) + 1
    BY <1>1, <1>7
  <2>2. q - p - 1 \in T
    BY <1>6, <2>1
  <2> QED BY <2>1, <2>2
<1> QED BY <1>7, Zenon DEF line

-----------------------------------------------------------------------------
(***************************************************************************)
(* Groups of lines that agree on the keys so far                           *)
(***************************************************************************)

\* Lines p and q agree on the keys up to k.
Same(k, p, q) == SameKeys(items[p].key, items[q].key, k)

Starts(k) == {i \in DOMAIN items : i = 1 \/ ~Same(k, i - 1, i)}

\* The places that the run of equal lines from i on reaches.
RunFrom(k, i) == {j \in i .. Len(items) : \A m \in i + 1 .. j : m \notin Starts(k)}

\* g is the run that starts at g[1].
GroupOf(k, g) ==
  /\ g[1] \in Starts(k) /\ g[2] = Max(RunFrom(k, g[1])) /\ g[2] > g[1]
  /\ g = <<g[1], g[2]>>

LEMMA EqualGroupsIs ==
  ASSUME Chosen, items \in Seq(Item), NEW k \in KeyIds
  PROVE  \A g : g \in EqualGroups(k) <=> GroupOf(k, g)
<1> DEFINE same(i, j) == \A m \in 1 .. k : SameKey(items[i], items[j], m)
           starts == {i \in DOMAIN items : i = 1 \/ ~same(i - 1, i)}
           last(i) == Max({j \in i .. Len(items) : \A m \in i + 1 .. j : m \notin starts})
<1>1. DOMAIN items = 1 .. Len(items) /\ Len(items) \in Nat
      /\ KeyIds = 1 .. Len(options.keys) /\ Len(options.keys) \in Nat
  BY OptionsOK
<1>2. ASSUME NEW i \in 1 .. Len(items), NEW j \in 1 .. Len(items) PROVE same(i, j) <=> Same(k, i, j)
  <2>1. items[i].key \in Lines /\ items[j].key \in Lines
    BY ItemsHaveLines
  <2>2. ASSUME NEW m \in 1 .. k
        PROVE  SameKey(items[i], items[j], m) <=> KeyOf(items[i].key, m) = KeyOf(items[j].key, m)
    <3>1. m \in KeyIds
      BY <1>1
    <3> QED BY <2>1, <3>1, Compared DEF SameKey
  <2> QED BY <2>2, Zenon DEF Same, SameKeys
<1>3. starts = Starts(k)
  <2>1. \A i \in 1 .. Len(items) : i = 1 \/ i - 1 \in 1 .. Len(items)
    BY <1>1
  <2> HIDE DEF same
  <2> QED BY <1>1, <1>2, <2>1 DEF Starts
<1> HIDE DEF same, starts
<1>4. \A i : last(i) = Max(RunFrom(k, i))
  BY <1>3, Zenon DEF RunFrom
<1> HIDE DEF last
<1>5. EqualGroups(k) = {<<i, last(i)>> : i \in {s \in starts : last(s) > s}}
  BY Zenon DEF EqualGroups, same, starts, last
<1> QED
  <2> TAKE g
  <2>1. g \in EqualGroups(k) <=> \E i \in Starts(k) : last(i) > i /\ g = <<i, last(i)>>
    BY <1>3, <1>5, Zenon
  <2>2. ASSUME NEW i \in Starts(k), last(i) > i, g = <<i, last(i)>> PROVE GroupOf(k, g)
    <3>1. g[1] = i /\ g[2] = last(i)
      BY <2>2
    <3> QED BY <1>4, <2>2, <3>1 DEF GroupOf
  <2>3. ASSUME GroupOf(k, g) PROVE \E i \in Starts(k) : last(i) > i /\ g = <<i, last(i)>>
    BY <1>4, <2>3 DEF GroupOf
  <2> QED BY <2>1, <2>2, <2>3

\* Agreement on keys is an equivalence.
LEMMA SameIs ==
  ASSUME NEW k
  PROVE  /\ \A p : Same(k, p, p)
         /\ \A p, q : Same(k, p, q) => Same(k, q, p)
         /\ \A p, q, r : Same(k, p, q) /\ Same(k, q, r) => Same(k, p, r)
BY Zenon DEF Same, SameKeys

\* Where no run starts between two lines they agree.
LEMMA RunsAgree ==
  ASSUME items \in Seq(Item), NEW k, NEW i \in 1 .. Len(items), NEW j \in 1 .. Len(items), i <= j,
         \A m \in i + 1 .. j : m \notin Starts(k)
  PROVE  Same(k, i, j)
<1> DEFINE T == {n \in Nat : i + n \in i .. j => Same(k, i, i + n)}
<1>1. i \in Nat /\ j \in Nat /\ i >= 1 /\ i .. j \subseteq 1 .. Len(items) /\ DOMAIN items = 1 .. Len(items)
  OBVIOUS
<1>2. 0 \in T
  <2>1. i + 0 = i
    BY <1>1
  <2> QED BY <2>1, SameIs
<1>3. ASSUME NEW n \in T PROVE n + 1 \in T
  <2> SUFFICES ASSUME i + (n + 1) \in i .. j PROVE Same(k, i, i + (n + 1))
    OBVIOUS
  <2>1. i + n \in i .. j /\ i + (n + 1) \in i + 1 .. j /\ (i + (n + 1)) - 1 = i + n /\ i + (n + 1) # 1
    BY <1>1
  <2>2. i + (n + 1) \in DOMAIN items
    BY <1>1, <2>1
  <2>3. Same(k, i + n, i + (n + 1))
    <3>1. i + (n + 1) \notin Starts(k)
      BY <2>1
    <3> QED BY <2>1, <2>2, <3>1 DEF Starts
  <2>4. Same(k, i, i + n)
    BY <2>1
  <2> QED BY <2>3, <2>4, SameIs
<1>4. \A n \in Nat : n \in T
  <2>1. T \in SUBSET Nat
    OBVIOUS
  <2> HIDE DEF T
  <2> QED BY <1>2, <1>3, <2>1, AllNumbers
<1>5. j - i \in Nat /\ i + (j - i) = j /\ j \in i .. j
  BY <1>1
<1>6. j - i \in T
  BY <1>4, <1>5
<1> QED BY <1>5, <1>6

\* The groups are runs that share no line, and all lines that agree with one
\* between them and in the order of the keys are in one.
LEMMA GroupsAre ==
  ASSUME Chosen, items \in Seq(Item), NEW k \in KeyIds
  PROVE  /\ \A g \in EqualGroups(k) :
              /\ g \in Nat \X Nat /\ g[1] \in 1 .. Len(items) /\ g[2] \in 1 .. Len(items) /\ g[1] <= g[2]
              /\ \A i, j \in Within(g) : Same(k, i, j)
         /\ \A g, h \in EqualGroups(k) : g # h => Within(g) \cap Within(h) = {}
         /\ \A i, j \in 1 .. Len(items) :
              i < j /\ (\A m \in i + 1 .. j : m \notin Starts(k)) =>
                InBlock(EqualGroups(k), i, j)
<1> DEFINE n == Len(items)
           S == Starts(k)
           last(i) == Max(RunFrom(k, i))
<1>1. n \in Nat /\ DOMAIN items = 1 .. n /\ \A i \in S : i \in 1 .. n
  BY DEF Starts
<1> HIDE DEF n
<1>2. ASSUME NEW i \in 1 .. n
      PROVE  /\ last(i) \in RunFrom(k, i) /\ \A j \in RunFrom(k, i) : j <= last(i)
             /\ last(i) \in i .. n
  <2>1. RunFrom(k, i) \in SUBSET Nat /\ \A j \in RunFrom(k, i) : j <= n /\ j \in i .. n
    BY <1>1 DEF RunFrom, n
  <2>2. i \in RunFrom(k, i)
    <3>1. i \in i .. n /\ \A m \in i + 1 .. i : m \notin Starts(k)
      BY <1>1
    <3> QED BY <3>1 DEF RunFrom, n
  <2>3. RunFrom(k, i) # {}
    BY <2>2
  <2>4. Max(RunFrom(k, i)) \in RunFrom(k, i) /\ \A y \in RunFrom(k, i) : y <= Max(RunFrom(k, i))
    BY <1>1, <2>1, <2>3, MaxIs
  <2> QED BY <2>1, <2>4
<1>3. \A i \in 1 .. n : \A m \in i + 1 .. last(i) : m \notin S
  BY <1>2 DEF RunFrom
<1> HIDE DEF last
<1>4. ASSUME NEW g, GroupOf(k, g)
      PROVE  /\ g[1] \in S /\ g[1] \in 1 .. n /\ g[2] = last(g[1]) /\ g[2] > g[1]
             /\ g[2] \in g[1] .. n /\ g = <<g[1], g[2]>>
             /\ \A m \in g[1] + 1 .. g[2] : m \notin S
  <2>1. g[1] \in S /\ g[2] = last(g[1]) /\ g[2] > g[1] /\ g = <<g[1], g[2]>>
    BY <1>4, Zenon DEF GroupOf, last
  <2>2. g[1] \in 1 .. n
    BY <1>1, <2>1
  <2>3. last(g[1]) \in g[1] .. n /\ \A m \in g[1] + 1 .. last(g[1]) : m \notin S
    BY <1>2, <1>3, <2>2
  <2>4. g[2] \in g[1] .. n
    BY <2>1, <2>3
  <2> QED BY <2>1, <2>2, <2>3, <2>4, Zenon
<1> HIDE DEF S
<1>5. ASSUME NEW g \in EqualGroups(k)
      PROVE  /\ g \in Nat \X Nat /\ g[1] \in 1 .. n /\ g[2] \in 1 .. n /\ g[1] <= g[2]
             /\ \A i, j \in Within(g) : Same(k, i, j)
  <2>1. GroupOf(k, g)
    BY EqualGroupsIs
  <2>2. /\ g[1] \in 1 .. n /\ g[2] \in g[1] .. n /\ g = <<g[1], g[2]>>
        /\ \A m \in g[1] + 1 .. g[2] : m \notin S
    BY <1>4, <2>1
  <2>3. g[1] \in Nat /\ g[2] \in Nat /\ g[2] \in 1 .. n /\ g[1] <= g[2]
    BY <1>1, <2>2
  <2>4. g \in Nat \X Nat
    BY <2>2, <2>3
  <2>5. ASSUME NEW i \in Within(g) PROVE Same(k, g[1], i)
    <3>1. i \in g[1] .. g[2]
      BY <2>5 DEF Within
    <3>2. i \in 1 .. n /\ g[1] <= i /\ \A m \in g[1] + 1 .. i : m \in g[1] + 1 .. g[2]
      BY <1>1, <2>2, <2>3, <3>1
    <3>3. \A m \in g[1] + 1 .. i : m \notin Starts(k)
      BY <2>2, <3>2, Zenon DEF S
    <3> QED BY <2>2, <3>2, <3>3, RunsAgree DEF n
  <2> QED BY <2>2, <2>3, <2>4, <2>5, SameIs
<1>6. ASSUME NEW g \in EqualGroups(k), NEW h \in EqualGroups(k), g[1] < h[1]
      PROVE  Within(g) \cap Within(h) = {}
  <2>1. GroupOf(k, g) /\ GroupOf(k, h)
    BY EqualGroupsIs
  <2>2. /\ g[1] \in 1 .. n /\ g[2] \in g[1] .. n /\ h[1] \in S /\ h[1] \in 1 .. n /\ h[2] \in h[1] .. n
        /\ \A m \in g[1] + 1 .. g[2] : m \notin S
    BY <1>4, <2>1
  <2>3. h[1] \notin g[1] + 1 .. g[2]
    BY <2>2, Zenon
  <2>4. h[1] > g[2] /\ g[1] \in Nat /\ g[2] \in Nat /\ h[1] \in Nat /\ h[2] \in Nat
    BY <1>1, <1>6, <2>2, <2>3
  <2> QED BY <2>4 DEF Within
<1>7. ASSUME NEW g \in EqualGroups(k), NEW h \in EqualGroups(k), g # h
      PROVE  Within(g) \cap Within(h) = {}
  <2>1. g[1] # h[1]
    <3>1. GroupOf(k, g) /\ GroupOf(k, h)
      BY EqualGroupsIs
    <3> QED BY <1>7, <3>1, Zenon DEF GroupOf
  <2>2. g[1] \in Nat /\ h[1] \in Nat
    BY <1>5
  <2>3. g[1] < h[1] \/ h[1] < g[1]
    BY <2>1, <2>2
  <2>4. CASE g[1] < h[1]
    BY <1>6, <2>4
  <2>5. CASE h[1] < g[1]
    BY <1>6, <2>5
  <2> QED BY <2>3, <2>4, <2>5
<1>8. ASSUME NEW i \in 1 .. n, NEW j \in 1 .. n, i < j, \A m \in i + 1 .. j : m \notin S
      PROVE  InBlock(EqualGroups(k), i, j)
  <2> DEFINE U == {m \in S : m <= i}
  <2>1. i \in Nat /\ j \in Nat /\ i >= 1 /\ 1 \in 1 .. n
    BY <1>1
  <2>2. U \in SUBSET Nat /\ U # {} /\ \A y \in U : y <= i
    <3>1. 1 \in S
      BY <1>1, <2>1 DEF S, Starts
    <3> QED BY <1>1, <2>1, <3>1
  <2>3. PICK a \in U : \A y \in U : y <= a
    BY <2>1, <2>2, MaxIs
  <2>4. a \in S /\ a \in 1 .. n /\ a <= i /\ a \in Nat
    BY <1>1, <2>3
  <2>5. ASSUME NEW m \in a + 1 .. j PROVE m \notin S
    <3>1. CASE m <= i
      <4>1. ~(m <= a)
        BY <2>4
      <4> QED BY <2>3, <3>1, <4>1
    <3>2. CASE m > i
      <4>1. m \in i + 1 .. j
        BY <2>1, <2>4, <3>2
      <4> QED BY <1>8, <4>1
    <3> QED BY <2>1, <2>4, <3>1, <3>2
  <2>6. j \in RunFrom(k, a)
    <3>1. j \in a .. n
      BY <1>1, <1>8, <2>1, <2>4
    <3> QED BY <2>5, <3>1, Zenon DEF RunFrom, n, S
  <2>7. j <= last(a) /\ last(a) \in a .. n
    BY <1>2, <2>4, <2>6
  <2>8. GroupOf(k, <<a, last(a)>>)
    <3>1. last(a) > a
      BY <1>1, <1>8, <2>1, <2>4, <2>7
    <3>2. <<a, last(a)>>[1] = a /\ <<a, last(a)>>[2] = last(a)
      OBVIOUS
    <3> QED BY <2>4, <3>1, <3>2, Zenon DEF GroupOf, last, S
  <2>9. <<a, last(a)>> \in EqualGroups(k)
    BY <2>8, EqualGroupsIs
  <2>10. i \in a .. last(a) /\ j \in a .. last(a)
    BY <1>1, <1>8, <2>1, <2>4, <2>7
  <2>11. Within(<<a, last(a)>>) = a .. last(a)
    BY DEF Within
  <2> QED BY <2>9, <2>10, <2>11, Zenon DEF InBlock
<1> QED BY <1>5, <1>7, <1>8, Zenon DEF n, S

\* Lines that agree on the keys so far, and are in their order, have no other
\* line between them.
LEMMA NoneBetween ==
  ASSUME Chosen, items \in Seq(Item), NEW k \in KeyIds, \A m \in 1 .. k : InOrder(items, m),
         NEW i \in 1 .. Len(items), NEW j \in 1 .. Len(items), i < j, Same(k, i, j)
  PROVE  \A m \in i + 1 .. j : m \notin Starts(k)
<1>1. /\ Len(items) \in Nat /\ i \in Nat /\ j \in Nat /\ i >= 1 /\ i .. j \subseteq 1 .. Len(items)
      /\ KeyIds = 1 .. Len(options.keys) /\ Len(options.keys) \in Nat /\ k \in Nat
  BY OptionsOK
<1>2. ASSUME NEW p \in i .. j PROVE Same(k, i, p)
  <2> DEFINE T == {n \in Nat : n <= k => Same(n, i, p)}
  <2>1. 0 \in T
    BY DEF Same, SameKeys
  <2>2. ASSUME NEW n \in T PROVE n + 1 \in T
    <3> SUFFICES ASSUME n + 1 <= k PROVE Same(n + 1, i, p)
      OBVIOUS
    <3>1. Same(n, i, p) /\ n + 1 \in 1 .. k /\ (n + 1) - 1 = n /\ n + 1 \in KeyIds
      BY <1>1
    <3>2. Same(n, i, j)
      <4>1. \A m \in 1 .. n : m \in 1 .. k
        BY <1>1
      <4> QED BY <4>1, Zenon DEF Same, SameKeys
    <3>3. Same(n, p, j)
      BY <3>1, <3>2, SameIs
    <3>4. i \in 1 .. Len(items) /\ p \in 1 .. Len(items) /\ j \in 1 .. Len(items)
      BY <1>1
    <3>5. ~AtKey(items[p].key, items[i].key, n + 1)
      <4>1. CASE p = i
        <5>1. n + 1 \in 1 .. Len(options.keys) + 1 /\ items[i].key \in Lines
          BY <1>1, <3>1, ItemsHaveLines
        <5> QED BY <4>1, <5>1, AtKeyOrder
      <4>2. CASE p # i
        <5>1. i < p
          BY <1>1, <4>2
        <5>2. After(items, i, p, n + 1)
          BY <3>1, <3>4, <5>1 DEF InOrder
        <5> QED BY <3>1, <5>2 DEF After, Same
      <4> QED BY <4>1, <4>2
    <3>6. ~AtKey(items[j].key, items[p].key, n + 1)
      <4>1. CASE p = j
        <5>1. n + 1 \in 1 .. Len(options.keys) + 1 /\ items[j].key \in Lines
          BY <1>1, <3>1, ItemsHaveLines
        <5> QED BY <4>1, <5>1, AtKeyOrder
      <4>2. CASE p # j
        <5>1. p < j
          BY <1>1, <4>2
        <5>2. After(items, p, j, n + 1)
          BY <3>1, <3>4, <5>1 DEF InOrder
        <5> QED BY <3>1, <3>3, <5>2 DEF After, Same
      <4> QED BY <4>1, <4>2
    <3>7. KeyOf(items[i].key, n + 1) = KeyOf(items[j].key, n + 1)
      BY <3>1 DEF Same, SameKeys
    <3>8. items[i].key \in Lines /\ items[p].key \in Lines /\ items[j].key \in Lines
      BY <3>4, ItemsHaveLines
    <3>9. ~KeyLess(items[p].key, items[i].key, n + 1) /\ ~KeyLess(items[j].key, items[p].key, n + 1)
      <4>1. n + 1 <= Len(options.keys)
        BY <1>1, <3>1
      <4> QED BY <3>5, <3>6, <4>1 DEF AtKey
    <3>10. ~KeyLess(items[i].key, items[p].key, n + 1)
      BY <3>7, <3>9 DEF KeyLess
    <3>11. KeyOf(items[i].key, n + 1) = KeyOf(items[p].key, n + 1)
      BY <3>1, <3>8, <3>9, <3>10, KeyOrder
    <3>12. \A m \in 1 .. n + 1 : m \in 1 .. n \/ m = n + 1
      OBVIOUS
    <3> QED BY <3>1, <3>11, <3>12, Zenon DEF Same, SameKeys
  <2>3. k \in T
    <3>1. T \in SUBSET Nat
      OBVIOUS
    <3> HIDE DEF T
    <3> QED BY <1>1, <2>1, <2>2, <3>1, AllNumbers
  <2> QED BY <1>1, <2>3
<1>3. ASSUME NEW m \in i + 1 .. j, m \in Starts(k) PROVE FALSE
  <2>1. m \in i .. j /\ m - 1 \in i .. j /\ m # 1
    BY <1>1
  <2>2. Same(k, m - 1, m)
    <3>1. Same(k, i, m) /\ Same(k, i, m - 1)
      BY <1>2, <2>1
    <3> QED BY <3>1, SameIs
  <2> QED BY <1>3, <2>1, <2>2 DEF Starts
<1> QED BY <1>3

\* The groups are the blocks for the next key.
LEMMA GroupBlocks ==
  ASSUME Chosen, items \in Seq(Item), NEW k \in KeyIds, \A m \in 1 .. k : InOrder(items, m)
  PROVE  /\ BlocksApart(Len(items), {}, EqualGroups(k))
         /\ Sorted(items, Blocks({}, EqualGroups(k)), k + 1)
         /\ EqualGroups(k) \subseteq Nat \X Nat
<1> DEFINE G == EqualGroups(k)
<1>1. /\ \A g \in G :
           /\ g \in Nat \X Nat /\ g[1] \in 1 .. Len(items) /\ g[2] \in 1 .. Len(items) /\ g[1] <= g[2]
           /\ \A i, j \in Within(g) : Same(k, i, j)
      /\ \A g, h \in G : g # h => Within(g) \cap Within(h) = {}
      /\ \A i, j \in 1 .. Len(items) :
           i < j /\ (\A m \in i + 1 .. j : m \notin Starts(k)) => InBlock(G, i, j)
  BY GroupsAre, Zenon
<1>2. KeyIds = 1 .. Len(options.keys) /\ Len(options.keys) \in Nat /\ k \in Nat /\ (k + 1) - 1 = k
  BY OptionsOK
<1> HIDE DEF G
<1>3. Blocks({}, G) = G
  BY DEF Blocks
<1>4. BlocksApart(Len(items), {}, G)
  BY <1>1, <1>3 DEF BlocksApart
<1>5. Across(items, G, k + 1)
  <2> SUFFICES ASSUME NEW i \in 1 .. Len(items), NEW j \in 1 .. Len(items), i < j,
                      SameKeys(items[i].key, items[j].key, k)
               PROVE  InBlock(G, i, j)
    BY <1>2, Zenon DEF Across, After
  <2>1. Same(k, i, j)
    BY DEF Same
  <2>2. \A m \in i + 1 .. j : m \notin Starts(k)
    BY <2>1, NoneBetween
  <2> QED BY <1>1, <2>2
<1>6. \A b \in G : Alike(items, b, k + 1)
  BY <1>1, <1>2, Zenon DEF Alike, Same
<1>7. Sorted(items, G, k + 1)
  BY <1>2, <1>5, <1>6 DEF Sorted
<1>8. G \subseteq Nat \X Nat
  BY <1>1
<1> QED BY <1>3, <1>4, <1>7, <1>8 DEF G

LEMMA KeyDoneStep ==
  ASSUME KInv, KeyDone
  PROVE  KInv'
<1>1. /\ pc = "radix" /\ pending = {}
      /\ UNCHANGED <<sort_vars, items, aux, pending, key, reversed>>
  BY Zenon DEF KeyDone
<1>2. /\ Types(pc, items, aux, key, reversed) /\ Kept(items) /\ ~reversed /\ groups = {}
      /\ Sorted(items, Blocks(pending, groups), key) /\ (Forward => Ties(items))
  BY <1>1 DEF KInv, Holds, Phase, Working, Cur
<1>3. Chosen /\ items \in Seq(Item) /\ key \in KeyIds
  BY <1>2 DEF Types
<1>4. KeyIds = 1 .. Len(options.keys) /\ Len(options.keys) \in Nat /\ key \in Nat /\ key >= 1
  BY <1>3, OptionsOK
<1>5. \A m \in 1 .. key : InOrder(items, m)
  <2>1. Blocks(pending, groups) = {}
    BY <1>1, <1>2 DEF Blocks
  <2> QED BY <1>2, <1>4, <2>1, SortedNoBlocks
<1> DEFINE G == EqualGroups(key)
<1>6. /\ BlocksApart(Len(items), {}, G) /\ Sorted(items, Blocks({}, G), key + 1)
      /\ G \subseteq Nat \X Nat
  BY <1>3, <1>5, GroupBlocks
<1> HIDE DEF G
<1>7. CASE key < Len(options.keys)
  <2>1. pc' = "groups" /\ groups' = G
    BY <1>7, Zenon DEF KeyDone, G
  <2>2. Types("groups", items, aux, key, reversed)
    BY <1>2 DEF Types
  <2>3. Phase("groups", {}, G, key, reversed) /\ Cur("groups", key) = key + 1
    BY <1>2, <1>6, <1>7 DEF Phase, Working, Cur
  <2>4. Holds("groups", items, aux, {}, G, key, reversed)
    BY <1>2, <1>6, <2>2, <2>3, Zenon DEF Holds
  <2> QED BY <1>1, <2>1, <2>4, HoldsNext
<1>8. CASE ~(key < Len(options.keys)) /\ ~options.stable /\ ~options.unique
  <2>1. pc' = "lastresort" /\ groups' = G
    BY <1>8, Zenon DEF KeyDone, G
  <2>2. Types("lastresort", items, aux, key, reversed)
    BY <1>2 DEF Types
  <2>3. key = Len(options.keys)
    BY <1>3, <1>4, <1>8
  <2>4. Phase("lastresort", {}, G, key, reversed) /\ Cur("lastresort", key) = key + 1
    BY <1>2, <1>6, <1>8, <2>3 DEF Phase, Working, Cur
  <2>5. Holds("lastresort", items, aux, {}, G, key, reversed)
    BY <1>2, <1>6, <2>2, <2>4, Zenon DEF Holds
  <2> QED BY <1>1, <2>1, <2>5, HoldsNext
<1>9. CASE ~(key < Len(options.keys)) /\ ~(~options.stable /\ ~options.unique)
  <2>1. pc' = "done" /\ groups' = groups
    BY <1>9, Zenon DEF KeyDone
  <2>2. Types("done", items, aux, key, reversed)
    BY <1>2 DEF Types
  <2>3. key = Len(options.keys)
    BY <1>3, <1>4, <1>9
  <2>4. Phase("done", {}, {}, key, reversed)
    BY DEF Phase, Working
  <2>5. Finished(items)
    <3>1. \A m \in KeyIds : InOrder(items, m)
      BY <1>4, <1>5, <2>3
    <3> QED BY <1>2, <1>3, <1>9, <3>1, FinishedIs
  <2>6. Out(items, reversed) = items
    BY <1>2 DEF Out
  <2>7. Holds("done", items, aux, {}, {}, key, reversed)
    BY <1>2, <2>2, <2>4, <2>5, <2>6, Zenon DEF Holds, Working
  <2> QED BY <1>1, <1>2, <2>1, <2>7, HoldsNext
<1> QED BY <1>7, <1>8, <1>9

-----------------------------------------------------------------------------
(***************************************************************************)
(* The steps that move no line                                             *)
(***************************************************************************)

LEMMA InitKInv ==
  ASSUME Init
  PROVE  KInv
<1>1. /\ pc = "start" /\ \E s \in Sorts : options = s.options /\ given = s.lines
      /\ items = [i \in DOMAIN given |-> [key |-> given[i], pos |-> i]]
      /\ aux = items /\ pending = {} /\ groups = {} /\ key = 1 /\ reversed = FALSE
  BY Zenon DEF Init
<1>2. Chosen
  BY <1>1, Zenon DEF Chosen
<1>3. given \in Seq(Lines) /\ KeyIds = 1 .. Len(options.keys) /\ Len(options.keys) \in Nat \ {0}
  BY <1>2, OptionsOK
<1>4. Len(given) \in Nat /\ DOMAIN given = 1 .. Len(given) /\ \A i \in 1 .. Len(given) : given[i] \in Lines
  BY <1>3
<1>5. \A i \in 1 .. Len(given) : [key |-> given[i], pos |-> i] \in Item
  BY <1>4 DEF Item
<1>6. /\ items \in Seq(Item) /\ Len(items) = Len(given)
      /\ \A i \in 1 .. Len(given) : items[i].key = given[i] /\ items[i].pos = i
  BY <1>1, <1>4, <1>5
<1>7. Types("start", items, aux, key, FALSE)
  BY <1>1, <1>2, <1>3, <1>6 DEF Types
<1>8. Kept(items)
  BY <1>4, <1>6 DEF Kept, Distinct
<1>9. Phase("start", {}, {}, key, FALSE)
  BY <1>1 DEF Phase, Working
<1>10. Ties(items)
  BY <1>6, Zenon DEF Ties, TiesWithin
<1>11. Holds("start", items, aux, {}, {}, key, FALSE)
  BY <1>7, <1>8, <1>9, <1>10, Zenon DEF Holds, Working
<1> QED BY <1>1, <1>11 DEF KInv

LEMMA StartRadixStep ==
  ASSUME KInv, StartRadix
  PROVE  KInv'
<1>1. pc = "start" /\ UNCHANGED <<sort_vars, items, aux, key, groups, reversed>>
  BY Zenon DEF StartRadix
<1>2. /\ Types(pc, items, aux, key, reversed) /\ Kept(items) /\ ~reversed /\ groups = {} /\ pending = {}
      /\ key = 1 /\ (Forward => Ties(items))
  BY <1>1 DEF KInv, Holds, Phase, Working
<1>3. Chosen /\ items \in Seq(Item) /\ key \in KeyIds
  BY <1>2 DEF Types
<1>4. KeyIds = 1 .. Len(options.keys) /\ Len(items) \in Nat /\ 1 \in KeyIds /\ Len(options.keys) \in Nat
  BY <1>2, <1>3, OptionsOK
<1>5. CASE Len(items) < 2
  <2>1. pc' = "done" /\ pending' = pending
    BY <1>5, Zenon DEF StartRadix
  <2>2. Types("done", items, aux, key, reversed)
    BY <1>2 DEF Types
  <2>3. Phase("done", {}, {}, key, reversed)
    BY DEF Phase, Working
  <2>4. Finished(items)
    <3>1. \A i, j \in 1 .. Len(items) : ~(i < j)
      BY <1>4, <1>5
    <3>2. Ties(items)
      BY <3>1, Zenon DEF Ties, TiesWithin
    <3> QED BY <3>1, <3>2, Zenon DEF Finished
  <2>5. Out(items, reversed) = items
    BY <1>2 DEF Out
  <2>6. Holds("done", items, aux, {}, {}, key, reversed)
    BY <1>2, <2>2, <2>3, <2>4, <2>5, Zenon DEF Holds, Working
  <2> QED BY <1>1, <1>2, <2>1, <2>6, HoldsNext
<1>6. CASE ~(Len(items) < 2)
  <2> DEFINE t == Range_(1, Len(items), 1, 0)
             P == {t}
  <2>1. pc' = "radix" /\ pending' = P
    BY <1>6, Zenon DEF StartRadix
  <2>2. /\ t \in RangeType /\ t.lo = 1 /\ t.hi = Len(items) /\ t.key = 1 /\ t.depth = 0
        /\ ~t.scattered /\ t.children = {}
    BY <1>4 DEF Range_, RangeType
  <2> HIDE DEF t
  <2>3. Blocks(P, {}) = {<<1, Len(items)>>} /\ BlockOf(t) = <<1, Len(items)>>
    BY <2>2 DEF Blocks, BlockOf
  <2>4. Within(<<1, Len(items)>>) = 1 .. Len(items)
    BY DEF Within
  <2>5. BlocksApart(Len(items), P, {})
    <3>1. \A b \in Blocks(P, {}) : b[1] \in 1 .. Len(items) /\ b[2] \in 1 .. Len(items) /\ b[1] <= b[2]
      BY <1>4, <1>6, <2>3
    <3> QED BY <3>1 DEF BlocksApart
  <2>6. Sorted(items, Blocks(P, {}), 1)
    <3>1. \A i, j \in 1 .. Len(items) : InBlock(Blocks(P, {}), i, j)
      BY <2>3, <2>4, Zenon DEF InBlock
    <3>2. \A i, j : SameKeys(items[i].key, items[j].key, 1 - 1)
      BY DEF SameKeys
    <3>3. \A m \in 1 .. 1 - 1 : InOrder(items, m)
      OBVIOUS
    <3> QED BY <3>1, <3>2, <3>3, Zenon DEF Sorted, Across, Alike
  <2>7. RangeOK(items, aux, 1, t)
    <3>1. \A i \in 1 .. Len(items) : KeyBytes(items[i], 1) \in Text
      BY <1>3, <1>4, ItemsHaveLines, OptionsOK DEF KeyBytes
    <3>2. AgreeTo(items, 1, Len(items), 1, 0)
      BY <3>1 DEF AgreeTo, Agree, Text
    <3> QED BY <1>4, <2>2, <3>2, ConstantsAssumption DEF RangeOK
  <2>8. Types("radix", items, aux, key, reversed)
    BY <1>2 DEF Types
  <2>9. Phase("radix", P, {}, key, reversed) /\ Cur("radix", key) = 1
    BY <1>2 DEF Phase, Working, Cur
  <2>10. Holds("radix", items, aux, P, {}, key, reversed)
    <3>1. \A u \in P : RangeOK(items, aux, 1, u)
      BY <2>7
    <3> HIDE DEF P
    <3> QED BY <1>2, <2>5, <2>6, <2>8, <2>9, <3>1, Zenon DEF Holds
  <2> HIDE DEF P
  <2> QED BY <1>1, <1>2, <2>1, <2>10, HoldsNext
<1> QED BY <1>5, <1>6

LEMMA KeyMonotonicStep ==
  ASSUME KInv, KeyMonotonic
  PROVE  KInv'
<1> DEFINE r == IF StrictlyDescending(1, Len(items), 1) THEN ~reversed ELSE reversed
<1>1. /\ pc = "start" /\ pc' = "done" /\ reversed' = r /\ Len(items) >= 2
      /\ options.stable /\ Len(options.keys) = 1
      /\ Ascending(1, Len(items), 1) \/ StrictlyDescending(1, Len(items), 1)
      /\ UNCHANGED <<sort_vars, items, aux, pending, key, groups>>
  BY Zenon DEF KeyMonotonic, StartsInOrder
<1>2. /\ Types(pc, items, aux, key, reversed) /\ Kept(items) /\ ~reversed /\ groups = {} /\ pending = {}
      /\ (Forward => Ties(items))
  BY <1>1 DEF KInv, Holds, Phase, Working
<1>3. Chosen /\ items \in Seq(Item) /\ key \in KeyIds
  BY <1>2 DEF Types
<1>4. /\ KeyIds = 1 .. 1 /\ 1 \in KeyIds /\ Len(items) \in Nat
      /\ 1 \in 1 .. Len(items) /\ Len(items) \in 1 .. Len(items)
  BY <1>1, <1>3, OptionsOK
<1>5. Types("done", items, aux, key, r)
  BY <1>2, Zenon DEF Types
<1> HIDE DEF r
<1>6. Phase("done", {}, {}, key, r)
  BY DEF Phase, Working
<1>7. Finished(Out(items, r))
  <2>1. CASE StrictlyDescending(1, Len(items), 1)
    <3> DEFINE s == Reverse(items)
    <3>1. Out(items, r) = s
      BY <1>2, <2>1 DEF Out, r
    <3>2. /\ s \in Seq(Item) /\ Len(s) = Len(items)
          /\ \A p \in 1 .. Len(items) :
               s[p] = items[Len(items) - p + 1] /\ Len(items) - p + 1 \in 1 .. Len(items)
      BY <1>3, ReverseIs
    <3> HIDE DEF s
    <3>3. \A p, q \in 1 .. Len(items) : p < q => KeyLess(items[q].key, items[p].key, 1)
      BY <1>3, <1>4, <2>1, Descends
    <3>4. ASSUME NEW i \in 1 .. Len(s), NEW j \in 1 .. Len(s), i < j
          PROVE  KeyLess(s[i].key, s[j].key, 1) /\ s[i].key \in Lines /\ s[j].key \in Lines
      <4>1. Len(items) - j + 1 < Len(items) - i + 1
        BY <1>4, <3>2, <3>4
      <4>2. /\ s[i] = items[Len(items) - i + 1] /\ Len(items) - i + 1 \in 1 .. Len(items)
            /\ s[j] = items[Len(items) - j + 1] /\ Len(items) - j + 1 \in 1 .. Len(items)
        BY <3>2, <3>4
      <4>3. s[i].key \in Lines /\ s[j].key \in Lines
        BY <3>2, ItemsHaveLines
      <4> QED BY <3>3, <4>1, <4>2, <4>3
    <3>5. InOrder(s, 1)
      <4> SUFFICES ASSUME NEW i \in 1 .. Len(s), NEW j \in 1 .. Len(s), i < j
                   PROVE  ~AtKey(s[j].key, s[i].key, 1)
        BY DEF InOrder, After
      <4>1. KeyLess(s[i].key, s[j].key, 1) /\ s[i].key \in Lines /\ s[j].key \in Lines
        BY <3>4
      <4>2. ~KeyLess(s[j].key, s[i].key, 1)
        BY <1>3, <1>4, <4>1, KeyOrder
      <4> QED BY <1>1, <4>2 DEF AtKey
    <3>6. Ties(s)
      <4> SUFFICES ASSUME NEW i \in 1 .. Len(s), NEW j \in 1 .. Len(s), i < j,
                          SameKeys(s[i].key, s[j].key, Len(options.keys))
                   PROVE  FALSE
        BY Zenon DEF Ties, TiesWithin
      <4>1. KeyLess(s[i].key, s[j].key, 1) /\ s[i].key \in Lines /\ s[j].key \in Lines
        BY <3>4
      <4>2. KeyOf(s[i].key, 1) = KeyOf(s[j].key, 1)
        BY <1>1 DEF SameKeys
      <4> QED BY <1>3, <1>4, <4>1, <4>2, KeyOrder
    <3>7. \A m \in KeyIds : InOrder(s, m)
      BY <1>4, <3>5
    <3>8. Finished(s)
      BY <1>1, <1>3, <3>2, <3>6, <3>7, FinishedIs
    <3> QED BY <3>1, <3>8
  <2>2. CASE ~StrictlyDescending(1, Len(items), 1)
    <3>1. Out(items, r) = items
      BY <1>2, <2>2 DEF Out, r
    <3>2. KeysInOrder(items, 1, Len(items), 1)
      BY <1>1, <1>3, <1>4, <2>2, Ascends
    <3>3. InOrder(items, 1)
      BY <1>1, <3>2 DEF InOrder, After, AtKey, KeysInOrder
    <3>4. \A m \in KeyIds : InOrder(items, m)
      BY <1>4, <3>3
    <3>5. Finished(items)
      BY <1>1, <1>2, <1>3, <3>4, FinishedIs
    <3> QED BY <3>1, <3>5
  <2> QED BY <2>1, <2>2
<1>8. Holds("done", items, aux, {}, {}, key, r)
  BY <1>2, <1>5, <1>6, <1>7, Zenon DEF Holds, Working
<1> QED BY <1>1, <1>2, <1>8, HoldsNext

LEMMA NextKeyStep ==
  ASSUME KInv, NextKey
  PROVE  KInv'
<1>1. /\ pc = "groups" /\ groups = {} /\ key' = key + 1 /\ pc' = "radix"
      /\ UNCHANGED <<sort_vars, items, aux, pending, groups, reversed>>
  BY Zenon DEF NextKey
<1>2. /\ Types(pc, items, aux, key, reversed) /\ Kept(items) /\ ~reversed /\ key < Len(options.keys)
      /\ BlocksApart(Len(items), pending, groups) /\ Sorted(items, Blocks(pending, groups), key + 1)
      /\ \A t \in pending : RangeOK(items, aux, key + 1, t)
      /\ (Forward => Ties(items))
  BY <1>1 DEF KInv, Holds, Phase, Working, Cur
<1>3. key + 1 \in KeyIds
  BY <1>2, OptionsOK DEF Types
<1>4. Types("radix", items, aux, key + 1, reversed)
  BY <1>2, <1>3, Zenon DEF Types
<1>5. Phase("radix", pending, groups, key + 1, reversed) /\ Cur("radix", key + 1) = key + 1
  BY <1>1, <1>2 DEF Phase, Working, Cur
<1>6. Holds("radix", items, aux, pending, groups, key + 1, reversed)
  BY <1>2, <1>4, <1>5, Zenon DEF Holds
<1> QED BY <1>1, <1>6, HoldsNext

LEMMA LastResortDoneStep ==
  ASSUME KInv, LastResortDone
  PROVE  KInv'
<1>1. /\ pc = "lastresort" /\ groups = {} /\ pc' = "done"
      /\ UNCHANGED <<sort_vars, items, aux, pending, key, groups, reversed>>
  BY Zenon DEF LastResortDone
<1>2. /\ Types(pc, items, aux, key, reversed) /\ Kept(items) /\ ~reversed /\ pending = {}
      /\ key = Len(options.keys) /\ ~options.stable /\ ~options.unique
      /\ Sorted(items, Blocks(pending, groups), key + 1)
  BY <1>1 DEF KInv, Holds, Phase, Working, Cur
<1>3. Chosen /\ items \in Seq(Item)
  BY <1>2 DEF Types
<1>4. KeyIds = 1 .. Len(options.keys) /\ Len(options.keys) \in Nat
  BY <1>3, OptionsOK
<1>5. \A m \in 1 .. key + 1 : InOrder(items, m)
  <2>1. Blocks(pending, groups) = {}
    BY <1>1, <1>2 DEF Blocks
  <2>2. key + 1 \in Nat /\ key + 1 >= 1
    BY <1>2, <1>4
  <2> QED BY <1>2, <2>1, <2>2, SortedNoBlocks
<1>6. Finished(items)
  <2>1. (\A m \in KeyIds : InOrder(items, m)) /\ InOrder(items, Len(options.keys) + 1)
    BY <1>2, <1>4, <1>5
  <2> QED BY <1>2, <1>3, <2>1, FinishedIs
<1>7. Types("done", items, aux, key, reversed)
  BY <1>2, Zenon DEF Types
<1>8. Phase("done", pending, groups, key, reversed)
  BY <1>1, <1>2 DEF Phase, Working
<1>9. Out(items, reversed) = items
  BY <1>2 DEF Out
<1>10. Holds("done", items, aux, pending, groups, key, reversed)
  BY <1>2, <1>6, <1>7, <1>8, <1>9, Zenon DEF Holds, Working
<1> QED BY <1>1, <1>10, HoldsNext

-----------------------------------------------------------------------------
(***************************************************************************)
(* The steps from key to key that move lines                               *)
(***************************************************************************)

LEMMA ApartGroup ==
  ASSUME NEW n, NEW P, NEW G, BlocksApart(n, P, G), NEW g \in G, g = <<g[1], g[2]>>
  PROVE  /\ BlocksApart(n, P, G \ {g})
         /\ Replaced(Blocks(P, G), Blocks(P, G \ {g}), g[1], g[2])
<1> DEFINE H == G \ {g}
<1>1. H \subseteq G /\ \A h \in G : h = g \/ h \in H
  OBVIOUS
<1> HIDE DEF H
<1>2. \A b \in Blocks(P, H) : b \in Blocks(P, G)
  BY <1>1 DEF Blocks
<1>3. \A b \in Blocks(P, G) : b = g \/ b \in Blocks(P, H)
  BY <1>1 DEF Blocks
<1>4. BlocksApart(n, P, H)
  BY <1>1, <1>2, Zenon DEF BlocksApart
<1>5. Replaced(Blocks(P, G), Blocks(P, H), g[1], g[2])
  BY <1>2, <1>3, Zenon DEF Replaced
<1> QED BY <1>4, <1>5 DEF H

LEMMA GroupToRange ==
  ASSUME NEW n, NEW P, NEW G, BlocksApart(n, P, G), NEW g \in G, NEW t, BlockOf(t) = g
  PROVE  /\ BlocksApart(n, P \cup {t}, G \ {g})
         /\ Blocks(P \cup {t}, G \ {g}) = Blocks(P, G)
<1> DEFINE H == G \ {g}
           Q == P \cup {t}
<1>1. Blocks(Q, H) = Blocks(P, G)
  BY DEF Blocks
<1>2. \A u, v \in Q : u # v => Within(BlockOf(u)) \cap Within(BlockOf(v)) = {}
  <2> SUFFICES ASSUME NEW u \in Q, NEW v \in Q, u # v
               PROVE  Within(BlockOf(u)) \cap Within(BlockOf(v)) = {}
    OBVIOUS
  <2>1. CASE u \in P /\ v \in P
    BY <2>1 DEF BlocksApart
  <2>2. CASE u \in P /\ v = t
    BY <2>2 DEF BlocksApart
  <2>3. CASE u = t /\ v \in P
    BY <2>3 DEF BlocksApart
  <2> QED BY <2>1, <2>2, <2>3
<1>3. \A h, f \in H : h # f => Within(h) \cap Within(f) = {}
  BY DEF BlocksApart
<1>4. ASSUME NEW u \in Q, NEW h \in H PROVE Within(BlockOf(u)) \cap Within(h) = {}
  <2>1. CASE u \in P
    BY <2>1 DEF BlocksApart
  <2>2. CASE u = t
    BY <2>2 DEF BlocksApart
  <2> QED BY <2>1, <2>2
<1> HIDE DEF H, Q
<1>5. \A b \in Blocks(Q, H) : b[1] \in 1 .. n /\ b[2] \in 1 .. n /\ b[1] <= b[2]
  BY <1>1, Zenon DEF BlocksApart
<1>6. BlocksApart(n, Q, H)
  BY <1>2, <1>3, <1>4, <1>5, Zenon DEF BlocksApart
<1> QED BY <1>1, <1>6 DEF H, Q

\* What the invariant says of a group that is taken.
LEMMA GroupFacts ==
  ASSUME KInv, pc = "groups" \/ pc = "lastresort", NEW g \in groups
  PROVE  /\ Chosen /\ items \in Seq(Item) /\ aux \in Seq(Item) /\ Len(aux) = Len(items)
         /\ key \in KeyIds /\ Kept(items) /\ ~reversed /\ Len(items) \in Nat
         /\ BlocksApart(Len(items), pending, groups)
         /\ Sorted(items, Blocks(pending, groups), key + 1)
         /\ \A u \in pending : RangeOK(items, aux, key + 1, u)
         /\ g = <<g[1], g[2]>> /\ g[1] \in Nat /\ g[2] \in Nat
         /\ g[1] \in 1 .. Len(items) /\ g[2] \in 1 .. Len(items) /\ g[1] <= g[2]
         /\ Alone(<<g[1], g[2]>>, Blocks(pending, groups))
         /\ \A b \in Blocks(pending, groups) : Within(b) \subseteq 1 .. Len(items)
         /\ \A u \in pending : u.lo .. u.hi \cap g[1] .. g[2] = {}
         /\ pc = "groups" /\ Forward => Ties(items)
         /\ key + 1 \in 1 .. Len(options.keys) + 1 /\ Len(options.keys) \in Nat
<1>1. /\ Chosen /\ items \in Seq(Item) /\ aux \in Seq(Item) /\ Len(aux) = Len(items)
      /\ key \in KeyIds /\ Len(items) = Len(given)
  BY DEF KInv, Holds, Types
<1>2. Kept(items)
  BY DEF KInv, Holds
<1>3. groups \subseteq Nat \X Nat /\ ~reversed
  BY DEF KInv, Holds, Phase
<1>4. /\ BlocksApart(Len(items), pending, groups)
      /\ Sorted(items, Blocks(pending, groups), key + 1)
      /\ \A u \in pending : RangeOK(items, aux, key + 1, u)
  BY DEF KInv, Holds, Working, Cur
<1>5. pc = "groups" /\ Forward => Ties(items)
  BY DEF KInv, Holds
<1>6. \A b \in Blocks(pending, groups) : b[1] \in 1 .. Len(items) /\ b[2] \in 1 .. Len(items) /\ b[1] <= b[2]
  BY <1>4 DEF BlocksApart
<1>7. Len(items) \in Nat
  BY <1>1
<1>8. g \in Blocks(pending, groups) /\ g = <<g[1], g[2]>> /\ g[1] \in Nat /\ g[2] \in Nat
  BY <1>3 DEF Blocks
<1>9. g[1] \in 1 .. Len(items) /\ g[2] \in 1 .. Len(items) /\ g[1] <= g[2]
  BY <1>6, <1>8
<1>10. Alone(<<g[1], g[2]>>, Blocks(pending, groups))
  <2>1. Alone(g, Blocks(pending, groups))
    BY <1>4, <1>8, BlocksAlone
  <2> QED BY <1>8, <2>1
<1>11. \A b \in Blocks(pending, groups) : Within(b) \subseteq 1 .. Len(items)
  BY <1>6, <1>7 DEF Within
<1>12. \A u \in pending : u.lo .. u.hi \cap g[1] .. g[2] = {}
  BY <1>4 DEF BlocksApart, Within, BlockOf
<1>13. key + 1 \in 1 .. Len(options.keys) + 1 /\ Len(options.keys) \in Nat
  BY <1>1, OptionsOK
<1> QED BY <1>1, <1>2, <1>3, <1>4, <1>5, <1>7, <1>8, <1>9, <1>10, <1>11, <1>12, <1>13, Zenon

\* What has to be shown of a step that takes a group.
LEMMA GroupHolds ==
  ASSUME KInv, pc = "groups" \/ pc = "lastresort", NEW s, NEW P, NEW G, G \subseteq groups,
         s \in Seq(Item), Len(s) = Len(items), Kept(s),
         BlocksApart(Len(s), P, G), Sorted(s, Blocks(P, G), key + 1),
         \A t \in P : RangeOK(s, aux, key + 1, t),
         pc = "groups" /\ Forward => Ties(s), pc = "lastresort" => P = pending
  PROVE  Holds(pc, s, aux, P, G, key, reversed)
<1>1. Types(pc, s, aux, key, reversed)
  BY DEF KInv, Holds, Types
<1>2. Phase(pc, P, G, key, reversed)
  BY DEF KInv, Holds, Phase, Working
<1>3. Cur(pc, key) = key + 1
  BY DEF Cur
<1>4. pc # "start" /\ pc # "radix" /\ pc # "done"
  OBVIOUS
<1> QED BY <1>1, <1>2, <1>3, <1>4, Zenon DEF Holds

\* A group is put in order and done with.
LEMMA GroupStep ==
  ASSUME KInv, pc = "groups" \/ pc = "lastresort", UNCHANGED <<pc, sort_vars, aux, pending, key, reversed>>,
         NEW g \in groups, NEW s, Moved(items, s, g[1], g[2]), items' = s, groups' = groups \ {g},
         \A i, j \in g[1] .. g[2] : i < j => ~AtKey(s[j].key, s[i].key, key + 1),
         pc = "groups" /\ Forward => TiesWithin(s, g[1], g[2])
  PROVE  KInv'
<1> DEFINE G == groups \ {g}
           B == Blocks(pending, groups)
<1>1. /\ Chosen /\ items \in Seq(Item) /\ aux \in Seq(Item) /\ Len(aux) = Len(items)
      /\ key \in KeyIds /\ Kept(items) /\ ~reversed /\ Len(items) \in Nat
      /\ BlocksApart(Len(items), pending, groups)
      /\ Sorted(items, B, key + 1)
      /\ \A u \in pending : RangeOK(items, aux, key + 1, u)
      /\ g = <<g[1], g[2]>> /\ g[1] \in Nat /\ g[2] \in Nat
      /\ g[1] \in 1 .. Len(items) /\ g[2] \in 1 .. Len(items) /\ g[1] <= g[2]
      /\ Alone(<<g[1], g[2]>>, B)
      /\ \A b \in B : Within(b) \subseteq 1 .. Len(items)
      /\ \A u \in pending : u.lo .. u.hi \cap g[1] .. g[2] = {}
      /\ pc = "groups" /\ Forward => Ties(items)
      /\ key + 1 \in 1 .. Len(options.keys) + 1 /\ Len(options.keys) \in Nat
  BY GroupFacts
<1>2. /\ BlocksApart(Len(items), pending, G)
      /\ Replaced(B, Blocks(pending, G), g[1], g[2])
  BY <1>1, ApartGroup
<1> HIDE DEF B
<1>3. Sorted(s, Blocks(pending, G), key + 1)
  <2> HIDE DEF G
  <2>1. \A i, j \in g[1] .. g[2] :
          i < j => InBlock(Blocks(pending, G), i, j) \/ ~AtKey(s[j].key, s[i].key, key + 1)
    OBVIOUS
  <2>2. /\ Chosen /\ items \in Seq(Item) /\ key + 1 \in 1 .. Len(options.keys) + 1
        /\ g[1] \in 1 .. Len(items) /\ g[2] \in 1 .. Len(items)
        /\ Sorted(items, B, key + 1) /\ Alone(<<g[1], g[2]>>, B)
        /\ \A b \in B : Within(b) \subseteq 1 .. Len(items)
    BY <1>1, Zenon
  <2> QED BY <1>2, <2>1, <2>2, SortedLess, Zenon
<1>4. s \in Seq(Item) /\ Len(s) = Len(items) /\ Kept(s)
      /\ \A p \in 1 .. Len(items) : p \notin g[1] .. g[2] => s[p] = items[p]
  <2>1. Kept(s)
    BY <1>1, KeptMoved
  <2> QED BY <2>1 DEF Moved
<1>5. ASSUME NEW u \in pending PROVE RangeOK(s, aux, key + 1, u)
  <2>1. RangeOK(items, aux, key + 1, u) /\ u.lo .. u.hi \cap g[1] .. g[2] = {}
    BY <1>1
  <2>2. u.lo .. u.hi \subseteq 1 .. Len(items)
    <3>1. BlockOf(u) \in B
      BY DEF Blocks, B
    <3>2. Within(BlockOf(u)) = u.lo .. u.hi
      BY DEF Within, BlockOf
    <3> QED BY <1>1, <3>1, <3>2
  <2>3. \A p \in u.lo .. u.hi : s[p] = items[p] /\ aux[p] = aux[p]
    BY <1>4, <2>1, <2>2
  <2> QED BY <2>1, <2>3, RangeElsewhere
<1>6. pc = "groups" /\ Forward => Ties(s)
  <2>1. items \in Seq(Item) /\ g[1] \in 1 .. Len(items) /\ g[2] \in 1 .. Len(items)
    BY <1>1
  <2>2. pc = "groups" /\ Forward => Ties(items)
    BY <1>1
  <2> QED BY <2>1, <2>2, TiesMoved
<1>7. G \subseteq groups
  OBVIOUS
<1> HIDE DEF G
<1>8. Holds(pc, s, aux, pending, G, key, reversed)
  <2>1. BlocksApart(Len(s), pending, G)
    BY <1>2, <1>4
  <2> QED BY <1>3, <1>4, <1>5, <1>6, <1>7, <2>1, GroupHolds
<1>9. groups' = G
  BY DEF G
<1> QED BY <1>8, <1>9, HoldsNext

\* Lines of a range, backwards.
LEMMA ReverseFills ==
  ASSUME NEW s \in Seq(Item), NEW lo \in Nat, NEW hi \in Nat, lo <= hi, NEW part, Fills(part, s, lo, hi)
  PROVE  /\ Fills(Reverse(part), s, lo, hi)
         /\ \A n \in 1 .. hi - lo + 1 :
              Reverse(part)[n] = part[hi - lo + 1 - n + 1] /\ hi - lo + 1 - n + 1 \in 1 .. hi - lo + 1
<1> DEFINE size == hi - lo + 1
           back == Reverse(part)
           at(n) == size - n + 1
<1>1. /\ part \in Seq(Item) /\ Len(part) = size
      /\ \A n \in 1 .. size : \E i \in lo .. hi : part[n] = s[i]
      /\ Distinct(s) => \A m, n \in 1 .. size : m # n => part[m] # part[n]
  BY Zenon DEF Fills
<1>2. size \in Nat
  OBVIOUS
<1> HIDE DEF size
<1>3. /\ back \in Seq(Item) /\ Len(back) = size
      /\ \A n \in 1 .. size : back[n] = part[at(n)] /\ at(n) \in 1 .. size
  BY <1>1, ReverseIs
<1> HIDE DEF back
<1>4. \A m, n \in 1 .. size : m # n => at(m) # at(n)
  BY <1>2
<1> HIDE DEF at
<1>5. ASSUME NEW n \in 1 .. size PROVE \E i \in lo .. hi : back[n] = s[i]
  <2>1. back[n] = part[at(n)] /\ at(n) \in 1 .. size
    BY <1>3
  <2>2. PICK i \in lo .. hi : part[at(n)] = s[i]
    BY <1>1, <2>1, Zenon
  <2> QED BY <2>1, <2>2
<1>6. ASSUME Distinct(s), NEW m \in 1 .. size, NEW n \in 1 .. size, m # n PROVE back[m] # back[n]
  <2>1. at(m) # at(n)
    BY <1>4, <1>6, Zenon
  <2>2. /\ back[m] = part[at(m)] /\ at(m) \in 1 .. size
        /\ back[n] = part[at(n)] /\ at(n) \in 1 .. size
    BY <1>3
  <2>3. part[at(m)] # part[at(n)]
    BY <1>1, <1>6, <2>1, <2>2, Zenon
  <2> QED BY <2>2, <2>3
<1>7. Fills(back, s, lo, hi)
  BY <1>3, <1>5, <1>6, Zenon DEF Fills, size
<1>8. \A n \in 1 .. size : back[n] = part[size - n + 1] /\ size - n + 1 \in 1 .. size
  BY <1>3 DEF at
<1>9. Fills(Reverse(part), s, lo, hi)
  BY <1>7 DEF back
<1>10. \A n \in 1 .. size : Reverse(part)[n] = part[size - n + 1] /\ size - n + 1 \in 1 .. size
  BY <1>8 DEF back
<1> QED BY <1>9, <1>10 DEF size

LEMMA ReversedIs ==
  ASSUME NEW s \in Seq(Item), NEW lo \in 1 .. Len(s), NEW hi \in 1 .. Len(s), lo <= hi, Distinct(s)
  PROVE  /\ Moved(s, Reversed(s, lo, hi), lo, hi)
         /\ \A p \in lo .. hi : Reversed(s, lo, hi)[p] = s[lo + hi - p]
<1> DEFINE size == hi - lo + 1
           part == SubSeq(s, lo, hi)
           back == Reverse(part)
           t == Splice(s, lo, back)
<1>1. lo \in Nat /\ hi \in Nat /\ lo <= hi /\ size \in Nat /\ hi + 1 - lo = size
  OBVIOUS
<1>2. lo \in 1 .. Len(s) + 1 /\ hi \in 0 .. Len(s) /\ lo <= hi + 1
  OBVIOUS
<1>3. /\ part \in Seq(Item) /\ Len(part) = hi + 1 - lo
      /\ \A n \in 1 .. hi + 1 - lo : part[n] = s[lo + n - 1]
  BY <1>2, Part
<1> HIDE DEF part
<1>4. Fills(part, s, lo, hi)
  <2>1. ASSUME NEW n \in 1 .. hi - lo + 1
        PROVE  part[n] = s[lo + n - 1] /\ lo + n - 1 \in lo .. hi /\ lo + n - 1 \in 1 .. Len(s)
    <3>1. n \in 1 .. hi + 1 - lo
      BY <1>1
    <3>2. lo + n - 1 \in lo .. hi /\ lo + n - 1 \in 1 .. Len(s)
      BY <1>1
    <3> QED BY <1>3, <3>1, <3>2, Zenon
  <2>2. \A n \in 1 .. hi - lo + 1 : \E i \in lo .. hi : part[n] = s[i]
    BY <2>1, Zenon
  <2>3. \A m, n \in 1 .. hi - lo + 1 : m # n => part[m] # part[n]
    <3> SUFFICES ASSUME NEW m \in 1 .. hi - lo + 1, NEW n \in 1 .. hi - lo + 1, m # n
                 PROVE  part[m] # part[n]
      BY Zenon
    <3>1. lo + m - 1 # lo + n - 1
      BY <1>1
    <3>2. s[lo + m - 1] # s[lo + n - 1]
      BY <2>1, <3>1, Zenon DEF Distinct
    <3>3. part[m] = s[lo + m - 1] /\ part[n] = s[lo + n - 1]
      BY <2>1, Zenon
    <3> QED BY <3>2, <3>3
  <2>4. part \in Seq(Item) /\ Len(part) = hi - lo + 1
    BY <1>1, <1>3
  <2> QED BY <2>2, <2>3, <2>4, Zenon DEF Fills
<1>5. /\ Fills(back, s, lo, hi)
      /\ \A n \in 1 .. hi - lo + 1 :
           back[n] = part[hi - lo + 1 - n + 1] /\ hi - lo + 1 - n + 1 \in 1 .. hi - lo + 1
  BY <1>1, <1>4, ReverseFills
<1> HIDE DEF back
<1>6. /\ Moved(s, t, lo, hi)
      /\ \A p \in lo .. hi : t[p] = back[p - lo + 1]
  <2>1. Fills(back, s, lo, hi)
    BY <1>5
  <2> QED BY <2>1, SpliceMoved
<1> HIDE DEF t
<1>7. ASSUME NEW p \in lo .. hi PROVE t[p] = s[lo + hi - p]
  <2> DEFINE n == p - lo + 1
             m == hi - lo + 1 - n + 1
  <2>1. /\ n \in 1 .. hi - lo + 1 /\ m \in 1 .. hi + 1 - lo
        /\ lo + m - 1 = lo + hi - p
    BY <1>1
  <2>2. t[p] = back[n] /\ back[n] = part[m]
    BY <1>5, <1>6, <2>1, Zenon
  <2>3. part[m] = s[lo + m - 1]
    BY <1>3, <2>1, Zenon
  <2> HIDE DEF n, m
  <2> QED BY <2>1, <2>2, <2>3
<1>8. t = Reversed(s, lo, hi)
  BY DEF t, back, part, Reversed
<1> QED BY <1>6, <1>7, <1>8, Zenon

LEMMA DescendGroupStep ==
  ASSUME KInv, NEW g \in groups, DescendGroup(g)
  PROVE  KInv'
<1> DEFINE k == key + 1
           lo == g[1]
           hi == g[2]
<1>1. /\ pc = "groups" /\ groups' = groups \ {g}
      /\ UNCHANGED <<pc, sort_vars, aux, key, reversed>>
  BY Zenon DEF DescendGroup
<1>2. /\ Chosen /\ items \in Seq(Item) /\ aux \in Seq(Item) /\ Len(aux) = Len(items)
      /\ key \in KeyIds /\ Kept(items) /\ ~reversed /\ Len(items) \in Nat
      /\ BlocksApart(Len(items), pending, groups)
      /\ Sorted(items, Blocks(pending, groups), k)
      /\ \A u \in pending : RangeOK(items, aux, k, u)
      /\ g = <<lo, hi>> /\ lo \in Nat /\ hi \in Nat
      /\ lo \in 1 .. Len(items) /\ hi \in 1 .. Len(items) /\ lo <= hi
      /\ Forward => Ties(items)
      /\ k \in 1 .. Len(options.keys) + 1 /\ Len(options.keys) \in Nat
  BY <1>1, GroupFacts
<1>3. k \in KeyIds /\ KeyIds = 1 .. Len(options.keys) /\ k <= Len(options.keys)
  <2>1. key < Len(options.keys)
    BY <1>1 DEF KInv, Holds, Phase
  <2> QED BY <1>2, <2>1, OptionsOK
<1>4. lo .. hi \subseteq 1 .. Len(items)
  BY <1>2
<1> HIDE DEF k, lo, hi
<1>5. CASE Ascending(lo, hi, k) /\ UNCHANGED <<items, pending>>
  <2>1. KeysInOrder(items, lo, hi, k)
    BY <1>2, <1>3, <1>5, Ascends
  <2>2. \A i, j \in lo .. hi : i < j => ~AtKey(items[j].key, items[i].key, k)
    BY <1>3, <2>1 DEF KeysInOrder, AtKey
  <2>3. Moved(items, items, lo, hi)
    BY <1>2, MovedNone
  <2>4. Forward => TiesWithin(items, lo, hi)
    BY <1>2, <1>4 DEF Ties, TiesWithin
  <2>5. \A i, j \in g[1] .. g[2] : i < j => ~AtKey(items[j].key, items[i].key, key + 1)
    BY <2>2, Zenon DEF k, lo, hi
  <2>6. Moved(items, items, g[1], g[2]) /\ (pc = "groups" /\ Forward => TiesWithin(items, g[1], g[2]))
    BY <2>3, <2>4, Zenon DEF lo, hi
  <2>7. UNCHANGED <<pc, sort_vars, aux, pending, key, reversed>> /\ items' = items
    BY <1>1, <1>5
  <2> QED BY <1>1, <2>5, <2>6, <2>7, GroupStep
<1>6. CASE /\ StrictlyDescending(lo, hi, k) /\ items' = Reversed(items, lo, hi) /\ UNCHANGED pending
  <2> DEFINE s == Reversed(items, lo, hi)
  <2>1. Moved(items, s, lo, hi) /\ \A p \in lo .. hi : s[p] = items[lo + hi - p]
    BY <1>2, ReversedIs DEF Kept
  <2>2. \A p, q \in lo .. hi : p < q => KeyLess(items[q].key, items[p].key, k)
    BY <1>2, <1>3, <1>6, Descends
  <2> HIDE DEF s
  <2>3. ASSUME NEW i \in lo .. hi, NEW j \in lo .. hi, i < j
        PROVE  /\ KeyLess(s[i].key, s[j].key, k)
               /\ s[i].key \in Lines /\ s[j].key \in Lines
    <3>1. lo + hi - i \in lo .. hi /\ lo + hi - j \in lo .. hi /\ lo + hi - j < lo + hi - i
      BY <1>2, <2>3
    <3>2. s[i] = items[lo + hi - i] /\ s[j] = items[lo + hi - j]
      BY <2>1
    <3>3. lo + hi - i \in 1 .. Len(items) /\ lo + hi - j \in 1 .. Len(items)
      BY <1>4, <3>1
    <3>4. items[lo + hi - i].key \in Lines /\ items[lo + hi - j].key \in Lines
      BY <1>2, <3>3, ItemsHaveLines
    <3>5. KeyLess(items[lo + hi - i].key, items[lo + hi - j].key, k)
      BY <2>2, <3>1
    <3> QED BY <3>2, <3>4, <3>5
  <2>4. ASSUME NEW i \in lo .. hi, NEW j \in lo .. hi, i < j
        PROVE  ~AtKey(s[j].key, s[i].key, k) /\ KeyOf(s[i].key, k) # KeyOf(s[j].key, k)
    <3>1. KeyLess(s[i].key, s[j].key, k) /\ s[i].key \in Lines /\ s[j].key \in Lines
      BY <2>3, <2>4
    <3>2. ~KeyLess(s[j].key, s[i].key, k) /\ KeyOf(s[i].key, k) # KeyOf(s[j].key, k)
      BY <1>2, <1>3, <3>1, KeyOrder
    <3> QED BY <1>3, <3>2 DEF AtKey
  <2>5. TiesWithin(s, lo, hi)
    <3>1. k \in 1 .. Len(options.keys)
      BY <1>3
    <3> QED BY <2>4, <3>1, Zenon DEF TiesWithin, SameKeys
  <2>6. \A i, j \in g[1] .. g[2] : i < j => ~AtKey(s[j].key, s[i].key, key + 1)
    BY <2>4, Zenon DEF k, lo, hi
  <2>7. Moved(items, s, g[1], g[2]) /\ (pc = "groups" /\ Forward => TiesWithin(s, g[1], g[2]))
    BY <2>1, <2>5, Zenon DEF lo, hi
  <2>8. UNCHANGED <<pc, sort_vars, aux, pending, key, reversed>> /\ items' = s
    BY <1>1, <1>6 DEF s
  <2> QED BY <1>1, <2>6, <2>7, <2>8, GroupStep
<1>7. CASE pending' = pending \cup {Range_(lo, hi, k, 0)} /\ UNCHANGED items
  <2> DEFINE t == Range_(lo, hi, k, 0)
             P == pending \cup {t}
             G == groups \ {g}
  <2>1. /\ t \in RangeType /\ t.lo = lo /\ t.hi = hi /\ t.key = k /\ t.depth = 0
        /\ ~t.scattered /\ t.children = {}
    BY <1>2, <1>3 DEF Range_, RangeType
  <2> HIDE DEF t
  <2>2. BlockOf(t) = g
    BY <1>2, <2>1 DEF BlockOf
  <2>3. /\ BlocksApart(Len(items), P, G)
        /\ Blocks(P, G) = Blocks(pending, groups)
    <3>1. BlocksApart(Len(items), pending, groups)
      BY <1>2
    <3> QED BY <2>2, <3>1, GroupToRange
  <2>4. RangeOK(items, aux, k, t)
    <3>1. \A i \in lo .. hi : KeyBytes(items[i], k) \in Text
      BY <1>2, <1>3, <1>4, ItemsHaveLines, OptionsOK DEF KeyBytes
    <3>2. AgreeTo(items, lo, hi, k, 0)
      BY <3>1 DEF AgreeTo, Agree, Text
    <3> QED BY <1>3, <2>1, <3>2, ConstantsAssumption DEF RangeOK
  <2>5. \A u \in P : RangeOK(items, aux, key + 1, u)
    BY <1>2, <2>4 DEF k
  <2>6. G \subseteq groups
    OBVIOUS
  <2>7. groups' = G /\ pending' = P /\ UNCHANGED <<pc, sort_vars, items, aux, key, reversed>>
    BY <1>1, <1>7 DEF t
  <2> HIDE DEF P, G
  <2>8. Sorted(items, Blocks(P, G), key + 1)
    BY <1>2, <2>3 DEF k
  <2>9. Holds(pc, items, aux, P, G, key, reversed)
    BY <1>1, <1>2, <2>3, <2>5, <2>6, <2>8, GroupHolds
  <2> QED BY <2>7, <2>9, HoldsNext
<1> QED BY <1>5, <1>6, <1>7, Zenon DEF DescendGroup, k, lo, hi

\* The lines of a range in the order of their bytes.
LEMMA ByLineIs ==
  ASSUME items \in Seq(Item), NEW lo \in 1 .. Len(items), NEW hi \in 1 .. Len(items), lo <= hi
  PROVE  /\ Fills(ByLine(lo, hi), items, lo, hi)
         /\ \A m, n \in 1 .. hi - lo + 1 : m < n => ByLine(lo, hi)[m].key <= ByLine(lo, hi)[n].key
         /\ \A n \in 1 .. hi - lo + 1 : ByLine(lo, hi)[n].key \in Nat
<1> DEFINE goes(j, i) == items[j].key < items[i].key \/ (items[j].key = items[i].key /\ j < i)
           ahead == [i \in lo .. hi |-> {j \in lo .. hi : goes(j, i)}]
           size == hi - lo + 1
           at(n) == CHOOSE i \in lo .. hi : lo + Cardinality(ahead[i]) = lo + n - 1
           source == [n \in 1 .. size |-> at(n)]
           part == [n \in 1 .. size |-> items[source[n]]]
<1>1. lo \in Nat /\ hi \in Nat /\ lo .. hi \subseteq 1 .. Len(items) /\ size \in Nat
  OBVIOUS
<1>2. \A i \in lo .. hi : items[i].key \in Nat
  <2> TAKE i \in lo .. hi
  <2>1. i \in 1 .. Len(items)
    BY <1>1
  <2>2. items[i].key \in Lines
    BY <2>1, ItemsHaveLines
  <2> QED BY <2>2, ConstantsAssumption
<1>3. /\ \A i \in lo .. hi : ~goes(i, i)
      /\ \A i, j, l \in lo .. hi : goes(l, j) /\ goes(j, i) => goes(l, i)
      /\ \A i, j \in lo .. hi : i # j => goes(j, i) \/ goes(i, j)
      /\ \A i, j \in lo .. hi : goes(j, i) => items[j].key <= items[i].key
  <2>1. \A i \in lo .. hi : ~goes(i, i)
    BY <1>1, <1>2
  <2>2. ASSUME NEW i \in lo .. hi, NEW j \in lo .. hi, NEW l \in lo .. hi, goes(l, j), goes(j, i)
        PROVE  goes(l, i)
    <3>1. items[i].key \in Nat /\ items[j].key \in Nat /\ items[l].key \in Nat
      BY <1>2
    <3> QED BY <2>2, <3>1, <1>1, SMTT(30)
  <2>3. ASSUME NEW i \in lo .. hi, NEW j \in lo .. hi, i # j
        PROVE  goes(j, i) \/ goes(i, j)
    <3>1. items[i].key \in Nat /\ items[j].key \in Nat
      BY <1>2
    <3> QED BY <2>3, <3>1, <1>1
  <2>4. \A i, j \in lo .. hi : goes(j, i) => items[j].key <= items[i].key
    BY <1>1, <1>2
  <2> HIDE DEF goes
  <2> QED BY <2>1, <2>2, <2>3, <2>4, Zenon
<1> HIDE DEF goes
<1>4. \A i, j \in lo .. hi : j \in ahead[i] <=> goes(j, i)
  OBVIOUS
<1>5. Orders(lo, hi, ahead)
  <2>1. ahead \in [lo .. hi -> SUBSET (lo .. hi)]
    OBVIOUS
  <2> HIDE DEF ahead
  <2>2. \A i \in lo .. hi : i \notin ahead[i]
    BY <1>3, <1>4
  <2>3. \A i, j \in lo .. hi : j \in ahead[i] => ahead[j] \subseteq ahead[i]
    <3> SUFFICES ASSUME NEW i \in lo .. hi, NEW j \in lo .. hi, j \in ahead[i], NEW l \in ahead[j]
                 PROVE  l \in ahead[i]
      OBVIOUS
    <3>1. l \in lo .. hi
      BY <2>1
    <3> QED BY <1>3, <1>4, <3>1
  <2>4. \A i, j \in lo .. hi : i # j => j \in ahead[i] \/ i \in ahead[j]
    BY <1>3, <1>4
  <2> QED BY <2>1, <2>2, <2>3, <2>4, Zenon DEF Orders
<1> HIDE DEF ahead
<1>6. ASSUME NEW n \in 1 .. size
      PROVE  at(n) \in lo .. hi /\ lo + Cardinality(ahead[at(n)]) = lo + n - 1
  <2>1. lo + n - 1 \in lo .. hi
    BY <1>1
  <2>2. \E i \in lo .. hi : lo + Cardinality(ahead[i]) = lo + n - 1
    BY <1>1, <1>5, <2>1, Placed
  <2> QED BY <2>2, Zenon
<1> HIDE DEF at
<1>7. /\ source \in [1 .. size -> lo .. hi]
      /\ \A n \in 1 .. size : lo + Cardinality(ahead[source[n]]) = lo + n - 1
  BY <1>6
<1> HIDE DEF source
<1>8. /\ part \in Seq(Item) /\ Len(part) = size
      /\ \A n \in 1 .. size : part[n] = items[source[n]]
      /\ Distinct(items) => \A m, n \in 1 .. size : m # n => part[m] # part[n]
      /\ \A m, n \in 1 .. size : m < n => source[m] \in ahead[source[n]]
  BY <1>5, <1>7, Arranged
<1>9. ByLine(lo, hi) = part
  <2>1. \A i \in lo .. hi : Cardinality({j \in lo .. hi : goes(j, i)}) = Cardinality(ahead[i])
    BY Zenon DEF ahead
  <2> DEFINE line(n) ==
        CHOOSE i \in lo .. hi : lo + Cardinality({j \in lo .. hi : goes(j, i)}) = lo + n - 1
  <2>2. \A n : line(n) = at(n)
    BY <2>1 DEF at
  <2>3. ByLine(lo, hi) = [n \in 1 .. size |-> items[line(n)]]
    BY Zenon DEF ByLine, goes
  <2> HIDE DEF line
  <2>4. \A n \in 1 .. size : source[n] = line(n)
    BY <2>2 DEF source
  <2> QED BY <2>3, <2>4
<1> HIDE DEF part, size
<1>10. Fills(part, items, lo, hi)
  <2>1. \A n \in 1 .. size : \E i \in lo .. hi : part[n] = items[i]
    BY <1>7, <1>8
  <2> QED BY <1>8, <2>1, Zenon DEF Fills, size
<1>11. ASSUME NEW m \in 1 .. size, NEW n \in 1 .. size, m < n PROVE part[m].key <= part[n].key
  <2>1. source[m] \in lo .. hi /\ source[n] \in lo .. hi
    BY <1>7
  <2>2. goes(source[m], source[n])
    BY <1>4, <1>8, <1>11, <2>1
  <2>3. part[m] = items[source[m]] /\ part[n] = items[source[n]]
    BY <1>8
  <2> QED BY <1>3, <2>1, <2>2, <2>3
<1>12. ASSUME NEW n \in 1 .. size PROVE part[n].key \in Nat
  BY <1>2, <1>7, <1>8
<1> QED BY <1>9, <1>10, <1>11, <1>12, Zenon DEF size

LEMMA LastResortStep ==
  ASSUME KInv, NEW g \in groups, LastResort(g)
  PROVE  KInv'
<1> DEFINE k == key + 1
           lo == g[1]
           hi == g[2]
           L == ByLine(g[1], g[2])
           part == IF options.reverse THEN Reverse(L) ELSE L
           s == Splice(items, g[1], part)
<1>1. /\ pc = "lastresort" /\ groups' = groups \ {g} /\ items' = s
      /\ UNCHANGED <<pc, sort_vars, aux, pending, key, reversed>>
  BY Zenon DEF LastResort
<1>2. /\ items \in Seq(Item) /\ lo \in Nat /\ hi \in Nat
      /\ lo \in 1 .. Len(items) /\ hi \in 1 .. Len(items) /\ lo <= hi
      /\ Chosen /\ k = key + 1 /\ Len(options.keys) \in Nat
  BY <1>1, GroupFacts
<1>3. key = Len(options.keys)
  BY <1>1 DEF KInv, Holds, Phase
<1> HIDE DEF k
<1>4. /\ Fills(L, items, lo, hi)
      /\ \A m, n \in 1 .. hi - lo + 1 : m < n => L[m].key <= L[n].key
      /\ \A n \in 1 .. hi - lo + 1 : L[n].key \in Nat
  BY <1>2, ByLineIs
<1> HIDE DEF L
<1>5. /\ Fills(Reverse(L), items, lo, hi)
      /\ \A n \in 1 .. hi - lo + 1 :
           Reverse(L)[n] = L[hi - lo + 1 - n + 1] /\ hi - lo + 1 - n + 1 \in 1 .. hi - lo + 1
  BY <1>2, <1>4, ReverseFills
<1>6. Fills(part, items, lo, hi)
  BY <1>4, <1>5
<1>7. ASSUME NEW m \in 1 .. hi - lo + 1, NEW n \in 1 .. hi - lo + 1, m < n
      PROVE  ~AtKey(part[n].key, part[m].key, k)
  <2>1. ~(k <= Len(options.keys))
    BY <1>2, <1>3
  <2>2. CASE options.reverse
    <3> DEFINE a == hi - lo + 1 - m + 1
               b == hi - lo + 1 - n + 1
    <3>0. lo \in Nat /\ hi \in Nat /\ lo <= hi
      BY <1>2
    <3>1. a \in 1 .. hi - lo + 1 /\ b \in 1 .. hi - lo + 1 /\ b < a
      <4> HIDE DEF lo, hi
      <4> QED BY <1>7, <3>0
    <3>2. part[m] = L[a] /\ part[n] = L[b]
      BY <1>5, <2>2
    <3> HIDE DEF a, b
    <3>3. L[b].key <= L[a].key /\ L[a].key \in Nat /\ L[b].key \in Nat
      BY <1>4, <3>1
    <3>4. ~(part[m].key < part[n].key)
      BY <3>2, <3>3
    <3> QED BY <2>1, <2>2, <3>4 DEF AtKey
  <2>3. CASE ~options.reverse
    <3>1. part[m] = L[m] /\ part[n] = L[n]
      BY <2>3
    <3>2. L[m].key <= L[n].key /\ L[m].key \in Nat /\ L[n].key \in Nat
      BY <1>4, <1>7
    <3>3. ~(part[n].key < part[m].key)
      BY <3>1, <3>2
    <3> QED BY <2>1, <2>3, <3>3 DEF AtKey
  <2> QED BY <2>2, <2>3
<1> HIDE DEF part
<1>8. /\ Moved(items, s, lo, hi)
      /\ \A p \in lo .. hi : s[p] = part[p - lo + 1]
  BY <1>2, <1>6, SpliceMoved
<1> HIDE DEF s
<1>9. ASSUME NEW i \in lo .. hi, NEW j \in lo .. hi, i < j PROVE ~AtKey(s[j].key, s[i].key, k)
  <2>1. i - lo + 1 \in 1 .. hi - lo + 1 /\ j - lo + 1 \in 1 .. hi - lo + 1 /\ i - lo + 1 < j - lo + 1
    BY <1>2, <1>9, SMTT(30)
  <2>2. s[i] = part[i - lo + 1] /\ s[j] = part[j - lo + 1]
    BY <1>8
  <2>3. ~AtKey(part[j - lo + 1].key, part[i - lo + 1].key, k)
    BY <1>7, <2>1
  <2> QED BY <2>2, <2>3
<1>10. \A i, j \in g[1] .. g[2] : i < j => ~AtKey(s[j].key, s[i].key, key + 1)
  BY <1>9, Zenon DEF k
<1> HIDE DEF lo, hi
<1>11. Moved(items, s, g[1], g[2]) /\ pc # "groups"
  BY <1>1, <1>8 DEF lo, hi
<1> QED BY <1>1, <1>10, <1>11, GroupStep

LEMMA KInvNext ==
  ASSUME KInv, [Next]_vars
  PROVE  KInv'
<1>1. CASE KeyMonotonic
  BY <1>1, KeyMonotonicStep
<1>2. CASE StartRadix
  BY <1>2, StartRadixStep
<1>3. ASSUME NEW t \in pending, Scatter(t) PROVE KInv'
  BY <1>3, ScatterStep
<1>4. ASSUME NEW t \in pending, CopyBack(t) PROVE KInv'
  BY <1>4, CopyBackStep
<1>5. ASSUME NEW t \in pending, Insert(t) PROVE KInv'
  BY <1>5, InsertStep
<1>6. CASE KeyDone
  BY <1>6, KeyDoneStep
<1>7. CASE NextKey
  BY <1>7, NextKeyStep
<1>8. CASE LastResortDone
  BY <1>8, LastResortDoneStep
<1>9. ASSUME NEW g \in groups, DescendGroup(g) PROVE KInv'
  BY <1>9, DescendGroupStep
<1>10. ASSUME NEW g \in groups, LastResort(g) PROVE KInv'
  BY <1>10, LastResortStep
<1>11. CASE UNCHANGED vars
  <2>1. UNCHANGED sort_vars /\ Holds(pc, items, aux, pending, groups, key, reversed)
    BY <1>11 DEF vars, sort_vars, KInv
  <2> QED BY <1>11, <2>1, HoldsNext DEF vars
<1> QED BY <1>1, <1>2, <1>3, <1>4, <1>5, <1>6, <1>7, <1>8, <1>9, <1>10, <1>11, Zenon DEF Next, Done

LEMMA KInvAlways == Spec => []KInv
<1>1. Init => KInv
  BY InitKInv
<1>2. KInv /\ [Next]_vars => KInv'
  BY KInvNext
<1> QED BY <1>1, <1>2, PTL DEF Spec

-----------------------------------------------------------------------------
(***************************************************************************)
(* What the invariant says                                                 *)
(***************************************************************************)

LEMMA KInvTypes ==
  ASSUME KInv
  PROVE  TypeOK
<1>1. Types(pc, items, aux, key, reversed) /\ Phase(pc, pending, groups, key, reversed)
  BY DEF KInv, Holds
<1>2. /\ pc \in {"start", "radix", "groups", "lastresort", "done"} /\ Chosen
      /\ items \in Seq(Item) /\ aux \in Seq(Item) /\ Len(items) = Len(given) /\ Len(aux) = Len(given)
      /\ key \in KeyIds /\ reversed \in BOOLEAN
  BY <1>1, Zenon DEF Types
<1>3. options \in OptionsType /\ given \in Seq(Lines)
  BY <1>2, OptionsOK
<1>4. DOMAIN items = 1 .. Len(items)
  BY <1>2
<1>5. ASSUME NEW t \in pending
      PROVE  /\ t.lo \in DOMAIN items /\ t.hi \in DOMAIN items
             /\ t.key \in KeyIds /\ t.depth \in Nat /\ t.scattered \in BOOLEAN
  <2>1. BlocksApart(Len(items), pending, groups) /\ RangeOK(items, aux, Cur(pc, key), t)
    BY <1>1 DEF KInv, Holds, Phase
  <2>2. t.key \in KeyIds /\ t.depth \in Nat /\ t.scattered \in BOOLEAN
    BY <2>1 DEF RangeOK, RangeType
  <2>3. BlockOf(t) \in Blocks(pending, groups) /\ BlockOf(t)[1] = t.lo /\ BlockOf(t)[2] = t.hi
    BY DEF Blocks, BlockOf
  <2>4. t.lo \in 1 .. Len(items) /\ t.hi \in 1 .. Len(items)
    BY <2>1, <2>3 DEF BlocksApart
  <2> QED BY <1>4, <2>2, <2>4
<1>6. ASSUME NEW g \in groups PROVE g \in (DOMAIN items) \X (DOMAIN items)
  <2>1. BlocksApart(Len(items), pending, groups) /\ g \in Nat \X Nat
    BY <1>1 DEF KInv, Holds, Phase
  <2>2. g \in Blocks(pending, groups) /\ g = <<g[1], g[2]>>
    BY <2>1 DEF Blocks
  <2>3. g[1] \in 1 .. Len(items) /\ g[2] \in 1 .. Len(items)
    BY <2>1, <2>2 DEF BlocksApart
  <2> QED BY <1>4, <2>2, <2>3
<1>7. groups \subseteq (DOMAIN items) \X (DOMAIN items)
  BY <1>6
<1> QED BY <1>2, <1>3, <1>5, <1>7, Zenon DEF TypeOK

LEMMA KInvRangesApart ==
  ASSUME KInv
  PROVE  RangesApart
<1>1. Phase(pc, pending, groups, key, reversed) /\ Types(pc, items, aux, key, reversed)
  BY DEF KInv, Holds
<1>2. RangesDisjoint
  <2> SUFFICES ASSUME NEW s \in pending, NEW t \in pending, s # t
               PROVE  s.lo .. s.hi \cap t.lo .. t.hi = {}
    BY DEF RangesDisjoint
  <2>1. BlocksApart(Len(items), pending, groups)
    BY <1>1 DEF KInv, Holds, Phase
  <2>2. Within(BlockOf(s)) \cap Within(BlockOf(t)) = {}
    BY <2>1 DEF BlocksApart
  <2> QED BY <2>2 DEF Within, BlockOf
<1>3. OrderedAcrossRanges
  <2> SUFFICES ASSUME pc = "radix", NEW i \in DOMAIN items, NEW j \in DOMAIN items, ~(i >= j),
                      ~\E t \in pending : {i, j} \subseteq t.lo .. t.hi,
                      ~\E m \in 1 .. key - 1 : ~SameKey(items[i], items[j], m)
               PROVE  ~KeyLess(items[j].key, items[i].key, key)
    BY Zenon DEF OrderedAcrossRanges
  <2>1. Chosen /\ items \in Seq(Item) /\ key \in KeyIds
    BY <1>1 DEF Types
  <2>2. DOMAIN items = 1 .. Len(items) /\ KeyIds = 1 .. Len(options.keys) /\ Len(options.keys) \in Nat
    BY <2>1, OptionsOK
  <2>3. i < j
    BY <2>2
  <2>4. Sorted(items, Blocks(pending, {}), key)
    BY <1>1 DEF KInv, Holds, Phase, Working, Cur
  <2>5. ~InBlock(Blocks(pending, {}), i, j)
    <3> SUFFICES ASSUME NEW b \in Blocks(pending, {}), i \in Within(b), j \in Within(b) PROVE FALSE
      BY DEF InBlock
    <3>1. PICK t \in pending : b = BlockOf(t)
      BY DEF Blocks
    <3>2. {i, j} \subseteq t.lo .. t.hi
      BY <3>1 DEF Within, BlockOf
    <3> QED BY <3>2
  <2>6. SameKeys(items[i].key, items[j].key, key - 1)
    <3> SUFFICES ASSUME NEW m \in 1 .. key - 1
                 PROVE  KeyOf(items[i].key, m) = KeyOf(items[j].key, m)
      BY DEF SameKeys
    <3>1. m \in KeyIds
      BY <2>1, <2>2
    <3>2. items[i].key \in Lines /\ items[j].key \in Lines
      BY <2>1, <2>2, ItemsHaveLines
    <3>3. CompareFromDepth(items[i], items[j], m, 0) = 0
      BY DEF SameKey
    <3> QED BY <2>1, <3>1, <3>2, <3>3, Compared
  <2>7. ~AtKey(items[j].key, items[i].key, key)
    BY <2>2, <2>3, <2>4, <2>5, <2>6 DEF Sorted, Across, After
  <2>8. key <= Len(options.keys)
    BY <2>1, <2>2
  <2> QED BY <2>7, <2>8 DEF AtKey
<1> QED BY <1>2, <1>3 DEF RangesApart

\* The lines that are kept are all that were read.
LEMMA AllKept ==
  ASSUME NEW s \in Seq(Item), Kept(s), Len(s) = Len(given), given \in Seq(Lines)
  PROVE  ToSet(s) = {[key |-> given[p], pos |-> p] : p \in DOMAIN given}
<1> DEFINE D == 1 .. Len(s)
           place == [i \in D |-> s[i].pos]
<1>1. Len(s) \in Nat /\ DOMAIN s = D /\ DOMAIN given = D
  OBVIOUS
<1>2. ASSUME NEW i \in D
      PROVE  s[i].pos \in D /\ s[i].key = given[s[i].pos] /\ s[i] = [key |-> s[i].key, pos |-> s[i].pos]
  <2>1. s[i] \in Item
    BY <1>2, ItemsHaveLines
  <2> QED BY <2>1 DEF Kept, Item
<1>3. place \in [D -> D]
  BY <1>2
<1>4. \A i, j \in D : place[i] = place[j] => i = j
  <2> SUFFICES ASSUME NEW i \in D, NEW j \in D, place[i] = place[j] PROVE i = j
    OBVIOUS
  <2>1. s[i].pos = s[j].pos
    OBVIOUS
  <2>2. s[i].key = s[j].key
    <3>1. s[i].key = given[s[i].pos] /\ s[j].key = given[s[j].pos]
      BY <1>2, Zenon
    <3> QED BY <2>1, <3>1
  <2>3. /\ s[i] = [key |-> s[i].key, pos |-> s[i].pos]
        /\ s[j] = [key |-> s[j].key, pos |-> s[j].pos]
    BY <1>2, Zenon
  <2>4. s[i] = s[j]
    BY <2>1, <2>2, <2>3, Zenon
  <2> QED BY <2>4 DEF Kept, Distinct
<1>5. IsFiniteSet(D) /\ place \in Injection(D, D)
  <2>1. IsFiniteSet(D)
    BY <1>1, FS_Interval
  <2>2. place \in Injection(D, D)
    BY <1>3, <1>4 DEF Injection, IsInjective
  <2> QED BY <2>1, <2>2
<1>6. place \in Surjection(D, D)
  BY <1>5, FS_Injection
<1>7. ASSUME NEW p \in D PROVE \E i \in D : s[i] = [key |-> given[p], pos |-> p]
  <2>1. PICK i \in D : place[i] = p
    BY <1>6 DEF Surjection
  <2>2. s[i].pos = p
    BY <2>1
  <2> QED BY <1>2, <2>2
<1>8. ASSUME NEW i \in D PROVE \E p \in D : s[i] = [key |-> given[p], pos |-> p]
  <2>1. s[i].pos \in D /\ s[i] = [key |-> given[s[i].pos], pos |-> s[i].pos]
    <3>1. s[i].pos \in D /\ s[i].key = given[s[i].pos] /\ s[i] = [key |-> s[i].key, pos |-> s[i].pos]
      BY <1>2, <1>8, Zenon
    <3> QED BY <3>1
  <2> QED BY <2>1, Zenon
<1> HIDE DEF D, place
<1> QED BY <1>1, <1>7, <1>8 DEF ToSet

LEMMA KInvSorts ==
  ASSUME KInv
  PROVE  SortsByKeys
<1> SUFFICES ASSUME pc = "done"
             PROVE  /\ Len(Output) = Len(given)
                    /\ ToSet(Output) = {[key |-> given[p], pos |-> p] : p \in DOMAIN given}
                    /\ \A i, j \in DOMAIN Output : i < j => ~LineLess(Output[j].key, Output[i].key)
                    /\ (options.stable \/ options.unique) /\ (\A k \in KeyIds : ~options.keys[k].reverse)
                         => TiesInOrder
  BY Zenon DEF SortsByKeys
<1>1. /\ Chosen /\ items \in Seq(Item) /\ Len(items) = Len(given) /\ Kept(items)
      /\ Finished(Out(items, reversed))
  BY DEF KInv, Holds, Types
<1>2. given \in Seq(Lines)
  BY <1>1, OptionsOK
<1>3. Output = Out(items, reversed)
  BY DEF Output, Out
<1>4. Output \in Seq(Item) /\ Len(Output) = Len(items) /\ ToSet(Output) = ToSet(items)
  <2>1. CASE reversed
    <3>1. Output = Reverse(items)
      BY <2>1 DEF Output
    <3>2. /\ Reverse(items) \in Seq(Item) /\ Len(Reverse(items)) = Len(items)
          /\ \A p \in 1 .. Len(items) :
               Reverse(items)[p] = items[Len(items) - p + 1] /\ Len(items) - p + 1 \in 1 .. Len(items)
      BY <1>1, ReverseIs
    <3> DEFINE b == Reverse(items)
    <3> HIDE DEF b
    <3>3. DOMAIN b = 1 .. Len(items) /\ DOMAIN items = 1 .. Len(items) /\ Len(items) \in Nat
      BY <1>1, <3>2 DEF b
    <3>4. \A p \in 1 .. Len(items) : \E q \in 1 .. Len(items) : b[p] = items[q]
      BY <3>2 DEF b
    <3>5. ASSUME NEW q \in 1 .. Len(items) PROVE \E p \in 1 .. Len(items) : b[p] = items[q]
      <4>1. Len(items) - q + 1 \in 1 .. Len(items) /\ Len(items) - (Len(items) - q + 1) + 1 = q
        BY <3>3
      <4>2. b[Len(items) - q + 1] = items[Len(items) - (Len(items) - q + 1) + 1]
        BY <3>2, <4>1 DEF b
      <4> QED BY <4>1, <4>2
    <3>6. ToSet(b) = ToSet(items)
      <4>1. \A x : x \in ToSet(b) <=> \E p \in 1 .. Len(items) : x = b[p]
        BY <3>3, Zenon DEF ToSet
      <4>2. \A x : x \in ToSet(items) <=> \E p \in 1 .. Len(items) : x = items[p]
        BY <3>3, Zenon DEF ToSet
      <4>3. ASSUME NEW x, x \in ToSet(b) PROVE x \in ToSet(items)
        <5>1. PICK p \in 1 .. Len(items) : x = b[p]
          BY <4>1, <4>3, Zenon
        <5>2. PICK q \in 1 .. Len(items) : b[p] = items[q]
          BY <3>4, Zenon
        <5> QED BY <4>2, <5>1, <5>2, Zenon
      <4>4. ASSUME NEW x, x \in ToSet(items) PROVE x \in ToSet(b)
        <5>1. PICK q \in 1 .. Len(items) : x = items[q]
          BY <4>2, <4>4, Zenon
        <5>2. PICK p \in 1 .. Len(items) : b[p] = items[q]
          BY <3>5, Zenon
        <5> QED BY <4>1, <5>1, <5>2, Zenon
      <4> QED BY <4>3, <4>4
    <3> QED BY <3>1, <3>2, <3>6 DEF b
  <2>2. CASE ~reversed
    BY <1>1, <2>2 DEF Output
  <2> QED BY <2>1, <2>2
<1>5. Finished(Output) /\ DOMAIN Output = 1 .. Len(Output)
  BY <1>1, <1>3, <1>4
<1>6. ToSet(Output) = {[key |-> given[p], pos |-> p] : p \in DOMAIN given}
  BY <1>1, <1>2, <1>4, AllKept
<1> HIDE DEF Output
<1>7. \A i, j \in DOMAIN Output : i < j => ~LineLess(Output[j].key, Output[i].key)
  BY <1>5, Zenon DEF Finished
<1>8. ASSUME options.stable \/ options.unique, \A k \in KeyIds : ~options.keys[k].reverse
      PROVE  TiesInOrder
  <2>1. Ties(Output)
    BY <1>5, <1>8 DEF Finished, Forward
  <2> QED BY <1>5, <2>1, Zenon DEF Ties, TiesWithin, TiesInOrder
<1>9. Len(Output) = Len(given)
  BY <1>1, <1>4
<1> QED BY <1>6, <1>7, <1>8, <1>9

\* What RangesDescend says of a step.
Descended ==
  pc = "radix" =>
    \A t \in pending' \ pending :
      /\ t.depth <= DepthLimit
      /\ \E s \in pending \ pending' :
           /\ t.lo .. t.hi \subseteq s.lo .. s.hi
           /\ \/ t.depth > s.depth
              \/ t.depth = s.depth /\ t.scattered /\ ~s.scattered

LEMMA KInvDescends ==
  ASSUME KInv, [Next]_vars
  PROVE  Descended
<1> SUFFICES ASSUME pc = "radix", NEW u \in pending', u \notin pending
             PROVE  /\ u.depth <= DepthLimit
                    /\ \E s \in pending \ pending' :
                         /\ u.lo .. u.hi \subseteq s.lo .. s.hi
                         /\ \/ u.depth > s.depth
                            \/ u.depth = s.depth /\ u.scattered /\ ~s.scattered
  BY Zenon DEF Descended
<1>1. ASSUME NEW t \in pending
      PROVE  /\ t \in RangeType /\ t.depth <= DepthLimit /\ t.key = key
             /\ t.scattered => ScatteredOK(items, aux, t)
             /\ t.lo \in Nat /\ t.hi \in Nat
  <2>1. RangeOK(items, aux, key, t) /\ t.lo \in Nat /\ t.hi \in Nat
    BY RadixFacts
  <2> QED BY <2>1, Zenon DEF RangeOK
<1>2. ASSUME NEW t \in pending, Scatter(t)
      PROVE  /\ u.depth <= DepthLimit
             /\ \E s \in pending \ pending' :
                  /\ u.lo .. u.hi \subseteq s.lo .. s.hi
                  /\ u.depth = s.depth /\ u.scattered /\ ~s.scattered
  <2> DEFINE t2 == [t EXCEPT !.scattered = TRUE, !.children = Children(t, SkipCommonPrefix(t))]
  <2>1. pending' = (pending \ {t}) \cup {t2} /\ ~t.scattered
    BY <1>2, Zenon DEF Scatter
  <2>2. t \in RangeType
    BY <1>1
  <2>3. t2.lo = t.lo /\ t2.hi = t.hi /\ t2.depth = t.depth /\ t2.scattered
    BY <2>2 DEF RangeType
  <2> HIDE DEF t2
  <2>4. u = t2
    BY <2>1
  <2>5. t \in pending \ pending'
    <3>1. t2 # t
      BY <2>1, <2>3
    <3> QED BY <2>1, <3>1
  <2> QED BY <1>1, <2>1, <2>3, <2>4, <2>5
<1>3. ASSUME NEW t \in pending, CopyBack(t)
      PROVE  /\ u.depth <= DepthLimit
             /\ \E s \in pending \ pending' : u.lo .. u.hi \subseteq s.lo .. s.hi /\ u.depth > s.depth
  <2>1. pending' = (pending \ {t}) \cup t.children /\ t.scattered
    BY <1>3, Zenon DEF CopyBack
  <2>2. u \in t.children
    BY <2>1
  <2>3. KidOK(aux, t, u)
    BY <1>1, <2>1, <2>2, Zenon DEF ScatteredOK
  <2>4. t \in RangeType /\ \A c \in t.children : c \in Kid
    BY <1>1 DEF RangeType
  <2>5. u \in Kid
    BY <2>2, <2>4
  <2>6. t.lo <= u.lo /\ u.hi <= t.hi /\ u.depth \in t.depth + 1 .. DepthLimit
    BY <2>3 DEF KidOK
  <2>7. u.lo \in Nat /\ u.hi \in Nat /\ t.lo \in Nat /\ t.hi \in Nat /\ t.depth \in Nat /\ DepthLimit \in Nat
    BY <2>4, <2>5, ConstantsAssumption DEF Kid, RangeType
  <2>8. u.lo .. u.hi \subseteq t.lo .. t.hi /\ u.depth > t.depth /\ u.depth <= DepthLimit
    BY <2>6, <2>7
  <2>9. t \in pending \ pending'
    <3>1. \A c \in t.children : ~c.scattered
      BY <2>4 DEF Kid
    <3> QED BY <2>1, <3>1
  <2> QED BY <2>8, <2>9
<1>4. ASSUME NEW t \in pending, Insert(t) PROVE FALSE
  BY <1>4 DEF Insert
<1>5. ASSUME UNCHANGED pending PROVE FALSE
  BY <1>5
<1>6. CASE KeyMonotonic \/ StartRadix \/ NextKey \/ LastResortDone \/ KeyDone
  <2>1. UNCHANGED pending
    BY <1>6 DEF KeyMonotonic, StartRadix, NextKey, LastResortDone, KeyDone
  <2> QED BY <1>5, <2>1
<1>7. ASSUME NEW g \in groups, DescendGroup(g) \/ LastResort(g) PROVE FALSE
  BY <1>7 DEF DescendGroup, LastResort
<1>8. CASE UNCHANGED vars
  BY <1>5, <1>8 DEF vars
<1> QED BY <1>2, <1>3, <1>4, <1>6, <1>7, <1>8, Zenon DEF Next, Done

-----------------------------------------------------------------------------
(***************************************************************************)
(* The theorems                                                            *)
(***************************************************************************)

\* The variables of rank_radix_sort_key have the types their comments say.
THEOREM TypeCorrect == Spec => []TypeOK
<1>1. KInv => TypeOK
  BY KInvTypes
<1> QED BY <1>1, KInvAlways, PTL

\* The ranges of key_radix_range that wait share no line, and none depends on
\* the lines or the result of another: whichever workers sort them, in
\* whatever order, do not get in each other's way.
THEOREM RangesApartCorrect == Spec => []RangesApart
<1>1. KInv => RangesApart
  BY KInvRangesApart
<1> QED BY <1>1, KInvAlways, PTL

\* rank_radix_sort_key puts out each line once, sorted by all its keys and
\* the last resort; with -s or -u, and no key reversed, equal lines keep the order
\* in which they were read.
THEOREM SortsByKeysCorrect == Spec => []SortsByKeys
<1>1. KInv => SortsByKeys
  BY KInvSorts
<1> QED BY <1>1, KInvAlways, PTL

\* The recursion of key_radix_range goes on with parts of a range, by a byte
\* further on, and never beyond RADIX_DEPTH_LIMIT.
THEOREM RangesDescendCorrect == Spec => RangesDescend
<1>1. KInv /\ [Next]_vars => [Descended]_vars
  BY KInvDescends
<1> QED BY <1>1, KInvAlways, PTL DEF Spec, RangesDescend, Descended

=============================================================================
