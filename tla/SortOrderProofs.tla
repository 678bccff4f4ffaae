--------------------------- MODULE SortOrderProofs ---------------------------
(***************************************************************************)
(* What the definitions of SortOrder compute, for records of any kind, any *)
(* comparator and sequences of any length, and the facts about numbers     *)
(* these proofs and those of the components share.                         *)
(***************************************************************************)
EXTENDS SortOrder, FiniteSetTheorems, SequenceTheorems, WellFoundedInduction, TLAPS

(***************************************************************************)
(* Numbers                                                                 *)
(***************************************************************************)

\* The order on the numbers.
Below == {p \in Nat \X Nat : p[1] < p[2]}

\* Numbers do not descend for ever.
LEMMA BelowWellFounded == IsWellFoundedOn(Below, Nat)
<1>1. IsWellFoundedOn({p \in Nat \X Nat : p[1] < p[2]}, Nat)
  BY NatLessThanWellFounded DEF OpToRel
<1> QED BY <1>1 DEF Below

\* Numbers have a least one.
LEMMA LeastNumber ==
  ASSUME NEW T \in SUBSET Nat, T # {}
  PROVE  \E x \in T : \A y \in T : x <= y
<1>1. PICK x \in T : \A y \in T : <<y, x>> \notin Below
  BY BelowWellFounded, WFMin
<1>2. \A y \in T : ~ y < x
  BY <1>1 DEF Below
<1> QED BY <1>2

\* Induction over the numbers of a set.
LEMMA AllNumbers ==
  ASSUME NEW T \in SUBSET Nat, 0 \in T, \A n \in T : n + 1 \in T
  PROVE  \A n \in Nat : n \in T
<1> SUFFICES ASSUME Nat \ T # {} PROVE FALSE
  OBVIOUS
<1>1. PICK x \in Nat \ T : \A y \in Nat \ T : x <= y
  BY LeastNumber
<1>2. x # 0 /\ x - 1 \in Nat
  OBVIOUS
<1>3. x - 1 \in T
  BY <1>1, <1>2
<1>4. (x - 1) + 1 = x
  OBVIOUS
<1> QED BY <1>3, <1>4

\* What Min and Max choose.
LEMMA MinIs ==
  ASSUME NEW T \in SUBSET Nat, T # {}
  PROVE  Min(T) \in T /\ \A y \in T : Min(T) <= y
<1>1. \E x \in T : \A y \in T : x <= y
  BY LeastNumber
<1> QED BY <1>1 DEF Min

LEMMA MaxIs ==
  ASSUME NEW T \in SUBSET Nat, T # {}, NEW n \in Nat, \A y \in T : y <= n
  PROVE  Max(T) \in T /\ \A y \in T : y <= Max(T)
<1> DEFINE U == {m \in Nat : \A y \in T : y <= m}
<1>1. PICK m \in U : \A k \in U : m <= k
  <2>1. n \in U
    OBVIOUS
  <2> QED BY <2>1, LeastNumber
<1>2. m \in T
  <2> SUFFICES ASSUME m \notin T PROVE FALSE
    OBVIOUS
  <2>1. PICK y \in T : TRUE
    OBVIOUS
  <2>2. \A z \in T : z <= m /\ z # m /\ z \in Nat
    BY <1>1
  <2>3. m - 1 \in Nat /\ \A z \in T : z <= m - 1
    BY <2>1, <2>2, <1>1
  <2>4. m - 1 \in U
    BY <2>3
  <2> QED BY <2>4, <1>1
<1>3. \A y \in T : y <= m /\ y \in Nat
  BY <1>1
<1>4. \E x \in T : \A y \in T : x >= y
  BY <1>2, <1>3
<1> QED BY <1>4 DEF Max

LEMMA MinOfTwo ==
  ASSUME NEW a \in Nat, NEW b \in Nat
  PROVE  /\ Min({a, b}) \in Nat /\ Min({a, b}) <= a /\ Min({a, b}) <= b
         /\ Min({a, b}) = a \/ Min({a, b}) = b
<1>1. {a, b} \in SUBSET Nat /\ {a, b} # {}
  OBVIOUS
<1>2. Min({a, b}) \in {a, b} /\ \A y \in {a, b} : Min({a, b}) <= y
  BY <1>1, MinIs
<1> QED BY <1>2

LEMMA MaxOfTwo ==
  ASSUME NEW a \in Nat, NEW b \in Nat
  PROVE  /\ Max({a, b}) \in Nat /\ Max({a, b}) >= a /\ Max({a, b}) >= b
         /\ Max({a, b}) = a \/ Max({a, b}) = b
<1>1. {a, b} \in SUBSET Nat /\ {a, b} # {} /\ a + b \in Nat /\ \A y \in {a, b} : y <= a + b
  OBVIOUS
<1>2. Max({a, b}) \in {a, b} /\ \A y \in {a, b} : y <= Max({a, b})
  BY <1>1, MaxIs
<1> QED BY <1>2

-----------------------------------------------------------------------------
(***************************************************************************)
(* Sequences                                                               *)
(***************************************************************************)

LEMMA Joined ==
  ASSUME NEW S, NEW a \in Seq(S), NEW b \in Seq(S)
  PROVE  /\ a \o b \in Seq(S) /\ Len(a \o b) = Len(a) + Len(b)
         /\ \A p \in 1 .. Len(a) : (a \o b)[p] = a[p]
         /\ \A p \in 1 .. Len(b) : (a \o b)[Len(a) + p] = b[p]
  OBVIOUS

LEMMA SeqOfFunction ==
  ASSUME NEW S, NEW n \in Nat, NEW f \in [1 .. n -> S]
  PROVE  f \in Seq(S) /\ Len(f) = n
  OBVIOUS

Flattens(s, n, f) ==
  f = [i \in 1 .. n |-> IF i = 1 THEN s[i] ELSE f[i - 1] \o s[i]]

LEMMA FlattensExists ==
  ASSUME NEW s, NEW n \in Nat
  PROVE  \E f : Flattens(s, n, f)
<1> DEFINE T == {m \in Nat : \E f : Flattens(s, m, f)}
<1>1. 0 \in T
  <2> DEFINE f == [i \in 1 .. 0 |-> <<>>]
  <2>1. Flattens(s, 0, f)
    BY DEF Flattens
  <2> HIDE DEF f
  <2> QED BY <2>1
<1>2. ASSUME NEW m \in T PROVE m + 1 \in T
  <2>1. PICK g : Flattens(s, m, g)
    OBVIOUS
  <2> DEFINE f == [i \in 1 .. m + 1 |-> IF i = 1 THEN s[i] ELSE g[i - 1] \o s[i]]
  <2>2. ASSUME NEW i \in 1 .. m PROVE f[i] = g[i]
    <3>1. i \in 1 .. m + 1
      OBVIOUS
    <3>2. g[i] = IF i = 1 THEN s[i] ELSE g[i - 1] \o s[i]
      BY <2>1, Zenon DEF Flattens
    <3> QED BY <3>1, <3>2, Zenon
  <2>3. \A i \in 1 .. m + 1 : i # 1 => i - 1 \in 1 .. m
    OBVIOUS
  <2>4. \A i \in 1 .. m + 1 : f[i] = IF i = 1 THEN s[i] ELSE f[i - 1] \o s[i]
    BY <2>2, <2>3
  <2>5. Flattens(s, m + 1, f)
    BY <2>4 DEF Flattens
  <2> HIDE DEF f
  <2> QED BY <2>5
<1> HIDE DEF T
<1>3. \A m \in Nat : m \in T
  BY <1>1, <1>2, AllNumbers DEF T
<1> QED BY <1>3 DEF T

LEMMA FlattenSeqUnrolled ==
  ASSUME NEW s, Len(s) \in Nat, Len(s) > 0
  PROVE  \E f : Flattens(s, Len(s), f) /\ FlattenSeq(s) = f[Len(s)]
<1> DEFINE F == CHOOSE f : f = [i \in 1 .. Len(s) |-> IF i = 1 THEN s[i] ELSE f[i - 1] \o s[i]]
<1>1. F = [i \in 1 .. Len(s) |-> IF i = 1 THEN s[i] ELSE F[i - 1] \o s[i]]
  BY FlattensExists DEF Flattens
<1>2. FlattenSeq(s) = F[Len(s)]
  BY DEF FlattenSeq
<1> QED BY <1>1, <1>2 DEF Flattens

LEMMA FlattenSeqTyped ==
  ASSUME NEW S, NEW s \in Seq(Seq(S))
  PROVE  FlattenSeq(s) \in Seq(S)
<1>1. Len(s) \in Nat /\ \A i \in 1 .. Len(s) : s[i] \in Seq(S)
  OBVIOUS
<1>2. CASE Len(s) = 0
  BY <1>2 DEF FlattenSeq
<1>3. CASE Len(s) # 0
  <2>1. PICK f : Flattens(s, Len(s), f) /\ FlattenSeq(s) = f[Len(s)]
    BY <1>1, <1>3, FlattenSeqUnrolled
  <2>2. \A i \in 1 .. Len(s) : f[i] = IF i = 1 THEN s[i] ELSE f[i - 1] \o s[i]
    BY <2>1, Zenon DEF Flattens
  <2> DEFINE T == {m \in Nat : m + 1 <= Len(s) => f[m + 1] \in Seq(S)}
  <2>3. 0 \in T
    BY <1>1, <1>3, <2>2
  <2>4. ASSUME NEW m \in T PROVE m + 1 \in T
    <3> SUFFICES ASSUME (m + 1) + 1 <= Len(s) PROVE f[(m + 1) + 1] \in Seq(S)
      OBVIOUS
    <3>1. /\ f[m + 1] \in Seq(S) /\ (m + 1) + 1 \in 1 .. Len(s) /\ (m + 1) + 1 # 1
          /\ ((m + 1) + 1) - 1 = m + 1
      BY <1>1
    <3>2. f[(m + 1) + 1] = f[m + 1] \o s[(m + 1) + 1] /\ s[(m + 1) + 1] \in Seq(S)
      BY <1>1, <2>2, <3>1
    <3> QED BY <3>1, <3>2
  <2> HIDE DEF T
  <2>5. \A m \in Nat : m \in T
    BY <2>3, <2>4, AllNumbers DEF T
  <2>6. Len(s) - 1 \in Nat /\ (Len(s) - 1) + 1 = Len(s) /\ Len(s) <= Len(s)
    BY <1>1, <1>3
  <2>7. Len(s) - 1 \in T
    BY <2>5, <2>6
  <2> QED BY <2>1, <2>6, <2>7 DEF T
<1> QED BY <1>2, <1>3

\* The sequences up to the k-th are those before it and the k-th.
LEMMA FlattenNext ==
  ASSUME NEW S, NEW s \in Seq(Seq(S)), NEW k \in 1 .. Len(s)
  PROVE  FlattenSeq(SubSeq(s, 1, k)) = FlattenSeq(SubSeq(s, 1, k - 1)) \o s[k]
<1> DEFINE a == SubSeq(s, 1, k)
           b == SubSeq(s, 1, k - 1)
<1>1. /\ a \in Seq(Seq(S)) /\ Len(a) = k /\ k \in Nat /\ \A i \in 1 .. k : a[i] = s[i]
      /\ b \in Seq(Seq(S)) /\ Len(b) = k - 1 /\ \A i \in 1 .. k - 1 : b[i] = s[i]
      /\ s[k] \in Seq(S)
  OBVIOUS
<1> HIDE DEF a, b
<1>2. PICK f : Flattens(a, k, f) /\ FlattenSeq(a) = f[k]
  <2>1. Len(a) \in Nat /\ Len(a) > 0
    BY <1>1
  <2>2. PICK f : Flattens(a, Len(a), f) /\ FlattenSeq(a) = f[Len(a)]
    BY <2>1, FlattenSeqUnrolled
  <2> QED BY <1>1, <2>2
<1>3. \A i \in 1 .. k : f[i] = IF i = 1 THEN s[i] ELSE f[i - 1] \o s[i]
  BY <1>1, <1>2, ZenonT(60) DEF Flattens
<1>4. CASE k = 1
  <2>1. FlattenSeq(b) = <<>>
    BY <1>1, <1>4 DEF FlattenSeq
  <2>2. FlattenSeq(a) = s[k]
    BY <1>1, <1>2, <1>3, <1>4
  <2>3. <<>> \o s[k] = s[k]
    BY <1>1
  <2> QED BY <2>1, <2>2, <2>3 DEF a, b
<1>5. CASE k # 1
  <2>1. k - 1 \in Nat /\ k - 1 > 0
    BY <1>1, <1>5
  <2>2. PICK g : Flattens(b, k - 1, g) /\ FlattenSeq(b) = g[k - 1]
    <3>1. Len(b) \in Nat /\ Len(b) > 0
      BY <1>1, <2>1
    <3>2. PICK g : Flattens(b, Len(b), g) /\ FlattenSeq(b) = g[Len(b)]
      BY <3>1, FlattenSeqUnrolled
    <3> QED BY <1>1, <3>2
  <2>3. \A i \in 1 .. k - 1 : g[i] = IF i = 1 THEN s[i] ELSE g[i - 1] \o s[i]
    BY <1>1, <2>2, ZenonT(60) DEF Flattens
  <2> DEFINE T == {m \in Nat : m + 1 <= k - 1 => f[m + 1] = g[m + 1]}
  <2>4. 0 \in T
    <3> SUFFICES ASSUME 0 + 1 <= k - 1 PROVE f[0 + 1] = g[0 + 1]
      OBVIOUS
    <3>1. 1 \in 1 .. k /\ 1 \in 1 .. k - 1 /\ 0 + 1 = 1
      BY <1>1
    <3> QED BY <1>3, <2>3, <3>1
  <2>5. ASSUME NEW m \in T PROVE m + 1 \in T
    <3> SUFFICES ASSUME (m + 1) + 1 <= k - 1 PROVE f[(m + 1) + 1] = g[(m + 1) + 1]
      OBVIOUS
    <3>1. /\ (m + 1) + 1 \in 1 .. k /\ (m + 1) + 1 \in 1 .. k - 1 /\ (m + 1) + 1 # 1
          /\ ((m + 1) + 1) - 1 = m + 1 /\ m + 1 <= k - 1
      BY <1>1
    <3>2. f[(m + 1) + 1] = f[m + 1] \o s[(m + 1) + 1] /\ g[(m + 1) + 1] = g[m + 1] \o s[(m + 1) + 1]
      BY <1>3, <2>3, <3>1
    <3> QED BY <3>1, <3>2
  <2> HIDE DEF T
  <2>6. \A m \in Nat : m \in T
    BY <2>4, <2>5, AllNumbers DEF T
  <2>7. k - 2 \in Nat /\ (k - 2) + 1 = k - 1 /\ k - 1 <= k - 1
    BY <1>1, <1>5
  <2>8. k - 2 \in T
    BY <2>6, <2>7
  <2>9. f[k - 1] = g[k - 1]
    BY <2>7, <2>8 DEF T
  <2>10. k \in 1 .. k
    BY <1>1
  <2> QED BY <1>2, <1>3, <1>5, <2>2, <2>9, <2>10 DEF a, b
<1> QED BY <1>4, <1>5

-----------------------------------------------------------------------------
(***************************************************************************)
(* The order of byte strings                                               *)
(***************************************************************************)

Text == Seq(Nat)

\* Texts of at least d bytes whose first d bytes are the same.
Agree(x, y, d) == d <= Len(x) /\ d <= Len(y) /\ \A p \in 1 .. d : x[p] = y[p]

\* x is less than y at the byte after the first n.
LessAt(x, y, n) == Agree(x, y, n) /\ n < Len(y) /\ (n = Len(x) \/ (n < Len(x) /\ x[n + 1] < y[n + 1]))

LEMMA BytesLessAt ==
  ASSUME NEW x \in Text, NEW y \in Text
  PROVE  BytesLess(x, y) <=> \E n \in Nat : LessAt(x, y, n)
<1>1. Len(x) \in Nat /\ Len(y) \in Nat
  BY DEF Text
<1> DEFINE least == Min({Len(x), Len(y)})
<1>2. least \in Nat /\ least <= Len(x) /\ least <= Len(y) /\ (least = Len(x) \/ least = Len(y))
  BY <1>1, MinOfTwo
<1> HIDE DEF least
<1>3. BytesLess(x, y) <=> \E n \in 0 .. least : LessAt(x, y, n)
  <2>1. \A n \in 0 .. least : n <= Len(x) /\ n <= Len(y)
    BY <1>1, <1>2
  <2> QED BY <2>1, Zenon DEF BytesLess, LessAt, Agree, least
<1>4. ASSUME NEW n \in Nat, LessAt(x, y, n) PROVE n \in 0 .. least
  BY <1>1, <1>2, <1>4 DEF LessAt, Agree
<1>5. \A n \in 0 .. least : n \in Nat
  BY <1>2
<1> QED BY <1>3, <1>4, <1>5

LEMMA BytesIrreflexive ==
  ASSUME NEW x \in Text
  PROVE  ~BytesLess(x, x)
<1>1. Len(x) \in Nat /\ \A p \in 1 .. Len(x) : x[p] \in Nat
  BY DEF Text
<1>2. ASSUME NEW n \in Nat, LessAt(x, x, n) PROVE FALSE
  <2>1. n < Len(x) /\ x[n + 1] < x[n + 1]
    BY <1>1, <1>2 DEF LessAt
  <2>2. n + 1 \in 1 .. Len(x)
    BY <1>1, <2>1
  <2> QED BY <1>1, <2>1, <2>2
<1> QED BY <1>2, BytesLessAt

LEMMA BytesTransitive ==
  ASSUME NEW x \in Text, NEW y \in Text, NEW z \in Text, BytesLess(x, y), BytesLess(y, z)
  PROVE  BytesLess(x, z)
<1>1. /\ Len(x) \in Nat /\ Len(y) \in Nat /\ Len(z) \in Nat
      /\ \A p \in 1 .. Len(x) : x[p] \in Nat
      /\ \A p \in 1 .. Len(y) : y[p] \in Nat
      /\ \A p \in 1 .. Len(z) : z[p] \in Nat
  BY DEF Text
<1>2. PICK m \in Nat : LessAt(x, y, m)
  BY BytesLessAt
<1>3. PICK n \in Nat : LessAt(y, z, n)
  BY BytesLessAt
<1>4. CASE m < n
  <2>1. m + 1 \in 1 .. n /\ m + 1 \in 1 .. Len(z) /\ \A p \in 1 .. m : p \in 1 .. n
    BY <1>1, <1>3, <1>4 DEF LessAt, Agree
  <2>2. y[m + 1] = z[m + 1] /\ \A p \in 1 .. m : y[p] = z[p]
    BY <1>3, <2>1 DEF LessAt, Agree
  <2>3. LessAt(x, z, m)
    BY <1>1, <1>2, <1>3, <1>4, <2>1, <2>2 DEF LessAt, Agree
  <2> QED BY <2>3, BytesLessAt
<1>5. CASE n < m
  <2>1. n + 1 \in 1 .. m /\ n + 1 \in 1 .. Len(x) /\ \A p \in 1 .. n : p \in 1 .. m
    BY <1>1, <1>2, <1>5 DEF LessAt, Agree
  <2>2. x[n + 1] = y[n + 1] /\ \A p \in 1 .. n : x[p] = y[p]
    BY <1>2, <2>1 DEF LessAt, Agree
  <2>3. LessAt(x, z, n)
    BY <1>1, <1>2, <1>3, <1>5, <2>1, <2>2 DEF LessAt, Agree
  <2> QED BY <2>3, BytesLessAt
<1>6. CASE m = n
  <2>1. m < Len(y) /\ y[m + 1] < z[m + 1] /\ m < Len(z)
    BY <1>1, <1>2, <1>3, <1>6 DEF LessAt
  <2>2. m + 1 \in 1 .. Len(y) /\ m + 1 \in 1 .. Len(z) /\ (m < Len(x) => m + 1 \in 1 .. Len(x))
    BY <1>1, <2>1
  <2>3. m = Len(x) \/ (m < Len(x) /\ x[m + 1] < z[m + 1])
    BY <1>1, <1>2, <2>1, <2>2 DEF LessAt
  <2>4. Agree(x, z, m)
    BY <1>1, <1>2, <1>3, <1>6 DEF LessAt, Agree
  <2>5. LessAt(x, z, m)
    BY <2>1, <2>3, <2>4 DEF LessAt
  <2> QED BY <2>5, BytesLessAt
<1> QED BY <1>4, <1>5, <1>6

\* Texts that agree so far are compared from there on.
LEMMA BytesTotalFrom ==
  ASSUME NEW x \in Text, NEW y \in Text, NEW d \in Nat, Agree(x, y, d)
  PROVE  LET differ == {p \in d + 1 .. Min({Len(x), Len(y)}) : x[p] # y[p]}
         IN  /\ differ # {} =>
                  /\ Min(differ) \in 1 .. Len(x) /\ Min(differ) \in 1 .. Len(y)
                  /\ x[Min(differ)] < y[Min(differ)] => BytesLess(x, y)
                  /\ y[Min(differ)] < x[Min(differ)] => BytesLess(y, x)
                  /\ x[Min(differ)] # y[Min(differ)]
             /\ differ = {} =>
                  /\ Len(x) < Len(y) => BytesLess(x, y)
                  /\ Len(y) < Len(x) => BytesLess(y, x)
                  /\ Len(x) = Len(y) => x = y
<1> DEFINE least == Min({Len(x), Len(y)})
           differ == {p \in d + 1 .. least : x[p] # y[p]}
<1>1. /\ Len(x) \in Nat /\ Len(y) \in Nat
      /\ \A p \in 1 .. Len(x) : x[p] \in Nat
      /\ \A p \in 1 .. Len(y) : y[p] \in Nat
  BY DEF Text
<1>2. least \in Nat /\ least <= Len(x) /\ least <= Len(y) /\ (least = Len(x) \/ least = Len(y))
  BY <1>1, MinOfTwo
<1> HIDE DEF least
<1>3. CASE differ # {}
  <2>1. differ \in SUBSET Nat
    BY <1>2
  <2>2. Min(differ) \in differ /\ \A q \in differ : Min(differ) <= q
    BY <1>3, <2>1, MinIs
  <2> DEFINE p == Min(differ)
  <2>3. p \in d + 1 .. least /\ x[p] # y[p] /\ \A q \in differ : p <= q
    BY <2>2
  <2> HIDE DEF p
  <2>4. p - 1 \in Nat /\ (p - 1) + 1 = p /\ p - 1 < Len(x) /\ p - 1 < Len(y) /\ p \in 1 .. Len(x) /\ p \in 1 .. Len(y)
    BY <1>1, <1>2, <2>3
  <2>5. ASSUME NEW q \in 1 .. p - 1 PROVE x[q] = y[q]
    <3>1. CASE q <= d
      <4>1. q \in 1 .. d
        BY <3>1
      <4> QED BY <4>1 DEF Agree
    <3>2. CASE q > d
      <4>1. q \in d + 1 .. least /\ ~(p <= q)
        BY <1>2, <2>3, <3>2
      <4> QED BY <4>1, <2>3
    <3> QED BY <3>1, <3>2
  <2>6. Agree(x, y, p - 1) /\ Agree(y, x, p - 1)
    BY <1>1, <2>4, <2>5 DEF Agree
  <2>7. x[p] < y[p] => BytesLess(x, y)
    BY <2>4, <2>6, BytesLessAt DEF LessAt
  <2>8. y[p] < x[p] => BytesLess(y, x)
    BY <2>4, <2>6, BytesLessAt DEF LessAt
  <2> QED BY <1>3, <2>3, <2>4, <2>7, <2>8, Zenon DEF p, least
<1>4. CASE differ = {}
  <2>1. ASSUME NEW q \in 1 .. least PROVE x[q] = y[q]
    <3>1. CASE q <= d
      <4>1. q \in 1 .. d
        BY <3>1
      <4> QED BY <4>1 DEF Agree
    <3>2. CASE q > d
      <4>1. q \in d + 1 .. least
        BY <1>2, <3>2
      <4> QED BY <4>1, <1>4
    <3> QED BY <3>1, <3>2
  <2>2. Agree(x, y, least) /\ Agree(y, x, least)
    BY <1>2, <2>1 DEF Agree
  <2>3. Len(x) < Len(y) => BytesLess(x, y)
    <3>1. Len(x) < Len(y) => LessAt(x, y, least)
      BY <1>1, <1>2, <2>2 DEF LessAt
    <3> QED BY <3>1, <1>2, BytesLessAt
  <2>4. Len(y) < Len(x) => BytesLess(y, x)
    <3>1. Len(y) < Len(x) => LessAt(y, x, least)
      BY <1>1, <1>2, <2>2 DEF LessAt
    <3> QED BY <3>1, <1>2, BytesLessAt
  <2>5. Len(x) = Len(y) => x = y
    <3>1. Len(x) = Len(y) => least = Len(x)
      BY <1>2
    <3>2. x = [q \in 1 .. Len(x) |-> x[q]] /\ y = [q \in 1 .. Len(y) |-> y[q]]
      BY DEF Text
    <3> QED BY <2>1, <3>1, <3>2
  <2> QED BY <1>4, <2>3, <2>4, <2>5, Zenon DEF least
<1> QED BY <1>3, <1>4, Zenon DEF least

LEMMA BytesTotal ==
  ASSUME NEW x \in Text, NEW y \in Text
  PROVE  BytesLess(x, y) \/ BytesLess(y, x) \/ x = y
<1> DEFINE differ == {p \in 0 + 1 .. Min({Len(x), Len(y)}) : x[p] # y[p]}
<1>1. Len(x) \in Nat /\ Len(y) \in Nat /\ \A p \in 1 .. Len(x) : x[p] \in Nat
  BY DEF Text
<1>2. \A p \in 1 .. Len(y) : y[p] \in Nat
  BY DEF Text
<1>3. Agree(x, y, 0)
  BY <1>1 DEF Agree
<1>4. /\ differ # {} =>
           /\ Min(differ) \in 1 .. Len(x) /\ Min(differ) \in 1 .. Len(y)
           /\ x[Min(differ)] < y[Min(differ)] => BytesLess(x, y)
           /\ y[Min(differ)] < x[Min(differ)] => BytesLess(y, x)
           /\ x[Min(differ)] # y[Min(differ)]
      /\ differ = {} =>
           /\ Len(x) < Len(y) => BytesLess(x, y)
           /\ Len(y) < Len(x) => BytesLess(y, x)
           /\ Len(x) = Len(y) => x = y
  BY <1>3, BytesTotalFrom, Zenon
<1> DEFINE p == Min(differ)
<1> HIDE DEF differ, p
<1>5. CASE differ # {}
  <2>1. /\ p \in 1 .. Len(x) /\ p \in 1 .. Len(y) /\ x[p] # y[p]
        /\ x[p] < y[p] => BytesLess(x, y)
        /\ y[p] < x[p] => BytesLess(y, x)
    BY <1>4, <1>5, Zenon DEF p
  <2>2. x[p] \in Nat /\ y[p] \in Nat
    BY <1>1, <1>2, <2>1
  <2>3. x[p] < y[p] \/ y[p] < x[p]
    BY <2>1, <2>2
  <2> QED BY <2>1, <2>3
<1>6. CASE differ = {}
  BY <1>1, <1>4, <1>6
<1> QED BY <1>5, <1>6

-----------------------------------------------------------------------------
(***************************************************************************)
(* InTurn                                                                  *)
(***************************************************************************)

\* An order of the members of S: i comes after those of ahead[i].
Ranks(S, ahead) ==
  /\ ahead \in [S -> SUBSET S]
  /\ \A i \in S : i \notin ahead[i]
  /\ \A i, j \in S : i # j => j \in ahead[i] \/ i \in ahead[j]
  /\ \A i, j \in S : j \in ahead[i] => ahead[j] \subseteq ahead[i]

\* InTurn lists the members of S, each once and in that order.
LEMMA InTurnIs ==
  ASSUME NEW S, IsFiniteSet(S), NEW ahead, Ranks(S, ahead)
  PROVE  /\ Cardinality(S) \in Nat
         /\ InTurn(ahead) \in [1 .. Cardinality(S) -> S]
         /\ \A m, n \in 1 .. Cardinality(S) :
              m < n <=> InTurn(ahead)[m] \in ahead[InTurn(ahead)[n]]
         /\ \A i \in S : \E n \in 1 .. Cardinality(S) : InTurn(ahead)[n] = i
<1> DEFINE c == [i \in S |-> Cardinality(ahead[i])]
           N == Cardinality(S)
           order == InTurn(ahead)
<1>1. N \in Nat
  BY FS_CardinalityType
<1>2. ahead \in [S -> SUBSET S] /\ DOMAIN ahead = S
  BY DEF Ranks
<1>3. ASSUME NEW i \in S PROVE c[i] \in 0 .. N - 1 /\ IsFiniteSet(ahead[i])
  <2>1. ahead[i] \in SUBSET S /\ i \notin ahead[i]
    BY DEF Ranks
  <2>2. IsFiniteSet(ahead[i]) /\ Cardinality(ahead[i]) <= N
        /\ (N = Cardinality(ahead[i]) => S = ahead[i])
    BY <2>1, FS_Subset
  <2>3. Cardinality(ahead[i]) \in Nat
    BY <2>2, FS_CardinalityType
  <2>4. Cardinality(ahead[i]) # N
    BY <2>1, <2>2
  <2> QED BY <1>1, <2>2, <2>3, <2>4
<1>4. ASSUME NEW i \in S, NEW j \in S, j \in ahead[i] PROVE c[j] < c[i]
  <2>1. ahead[j] \in SUBSET ahead[i] /\ j \notin ahead[j]
    BY <1>4 DEF Ranks
  <2>2. IsFiniteSet(ahead[i])
    BY <1>3
  <2>3. Cardinality(ahead[j]) <= Cardinality(ahead[i])
        /\ (Cardinality(ahead[i]) = Cardinality(ahead[j]) => ahead[i] = ahead[j])
    BY <2>1, <2>2, FS_Subset
  <2>4. Cardinality(ahead[i]) # Cardinality(ahead[j])
    BY <1>4, <2>1, <2>3
  <2>5. c[i] \in Nat /\ c[j] \in Nat
    BY <1>1, <1>3
  <2> QED BY <2>3, <2>4, <2>5
<1>5. ASSUME NEW i \in S, NEW j \in S PROVE j \in ahead[i] <=> c[j] < c[i]
  <2>1. c[i] \in Nat /\ c[j] \in Nat
    BY <1>1, <1>3
  <2>2. i # j /\ j \notin ahead[i] => c[i] < c[j]
    BY <1>4 DEF Ranks
  <2> QED BY <1>4, <2>1, <2>2
<1>6. c \in Injection(S, 0 .. N - 1)
  <2>1. c \in [S -> 0 .. N - 1]
    BY <1>3
  <2>2. ASSUME NEW i \in S, NEW j \in S, c[i] = c[j] PROVE i = j
    <3>1. c[i] \in Nat /\ c[j] \in Nat
      BY <1>1, <1>3
    <3> QED BY <1>4, <2>2, <3>1 DEF Ranks
  <2> QED BY <2>1, <2>2 DEF Injection, IsInjective
<1>7. c \in Surjection(S, 0 .. N - 1)
  <2>1. IsFiniteSet(0 .. N - 1) /\ Cardinality(0 .. N - 1) = N
    BY <1>1, FS_Interval, SMTT(30)
  <2> QED BY <1>6, <2>1, FS_Injection
<1>8. \A n \in 1 .. N : \E i \in S : c[i] = n - 1
  <2>1. \A n \in 1 .. N : n - 1 \in 0 .. N - 1
    BY <1>1
  <2> QED BY <1>7, <2>1 DEF Surjection
<1>9. order = [n \in 1 .. N |-> CHOOSE i \in S : c[i] = n - 1]
  BY <1>2 DEF InTurn
<1>10. ASSUME NEW n \in 1 .. N PROVE order[n] \in S /\ c[order[n]] = n - 1
  <2>1. order[n] = CHOOSE i \in S : c[i] = n - 1
    BY <1>9
  <2> QED BY <1>8, <2>1
<1>11. order \in [1 .. N -> S]
  BY <1>9, <1>10
<1> HIDE DEF c, order
<1>12. ASSUME NEW m \in 1 .. N, NEW n \in 1 .. N
       PROVE  m < n <=> order[m] \in ahead[order[n]]
  BY <1>1, <1>5, <1>10
<1>13. ASSUME NEW i \in S PROVE \E n \in 1 .. N : order[n] = i
  <2>1. c[i] + 1 \in 1 .. N
    BY <1>1, <1>3
  <2>2. order[c[i] + 1] \in S /\ c[order[c[i] + 1]] = c[i]
    BY <1>1, <1>3, <1>10, <2>1
  <2>3. order[c[i] + 1] = i
    BY <1>6, <2>2 DEF Injection, IsInjective
  <2> QED BY <2>1, <2>3
<1> QED BY <1>1, <1>11, <1>12, <1>13 DEF order

-----------------------------------------------------------------------------
(***************************************************************************)
(* Sequences in order                                                      *)
(***************************************************************************)

\* The records of R are numbered, and so are their keys.
Ranked(R, ord) == \A r \in R : ord[r.key] \in Nat /\ r.pos \in Nat

\* A stable sort keeps a before b.
Sooner(ord, a, b) ==
  \/ ord[a.key] < ord[b.key]
  \/ ord[a.key] = ord[b.key] /\ a.pos < b.pos

InSortOrder(s, ord) == \A i, j \in 1 .. Len(s) : i < j => Sooner(ord, s[i], s[j])

LEMMA SoonerOrders ==
  ASSUME NEW R, NEW ord, Ranked(R, ord), NEW a \in R, NEW b \in R
  PROVE  /\ ~(Sooner(ord, a, b) /\ Sooner(ord, b, a)) /\ ~Sooner(ord, a, a)
         /\ \A c \in R : Sooner(ord, a, b) /\ Sooner(ord, b, c) => Sooner(ord, a, c)
<1>1. /\ ord[a.key] \in Nat /\ a.pos \in Nat /\ ord[b.key] \in Nat /\ b.pos \in Nat
      /\ \A c \in R : ord[c.key] \in Nat /\ c.pos \in Nat
  BY DEF Ranked
<1> QED BY <1>1 DEF Sooner

LEMMA SeqMembers ==
  ASSUME NEW R, NEW s \in Seq(R)
  PROVE  /\ Len(s) \in Nat /\ DOMAIN s = 1 .. Len(s)
         /\ \A i \in 1 .. Len(s) : s[i] \in R /\ s[i] \in ToSet(s)
         /\ \A r \in ToSet(s) : r \in R /\ \E i \in 1 .. Len(s) : s[i] = r
  BY DEF ToSet

LEMMA NotLonger ==
  ASSUME NEW R, NEW ord, Ranked(R, ord), NEW s \in Seq(R), NEW t \in Seq(R),
         InSortOrder(s, ord), InSortOrder(t, ord), ToSet(t) \subseteq ToSet(s),
         \A i \in 1 .. Len(s) : i <= Len(t) => s[i] = t[i]
  PROVE  Len(t) <= Len(s)
<1> SUFFICES ASSUME Len(s) < Len(t) PROVE FALSE
  BY SeqMembers
<1>1. Len(s) \in Nat /\ Len(t) \in Nat /\ Len(s) + 1 \in 1 .. Len(t)
  BY SeqMembers
<1>2. t[Len(s) + 1] \in ToSet(s) /\ t[Len(s) + 1] \in R
  BY <1>1, SeqMembers
<1>3. PICK k \in 1 .. Len(s) : s[k] = t[Len(s) + 1]
  BY <1>2, SeqMembers
<1>4. k \in 1 .. Len(t) /\ k < Len(s) + 1 /\ t[k] = s[k]
  BY <1>1, <1>3
<1>5. Sooner(ord, t[k], t[Len(s) + 1])
  BY <1>1, <1>4 DEF InSortOrder
<1> QED BY <1>2, <1>3, <1>4, <1>5, SoonerOrders

\* Two sequences in order with the same records are the same.
LEMMA OrderUnique ==
  ASSUME NEW R, NEW ord, Ranked(R, ord), NEW s \in Seq(R), NEW t \in Seq(R),
         InSortOrder(s, ord), InSortOrder(t, ord), ToSet(s) = ToSet(t)
  PROVE  s = t
<1>1. Len(s) \in Nat /\ Len(t) \in Nat /\ DOMAIN s = 1 .. Len(s) /\ DOMAIN t = 1 .. Len(t)
  BY SeqMembers
<1> DEFINE T == {m \in Nat : m \in 1 .. Len(s) /\ m \in 1 .. Len(t) /\ s[m] # t[m]}
<1>2. T = {}
  <2> SUFFICES ASSUME T # {} PROVE FALSE
    OBVIOUS
  <2>1. T \in SUBSET Nat
    OBVIOUS
  <2>2. PICK m \in T : \A k \in T : m <= k
    BY <2>1, LeastNumber
  <2>3. m \in Nat /\ m \in 1 .. Len(s) /\ m \in 1 .. Len(t) /\ s[m] # t[m]
    OBVIOUS
  <2>4. \A k \in 1 .. Len(s) : k < m => k \in 1 .. Len(t) /\ s[k] = t[k]
    BY <1>1, <2>2, <2>3
  <2>5. \A k \in 1 .. Len(t) : k < m => k \in 1 .. Len(s) /\ s[k] = t[k]
    BY <1>1, <2>2, <2>3
  <2> HIDE DEF T
  <2>6. s[m] \in R /\ t[m] \in R
    BY <2>3, SeqMembers
  <2>7. Sooner(ord, t[m], s[m])
    <3>1. PICK k \in 1 .. Len(t) : t[k] = s[m]
      BY <2>3, SeqMembers
    <3>2. ~ k < m
      <4> SUFFICES ASSUME k < m PROVE FALSE
        OBVIOUS
      <4>1. k \in 1 .. Len(s) /\ s[k] = s[m]
        BY <2>5, <3>1
      <4>2. Sooner(ord, s[k], s[m])
        BY <2>3, <4>1 DEF InSortOrder
      <4> QED BY <2>6, <4>1, <4>2, SoonerOrders
    <3>3. m < k
      BY <1>1, <2>3, <3>1, <3>2
    <3> QED BY <2>3, <3>1, <3>3 DEF InSortOrder
  <2>8. Sooner(ord, s[m], t[m])
    <3>1. PICK k \in 1 .. Len(s) : s[k] = t[m]
      BY <2>3, SeqMembers
    <3>2. ~ k < m
      <4> SUFFICES ASSUME k < m PROVE FALSE
        OBVIOUS
      <4>1. k \in 1 .. Len(t) /\ t[k] = t[m]
        BY <2>4, <3>1
      <4>2. Sooner(ord, t[k], t[m])
        BY <2>3, <4>1 DEF InSortOrder
      <4> QED BY <2>6, <4>1, <4>2, SoonerOrders
    <3>3. m < k
      BY <1>1, <2>3, <3>1, <3>2
    <3> QED BY <2>3, <3>1, <3>3 DEF InSortOrder
  <2> QED BY <2>6, <2>7, <2>8, SoonerOrders
<1>3. \A i \in 1 .. Len(s) : i <= Len(t) => s[i] = t[i]
  BY <1>1, <1>2
<1>4. \A i \in 1 .. Len(t) : i <= Len(s) => t[i] = s[i]
  BY <1>1, <1>3
<1>5. Len(t) <= Len(s) /\ Len(s) <= Len(t)
  BY <1>3, <1>4, NotLonger
<1>6. Len(s) = Len(t)
  <2>1. \A a, b \in Nat : a <= b /\ b <= a => a = b
    OBVIOUS
  <2> QED BY <1>1, <1>5, <2>1, Zenon
<1>7. \A i \in 1 .. Len(s) : s[i] = t[i]
  BY <1>1, <1>3, <1>6
<1> QED BY <1>6, <1>7, SeqEqual

-----------------------------------------------------------------------------
(***************************************************************************)
(* StableSort                                                              *)
(***************************************************************************)

\* Each record is left in its place after a smaller one or an equal one that
\* comes before it.
SortAhead(s, ord) ==
  [i \in DOMAIN s |-> {j \in DOMAIN s : \/ ord[s[j].key] < ord[s[i].key]
                                        \/ ord[s[j].key] = ord[s[i].key] /\ j < i}]

LEMMA SortRanks ==
  ASSUME NEW R, NEW ord, Ranked(R, ord), NEW s \in Seq(R)
  PROVE  Ranks(1 .. Len(s), SortAhead(s, ord))
<1> DEFINE S == 1 .. Len(s)
           o == [i \in S |-> ord[s[i].key]]
           ahead == SortAhead(s, ord)
<1>1. Len(s) \in Nat /\ DOMAIN s = S /\ \A i \in S : o[i] \in Nat /\ i \in Nat
  BY SeqMembers DEF Ranked
<1>2. ahead \in [S -> SUBSET S]
      /\ \A i, j \in S : j \in ahead[i] <=> o[j] < o[i] \/ (o[j] = o[i] /\ j < i)
  BY <1>1 DEF SortAhead
<1> HIDE DEF S, o, ahead
<1>3. \A i \in S : i \notin ahead[i]
  BY <1>1, <1>2
<1>4. \A i, j \in S : i # j => j \in ahead[i] \/ i \in ahead[j]
  BY <1>1, <1>2
<1>5. ASSUME NEW i \in S, NEW j \in S, j \in ahead[i] PROVE ahead[j] \subseteq ahead[i]
  <2> SUFFICES ASSUME NEW k \in S, k \in ahead[j] PROVE k \in ahead[i]
    BY <1>2
  <2> QED BY <1>1, <1>2, <1>5
<1>6. Ranks(S, ahead)
  BY <1>2, <1>3, <1>4, <1>5 DEF Ranks
<1> QED BY <1>6 DEF S, ahead

\* The places of the records in the order of the sort.
SortPlaces(s, ord, order) ==
  /\ order \in [1 .. Len(s) -> 1 .. Len(s)]
  /\ \A m, n \in 1 .. Len(s) :
       m < n <=> \/ ord[s[order[m]].key] < ord[s[order[n]].key]
                 \/ ord[s[order[m]].key] = ord[s[order[n]].key] /\ order[m] < order[n]
  /\ \A i \in 1 .. Len(s) : \E n \in 1 .. Len(s) : order[n] = i

LEMMA StableSortPlaces ==
  ASSUME NEW R, NEW ord, Ranked(R, ord), NEW s \in Seq(R)
  PROVE  \E order : /\ SortPlaces(s, ord, order)
                    /\ StableSort(s, ord) = [n \in 1 .. Len(s) |-> s[order[n]]]
<1> DEFINE S == 1 .. Len(s)
           ahead == SortAhead(s, ord)
           order == InTurn(ahead)
<1>1. Len(s) \in Nat /\ DOMAIN s = S
  BY SeqMembers
<1>2. IsFiniteSet(S) /\ Cardinality(S) = Len(s)
  BY <1>1, FS_Interval, SMTT(30)
<1>3. Ranks(S, ahead)
  BY SortRanks
<1>4. \A i, j \in S : j \in ahead[i] <=> \/ ord[s[j].key] < ord[s[i].key]
                                         \/ ord[s[j].key] = ord[s[i].key] /\ j < i
  BY <1>1 DEF SortAhead
<1>5. StableSort(s, ord) = [n \in DOMAIN order |-> s[order[n]]]
  BY DEF StableSort, SortAhead
<1> HIDE DEF S, ahead, order
<1>6. /\ InTurn(ahead) \in [1 .. Cardinality(S) -> S]
      /\ \A m, n \in 1 .. Cardinality(S) :
           m < n <=> InTurn(ahead)[m] \in ahead[InTurn(ahead)[n]]
      /\ \A i \in S : \E n \in 1 .. Cardinality(S) : InTurn(ahead)[n] = i
  BY <1>2, <1>3, InTurnIs
<1>7. /\ order \in [S -> S] /\ \A i \in S : \E n \in S : order[n] = i
      /\ \A m, n \in S : m < n <=> order[m] \in ahead[order[n]]
  <2>1. 1 .. Cardinality(S) = S
    BY <1>2 DEF S
  <2> QED BY <1>6, <2>1 DEF order
<1>8. ASSUME NEW m \in S, NEW n \in S
      PROVE  m < n <=> \/ ord[s[order[m]].key] < ord[s[order[n]].key]
                       \/ ord[s[order[m]].key] = ord[s[order[n]].key] /\ order[m] < order[n]
  <2>1. order[m] \in S /\ order[n] \in S
    BY <1>7
  <2>2. m < n <=> order[m] \in ahead[order[n]]
    BY <1>7
  <2> QED BY <1>4, <2>1, <2>2, Zenon
<1>9. SortPlaces(s, ord, order)
  BY <1>7, <1>8, Zenon DEF SortPlaces, S
<1>10. DOMAIN order = 1 .. Len(s)
  BY <1>7 DEF S
<1> QED BY <1>5, <1>9, <1>10

\* The positions of the records rise.
InPosOrder(s) == \A i, j \in 1 .. Len(s) : i < j => s[i].pos < s[j].pos

\* A stable sort keeps the records; those that come in the order of their
\* positions it puts in the order of the sort.
LEMMA StableSortIs ==
  ASSUME NEW R, NEW ord, Ranked(R, ord), NEW s \in Seq(R)
  PROVE  /\ StableSort(s, ord) \in Seq(R) /\ Len(StableSort(s, ord)) = Len(s)
         /\ ToSet(StableSort(s, ord)) = ToSet(s)
         /\ InPosOrder(s) => InSortOrder(StableSort(s, ord), ord)
<1>1. PICK order : /\ SortPlaces(s, ord, order)
                   /\ StableSort(s, ord) = [n \in 1 .. Len(s) |-> s[order[n]]]
  BY StableSortPlaces
<1> DEFINE t == StableSort(s, ord)
<1>2. Len(s) \in Nat /\ DOMAIN s = 1 .. Len(s) /\ \A i \in 1 .. Len(s) : s[i] \in R
  BY SeqMembers
<1>3. \A n \in 1 .. Len(s) : order[n] \in 1 .. Len(s) /\ t[n] = s[order[n]]
  BY <1>1 DEF SortPlaces
<1>4. t \in [1 .. Len(s) -> R]
  BY <1>1, <1>2, <1>3
<1> HIDE DEF t
<1>5. t \in Seq(R) /\ Len(t) = Len(s) /\ DOMAIN t = 1 .. Len(s)
  BY <1>2, <1>4
<1>6. ToSet(t) = ToSet(s)
  <2>1. ToSet(t) \subseteq ToSet(s)
    BY <1>2, <1>3, <1>5 DEF ToSet
  <2>2. ASSUME NEW i \in 1 .. Len(s) PROVE s[i] \in ToSet(t)
    <3>1. PICK n \in 1 .. Len(s) : order[n] = i
      BY <1>1 DEF SortPlaces
    <3> QED BY <1>3, <1>5, <3>1 DEF ToSet
  <2> QED BY <1>2, <2>1, <2>2 DEF ToSet
<1>7. ASSUME InPosOrder(s) PROVE InSortOrder(t, ord)
  <2> SUFFICES ASSUME NEW m \in 1 .. Len(s), NEW n \in 1 .. Len(s), m < n
               PROVE  Sooner(ord, t[m], t[n])
    BY <1>5 DEF InSortOrder
  <2>1. \/ ord[s[order[m]].key] < ord[s[order[n]].key]
        \/ ord[s[order[m]].key] = ord[s[order[n]].key] /\ order[m] < order[n]
    BY <1>1, Zenon DEF SortPlaces
  <2>2. order[m] < order[n] => s[order[m]].pos < s[order[n]].pos
    BY <1>3, <1>7 DEF InPosOrder
  <2> QED BY <1>3, <2>1, <2>2 DEF Sooner
<1> QED BY <1>5, <1>6, <1>7 DEF t

-----------------------------------------------------------------------------
(***************************************************************************)
(* FirstOfEquals                                                           *)
(***************************************************************************)

\* The places of the records that are the first of their group.
FirstPlaces(s, ord) ==
  {i \in 1 .. Len(s) : i = 1 \/ ord[s[i - 1].key] # ord[s[i].key]}

\* t is the records at the m places of order.
ListsFirst(s, ord, t, m, order) ==
  /\ t = [n \in 1 .. m |-> s[order[n]]]
  /\ m \in Nat /\ order \in [1 .. m -> FirstPlaces(s, ord)]
  /\ \A a, b \in 1 .. m : a < b <=> order[a] < order[b]
  /\ \A i \in FirstPlaces(s, ord) : \E n \in 1 .. m : order[n] = i

\* A first record is left in its place after those before it.
FirstAhead(s, ord) ==
  [i \in FirstPlaces(s, ord) |-> {j \in FirstPlaces(s, ord) : j < i}]

LEMMA FirstOfEqualsListed ==
  ASSUME NEW R, NEW ord, NEW s \in Seq(R)
  PROVE  ListsFirst(s, ord, FirstOfEquals(s, ord), Cardinality(FirstPlaces(s, ord)),
                    InTurn(FirstAhead(s, ord)))
<1> DEFINE F == FirstPlaces(s, ord)
           ahead == FirstAhead(s, ord)
           order == InTurn(ahead)
<1>1. Len(s) \in Nat /\ DOMAIN s = 1 .. Len(s)
  BY SeqMembers
<1>2. F \in SUBSET (1 .. Len(s)) /\ \A i \in F : i \in Nat
  BY <1>1 DEF FirstPlaces
<1>3. IsFiniteSet(F)
  <2>1. IsFiniteSet(1 .. Len(s))
    BY <1>1, FS_Interval
  <2> QED BY <1>2, <2>1, FS_Subset
<1>4. FirstOfEquals(s, ord) = [n \in DOMAIN order |-> s[order[n]]]
  BY <1>1 DEF FirstOfEquals, FirstPlaces, FirstAhead
<1>10. ahead = [i \in F |-> {j \in F : j < i}]
  BY DEF FirstAhead
<1> HIDE DEF F, ahead
<1>5. Ranks(F, ahead) /\ \A i, j \in F : j \in ahead[i] <=> j < i
  <2>1. ahead \in [F -> SUBSET F] /\ \A i, j \in F : j \in ahead[i] <=> j < i
    BY <1>10
  <2>2. ASSUME NEW i \in F, NEW j \in F, j \in ahead[i] PROVE ahead[j] \subseteq ahead[i]
    <3> SUFFICES ASSUME NEW k \in F, k \in ahead[j] PROVE k \in ahead[i]
      BY <2>1
    <3>1. i \in Nat /\ j \in Nat /\ k \in Nat /\ k < j /\ j < i
      BY <1>2, <2>1, <2>2
    <3> QED BY <2>1, <3>1
  <2>3. \A i \in F : i \notin ahead[i]
    BY <1>2, <2>1
  <2>4. \A i, j \in F : i # j => j \in ahead[i] \/ i \in ahead[j]
    BY <1>2, <2>1
  <2> QED BY <2>1, <2>2, <2>3, <2>4 DEF Ranks
<1>6. /\ Cardinality(F) \in Nat /\ order \in [1 .. Cardinality(F) -> F]
      /\ \A m, n \in 1 .. Cardinality(F) : m < n <=> order[m] \in ahead[order[n]]
      /\ \A i \in F : \E n \in 1 .. Cardinality(F) : order[n] = i
  BY <1>3, <1>5, InTurnIs
<1> HIDE DEF order
<1>7. \A m, n \in 1 .. Cardinality(F) : m < n <=> order[m] < order[n]
  BY <1>5, <1>6
<1>8. FirstOfEquals(s, ord) = [n \in 1 .. Cardinality(F) |-> s[order[n]]]
  BY <1>4, <1>6
<1>9. ListsFirst(s, ord, FirstOfEquals(s, ord), Cardinality(F), order)
  BY <1>6, <1>7, <1>8, Zenon DEF ListsFirst, F
<1> QED BY <1>9 DEF F, ahead, order

LEMMA FirstOfEqualsPlaces ==
  ASSUME NEW R, NEW ord, NEW s \in Seq(R)
  PROVE  \E m, order : ListsFirst(s, ord, FirstOfEquals(s, ord), m, order)
<1>1. ListsFirst(s, ord, FirstOfEquals(s, ord), Cardinality(FirstPlaces(s, ord)),
                 InTurn(FirstAhead(s, ord)))
  BY FirstOfEqualsListed, Zenon
<1> QED BY <1>1

\* The records from place j to place i are equal.
AlikeTo(s, ord, j, i) == \A k \in j .. i : ord[s[k].key] = ord[s[i].key]

\* Going back from a record to the first that is equal.
LEMMA FirstPlaceExists ==
  ASSUME NEW R, NEW ord, NEW s \in Seq(R), NEW i \in 1 .. Len(s)
  PROVE  \E j \in FirstPlaces(s, ord) : j <= i /\ AlikeTo(s, ord, j, i)
<1> DEFINE T == {j \in Nat : j \in 1 .. i /\ AlikeTo(s, ord, j, i)}
<1>1. Len(s) \in Nat /\ i \in Nat
  BY SeqMembers
<1>2. i \in T
  BY <1>1 DEF AlikeTo
<1>3. PICK j \in T : \A k \in T : j <= k
  <2>1. T \in SUBSET Nat /\ T # {}
    BY <1>2
  <2> QED BY <2>1, LeastNumber
<1>4. j \in 1 .. i /\ j \in Nat /\ AlikeTo(s, ord, j, i) /\ j \in 1 .. Len(s) /\ j <= i
  BY <1>1, <1>3
<1>5. ASSUME j # 1, ord[s[j - 1].key] = ord[s[j].key] PROVE FALSE
  <2>1. j - 1 \in Nat /\ j - 1 \in 1 .. i /\ j \in j .. i
    BY <1>1, <1>4, <1>5
  <2>2. ord[s[j].key] = ord[s[i].key]
    BY <1>4, <2>1 DEF AlikeTo
  <2>3. \A k \in j - 1 .. i : k = j - 1 \/ k \in j .. i
    BY <1>1, <1>4
  <2>4. AlikeTo(s, ord, j - 1, i)
    BY <1>4, <1>5, <2>2, <2>3 DEF AlikeTo
  <2>5. j - 1 \in T
    BY <2>1, <2>4
  <2> QED BY <1>3, <1>4, <2>1, <2>5
<1>6. j \in FirstPlaces(s, ord)
  BY <1>4, <1>5 DEF FirstPlaces
<1> QED BY <1>4, <1>6

\* Of every group of equal neighbours the first record is kept, and no two
\* neighbours are equal then.
LEMMA FirstOfEqualsIs ==
  ASSUME NEW R, NEW ord, NEW s \in Seq(R)
  PROVE  LET t == FirstOfEquals(s, ord)
         IN  /\ t \in Seq(R)
             /\ ToSet(t) = {s[i] : i \in FirstPlaces(s, ord)}
             /\ ToSet(t) \subseteq ToSet(s)
             /\ \A i \in 1 .. Len(s) : \E j \in 1 .. i :
                  s[j] \in ToSet(t) /\ AlikeTo(s, ord, j, i)
             /\ \A n \in 1 .. Len(t) : n + 1 <= Len(t) =>
                  ord[t[n].key] # ord[t[n + 1].key]
<1> DEFINE t == FirstOfEquals(s, ord)
           F == FirstPlaces(s, ord)
<1>1. PICK m, order : ListsFirst(s, ord, t, m, order)
  BY FirstOfEqualsPlaces
<1>0. /\ m \in Nat /\ order \in [1 .. m -> F] /\ t = [n \in 1 .. m |-> s[order[n]]]
      /\ \A a, b \in 1 .. m : a < b <=> order[a] < order[b]
      /\ \A i \in F : \E n \in 1 .. m : order[n] = i
  BY <1>1 DEF ListsFirst
<1>2. Len(s) \in Nat /\ DOMAIN s = 1 .. Len(s) /\ \A i \in 1 .. Len(s) : s[i] \in R
  BY SeqMembers
<1>3. \A i \in F : i \in 1 .. Len(s) /\ i \in Nat
  BY <1>2 DEF FirstPlaces
<1>4. \A n \in 1 .. m : order[n] \in F /\ t[n] = s[order[n]]
  BY <1>0
<1> HIDE DEF t
<1>5. t \in [1 .. m -> R]
  BY <1>0, <1>2, <1>3
<1>6. t \in Seq(R) /\ Len(t) = m /\ DOMAIN t = 1 .. m
  BY <1>0, <1>5
<1>7. ToSet(t) = {s[i] : i \in F}
  <2> HIDE DEF F
  <2>1. \A n \in 1 .. m : t[n] \in {s[i] : i \in F}
    BY <1>4
  <2>2. \A i \in F : \E n \in 1 .. m : t[n] = s[i]
    BY <1>0, <1>4
  <2> QED BY <1>6, <2>1, <2>2 DEF ToSet
<1>8. ToSet(t) \subseteq ToSet(s)
  BY <1>2, <1>3, <1>7 DEF ToSet
<1>9. ASSUME NEW i \in 1 .. Len(s)
      PROVE  \E j \in 1 .. i : s[j] \in ToSet(t) /\ AlikeTo(s, ord, j, i)
  <2>1. PICK j \in F : j <= i /\ AlikeTo(s, ord, j, i)
    BY FirstPlaceExists
  <2>2. j \in 1 .. i /\ s[j] \in ToSet(t)
    BY <1>2, <1>3, <1>7, <2>1
  <2> QED BY <2>1, <2>2
<1>10. ASSUME NEW n \in 1 .. Len(t), n + 1 <= Len(t)
       PROVE  ord[t[n].key] # ord[t[n + 1].key]
  <2> DEFINE p == order[n]
             q == order[n + 1]
  <2>1. n \in 1 .. m /\ n + 1 \in 1 .. m /\ n < n + 1
    BY <1>6, <1>10
  <2>2. p \in F /\ q \in F /\ p < q /\ t[n] = s[p] /\ t[n + 1] = s[q]
    BY <1>0, <1>4, <2>1
  <2>3. \A i \in F : ~ (p < i /\ i < q)
    <3> SUFFICES ASSUME NEW i \in F, p < i, i < q PROVE FALSE
      OBVIOUS
    <3>1. PICK k \in 1 .. m : order[k] = i
      BY <1>0
    <3>2. n < k /\ k < n + 1
      BY <1>0, <2>1, <3>1
    <3> QED BY <2>1, <3>2
  <2> HIDE DEF p, q
  <2>4. p \in 1 .. Len(s) /\ q \in 1 .. Len(s) /\ p \in Nat /\ q \in Nat /\ q # 1
    BY <1>3, <2>2
  <2>5. q - 1 \in 1 .. Len(s) /\ q - 1 < q /\ p <= q - 1
    BY <1>2, <2>2, <2>4
  <2>6. PICK j \in F : j <= q - 1 /\ AlikeTo(s, ord, j, q - 1)
    BY <2>5, FirstPlaceExists
  <2>7. j <= p
    <3>1. j \in Nat /\ j < q
      BY <1>3, <2>4, <2>6
    <3> QED BY <2>3, <2>4, <3>1
  <2>8. ord[s[p].key] = ord[s[q - 1].key]
    <3>1. p \in j .. q - 1
      BY <1>3, <2>4, <2>5, <2>6, <2>7
    <3> QED BY <2>6, <3>1 DEF AlikeTo
  <2>9. ord[s[q - 1].key] # ord[s[q].key]
    BY <2>2, <2>4 DEF FirstPlaces
  <2> QED BY <2>2, <2>8, <2>9
<1> QED BY <1>6, <1>7, <1>8, <1>9, <1>10 DEF t

-----------------------------------------------------------------------------
(***************************************************************************)
(* Sequences that are sorted alike                                         *)
(***************************************************************************)

\* The keys of u have the order that the keys of s have.
OrderedAlike(s, ord, u, o) ==
  /\ DOMAIN u = DOMAIN s
  /\ \A i \in DOMAIN s : o[u[i].key] = ord[s[i].key]

\* t and v are the records of s and u at the same m places.
Selects(s, u, t, v, m) ==
  \E order \in [1 .. m -> 1 .. Len(s)] :
    t = [n \in 1 .. m |-> s[order[n]]] /\ v = [n \in 1 .. m |-> u[order[n]]]

\* Such sequences are sorted alike.
LEMMA SortsAlike ==
  ASSUME NEW R, NEW ord, Ranked(R, ord), NEW s \in Seq(R), NEW u, NEW o,
         OrderedAlike(s, ord, u, o)
  PROVE  Selects(s, u, StableSort(s, ord), StableSort(u, o), Len(s))
<1> DEFINE S == 1 .. Len(s)
           ahead == SortAhead(s, ord)
           order == InTurn(ahead)
<1>1. Len(s) \in Nat /\ DOMAIN s = S
  BY SeqMembers
<1>2. IsFiniteSet(S) /\ Cardinality(S) = Len(s)
  BY <1>1, FS_Interval, SMTT(30)
<1>3. Ranks(S, ahead)
  BY SortRanks
<1>4. SortAhead(u, o) = ahead
  BY DEF SortAhead, OrderedAlike
<1>5. StableSort(s, ord) = [n \in DOMAIN order |-> s[order[n]]]
  BY DEF StableSort, SortAhead
<1>6. StableSort(u, o) = [n \in DOMAIN InTurn(SortAhead(u, o)) |-> u[InTurn(SortAhead(u, o))[n]]]
  BY DEF StableSort, SortAhead
<1>7. StableSort(u, o) = [n \in DOMAIN order |-> u[order[n]]]
  BY <1>4, <1>6
<1> HIDE DEF S, ahead
<1>8. order \in [1 .. Cardinality(S) -> S]
  BY <1>2, <1>3, InTurnIs
<1> HIDE DEF order
<1>9. order \in [1 .. Len(s) -> 1 .. Len(s)]
  BY <1>2, <1>8 DEF S
<1>10. DOMAIN order = 1 .. Len(s)
  BY <1>9
<1> QED BY <1>5, <1>7, <1>9, <1>10 DEF Selects

LEMMA FirstsAlike ==
  ASSUME NEW R, NEW ord, NEW s \in Seq(R), NEW u, NEW o, OrderedAlike(s, ord, u, o)
  PROVE  \E m \in Nat : Selects(s, u, FirstOfEquals(s, ord), FirstOfEquals(u, o), m)
<1> DEFINE F == FirstPlaces(s, ord)
           order == InTurn(FirstAhead(s, ord))
<1>1. Len(s) \in Nat /\ DOMAIN s = 1 .. Len(s) /\ DOMAIN u = 1 .. Len(s)
  BY SeqMembers DEF OrderedAlike
<1>2. {i \in DOMAIN u : i = 1 \/ o[u[i - 1].key] # o[u[i].key]} = F
  <2>1. \A i \in 1 .. Len(s) : i # 1 => i - 1 \in 1 .. Len(s)
    BY <1>1
  <2> QED BY <1>1, <2>1 DEF FirstPlaces, OrderedAlike
<1>3. FirstOfEquals(u, o) = [n \in DOMAIN order |-> u[order[n]]]
  BY <1>2 DEF FirstOfEquals, FirstAhead
<1>4. /\ FirstOfEquals(s, ord) = [n \in 1 .. Cardinality(F) |-> s[order[n]]]
      /\ Cardinality(F) \in Nat /\ order \in [1 .. Cardinality(F) -> F]
  <2>1. ListsFirst(s, ord, FirstOfEquals(s, ord), Cardinality(F), order)
    BY FirstOfEqualsListed, Zenon
  <2> QED BY <2>1, Zenon DEF ListsFirst
<1>5. DOMAIN order = 1 .. Cardinality(F)
  BY <1>4
<1>6. F \in SUBSET (1 .. Len(s))
  BY DEF FirstPlaces
<1> HIDE DEF F, order
<1>7. order \in [1 .. Cardinality(F) -> 1 .. Len(s)]
  BY <1>4, <1>6
<1>8. FirstOfEquals(u, o) = [n \in 1 .. Cardinality(F) |-> u[order[n]]]
  BY <1>3, <1>5
<1>9. Selects(s, u, FirstOfEquals(s, ord), FirstOfEquals(u, o), Cardinality(F))
  BY <1>4, <1>7, <1>8, Zenon DEF Selects
<1> QED BY <1>4, <1>9

-----------------------------------------------------------------------------
(***************************************************************************)
(* The first of equals, in order                                           *)
(***************************************************************************)

\* The records that no other of the set is equal to and comes before.
Firsts(T, ord) == {r \in T : \A q \in T : ord[q.key] = ord[r.key] => r.pos <= q.pos}

Rising(s, ord) == \A i, j \in 1 .. Len(s) : i < j => ord[s[i].key] < ord[s[j].key]

\* What is kept of a sequence in order is in order, has no equal records, and
\* is the first of all that are equal.
LEMMA FirstOfEqualsSorted ==
  ASSUME NEW R, NEW ord, Ranked(R, ord), NEW s \in Seq(R), InSortOrder(s, ord)
  PROVE  LET t == FirstOfEquals(s, ord)
         IN  /\ t \in Seq(R) /\ InSortOrder(t, ord) /\ Rising(t, ord)
             /\ ToSet(t) = Firsts(ToSet(s), ord)
<1> DEFINE t == FirstOfEquals(s, ord)
           F == FirstPlaces(s, ord)
<1>1. PICK m, order : ListsFirst(s, ord, t, m, order)
  BY FirstOfEqualsPlaces
<1>0. /\ m \in Nat /\ order \in [1 .. m -> F] /\ t = [n \in 1 .. m |-> s[order[n]]]
      /\ \A a, b \in 1 .. m : a < b <=> order[a] < order[b]
      /\ \A i \in F : \E n \in 1 .. m : order[n] = i
  BY <1>1 DEF ListsFirst
<1>2. /\ Len(s) \in Nat /\ DOMAIN s = 1 .. Len(s)
      /\ \A i \in 1 .. Len(s) : s[i] \in R /\ ord[s[i].key] \in Nat /\ s[i].pos \in Nat
  BY SeqMembers DEF Ranked
<1>3. \A i \in F : /\ i \in 1 .. Len(s) /\ i \in Nat
                   /\ i = 1 \/ ord[s[i - 1].key] # ord[s[i].key]
  BY <1>2 DEF FirstPlaces
<1>4. t \in Seq(R) /\ ToSet(t) = {s[i] : i \in F}
  BY FirstOfEqualsIs
<1>5. \A n \in 1 .. m : order[n] \in F /\ t[n] = s[order[n]]
  BY <1>0
<1>6. Len(t) = m
  BY <1>0
<1> HIDE DEF t
<1>7. \A i, j \in 1 .. Len(s) : i < j => Sooner(ord, s[i], s[j])
  BY DEF InSortOrder
<1>8. \A i, j \in 1 .. Len(s) : i < j => ord[s[i].key] <= ord[s[j].key]
  BY <1>2, <1>7 DEF Sooner
<1>9. ASSUME NEW i \in 1 .. Len(s), NEW j \in F, i < j PROVE ord[s[i].key] < ord[s[j].key]
  <2>1. j \in Nat /\ j # 1 /\ j - 1 \in 1 .. Len(s) /\ j \in 1 .. Len(s) /\ i <= j - 1 /\ j - 1 < j
    BY <1>2, <1>3, <1>9
  <2>2. ord[s[i].key] <= ord[s[j - 1].key]
    <3>1. CASE i = j - 1
      BY <1>2, <3>1
    <3>2. CASE i # j - 1
      BY <1>8, <2>1, <3>2
    <3> QED BY <3>1, <3>2
  <2>3. ord[s[j - 1].key] <= ord[s[j].key] /\ ord[s[j - 1].key] # ord[s[j].key]
    BY <1>3, <1>8, <2>1
  <2> QED BY <1>2, <2>1, <2>2, <2>3
<1>10. Rising(t, ord)
  <2> SUFFICES ASSUME NEW a \in 1 .. m, NEW b \in 1 .. m, a < b
               PROVE  ord[t[a].key] < ord[t[b].key]
    BY <1>6 DEF Rising
  <2>1. order[a] < order[b] /\ order[a] \in 1 .. Len(s) /\ order[b] \in F
    BY <1>0, <1>3, <1>5
  <2> QED BY <1>5, <1>9, <2>1
<1>11. InSortOrder(t, ord)
  BY <1>10 DEF InSortOrder, Rising, Sooner
<1>12. ToSet(t) \subseteq Firsts(ToSet(s), ord)
  <2> SUFFICES ASSUME NEW i \in F, NEW q \in ToSet(s), ord[q.key] = ord[s[i].key]
               PROVE  s[i] \in ToSet(s) /\ s[i].pos <= q.pos
    BY <1>3, <1>4, SeqMembers DEF Firsts
  <2>1. PICK j \in 1 .. Len(s) : s[j] = q
    BY SeqMembers
  <2>2. i \in 1 .. Len(s) /\ i \in Nat /\ s[i] \in ToSet(s)
    BY <1>3, SeqMembers
  <2>3. ~ j < i
    BY <1>2, <1>9, <2>1, <2>2
  <2>4. i < j => s[i].pos <= s[j].pos
    BY <1>2, <1>7, <2>1, <2>2 DEF Sooner
  <2>5. i = j \/ i < j
    BY <2>2, <2>3
  <2> QED BY <1>2, <2>1, <2>2, <2>4, <2>5
<1>13. Firsts(ToSet(s), ord) \subseteq ToSet(t)
  <2> SUFFICES ASSUME NEW r \in Firsts(ToSet(s), ord) PROVE r \in ToSet(t)
    OBVIOUS
  <2>1. PICK i \in 1 .. Len(s) : s[i] = r
    BY SeqMembers DEF Firsts
  <2>2. i \in F
    <3> SUFFICES ASSUME i # 1, ord[s[i - 1].key] = ord[s[i].key] PROVE FALSE
      BY DEF FirstPlaces
    <3>1. i - 1 \in 1 .. Len(s) /\ i - 1 < i
      BY <1>2
    <3>2. s[i - 1].pos < s[i].pos
      BY <1>2, <1>7, <3>1 DEF Sooner
    <3>3. s[i].pos <= s[i - 1].pos
      BY <2>1, <3>1, SeqMembers DEF Firsts
    <3> QED BY <1>2, <3>1, <3>2, <3>3
  <2> QED BY <1>4, <2>1, <2>2
<1> QED BY <1>4, <1>10, <1>11, <1>12, <1>13 DEF t

-----------------------------------------------------------------------------
(***************************************************************************)
(* StableMerge                                                             *)
(***************************************************************************)

\* The largest of some numbers is one of them.
LEMMA LargestIs ==
  ASSUME NEW o, NEW n \in Nat, n # 0, \A j \in 1 .. n : o[j] \in Nat
  PROVE  /\ \A j \in 1 .. n : o[j] <= Max({o[k] : k \in 1 .. n})
         /\ \E j \in 1 .. n : Max({o[k] : k \in 1 .. n}) = o[j]
<1> DEFINE HasLargest(i) == \E j \in 1 .. i : \A k \in 1 .. i : o[k] <= o[j]
           T == {i \in Nat : i + 1 <= n => HasLargest(i + 1)}
<1>1. 0 \in T
  <2>1. HasLargest(1)
    OBVIOUS
  <2> QED BY <2>1
<1>2. ASSUME NEW i \in T PROVE i + 1 \in T
  <2> SUFFICES ASSUME (i + 1) + 1 <= n PROVE HasLargest((i + 1) + 1)
    OBVIOUS
  <2>1. i \in Nat /\ i + 1 <= n
    OBVIOUS
  <2>2. PICK j \in 1 .. i + 1 : \A k \in 1 .. i + 1 : o[k] <= o[j]
    BY <2>1
  <2>3. j \in 1 .. (i + 1) + 1 /\ o[j] \in Nat /\ o[i + 2] \in Nat /\ i + 2 \in 1 .. (i + 1) + 1
        /\ \A k \in 1 .. i + 1 : o[k] \in Nat
    BY <2>1
  <2>4. CASE o[i + 2] <= o[j]
    BY <2>1, <2>2, <2>3, <2>4
  <2>5. CASE o[j] < o[i + 2]
    <3>1. \A k \in 1 .. (i + 1) + 1 : o[k] <= o[i + 2]
      BY <2>1, <2>2, <2>3, <2>5
    <3> QED BY <2>3, <3>1
  <2> QED BY <2>3, <2>4, <2>5
<1> HIDE DEF HasLargest
<1>3. \A i \in Nat : i \in T
  <2> HIDE DEF T
  <2> QED BY <1>1, <1>2, AllNumbers DEF T
<1>4. HasLargest(n)
  <2>1. n - 1 \in T /\ (n - 1) + 1 = n
    BY <1>3
  <2> QED BY <2>1
<1>5. PICK j \in 1 .. n : \A k \in 1 .. n : o[k] <= o[j]
  BY <1>4 DEF HasLargest
<1>6. \E x \in {o[k] : k \in 1 .. n} : \A y \in {o[k] : k \in 1 .. n} : x >= y
  BY <1>5
<1> QED BY <1>6 DEF Max

\* The places of the records of the runs.
MergePlaces(rs) == UNION {{r} \X DOMAIN rs[r] : r \in DOMAIN rs}

\* The largest key up to a place.
TurnOf(rs, ord, p) == Max({ord[rs[p[1]][j].key] : j \in 1 .. p[2]})

SoonerPlace(rs, ord, p, q) ==
  \/ TurnOf(rs, ord, p) < TurnOf(rs, ord, q)
  \/ TurnOf(rs, ord, p) = TurnOf(rs, ord, q) /\ p[1] < q[1]
  \/ TurnOf(rs, ord, p) = TurnOf(rs, ord, q) /\ p[1] = q[1] /\ p[2] < q[2]

LEMMA MergePlacesAre ==
  ASSUME NEW R, NEW rs \in Seq(Seq(R))
  PROVE  /\ IsFiniteSet(MergePlaces(rs))
         /\ \A p \in MergePlaces(rs) :
              /\ p = <<p[1], p[2]>> /\ p[1] \in 1 .. Len(rs) /\ p[1] \in Nat
              /\ rs[p[1]] \in Seq(R) /\ p[2] \in 1 .. Len(rs[p[1]]) /\ p[2] \in Nat
              /\ rs[p[1]][p[2]] \in R
         /\ \A r \in 1 .. Len(rs) : \A i \in 1 .. Len(rs[r]) : <<r, i>> \in MergePlaces(rs)
<1>1. /\ Len(rs) \in Nat /\ DOMAIN rs = 1 .. Len(rs)
      /\ \A r \in 1 .. Len(rs) : rs[r] \in Seq(R)
  BY SeqMembers
<1>2. \A r \in 1 .. Len(rs) :
        /\ Len(rs[r]) \in Nat /\ DOMAIN rs[r] = 1 .. Len(rs[r])
        /\ \A i \in 1 .. Len(rs[r]) : rs[r][i] \in R
  BY <1>1, SeqMembers
<1> DEFINE U == {{r} \X DOMAIN rs[r] : r \in DOMAIN rs}
           f == [r \in 1 .. Len(rs) |-> {r} \X DOMAIN rs[r]]
<1>3. IsFiniteSet(MergePlaces(rs))
  <2>1. IsFiniteSet(1 .. Len(rs))
    BY <1>1, FS_Interval
  <2>2. f \in Surjection(1 .. Len(rs), U)
    BY <1>1 DEF Surjection
  <2>3. IsFiniteSet(U)
    <3> HIDE DEF U, f
    <3> QED BY <2>1, <2>2, FS_Surjection
  <2>4. ASSUME NEW r \in 1 .. Len(rs) PROVE IsFiniteSet({r} \X DOMAIN rs[r])
    <3>1. IsFiniteSet(DOMAIN rs[r])
      <4>1. Len(rs[r]) \in Nat /\ DOMAIN rs[r] = 1 .. Len(rs[r])
        BY <1>2
      <4> QED BY <4>1, FS_Interval
    <3>2. IsFiniteSet({r})
      BY FS_Singleton, Zenon
    <3> QED BY <3>1, <3>2, FS_Product
  <2>5. \A T \in U : IsFiniteSet(T)
    BY <1>1, <2>4
  <2> HIDE DEF U
  <2>6. IsFiniteSet(UNION U)
    BY <2>3, <2>5, FS_UNION
  <2> QED BY <2>6 DEF U, MergePlaces
<1>4. ASSUME NEW p \in MergePlaces(rs)
      PROVE  /\ p = <<p[1], p[2]>> /\ p[1] \in 1 .. Len(rs) /\ p[2] \in 1 .. Len(rs[p[1]])
  <2>1. PICK r \in 1 .. Len(rs) : p \in {r} \X DOMAIN rs[r]
    BY <1>1 DEF MergePlaces
  <2> QED BY <1>2, <2>1
<1>5. ASSUME NEW r \in 1 .. Len(rs), NEW i \in 1 .. Len(rs[r])
      PROVE  <<r, i>> \in MergePlaces(rs)
  <2>1. <<r, i>> \in {r} \X DOMAIN rs[r]
    BY <1>2
  <2> QED BY <1>1, <2>1 DEF MergePlaces
<1>6. ASSUME NEW p \in MergePlaces(rs)
      PROVE  p[1] \in Nat /\ rs[p[1]] \in Seq(R) /\ p[2] \in Nat /\ rs[p[1]][p[2]] \in R
  BY <1>1, <1>2, <1>4
<1> QED BY <1>3, <1>4, <1>5, <1>6

\* A turn is that of a record up to the place, and it never goes back.
LEMMA TurnIs ==
  ASSUME NEW R, NEW ord, Ranked(R, ord), NEW rs \in Seq(Seq(R)),
         NEW r \in 1 .. Len(rs), NEW i \in 1 .. Len(rs[r])
  PROVE  /\ TurnOf(rs, ord, <<r, i>>) \in Nat
         /\ \A j \in 1 .. i : ord[rs[r][j].key] <= TurnOf(rs, ord, <<r, i>>)
         /\ \E j \in 1 .. i : TurnOf(rs, ord, <<r, i>>) = ord[rs[r][j].key]
<1>1. rs[r] \in Seq(R)
  BY SeqMembers
<1>2. Len(rs[r]) \in Nat /\ \A j \in 1 .. Len(rs[r]) : rs[r][j] \in R
  BY <1>1, SeqMembers
<1> DEFINE o == [j \in 1 .. i |-> ord[rs[r][j].key]]
<1>3. i \in Nat /\ i # 0 /\ \A j \in 1 .. i : o[j] \in Nat /\ o[j] = ord[rs[r][j].key]
  BY <1>2 DEF Ranked
<1>4. TurnOf(rs, ord, <<r, i>>) = Max({o[j] : j \in 1 .. i})
  BY DEF TurnOf
<1> HIDE DEF o
<1>5. /\ \A j \in 1 .. i : o[j] <= Max({o[k] : k \in 1 .. i})
      /\ \E j \in 1 .. i : Max({o[k] : k \in 1 .. i}) = o[j]
  <2>1. i \in Nat /\ i # 0 /\ \A j \in 1 .. i : o[j] \in Nat
    BY <1>3
  <2> QED BY <2>1, LargestIs
<1>6. /\ \A j \in 1 .. i : o[j] <= TurnOf(rs, ord, <<r, i>>)
      /\ \E j \in 1 .. i : TurnOf(rs, ord, <<r, i>>) = o[j]
  BY <1>4, <1>5, Zenon
<1> QED BY <1>3, <1>6

\* t is the records of the runs in the order in which a merge takes them.
MergesTo(rs, ord, t, order) ==
  LET N == Cardinality(MergePlaces(rs))
  IN  /\ N \in Nat /\ order \in [1 .. N -> MergePlaces(rs)]
      /\ \A m, n \in 1 .. N : m < n <=> SoonerPlace(rs, ord, order[m], order[n])
      /\ \A p \in MergePlaces(rs) : \E n \in 1 .. N : order[n] = p
      /\ t = [n \in 1 .. N |-> rs[order[n][1]][order[n][2]]]

LEMMA StableMergePlaces ==
  ASSUME NEW R, NEW ord, Ranked(R, ord), NEW rs \in Seq(Seq(R))
  PROVE  \E order : MergesTo(rs, ord, StableMerge(rs, ord), order)
<1> DEFINE P == MergePlaces(rs)
           u == [p \in P |-> TurnOf(rs, ord, p)]
           ahead == [q \in P |-> {p \in P : SoonerPlace(rs, ord, p, q)}]
           order == InTurn(ahead)
<1>1. /\ IsFiniteSet(P)
      /\ \A p \in P : /\ p = <<p[1], p[2]>> /\ p[1] \in 1 .. Len(rs) /\ p[1] \in Nat
                      /\ p[2] \in 1 .. Len(rs[p[1]]) /\ p[2] \in Nat
  BY MergePlacesAre
<1>2. ASSUME NEW p \in P PROVE u[p] \in Nat
  <2>1. p = <<p[1], p[2]>> /\ p[1] \in 1 .. Len(rs) /\ p[2] \in 1 .. Len(rs[p[1]])
    BY <1>1
  <2>2. TurnOf(rs, ord, <<p[1], p[2]>>) \in Nat
    BY <2>1, TurnIs
  <2> QED BY <2>1, <2>2
<1>3. StableMerge(rs, ord) = [n \in DOMAIN order |-> rs[order[n][1]][order[n][2]]]
  BY Zenon DEF StableMerge, MergePlaces, SoonerPlace, TurnOf
<1>4. \A p, q \in P : SoonerPlace(rs, ord, p, q) <=>
        \/ u[p] < u[q]
        \/ u[p] = u[q] /\ p[1] < q[1]
        \/ u[p] = u[q] /\ p[1] = q[1] /\ p[2] < q[2]
  BY DEF SoonerPlace
<1>5. ahead \in [P -> SUBSET P]
      /\ \A p, q \in P : p \in ahead[q] <=> SoonerPlace(rs, ord, p, q)
  OBVIOUS
<1> HIDE DEF u, ahead, P
<1>6. Ranks(P, ahead)
  <2>1. ASSUME NEW p \in P PROVE p \notin ahead[p]
    <3>1. u[p] \in Nat /\ p[1] \in Nat /\ p[2] \in Nat
      BY <1>1, <1>2
    <3>2. ~SoonerPlace(rs, ord, p, p)
      BY <1>4, <3>1
    <3> QED BY <1>5, <3>2
  <2>2. ASSUME NEW p \in P, NEW q \in P, p # q PROVE q \in ahead[p] \/ p \in ahead[q]
    <3>1. p[1] # q[1] \/ p[2] # q[2]
      BY <1>1, <2>2
    <3>2. u[p] \in Nat /\ u[q] \in Nat /\ p[1] \in Nat /\ q[1] \in Nat /\ p[2] \in Nat /\ q[2] \in Nat
      BY <1>1, <1>2
    <3> QED BY <1>4, <1>5, <3>1, <3>2, SMTT(30)
  <2>3. ASSUME NEW p \in P, NEW q \in P, q \in ahead[p] PROVE ahead[q] \subseteq ahead[p]
    <3> SUFFICES ASSUME NEW k \in P, k \in ahead[q] PROVE k \in ahead[p]
      BY <1>5
    <3>1. SoonerPlace(rs, ord, q, p) /\ SoonerPlace(rs, ord, k, q)
      BY <1>5, <2>3
    <3>2. /\ u[p] \in Nat /\ u[q] \in Nat /\ p[1] \in Nat /\ q[1] \in Nat /\ p[2] \in Nat /\ q[2] \in Nat
          /\ u[k] \in Nat /\ k[1] \in Nat /\ k[2] \in Nat
      BY <1>1, <1>2
    <3>3. SoonerPlace(rs, ord, k, p)
      <4>1. /\ \/ u[q] < u[p]
               \/ u[q] = u[p] /\ q[1] < p[1]
               \/ u[q] = u[p] /\ q[1] = p[1] /\ q[2] < p[2]
            /\ \/ u[k] < u[q]
               \/ u[k] = u[q] /\ k[1] < q[1]
               \/ u[k] = u[q] /\ k[1] = q[1] /\ k[2] < q[2]
        BY <1>4, <3>1
      <4>2. \/ u[k] < u[p]
            \/ u[k] = u[p] /\ k[1] < p[1]
            \/ u[k] = u[p] /\ k[1] = p[1] /\ k[2] < p[2]
        BY <3>2, <4>1, SMTT(30)
      <4> QED BY <1>4, <4>2
    <3> QED BY <1>5, <3>3
  <2> QED BY <1>5, <2>1, <2>2, <2>3 DEF Ranks
<1>7. /\ Cardinality(P) \in Nat /\ order \in [1 .. Cardinality(P) -> P]
      /\ \A m, n \in 1 .. Cardinality(P) : m < n <=> order[m] \in ahead[order[n]]
      /\ \A p \in P : \E n \in 1 .. Cardinality(P) : order[n] = p
  BY <1>1, <1>6, InTurnIs
<1> HIDE DEF order
<1>8. \A m, n \in 1 .. Cardinality(P) : m < n <=> SoonerPlace(rs, ord, order[m], order[n])
  BY <1>5, <1>7
<1>9. StableMerge(rs, ord) = [n \in 1 .. Cardinality(P) |-> rs[order[n][1]][order[n][2]]]
  BY <1>3, <1>7
<1>10. MergesTo(rs, ord, StableMerge(rs, ord), order)
  BY <1>7, <1>8, <1>9 DEF MergesTo, P
<1> QED BY <1>10

\* Record n of t is record i of run r.
TakenFrom(rs, t, order, n, r, i) ==
  /\ r \in 1 .. Len(rs) /\ r \in Nat
  /\ i \in 1 .. Len(rs[r]) /\ i \in Nat
  /\ order[n] = <<r, i>> /\ t[n] = rs[r][i]

LEMMA SeqOfMap ==
  ASSUME NEW R, NEW N \in Nat, NEW t \in [1 .. N -> R]
  PROVE  t \in Seq(R) /\ Len(t) = N
OBVIOUS

LEMMA MergedAre ==
  ASSUME NEW R, NEW ord, NEW rs \in Seq(Seq(R)), NEW t, NEW order, MergesTo(rs, ord, t, order)
  PROVE  /\ t \in Seq(R) /\ Len(t) \in Nat
         /\ \A m, n \in 1 .. Len(t) : m < n <=> SoonerPlace(rs, ord, order[m], order[n])
         /\ \A n \in 1 .. Len(t) : \E r, i : TakenFrom(rs, t, order, n, r, i)
         /\ \A r \in 1 .. Len(rs) : \A i \in 1 .. Len(rs[r]) :
              \E n \in 1 .. Len(t) : TakenFrom(rs, t, order, n, r, i)
<1> DEFINE N == Cardinality(MergePlaces(rs))
<1>1. /\ N \in Nat /\ order \in [1 .. N -> MergePlaces(rs)]
      /\ \A m, n \in 1 .. N : m < n <=> SoonerPlace(rs, ord, order[m], order[n])
      /\ \A p \in MergePlaces(rs) : \E n \in 1 .. N : order[n] = p
      /\ t = [n \in 1 .. N |-> rs[order[n][1]][order[n][2]]]
  BY DEF MergesTo
<1> HIDE DEF N
<1>2. ASSUME NEW n \in 1 .. N
      PROVE  t[n] \in R /\ TakenFrom(rs, t, order, n, order[n][1], order[n][2])
  <2>1. order[n] \in MergePlaces(rs) /\ t[n] = rs[order[n][1]][order[n][2]]
    BY <1>1
  <2>2. /\ order[n] = <<order[n][1], order[n][2]>>
        /\ order[n][1] \in 1 .. Len(rs) /\ order[n][1] \in Nat
        /\ order[n][2] \in 1 .. Len(rs[order[n][1]]) /\ order[n][2] \in Nat
        /\ rs[order[n][1]][order[n][2]] \in R
    BY <2>1, MergePlacesAre
  <2> QED BY <2>1, <2>2, Zenon DEF TakenFrom
<1>3. t \in Seq(R) /\ Len(t) = N
  <2>1. t \in [1 .. N -> R] /\ N \in Nat
    BY <1>1, <1>2
  <2> HIDE DEF MergesTo
  <2> QED BY ONLY <2>1, SeqOfMap
<1>4. ASSUME NEW r \in 1 .. Len(rs), NEW i \in 1 .. Len(rs[r])
      PROVE  \E n \in 1 .. N : TakenFrom(rs, t, order, n, r, i)
  <2>1. <<r, i>> \in MergePlaces(rs)
    BY MergePlacesAre
  <2>2. PICK n \in 1 .. N : order[n] = <<r, i>>
    BY <1>1, <2>1
  <2>3. TakenFrom(rs, t, order, n, order[n][1], order[n][2])
    BY <1>2
  <2> QED BY <2>2, <2>3
<1> QED BY <1>1, <1>2, <1>3, <1>4, Zenon

\* A merge keeps all records and adds none.
LEMMA StableMergeIs ==
  ASSUME NEW R, NEW ord, Ranked(R, ord), NEW rs \in Seq(Seq(R))
  PROVE  /\ StableMerge(rs, ord) \in Seq(R)
         /\ ToSet(StableMerge(rs, ord)) = UNION {ToSet(rs[r]) : r \in DOMAIN rs}
<1> DEFINE t == StableMerge(rs, ord)
<1>1. PICK order : MergesTo(rs, ord, t, order)
  BY StableMergePlaces
<1> HIDE DEF t
<1>2. t \in Seq(R)
  BY <1>1, MergedAre
<1>3. DOMAIN t = 1 .. Len(t) /\ DOMAIN rs = 1 .. Len(rs)
      /\ \A r \in 1 .. Len(rs) : DOMAIN rs[r] = 1 .. Len(rs[r])
  BY <1>2, SeqMembers
<1>4. ASSUME NEW n \in 1 .. Len(t)
      PROVE  \E r \in 1 .. Len(rs) : \E i \in 1 .. Len(rs[r]) : t[n] = rs[r][i]
  <2>1. PICK r, i : TakenFrom(rs, t, order, n, r, i)
    BY <1>1, MergedAre
  <2> QED BY <2>1, Zenon DEF TakenFrom
<1>5. ASSUME NEW r \in 1 .. Len(rs), NEW i \in 1 .. Len(rs[r])
      PROVE  \E n \in 1 .. Len(t) : t[n] = rs[r][i]
  <2>1. PICK n \in 1 .. Len(t) : TakenFrom(rs, t, order, n, r, i)
    BY <1>1, MergedAre
  <2> QED BY <2>1, Zenon DEF TakenFrom
<1>6. ToSet(t) = UNION {ToSet(rs[r]) : r \in DOMAIN rs}
  <2>1. ASSUME NEW x \in ToSet(t) PROVE x \in UNION {ToSet(rs[r]) : r \in DOMAIN rs}
    <3>1. PICK n \in 1 .. Len(t) : x = t[n]
      BY <1>3, <2>1 DEF ToSet
    <3>2. PICK r \in 1 .. Len(rs) : \E i \in 1 .. Len(rs[r]) : t[n] = rs[r][i]
      BY <1>4
    <3>3. x \in ToSet(rs[r])
      BY <1>3, <3>1, <3>2 DEF ToSet
    <3> QED BY <1>3, <3>3
  <2>2. ASSUME NEW x, x \in UNION {ToSet(rs[r]) : r \in DOMAIN rs} PROVE x \in ToSet(t)
    <3>1. PICK r \in 1 .. Len(rs) : x \in ToSet(rs[r])
      BY <1>3, <2>2
    <3>2. PICK i \in 1 .. Len(rs[r]) : x = rs[r][i]
      BY <1>3, <3>1 DEF ToSet
    <3>3. PICK n \in 1 .. Len(t) : t[n] = rs[r][i]
      BY <1>5
    <3> QED BY <1>3, <3>2, <3>3 DEF ToSet
  <2> QED BY <2>1, <2>2
<1> QED BY <1>2, <1>6 DEF t

\* The records of a run come before those of all later ones.
RunsInPosOrder(rs) ==
  \A q, r \in 1 .. Len(rs) : q < r =>
    \A i \in 1 .. Len(rs[q]) : \A j \in 1 .. Len(rs[r]) : rs[q][i].pos < rs[r][j].pos

\* A merge of runs that are in order, and whose records come one run after the
\* other, is in order.
LEMMA StableMergeSorted ==
  ASSUME NEW R, NEW ord, Ranked(R, ord), NEW rs \in Seq(Seq(R)), RunsInPosOrder(rs),
         \A r \in 1 .. Len(rs) : InSortOrder(rs[r], ord)
  PROVE  InSortOrder(StableMerge(rs, ord), ord)
<1> DEFINE t == StableMerge(rs, ord)
<1>1. PICK order : MergesTo(rs, ord, t, order)
  BY StableMergePlaces
<1> HIDE DEF t
<1>2. ASSUME NEW r \in 1 .. Len(rs), NEW i \in 1 .. Len(rs[r])
      PROVE  TurnOf(rs, ord, <<r, i>>) = ord[rs[r][i].key]
  <2>1. rs[r] \in Seq(R) /\ Len(rs[r]) \in Nat /\ \A j \in 1 .. Len(rs[r]) : rs[r][j] \in R
    BY SeqMembers
  <2>2. PICK j \in 1 .. i : TurnOf(rs, ord, <<r, i>>) = ord[rs[r][j].key]
    BY TurnIs
  <2>3. ord[rs[r][i].key] <= TurnOf(rs, ord, <<r, i>>)
    <3>1. i \in 1 .. i
      BY <2>1
    <3> QED BY <3>1, TurnIs
  <2>4. j \in 1 .. Len(rs[r]) /\ (j = i \/ j < i)
    BY <2>1
  <2>5. j < i => Sooner(ord, rs[r][j], rs[r][i])
    BY <2>4 DEF InSortOrder
  <2>6. ord[rs[r][j].key] \in Nat /\ ord[rs[r][i].key] \in Nat
    BY <2>1, <2>4 DEF Ranked
  <2> QED BY <2>2, <2>3, <2>4, <2>5, <2>6, SMTT(30) DEF Sooner
<1>3. SUFFICES ASSUME NEW m \in 1 .. Len(t), NEW n \in 1 .. Len(t), m < n
               PROVE  Sooner(ord, t[m], t[n])
  BY DEF InSortOrder, t
<1>4. PICK a, i : TakenFrom(rs, t, order, m, a, i)
  BY <1>1, MergedAre
<1>5. PICK b, j : TakenFrom(rs, t, order, n, b, j)
  BY <1>1, MergedAre
<1>6. SoonerPlace(rs, ord, <<a, i>>, <<b, j>>)
  <2>1. SoonerPlace(rs, ord, order[m], order[n])
    BY <1>1, <1>3, MergedAre
  <2> QED BY <1>4, <1>5, <2>1 DEF TakenFrom
<1>7. /\ a \in 1 .. Len(rs) /\ i \in 1 .. Len(rs[a]) /\ t[m] = rs[a][i]
      /\ b \in 1 .. Len(rs) /\ j \in 1 .. Len(rs[b]) /\ t[n] = rs[b][j]
  BY <1>4, <1>5, Zenon DEF TakenFrom
<1>8. TurnOf(rs, ord, <<a, i>>) = ord[t[m].key] /\ TurnOf(rs, ord, <<b, j>>) = ord[t[n].key]
  BY <1>2, <1>7
<1>9. \/ ord[t[m].key] < ord[t[n].key]
      \/ ord[t[m].key] = ord[t[n].key] /\ a < b
      \/ a = b /\ i < j
  BY <1>6, <1>8 DEF SoonerPlace
<1>10. CASE ord[t[m].key] < ord[t[n].key]
  BY <1>10 DEF Sooner
<1>11. CASE ord[t[m].key] = ord[t[n].key] /\ a < b
  BY <1>7, <1>11 DEF Sooner, RunsInPosOrder
<1>12. CASE a = b /\ i < j
  BY <1>7, <1>12 DEF InSortOrder
<1> QED BY <1>9, <1>10, <1>11, <1>12

\* A turn never goes back along a run.
LEMMA TurnsRise ==
  ASSUME NEW R, NEW ord, Ranked(R, ord), NEW rs \in Seq(Seq(R)),
         NEW r \in 1 .. Len(rs), NEW i \in 1 .. Len(rs[r]), NEW j \in 1 .. i
  PROVE  /\ j \in 1 .. Len(rs[r])
         /\ TurnOf(rs, ord, <<r, j>>) \in Nat /\ TurnOf(rs, ord, <<r, i>>) \in Nat
         /\ TurnOf(rs, ord, <<r, j>>) <= TurnOf(rs, ord, <<r, i>>)
<1>1. rs[r] \in Seq(R) /\ Len(rs[r]) \in Nat
  BY SeqMembers
<1>2. j \in 1 .. Len(rs[r]) /\ \A k \in 1 .. j : k \in 1 .. i
  BY <1>1
<1>3. PICK k \in 1 .. j : TurnOf(rs, ord, <<r, j>>) = ord[rs[r][k].key]
  BY <1>2, TurnIs
<1>4. ord[rs[r][k].key] <= TurnOf(rs, ord, <<r, i>>)
  BY <1>2, TurnIs
<1>5. TurnOf(rs, ord, <<r, j>>) \in Nat /\ TurnOf(rs, ord, <<r, i>>) \in Nat
  BY <1>2, TurnIs
<1> QED BY <1>2, <1>3, <1>4, <1>5

\* Neighbours that compare equal are in input order.
EqualsRise(s, ord) ==
  \A n \in 1 .. Len(s) :
    n + 1 <= Len(s) /\ ord[s[n].key] = ord[s[n + 1].key] => s[n].pos < s[n + 1].pos

\* Nothing is taken between two neighbours.
LEMMA NothingBetween ==
  ASSUME NEW R, NEW ord, NEW rs \in Seq(Seq(R)), NEW t, NEW order, MergesTo(rs, ord, t, order),
         NEW n \in 1 .. Len(t), n + 1 <= Len(t),
         NEW r \in 1 .. Len(rs), NEW i \in 1 .. Len(rs[r]),
         SoonerPlace(rs, ord, order[n], <<r, i>>), SoonerPlace(rs, ord, <<r, i>>, order[n + 1])
  PROVE  FALSE
<1>1. PICK k \in 1 .. Len(t) : TakenFrom(rs, t, order, k, r, i)
  BY MergedAre
<1>2. order[k] = <<r, i>>
  BY <1>1 DEF TakenFrom
<1>3. Len(t) \in Nat /\ \A m, l \in 1 .. Len(t) : m < l <=> SoonerPlace(rs, ord, order[m], order[l])
  BY MergedAre
<1>4. n + 1 \in 1 .. Len(t)
  BY <1>3
<1>5. n < k /\ k < n + 1
  BY <1>2, <1>3, <1>4
<1> QED BY <1>3, <1>5

\* A merge of runs whose records come one run after the other keeps neighbours
\* that compare equal in input order, whatever the runs are sorted by.
LEMMA StableMergeNeighbours ==
  ASSUME NEW R, NEW ord, Ranked(R, ord), NEW rs \in Seq(Seq(R)), RunsInPosOrder(rs),
         \A r \in 1 .. Len(rs) : EqualsRise(rs[r], ord)
  PROVE  EqualsRise(StableMerge(rs, ord), ord)
<1> DEFINE t == StableMerge(rs, ord)
           turn(p) == TurnOf(rs, ord, p)
<1>1. PICK order : MergesTo(rs, ord, t, order)
  BY StableMergePlaces
<1> HIDE DEF t
<1>2. SUFFICES ASSUME NEW n \in 1 .. Len(t), n + 1 <= Len(t), ord[t[n].key] = ord[t[n + 1].key]
               PROVE  t[n].pos < t[n + 1].pos
  BY DEF EqualsRise, t
<1>3. Len(t) \in Nat /\ n + 1 \in 1 .. Len(t) /\ n < n + 1
  BY <1>1, <1>2, MergedAre
<1>4. PICK a, i : TakenFrom(rs, t, order, n, a, i)
  BY <1>1, MergedAre
<1>5. PICK b, j : TakenFrom(rs, t, order, n + 1, b, j)
  BY <1>1, <1>3, MergedAre
<1>6. /\ a \in 1 .. Len(rs) /\ i \in 1 .. Len(rs[a]) /\ t[n] = rs[a][i] /\ order[n] = <<a, i>>
      /\ b \in 1 .. Len(rs) /\ j \in 1 .. Len(rs[b]) /\ t[n + 1] = rs[b][j]
      /\ order[n + 1] = <<b, j>>
      /\ a \in Nat /\ i \in Nat /\ b \in Nat /\ j \in Nat
  BY <1>4, <1>5, Zenon DEF TakenFrom
<1>7. SoonerPlace(rs, ord, <<a, i>>, <<b, j>>)
  <2>1. SoonerPlace(rs, ord, order[n], order[n + 1])
    BY <1>1, <1>3, MergedAre
  <2> QED BY <1>6, <2>1
<1>8. turn(<<a, i>>) \in Nat /\ turn(<<b, j>>) \in Nat
  BY <1>6, TurnIs
<1>9. \/ turn(<<a, i>>) < turn(<<b, j>>)
      \/ turn(<<a, i>>) = turn(<<b, j>>) /\ a < b
      \/ turn(<<a, i>>) = turn(<<b, j>>) /\ a = b /\ i < j
  BY <1>7 DEF SoonerPlace
<1>10. CASE a < b
  BY <1>6, <1>10 DEF RunsInPosOrder
<1>11. CASE a = b
  <2>1. i < j
    <3> SUFFICES ASSUME ~(i < j) PROVE FALSE
      OBVIOUS
    <3>1. j \in 1 .. i
      BY <1>6, <1>11
    <3>2. turn(<<a, j>>) <= turn(<<a, i>>)
      BY <1>6, <3>1, TurnsRise
    <3>3. turn(<<b, j>>) = turn(<<a, j>>) /\ a \in Nat /\ b \in Nat
      BY <1>6, <1>11
    <3> HIDE DEF turn
    <3> QED BY <1>8, <1>9, <1>11, <3>2, <3>3
  <2>2. j = i + 1
    <3> SUFFICES ASSUME j # i + 1 PROVE FALSE
      OBVIOUS
    <3>1. i + 1 \in 1 .. j /\ i \in 1 .. i + 1 /\ i + 1 < j /\ i < i + 1
      BY <1>6, <2>1
    <3>2. /\ i + 1 \in 1 .. Len(rs[a]) /\ turn(<<a, i + 1>>) \in Nat
          /\ turn(<<a, i + 1>>) <= turn(<<b, j>>)
      BY <1>6, <1>11, <3>1, TurnsRise
    <3>3. turn(<<a, i>>) <= turn(<<a, i + 1>>)
      BY <1>6, <3>1, <3>2, TurnsRise
    <3>4. SoonerPlace(rs, ord, <<a, i>>, <<a, i + 1>>)
      BY <1>6, <1>8, <3>1, <3>2, <3>3 DEF SoonerPlace
    <3>5. SoonerPlace(rs, ord, <<a, i + 1>>, <<b, j>>)
      BY <1>6, <1>8, <1>11, <3>1, <3>2 DEF SoonerPlace
    <3> QED BY <1>1, <1>2, <1>6, <3>2, <3>4, <3>5, NothingBetween
  <2>3. i + 1 <= Len(rs[a])
    BY <1>6, <1>11, <2>2
  <2> QED BY <1>2, <1>6, <1>11, <2>2, <2>3 DEF EqualsRise
<1>12. CASE b < a
  <2>1. turn(<<a, i>>) < turn(<<b, j>>)
    BY <1>6, <1>9, <1>12
  <2>2. ord[rs[a][i].key] <= turn(<<a, i>>)
    <3>1. i \in 1 .. i
      BY <1>6
    <3> QED BY <1>6, <3>1, TurnIs
  <2>3. PICK k \in 1 .. j : turn(<<b, j>>) = ord[rs[b][k].key]
    BY <1>6, TurnIs, SMTT(30)
  <2>4. rs[a] \in Seq(R) /\ rs[a][i] \in R /\ ord[rs[a][i].key] \in Nat
    BY <1>6, SeqMembers DEF Ranked
  <2>5. k # j
    <3> SUFFICES ASSUME k = j PROVE FALSE
      OBVIOUS
    <3>1. turn(<<b, j>>) = ord[rs[a][i].key]
      BY <1>2, <1>6, <2>3, Zenon
    <3> HIDE DEF turn
    <3> QED BY <1>8, <2>1, <2>2, <2>4, <3>1, SMTT(30)
  <2>6. k \in 1 .. Len(rs[b]) /\ turn(<<b, k>>) \in Nat /\ turn(<<b, k>>) <= turn(<<b, j>>)
    BY <1>6, TurnsRise
  <2>7. ord[rs[b][k].key] <= turn(<<b, k>>)
    <3>1. k \in 1 .. k
      BY <1>6
    <3> QED BY <1>6, <2>6, <3>1, TurnIs
  <2>8. turn(<<b, k>>) = turn(<<b, j>>) /\ k < j
    <3> HIDE DEF turn
    <3>1. turn(<<b, j>>) <= turn(<<b, k>>)
      BY <2>3, <2>7
    <3> QED BY <1>6, <1>8, <2>5, <2>6, <3>1
  <2>9. SoonerPlace(rs, ord, <<a, i>>, <<b, k>>) /\ SoonerPlace(rs, ord, <<b, k>>, <<b, j>>)
    BY <1>6, <2>1, <2>8 DEF SoonerPlace
  <2> QED BY <1>1, <1>2, <1>6, <2>6, <2>9, NothingBetween
<1> QED BY <1>6, <1>10, <1>11, <1>12

\* Along a chain of equal neighbours positions rise.
LEMMA ChainRises ==
  ASSUME NEW R, NEW ord, \A r \in R : r.pos \in Nat, NEW s \in Seq(R), EqualsRise(s, ord),
         NEW j \in 1 .. Len(s), NEW i \in 1 .. Len(s), j <= i, AlikeTo(s, ord, j, i)
  PROVE  s[j].pos <= s[i].pos
<1> DEFINE T == {d \in Nat : j + d <= i => s[j].pos <= s[j + d].pos}
<1>1. /\ Len(s) \in Nat /\ i \in Nat /\ j \in Nat
      /\ \A k \in 1 .. Len(s) : s[k] \in R /\ s[k].pos \in Nat
  BY SeqMembers
<1>2. 0 \in T
  BY <1>1
<1>3. ASSUME NEW d \in T PROVE d + 1 \in T
  <2> SUFFICES ASSUME j + (d + 1) <= i PROVE s[j].pos <= s[j + (d + 1)].pos
    OBVIOUS
  <2>1. d \in Nat /\ j + d <= i /\ s[j].pos <= s[j + d].pos
    BY <1>1
  <2> DEFINE k == j + d
  <2>2. k \in 1 .. Len(s) /\ k + 1 \in 1 .. Len(s) /\ k + 1 = j + (d + 1) /\ k + 1 <= Len(s)
        /\ j <= k /\ k <= i /\ k + 1 <= i /\ j <= k + 1
    BY <1>1, <2>1
  <2>3. s[j].pos <= s[k].pos
    BY <2>1
  <2> HIDE DEF k
  <2>4. ord[s[k].key] = ord[s[k + 1].key]
    <3>1. k \in j .. i /\ k + 1 \in j .. i
      BY <1>1, <2>2
    <3>2. ord[s[k].key] = ord[s[i].key] /\ ord[s[k + 1].key] = ord[s[i].key]
      BY <3>1 DEF AlikeTo
    <3> QED BY <3>2
  <2>5. s[k].pos < s[k + 1].pos
    BY <2>2, <2>4 DEF EqualsRise
  <2>6. s[j].pos \in Nat /\ s[k].pos \in Nat /\ s[k + 1].pos \in Nat
    BY <1>1, <2>2
  <2>7. s[j].pos <= s[k + 1].pos
    <3>1. \A x, y, z \in Nat : x <= y /\ y < z => x <= z
      OBVIOUS
    <3> QED BY <2>3, <2>5, <2>6, <3>1
  <2> QED BY <2>2, <2>7
<1>4. \A d \in Nat : d \in T
  <2> HIDE DEF T
  <2> QED BY <1>2, <1>3, AllNumbers DEF T
<1>5. i - j \in T /\ j + (i - j) = i
  BY <1>1, <1>4
<1> QED BY <1>1, <1>5

-----------------------------------------------------------------------------
(***************************************************************************)
(* What stands for an input, in order, is the input sorted                 *)
(***************************************************************************)

SortedBy(s, ord, once) ==
  IF once THEN FirstOfEquals(StableSort(s, ord), ord) ELSE StableSort(s, ord)

\* s is there for r: it is r, or, where one of equal records is enough, one
\* that compares equal and comes no later.
StandsIn(ord, once, s, r) ==
  ord[s.key] = ord[r.key] /\ s.pos <= r.pos /\ (once \/ s = r)

\* No neighbours compare equal.
NoRepeats(s, ord) ==
  \A n \in 1 .. Len(s) : n + 1 <= Len(s) => ord[s[n].key] # ord[s[n + 1].key]

\* Records in order of which no neighbours are equal are all different.
LEMMA NoTwoEqual ==
  ASSUME NEW R, NEW ord, Ranked(R, ord), NEW t \in Seq(R), InSortOrder(t, ord),
         NoRepeats(t, ord),
         NEW a \in ToSet(t), NEW b \in ToSet(t), ord[a.key] = ord[b.key]
  PROVE  a = b
<1> DEFINE o == [i \in 1 .. Len(t) |-> ord[t[i].key]]
<1>1. Len(t) \in Nat /\ \A i \in 1 .. Len(t) : t[i] \in R /\ o[i] = ord[t[i].key] /\ o[i] \in Nat
  BY SeqMembers DEF Ranked
<1>2. PICK i \in 1 .. Len(t) : t[i] = a
  BY SeqMembers
<1>3. PICK j \in 1 .. Len(t) : t[j] = b
  BY SeqMembers
<1>4. o[i] = o[j]
  BY <1>1, <1>2, <1>3
<1>5. \A p, q \in 1 .. Len(t) : p < q => o[p] <= o[q]
  <2> SUFFICES ASSUME NEW p \in 1 .. Len(t), NEW q \in 1 .. Len(t), p < q PROVE o[p] <= o[q]
    OBVIOUS
  <2>1. Sooner(ord, t[p], t[q])
    BY DEF InSortOrder
  <2>2. o[p] < o[q] \/ o[p] = o[q]
    BY <1>1, <2>1 DEF Sooner
  <2> QED BY <1>1, <2>2
<1>6. \A n \in 1 .. Len(t) : n + 1 <= Len(t) => o[n] # o[n + 1]
  BY <1>1 DEF NoRepeats
<1> HIDE DEF o
<1>7. ASSUME NEW p \in 1 .. Len(t), NEW q \in 1 .. Len(t), p < q, o[p] = o[q] PROVE FALSE
  <2>1. p + 1 \in 1 .. Len(t) /\ p < p + 1 /\ (p + 1 < q \/ p + 1 = q)
    BY <1>1, <1>7
  <2>2. o[p] <= o[p + 1] /\ o[p] # o[p + 1]
    BY <1>1, <1>5, <1>6, <2>1
  <2>3. o[p + 1] <= o[q]
    BY <1>1, <1>5, <2>1
  <2>4. o[p] \in Nat /\ o[p + 1] \in Nat
    BY <1>1, <2>1
  <2> QED BY <1>7, <2>2, <2>3, <2>4
<1>8. i = j
  <2>1. i < j \/ j < i \/ i = j
    BY <1>1
  <2> QED BY <1>4, <1>7, <2>1
<1> QED BY <1>2, <1>3, <1>8

LEMMA StandInsSorted ==
  ASSUME NEW R, NEW ord, Ranked(R, ord), NEW once \in BOOLEAN,
         NEW all \in Seq(R), InPosOrder(all),
         NEW t \in Seq(R), InSortOrder(t, ord), ToSet(t) \subseteq ToSet(all),
         \A r \in ToSet(all) : \E s \in ToSet(t) : StandsIn(ord, once, s, r),
         once => NoRepeats(t, ord)
  PROVE  t = SortedBy(all, ord, once)
<1> DEFINE m == StableSort(all, ord)
<1>1. m \in Seq(R) /\ ToSet(m) = ToSet(all) /\ InSortOrder(m, ord)
  BY StableSortIs
<1>2. SortedBy(all, ord, once) = IF once THEN FirstOfEquals(m, ord) ELSE m
  BY Zenon DEF SortedBy
<1> HIDE DEF m
<1>3. CASE ~once
  <2>1. ToSet(t) = ToSet(all)
    BY <1>3 DEF StandsIn
  <2> QED BY <1>1, <1>2, <1>3, <2>1, OrderUnique
<1>4. CASE once
  <2> DEFINE u == FirstOfEquals(m, ord)
  <2>1. u \in Seq(R) /\ InSortOrder(u, ord) /\ ToSet(u) = Firsts(ToSet(m), ord)
    BY <1>1, FirstOfEqualsSorted
  <2> HIDE DEF u
  <2>2. \A r \in ToSet(all) : r \in R /\ r.pos \in Nat
    <3>1. \A r \in ToSet(all) : r \in R
      BY SeqMembers
    <3> QED BY <3>1 DEF Ranked
  <2>3. ASSUME NEW a \in ToSet(t) PROVE a \in Firsts(ToSet(all), ord)
    <3> SUFFICES ASSUME NEW q \in ToSet(all), ord[q.key] = ord[a.key] PROVE a.pos <= q.pos
      BY DEF Firsts
    <3>1. PICK s \in ToSet(t) : StandsIn(ord, once, s, q)
      OBVIOUS
    <3>2. ord[s.key] = ord[a.key] /\ s.pos <= q.pos
      BY <3>1 DEF StandsIn
    <3>3. s = a
      BY <1>4, <3>2, NoTwoEqual
    <3> QED BY <3>2, <3>3
  <2>4. ASSUME NEW r \in Firsts(ToSet(all), ord) PROVE r \in ToSet(t)
    <3>1. r \in ToSet(all)
      BY DEF Firsts
    <3>2. PICK s \in ToSet(t) : StandsIn(ord, once, s, r)
      BY <3>1
    <3>3. s \in ToSet(all) /\ ord[s.key] = ord[r.key] /\ s.pos <= r.pos
      BY <3>2 DEF StandsIn
    <3>4. r.pos <= s.pos
      BY <3>3 DEF Firsts
    <3>5. s.pos = r.pos
      BY <2>2, <3>1, <3>3, <3>4
    <3>6. PICK i \in 1 .. Len(all) : all[i] = s
      BY <3>3, SeqMembers
    <3>7. PICK j \in 1 .. Len(all) : all[j] = r
      BY <3>1, SeqMembers
    <3>8. i = j
      <4>1. Len(all) \in Nat
        BY SeqMembers
      <4>2. ~(i < j) /\ ~(j < i)
        BY <2>2, <3>1, <3>5, <3>6, <3>7 DEF InPosOrder
      <4> QED BY <4>1, <4>2
    <3> QED BY <3>6, <3>7, <3>8
  <2>5. ToSet(t) = ToSet(u)
    BY <1>1, <2>1, <2>3, <2>4
  <2>6. t = u
    BY <2>1, <2>5, OrderUnique
  <2> QED BY <1>2, <1>4, <2>6 DEF u
<1> QED BY <1>3, <1>4

-----------------------------------------------------------------------------
(***************************************************************************)
(* Runs one after the other                                                *)
(***************************************************************************)

\* How long the first k sequences are together.
Before(s, k) == Len(FlattenSeq(SubSeq(s, 1, k)))

LEMMA BeforeIs ==
  ASSUME NEW S, NEW s \in Seq(Seq(S))
  PROVE  /\ Before(s, 0) = 0 /\ Before(s, Len(s)) = Len(FlattenSeq(s))
         /\ \A k \in 0 .. Len(s) : Before(s, k) \in Nat
         /\ \A k \in 1 .. Len(s) : Before(s, k) = Before(s, k - 1) + Len(s[k])
<1>1. Len(s) \in Nat /\ \A k \in 1 .. Len(s) : s[k] \in Seq(S)
  OBVIOUS
<1>2. SubSeq(s, 1, 0) = <<>> /\ FlattenSeq(<<>>) = <<>>
  BY DEF FlattenSeq
<1>3. SubSeq(s, 1, Len(s)) = s
  OBVIOUS
<1>4. \A k \in 0 .. Len(s) : SubSeq(s, 1, k) \in Seq(Seq(S))
  OBVIOUS
<1>5. \A k \in 0 .. Len(s) : FlattenSeq(SubSeq(s, 1, k)) \in Seq(S)
  BY <1>4, FlattenSeqTyped
<1>6. ASSUME NEW k \in 1 .. Len(s) PROVE Before(s, k) = Before(s, k - 1) + Len(s[k])
  <2>1. k - 1 \in 0 .. Len(s)
    BY <1>1
  <2> DEFINE a == FlattenSeq(SubSeq(s, 1, k - 1))
             b == s[k]
  <2>2. a \in Seq(S) /\ b \in Seq(S)
    BY <1>1, <1>5, <2>1
  <2>3. FlattenSeq(SubSeq(s, 1, k)) = a \o b
    BY FlattenNext
  <2>4. Len(a \o b) = Len(a) + Len(b)
    <3> HIDE DEF a, b
    <3> QED BY <2>2
  <2> QED BY <2>3, <2>4, Zenon DEF Before, a, b
<1>7. \A k \in 0 .. Len(s) : Before(s, k) \in Nat
  BY <1>5 DEF Before
<1>8. Before(s, 0) = 0 /\ Before(s, Len(s)) = Len(FlattenSeq(s))
  <2>1. Len(<<>>) = 0
    OBVIOUS
  <2> QED BY <1>2, <1>3, <2>1, Zenon DEF Before
<1> QED BY <1>6, <1>7, <1>8

\* More sequences are not shorter.
LEMMA BeforeGrows ==
  ASSUME NEW S, NEW s \in Seq(Seq(S)), NEW k \in 0 .. Len(s), NEW l \in 0 .. Len(s), k <= l
  PROVE  Before(s, k) <= Before(s, l)
<1> DEFINE T == {d \in Nat : k + d <= Len(s) => Before(s, k) <= Before(s, k + d)}
<1>1. /\ Len(s) \in Nat /\ k \in Nat /\ l \in Nat
      /\ \A i \in 1 .. Len(s) : Len(s[i]) \in Nat
  OBVIOUS
<1>2. 0 \in T
  <2>1. k + 0 = k /\ Before(s, k) \in Nat
    BY <1>1, BeforeIs
  <2> QED BY <2>1
<1>3. ASSUME NEW d \in T PROVE d + 1 \in T
  <2> SUFFICES ASSUME k + (d + 1) <= Len(s) PROVE Before(s, k) <= Before(s, k + (d + 1))
    OBVIOUS
  <2>1. /\ k + (d + 1) \in 1 .. Len(s) /\ (k + (d + 1)) - 1 = k + d /\ k + d \in 0 .. Len(s)
        /\ k + (d + 1) \in 0 .. Len(s) /\ k + d <= Len(s)
    BY <1>1
  <2>2. Before(s, k + (d + 1)) = Before(s, k + d) + Len(s[k + (d + 1)])
    BY <2>1, BeforeIs
  <2>3. /\ Before(s, k + (d + 1)) \in Nat /\ Before(s, k + d) \in Nat /\ Before(s, k) \in Nat
        /\ Len(s[k + (d + 1)]) \in Nat
    BY <1>1, <2>1, BeforeIs
  <2>4. Before(s, k) <= Before(s, k + d)
    BY <2>1
  <2>5. \A x, y, z, n \in Nat : z = y + n /\ x <= y => x <= z
    OBVIOUS
  <2> QED BY <2>2, <2>3, <2>4, <2>5
<1> HIDE DEF T
<1>4. \A d \in Nat : d \in T
  BY <1>2, <1>3, AllNumbers DEF T
<1>5. l - k \in Nat /\ k + (l - k) = l
  BY <1>1
<1>6. l - k \in T
  BY <1>4, <1>5
<1> QED BY <1>1, <1>5, <1>6 DEF T

\* The numbers of the records of some sequences, counted from one to the
\* other, rise.
LEMMA NumberedInPosOrder ==
  ASSUME NEW S, NEW s \in Seq(Seq(S)), NEW R, NEW rs \in Seq(Seq(R)), Len(rs) = Len(s),
         \A r \in 1 .. Len(rs) : Len(rs[r]) = Len(s[r]),
         \A r \in 1 .. Len(rs) : \A i \in 1 .. Len(rs[r]) : rs[r][i].pos = Before(s, r - 1) + i
  PROVE  RunsInPosOrder(rs) /\ \A r \in 1 .. Len(rs) : InPosOrder(rs[r])
<1>1. /\ Len(s) \in Nat
      /\ \A r \in 1 .. Len(rs) : /\ Len(rs[r]) \in Nat /\ r \in Nat
                                 /\ r - 1 \in 0 .. Len(s) /\ r \in 0 .. Len(s)
                                 /\ Before(s, r - 1) \in Nat /\ Before(s, r) \in Nat
  <2>1. Len(s) \in Nat /\ \A r \in 1 .. Len(rs) : rs[r] \in Seq(R)
    OBVIOUS
  <2>2. \A r \in 1 .. Len(rs) : r - 1 \in 0 .. Len(s) /\ r \in 0 .. Len(s)
    BY <2>1
  <2>3. \A k \in 0 .. Len(s) : Before(s, k) \in Nat
    BY BeforeIs
  <2>4. \A r \in 1 .. Len(rs) : Before(s, r - 1) \in Nat /\ Before(s, r) \in Nat
    BY <2>2, <2>3
  <2>5. \A r \in 1 .. Len(rs) : Len(rs[r]) \in Nat /\ r \in Nat
    BY <2>1
  <2> QED BY <2>1, <2>2, <2>4, <2>5
<1>2. ASSUME NEW q \in 1 .. Len(rs), NEW r \in 1 .. Len(rs), q < r,
             NEW i \in 1 .. Len(rs[q]), NEW j \in 1 .. Len(rs[r])
      PROVE  rs[q][i].pos < rs[r][j].pos
  <2>1. Before(s, q) = Before(s, q - 1) + Len(rs[q])
    <3>1. q \in 1 .. Len(s) /\ Len(rs[q]) = Len(s[q])
      OBVIOUS
    <3>2. Before(s, q) = Before(s, q - 1) + Len(s[q])
      BY <3>1, BeforeIs
    <3> QED BY <3>1, <3>2
  <2>2. q <= r - 1
    BY <1>1, <1>2
  <2>3. Before(s, q) <= Before(s, r - 1)
    BY <1>1, <2>2, BeforeGrows
  <2>4. rs[q][i].pos = Before(s, q - 1) + i /\ rs[r][j].pos = Before(s, r - 1) + j
    OBVIOUS
  <2>5. \A a, b, c, n \in Nat : \A x \in 1 .. n : \A y \in Nat \ {0} :
          b = a + n /\ b <= c => a + x < c + y
    OBVIOUS
  <2>6. j \in Nat \ {0}
    BY <1>1
  <2>7. Before(s, q - 1) + i < Before(s, r - 1) + j
    BY <1>1, <2>1, <2>3, <2>5, <2>6
  <2> QED BY <2>4, <2>7
<1>3. ASSUME NEW r \in 1 .. Len(rs) PROVE InPosOrder(rs[r])
  <2> SUFFICES ASSUME NEW i \in 1 .. Len(rs[r]), NEW j \in 1 .. Len(rs[r]), i < j
               PROVE  rs[r][i].pos < rs[r][j].pos
    BY DEF InPosOrder
  <2>1. rs[r][i].pos = Before(s, r - 1) + i /\ rs[r][j].pos = Before(s, r - 1) + j
    OBVIOUS
  <2> QED BY <1>1, <2>1
<1> QED BY <1>2, <1>3 DEF RunsInPosOrder

\* The records of some files, each with its place among all of them.
AllNumbered(g) ==
  [r \in DOMAIN g |->
    [i \in DOMAIN g[r] |-> [key |-> g[r][i], pos |-> Before(g, r - 1) + i]]]

LEMMA AllNumberedAre ==
  ASSUME NEW K, NEW g \in Seq(Seq(K))
  PROVE  LET fs == AllNumbered(g)
             RK == [key : K, pos : Nat]
         IN  /\ fs \in Seq(Seq(RK)) /\ Len(fs) = Len(g)
             /\ \A r \in 1 .. Len(g) : Len(fs[r]) = Len(g[r])
             /\ \A r \in 1 .. Len(g) : \A i \in 1 .. Len(g[r]) : fs[r][i].key = g[r][i]
             /\ RunsInPosOrder(fs) /\ \A r \in 1 .. Len(fs) : InPosOrder(fs[r])
<1> DEFINE RK == [key : K, pos : Nat]
           fs == AllNumbered(g)
           f(r) == [i \in DOMAIN g[r] |-> [key |-> g[r][i], pos |-> Before(g, r - 1) + i]]
<1>1. fs = [r \in DOMAIN g |-> f(r)]
  BY DEF AllNumbered
<1>2. Len(g) \in Nat /\ DOMAIN g = 1 .. Len(g) /\ \A r \in 1 .. Len(g) : g[r] \in Seq(K)
  OBVIOUS
<1>3. ASSUME NEW r \in 1 .. Len(g)
      PROVE  /\ f(r) \in Seq(RK) /\ Len(f(r)) = Len(g[r])
             /\ \A i \in 1 .. Len(g[r]) :
                  f(r)[i].key = g[r][i] /\ f(r)[i].pos = Before(g, r - 1) + i
  <2>1. /\ Len(g[r]) \in Nat /\ DOMAIN g[r] = 1 .. Len(g[r])
        /\ \A i \in 1 .. Len(g[r]) : g[r][i] \in K
    BY <1>2
  <2>2. Before(g, r - 1) \in Nat
    <3>1. r - 1 \in 0 .. Len(g)
      BY <1>2
    <3> QED BY <3>1, BeforeIs
  <2> DEFINE b == Before(g, r - 1)
             h == f(r)
  <2>3. h = [i \in 1 .. Len(g[r]) |-> [key |-> g[r][i], pos |-> b + i]]
    BY <2>1
  <2>4. b \in Nat
    BY <2>2
  <2> HIDE DEF b, h, f
  <2>5. \A i \in 1 .. Len(g[r]) : [key |-> g[r][i], pos |-> b + i] \in RK
    BY <2>1, <2>4
  <2>6. h \in [1 .. Len(g[r]) -> RK]
    BY <2>3, <2>5
  <2>7. h \in Seq(RK) /\ Len(h) = Len(g[r])
    BY <2>1, <2>6, SeqOfFunction
  <2>8. \A i \in 1 .. Len(g[r]) : h[i].key = g[r][i] /\ h[i].pos = b + i
    BY <2>3
  <2> QED BY <2>7, <2>8 DEF b, h
<1> HIDE DEF f
<1>4. fs \in [1 .. Len(g) -> Seq(RK)] /\ \A r \in 1 .. Len(g) : fs[r] = f(r)
  BY <1>1, <1>2, <1>3
<1> HIDE DEF fs
<1>5. fs \in Seq(Seq(RK)) /\ Len(fs) = Len(g)
  BY <1>2, <1>4, SeqOfFunction
<1>6. /\ \A r \in 1 .. Len(g) : Len(fs[r]) = Len(g[r])
      /\ \A r \in 1 .. Len(g) : \A i \in 1 .. Len(g[r]) :
           fs[r][i].key = g[r][i] /\ fs[r][i].pos = Before(g, r - 1) + i
  BY <1>3, <1>4
<1>7. RunsInPosOrder(fs) /\ \A r \in 1 .. Len(fs) : InPosOrder(fs[r])
  <2>1. /\ \A r \in 1 .. Len(fs) : Len(fs[r]) = Len(g[r])
        /\ \A r \in 1 .. Len(fs) : \A i \in 1 .. Len(fs[r]) :
             fs[r][i].pos = Before(g, r - 1) + i
    BY <1>5, <1>6
  <2> QED BY <1>5, <2>1, NumberedInPosOrder
<1> QED BY <1>5, <1>6, <1>7 DEF fs

\* One after the other, the records of all runs are there, in the order of
\* their positions.
LEMMA FlattenSeqIs ==
  ASSUME NEW R, \A x \in R : x.pos \in Nat, NEW rs \in Seq(Seq(R)), RunsInPosOrder(rs),
         \A r \in 1 .. Len(rs) : InPosOrder(rs[r])
  PROVE  /\ FlattenSeq(rs) \in Seq(R) /\ InPosOrder(FlattenSeq(rs))
         /\ \A x : x \in ToSet(FlattenSeq(rs)) <=> \E r \in 1 .. Len(rs) : x \in ToSet(rs[r])
<1> DEFINE F(k) == FlattenSeq(SubSeq(rs, 1, k))
           T == {k \in Nat : k <= Len(rs) =>
                   /\ F(k) \in Seq(R) /\ InPosOrder(F(k))
                   /\ \A x : x \in ToSet(F(k)) <=> \E r \in 1 .. k : x \in ToSet(rs[r])}
<1>1. Len(rs) \in Nat /\ \A r \in 1 .. Len(rs) : rs[r] \in Seq(R)
  OBVIOUS
<1>2. 0 \in T
  <2> DEFINE e == F(0)
  <2>1. e = <<>>
    BY DEF FlattenSeq
  <2>2. e \in Seq(R) /\ InPosOrder(e) /\ ToSet(e) = {}
    <3> HIDE DEF F, T, e
    <3>1. e \in Seq(R) /\ Len(e) = 0 /\ 1 .. 0 = {}
      BY <2>1
    <3>2. InPosOrder(e)
      BY <3>1 DEF InPosOrder
    <3>3. ToSet(e) = {}
      BY <3>1, SeqMembers
    <3> QED BY <3>1, <3>2, <3>3
  <2> HIDE DEF F, e
  <2> QED BY <2>2 DEF e
<1>3. ASSUME NEW k \in T PROVE k + 1 \in T
  <2> SUFFICES ASSUME k + 1 <= Len(rs)
               PROVE  /\ F(k + 1) \in Seq(R) /\ InPosOrder(F(k + 1))
                      /\ \A x : x \in ToSet(F(k + 1)) <=> \E r \in 1 .. k + 1 : x \in ToSet(rs[r])
    OBVIOUS
  <2> DEFINE a == F(k)
             b == rs[k + 1]
             c == F(k + 1)
  <2>1. k \in Nat /\ k + 1 \in 1 .. Len(rs) /\ (k + 1) - 1 = k
    BY <1>1
  <2>2. c = a \o b
    <3>1. F(k + 1) = F((k + 1) - 1) \o rs[k + 1]
      BY <2>1, FlattenNext
    <3> QED BY <2>1, <3>1
  <2>3. /\ a \in Seq(R) /\ b \in Seq(R) /\ InPosOrder(a) /\ InPosOrder(b)
        /\ \A x : x \in ToSet(a) <=> \E r \in 1 .. k : x \in ToSet(rs[r])
    BY <1>1, <2>1
  <2> HIDE DEF F, T, a, b, c
  <2>4. /\ c \in Seq(R) /\ Len(c) = Len(a) + Len(b) /\ Len(a) \in Nat /\ Len(b) \in Nat
        /\ \A p \in 1 .. Len(a) : c[p] = a[p]
        /\ \A p \in 1 .. Len(b) : c[Len(a) + p] = b[p]
    BY <2>2, <2>3, Joined
  <2>5. \A x \in ToSet(a) : \A y \in ToSet(b) : x.pos < y.pos
    <3> SUFFICES ASSUME NEW x \in ToSet(a), NEW y \in ToSet(b) PROVE x.pos < y.pos
      OBVIOUS
    <3>1. PICK r \in 1 .. k : x \in ToSet(rs[r])
      BY <2>3
    <3>2. r \in 1 .. Len(rs) /\ r < k + 1
      BY <1>1, <2>1
    <3>3. PICK i \in 1 .. Len(rs[r]) : rs[r][i] = x
      BY <1>1, <3>1, <3>2, SeqMembers
    <3>4. PICK j \in 1 .. Len(rs[k + 1]) : rs[k + 1][j] = y
      BY <1>1, <2>1, SeqMembers DEF b
    <3> QED BY <2>1, <3>2, <3>3, <3>4 DEF RunsInPosOrder
  <2>6. ASSUME NEW p \in 1 .. Len(c)
        PROVE  \/ p \in 1 .. Len(a) /\ c[p] = a[p] /\ a[p] \in ToSet(a)
               \/ p - Len(a) \in 1 .. Len(b) /\ c[p] = b[p - Len(a)] /\ b[p - Len(a)] \in ToSet(b)
    <3>1. CASE p <= Len(a)
      <4>1. p \in 1 .. Len(a)
        BY <2>4, <3>1
      <4> QED BY <2>3, <2>4, <4>1, SeqMembers
    <3>2. CASE ~(p <= Len(a))
      <4>1. p - Len(a) \in 1 .. Len(b) /\ Len(a) + (p - Len(a)) = p
        BY <2>4, <3>2
      <4> QED BY <2>3, <2>4, <4>1, SeqMembers
    <3> QED BY <3>1, <3>2
  <2>7. InPosOrder(c)
    <3> SUFFICES ASSUME NEW i \in 1 .. Len(c), NEW j \in 1 .. Len(c), i < j
                 PROVE  c[i].pos < c[j].pos
      BY DEF InPosOrder
    <3>1. CASE i \in 1 .. Len(a) /\ j \in 1 .. Len(a)
      BY <2>3, <2>4, <3>1 DEF InPosOrder
    <3>2. CASE i \in 1 .. Len(a) /\ j \notin 1 .. Len(a)
      <4>1. /\ c[i] = a[i] /\ a[i] \in ToSet(a)
            /\ c[j] = b[j - Len(a)] /\ b[j - Len(a)] \in ToSet(b)
        BY <2>3, <2>4, <2>6, <3>2, SeqMembers
      <4> QED BY <2>5, <4>1
    <3>3. CASE i \notin 1 .. Len(a)
      <4>1. j \notin 1 .. Len(a)
        BY <2>4, <3>3
      <4>2. /\ i - Len(a) \in 1 .. Len(b) /\ c[i] = b[i - Len(a)]
            /\ j - Len(a) \in 1 .. Len(b) /\ c[j] = b[j - Len(a)]
        BY <2>6, <3>3, <4>1
      <4>3. i - Len(a) < j - Len(a)
        BY <2>4
      <4> QED BY <2>3, <4>2, <4>3 DEF InPosOrder
    <3> QED BY <3>1, <3>2, <3>3
  <2>8. ToSet(c) = ToSet(a) \cup ToSet(b)
    <3>1. \A x \in ToSet(c) : x \in ToSet(a) \cup ToSet(b)
      <4> SUFFICES ASSUME NEW x \in ToSet(c) PROVE x \in ToSet(a) \cup ToSet(b)
        OBVIOUS
      <4>1. PICK p \in 1 .. Len(c) : c[p] = x
        BY <2>4, SeqMembers
      <4> QED BY <2>6, <4>1
    <3>2. \A x \in ToSet(a) : x \in ToSet(c)
      <4> SUFFICES ASSUME NEW x \in ToSet(a) PROVE x \in ToSet(c)
        OBVIOUS
      <4>1. PICK p \in 1 .. Len(a) : a[p] = x
        BY <2>3, SeqMembers
      <4>2. p \in 1 .. Len(c) /\ c[p] = x
        BY <2>4, <4>1
      <4> QED BY <2>4, <4>2, SeqMembers
    <3>3. \A x \in ToSet(b) : x \in ToSet(c)
      <4> SUFFICES ASSUME NEW x \in ToSet(b) PROVE x \in ToSet(c)
        OBVIOUS
      <4>1. PICK p \in 1 .. Len(b) : b[p] = x
        BY <2>3, SeqMembers
      <4>2. Len(a) + p \in 1 .. Len(c) /\ c[Len(a) + p] = x
        BY <2>4, <4>1
      <4> QED BY <2>4, <4>2, SeqMembers
    <3> QED BY <3>1, <3>2, <3>3
  <2>9. \A x : x \in ToSet(c) <=> \E r \in 1 .. k + 1 : x \in ToSet(rs[r])
    <3>1. \A r : r \in 1 .. k + 1 <=> r \in 1 .. k \/ r = k + 1
      BY <2>1
    <3> QED BY <2>3, <2>8, <3>1 DEF b
  <2> QED BY <2>4, <2>7, <2>9 DEF c
<1>4. \A k \in Nat : k \in T
  <2> HIDE DEF T
  <2> QED BY <1>2, <1>3, AllNumbers DEF T
<1>5. Len(rs) \in T
  BY <1>1, <1>4
<1>6. SubSeq(rs, 1, Len(rs)) = rs
  OBVIOUS
<1>7. F(Len(rs)) = FlattenSeq(rs)
  BY <1>6, Zenon
<1> HIDE DEF F
<1> QED BY <1>1, <1>5, <1>7

-----------------------------------------------------------------------------
(***************************************************************************)
(* A merge step by step                                                    *)
(***************************************************************************)

\* In run r the records from from[r] on wait to be taken.  What has been taken
\* so far is t: it is in order, and comes before all that waits; whatever
\* does not wait any longer is in it, or one that stands for it.
MergedSoFar(rs, ord, once, from, t) ==
  /\ InSortOrder(t, ord)
  /\ once => NoRepeats(t, ord)
  /\ \A n \in 1 .. Len(t) : \E r \in 1 .. Len(rs) : t[n] \in ToSet(rs[r])
  /\ \A r \in 1 .. Len(rs) : \A i \in 1 .. Len(rs[r]) :
       IF from[r] <= i THEN \A n \in 1 .. Len(t) : Sooner(ord, t[n], rs[r][i])
                       ELSE \E n \in 1 .. Len(t) : StandsIn(ord, once, t[n], rs[r][i])

\* The record run r is at comes before all others that wait.
ComesNext(rs, ord, from, r) ==
  \A q \in 1 .. Len(rs) : \A i \in 1 .. Len(rs[q]) :
    from[q] <= i /\ (q # r \/ i # from[r]) => Sooner(ord, rs[r][from[r]], rs[q][i])

\* Run r has moved on.
Passes(rs, from, r, later) ==
  later[r] = from[r] + 1 /\ \A q \in 1 .. Len(rs) \ {r} : later[q] = from[q]

\* A record is written unless it repeats the last one and one is enough.
Written(ord, once, t, rec) ==
  IF once /\ t # <<>> /\ ord[t[Len(t)].key] = ord[rec.key] THEN t ELSE Append(t, rec)

\* At first everything waits.
LEMMA MergeStarts ==
  ASSUME NEW R, NEW rs \in Seq(Seq(R)), NEW ord, NEW once, NEW from,
         \A r \in 1 .. Len(rs) : from[r] = 1
  PROVE  MergedSoFar(rs, ord, once, from, <<>>)
<1> DEFINE t == <<>>
<1>1. Len(t) = 0
  OBVIOUS
<1>2. \A r \in 1 .. Len(rs) : \A i \in 1 .. Len(rs[r]) : from[r] <= i
  OBVIOUS
<1> HIDE DEF t
<1>3. InSortOrder(t, ord) /\ NoRepeats(t, ord)
  BY <1>1 DEF InSortOrder, NoRepeats
<1>4. MergedSoFar(rs, ord, once, from, t)
  BY <1>1, <1>2, <1>3 DEF MergedSoFar
<1> QED BY <1>4 DEF t

\* The least of the heads comes before all else that waits.
LEMMA LeastHead ==
  ASSUME NEW R, NEW ord, Ranked(R, ord), NEW rs \in Seq(Seq(R)), RunsInPosOrder(rs),
         \A r \in 1 .. Len(rs) : InSortOrder(rs[r], ord),
         NEW from \in [1 .. Len(rs) -> Nat \ {0}],
         NEW r \in 1 .. Len(rs), from[r] \in 1 .. Len(rs[r]),
         \A q \in 1 .. Len(rs) : q # r /\ from[q] \in 1 .. Len(rs[q]) =>
           \/ ord[rs[r][from[r]].key] < ord[rs[q][from[q]].key]
           \/ ord[rs[r][from[r]].key] = ord[rs[q][from[q]].key] /\ r < q
  PROVE  ComesNext(rs, ord, from, r)
<1> SUFFICES ASSUME NEW q \in 1 .. Len(rs), NEW i \in 1 .. Len(rs[q]), from[q] <= i,
                    q # r \/ i # from[r]
             PROVE  Sooner(ord, rs[r][from[r]], rs[q][i])
  BY DEF ComesNext
<1> DEFINE x == rs[r][from[r]]
           y == rs[q][i]
           h == rs[q][from[q]]
<1>1. from[q] \in 1 .. Len(rs[q]) /\ from[q] \in Nat /\ i \in Nat /\ Len(rs) \in Nat
  <2>1. rs[q] \in Seq(R)
    OBVIOUS
  <2>2. Len(rs[q]) \in Nat /\ from[q] \in Nat \ {0}
    BY <2>1, SMTT(30)
  <2> QED BY <2>2
<1>2. x \in R /\ y \in R /\ h \in R
  <2>1. rs[r] \in Seq(R) /\ rs[q] \in Seq(R)
    OBVIOUS
  <2> QED BY <1>1, <2>1, SeqMembers
<1>3. ord[x.key] \in Nat /\ ord[y.key] \in Nat /\ ord[h.key] \in Nat
  BY <1>2 DEF Ranked
<1>4. CASE q = r
  <2>1. from[r] < i
    BY <1>1, <1>4
  <2> QED BY <1>4, <2>1 DEF InSortOrder
<1>5. CASE q # r
  <2>1. ord[h.key] <= ord[y.key]
    <3>1. CASE from[q] = i
      BY <1>3, <3>1, SMTT(30)
    <3>2. CASE from[q] # i
      <4>1. Sooner(ord, h, y)
        BY <1>1, <3>2 DEF InSortOrder
      <4> QED BY <1>3, <4>1, SMTT(30) DEF Sooner
    <3> QED BY <3>1, <3>2
  <2>2. \/ ord[x.key] < ord[h.key]
        \/ ord[x.key] = ord[h.key] /\ r < q
    BY <1>1, <1>5
  <2>3. r < q => x.pos < y.pos
    BY DEF RunsInPosOrder
  <2> HIDE DEF x, y, h
  <2>4. Sooner(ord, x, y)
    BY <1>3, <2>1, <2>2, <2>3, SMTT(30) DEF Sooner
  <2> QED BY <2>4 DEF x, y
<1> QED BY <1>4, <1>5

\* Taking it, unless it repeats what was taken last.
LEMMA MergeTakes ==
  ASSUME NEW R, NEW ord, Ranked(R, ord), NEW once \in BOOLEAN, NEW rs \in Seq(Seq(R)),
         NEW from \in [1 .. Len(rs) -> Nat \ {0}], NEW t \in Seq(R), MergedSoFar(rs, ord, once, from, t),
         NEW r \in 1 .. Len(rs), from[r] \in 1 .. Len(rs[r]), ComesNext(rs, ord, from, r),
         NEW later, Passes(rs, from, r, later)
  PROVE  LET u == Written(ord, once, t, rs[r][from[r]])
         IN  u \in Seq(R) /\ MergedSoFar(rs, ord, once, later, u)
<1> DEFINE rec == rs[r][from[r]]
           N == Len(t)
           u == Written(ord, once, t, rec)
<1> SUFFICES u \in Seq(R) /\ MergedSoFar(rs, ord, once, later, u)
  OBVIOUS
<1>1. /\ N \in Nat /\ Len(rs) \in Nat /\ from[r] \in Nat
      /\ rs[r] \in Seq(R) /\ rec \in R /\ rec \in ToSet(rs[r])
      /\ \A n \in 1 .. N : t[n] \in R
      /\ \A q \in 1 .. Len(rs) : from[q] \in Nat
  <2>1. rs[r] \in Seq(R)
    OBVIOUS
  <2>2. rec \in R /\ rec \in ToSet(rs[r])
    BY <2>1, SeqMembers
  <2>3. N \in Nat /\ \A n \in 1 .. N : t[n] \in R
    BY SeqMembers
  <2>4. Len(rs) \in Nat
    OBVIOUS
  <2>5. \A q \in 1 .. Len(rs) : from[q] \in Nat
    OBVIOUS
  <2> HIDE DEF rec
  <2> QED BY <2>1, <2>2, <2>3, <2>4, <2>5
<1>2. /\ InSortOrder(t, ord) /\ (once => NoRepeats(t, ord))
      /\ \A n \in 1 .. N : \E q \in 1 .. Len(rs) : t[n] \in ToSet(rs[q])
      /\ \A q \in 1 .. Len(rs) : \A i \in 1 .. Len(rs[q]) :
           IF from[q] <= i THEN \A n \in 1 .. N : Sooner(ord, t[n], rs[q][i])
                           ELSE \E n \in 1 .. N : StandsIn(ord, once, t[n], rs[q][i])
  BY DEF MergedSoFar
<1>3. \A n \in 1 .. N : Sooner(ord, t[n], rec)
  <2>1. from[r] <= from[r]
    BY <1>1
  <2> QED BY <1>2, <2>1
<1>4. ASSUME NEW q \in 1 .. Len(rs), NEW i \in 1 .. Len(rs[q])
      PROVE  /\ later[q] <= i <=> from[q] <= i /\ (q # r \/ i # from[r])
             /\ ~(later[q] <= i) <=> ~(from[q] <= i) \/ (q = r /\ i = from[r])
  <2>1. CASE q = r
    <3>1. i \in Nat /\ later[q] = from[q] + 1 /\ from[q] \in Nat
      BY <1>1, <2>1 DEF Passes
    <3> QED BY <2>1, <3>1
  <2>2. CASE q # r
    BY <2>2 DEF Passes
  <2> QED BY <2>1, <2>2
<1>5. CASE once /\ t # <<>> /\ ord[t[N].key] = ord[rec.key]
  <2>1. u = t /\ N # 0 /\ N \in 1 .. N
    BY <1>1, <1>5 DEF Written
  <2>2. StandsIn(ord, once, t[N], rec)
    <3>1. Sooner(ord, t[N], rec)
      BY <1>3, <2>1
    <3>2. t[N].pos \in Nat /\ rec.pos \in Nat /\ ord[rec.key] \in Nat
      BY <1>1, <2>1 DEF Ranked
    <3>3. t[N].pos <= rec.pos
      BY <1>5, <3>1, <3>2 DEF Sooner
    <3> QED BY <1>5, <3>3 DEF StandsIn
  <2>3. ASSUME NEW q \in 1 .. Len(rs), NEW i \in 1 .. Len(rs[q])
        PROVE  IF later[q] <= i THEN \A n \in 1 .. N : Sooner(ord, t[n], rs[q][i])
                                ELSE \E n \in 1 .. N : StandsIn(ord, once, t[n], rs[q][i])
    <3>1. CASE later[q] <= i
      BY <1>2, <1>4, <3>1
    <3>2. CASE ~(later[q] <= i) /\ ~(from[q] <= i)
      BY <1>2, <3>2
    <3>3. CASE ~(later[q] <= i) /\ q = r /\ i = from[r]
      BY <2>1, <2>2, <3>3
    <3> QED BY <1>4, <3>1, <3>2, <3>3
  <2> HIDE DEF rec, u
  <2> QED BY <1>2, <2>1, <2>3 DEF MergedSoFar
<1>6. CASE ~(once /\ t # <<>> /\ ord[t[N].key] = ord[rec.key])
  <2>1. /\ u = Append(t, rec) /\ u \in Seq(R) /\ Len(u) = N + 1 /\ u[N + 1] = rec
        /\ \A n \in 1 .. N : u[n] = t[n]
    <3>1. u = Append(t, rec)
      BY <1>6 DEF Written
    <3> HIDE DEF rec
    <3> QED BY <1>1, <3>1
  <2>2. \A n \in 1 .. Len(u) : n \in 1 .. N \/ n = N + 1
    BY <1>1, <2>1
  <2>3. N + 1 \in 1 .. Len(u) /\ \A n \in 1 .. N : n \in 1 .. Len(u) /\ n < N + 1
    BY <1>1, <2>1
  <2> HIDE DEF rec, u
  <2>4. InSortOrder(u, ord)
    <3> SUFFICES ASSUME NEW m \in 1 .. Len(u), NEW n \in 1 .. Len(u), m < n
                 PROVE  Sooner(ord, u[m], u[n])
      BY DEF InSortOrder
    <3>1. m \in 1 .. N
      BY <1>1, <2>1
    <3>2. CASE n \in 1 .. N
      BY <1>2, <2>1, <3>1, <3>2 DEF InSortOrder
    <3>3. CASE n = N + 1
      BY <1>3, <2>1, <3>1, <3>3
    <3> QED BY <2>2, <3>2, <3>3
  <2>5. ASSUME once PROVE NoRepeats(u, ord)
    <3> SUFFICES ASSUME NEW n \in 1 .. Len(u), n + 1 <= Len(u)
                 PROVE  ord[u[n].key] # ord[u[n + 1].key]
      BY DEF NoRepeats
    <3>1. n \in 1 .. N
      BY <1>1, <2>1
    <3>2. CASE n + 1 <= N
      <4>1. n + 1 \in 1 .. N
        BY <1>1, <3>1, <3>2
      <4> QED BY <1>2, <2>1, <2>5, <3>1, <3>2, <4>1 DEF NoRepeats
    <3>3. CASE n = N
      <4>1. t # <<>>
        BY <3>1, <3>3
      <4> QED BY <1>6, <2>1, <2>5, <3>1, <3>3, <4>1
    <3> QED BY <1>1, <3>1, <3>2, <3>3
  <2>6. ASSUME NEW n \in 1 .. Len(u) PROVE \E q \in 1 .. Len(rs) : u[n] \in ToSet(rs[q])
    BY <1>1, <1>2, <2>1, <2>2
  <2>7. ASSUME NEW q \in 1 .. Len(rs), NEW i \in 1 .. Len(rs[q])
        PROVE  IF later[q] <= i THEN \A n \in 1 .. Len(u) : Sooner(ord, u[n], rs[q][i])
                                ELSE \E n \in 1 .. Len(u) : StandsIn(ord, once, u[n], rs[q][i])
    <3>1. CASE later[q] <= i
      <4>1. from[q] <= i /\ Sooner(ord, rec, rs[q][i])
        BY <1>4, <3>1 DEF rec, ComesNext
      <4>2. \A n \in 1 .. N : Sooner(ord, t[n], rs[q][i])
        BY <1>2, <4>1
      <4> QED BY <2>1, <2>2, <3>1, <4>1, <4>2
    <3>2. CASE ~(later[q] <= i) /\ ~(from[q] <= i)
      <4>1. PICK n \in 1 .. N : StandsIn(ord, once, t[n], rs[q][i])
        BY <1>2, <3>2
      <4>2. n \in 1 .. Len(u) /\ StandsIn(ord, once, u[n], rs[q][i])
        BY <2>1, <2>3, <4>1
      <4> QED BY <3>2, <4>2
    <3>3. CASE ~(later[q] <= i) /\ q = r /\ i = from[r]
      <4>1. rec.pos \in Nat
        BY <1>1 DEF Ranked
      <4>2. StandsIn(ord, once, u[N + 1], rs[q][i])
        BY <2>1, <3>3, <4>1 DEF StandsIn, rec
      <4> QED BY <2>3, <3>3, <4>2
    <3> QED BY <1>4, <3>1, <3>2, <3>3
  <2> QED BY <2>1, <2>4, <2>5, <2>6, <2>7 DEF MergedSoFar
<1> QED BY <1>5, <1>6

\* When nothing waits any longer, all runs are sorted.
LEMMA MergeEnds ==
  ASSUME NEW R, NEW ord, Ranked(R, ord), NEW once \in BOOLEAN, NEW rs \in Seq(Seq(R)),
         RunsInPosOrder(rs), \A r \in 1 .. Len(rs) : InPosOrder(rs[r]),
         NEW from \in [1 .. Len(rs) -> Nat], \A r \in 1 .. Len(rs) : from[r] > Len(rs[r]),
         NEW t \in Seq(R), MergedSoFar(rs, ord, once, from, t)
  PROVE  t = SortedBy(FlattenSeq(rs), ord, once)
<1> DEFINE all == FlattenSeq(rs)
<1>1. \A x \in R : x.pos \in Nat
  BY DEF Ranked
<1>2. /\ all \in Seq(R) /\ InPosOrder(all)
      /\ \A x : x \in ToSet(all) <=> \E r \in 1 .. Len(rs) : x \in ToSet(rs[r])
  BY <1>1, FlattenSeqIs
<1> HIDE DEF all
<1>3. InSortOrder(t, ord) /\ (once => NoRepeats(t, ord))
  BY DEF MergedSoFar
<1>4. ToSet(t) \subseteq ToSet(all)
  <2> SUFFICES ASSUME NEW x \in ToSet(t) PROVE x \in ToSet(all)
    OBVIOUS
  <2>1. PICK n \in 1 .. Len(t) : t[n] = x
    BY SeqMembers
  <2> QED BY <1>2, <2>1 DEF MergedSoFar
<1>5. ASSUME NEW x \in ToSet(all) PROVE \E s \in ToSet(t) : StandsIn(ord, once, s, x)
  <2>1. PICK r \in 1 .. Len(rs) : x \in ToSet(rs[r])
    BY <1>2
  <2>2. rs[r] \in Seq(R) /\ from[r] \in Nat
    BY <2>1, SMTT(30)
  <2>3. PICK i \in 1 .. Len(rs[r]) : rs[r][i] = x
    BY <2>1, <2>2, SeqMembers
  <2>4. ~(from[r] <= i)
    <3>1. Len(rs[r]) \in Nat
      BY <2>2
    <3> QED BY <2>2, <3>1
  <2>5. PICK n \in 1 .. Len(t) : StandsIn(ord, once, t[n], x)
    BY <2>3, <2>4 DEF MergedSoFar
  <2> QED BY <2>5, SeqMembers
<1>6. t = SortedBy(all, ord, once)
  BY <1>2, <1>3, <1>4, <1>5, StandInsSorted
<1> QED BY <1>6 DEF all

=============================================================================
