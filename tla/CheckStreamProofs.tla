-------------------------- MODULE CheckStreamProofs --------------------------
(***************************************************************************)
(* Proofs about CheckStream for inputs of any number of records of any     *)
(* length and for chunks that end anywhere: the record before and its key  *)
(* stay what they are while the buffers move and change places, and no     *)
(* buffer holds more than it has room for.  The invariant says where in    *)
(* the bytes of the input everything that has been read comes from.        *)
(***************************************************************************)
EXTENDS CheckStream, SortOrderProofs

-----------------------------------------------------------------------------
(***************************************************************************)
(* Where the records are in the bytes of the input                         *)
(***************************************************************************)

\* Record i ends before the delimiter at off[i]; n records take all bytes.
Laid(recs, n, off, all) ==
  /\ off \in [0 .. n -> Nat] /\ off[0] = 0
  /\ all \in Seq(Nat) /\ Len(all) = off[n]
  /\ \A i \in 1 .. n :
       /\ off[i] = off[i - 1] + Len(recs[i]) + 1 /\ off[i] <= off[n]
       /\ all[off[i]] = Delim
       /\ \A j \in 1 .. Len(recs[i]) : all[off[i - 1] + j] = recs[i][j]

LEMMA LaidLonger ==
  ASSUME NEW recs, NEW n \in Nat, NEW off, NEW all, Laid(recs, n, off, all), Delim \in Nat,
         \A i \in 1 .. n + 1 : recs[i] \in Seq(Nat)
  PROVE  Laid(recs, n + 1, [i \in 0 .. n + 1 |-> IF i <= n THEN off[i] ELSE off[n] + Len(recs[n + 1]) + 1],
              all \o Append(recs[n + 1], Delim))
<1> DEFINE r == recs[n + 1]
           off2 == [i \in 0 .. n + 1 |-> IF i <= n THEN off[i] ELSE off[n] + Len(recs[n + 1]) + 1]
           all2 == all \o Append(r, Delim)
<1>1. /\ all \in Seq(Nat) /\ Len(all) = off[n] /\ r \in Seq(Nat) /\ Len(r) \in Nat
      /\ off \in [0 .. n -> Nat] /\ off[0] = 0 /\ off[n] \in Nat
  BY DEF Laid
<1> HIDE DEF r
<1>2. /\ Append(r, Delim) \in Seq(Nat) /\ Len(Append(r, Delim)) = Len(r) + 1
      /\ \A j \in 1 .. Len(r) : Append(r, Delim)[j] = r[j]
      /\ Append(r, Delim)[Len(r) + 1] = Delim
  BY <1>1
<1> DEFINE e == Append(r, Delim)
<1> HIDE DEF e
<1>3. /\ all2 \in Seq(Nat) /\ Len(all2) = off[n] + Len(r) + 1
      /\ \A p \in 1 .. off[n] : all2[p] = all[p]
      /\ \A j \in 1 .. Len(r) + 1 : all2[off[n] + j] = e[j]
  <2>0. all \in Seq(Nat) /\ Nat = Nat
    BY <1>1
  <2>1. e \in Seq(Nat) /\ Len(e) = Len(r) + 1
    BY <1>2 DEF e
  <2>2. all \o e \in Seq(Nat)
    BY <2>0, <2>1
  <2>3. Len(all \o e) = Len(all) + Len(e)
    BY <2>0, <2>1
  <2>4. \A p \in 1 .. Len(all) : (all \o e)[p] = all[p]
    BY <2>0, <2>1
  <2>5. \A p \in 1 .. Len(e) : (all \o e)[Len(all) + p] = e[p]
    BY <2>0, <2>1
  <2>6. all2 = all \o e /\ Len(all) = off[n]
    BY <1>1 DEF e
  <2> HIDE DEF all2
  <2>7. all2 \in Seq(Nat) /\ Len(all2) = off[n] + Len(r) + 1
    BY <2>1, <2>2, <2>3, <2>6, <1>1
  <2>8. \A p \in 1 .. off[n] : all2[p] = all[p]
    BY <2>4, <2>6
  <2>9. \A j \in 1 .. Len(r) + 1 : all2[off[n] + j] = e[j]
    BY <2>1, <2>5, <2>6
  <2> QED BY <2>7, <2>8, <2>9
<1>4. off2 \in [0 .. n + 1 -> Nat] /\ off2[0] = 0 /\ off2[n + 1] = off[n] + Len(r) + 1
      /\ \A i \in 0 .. n : off2[i] = off[i]
  BY <1>1 DEF r
<1> HIDE DEF off2, all2
<1>5. ASSUME NEW i \in 1 .. n + 1
      PROVE  /\ off2[i] = off2[i - 1] + Len(recs[i]) + 1 /\ off2[i] <= off2[n + 1]
             /\ all2[off2[i]] = Delim
             /\ \A j \in 1 .. Len(recs[i]) : all2[off2[i - 1] + j] = recs[i][j]
  <2>1. CASE i = n + 1
    <3>1. /\ i - 1 = n /\ recs[i] = r
          /\ off2[i] = off[n] + Len(r) + 1 /\ off2[i - 1] = off[n]
      BY <2>1, <1>1, <1>4 DEF r
    <3>2. Len(r) + 1 \in 1 .. Len(r) + 1 /\ \A j \in 1 .. Len(r) : j \in 1 .. Len(r) + 1
      BY <1>1
    <3>3. all2[off[n] + (Len(r) + 1)] = Delim /\ \A j \in 1 .. Len(r) : all2[off[n] + j] = r[j]
      BY <1>2, <1>3, <3>2 DEF e
    <3> QED BY <3>1, <3>3, <1>1, <1>4, <2>1
  <2>2. CASE i # n + 1
    <3>1. i \in 1 .. n /\ i \in 0 .. n /\ i - 1 \in 0 .. n
      BY <2>2
    <3>2. /\ off[i] = off[i - 1] + Len(recs[i]) + 1 /\ off[i] <= off[n] /\ all[off[i]] = Delim
          /\ \A j \in 1 .. Len(recs[i]) : all[off[i - 1] + j] = recs[i][j]
      BY <3>1 DEF Laid
    <3>3. off[i] \in Nat /\ off[i - 1] \in Nat /\ Len(recs[i]) \in Nat
      BY <3>1, <1>1
    <3>4. off2[i] = off[i] /\ off2[i - 1] = off[i - 1]
      BY <3>1, <1>4
    <3>5. off[i] \in 1 .. off[n]
      BY <3>2, <3>3, <1>1
    <3>7. ASSUME NEW j \in 1 .. Len(recs[i]) PROVE off[i - 1] + j \in 1 .. off[n]
      <4>1. off[i] = off[i - 1] + Len(recs[i]) + 1 /\ off[i] <= off[n]
        BY <3>2
      <4>2. off[n] \in Nat /\ off[i] \in Nat /\ off[i - 1] \in Nat /\ Len(recs[i]) \in Nat
        BY <3>3, <1>1
      <4>3. j \in Nat /\ 1 <= j /\ j <= Len(recs[i])
        BY <4>2
      <4>4. \A a, b, c, d \in Nat : b = a + c + 1 /\ b <= d /\ j <= c => a + j <= d /\ 1 <= a + j
        BY <4>3
      <4>5. off[i - 1] + j <= off[n] /\ 1 <= off[i - 1] + j
        BY <4>1, <4>2, <4>3, <4>4, Zenon
      <4> QED BY <4>2, <4>3, <4>5
    <3>6. all2[off[i]] = Delim /\ \A j \in 1 .. Len(recs[i]) : all2[off[i - 1] + j] = recs[i][j]
      <4>1. all2[off[i]] = all[off[i]]
        BY <3>5, <1>3
      <4>2. ASSUME NEW j \in 1 .. Len(recs[i]) PROVE all2[off[i - 1] + j] = all[off[i - 1] + j]
        BY <3>7, <1>3
      <4> QED BY <3>2, <4>1, <4>2
    <3> QED BY <3>2, <3>3, <3>4, <3>6, <1>1, <1>4
  <2> QED BY <2>1, <2>2
<1> QED BY <1>3, <1>4, <1>5 DEF Laid, off2, all2, r

LEMMA RecordsLaid ==
  ASSUME NEW recs, NEW N \in Nat, Len(recs) = N, DOMAIN recs = 1 .. N, Delim \in Nat,
         \A i \in 1 .. N : recs[i] \in Seq(Nat)
  PROVE  \E off : Laid(recs, N, off, FlattenSeq([i \in DOMAIN recs |-> Append(recs[i], Delim)]))
<1> DEFINE s == [i \in DOMAIN recs |-> Append(recs[i], Delim)]
<1>1. DOMAIN s = 1 .. N /\ \A i \in 1 .. N : s[i] = Append(recs[i], Delim)
  OBVIOUS
<1>2. Len(s) = N
  BY <1>1, LenProperties
<1> HIDE DEF s
<1>3. Laid(recs, 0, [i \in 0 .. 0 |-> 0], <<>>)
  BY DEF Laid
<1>4. CASE N = 0
  BY <1>2, <1>3, <1>4 DEF FlattenSeq, s
<1>5. CASE N # 0
  <2>1. PICK f : Flattens(s, N, f) /\ FlattenSeq(s) = f[N]
    BY <1>2, <1>5, FlattenSeqUnrolled
  <2>2. \A i \in 1 .. N : f[i] = IF i = 1 THEN s[i] ELSE f[i - 1] \o s[i]
    BY <2>1, Zenon DEF Flattens
  <2> DEFINE T == {m \in Nat : m + 1 <= N => \E off : Laid(recs, m + 1, off, f[m + 1])}
  <2>3. 0 \in T
    <3>1. 1 \in 1 .. N
      BY <1>5
    <3>2. f[1] = Append(recs[1], Delim) /\ recs[1] \in Seq(Nat)
      BY <1>1, <2>2, <3>1
    <3>3. f[1] = <<>> \o Append(recs[1], Delim)
      <4> QED BY <3>2
    <3>4. \A i \in 1 .. 0 + 1 : recs[i] \in Seq(Nat)
      BY <3>1
    <3>5. \E off : Laid(recs, 0 + 1, off, <<>> \o Append(recs[0 + 1], Delim))
      BY <1>3, <3>4, LaidLonger
    <3>6. 0 + 1 = 1 /\ 0 \in Nat
      OBVIOUS
    <3>7. \E off : Laid(recs, 1, off, f[1])
      BY <3>3, <3>5, <3>6, Zenon
    <3> QED BY <3>6, <3>7, Zenon
  <2>4. ASSUME NEW m \in T PROVE m + 1 \in T
    <3>1. m \in Nat /\ (m + 1) + 1 = m + 2
      OBVIOUS
    <3> SUFFICES ASSUME m + 2 <= N PROVE \E off : Laid(recs, m + 2, off, f[m + 2])
      BY <3>1
    <3>2. PICK off : Laid(recs, m + 1, off, f[m + 1])
      BY <3>1
    <3>3. m + 2 \in 1 .. N /\ m + 2 # 1 /\ m + 1 \in Nat /\ (m + 2) - 1 = m + 1
          /\ \A i \in 1 .. (m + 1) + 1 : recs[i] \in Seq(Nat)
      BY <3>1
    <3>4. f[m + 2] = f[m + 1] \o Append(recs[m + 2], Delim)
      BY <1>1, <2>2, <3>3
    <3>5. \E off2 : Laid(recs, (m + 1) + 1, off2, f[m + 1] \o Append(recs[(m + 1) + 1], Delim))
      BY <3>2, <3>3, LaidLonger
    <3> QED BY <3>1, <3>4, <3>5
  <2> HIDE DEF T
  <2>5. \A m \in Nat : m \in T
    BY <2>3, <2>4, AllNumbers DEF T
  <2>6. N - 1 \in Nat /\ (N - 1) + 1 = N /\ N <= N
    BY <1>5
  <2>7. N - 1 \in T
    BY <2>5, <2>6
  <2>8. \E off : Laid(recs, N, off, f[N])
    BY <2>6, <2>7 DEF T
  <2> QED BY <2>1, <2>8 DEF s
<1> QED BY <1>4, <1>5

\* The bytes of a file whose last record has a delimiter, and where the
\* records of it end.
All(g) == Bytes(g, FALSE)
Ends(g) == CHOOSE off : Laid(g, Len(g), off, All(g))

LEMMA FileLaid ==
  ASSUME NEW g \in Files
  PROVE  /\ Len(g) \in Nat /\ DOMAIN g = 1 .. Len(g)
         /\ \A i \in 1 .. Len(g) : g[i] \in Seq(Nat) /\ \A j \in 1 .. Len(g[i]) : g[i][j] # Delim
         /\ Laid(g, Len(g), Ends(g), All(g))
<1>1. g \in Seq(Records)
  BY ConstantsAssumption
<1>2. Len(g) \in Nat /\ DOMAIN g = 1 .. Len(g) /\ \A i \in 1 .. Len(g) : g[i] \in Seq(Nat \ {Delim})
  BY <1>1, ConstantsAssumption
<1>3. \A i \in 1 .. Len(g) : g[i] \in Seq(Nat) /\ \A j \in 1 .. Len(g[i]) : g[i][j] # Delim
  BY <1>2
<1>4. \E off : Laid(g, Len(g), off, All(g))
  BY <1>2, <1>3, RecordsLaid, ConstantsAssumption DEF All, Bytes
<1> QED BY <1>2, <1>3, <1>4 DEF Ends

-----------------------------------------------------------------------------
(***************************************************************************)
(* Pieces of the input                                                     *)
(***************************************************************************)

\* s is the bytes of the file from place o + 1 on.
Bit(g, s, o) ==
  s \in Seq(Nat) /\ \A j \in 1 .. Len(s) : s[j] = All(g)[o + j]

LEMMA BitSub ==
  ASSUME NEW g, NEW s, NEW o \in Nat, Bit(g, s, o),
         NEW a \in Nat, NEW b \in Nat, a + 1 <= b + 1, b <= Len(s)
  PROVE  /\ Bit(g, SubSeq(s, a + 1, b), o + a) /\ Len(SubSeq(s, a + 1, b)) = b - a
         /\ \A j \in 1 .. b - a : SubSeq(s, a + 1, b)[j] = s[a + j]
<1>1. s \in Seq(Nat) /\ Len(s) \in Nat
  BY DEF Bit
<1>2. SubSeq(s, a + 1, b) \in Seq(Nat) /\ Len(SubSeq(s, a + 1, b)) = b - a
  BY <1>1
<1>3. ASSUME NEW j \in 1 .. b - a
      PROVE  SubSeq(s, a + 1, b)[j] = s[a + j] /\ a + j \in 1 .. Len(s)
  BY <1>1
<1>4. ASSUME NEW j \in 1 .. b - a
      PROVE  SubSeq(s, a + 1, b)[j] = All(g)[(o + a) + j]
  <2>1. s[a + j] = All(g)[o + (a + j)]
    BY <1>3 DEF Bit
  <2>2. o + (a + j) = (o + a) + j
    OBVIOUS
  <2> QED BY <1>3, <2>1, <2>2
<1> QED BY <1>2, <1>3, <1>4 DEF Bit

LEMMA BitJoin ==
  ASSUME NEW g, NEW a, NEW b, NEW o \in Nat, Bit(g, a, o), Bit(g, b, o + Len(a))
  PROVE  Bit(g, a \o b, o) /\ Len(a \o b) = Len(a) + Len(b)
<1>1. a \in Seq(Nat) /\ b \in Seq(Nat) /\ Len(a) \in Nat /\ Len(b) \in Nat
  BY DEF Bit
<1>2. /\ a \o b \in Seq(Nat) /\ Len(a \o b) = Len(a) + Len(b)
      /\ \A p \in 1 .. Len(a) : (a \o b)[p] = a[p]
      /\ \A p \in 1 .. Len(b) : (a \o b)[Len(a) + p] = b[p]
  BY <1>1, Joined
<1>3. ASSUME NEW j \in 1 .. Len(a) + Len(b) PROVE (a \o b)[j] = All(g)[o + j]
  <2>1. CASE j <= Len(a)
    <3>1. j \in 1 .. Len(a)
      BY <1>1, <2>1
    <3> QED BY <3>1, <1>2 DEF Bit
  <2>2. CASE ~ j <= Len(a)
    <3> DEFINE p == j - Len(a)
    <3>1. p \in 1 .. Len(b) /\ Len(a) + p = j /\ (o + Len(a)) + p = o + j
      BY <1>1, <2>2
    <3>2. (a \o b)[Len(a) + p] = b[p] /\ b[p] = All(g)[(o + Len(a)) + p]
      BY <3>1, <1>2 DEF Bit
    <3> QED BY <3>1, <3>2
  <2> QED BY <2>1, <2>2
<1> QED BY <1>2, <1>3 DEF Bit

\* Bytes without a delimiter, from the end of record n up to a delimiter, are
\* record n + 1.
LEMMA RecordRead ==
  ASSUME NEW g \in Files, NEW n \in 0 .. Len(g), NEW cur, Bit(g, cur, Ends(g)[n]),
         \A j \in 1 .. Len(cur) : cur[j] # Delim,
         Ends(g)[n] + Len(cur) + 1 <= Len(All(g)),
         All(g)[Ends(g)[n] + Len(cur) + 1] = Delim
  PROVE  /\ n + 1 \in 1 .. Len(g) /\ cur = g[n + 1]
         /\ Ends(g)[n + 1] = Ends(g)[n] + Len(cur) + 1
<1> DEFINE off == Ends(g)
           all == All(g)
<1>1. /\ Len(g) \in Nat /\ n \in Nat /\ cur \in Seq(Nat) /\ Len(cur) \in Nat
      /\ off \in [0 .. Len(g) -> Nat] /\ off[n] \in Nat /\ Len(all) = off[Len(g)]
  BY FileLaid DEF Bit, Laid
<1>2. n # Len(g)
  BY <1>1
<1>3. n + 1 \in 1 .. Len(g) /\ (n + 1) - 1 = n
  BY <1>1, <1>2
<1> DEFINE r == g[n + 1]
<1>4. /\ r \in Seq(Nat) /\ Len(r) \in Nat /\ \A j \in 1 .. Len(r) : r[j] # Delim
  BY <1>3, FileLaid
<1>5. /\ off[n + 1] = off[n] + Len(r) + 1 /\ all[off[n + 1]] = Delim
      /\ \A j \in 1 .. Len(r) : all[off[n] + j] = r[j]
  <2>1. Laid(g, Len(g), off, all)
    BY FileLaid
  <2> HIDE DEF off, all
  <2>2. \A i \in 1 .. Len(g) : /\ off[i] = off[i - 1] + Len(g[i]) + 1
                              /\ all[off[i]] = Delim
                              /\ \A j \in 1 .. Len(g[i]) : all[off[i - 1] + j] = g[i][j]
    BY <2>1, Zenon DEF Laid
  <2> QED BY <2>2, <1>3
<1> HIDE DEF off, all, r
<1>6. \A j \in 1 .. Len(cur) : cur[j] = all[off[n] + j]
  BY DEF Bit, off, all
<1>7. all[off[n] + Len(cur) + 1] = Delim
  BY DEF off, all
<1>8. ~ Len(cur) < Len(r)
  <2> SUFFICES ASSUME Len(cur) < Len(r) PROVE FALSE
    OBVIOUS
  <2>1. Len(cur) + 1 \in 1 .. Len(r) /\ off[n] + Len(cur) + 1 = off[n] + (Len(cur) + 1)
    BY <1>1, <1>4
  <2>2. all[off[n] + (Len(cur) + 1)] = r[Len(cur) + 1] /\ r[Len(cur) + 1] # Delim
    BY <2>1, <1>4, <1>5
  <2> QED BY <2>1, <2>2, <1>7
<1>9. ~ Len(r) < Len(cur)
  <2> SUFFICES ASSUME Len(r) < Len(cur) PROVE FALSE
    OBVIOUS
  <2>1. Len(r) + 1 \in 1 .. Len(cur) /\ off[n] + Len(r) + 1 = off[n] + (Len(r) + 1)
    BY <1>1, <1>4
  <2>2. cur[Len(r) + 1] = all[off[n] + (Len(r) + 1)] /\ cur[Len(r) + 1] # Delim
    BY <2>1, <1>6
  <2> QED BY <2>1, <2>2, <1>5
<1>10. Len(cur) = Len(r)
  BY <1>1, <1>4, <1>8, <1>9
<1>11. \A j \in 1 .. Len(cur) : cur[j] = r[j]
  BY <1>5, <1>6, <1>10
<1>12. cur = r
  <2>1. cur \in Seq(Nat) /\ r \in Seq(Nat) /\ Len(cur) = Len(r)
    BY <1>1, <1>4, <1>10
  <2>2. \A j \in 1 .. Len(cur) : cur[j] = r[j]
    BY <1>11
  <2> QED BY <2>1, <2>2, SeqEqual
<1> QED BY <1>1, <1>3, <1>5, <1>10, <1>12 DEF off, r

-----------------------------------------------------------------------------
(***************************************************************************)
(* The buffers                                                             *)
(***************************************************************************)

Buffer == [data : Seq(Nat), cap : Nat, moved : Nat]

Doubles(first, m, f) ==
  f = [n \in 0 .. m |-> IF n = 0 THEN first ELSE 2 * f[n - 1]]

LEMMA DoublesExists ==
  ASSUME NEW first, NEW n \in Nat
  PROVE  \E f : Doubles(first, n, f)
<1> DEFINE T == {m \in Nat : \E f : Doubles(first, m, f)}
<1>1. 0 \in T
  <2> DEFINE f == [i \in 0 .. 0 |-> first]
  <2>1. Doubles(first, 0, f)
    BY DEF Doubles
  <2> HIDE DEF f
  <2> QED BY <2>1
<1>2. ASSUME NEW m \in T PROVE m + 1 \in T
  <2>1. PICK g : Doubles(first, m, g)
    OBVIOUS
  <2> DEFINE f == [i \in 0 .. m + 1 |-> IF i = 0 THEN first ELSE 2 * g[i - 1]]
  <2>2. ASSUME NEW i \in 0 .. m PROVE f[i] = g[i]
    <3>1. i \in 0 .. m + 1
      OBVIOUS
    <3>2. g[i] = IF i = 0 THEN first ELSE 2 * g[i - 1]
      BY <2>1, Zenon DEF Doubles
    <3> QED BY <3>1, <3>2, Zenon
  <2>3. \A i \in 0 .. m + 1 : i # 0 => i - 1 \in 0 .. m
    OBVIOUS
  <2>4. \A i \in 0 .. m + 1 : f[i] = IF i = 0 THEN first ELSE 2 * f[i - 1]
    BY <2>2, <2>3
  <2>5. Doubles(first, m + 1, f)
    BY <2>4 DEF Doubles
  <2> HIDE DEF f
  <2> QED BY <2>5
<1> HIDE DEF T
<1>3. \A m \in Nat : m \in T
  BY <1>1, <1>2, AllNumbers DEF T
<1> QED BY <1>3 DEF T

LEMMA DoublesGrow ==
  ASSUME NEW first \in Nat \ {0}, NEW n \in Nat, NEW f, Doubles(first, n, f)
  PROVE  \A i \in 0 .. n : f[i] \in Nat /\ f[i] > i
<1>1. \A i \in 0 .. n : f[i] = IF i = 0 THEN first ELSE 2 * f[i - 1]
  BY Zenon DEF Doubles
<1> DEFINE T == {m \in Nat : m <= n => f[m] \in Nat /\ f[m] > m}
<1>2. 0 \in T
  BY <1>1
<1>3. ASSUME NEW m \in T PROVE m + 1 \in T
  <2> SUFFICES ASSUME m + 1 <= n PROVE f[m + 1] \in Nat /\ f[m + 1] > m + 1
    OBVIOUS
  <2>1. m \in Nat /\ f[m] \in Nat /\ f[m] > m /\ m + 1 \in 0 .. n /\ m + 1 # 0 /\ (m + 1) - 1 = m
    OBVIOUS
  <2>2. f[m + 1] = 2 * f[m]
    BY <1>1, <2>1
  <2> QED BY <2>1, <2>2
<1> HIDE DEF T
<1>4. \A m \in Nat : m \in T
  BY <1>2, <1>3, AllNumbers DEF T
<1> QED BY <1>4 DEF T

\* What check_record_append does: the piece is put behind, and there is room.
LEMMA AppendedFits ==
  ASSUME NEW buf \in Buffer, Len(buf.data) <= buf.cap, NEW piece \in Seq(Nat)
  PROVE  /\ Appended(buf, piece) \in Buffer
         /\ Appended(buf, piece).data = buf.data \o piece
         /\ Len(Appended(buf, piece).data) <= Appended(buf, piece).cap
<1> DEFINE needed == Len(buf.data) + Len(piece)
           first == IF buf.cap = 0 THEN FirstCap ELSE buf.cap
           doubled == CHOOSE f : f = [n \in 0 .. needed |-> IF n = 0 THEN IF buf.cap = 0 THEN FirstCap ELSE buf.cap
                                                            ELSE 2 * f[n - 1]]
           enough == {n \in 0 .. needed : doubled[n] >= needed}
<1>1. /\ buf.data \in Seq(Nat) /\ buf.cap \in Nat /\ buf.moved \in Nat /\ needed \in Nat
      /\ first \in Nat \ {0}
      /\ buf = [data |-> buf.data, cap |-> buf.cap, moved |-> buf.moved]
  BY ConstantsAssumption DEF Buffer
<1>2. buf.data \o piece \in Seq(Nat) /\ Len(buf.data \o piece) = needed
  BY <1>1
<1>3. Doubles(first, needed, doubled)
  <2> HIDE DEF needed
  <2>1. \E f : Doubles(first, needed, f)
    BY <1>1, DoublesExists
  <2> QED BY <2>1, Zenon DEF Doubles
<1>4. CASE piece = <<>> \/ needed <= buf.cap
  <2>1. Appended(buf, piece) = [buf EXCEPT !.data = @ \o piece]
    BY <1>4 DEF Appended
  <2>2. needed <= buf.cap
    BY <1>1, <1>4
  <2> QED BY <1>1, <1>2, <2>1, <2>2 DEF Buffer
<1>5. CASE ~(piece = <<>> \/ needed <= buf.cap)
  <2>1. Appended(buf, piece) = [data |-> buf.data \o piece, cap |-> doubled[Min(enough)], moved |-> buf.moved + 1]
    BY <1>5 DEF Appended
  <2> HIDE DEF doubled, first, needed
  <2>2. \A i \in 0 .. needed : doubled[i] \in Nat /\ doubled[i] > i
    BY <1>1, <1>3, DoublesGrow
  <2>3. needed \in enough /\ enough \subseteq Nat
    <3>1. needed \in 0 .. needed /\ doubled[needed] >= needed
      BY <1>1, <2>2
    <3>2. 0 .. needed \subseteq Nat
      BY <1>1
    <3> QED BY <3>1, <3>2, Zenon
  <2>4. PICK m \in enough : \A y \in enough : m <= y
    BY <2>3, LeastNumber
  <2>5. Min(enough) \in enough
    <3> HIDE DEF enough
    <3> QED BY <2>4, Zenon DEF Min
  <2>6. doubled[Min(enough)] \in Nat /\ needed <= doubled[Min(enough)]
    BY <2>2, <2>5, <1>1
  <2> QED BY <2>1, <2>6, <1>1, <1>2 DEF Buffer
<1> QED BY <1>4, <1>5

-----------------------------------------------------------------------------
(***************************************************************************)
(* The inductive invariant                                                 *)
(***************************************************************************)

CurrentData == buffers[Current].data

\* The input ends at place p: the delimiter of a last record that is not empty
\* may be missing.
EndsAt(g, p) ==
  \/ p = Len(All(g))
  \/ p = Len(All(g)) - 1 /\ Len(g) > 0 /\ g[Len(g)] # <<>>

\* What has been read and not scanned, and what is still to be read, are the
\* bytes from place o on.
Ahead(g, o, ch, un) ==
  /\ Bit(g, ch, o) /\ Bit(g, un, o + Len(ch))
  /\ EndsAt(g, o + Len(ch) + Len(un))

Types ==
  /\ pc \in {"open", "read", "scan", "process", "close", "ended"}
  /\ options \in Options /\ given \in Files /\ fast = options.engine
  /\ unread \in Seq(Nat) /\ chunk \in Seq(Nat) /\ eof \in BOOLEAN
  /\ buffers \in [1 .. 2 -> Buffer]
  /\ \A b \in 1 .. 2 : Len(buffers[b].data) <= buffers[b].cap
  /\ previous \in 1 .. 2
  /\ number \in Nat /\ have_previous \in BOOLEAN
  /\ prev_key.valid \in BOOLEAN
  /\ status \in {"success", "disorder", "serious"}

\* Between records, and within one: the bytes of the record so far, without a
\* delimiter, follow record number, and the rest of the input follows them.
WhileReading ==
  pc \in {"open", "read", "scan"} =>
    /\ number <= Len(given) /\ ~eof
    /\ Bit(given, CurrentData, Ends(given)[number])
    /\ \A j \in 1 .. Len(CurrentData) : CurrentData[j] # Delim
    /\ Ahead(given, Ends(given)[number] + Len(CurrentData), chunk, unread)
    /\ pc # "scan" => chunk = <<>>
    /\ have_previous <=> number > 0
    /\ have_previous => buffers[previous].data = given[number]

\* A record that is complete is record number.
WhileProcessing ==
  pc = "process" =>
    /\ number \in 1 .. Len(given) /\ CurrentData = given[number]
    /\ ~eof => Ahead(given, Ends(given)[number], chunk, unread)
    /\ eof => number = Len(given)
    /\ have_previous <=> number > 1
    /\ have_previous => buffers[previous].data = given[number - 1]

KeyIsKept ==
  pc \in {"open", "read", "scan", "process"} =>
    /\ ~have_previous => ~prev_key.valid
    /\ fast # "key" => ~prev_key.valid
    /\ prev_key.valid => prev_key = KeyIn(previous)

IInv == Types /\ WhileReading /\ WhileProcessing /\ KeyIsKept

LEMMA BytesThere ==
  ASSUME NEW g \in Files
  PROVE  /\ All(g) \in Seq(Nat) /\ Len(All(g)) \in Nat /\ Len(g) \in Nat
         /\ Ends(g) \in [0 .. Len(g) -> Nat] /\ Ends(g)[0] = 0
         /\ Ends(g)[Len(g)] = Len(All(g))
         /\ Len(g) > 0 => Len(All(g)) > 0 /\ All(g)[Len(All(g))] = Delim
<1>1. Laid(g, Len(g), Ends(g), All(g)) /\ Len(g) \in Nat
  BY FileLaid
<1>2. /\ All(g) \in Seq(Nat) /\ Len(All(g)) \in Nat
      /\ Ends(g) \in [0 .. Len(g) -> Nat] /\ Ends(g)[0] = 0
      /\ Ends(g)[Len(g)] = Len(All(g))
  BY <1>1 DEF Laid
<1>3. ASSUME Len(g) > 0 PROVE Len(All(g)) > 0 /\ All(g)[Len(All(g))] = Delim
  <2>1. Len(g) \in 1 .. Len(g) /\ Len(g) - 1 \in 0 .. Len(g)
    BY <1>1, <1>3
  <2>2. /\ Ends(g)[Len(g)] = Ends(g)[Len(g) - 1] + Len(g[Len(g)]) + 1
        /\ All(g)[Ends(g)[Len(g)]] = Delim
    BY <1>1, <2>1, Zenon DEF Laid
  <2>3. Ends(g)[Len(g) - 1] \in Nat
    BY <1>2, <2>1
  <2>5. g[Len(g)] \in Seq(Nat)
    BY <2>1, FileLaid
  <2>6. Len(g[Len(g)]) \in Nat
    BY <2>5
  <2>4. Ends(g)[Len(g)] > 0
    BY <2>2, <2>3, <2>6
  <2> QED BY <1>2, <2>2, <2>4
<1> QED BY <1>1, <1>2, <1>3

\* No record but the last ends where the bytes end; and an input that ends
\* there, or before the delimiter of a last record that is not empty, holds no
\* more records.
LEMMA OnlyLastEnds ==
  ASSUME NEW g \in Files, NEW n \in 0 .. Len(g), EndsAt(g, Ends(g)[n])
  PROVE  n = Len(g)
<1>1. /\ Len(All(g)) \in Nat /\ Len(g) \in Nat /\ Ends(g) \in [0 .. Len(g) -> Nat]
      /\ Ends(g)[Len(g)] = Len(All(g)) /\ n \in Nat /\ Ends(g)[n] \in Nat
  BY BytesThere
<1>2. SUFFICES ASSUME n < Len(g) PROVE FALSE
  BY <1>1
<1>3. n + 1 \in 1 .. Len(g) /\ (n + 1) - 1 = n /\ n + 1 \in 0 .. Len(g)
  BY <1>1, <1>2
<1>4. Laid(g, Len(g), Ends(g), All(g)) /\ g[n + 1] \in Seq(Nat)
  BY <1>3, FileLaid
<1>5. Ends(g)[n + 1] = Ends(g)[n] + Len(g[n + 1]) + 1 /\ Ends(g)[n + 1] <= Ends(g)[Len(g)]
  BY <1>3, <1>4, Zenon DEF Laid
<1>6. Len(g[n + 1]) \in Nat /\ Ends(g)[n + 1] \in Nat
  BY <1>1, <1>3, <1>4
<1>7. Ends(g)[n] = Len(All(g)) - 1 /\ g[Len(g)] # <<>>
  BY <1>1, <1>5, <1>6 DEF EndsAt
<1>8. Len(g[n + 1]) = 0
  BY <1>1, <1>5, <1>6, <1>7
<1>9. n + 1 < Len(g)
  BY <1>1, <1>3, <1>4, <1>7, <1>8
<1>10. n + 2 \in 1 .. Len(g) /\ (n + 2) - 1 = n + 1 /\ n + 2 \in 0 .. Len(g)
  BY <1>1, <1>9
<1>11. Ends(g)[n + 2] = Ends(g)[n + 1] + Len(g[n + 2]) + 1 /\ Ends(g)[n + 2] <= Ends(g)[Len(g)]
  BY <1>10, <1>4, Zenon DEF Laid
<1>12. Len(g[n + 2]) \in Nat /\ Ends(g)[n + 2] \in Nat
  <2>1. g[n + 2] \in Seq(Nat)
    BY <1>10, FileLaid
  <2> QED BY <1>1, <1>10, <2>1
<1>13. Ends(g)[n + 1] = Len(All(g))
  BY <1>1, <1>5, <1>6, <1>7, <1>8
<1>14. Len(All(g)) + Len(g[n + 2]) + 1 <= Len(All(g))
  BY <1>1, <1>11, <1>13
<1> QED BY <1>1, <1>12, <1>14

LEMMA StillWithin ==
  ASSUME NEW a \in Nat, NEW b \in Nat, NEW c \in Nat, NEW d \in Nat, NEW f \in Nat,
         a + c + d <= f, b <= c
  PROVE  a + b <= f
  OBVIOUS

LEMMA Emptied ==
  ASSUME NEW buf \in Buffer
  PROVE  LET emptied == [buf EXCEPT !.data = <<>>]
         IN  emptied \in Buffer /\ emptied.data = <<>> /\ emptied.cap = buf.cap
<1>1. buf = [data |-> buf.data, cap |-> buf.cap, moved |-> buf.moved] /\ buf.cap \in Nat /\ buf.moved \in Nat
  BY DEF Buffer
<1>2. [buf EXCEPT !.data = <<>>] = [data |-> <<>>, cap |-> buf.cap, moved |-> buf.moved]
  BY <1>1
<1>3. [data |-> <<>>, cap |-> buf.cap, moved |-> buf.moved] \in Buffer
  BY <1>1 DEF Buffer
<1> QED BY <1>2, <1>3

LEMMA InitHolds == Init => IInv
<1> SUFFICES ASSUME Init PROVE IInv
  OBVIOUS
<1>2. given \in Files /\ number = 0 /\ CurrentData = <<>> /\ chunk = <<>> /\ ~have_previous /\ ~eof
  BY DEF Init, CurrentData, Current
<1>3. Bit(given, unread, 0) /\ EndsAt(given, Len(unread))
  <2>1. PICK open_end \in BOOLEAN :
          /\ open_end => given # <<>> /\ given[Len(given)] # <<>>
          /\ unread = Bytes(given, open_end)
    BY DEF Init
  <2>2. All(given) \in Seq(Nat) /\ Len(All(given)) \in Nat /\ Len(given) \in Nat
    BY <1>2, BytesThere
  <2>3. CASE ~open_end
    <3>1. unread = All(given)
      BY <2>1, <2>3 DEF All
    <3> QED BY <2>2, <3>1 DEF Bit, EndsAt
  <2>4. CASE open_end
    <3>1. unread = SubSeq(All(given), 1, Len(All(given)) - 1)
      BY <2>1, <2>4 DEF All, Bytes, Front
    <3>2. given \in Seq(Records) /\ given # <<>>
      BY <1>2, <2>1, <2>4, ConstantsAssumption
    <3>3. Len(given) > 0
      BY <3>2
    <3>4. Len(All(given)) > 0
      BY <1>2, <3>3, BytesThere
    <3>5. Bit(given, All(given), 0)
      BY <2>2 DEF Bit
    <3> DEFINE k == Len(All(given)) - 1
    <3>6. k \in Nat /\ 0 + 1 <= k + 1 /\ k <= Len(All(given)) /\ 0 + 1 = 1 /\ k - 0 = k /\ 0 + 0 = 0
      BY <2>2, <3>4
    <3> HIDE DEF k
    <3>7. Bit(given, SubSeq(All(given), 0 + 1, k), 0 + 0) /\ Len(SubSeq(All(given), 0 + 1, k)) = k - 0
      BY <3>5, <3>6, BitSub
    <3>8. Bit(given, unread, 0) /\ Len(unread) = k
      BY <3>1, <3>6, <3>7 DEF k
    <3>9. k = Len(All(given)) - 1
      BY DEF k
    <3> QED BY <2>1, <2>4, <3>3, <3>8, <3>9 DEF EndsAt
  <2> QED BY <2>3, <2>4
<1>1. Types
  <2>1. /\ buffers \in [1 .. 2 -> Buffer]
        /\ \A b \in 1 .. 2 : Len(buffers[b].data) <= buffers[b].cap
    <3>1. buffers = [b \in 1 .. 2 |-> [data |-> <<>>, cap |-> 0, moved |-> 0]]
      BY DEF Init
    <3>2. [data |-> <<>>, cap |-> 0, moved |-> 0] \in Buffer /\ Len(<<>>) = 0
      BY DEF Buffer
    <3> QED BY <3>1, <3>2
  <2>2. unread \in Seq(Nat) /\ <<>> \in Seq(Nat)
    BY <1>3 DEF Bit
  <2>3. prev_key.valid = FALSE
    BY DEF Init, NoKey
  <2>4. /\ pc = "open" /\ options \in Options /\ given \in Files /\ fast = options.engine
        /\ chunk = <<>> /\ eof = FALSE /\ previous = 1 /\ number = 0 /\ have_previous = FALSE
        /\ status = "success"
    BY DEF Init
  <2>5. previous \in 1 .. 2 /\ number \in Nat
    BY <2>4
  <2> QED BY <2>1, <2>2, <2>3, <2>4, <2>5, Zenon DEF Types
<1>4. Bit(given, <<>>, 0)
  BY DEF Bit
<1>5. WhileReading
  <2>1. Ends(given)[number] = 0 /\ Len(given) \in Nat
    BY <1>2, BytesThere
  <2>2. Ahead(given, 0, <<>>, unread)
    <3>1. Len(unread) \in Nat /\ Len(<<>>) = 0 /\ 0 + 0 = 0 /\ 0 + 0 + Len(unread) = Len(unread)
      BY <1>3 DEF Bit
    <3> QED BY <1>3, <1>4, <3>1 DEF Ahead
  <2> QED BY <1>2, <1>4, <2>1, <2>2 DEF WhileReading
<1>6. WhileProcessing /\ KeyIsKept
  BY DEF Init, WhileProcessing, KeyIsKept, NoKey
<1> QED BY <1>1, <1>5, <1>6 DEF IInv

LEMMA NextHolds == IInv /\ [Next]_vars => IInv'
<1> SUFFICES ASSUME IInv, [Next]_vars PROVE IInv'
  OBVIOUS
<1> USE DEF IInv
<1>0. Types /\ WhileReading /\ WhileProcessing /\ KeyIsKept
  OBVIOUS
<1>00. Current \in 1 .. 2 /\ Current # previous /\ previous \in 1 .. 2
  BY DEF Types, Current
<1>1. CASE OpenInput
  BY <1>1 DEF OpenInput, Types, WhileReading, WhileProcessing, KeyIsKept, KeyIn,
         CurrentData, Current, input_vars, record_vars
<1>2. CASE ReadChunk
  <2>1. PICK n \in Reads : /\ n <= Len(unread)
                           /\ chunk' = SubSeq(unread, 1, n)
                           /\ unread' = SubSeq(unread, n + 1, Len(unread))
    BY <1>2 DEF ReadChunk
  <2>2. /\ pc = "read" /\ pc' = "scan"
        /\ UNCHANGED <<options, given, fast, eof, buffers, previous, number,
                       have_previous, prev_key, status>>
    BY <1>2 DEF ReadChunk, input_vars, record_vars
  <2> DEFINE o == Ends(given)[number] + Len(CurrentData)
  <2>11. /\ Ahead(given, o, chunk, unread) /\ chunk = <<>> /\ given \in Files
         /\ number \in 0 .. Len(given) /\ Len(CurrentData) \in Nat
    BY <2>2, FileLaid DEF WhileReading, Types, Bit
  <2>3. /\ Ahead(given, o, chunk, unread) /\ chunk = <<>> /\ o \in Nat
    BY <2>11, BytesThere
  <2> HIDE DEF o
  <2>4. Len(chunk) = 0 /\ o + 0 = o /\ unread \in Seq(Nat) /\ Len(unread) \in Nat /\ n \in Nat
    BY <2>3, ConstantsAssumption DEF Types
  <2>5. Bit(given, unread, o)
    BY <2>3, <2>4 DEF Ahead
  <2>6. Bit(given, chunk', o) /\ Len(chunk') = n
    <3>1. 0 \in Nat /\ n \in Nat /\ 0 + 1 <= n + 1 /\ n <= Len(unread) /\ 0 + 1 = 1 /\ n - 0 = n
      BY <2>1, <2>4
    <3>2. Bit(given, SubSeq(unread, 0 + 1, n), o + 0) /\ Len(SubSeq(unread, 0 + 1, n)) = n - 0
      BY <2>3, <2>5, <3>1, BitSub
    <3> QED BY <2>1, <2>4, <3>1, <3>2
  <2>7. Bit(given, unread', o + n) /\ Len(unread') = Len(unread) - n
    <3>1. n + 1 <= Len(unread) + 1 /\ Len(unread) <= Len(unread)
      BY <2>1, <2>4
    <3>2. /\ Bit(given, SubSeq(unread, n + 1, Len(unread)), o + n)
          /\ Len(SubSeq(unread, n + 1, Len(unread))) = Len(unread) - n
      BY <2>3, <2>4, <2>5, <3>1, BitSub
    <3> QED BY <2>1, <3>2
  <2>8. Ahead(given, o, chunk', unread')
    <3>1. o + n + (Len(unread) - n) = o + 0 + Len(unread)
      BY <2>3, <2>4
    <3> QED BY <2>3, <2>4, <2>6, <2>7, <3>1 DEF Ahead
  <2>9. WhileReading'
    BY <2>2, <2>8 DEF WhileReading, CurrentData, Current, o
  <2>10. Types'
    BY <2>2, <2>6, <2>7 DEF Types, Bit
  <2> QED BY <2>2, <2>9, <2>10 DEF WhileProcessing, KeyIsKept, KeyIn
<1>3. CASE ReadFails
  BY <1>3 DEF ReadFails, Types, WhileReading, WhileProcessing, KeyIsKept, KeyIn,
         CurrentData, Current, input_vars, record_vars
<1>4. CASE ReadEof
  <2>1. /\ pc = "read" /\ unread = <<>> /\ eof' = TRUE
        /\ IF CurrentData # <<>> THEN pc' = "process" /\ number' = number + 1
                                 ELSE pc' = "close" /\ UNCHANGED number
        /\ UNCHANGED <<options, given, fast, unread, chunk, status, buffers, previous,
                       have_previous, prev_key>>
    BY <1>4 DEF ReadEof, CurrentData, input_vars
  <2>2. Types'
    BY <2>1 DEF Types
  <2>3. WhileReading' /\ KeyIsKept'
    BY <2>1 DEF WhileReading, KeyIsKept, KeyIn
  <2>4. CASE CurrentData = <<>>
    BY <2>1, <2>2, <2>3, <2>4 DEF WhileProcessing
  <2>5. CASE CurrentData # <<>>
    <3> DEFINE cur == CurrentData
               o == Ends(given)[number]
    <3>1. /\ given \in Files /\ number \in 0 .. Len(given) /\ Bit(given, cur, o)
          /\ \A j \in 1 .. Len(cur) : cur[j] # Delim
          /\ Ahead(given, o + Len(cur), chunk, unread) /\ chunk = <<>> /\ unread = <<>>
          /\ cur \in Seq(Nat) /\ Len(cur) \in Nat /\ o \in Nat
      <4>1. given \in Files /\ number \in Nat
        BY DEF Types
      <4>2. number <= Len(given) /\ Bit(given, cur, o) /\ Ahead(given, o + Len(cur), chunk, unread)
            /\ chunk = <<>> /\ \A j \in 1 .. Len(cur) : cur[j] # Delim
        BY <2>1, Zenon DEF WhileReading
      <4>3. unread = <<>>
        BY <2>1
      <4>4. cur \in Seq(Nat) /\ Len(cur) \in Nat
        <5> HIDE DEF cur, o
        <5> QED BY <4>2 DEF Bit
      <4>5. number \in 0 .. Len(given)
        BY <4>1, <4>2, BytesThere
      <4>6. o \in Nat
        BY <4>1, <4>5, BytesThere
      <4> HIDE DEF cur, o
      <4> QED BY <4>1, <4>2, <4>3, <4>4, <4>5, <4>6
    <3> HIDE DEF o, cur
    <3>2. o + Len(cur) \in {Len(All(given)) - 1, Len(All(given))} /\ Len(All(given)) \in Nat
      <4>1. Len(<<>>) = 0 /\ o + Len(cur) + 0 + 0 = o + Len(cur)
        BY <3>1
      <4>2. EndsAt(given, o + Len(cur))
        BY <3>1, <4>1 DEF Ahead
      <4> QED BY <3>1, <4>2, BytesThere DEF EndsAt
    <3>3. Len(cur) > 0
      BY <3>1, <2>5 DEF cur
    <3>4. Len(given) > 0
      <4> SUFFICES ASSUME Len(given) = 0 PROVE FALSE
        BY <3>1, BytesThere
      <4>1. o = Len(All(given))
        BY <3>1, BytesThere DEF o
      <4> QED BY <3>1, <3>2, <3>3, <4>1
    <3>5. All(given)[Len(All(given))] = Delim
      BY <3>1, <3>4, BytesThere
    <3>6. o + Len(cur) # Len(All(given))
      <4> SUFFICES ASSUME o + Len(cur) = Len(All(given)) PROVE FALSE
        OBVIOUS
      <4>1. Len(cur) \in 1 .. Len(cur)
        BY <3>1, <3>3
      <4>2. cur[Len(cur)] = All(given)[o + Len(cur)] /\ cur[Len(cur)] # Delim
        BY <3>1, <4>1 DEF Bit
      <4> QED BY <3>5, <4>2
    <3>7. o + Len(cur) + 1 = Len(All(given))
      BY <3>1, <3>2, <3>6
    <3>8. /\ number + 1 \in 1 .. Len(given) /\ cur = given[number + 1]
          /\ Ends(given)[number + 1] = o + Len(cur) + 1
      <4>1. All(given)[o + Len(cur) + 1] = Delim /\ o + Len(cur) + 1 <= Len(All(given))
        BY <3>2, <3>5, <3>7
      <4> QED BY <3>1, <3>2, <4>1, RecordRead DEF o
    <3>13. number + 1 = Len(given)
      <4>1. number + 1 \in 0 .. Len(given) /\ Ends(given)[number + 1] = Len(All(given))
        BY <3>1, <3>7, <3>8, BytesThere
      <4>2. EndsAt(given, Ends(given)[number + 1])
        BY <4>1 DEF EndsAt
      <4> QED BY <3>1, <4>1, <4>2, OnlyLastEnds
    <3>9. (number + 1) - 1 = number /\ (number + 1 > 1 <=> number > 0)
      BY DEF Types
    <3>10. have_previous = (number > 0) /\ (have_previous => buffers[previous].data = given[number])
      BY <2>1 DEF WhileReading, Types
    <3>11. number' = number + 1 /\ pc' = "process" /\ CurrentData' = cur
      BY <2>1, <2>5 DEF CurrentData, Current, cur
    <3>12. WhileProcessing'
      BY <2>1, <3>8, <3>9, <3>10, <3>11, <3>13 DEF WhileProcessing
    <3> QED BY <2>2, <2>3, <3>12
  <2> QED BY <2>4, <2>5
<1>5. CASE Scan
  <2> DEFINE hits == {i \in DOMAIN chunk : chunk[i] = Delim}
             take == IF hits = {} THEN Len(chunk) ELSE Min(hits) - 1
             cur == CurrentData
             e == Ends(given)[number]
             piece == SubSeq(chunk, 1, take)
             longer == cur \o piece
  <2>1. /\ pc = "scan"
        /\ buffers' = [buffers EXCEPT ![Current] = Appended(@, piece)]
        /\ IF hits = {}
           THEN chunk' = <<>> /\ UNCHANGED <<pc, number>>
           ELSE chunk' = SubSeq(chunk, take + 2, Len(chunk)) /\ number' = number + 1 /\ pc' = "process"
        /\ UNCHANGED <<options, given, fast, unread, eof, previous, have_previous, prev_key, status>>
    BY <1>5 DEF Scan, input_vars
  <2>2. /\ given \in Files /\ number \in 0 .. Len(given) /\ Bit(given, cur, e)
        /\ \A j \in 1 .. Len(cur) : cur[j] # Delim
        /\ Ahead(given, e + Len(cur), chunk, unread) /\ ~eof
        /\ (have_previous <=> number > 0)
        /\ (have_previous => buffers[previous].data = given[number])
    BY <2>1, FileLaid DEF WhileReading, Types
  <2>3. /\ chunk \in Seq(Nat) /\ Len(chunk) \in Nat /\ unread \in Seq(Nat) /\ Len(unread) \in Nat
        /\ DOMAIN chunk = 1 .. Len(chunk)
        /\ cur \in Seq(Nat) /\ Len(cur) \in Nat /\ number \in Nat
    BY <2>2 DEF Types, Bit
  <2>4. e \in Nat /\ Len(All(given)) \in Nat
    BY <2>2, BytesThere
  <2>5. /\ take \in Nat /\ take <= Len(chunk) /\ \A j \in 1 .. take : chunk[j] # Delim
        /\ hits # {} => take + 1 <= Len(chunk) /\ chunk[take + 1] = Delim
    <3>1. CASE hits = {}
      <4>1. \A j \in DOMAIN chunk : chunk[j] # Delim
        BY <3>1
      <4>2. take = Len(chunk)
        BY <3>1
      <4>3. ~ hits # {}
        BY <3>1
      <4> HIDE DEF hits, take
      <4>4. Len(chunk) \in Nat /\ Len(chunk) <= Len(chunk)
        BY <2>3
      <4>5. \A j \in 1 .. Len(chunk) : chunk[j] # Delim
        BY <4>1, <2>3, Zenon
      <4> QED BY <4>2, <4>3, <4>4, <4>5, Zenon
    <3>2. CASE hits # {}
      <4>1. hits \subseteq Nat /\ \A i \in hits : i \in 1 .. Len(chunk)
        BY <2>3
      <4>2. PICK m \in hits : \A y \in hits : m <= y
        BY <3>2, <4>1, LeastNumber
      <4> HIDE DEF hits
      <4>3. Min(hits) \in hits /\ \A y \in hits : Min(hits) <= y
        BY <4>2, Zenon DEF Min
      <4>4. take = Min(hits) - 1 /\ Min(hits) \in 1 .. Len(chunk)
        BY <3>2, <4>1, <4>3
      <4>5. chunk[Min(hits)] = Delim
        BY <4>3 DEF hits
      <4>6. ASSUME NEW j \in 1 .. take PROVE chunk[j] # Delim
        <5>1. j \in 1 .. Len(chunk) /\ ~(Min(hits) <= j)
          BY <4>4, <2>3
        <5>2. j \notin hits
          BY <4>3, <5>1
        <5> QED BY <5>1, <5>2, <2>3 DEF hits
      <4>7. take + 1 = Min(hits)
        BY <4>4
      <4> QED BY <2>3, <3>2, <4>4, <4>5, <4>6, <4>7
    <3> QED BY <3>1, <3>2
  <2> HIDE DEF hits, take, cur, e
  <2>6. Bit(given, chunk, e + Len(cur)) /\ e + Len(cur) \in Nat
    BY <2>2, <2>3, <2>4 DEF Ahead
  <2>7. /\ Bit(given, piece, e + Len(cur)) /\ Len(piece) = take
        /\ \A j \in 1 .. take : piece[j] = chunk[j]
    <3>1. 0 \in Nat /\ 0 + 1 <= take + 1 /\ 0 + 1 = 1 /\ take - 0 = take /\ (e + Len(cur)) + 0 = e + Len(cur)
      BY <2>5, <2>6
    <3>2. /\ Bit(given, SubSeq(chunk, 0 + 1, take), (e + Len(cur)) + 0)
          /\ Len(SubSeq(chunk, 0 + 1, take)) = take - 0
          /\ \A j \in 1 .. take - 0 : SubSeq(chunk, 0 + 1, take)[j] = chunk[0 + j]
      <4>1. take \in Nat /\ take <= Len(chunk)
        BY <2>5
      <4> QED BY <4>1, <2>6, <3>1, BitSub
    <3>3. \A j \in 1 .. take : 0 + j = j
      OBVIOUS
    <3> QED BY <3>1, <3>2, <3>3
  <2> HIDE DEF piece
  <2>8. Bit(given, longer, e) /\ Len(longer) = Len(cur) + take
    BY <2>2, <2>4, <2>7, BitJoin
  <2>9. \A j \in 1 .. Len(longer) : longer[j] # Delim
    <3>1. piece \in Seq(Nat)
      BY <2>7 DEF Bit
    <3>2. /\ \A p \in 1 .. Len(cur) : longer[p] = cur[p]
          /\ \A p \in 1 .. take : longer[Len(cur) + p] = piece[p]
      BY <2>3, <2>7, <3>1, Joined
    <3> TAKE j \in 1 .. Len(longer)
    <3>3. CASE j <= Len(cur)
      <4>1. j \in 1 .. Len(cur)
        BY <2>3, <2>5, <2>8, <3>3
      <4> QED BY <2>2, <3>2, <4>1
    <3>4. CASE ~ j <= Len(cur)
      <4>1. j - Len(cur) \in 1 .. take /\ Len(cur) + (j - Len(cur)) = j
        BY <2>3, <2>5, <2>8, <3>4
      <4>2. longer[j] = piece[j - Len(cur)]
        BY <3>2, <4>1
      <4> QED BY <2>5, <2>7, <4>1, <4>2
    <3> QED BY <3>3, <3>4
  <2>10. /\ buffers' \in [1 .. 2 -> Buffer]
         /\ \A b \in 1 .. 2 : Len(buffers'[b].data) <= buffers'[b].cap
         /\ CurrentData' = longer /\ buffers'[previous] = buffers[previous]
    <3>1. buffers[Current] \in Buffer /\ Len(buffers[Current].data) <= buffers[Current].cap
      BY <1>00 DEF Types
    <3>2. piece \in Seq(Nat)
      BY <2>7 DEF Bit
    <3> DEFINE new == Appended(buffers[Current], piece)
    <3>3. new \in Buffer /\ new.data = longer /\ Len(new.data) <= new.cap
      BY <3>1, <3>2, AppendedFits DEF cur, CurrentData
    <3> HIDE DEF new
    <3>4. buffers' = [buffers EXCEPT ![Current] = new]
      BY <2>1 DEF new
    <3>5. Current' = Current /\ CurrentData' = buffers'[Current'].data
      BY <2>1 DEF Current, CurrentData
    <3> QED BY <3>3, <3>4, <3>5, <1>00 DEF Types
  <2> HIDE DEF longer
  <2>11. KeyIsKept'
    <3>1. KeyIn(previous)' = KeyIn(previous)
      BY <2>1, <2>10 DEF KeyIn
    <3> QED BY <2>1, <3>1 DEF KeyIsKept
  <2>12. CASE hits = {}
    <3>1. chunk' = <<>> /\ pc' = "scan" /\ number' = number /\ take = Len(chunk)
      BY <2>1, <2>12 DEF take
    <3>2. Types'
      BY <2>1, <2>10, <3>1 DEF Types
    <3> DEFINE p == e + Len(longer)
    <3>3. p = e + Len(cur) + Len(chunk) /\ p \in Nat
      BY <2>3, <2>4, <2>8, <3>1
    <3>4. Bit(given, unread, p) /\ EndsAt(given, p + Len(unread))
      BY <2>2, <3>3 DEF Ahead
    <3> HIDE DEF p
    <3>5. Ahead(given, p, <<>>, unread)
      <4>1. Len(<<>>) = 0 /\ p + 0 = p /\ p + 0 + Len(unread) = p + Len(unread) /\ Bit(given, <<>>, p)
        BY <2>3, <3>3 DEF Bit
      <4> QED BY <3>4, <4>1 DEF Ahead
    <3>6. number <= Len(given)
      BY <2>2
    <3>7. WhileReading'
      BY <2>1, <2>2, <2>8, <2>9, <2>10, <3>1, <3>5, <3>6 DEF WhileReading, e, p
    <3> QED BY <2>11, <3>1, <3>2, <3>7 DEF WhileProcessing
  <2>13. CASE hits # {}
    <3>1. chunk' = SubSeq(chunk, take + 2, Len(chunk)) /\ pc' = "process" /\ number' = number + 1
      BY <2>1, <2>13
    <3>2. take + 1 <= Len(chunk) /\ chunk[take + 1] = Delim
      BY <2>5, <2>13
    <3> DEFINE p == e + Len(longer) + 1
    <3>3. p = (e + Len(cur)) + (take + 1) /\ p \in Nat
      BY <2>3, <2>4, <2>5, <2>8
    <3>4. p <= Len(All(given))
      <4>1. e + Len(cur) + Len(chunk) + Len(unread) <= Len(All(given))
        BY <2>2, <2>4 DEF Ahead, EndsAt
      <4>3. /\ e + Len(cur) \in Nat /\ take + 1 \in Nat /\ Len(chunk) \in Nat /\ Len(unread) \in Nat
            /\ Len(All(given)) \in Nat
        BY <2>3, <2>4, <2>5
      <4>4. (e + Len(cur)) + (take + 1) <= Len(All(given))
        BY <3>2, <4>1, <4>3, StillWithin
      <4> QED BY <3>3, <4>4
    <3>5. All(given)[p] = Delim
      <4>1. take + 1 \in 1 .. Len(chunk)
        BY <2>5, <3>2
      <4>2. chunk[take + 1] = All(given)[(e + Len(cur)) + (take + 1)]
        BY <2>6, <4>1 DEF Bit
      <4> QED BY <3>2, <3>3, <4>2
    <3>6. /\ number + 1 \in 1 .. Len(given) /\ longer = given[number + 1]
          /\ Ends(given)[number + 1] = p
      BY <2>2, <2>8, <2>9, <3>4, <3>5, RecordRead DEF e
    <3> HIDE DEF p
    <3>7. Bit(given, chunk', p) /\ Len(chunk') = Len(chunk) - (take + 1)
      <4>1. /\ take + 1 \in Nat /\ (take + 1) + 1 = take + 2 /\ take + 2 <= Len(chunk) + 1
            /\ Len(chunk) <= Len(chunk)
        BY <2>3, <2>5, <3>2
      <4>2. /\ Bit(given, SubSeq(chunk, (take + 1) + 1, Len(chunk)), (e + Len(cur)) + (take + 1))
            /\ Len(SubSeq(chunk, (take + 1) + 1, Len(chunk))) = Len(chunk) - (take + 1)
        BY <2>3, <2>6, <4>1, BitSub
      <4> QED BY <3>1, <3>3, <4>1, <4>2
    <3>8. Ahead(given, p, chunk', unread')
      <4>1. p + (Len(chunk) - (take + 1)) = e + Len(cur) + Len(chunk)
        BY <2>3, <2>4, <2>5, <3>3
      <4> QED BY <2>1, <2>2, <3>7, <4>1 DEF Ahead
    <3>9. (number + 1) - 1 = number /\ (number + 1 > 1 <=> number > 0)
      BY <2>3
    <3>10. WhileProcessing'
      BY <2>1, <2>2, <2>10, <3>1, <3>6, <3>8, <3>9 DEF WhileProcessing
    <3>11. chunk' \in Seq(Nat) /\ number + 1 \in Nat
      BY <2>3, <3>7 DEF Bit
    <3>12. Types'
      BY <2>1, <2>10, <3>1, <3>11 DEF Types
    <3> QED BY <2>11, <3>1, <3>10, <3>12 DEF WhileReading
  <2> QED BY <2>12, <2>13
<1>6. CASE ScanDone
  BY <1>6 DEF ScanDone, Types, WhileReading, WhileProcessing, KeyIsKept, KeyIn,
         CurrentData, Current, input_vars, record_vars
<1>7. CASE Process
  <2>1. /\ pc = "process"
        /\ prev_key' = IF fast = "key" /\ have_previous THEN KeyIn(Current) ELSE prev_key
        /\ UNCHANGED <<options, given, fast, unread, chunk, eof, number>>
    BY <1>7 DEF Process, input_vars
  <2>2. KeyIn(Current).valid = TRUE /\ prev_key'.valid \in BOOLEAN
    BY <2>1 DEF KeyIn, Types
  <2>3. CASE have_previous /\ Disordered(Kept)
    <3>1. status' = "disorder" /\ pc' = "close" /\ UNCHANGED <<buffers, previous, have_previous>>
      BY <1>7, <2>3 DEF Process
    <3> QED BY <2>1, <2>2, <3>1 DEF Types, WhileReading, WhileProcessing, KeyIsKept
  <2>4. CASE ~(have_previous /\ Disordered(Kept))
    <3>1. /\ previous' = Current /\ have_previous' = TRUE /\ status' = status
          /\ buffers' = [buffers EXCEPT ![previous].data = <<>>]
          /\ pc' = IF eof THEN "close" ELSE "scan"
      BY <1>7, <2>4 DEF Process
    <3>2. /\ buffers' \in [1 .. 2 -> Buffer]
          /\ buffers'[Current] = buffers[Current]
          /\ buffers'[previous].data = <<>> /\ buffers'[previous].cap = buffers[previous].cap
      <4> DEFINE emptied == [buffers[previous] EXCEPT !.data = <<>>]
      <4>1. buffers' = [buffers EXCEPT ![previous] = emptied]
        BY <3>1
      <4>2. buffers \in [1 .. 2 -> Buffer] /\ buffers[previous] \in Buffer
        BY <1>00 DEF Types
      <4>3. emptied \in Buffer /\ emptied.data = <<>> /\ emptied.cap = buffers[previous].cap
        BY <4>2, Emptied
      <4> HIDE DEF emptied
      <4> QED BY <1>00, <4>1, <4>2, <4>3
    <3>3. \A b \in 1 .. 2 : Len(buffers'[b].data) <= buffers'[b].cap
      <4>1. \A b \in 1 .. 2 : b = Current \/ b = previous
        BY <1>00 DEF Current
      <4>2. Len(<<>>) = 0 /\ 0 <= buffers[previous].cap
        BY <1>00 DEF Types, Buffer
      <4>3. Len(buffers[Current].data) <= buffers[Current].cap
        BY <1>00 DEF Types
      <4> QED BY <3>2, <4>1, <4>2, <4>3
    <3>4. Types'
      BY <1>00, <2>1, <2>2, <3>1, <3>2, <3>3 DEF Types
    <3>5. Current' = previous /\ CurrentData' = <<>>
      BY <1>00, <3>1, <3>2 DEF Current, CurrentData
    <3>6. KeyIn(previous)' = KeyIn(Current)
      BY <3>1, <3>2 DEF KeyIn
    <3>7. KeyIsKept'
      <4>1. ~have_previous \/ fast # "key" => ~prev_key.valid
        BY <2>1 DEF KeyIsKept
      <4> QED BY <2>1, <3>1, <3>6, <4>1 DEF KeyIsKept
    <3>8. CASE eof
      BY <3>1, <3>4, <3>8 DEF WhileReading, WhileProcessing, KeyIsKept
    <3>9. CASE ~eof
      <4>1. /\ number \in 1 .. Len(given) /\ CurrentData = given[number] /\ given \in Files
            /\ Ahead(given, Ends(given)[number], chunk, unread)
        BY <2>1, <3>9 DEF WhileProcessing, Types
      <4>2. number \in 0 .. Len(given) /\ number > 0 /\ number <= Len(given)
        BY <4>1, FileLaid
      <4>3. Ends(given)[number] \in Nat
        BY <4>1, <4>2, BytesThere
      <4>4. Len(<<>>) = 0 /\ Ends(given)[number] + 0 = Ends(given)[number]
        BY <4>3
      <4>5. Bit(given, <<>>, Ends(given)[number])
        BY DEF Bit
      <4>6. \A j \in 1 .. Len(<<>>) : <<>>[j] # Delim
        OBVIOUS
      <4>7. buffers'[previous'].data = given[number]
        BY <3>1, <3>2, <4>1 DEF CurrentData
      <4>8. WhileReading'
        BY <2>1, <3>1, <3>5, <3>9, <4>1, <4>2, <4>4, <4>5, <4>6, <4>7 DEF WhileReading
      <4> QED BY <3>1, <3>4, <3>7, <3>9, <4>8 DEF WhileProcessing
    <3> QED BY <3>8, <3>9
  <2> QED BY <2>3, <2>4
<1>8. CASE Close
  BY <1>8 DEF Close, Types, WhileReading, WhileProcessing, KeyIsKept, KeyIn,
         CurrentData, Current, input_vars, record_vars
<1>9. CASE UNCHANGED vars
  BY <1>9 DEF vars, Types, WhileReading, WhileProcessing, KeyIsKept, KeyIn,
         CurrentData, Current
<1> QED BY <1>1, <1>2, <1>3, <1>4, <1>5, <1>6, <1>7, <1>8, <1>9 DEF Next

\* Every variable has its type, and a buffer that check_record_append has
\* doubled has room for what it holds.
THEOREM TypeCorrect == Spec => []TypeOK
<1>1. IInv => TypeOK
  BY DEF IInv, Types, TypeOK
<1> QED BY <1>1, InitHolds, NextHolds, PTL DEF Spec

\* The record before is record number of the input, complete, and the key
\* that is kept with it is its key, at the address its buffer has now:
\* wherever chunks end and whichever buffer moves (check_process_record).
THEOREM KeptKeyIsPreviousCorrect == Spec => []KeptKeyIsPrevious
<1>1. IInv => KeptKeyIsPrevious
  BY DEF IInv, WhileReading, WhileProcessing, KeyIsKept, KeptKeyIsPrevious
<1> QED BY <1>1, InitHolds, NextHolds, PTL DEF Spec

-----------------------------------------------------------------------------
(***************************************************************************)
(* The order of a sort with these options                                  *)
(***************************************************************************)

KeyOf(r) == Slice(r, KeySpan(r))

LEMMA KeyTyped ==
  ASSUME NEW r \in Text
  PROVE  KeyOf(r) \in Text
<1> DEFINE seps == {i \in DOMAIN r : r[i] = Separator}
           nth == {i \in seps : Cardinality({j \in seps : j <= i}) = Field - 1}
           start == IF Field = 1 THEN 0 ELSE Min(nth \cup {Len(r)})
           ends == {i \in start .. Len(r) : i = Len(r) \/ i + 1 \in seps}
<1>1. Len(r) \in Nat /\ DOMAIN r = 1 .. Len(r)
  BY DEF Text
<1>2. start \in Nat /\ start <= Len(r)
  <2>1. nth \cup {Len(r)} \in SUBSET Nat /\ nth \cup {Len(r)} # {} /\ Len(r) \in nth \cup {Len(r)}
    BY <1>1
  <2>2. Min(nth \cup {Len(r)}) \in Nat /\ Min(nth \cup {Len(r)}) <= Len(r)
    <3> HIDE DEF nth
    <3> QED BY <2>1, MinIs
  <2> QED BY <1>1, <2>2
<1> HIDE DEF start, seps
<1>3. ends \in SUBSET Nat /\ Len(r) \in ends /\ \A i \in ends : start <= i /\ i <= Len(r)
  <2>1. Len(r) \in start .. Len(r) /\ \A i \in start .. Len(r) : i \in Nat /\ start <= i /\ i <= Len(r)
    BY <1>1, <1>2
  <2>2. ends \subseteq start .. Len(r)
    OBVIOUS
  <2>3. Len(r) \in ends
    BY <2>1
  <2> HIDE DEF ends
  <2> QED BY <2>1, <2>2, <2>3
<1> HIDE DEF ends
<1>4. Min(ends) \in Nat /\ start <= Min(ends) /\ Min(ends) <= Len(r)
  BY <1>3, MinIs
<1>5. KeyOf(r) = SubSeq(r, start + 1, Min(ends))
  BY DEF KeyOf, Slice, KeySpan, start, seps, ends
<1>6. SubSeq(r, start + 1, Min(ends)) \in Seq(Nat)
  BY <1>2, <1>4 DEF Text
<1> QED BY <1>5, <1>6 DEF Text

ByKey(a, b) ==
  IF options.key_reverse THEN BytesLess(KeyOf(b), KeyOf(a)) ELSE BytesLess(KeyOf(a), KeyOf(b))
ByLine(a, b) == IF options.reverse THEN BytesLess(b, a) ELSE BytesLess(a, b)

\* Whole lines decide between records with one key.
LastResort == ~options.stable /\ ~options.unique

\* Records that a sort cannot tell apart.
Alike(a, b) ==
  IF options.engine = "bytes" THEN a = b
  ELSE KeyOf(a) = KeyOf(b) /\ (LastResort => a = b)

LEMMA LessIs ==
  ASSUME NEW a, NEW b
  PROVE  Less(a, b) <=> IF options.engine = "bytes" THEN ByLine(a, b)
                        ELSE ByKey(a, b) \/ (KeyOf(a) = KeyOf(b) /\ LastResort /\ ByLine(a, b))
BY Zenon DEF Less, ByKey, ByLine, LastResort, KeyOf

\* Keys and lines are each in a total order.
LEMMA KeysAndLines ==
  ASSUME NEW a \in Text, NEW b \in Text, NEW c \in Text
  PROVE  /\ ~ByLine(a, a) /\ (ByLine(a, b) \/ ByLine(b, a) \/ a = b)
         /\ ByLine(a, b) /\ ByLine(b, c) => ByLine(a, c)
         /\ ~ByKey(a, a) /\ (ByKey(a, b) \/ ByKey(b, a) \/ KeyOf(a) = KeyOf(b))
         /\ ByKey(a, b) /\ ByKey(b, c) => ByKey(a, c)
         /\ KeyOf(a) = KeyOf(b) => (ByKey(a, c) <=> ByKey(b, c)) /\ (ByKey(c, a) <=> ByKey(c, b))
<1>1. KeyOf(a) \in Text /\ KeyOf(b) \in Text /\ KeyOf(c) \in Text
  BY KeyTyped
<1>2. /\ ~ByLine(a, a) /\ (ByLine(a, b) \/ ByLine(b, a) \/ a = b)
      /\ ByLine(a, b) /\ ByLine(b, c) => ByLine(a, c)
  BY BytesIrreflexive, BytesTotal, BytesTransitive DEF ByLine
<1>3. /\ ~ByKey(a, a) /\ (ByKey(a, b) \/ ByKey(b, a) \/ KeyOf(a) = KeyOf(b))
      /\ ByKey(a, b) /\ ByKey(b, c) => ByKey(a, c)
  BY <1>1, BytesIrreflexive, BytesTotal, BytesTransitive DEF ByKey
<1>4. KeyOf(a) = KeyOf(b) => (ByKey(a, c) <=> ByKey(b, c)) /\ (ByKey(c, a) <=> ByKey(c, b))
  BY Zenon DEF ByKey
<1> QED BY <1>2, <1>3, <1>4

\* Of two records one comes first or they are alike.
LEMMA LessOrders ==
  ASSUME NEW a \in Text, NEW b \in Text, NEW c \in Text
  PROVE  /\ ~Less(a, a) /\ ~(Less(a, b) /\ Less(b, a))
         /\ Less(a, b) \/ Less(b, a) \/ Alike(a, b)
         /\ Less(a, b) /\ Less(b, c) => Less(a, c)
         /\ Alike(a, b) => /\ ~Less(a, b) /\ ~Less(b, a)
                           /\ Less(c, a) <=> Less(c, b)
<1> DEFINE K(x, y) == ByKey(x, y)
           L(x, y) == ByLine(x, y)
<1>1. CASE options.engine = "bytes"
  <2>1. (Less(a, b) <=> L(a, b)) /\ (Less(b, a) <=> L(b, a)) /\ (Less(b, c) <=> L(b, c))
        /\ (Less(a, c) <=> L(a, c)) /\ (Less(a, a) <=> L(a, a)) /\ (Less(c, a) <=> L(c, a))
        /\ (Less(c, b) <=> L(c, b)) /\ (Alike(a, b) <=> a = b)
    BY <1>1, LessIs DEF Alike
  <2>2. /\ ~L(a, a) /\ (L(a, b) \/ L(b, a) \/ a = b)
        /\ L(a, b) /\ L(b, c) => L(a, c)
        /\ L(a, b) /\ L(b, a) => L(a, a)
    BY KeysAndLines
  <2> QED BY <2>1, <2>2
<1>2. CASE options.engine # "bytes" /\ LastResort
  <2> DEFINE S(x, y) == ByKey(x, y) \/ (KeyOf(x) = KeyOf(y) /\ ByLine(x, y))
  <2>1. (Less(a, b) <=> S(a, b)) /\ (Less(b, a) <=> S(b, a)) /\ (Less(b, c) <=> S(b, c))
        /\ (Less(a, c) <=> S(a, c)) /\ (Less(a, a) <=> S(a, a)) /\ (Less(c, a) <=> S(c, a))
        /\ (Less(c, b) <=> S(c, b)) /\ (Alike(a, b) <=> a = b)
    BY <1>2, LessIs DEF Alike
  <2>2. ~L(a, a) /\ ~K(a, a)
    BY KeysAndLines
  <2>3. S(a, b) \/ S(b, a) \/ a = b
    BY KeysAndLines
  <2>4. ASSUME NEW x \in Text, NEW y \in Text, NEW z \in Text, S(x, y), S(y, z) PROVE S(x, z)
    <3>1. /\ ByLine(x, y) /\ ByLine(y, z) => ByLine(x, z)
          /\ ByKey(x, y) /\ ByKey(y, z) => ByKey(x, z)
          /\ KeyOf(x) = KeyOf(y) => (ByKey(x, z) <=> ByKey(y, z))
      BY KeysAndLines
    <3>2. KeyOf(y) = KeyOf(z) => (ByKey(x, y) <=> ByKey(x, z))
      BY KeysAndLines
    <3> QED BY <2>4, <3>1, <3>2
  <2>5. S(a, b) /\ S(b, c) => S(a, c)
    BY <2>4
  <2>6. S(a, b) /\ S(b, a) => S(a, a)
    BY <2>4
  <2>7. ~S(a, a)
    BY <2>2
  <2> HIDE DEF S
  <2> QED BY <2>1, <2>3, <2>5, <2>6, <2>7
<1>3. CASE options.engine # "bytes" /\ ~LastResort
  <2>1. (Less(a, b) <=> K(a, b)) /\ (Less(b, a) <=> K(b, a)) /\ (Less(b, c) <=> K(b, c))
        /\ (Less(a, c) <=> K(a, c)) /\ (Less(a, a) <=> K(a, a)) /\ (Less(c, a) <=> K(c, a))
        /\ (Less(c, b) <=> K(c, b)) /\ (Alike(a, b) <=> KeyOf(a) = KeyOf(b))
    BY <1>3, LessIs DEF Alike
  <2>2. /\ ~K(a, a) /\ (K(a, b) \/ K(b, a) \/ KeyOf(a) = KeyOf(b))
        /\ K(a, b) /\ K(b, c) => K(a, c)
        /\ K(a, b) /\ K(b, a) => K(a, a)
        /\ KeyOf(a) = KeyOf(b) => (K(c, a) <=> K(c, b))
    BY KeysAndLines
  <2>3. KeyOf(a) = KeyOf(b) => (K(a, a) <=> K(a, b)) /\ (K(a, a) <=> K(b, a))
    BY KeysAndLines
  <2> HIDE DEF K
  <2> QED BY <2>1, <2>2, <2>3
<1> QED BY <1>1, <1>2, <1>3

\* The comparator ranks the records by that order.
LEMMA RankIs ==
  ASSUME given \in Seq(Text), NEW a \in ToSet(given), NEW b \in ToSet(given)
  PROVE  /\ Comparator[a] \in Nat
         /\ Comparator[a] < Comparator[b] <=> Less(a, b)
         /\ Comparator[a] = Comparator[b] <=> Alike(a, b)
<1> DEFINE T == ToSet(given)
           smaller(r) == {m \in T : Less(m, r)}
<1>1. Len(given) \in Nat /\ DOMAIN given = 1 .. Len(given) /\ T \subseteq Text
  <2>1. \A r \in T : r \in Text
    BY SeqMembers
  <2> QED BY <2>1, SeqMembers
<1>2. IsFiniteSet(T)
  <2>1. given \in Surjection(1 .. Len(given), T)
    <3>1. given \in [1 .. Len(given) -> T] /\ \A r \in T : \E i \in 1 .. Len(given) : given[i] = r
      BY <1>1, SeqMembers DEF ToSet
    <3> QED BY <3>1 DEF Surjection
  <2>2. IsFiniteSet(1 .. Len(given))
    BY <1>1, FS_Interval
  <2> QED BY <2>1, <2>2, FS_Surjection
<1>3. ASSUME NEW r \in T PROVE IsFiniteSet(smaller(r)) /\ Cardinality(smaller(r)) \in Nat
  <2>1. smaller(r) \subseteq T
    OBVIOUS
  <2>2. IsFiniteSet(smaller(r))
    <3> HIDE DEF smaller, T
    <3> QED BY <1>2, <2>1, FS_Subset
  <2> QED BY <2>2, FS_CardinalityType
<1>4. \A r \in T : Comparator[r] = Cardinality(smaller(r))
  BY DEF Comparator
<1>5. ASSUME NEW x \in T, NEW y \in T, Less(x, y)
      PROVE  Comparator[x] < Comparator[y]
  <2>1. smaller(x) \subseteq smaller(y) /\ x \in smaller(y) /\ x \notin smaller(x)
    <3>1. \A m \in T : Less(m, x) => Less(m, y)
      BY <1>1, <1>5, LessOrders
    <3>2. ~Less(x, x)
      BY <1>1, LessOrders
    <3> QED BY <1>5, <3>1, <3>2
  <2>2. smaller(x) # smaller(y)
    BY <2>1
  <2>3. Cardinality(smaller(x)) <= Cardinality(smaller(y))
        /\ Cardinality(smaller(x)) # Cardinality(smaller(y))
    <3>1. IsFiniteSet(smaller(y))
      BY <1>3
    <3> HIDE DEF smaller
    <3> QED BY <2>1, <2>2, <3>1, FS_Subset
  <2>4. Cardinality(smaller(x)) \in Nat /\ Cardinality(smaller(y)) \in Nat
    BY <1>3
  <2> HIDE DEF smaller
  <2> QED BY <1>4, <2>3, <2>4
<1>6. ASSUME Alike(a, b) PROVE Comparator[a] = Comparator[b]
  <2>1. \A m \in T : Less(m, a) <=> Less(m, b)
    BY <1>1, <1>6, LessOrders
  <2>2. smaller(a) = smaller(b)
    BY <2>1
  <2> QED BY <1>4, <2>2
<1>7. Comparator[a] \in Nat /\ Comparator[b] \in Nat
  BY <1>3, <1>4
<1>8. Less(a, b) \/ Less(b, a) \/ Alike(a, b)
  BY <1>1, LessOrders
<1>9. ~(Less(a, b) /\ Less(b, a)) /\ (Alike(a, b) => ~Less(a, b) /\ ~Less(b, a))
  BY <1>1, LessOrders
<1>10. /\ Less(a, b) => Comparator[a] < Comparator[b]
       /\ Less(b, a) => Comparator[b] < Comparator[a]
       /\ Alike(a, b) => Comparator[a] = Comparator[b]
  BY <1>5, <1>6
<1> QED BY <1>7, <1>8, <1>9, <1>10

-----------------------------------------------------------------------------
(***************************************************************************)
(* What a sort leaves as it is                                             *)
(***************************************************************************)

\* Numbers that do not fall from one to the next do not fall at all.
LEMMA NeverFalls ==
  ASSUME NEW n \in Nat, NEW o, \A i \in 1 .. n : o[i] \in Nat,
         \A i \in 1 .. n : i + 1 <= n => o[i] <= o[i + 1],
         NEW i \in 1 .. n, NEW j \in 1 .. n, i <= j
  PROVE  o[i] <= o[j]
<1> DEFINE T == {d \in Nat : i + d <= n => o[i] <= o[i + d]}
<1>1. 0 \in T
  OBVIOUS
<1>2. ASSUME NEW d \in T PROVE d + 1 \in T
  <2> SUFFICES ASSUME i + (d + 1) <= n PROVE o[i] <= o[i + (d + 1)]
    OBVIOUS
  <2>1. d \in Nat /\ i + d <= n /\ o[i] <= o[i + d]
    OBVIOUS
  <2>2. i + d \in 1 .. n /\ (i + d) + 1 \in 1 .. n /\ (i + d) + 1 = i + (d + 1) /\ (i + d) + 1 <= n
    BY <2>1
  <2>3. o[i + d] <= o[(i + d) + 1] /\ o[i + d] \in Nat /\ o[(i + d) + 1] \in Nat /\ o[i] \in Nat
    BY <2>2
  <2>4. \A x, y, z \in Nat : x <= y /\ y <= z => x <= z
    OBVIOUS
  <2> QED BY <2>1, <2>2, <2>3, <2>4
<1>3. \A d \in Nat : d \in T
  <2> HIDE DEF T
  <2> QED BY <1>1, <1>2, AllNumbers DEF T
<1>4. j - i \in Nat /\ i + (j - i) = j /\ j <= n
  OBVIOUS
<1>5. j - i \in T
  BY <1>3, <1>4
<1> QED BY <1>4, <1>5

\* The contract sorts as SortOrder does.
LEMMA ContractSorts ==
  ASSUME NEW s, NEW ord
  PROVE  Contract!Sorted(s, ord) = IF options.unique THEN FirstOfEquals(StableSort(s, ord), ord)
                                                     ELSE StableSort(s, ord)
<1>1. \A ahead : Contract!InTurn(ahead) = InTurn(ahead)
  BY Zenon DEF Contract!InTurn, InTurn, Contract!Cardinality, Cardinality
<1>2. \A r, o : Contract!StableSort(r, o) = StableSort(r, o)
  BY <1>1, ZenonT(60) DEF Contract!StableSort, StableSort
<1>3. \A r, o : Contract!FirstOfEquals(r, o) = FirstOfEquals(r, o)
  BY <1>1, ZenonT(60) DEF Contract!FirstOfEquals, FirstOfEquals
<1> QED BY <1>2, <1>3, Zenon DEF Contract!Sorted

\* A sort leaves records as they are if they do not fall, and with -u if they
\* rise.
LEMMA LeftAlone ==
  ASSUME NEW R, NEW ord, Ranked(R, ord), NEW s \in Seq(R), InPosOrder(s)
  PROVE  Contract!Sorted(s, ord) = s <=>
           \A i \in 1 .. Len(s) : i + 1 <= Len(s) =>
             IF options.unique THEN ord[s[i].key] < ord[s[i + 1].key]
                               ELSE ord[s[i].key] <= ord[s[i + 1].key]
<1> DEFINE o == [i \in 1 .. Len(s) |-> ord[s[i].key]]
           t == StableSort(s, ord)
<1>1. Len(s) \in Nat /\ \A i \in 1 .. Len(s) : o[i] \in Nat /\ o[i] = ord[s[i].key] /\ s[i].pos \in Nat
  BY SeqMembers DEF Ranked
<1>2. t \in Seq(R) /\ ToSet(t) = ToSet(s) /\ InSortOrder(t, ord)
  BY StableSortIs
<1>3. Contract!Sorted(s, ord) = IF options.unique THEN FirstOfEquals(t, ord) ELSE t
  BY ContractSorts, Zenon
<1> HIDE DEF t, o
<1>4. ASSUME \A i \in 1 .. Len(s) : i + 1 <= Len(s) => o[i] <= o[i + 1]
      PROVE  t = s /\ \A i, j \in 1 .. Len(s) : i < j => o[i] <= o[j]
  <2>1. ASSUME NEW i \in 1 .. Len(s), NEW j \in 1 .. Len(s), i < j PROVE o[i] <= o[j]
    <3>1. i <= j
      BY <2>1
    <3> QED BY <1>1, <1>4, <3>1, NeverFalls
  <2>2. InSortOrder(s, ord)
    <3> SUFFICES ASSUME NEW i \in 1 .. Len(s), NEW j \in 1 .. Len(s), i < j
                 PROVE  Sooner(ord, s[i], s[j])
      BY DEF InSortOrder
    <3>1. o[i] <= o[j] /\ o[i] \in Nat /\ o[j] \in Nat
      BY <1>1, <2>1
    <3>2. s[i].pos < s[j].pos
      BY DEF InPosOrder
    <3> QED BY <1>1, <3>1, <3>2 DEF Sooner
  <2> QED BY <1>2, <2>1, <2>2, OrderUnique
<1>5. ASSUME InSortOrder(s, ord), NEW i \in 1 .. Len(s), i + 1 <= Len(s)
      PROVE  o[i] <= o[i + 1]
  <2>1. i + 1 \in 1 .. Len(s) /\ i < i + 1
    BY <1>1, <1>5
  <2>2. Sooner(ord, s[i], s[i + 1])
    BY <1>5, <2>1 DEF InSortOrder
  <2>3. o[i] < o[i + 1] \/ o[i] = o[i + 1]
    BY <1>1, <2>1, <2>2 DEF Sooner
  <2> QED BY <1>1, <2>1, <2>3
<1>6. ASSUME NEW i \in 1 .. Len(s), i + 1 <= Len(s)
      PROVE  o[i] = ord[s[i].key] /\ o[i + 1] = ord[s[i + 1].key] /\ o[i] \in Nat /\ o[i + 1] \in Nat
  BY <1>1, <1>6
<1>7. CASE ~options.unique
  <2>1. Contract!Sorted(s, ord) = t
    BY <1>3, <1>7
  <2>2. t = s <=> \A i \in 1 .. Len(s) : i + 1 <= Len(s) => o[i] <= o[i + 1]
    BY <1>2, <1>4, <1>5
  <2> QED BY <1>6, <1>7, <2>1, <2>2
<1>8. CASE options.unique
  <2> DEFINE u == FirstOfEquals(t, ord)
  <2>1. Contract!Sorted(s, ord) = u
    BY <1>3, <1>8
  <2>2. /\ u \in Seq(R) /\ InSortOrder(u, ord) /\ Rising(u, ord)
        /\ ToSet(u) = Firsts(ToSet(t), ord)
    BY <1>2, FirstOfEqualsSorted
  <2> HIDE DEF u
  <2>3. ASSUME u = s, NEW i \in 1 .. Len(s), i + 1 <= Len(s) PROVE o[i] < o[i + 1]
    <3>1. i + 1 \in 1 .. Len(s) /\ i < i + 1
      BY <1>1, <2>3
    <3> QED BY <1>6, <2>2, <2>3, <3>1 DEF Rising
  <2>4. ASSUME \A i \in 1 .. Len(s) : i + 1 <= Len(s) => o[i] < o[i + 1] PROVE u = s
    <3>1. \A i \in 1 .. Len(s) : i + 1 <= Len(s) => o[i] <= o[i + 1]
      BY <1>6, <2>4
    <3>2. t = s /\ \A i, j \in 1 .. Len(s) : i < j => o[i] <= o[j]
      BY <1>4, <3>1
    <3>3. ASSUME NEW i \in 1 .. Len(s), NEW j \in 1 .. Len(s), i < j PROVE o[i] < o[j]
      <4>1. i + 1 \in 1 .. Len(s) /\ i + 1 <= Len(s) /\ (i + 1 = j \/ i + 1 < j)
        BY <1>1, <3>3
      <4>2. o[i] < o[i + 1] /\ o[i + 1] <= o[j]
        BY <1>1, <2>4, <3>2, <4>1
      <4> QED BY <1>1, <4>1, <4>2
    <3>4. ToSet(s) \subseteq Firsts(ToSet(s), ord)
      <4> SUFFICES ASSUME NEW r \in ToSet(s), NEW q \in ToSet(s), ord[q.key] = ord[r.key]
                   PROVE  r.pos <= q.pos
        BY DEF Firsts
      <4>1. PICK i \in 1 .. Len(s) : s[i] = r
        BY SeqMembers
      <4>2. PICK j \in 1 .. Len(s) : s[j] = q
        BY SeqMembers
      <4>3. o[i] = o[j]
        BY <1>1, <4>1, <4>2
      <4>4. ~(i < j) /\ ~(j < i)
        BY <1>1, <3>3, <4>3
      <4>5. i = j
        BY <4>4
      <4> QED BY <1>1, <4>1, <4>2, <4>5
    <3>5. ToSet(u) = ToSet(s)
      BY <2>2, <3>2, <3>4 DEF Firsts
    <3>6. InSortOrder(s, ord)
      BY <1>2, <3>2
    <3> QED BY <2>2, <3>5, <3>6, OrderUnique
  <2>5. u = s <=> \A i \in 1 .. Len(s) : i + 1 <= Len(s) => o[i] < o[i + 1]
    BY <2>3, <2>4
  <2> QED BY <1>6, <1>8, <2>1, <2>5
<1> QED BY <1>7, <1>8

\* A sort would move b before a, or drop it.
Misplaced(a, b) == Less(b, a) \/ (options.unique /\ Alike(a, b))

\* None of the first n records is out of place after the one before it.
OrderedTo(n) == \A i \in 1 .. n : i + 1 <= n => ~Misplaced(given[i], given[i + 1])

LEMMA InOrderIs ==
  ASSUME given \in Files, NEW n \in 0 .. Len(given)
  PROVE  InOrder(n) <=> OrderedTo(n)
<1> DEFINE R == [key : ToSet(given), pos : Nat]
           s == [i \in 1 .. n |-> [key |-> given[i], pos |-> i]]
<1>1. given \in Seq(Text) /\ Len(given) \in Nat /\ n \in Nat
  <2>1. given \in Seq(Records) /\ Records \subseteq Text
    BY ConstantsAssumption DEF Text
  <2> QED BY <2>1
<1>2. \A i \in 1 .. Len(given) : given[i] \in ToSet(given)
  BY <1>1, SeqMembers
<1>3. s \in Seq(R) /\ Len(s) = n
  <2>1. s \in [1 .. n -> R]
    BY <1>1, <1>2
  <2> QED BY <1>1, <2>1, SeqOfFunction
<1>4. \A i \in 1 .. n : s[i].key = given[i] /\ s[i].pos = i /\ given[i] \in ToSet(given)
  BY <1>1, <1>2
<1>5. Ranked(R, Comparator)
  BY <1>1, RankIs DEF Ranked
<1>6. InOrder(n) <=> Contract!Sorted(s, Comparator) = s
  BY Zenon DEF InOrder
<1> HIDE DEF s, R
<1>7. InPosOrder(s)
  BY <1>3, <1>4 DEF InPosOrder
<1>8. ASSUME NEW i \in 1 .. n, i + 1 <= n
      PROVE  Misplaced(given[i], given[i + 1]) <=>
               ~IF options.unique THEN Comparator[given[i]] < Comparator[given[i + 1]]
                                  ELSE Comparator[given[i]] <= Comparator[given[i + 1]]
  <2>1. i + 1 \in 1 .. n
    BY <1>1, <1>8
  <2> DEFINE a == given[i]
             b == given[i + 1]
  <2>2. a \in ToSet(given) /\ b \in ToSet(given)
    BY <1>4, <2>1
  <2> HIDE DEF a, b
  <2>3. /\ Comparator[a] \in Nat /\ Comparator[b] \in Nat
        /\ Comparator[b] < Comparator[a] <=> Less(b, a)
        /\ Comparator[a] = Comparator[b] <=> Alike(a, b)
    BY <1>1, <2>2, RankIs
  <2>4. Misplaced(a, b) <=> ~IF options.unique THEN Comparator[a] < Comparator[b]
                                               ELSE Comparator[a] <= Comparator[b]
    BY <2>3 DEF Misplaced
  <2> QED BY <2>4 DEF a, b
<1>9. Contract!Sorted(s, Comparator) = s <=>
        \A i \in 1 .. n : i + 1 <= n =>
          IF options.unique THEN Comparator[s[i].key] < Comparator[s[i + 1].key]
                            ELSE Comparator[s[i].key] <= Comparator[s[i + 1].key]
  BY <1>3, <1>5, <1>7, LeftAlone
<1>10. \A i \in 1 .. n : i + 1 <= n => s[i].key = given[i] /\ s[i + 1].key = given[i + 1]
  <2>1. \A i \in 1 .. n : i + 1 <= n => i + 1 \in 1 .. n
    BY <1>1
  <2> QED BY <1>4, <2>1
<1>11. Contract!Sorted(s, Comparator) = s <=>
         \A i \in 1 .. n : i + 1 <= n =>
           IF options.unique THEN Comparator[given[i]] < Comparator[given[i + 1]]
                             ELSE Comparator[given[i]] <= Comparator[given[i + 1]]
  BY <1>9, <1>10
<1>12. Contract!Sorted(s, Comparator) = s <=> OrderedTo(n)
  <2> DEFINE Fits(i) == IF options.unique THEN Comparator[given[i]] < Comparator[given[i + 1]]
                                          ELSE Comparator[given[i]] <= Comparator[given[i + 1]]
  <2>1. \A i \in 1 .. n : i + 1 <= n => (~Misplaced(given[i], given[i + 1]) <=> Fits(i))
    BY <1>8
  <2>2. Contract!Sorted(s, Comparator) = s <=> \A i \in 1 .. n : i + 1 <= n => Fits(i)
    BY <1>11
  <2> HIDE DEF Fits
  <2> QED BY <2>1, <2>2 DEF OrderedTo
<1> QED BY <1>6, <1>12

LEMMA DirectedIs ==
  ASSUME NEW a \in Text, NEW b \in Text, NEW r \in BOOLEAN
  PROVE  LET result == Directed(CompareBytes(a, b), r)
         IN  /\ result \in {-1, 0, 1} /\ (result = 0 <=> a = b)
             /\ result > 0 <=> IF r THEN BytesLess(a, b) ELSE BytesLess(b, a)
<1>1. ~BytesLess(a, a) /\ ~BytesLess(b, b) /\ ~(BytesLess(a, b) /\ BytesLess(b, a))
  BY BytesIrreflexive, BytesTransitive
<1>2. \A x \in Int : Directed(x, r) = IF r THEN 0 - x ELSE x
  <2>1. \A x \in Int : -x = 0 - x
    OBVIOUS
  <2> QED BY <2>1, Zenon DEF Directed
<1>3. CASE a = b
  <2>1. CompareBytes(a, b) = 0
    BY <1>1, <1>3 DEF CompareBytes
  <2>2. Directed(CompareBytes(a, b), r) = 0
    BY <1>2, <2>1
  <2> QED BY <1>1, <1>3, <2>2
<1>4. CASE a # b /\ BytesLess(a, b)
  <2>1. CompareBytes(a, b) = -1
    BY <1>4 DEF CompareBytes
  <2>2. Directed(CompareBytes(a, b), r) = IF r THEN 1 ELSE -1
    BY <1>2, <2>1
  <2> QED BY <1>1, <1>4, <2>2
<1>5. CASE a # b /\ ~BytesLess(a, b)
  <2>1. CompareBytes(a, b) = 1 /\ BytesLess(b, a)
    BY <1>5, BytesTotal DEF CompareBytes
  <2>2. Directed(CompareBytes(a, b), r) = IF r THEN -1 ELSE 1
    BY <1>2, <2>1
  <2> QED BY <1>1, <1>5, <2>1, <2>2
<1> QED BY <1>3, <1>4, <1>5

\* The comparison of the code, on lines or keys, finds what is out of place.
LEMMA DisorderIs ==
  ASSUME NEW a \in Text, NEW b \in Text, options \in OptionsType
  PROVE  /\ options.engine = "bytes" => (LinesDisordered(a, b) <=> Misplaced(a, b))
         /\ options.engine # "bytes" =>
              (KeysDisordered(KeyOf(a), KeyOf(b), a, b) <=> Misplaced(a, b))
<1>1. /\ ~ByLine(a, a) /\ (ByLine(a, b) \/ ByLine(b, a) \/ a = b)
      /\ ByLine(a, b) /\ ByLine(b, a) => ByLine(a, a)
      /\ ~ByKey(a, a) /\ (ByKey(a, b) \/ ByKey(b, a) \/ KeyOf(a) = KeyOf(b))
      /\ ByKey(a, b) /\ ByKey(b, a) => ByKey(a, a)
  BY KeysAndLines
<1>2. KeyOf(a) = KeyOf(b) => ~ByKey(b, a) /\ ~ByKey(a, b)
  BY <1>1 DEF ByKey
<1>3. /\ options.reverse \in BOOLEAN /\ options.key_reverse \in BOOLEAN
      /\ options.unique \in BOOLEAN /\ options.stable \in BOOLEAN
  BY DEF OptionsType
<1> DEFINE line == Directed(CompareBytes(a, b), options.reverse)
           key == Directed(CompareBytes(KeyOf(a), KeyOf(b)), options.key_reverse)
<1>4. /\ line \in {-1, 0, 1} /\ (line > 0 <=> ByLine(b, a)) /\ (line = 0 <=> a = b)
  BY <1>3, DirectedIs DEF ByLine
<1>5. /\ key \in {-1, 0, 1} /\ (key > 0 <=> ByKey(b, a)) /\ (key = 0 <=> KeyOf(a) = KeyOf(b))
  <2>1. KeyOf(a) \in Text /\ KeyOf(b) \in Text
    BY KeyTyped
  <2> QED BY <1>3, <2>1, DirectedIs DEF ByKey
<1>6. ASSUME options.engine = "bytes"
      PROVE  LinesDisordered(a, b) <=> Misplaced(a, b)
  <2>1. LinesDisordered(a, b) <=> line > 0 \/ (options.unique /\ line = 0)
    BY Zenon DEF LinesDisordered
  <2>2. Less(b, a) <=> ByLine(b, a)
    BY <1>6, LessIs
  <2>3. Alike(a, b) <=> a = b
    BY <1>6 DEF Alike
  <2> HIDE DEF line, key
  <2> QED BY <1>4, <2>1, <2>2, <2>3 DEF Misplaced
<1>7. ASSUME options.engine # "bytes"
      PROVE  KeysDisordered(KeyOf(a), KeyOf(b), a, b) <=> Misplaced(a, b)
  <2> DEFINE result == IF key = 0 /\ ~(options.stable \/ options.unique) THEN line ELSE key
  <2>1. KeysDisordered(KeyOf(a), KeyOf(b), a, b) <=> result > 0 \/ (options.unique /\ key = 0)
    BY Zenon DEF KeysDisordered
  <2>2. Less(b, a) <=> ByKey(b, a) \/ (KeyOf(b) = KeyOf(a) /\ LastResort /\ ByLine(b, a))
    BY <1>7, LessIs
  <2>3. Alike(a, b) <=> KeyOf(a) = KeyOf(b) /\ (LastResort => a = b)
    BY <1>7 DEF Alike
  <2> HIDE DEF line, key
  <2>4. CASE key = 0 /\ LastResort
    BY <1>2, <1>3, <1>4, <1>5, <2>1, <2>2, <2>3, <2>4 DEF Misplaced, LastResort
  <2>5. CASE key = 0 /\ ~LastResort
    BY <1>2, <1>3, <1>4, <1>5, <2>1, <2>2, <2>3, <2>5 DEF Misplaced, LastResort
  <2>6. CASE key # 0
    BY <1>2, <1>3, <1>4, <1>5, <2>1, <2>2, <2>3, <2>6 DEF Misplaced, LastResort
  <2> QED BY <2>4, <2>5, <2>6
<1> QED BY <1>6, <1>7

-----------------------------------------------------------------------------
(***************************************************************************)
(* The check agrees with the sort                                          *)
(***************************************************************************)

\* The records that were compared are in order, the last one only if no
\* disorder was found.
Compared ==
  /\ pc \in {"open", "read", "scan"} => status = "success" /\ OrderedTo(number)
  /\ pc = "process" => status = "success" /\ OrderedTo(number - 1)
  /\ pc \in {"close", "ended"} =>
       /\ status = "success" => OrderedTo(Len(given))
       /\ status = "disorder" =>
            /\ number \in 2 .. Len(given) /\ OrderedTo(number - 1)
            /\ Misplaced(given[number - 1], given[number])

LEMMA InitCompared == Init => Compared
<1> SUFFICES ASSUME Init PROVE Compared
  OBVIOUS
<1>1. OrderedTo(0)
  BY DEF OrderedTo
<1> QED BY <1>1 DEF Init, Compared

\* The options and the input stay, and with them the order.
LEMMA OrderStays ==
  UNCHANGED <<options, given>> =>
    /\ \A n : OrderedTo(n)' <=> OrderedTo(n)
    /\ \A n : Misplaced(given[n - 1], given[n])' <=> Misplaced(given[n - 1], given[n])
<1> SUFFICES ASSUME UNCHANGED <<options, given>>
             PROVE  /\ \A n : OrderedTo(n)' <=> OrderedTo(n)
                    /\ \A n : Misplaced(given[n - 1], given[n])' <=> Misplaced(given[n - 1], given[n])
  OBVIOUS
<1>1. options' = options /\ given' = given
  OBVIOUS
<1> QED BY <1>1 DEF OrderedTo, Misplaced, Less, Alike, LastResort

LEMMA OrderedFurther ==
  ASSUME NEW n \in Nat, n > 1 => OrderedTo(n - 1) /\ ~Misplaced(given[n - 1], given[n])
  PROVE  OrderedTo(n)
<1> SUFFICES ASSUME NEW i \in 1 .. n, i + 1 <= n PROVE ~Misplaced(given[i], given[i + 1])
  BY DEF OrderedTo
<1>1. n > 1 /\ i \in 1 .. n - 1
  OBVIOUS
<1>2. CASE i = n - 1
  <2>1. i + 1 = n
    BY <1>2
  <2> QED BY <1>1, <1>2, <2>1
<1>3. CASE i # n - 1
  <2>1. i + 1 <= n - 1
    BY <1>3
  <2> QED BY <1>1, <2>1 DEF OrderedTo
<1> QED BY <1>2, <1>3

\* The key that is kept is that of the record before.
LEMMA ProcessFinds ==
  ASSUME IInv, pc = "process", have_previous
  PROVE  Disordered(Kept) <=> Misplaced(given[number - 1], given[number])
<1> DEFINE a == given[number - 1]
           b == given[number]
<1>1. /\ number \in 1 .. Len(given) /\ number > 1 /\ given \in Files
      /\ buffers[previous].data = a /\ buffers[Current].data = b
      /\ options \in OptionsType /\ fast = options.engine
      /\ fast # "key" => ~prev_key.valid
      /\ prev_key.valid => prev_key = KeyIn(previous)
  BY ConstantsAssumption DEF IInv, Types, WhileProcessing, KeyIsKept, CurrentData
<1>2. a \in Text /\ b \in Text
  <2>1. number - 1 \in 1 .. Len(given)
    BY <1>1, FileLaid
  <2> QED BY <1>1, <2>1, FileLaid DEF Text
<1>3. Kept = KeyIn(previous)
  BY <1>1 DEF Kept
<1>4. KeyAt(Kept) = KeyOf(a)
  <2>1. KeyIn(previous).buffer = previous /\ KeyIn(previous).span = KeySpan(buffers[previous].data)
    BY DEF KeyIn
  <2> QED BY <1>1, <1>3, <2>1 DEF KeyAt, KeyOf
<1> HIDE DEF a, b
<1>5. /\ options.engine = "bytes" => (LinesDisordered(a, b) <=> Misplaced(a, b))
      /\ options.engine # "bytes" =>
           (KeysDisordered(KeyOf(a), KeyOf(b), a, b) <=> Misplaced(a, b))
  BY <1>1, <1>2, DisorderIs
<1>6. Disordered(Kept) <=>
        IF fast = "bytes" THEN LinesDisordered(a, b) ELSE KeysDisordered(KeyOf(a), KeyOf(b), a, b)
  <2>1. fast \in {"bytes", "key", "general"}
    BY <1>1 DEF OptionsType
  <2> QED BY <1>1, <1>4, <2>1 DEF Disordered, KeyOf
<1> QED BY <1>1, <1>5, <1>6 DEF a, b

\* At the end of the input all records have been scanned.
LEMMA AllScanned ==
  ASSUME IInv, pc = "read", unread = <<>>, CurrentData = <<>>
  PROVE  number = Len(given)
<1>1. /\ given \in Files /\ number \in Nat /\ number <= Len(given) /\ chunk = <<>>
      /\ Ahead(given, Ends(given)[number] + Len(CurrentData), chunk, unread)
  BY DEF IInv, Types, WhileReading
<1>2. number \in 0 .. Len(given) /\ Ends(given)[number] \in Nat
  <2>1. number \in 0 .. Len(given)
    BY <1>1, BytesThere
  <2> QED BY <1>1, <2>1, BytesThere
<1>3. Ends(given)[number] + Len(CurrentData) + Len(chunk) + Len(unread) = Ends(given)[number]
  <2>1. Len(CurrentData) = 0 /\ Len(chunk) = 0 /\ Len(unread) = 0
    BY <1>1
  <2> QED BY <1>2, <2>1
<1>4. EndsAt(given, Ends(given)[number])
  BY <1>1, <1>3 DEF Ahead
<1> QED BY <1>1, <1>2, <1>4, OnlyLastEnds

LEMMA NextCompared == IInv /\ Compared /\ [Next]_vars => Compared'
<1> SUFFICES ASSUME IInv, Compared, [Next]_vars PROVE Compared'
  OBVIOUS
<1>1. CASE OpenInput
  BY <1>1, OrderStays DEF OpenInput, Compared, input_vars, record_vars
<1>2. CASE ReadChunk
  BY <1>2, OrderStays DEF ReadChunk, Compared, input_vars, record_vars
<1>3. CASE ReadFails
  BY <1>3, OrderStays DEF ReadFails, Compared, input_vars, record_vars
<1>4. CASE ReadEof
  <2>1. /\ pc = "read" /\ unread = <<>> /\ status' = status
        /\ IF CurrentData # <<>> THEN pc' = "process" /\ number' = number + 1
                                 ELSE pc' = "close" /\ number' = number
        /\ UNCHANGED <<options, given>>
    BY <1>4 DEF ReadEof, CurrentData, input_vars
  <2>2. status = "success" /\ OrderedTo(number) /\ number \in Nat
    BY <2>1 DEF Compared, IInv, Types
  <2>3. CASE CurrentData # <<>>
    <3>1. number' - 1 = number
      BY <2>1, <2>2, <2>3
    <3> QED BY <2>1, <2>2, <2>3, <3>1, OrderStays DEF Compared
  <2>4. CASE CurrentData = <<>>
    <3>1. number = Len(given)
      BY <2>1, <2>4, AllScanned
    <3> QED BY <2>1, <2>2, <2>4, <3>1, OrderStays DEF Compared
  <2> QED BY <2>3, <2>4
<1>5. CASE Scan
  <2>1. /\ pc = "scan" /\ status' = status /\ UNCHANGED <<options, given>>
        /\ \/ pc' = pc /\ number' = number
           \/ pc' = "process" /\ number' = number + 1
    BY <1>5 DEF Scan, input_vars
  <2>2. status = "success" /\ OrderedTo(number) /\ number \in Nat
    BY <2>1 DEF Compared, IInv, Types
  <2>3. (number + 1) - 1 = number
    BY <2>2
  <2> QED BY <2>1, <2>2, <2>3, OrderStays DEF Compared
<1>6. CASE ScanDone
  BY <1>6, OrderStays DEF ScanDone, Compared, input_vars, record_vars
<1>7. CASE Process
  <2>1. /\ pc = "process" /\ UNCHANGED <<options, given, number>>
        /\ IF have_previous /\ Disordered(Kept)
           THEN status' = "disorder" /\ pc' = "close"
           ELSE status' = status /\ pc' = IF eof THEN "close" ELSE "scan"
    BY <1>7 DEF Process, input_vars
  <2>2. /\ status = "success" /\ OrderedTo(number - 1) /\ number \in Nat
        /\ number \in 1 .. Len(given) /\ (have_previous <=> number > 1)
        /\ eof => number = Len(given)
    BY <2>1 DEF Compared, IInv, Types, WhileProcessing
  <2>3. CASE have_previous /\ Disordered(Kept)
    <3>1. Misplaced(given[number - 1], given[number]) /\ number \in 2 .. Len(given)
      <4>1. number \in 2 .. Len(given)
        BY <2>2, <2>3
      <4> QED BY <2>1, <2>3, <4>1, ProcessFinds
    <3>2. OrderedTo(number - 1)' /\ Misplaced(given[number - 1], given[number])'
      BY <2>1, <2>2, <3>1, OrderStays
    <3> QED BY <2>1, <2>3, <3>1, <3>2 DEF Compared
  <2>4. CASE ~(have_previous /\ Disordered(Kept))
    <3>1. number > 1 => ~Misplaced(given[number - 1], given[number])
      BY <2>1, <2>2, <2>4, ProcessFinds
    <3>2. OrderedTo(number)
      BY <2>2, <3>1, OrderedFurther
    <3> QED BY <2>1, <2>2, <2>4, <3>2, OrderStays DEF Compared
  <2> QED BY <2>3, <2>4
<1>8. CASE Close
  <2>1. /\ pc = "close" /\ pc' = "ended" /\ UNCHANGED <<options, given, number>>
        /\ status' = status \/ status' = "serious"
    BY <1>8 DEF Close, input_vars, record_vars
  <2>2. Misplaced(given[number - 1], given[number])' <=> Misplaced(given[number - 1], given[number])
    BY <2>1, OrderStays
  <2> QED BY <2>1, <2>2, OrderStays DEF Compared
<1>9. CASE UNCHANGED vars
  BY <1>9, OrderStays DEF vars, Compared
<1> QED BY <1>1, <1>2, <1>3, <1>4, <1>5, <1>6, <1>7, <1>8, <1>9 DEF Next

\* -c and -C accept exactly the inputs that a sort with the same options would
\* leave as they are, and otherwise name the first record that it would move
\* or drop, for inputs of any length, all options and chunks that end anywhere
\* (rank_check_stream and check_records_disordered against rank_sort).
THEOREM AgreesWithSortCorrect == Spec => []AgreesWithSort
<1>1. IInv /\ Compared => AgreesWithSort
  <2> SUFFICES ASSUME IInv, Compared, pc = "ended" PROVE AgreesWithSort
    BY DEF AgreesWithSort
  <2>1. given \in Files /\ Len(given) \in Nat
    BY BytesThere DEF IInv, Types
  <2>2. status = "success" => InOrder(Len(given))
    BY <2>1, InOrderIs DEF Compared
  <2>3. ASSUME status = "disorder" PROVE InOrder(number - 1) /\ ~InOrder(number)
    <3>1. /\ number \in 2 .. Len(given) /\ OrderedTo(number - 1)
          /\ Misplaced(given[number - 1], given[number])
      BY <2>3 DEF Compared
    <3>2. number - 1 \in 0 .. Len(given) /\ number \in 0 .. Len(given)
          /\ number - 1 \in 1 .. number /\ (number - 1) + 1 = number /\ number <= number
      BY <2>1, <3>1
    <3>3. ~OrderedTo(number)
      BY <3>1, <3>2 DEF OrderedTo
    <3> QED BY <2>1, <3>1, <3>2, <3>3, InOrderIs
  <2> QED BY <2>2, <2>3 DEF AgreesWithSort
<1> QED BY <1>1, InitHolds, NextHolds, InitCompared, NextCompared, PTL DEF Spec

=============================================================================
