---------------------------- MODULE SocketProofs ----------------------------
(***************************************************************************)
(* The safety of the socket transport: messages go out and come in whole   *)
(* and in order, waiting output is watched, and references are accounted   *)
(* for, with any number of clients, messages of any lengths, vectors of    *)
(* any shape, and reads and writes that the kernel splits anywhere.        *)
(*                                                                         *)
(* The two streams are concatenations of messages (FlattenSeq) and the     *)
(* lengths of vectors are sums (Upto), both recursive functions.  What     *)
(* they compute is proved by induction, for which the library's theorem    *)
(* that `less than' is well founded on the naturals is enough.             *)
(***************************************************************************)
EXTENDS Socket, FiniteSetTheorems, SequenceTheorems, WellFoundedInduction, TLAPS

-----------------------------------------------------------------------------
(* Induction *)

\* A set of numbers has a first one.
LEMMA First ==
    ASSUME NEW T \in SUBSET Nat, T # {}
    PROVE  \E i \in T : \A j \in T : i <= j
<1> DEFINE R == OpToRel(<, Nat)
<1>1. IsWellFoundedOn(R, Nat)
  BY NatLessThanWellFounded
<1>2. \A x, y \in Nat : x < y => <<x, y>> \in R
  BY DEF OpToRel
<1> HIDE DEF R
<1>3. PICK i \in T : \A j \in T : ~(<<j, i>> \in R)
  BY <1>1, WFMin
<1>4. ASSUME NEW j \in T PROVE i <= j
  <2>1. i \in Nat /\ j \in Nat
    OBVIOUS
  <2>2. ~(j < i)
    BY <2>1, <1>2, <1>3, Zenon
  <2> QED  BY <2>1, <2>2
<1> QED  BY <1>4

\* A set that has 0 and with a number the next has all of them.
LEMMA Induction ==
    ASSUME NEW T, 0 \in T, \A n \in Nat : n \in T => n + 1 \in T
    PROVE  \A n \in Nat : n \in T
<1> SUFFICES ASSUME Nat \ T # {} PROVE FALSE
  OBVIOUS
<1>1. PICK i \in Nat \ T : \A j \in Nat \ T : i <= j
  BY First
<1>2. i # 0 /\ i - 1 \in Nat /\ ~(i <= i - 1) /\ (i - 1) + 1 = i
  BY <1>1
<1>3. i - 1 \in T
  BY <1>1, <1>2
<1> QED  BY <1>1, <1>2, <1>3

-----------------------------------------------------------------------------
(* Lengths of vectors *)

\* Upto adds the elements up.
LEMMA UptoSum ==
    ASSUME NEW vec \in Seq(Nat)
    PROVE  /\ Upto(vec, 0) = 0
           /\ \A j \in 1 .. Len(vec) : Upto(vec, j) = Upto(vec, j - 1) + vec[j]
           /\ \A j \in 0 .. Len(vec) : Upto(vec, j) \in Nat
<1> DEFINE L == Len(vec)
           Sums(n, f) == /\ f \in [0 .. n -> Nat] /\ f[0] = 0
                         /\ \A i \in 1 .. n : f[i] = f[i - 1] + vec[i]
           T == {n \in Nat : n <= L => \E f : Sums(n, f)}
<1>0. L \in Nat /\ \A i \in 1 .. L : vec[i] \in Nat
  OBVIOUS
<1>1. 0 \in T
  <2>1. Sums(0, [i \in 0 .. 0 |-> 0])
    OBVIOUS
  <2> QED  BY <2>1
<1>2. ASSUME NEW n \in Nat, n \in T PROVE n + 1 \in T
  <2> HIDE DEF Sums
  <2> SUFFICES ASSUME n + 1 <= L PROVE \E f : Sums(n + 1, f)
    OBVIOUS
  <2>0. n <= L
    BY <1>0
  <2>1. PICK f : Sums(n, f)
    BY <2>0, <1>2
  <2> USE DEF Sums
  <2> DEFINE g == [i \in 0 .. n + 1 |-> IF i = n + 1 THEN f[n] + vec[n + 1] ELSE f[i]]
  <2>2. n + 1 \in 1 .. L /\ vec[n + 1] \in Nat /\ f[n] \in Nat
    BY <2>1, <1>0
  <2>3. g \in [0 .. n + 1 -> Nat]
    BY <2>1, <2>2
  <2>4. g[0] = 0
    BY <2>1
  <2>5. ASSUME NEW i \in 1 .. n + 1 PROVE g[i] = g[i - 1] + vec[i]
    <3>1. CASE i = n + 1
      BY <3>1
    <3>2. CASE i # n + 1
      <4>1. i \in 1 .. n /\ i - 1 \in 0 .. n + 1 /\ i - 1 # n + 1
        BY <3>2
      <4> QED  BY <4>1, <2>1
    <3> QED  BY <3>1, <3>2
  <2>6. Sums(n + 1, g)
    BY <2>3, <2>4, <2>5
  <2> QED  BY <2>6
<1>3. L \in T
  <2> HIDE DEF T
  <2> QED  BY <1>0, <1>1, <1>2, Induction
<1>4. PICK f : Sums(L, f)
  BY <1>0, <1>3
<1> DEFINE Def(s) == [i \in 0 .. Len(vec) |-> IF i = 0 THEN 0 ELSE s[i - 1] + vec[i]]
           sum == CHOOSE s : s = Def(s)
<1>5. f = Def(f)
  BY <1>0, <1>4
<1>6. sum = Def(sum)
  BY <1>5
<1>7. ASSUME NEW j PROVE Upto(vec, j) = sum[j]
  BY DEF Upto
<1> HIDE DEF sum
<1>8. sum[0] = 0 /\ \A j \in 1 .. L : sum[j] = sum[j - 1] + vec[j]
  <2>1. sum[0] = 0
    BY <1>0, <1>6
  <2>2. ASSUME NEW j \in 1 .. L PROVE sum[j] = sum[j - 1] + vec[j]
    <3>1. j \in 0 .. Len(vec) /\ j # 0
      BY <1>0
    <3>2. Def(sum)[j] = sum[j - 1] + vec[j]
      BY <3>1
    <3> HIDE DEF Def
    <3> QED  BY <3>2, <1>6
  <2> QED  BY <2>1, <2>2
<1>9. \A j \in 0 .. L : sum[j] \in Nat
  <2> DEFINE V == {n \in Nat : n <= L => sum[n] \in Nat}
  <2>1. 0 \in V
    BY <1>8
  <2>2. ASSUME NEW n \in Nat, n \in V PROVE n + 1 \in V
    BY <2>2, <1>0, <1>8, SMTT(40)
  <2>3. \A n \in Nat : n \in V
    <3> HIDE DEF V
    <3> QED  BY <2>1, <2>2, Induction
  <2> QED  BY <2>3, <1>0
<1> QED  BY <1>7, <1>8, <1>9

\* The sums grow.
LEMMA UptoMonotone ==
    ASSUME NEW vec \in Seq(Nat), NEW i \in 0 .. Len(vec), NEW j \in i .. Len(vec)
    PROVE  Upto(vec, i) <= Upto(vec, j)
<1> DEFINE V == {n \in Nat : i + n <= Len(vec) => Upto(vec, i) <= Upto(vec, i + n)}
<1>0. Len(vec) \in Nat /\ \A k \in 1 .. Len(vec) : vec[k] \in Nat
  OBVIOUS
<1>1. 0 \in V
  BY UptoSum
<1>2. ASSUME NEW n \in Nat, n \in V PROVE n + 1 \in V
  <2> SUFFICES ASSUME i + (n + 1) <= Len(vec) PROVE Upto(vec, i) <= Upto(vec, i + (n + 1))
    OBVIOUS
  <2>1. Upto(vec, i) <= Upto(vec, i + n)
    BY <1>0, <1>2
  <2>2. i + (n + 1) \in 1 .. Len(vec) /\ (i + (n + 1)) - 1 = i + n /\ i + n \in 0 .. Len(vec)
    BY <1>0
  <2>3. Upto(vec, i + (n + 1)) = Upto(vec, i + n) + vec[i + (n + 1)]
    BY <2>2, UptoSum
  <2>4. Upto(vec, i) \in Nat /\ Upto(vec, i + n) \in Nat /\ vec[i + (n + 1)] \in Nat
    BY <2>2, <1>0, UptoSum
  <2> QED  BY <2>1, <2>3, <2>4
<1>3. \A n \in Nat : n \in V
  <2> HIDE DEF V
  <2> QED  BY <1>1, <1>2, Induction
<1>4. j - i \in Nat /\ i + (j - i) = j /\ j <= Len(vec)
  BY <1>0
<1> QED  BY <1>3, <1>4

LEMMA TotalType ==
    ASSUME NEW vec \in Seq(Nat)
    PROVE  Total(vec) \in Nat
BY UptoSum DEF Total

\* The elements that are done when n units have moved are the first ones.
LEMMA DoneElements ==
    ASSUME NEW vec \in Seq(Nat), NEW n \in Nat, NEW k,
           k = Cardinality({j \in DOMAIN vec : Upto(vec, j) <= n})
    PROVE  /\ k \in 0 .. Len(vec) /\ Upto(vec, k) <= n
           /\ k < Len(vec) => Upto(vec, k + 1) > n
<1> DEFINE L == Len(vec)
           D == {j \in DOMAIN vec : Upto(vec, j) <= n}
           N == {j \in Nat : j >= 1 /\ j \notin D}
<1>0. L \in Nat /\ DOMAIN vec = 1 .. L
  OBVIOUS
<1>1. L + 1 \in N /\ N \in SUBSET Nat
  BY <1>0
<1>2. PICK m \in N : \A j \in N : m <= j
  <2> HIDE DEF N
  <2> QED  BY <1>1, First
<1>3. m \in Nat /\ m >= 1 /\ m <= L + 1 /\ m \notin D
  BY <1>1, <1>2
<1>4. D = 1 .. m - 1
  <2>1. ASSUME NEW j \in 1 .. m - 1 PROVE j \in D
    <3>1. j \in Nat /\ j >= 1 /\ ~(m <= j)
      BY <1>3
    <3> QED  BY <3>1, <1>2
  <2>2. ASSUME NEW j \in D, ~(j \in 1 .. m - 1) PROVE FALSE
    <3>1. j \in 1 .. L /\ m <= j /\ m \in 1 .. L /\ Upto(vec, j) <= n
      BY <2>2, <1>0, <1>3
    <3>2. Upto(vec, m) <= Upto(vec, j) /\ Upto(vec, m) \in Nat /\ Upto(vec, j) \in Nat
      BY <3>1, <1>0, UptoMonotone, UptoSum
    <3>3. Upto(vec, m) <= n
      BY <3>1, <3>2
    <3> QED  BY <3>1, <3>3, <1>0, <1>3
  <2> QED  BY <2>1, <2>2
<1>5. k = m - 1
  <2>1. Cardinality(1 .. m - 1) = IF 1 > m - 1 THEN 0 ELSE (m - 1) - 1 + 1
    BY <1>3, FS_Interval
  <2>2. k = Cardinality(1 .. m - 1)
    BY <1>4
  <2> HIDE DEF D, N
  <2> QED  BY <2>1, <2>2, <1>3
<1>6. Upto(vec, k) <= n
  <2>1. CASE k = 0
    BY <2>1, UptoSum
  <2>2. CASE k # 0
    <3>1. k \in D
      BY <2>2, <1>3, <1>4, <1>5
    <3> QED  BY <3>1
  <2> QED  BY <2>1, <2>2
<1>7. ASSUME k < L PROVE Upto(vec, k + 1) > n
  <2>1. k + 1 = m /\ m \in 1 .. L
    BY <1>0, <1>3, <1>5, <1>7
  <2>2. ~(Upto(vec, m) <= n) /\ Upto(vec, m) \in Nat
    BY <2>1, <1>0, <1>3, UptoSum
  <2> QED  BY <2>1, <2>2
<1> QED  BY <1>0, <1>3, <1>5, <1>6, <1>7
\* A vector without its first k elements and the first d units of the next one.
Dropped(vec, k, d) == [SubSeq(vec, k + 1, Len(vec)) EXCEPT ![1] = @ - d]

\* It is shorter by as much and begins with the rest of that element.
LEMMA DroppedLemma ==
    ASSUME NEW vec \in Seq(Nat), NEW k \in Nat, k + 1 \in 1 .. Len(vec),
           NEW d \in Nat, NEW a \in Nat \ {0}, vec[k + 1] = a + d
    PROVE  /\ Dropped(vec, k, d) \in Seq(Nat)
           /\ Dropped(vec, k, d) # <<>>
           /\ Dropped(vec, k, d)[1] = a
           /\ Total(Dropped(vec, k, d)) = Total(vec) - (Upto(vec, k) + d)
<1> DEFINE L == Len(vec)
           w == Dropped(vec, k, d)
           s == SubSeq(vec, k + 1, L)
<1>0. L \in Nat /\ (\A i \in 1 .. L : vec[i] \in Nat)
  OBVIOUS
<1>3. k + 1 \in 1 .. L /\ k < L /\ L - k \in Nat /\ 1 <= L - k
  BY <1>0
<1>4. Upto(vec, k) \in Nat /\ Upto(vec, k + 1) \in Nat /\ Upto(vec, k + 1) = Upto(vec, k) + vec[k + 1]
  <2>1. k \in 0 .. L /\ k + 1 \in 0 .. L /\ (k + 1) - 1 = k
    BY <1>0, <1>3
  <2> QED  BY <2>1, <1>3, UptoSum
<1>5. s \in Seq(Nat) /\ Len(s) = L - k /\ \A i \in 1 .. L - k : s[i] = vec[k + i]
  <2>1. \A i \in k + 1 .. L : vec[i] \in Nat
    BY <1>0, <1>3
  <2>2. /\ SubSeq(vec, k + 1, L) \in Seq(Nat)
        /\ Len(SubSeq(vec, k + 1, L)) = IF k + 1 <= L THEN L - (k + 1) + 1 ELSE 0
        /\ \A i \in 1 .. L - (k + 1) + 1 : SubSeq(vec, k + 1, L)[i] = vec[(k + 1) + i - 1]
    BY <2>1, <1>0, <1>3, SubSeqProperties
  <2>3. L - (k + 1) + 1 = L - k /\ \A i \in 1 .. L - k : (k + 1) + i - 1 = k + i
    BY <1>0, <1>3
  <2> QED  BY <2>2, <2>3, <1>0, <1>3, SMTT(40)
<1>s. w = [s EXCEPT ![1] = @ - d]
  BY DEF Dropped
<1> HIDE DEF s, w
<1>7. 1 \in 1 .. Len(s) /\ s[1] = vec[k + 1] /\ Len(s) \in Nat
  BY <1>0, <1>3, <1>5
<1>8. /\ w \in Seq(Nat) /\ Len(w) = L - k /\ w[1] = a
      /\ \A i \in 2 .. L - k : w[i] = vec[k + i]
  <2>1. w = [s EXCEPT ![1] = a]
    BY <1>7, <1>s
  <2>2. w \in Seq(Nat) /\ Len(w) = L - k
    BY <2>1, <1>5, <1>7
  <2>3. w[1] = a
    BY <2>1, <1>5, <1>7
  <2>4. ASSUME NEW i \in 2 .. L - k PROVE w[i] = vec[k + i]
    <3>1. i \in 1 .. Len(s) /\ i # 1 /\ i \in 1 .. L - k
      BY <1>3, <1>5
    <3> QED  BY <3>1, <2>1, <1>5
  <2> QED  BY <2>2, <2>3, <2>4
<1>e. Upto(vec, k) + vec[k + 1] - (Upto(vec, k) + d) = a
  BY <1>4
<1>9. Upto(w, L - k) = Upto(vec, L) - (Upto(vec, k) + d)
  <2> DEFINE n == Upto(vec, k) + d
             V == {j \in Nat : 1 <= j /\ j <= L - k => Upto(w, j) = Upto(vec, k + j) - n}
  <2>0. n \in Nat
    BY <1>4, SMTT(40)
  <2>e. Upto(vec, k + 1) - n = a
    BY <1>e, <1>4
  <2> HIDE DEF n
  <2>1. 0 \in V
    OBVIOUS
  <2>2. ASSUME NEW j \in Nat, j \in V PROVE j + 1 \in V
    <3> SUFFICES ASSUME j + 1 <= L - k PROVE Upto(w, j + 1) = Upto(vec, k + (j + 1)) - n
      OBVIOUS
    <3>1. /\ j + 1 \in 1 .. Len(w) /\ (j + 1) - 1 = j /\ j \in 0 .. Len(w)
          /\ k + (j + 1) \in 1 .. L /\ (k + (j + 1)) - 1 = k + j /\ k + j \in 0 .. L
      BY <1>0, <1>3, <1>8
    <3>2. Upto(w, j + 1) = Upto(w, j) + w[j + 1] /\ Upto(w, j) \in Nat /\ Upto(w, 0) = 0
      BY <3>1, <1>8, UptoSum, ZenonT(40)
    <3>3. /\ Upto(vec, k + (j + 1)) = Upto(vec, k + j) + vec[k + (j + 1)]
          /\ Upto(vec, k + j) \in Nat /\ vec[k + (j + 1)] \in Nat
      BY <3>1, <1>0, UptoSum
    <3>4. CASE j = 0
      <4>1. w[j + 1] = a /\ Upto(w, j) = 0 /\ k + (j + 1) = k + 1
        BY <3>4, <3>2, <1>3, <1>8
      <4> QED  BY <4>1, <3>2, <2>e
    <3>5. CASE j # 0
      <4>1. Upto(w, j) = Upto(vec, k + j) - n
        BY <3>5, <2>2, <1>0, <1>3
      <4>2. w[j + 1] = vec[k + (j + 1)]
        BY <3>5, <1>0, <1>3, <1>8
      <4> QED  BY <4>1, <4>2, <3>2, <3>3, <2>0, SMTT(40)
    <3> QED  BY <3>4, <3>5
  <2>3. \A j \in Nat : j \in V
    <3> HIDE DEF V
    <3> QED  BY <2>1, <2>2, Induction
  <2>4. k + (L - k) = L
    BY <1>0
  <2>5. Upto(w, L - k) = Upto(vec, L) - n
    BY <2>3, <2>4, <1>3
  <2> QED  BY <2>5 DEF n
<1>10. w # <<>>
  BY <1>3, <1>8
<1>11. Total(w) = Total(vec) - (Upto(vec, k) + d)
  BY <1>8, <1>9 DEF Total
<1> QED  BY <1>8, <1>10, <1>11, Zenon DEF w

\* Advance leaves a vector that is shorter by the units that moved and begins with
\* something to write.
LEMMA AdvanceLemma ==
    ASSUME NEW vec \in Seq(Nat), NEW n \in Nat, NEW t \in Nat, t = Total(vec), n < t
    PROVE  LET w == Advance(vec, n)
           IN  w \in Seq(Nat) /\ w # <<>> /\ w[1] > 0 /\ Total(w) = t - n
<1> DEFINE L == Len(vec)
<1>k. PICK k : k = Cardinality({j \in DOMAIN vec : Upto(vec, j) <= n})
  OBVIOUS
<1> DEFINE w(d) == Dropped(vec, k, d)
<1>0. L \in Nat
  OBVIOUS
<1>1. /\ k \in 0 .. L /\ Upto(vec, k) <= n
      /\ k < L => Upto(vec, k + 1) > n
  BY <1>k, DoneElements
<1>2. Advance(vec, n) = IF k = L THEN <<>> ELSE w(n - Upto(vec, k))
  BY <1>k DEF Advance, Dropped
<1>3. k # L
  BY <1>1 DEF Total
<1>4. k \in Nat /\ k < L
  <2>1. k \in 0 .. L
    BY <1>1
  <2> QED  BY <2>1, <1>0, <1>3
<1>5. /\ Upto(vec, k) \in Nat /\ Upto(vec, k + 1) = Upto(vec, k) + vec[k + 1]
      /\ vec[k + 1] \in Nat
  <2>1. k + 1 \in 1 .. L /\ (k + 1) - 1 = k /\ k \in 0 .. L
    BY <1>0, <1>4
  <2>2. vec[k + 1] \in Nat
    BY <2>1
  <2> QED  BY <2>1, <2>2, UptoSum
<1>6. PICK d \in Nat, a \in Nat \ {0} :
        d = n - Upto(vec, k) /\ vec[k + 1] = a + d /\ Upto(vec, k) + d = n
  <2>1. /\ n - Upto(vec, k) \in Nat /\ vec[k + 1] - (n - Upto(vec, k)) \in Nat \ {0}
        /\ vec[k + 1] = (vec[k + 1] - (n - Upto(vec, k))) + (n - Upto(vec, k))
        /\ Upto(vec, k) + (n - Upto(vec, k)) = n
    BY <1>1, <1>4, <1>5, SMTT(40)
  <2> QED  BY <2>1, Zenon
<1>7. /\ w(d) \in Seq(Nat) /\ w(d) # <<>> /\ w(d)[1] = a
      /\ Total(w(d)) = Total(vec) - (Upto(vec, k) + d)
  <2>1. k + 1 \in 1 .. Len(vec)
    BY <1>0, <1>4
  <2> QED  BY <2>1, <1>4, <1>6, DroppedLemma
<1>8. Advance(vec, n) = w(d)
  BY <1>2, <1>3, <1>6
<1> HIDE DEF w
<1> QED  BY <1>6, <1>7, <1>8

-----------------------------------------------------------------------------
(* Streams of messages *)

\* FlattenSeq concatenates one sequence after the other.
LEMMA FlattenSteps ==
    ASSUME NEW S, NEW ss \in Seq(Seq(S)), Len(ss) # 0
    PROVE  \E f \in [1 .. Len(ss) -> Seq(S)] :
              /\ f[1] = ss[1]
              /\ \A i \in 2 .. Len(ss) : f[i] = f[i - 1] \o ss[i]
              /\ FlattenSeq(ss) = f[Len(ss)]
<1> DEFINE L == Len(ss)
           Steps(n, f) == /\ f \in [1 .. n -> Seq(S)]
                          /\ n > 0 => f[1] = ss[1]
                          /\ \A i \in 2 .. n : f[i] = f[i - 1] \o ss[i]
           T == {n \in Nat : n <= L => \E f : Steps(n, f)}
<1>0. L \in Nat /\ L > 0 /\ \A i \in 1 .. L : ss[i] \in Seq(S)
  OBVIOUS
<1>1. 0 \in T
  <2>1. Steps(0, [i \in 1 .. 0 |-> <<>>])
    OBVIOUS
  <2> QED  BY <2>1
<1>2. ASSUME NEW n \in Nat, n \in T PROVE n + 1 \in T
  <2> HIDE DEF Steps
  <2> SUFFICES ASSUME n + 1 <= L PROVE \E f : Steps(n + 1, f)
    OBVIOUS
  <2>0. n <= L
    BY <1>0
  <2>1. PICK f : Steps(n, f)
    BY <2>0, <1>2
  <2> USE DEF Steps
  <2> DEFINE last == IF n = 0 THEN ss[1] ELSE f[n] \o ss[n + 1]
             g == [i \in 1 .. n + 1 |-> IF i = n + 1 THEN last ELSE f[i]]
  <2>2. last \in Seq(S)
    <3>1. CASE n = 0
      BY <3>1, <1>0
    <3>2. CASE n # 0
      <4>1. f[n] \in Seq(S) /\ ss[n + 1] \in Seq(S)
        BY <3>2, <2>1, <1>0
      <4> QED  BY <4>1, <3>2
    <3> QED  BY <3>1, <3>2
  <2>3. g \in [1 .. n + 1 -> Seq(S)]
    <3> HIDE DEF last
    <3> QED  BY <2>1, <2>2
  <2>4. g[1] = ss[1]
    <3>1. CASE n = 0
      BY <3>1
    <3>2. CASE n # 0
      BY <3>2, <2>1
    <3> QED  BY <3>1, <3>2
  <2>5. ASSUME NEW i \in 2 .. n + 1 PROVE g[i] = g[i - 1] \o ss[i]
    <3> HIDE DEF last
    <3>0. i - 1 \in 1 .. n /\ i - 1 \in 1 .. n + 1 /\ i - 1 # n + 1 /\ i \in 1 .. n + 1 /\ n # 0
      OBVIOUS
    <3>1. g[i - 1] = f[i - 1] /\ g[i] = IF i = n + 1 THEN last ELSE f[i]
      BY <3>0
    <3> HIDE DEF g
    <3>2. CASE i = n + 1
      <4>1. i - 1 = n
        BY <3>2
      <4>2. last = f[n] \o ss[n + 1]
        BY <3>0 DEF last
      <4> QED  BY <4>1, <4>2, <3>1, <3>2, Zenon
    <3>3. CASE i # n + 1
      <4>1. i \in 2 .. n
        BY <3>3
      <4>2. f[i] = f[i - 1] \o ss[i]
        BY <4>1, <2>1
      <4> QED  BY <4>2, <3>1, <3>3, Zenon
    <3> QED  BY <3>2, <3>3
  <2> HIDE DEF g
  <2>6. Steps(n + 1, g)
    BY <2>3, <2>4, <2>5
  <2> HIDE DEF Steps
  <2> QED  BY <2>6
<1>3. L \in T
  <2> HIDE DEF T
  <2> QED  BY <1>0, <1>1, <1>2, Induction
<1>4. PICK f : Steps(L, f)
  <2> HIDE DEF Steps
  <2> QED  BY <1>0, <1>3
<1> DEFINE Def(s) == [i \in 1 .. Len(ss) |-> IF i = 1 THEN ss[i] ELSE s[i - 1] \o ss[i]]
           flat == CHOOSE s : s = Def(s)
<1>5. f = Def(f)
  <2>1. ASSUME NEW i \in 1 .. L PROVE f[i] = IF i = 1 THEN ss[i] ELSE f[i - 1] \o ss[i]
    <3>1. CASE i = 1
      BY <3>1, <1>0, <1>4
    <3>2. CASE i # 1
      <4>1. i \in 2 .. L
        BY <3>2, <1>0
      <4> QED  BY <4>1, <3>2, <1>4
    <3> QED  BY <3>1, <3>2
  <2>2. f \in [1 .. L -> Seq(S)]
    BY <1>4
  <2> QED  BY <2>1, <2>2
<1>6. flat = Def(flat)
  BY <1>5, ZenonT(40)
<1>7. FlattenSeq(ss) = flat[Len(ss)]
  BY DEF FlattenSeq
<1> HIDE DEF flat
<1>8. \A j \in 1 .. L : Def(flat)[j] = IF j = 1 THEN ss[j] ELSE flat[j - 1] \o ss[j]
  OBVIOUS
<1>9. DOMAIN Def(flat) = 1 .. L /\ Def(flat) = [j \in 1 .. L |-> Def(flat)[j]]
  OBVIOUS
<1> HIDE DEF Def
<1>10. /\ DOMAIN flat = 1 .. L /\ flat = [j \in 1 .. L |-> flat[j]]
       /\ \A j \in 1 .. L : flat[j] = IF j = 1 THEN ss[j] ELSE flat[j - 1] \o ss[j]
  BY <1>6, <1>8, <1>9, Zenon
<1>11. flat[1] = ss[1] /\ \A j \in 2 .. L : flat[j] = flat[j - 1] \o ss[j]
  <2>1. 1 \in 1 .. L
    BY <1>0
  <2>2. \A j \in 2 .. L : j \in 1 .. L /\ j # 1
    BY <1>0
  <2> QED  BY <2>1, <2>2, <1>10, Zenon
<1>12. \A j \in 1 .. L : flat[j] \in Seq(S)
  <2> DEFINE V == {n \in Nat : 1 <= n /\ n <= L => flat[n] \in Seq(S)}
  <2>1. 0 \in V
    OBVIOUS
  <2>2. ASSUME NEW n \in Nat, n \in V PROVE n + 1 \in V
    <3> SUFFICES ASSUME n + 1 <= L PROVE flat[n + 1] \in Seq(S)
      OBVIOUS
    <3>1. CASE n = 0
      BY <3>1, <1>0, <1>11
    <3>2. CASE n # 0
      <4>1. n + 1 \in 2 .. L /\ (n + 1) - 1 = n /\ 1 <= n /\ n <= L
        BY <3>2, <1>0
      <4>2. flat[n] \in Seq(S) /\ ss[n + 1] \in Seq(S)
        BY <4>1, <2>2, <1>0
      <4>3. flat[n + 1] = flat[n] \o ss[n + 1]
        BY <4>1, <1>11
      <4> QED  BY <4>2, <4>3
    <3> QED  BY <3>1, <3>2
  <2>3. \A n \in Nat : n \in V
    <3> HIDE DEF V
    <3> QED  BY <2>1, <2>2, Induction
  <2> QED  BY <2>3, <1>0
<1>13. flat \in [1 .. L -> Seq(S)]
  BY <1>10, <1>12, Zenon
<1> QED  BY <1>7, <1>11, <1>13

LEMMA FlattenEmpty == FlattenSeq(<<>>) = <<>>
BY DEF FlattenSeq

LEMMA FlattenType ==
    ASSUME NEW S, NEW ss \in Seq(Seq(S))
    PROVE  FlattenSeq(ss) \in Seq(S)
<1>1. CASE Len(ss) = 0
  <2>1. ss = <<>>
    BY <1>1
  <2>2. <<>> \in Seq(S)
    OBVIOUS
  <2> QED  BY <2>1, <2>2, FlattenEmpty, Zenon
<1>2. CASE Len(ss) # 0
  <2>1. Len(ss) \in 1 .. Len(ss)
    BY <1>2
  <2>2. PICK f \in [1 .. Len(ss) -> Seq(S)] : FlattenSeq(ss) = f[Len(ss)]
    BY <1>2, FlattenSteps
  <2>3. f[Len(ss)] \in Seq(S)
    BY <2>1
  <2> QED  BY <2>2, <2>3, Zenon
<1> QED  BY <1>1, <1>2

\* A set that has the empty sequence, and with a sequence what is appended to it, has
\* all of them.
LEMMA SeqInduction ==
    ASSUME NEW S, NEW T, <<>> \in T,
           \A s \in Seq(S), e \in S : s \in T => Append(s, e) \in T
    PROVE  \A s \in Seq(S) : s \in T
<1> DEFINE V == {n \in Nat : \A s \in Seq(S) : Len(s) = n => s \in T}
<1>1. 0 \in V
  <2> SUFFICES ASSUME NEW s \in Seq(S), Len(s) = 0 PROVE s \in T
    OBVIOUS
  <2>1. s = <<>>
    OBVIOUS
  <2> QED  BY <2>1, Zenon
<1>2. ASSUME NEW n \in Nat, n \in V PROVE n + 1 \in V
  <2> SUFFICES ASSUME NEW s \in Seq(S), Len(s) = n + 1 PROVE s \in T
    OBVIOUS
  <2>1. s # <<>>
    OBVIOUS
  <2>2. PICK r \in Seq(S), e \in S : s = Append(r, e)
    BY <2>1, SequenceEmptyOrAppend
  <2>3. Len(r) = n
    <3>1. Len(Append(r, e)) = Len(r) + 1 /\ Len(r) \in Nat
      BY AppendProperties
    <3> QED  BY <3>1, <2>2
  <2>4. r \in T
    BY <2>3, <1>2
  <2> QED  BY <2>2, <2>4, Zenon
<1>3. \A n \in Nat : n \in V
  <2> HIDE DEF V
  <2> QED  BY <1>1, <1>2, Induction
<1>4. ASSUME NEW s \in Seq(S) PROVE s \in T
  <2>1. Len(s) \in Nat
    OBVIOUS
  <2> QED  BY <2>1, <1>3
<1> QED  BY <1>4

LEMMA FlattenAppend ==
    ASSUME NEW S, NEW ss \in Seq(Seq(S)), NEW x \in Seq(S)
    PROVE  FlattenSeq(Append(ss, x)) = FlattenSeq(ss) \o x
<1> DEFINE L == Len(ss)
           tt == Append(ss, x)
<1>0. L \in Nat
  OBVIOUS
<1>1. /\ tt \in Seq(Seq(S)) /\ Len(tt) = L + 1 /\ tt[L + 1] = x
      /\ \A i \in 1 .. L : tt[i] = ss[i]
  BY AppendProperties
<1> HIDE DEF tt
<1>2. Len(tt) # 0
  BY <1>0, <1>1
<1>3. PICK g \in [1 .. Len(tt) -> Seq(S)] :
         /\ g[1] = tt[1]
         /\ \A i \in 2 .. Len(tt) : g[i] = g[i - 1] \o tt[i]
         /\ FlattenSeq(tt) = g[Len(tt)]
  BY <1>1, <1>2, FlattenSteps
<1>4. CASE L = 0
  <2>1. FlattenSeq(tt) = g[1] /\ tt[1] = x
    BY <1>1, <1>3, <1>4
  <2>2. ss = <<>>
    BY <1>4
  <2>3. <<>> \o x = x
    OBVIOUS
  <2> QED  BY <2>1, <2>2, <2>3, <1>3, FlattenEmpty, Zenon DEF tt
<1>5. CASE L # 0
  <2>1. PICK f \in [1 .. L -> Seq(S)] :
           /\ f[1] = ss[1]
           /\ \A i \in 2 .. L : f[i] = f[i - 1] \o ss[i]
           /\ FlattenSeq(ss) = f[L]
    BY <1>5, FlattenSteps
  <2> DEFINE V == {n \in Nat : n + 1 <= L => g[n + 1] = f[n + 1]}
  <2>2. 0 \in V
    <3>1. 1 \in 1 .. L
      BY <1>0, <1>5
    <3>2. 0 + 1 = 1
      OBVIOUS
    <3>3. g[1] = f[1]
      BY <3>1, <2>1, <1>1, <1>3, Zenon
    <3> QED  BY <3>2, <3>3
  <2>3. ASSUME NEW n \in Nat, n \in V PROVE n + 1 \in V
    <3> SUFFICES ASSUME (n + 1) + 1 <= L PROVE g[(n + 1) + 1] = f[(n + 1) + 1]
      OBVIOUS
    <3> DEFINE i == (n + 1) + 1
    <3>1. g[n + 1] = f[n + 1]
      BY <2>3, <1>0
    <3>2. i \in 1 .. L /\ i \in 2 .. L /\ i \in 2 .. Len(tt) /\ i - 1 = n + 1
      BY <1>0, <1>1
    <3> HIDE DEF i
    <3>3. g[i] = g[i - 1] \o tt[i] /\ f[i] = f[i - 1] \o ss[i] /\ tt[i] = ss[i]
      BY <3>2, <1>1, <1>3, <2>1, Zenon
    <3>4. g[i] = f[i]
      BY <3>1, <3>2, <3>3, Zenon
    <3> QED  BY <3>4 DEF i
  <2>4. \A n \in Nat : n \in V
    <3> HIDE DEF V
    <3> QED  BY <2>2, <2>3, Induction
  <2>5. L - 1 \in Nat /\ (L - 1) + 1 = L /\ L <= L /\ L + 1 \in 2 .. Len(tt) /\ (L + 1) - 1 = L
    BY <1>0, <1>1, <1>5
  <2>6. g[L] = f[L]
    BY <2>4, <2>5
  <2>7. g[L + 1] = g[L] \o x
    <3>1. g[L + 1] = g[(L + 1) - 1] \o tt[L + 1]
      BY <2>5, <1>3, Zenon
    <3> QED  BY <3>1, <2>5, <1>1, Zenon
  <2> QED  BY <2>1, <2>6, <2>7, <1>1, <1>3, Zenon DEF tt
<1> QED  BY <1>4, <1>5

LEMMA FlattenConcat ==
    ASSUME NEW S, NEW ss \in Seq(Seq(S)), NEW tt \in Seq(Seq(S))
    PROVE  FlattenSeq(ss \o tt) = FlattenSeq(ss) \o FlattenSeq(tt)
<1> DEFINE T == {uu \in Seq(Seq(S)) : FlattenSeq(ss \o uu) = FlattenSeq(ss) \o FlattenSeq(uu)}
<1>0. FlattenSeq(ss) \in Seq(S)
  BY FlattenType
<1>1. <<>> \in T
  <2>1. <<>> \in Seq(Seq(S)) /\ ss \o <<>> = ss
    BY EmptySeq, ConcatEmptySeq
  <2>2. FlattenSeq(ss) \o <<>> = FlattenSeq(ss)
    BY <1>0, ConcatEmptySeq
  <2>3. FlattenSeq(ss \o <<>>) = FlattenSeq(ss) \o FlattenSeq(<<>>)
    BY <2>1, <2>2, FlattenEmpty, Zenon
  <2> QED  BY <2>1, <2>3, Zenon
<1>2. ASSUME NEW uu \in Seq(Seq(S)), NEW x \in Seq(S), uu \in T PROVE Append(uu, x) \in T
  <2>1. FlattenSeq(ss \o uu) = FlattenSeq(ss) \o FlattenSeq(uu)
    BY <1>2, Zenon
  <2>2. ss \o uu \in Seq(Seq(S)) /\ Append(uu, x) \in Seq(Seq(S)) /\ FlattenSeq(uu) \in Seq(S)
    BY FlattenType, ConcatProperties, AppendProperties
  <2>3. ss \o Append(uu, x) = Append(ss \o uu, x)
    <3>1. <<x>> \in Seq(Seq(S))
      OBVIOUS
    <3>2. Append(uu, x) = uu \o <<x>> /\ Append(ss \o uu, x) = (ss \o uu) \o <<x>>
      BY <2>2, AppendIsConcat
    <3>3. (ss \o uu) \o <<x>> = ss \o (uu \o <<x>>)
      BY <3>1, ConcatAssociative, SMTT(40)
    <3> QED  BY <3>2, <3>3, Zenon
  <2>4. /\ FlattenSeq(Append(ss \o uu, x)) = FlattenSeq(ss \o uu) \o x
        /\ FlattenSeq(Append(uu, x)) = FlattenSeq(uu) \o x
    BY <2>2, FlattenAppend
  <2>5. (FlattenSeq(ss) \o FlattenSeq(uu)) \o x = FlattenSeq(ss) \o (FlattenSeq(uu) \o x)
    <3>1. \A a, b, c \in Seq(S) : (a \o b) \o c = a \o (b \o c)
      BY ConcatAssociative, SMTT(40)
    <3>2. FlattenSeq(ss) \in Seq(S)
      BY <1>0
    <3> QED  BY <2>2, <3>1, <3>2, Zenon
  <2>6. FlattenSeq(ss \o Append(uu, x)) = FlattenSeq(ss) \o FlattenSeq(Append(uu, x))
    BY <2>1, <2>3, <2>4, <2>5, Zenon
  <2> QED  BY <2>2, <2>6, Zenon
<1>3. tt \in T
  <2> HIDE DEF T
  <2> QED  BY <1>1, <1>2, SeqInduction
<1> QED  BY <1>3, Zenon

LEMMA FlattenOne ==
    ASSUME NEW S, NEW x \in Seq(S)
    PROVE  FlattenSeq(<<x>>) = x
<1>1. <<>> \in Seq(Seq(S)) /\ Append(<<>>, x) = <<x>> /\ <<>> \o x = x
  OBVIOUS
<1>2. FlattenSeq(Append(<<>>, x)) = FlattenSeq(<<>>) \o x
  BY <1>1, FlattenAppend
<1> QED  BY <1>1, <1>2, FlattenEmpty, Zenon

\* A sequence is what comes before a place and what comes behind it.
LEMMA Cut ==
    ASSUME NEW S, NEW s \in Seq(S), NEW n \in 0 .. Len(s)
    PROVE  /\ SubSeq(s, 1, n) \in Seq(S) /\ Len(SubSeq(s, 1, n)) = n
           /\ \A i \in 1 .. n : SubSeq(s, 1, n)[i] = s[i]
           /\ SubSeq(s, n + 1, Len(s)) \in Seq(S) /\ Len(SubSeq(s, n + 1, Len(s))) = Len(s) - n
           /\ \A i \in 1 .. Len(s) - n : SubSeq(s, n + 1, Len(s))[i] = s[n + i]
           /\ SubSeq(s, 1, n) \o SubSeq(s, n + 1, Len(s)) = s
<1>0. Len(s) \in Nat /\ n \in Nat /\ n <= Len(s) /\ (\A i \in 1 .. Len(s) : s[i] \in S)
  OBVIOUS
<1>1. /\ \A i \in 1 .. n : s[i] \in S
      /\ \A i \in n + 1 .. Len(s) : s[i] \in S
  BY <1>0
<1>2. /\ SubSeq(s, 1, n) \in Seq(S)
      /\ Len(SubSeq(s, 1, n)) = IF 1 <= n THEN n - 1 + 1 ELSE 0
      /\ \A i \in 1 .. n - 1 + 1 : SubSeq(s, 1, n)[i] = s[1 + i - 1]
  BY <1>0, <1>1, SubSeqProperties
<1>3. /\ SubSeq(s, n + 1, Len(s)) \in Seq(S)
      /\ Len(SubSeq(s, n + 1, Len(s))) = IF n + 1 <= Len(s) THEN Len(s) - (n + 1) + 1 ELSE 0
      /\ \A i \in 1 .. Len(s) - (n + 1) + 1 : SubSeq(s, n + 1, Len(s))[i] = s[(n + 1) + i - 1]
  <2>1. n + 1 \in Int /\ Len(s) \in Int
    BY <1>0
  <2> QED  BY <2>1, <1>1, SubSeqProperties
<1>4. SubSeq(s, 1, n) \o SubSeq(s, n + 1, Len(s)) = s
  <2>1. 1 \in 1 .. Len(s) + 1 /\ n \in 1 - 1 .. Len(s) /\ Len(s) \in n .. Len(s)
    BY <1>0
  <2>2. SubSeq(s, 1, n) \o SubSeq(s, n + 1, Len(s)) = SubSeq(s, 1, Len(s))
    BY <2>1, ConcatAdjacentSubSeq
  <2> QED  BY <2>2, SubSeqFull
<1>5. n - 1 + 1 = n /\ Len(s) - (n + 1) + 1 = Len(s) - n
  BY <1>0
<1>6. \A i \in 1 .. n : 1 + i - 1 = i
  BY <1>0
<1>7. \A i \in 1 .. Len(s) - n : (n + 1) + i - 1 = n + i
  BY <1>0
<1>8. Len(SubSeq(s, 1, n)) = n /\ Len(SubSeq(s, n + 1, Len(s))) = Len(s) - n
  BY <1>0, <1>2, <1>3
<1>9. /\ \A i \in 1 .. n : SubSeq(s, 1, n)[i] = s[i]
      /\ \A i \in 1 .. Len(s) - n : SubSeq(s, n + 1, Len(s))[i] = s[n + i]
  BY <1>2, <1>3, <1>5, <1>6, <1>7, Zenon
<1> QED  BY <1>2, <1>3, <1>4, <1>8, <1>9

\* What is behind the first n of two sequences put together.
LEMMA CutConcat ==
    ASSUME NEW S, NEW a \in Seq(S), NEW b \in Seq(S), NEW n \in 0 .. Len(a)
    PROVE  /\ SubSeq(a \o b, 1, n) = SubSeq(a, 1, n)
           /\ SubSeq(a \o b, n + 1, Len(a \o b)) = SubSeq(a, n + 1, Len(a)) \o b
<1> DEFINE c == a \o b
<1>0. Len(a) \in Nat /\ Len(b) \in Nat /\ n \in Nat /\ n <= Len(a)
  OBVIOUS
<1>1. /\ c \in Seq(S) /\ Len(c) = Len(a) + Len(b)
      /\ \A i \in 1 .. Len(a) + Len(b) : c[i] = IF i <= Len(a) THEN a[i] ELSE b[i - Len(a)]
  BY ConcatProperties
<1> HIDE DEF c
<1>2. n \in 0 .. Len(c) /\ Len(c) \in Nat
  BY <1>0, <1>1
<1>3. /\ SubSeq(c, 1, n) \in Seq(S) /\ Len(SubSeq(c, 1, n)) = n
      /\ \A i \in 1 .. n : SubSeq(c, 1, n)[i] = c[i]
      /\ SubSeq(c, n + 1, Len(c)) \in Seq(S) /\ Len(SubSeq(c, n + 1, Len(c))) = Len(c) - n
      /\ \A i \in 1 .. Len(c) - n : SubSeq(c, n + 1, Len(c))[i] = c[n + i]
  BY <1>1, <1>2, Cut
<1>4. /\ SubSeq(a, 1, n) \in Seq(S) /\ Len(SubSeq(a, 1, n)) = n
      /\ \A i \in 1 .. n : SubSeq(a, 1, n)[i] = a[i]
      /\ SubSeq(a, n + 1, Len(a)) \in Seq(S) /\ Len(SubSeq(a, n + 1, Len(a))) = Len(a) - n
      /\ \A i \in 1 .. Len(a) - n : SubSeq(a, n + 1, Len(a))[i] = a[n + i]
  BY Cut
<1> DEFINE d == SubSeq(a, n + 1, Len(a))
           e == SubSeq(c, n + 1, Len(c))
<1>5. SubSeq(c, 1, n) = SubSeq(a, 1, n)
  <2>1. \A i \in 1 .. n : i \in 1 .. Len(a) + Len(b) /\ i <= Len(a)
    BY <1>0
  <2>2. \A i \in 1 .. n : SubSeq(c, 1, n)[i] = SubSeq(a, 1, n)[i]
    BY <2>1, <1>1, <1>3, <1>4, Zenon
  <2> QED  BY <2>2, <1>3, <1>4, SeqEqual
<1> HIDE DEF d, e
<1>6. /\ d \o b \in Seq(S) /\ Len(d \o b) = Len(d) + Len(b)
      /\ \A i \in 1 .. Len(d) + Len(b) : (d \o b)[i] = IF i <= Len(d) THEN d[i] ELSE b[i - Len(d)]
  BY <1>4, ConcatProperties DEF d
<1>7. /\ e \in Seq(S) /\ Len(e) = Len(a) + Len(b) - n /\ Len(d) = Len(a) - n
      /\ \A i \in 1 .. Len(a) + Len(b) - n : e[i] = c[n + i]
      /\ \A i \in 1 .. Len(a) - n : d[i] = a[n + i]
  <2>1. /\ e \in Seq(S) /\ Len(e) = Len(c) - n
        /\ \A i \in 1 .. Len(c) - n : e[i] = c[n + i]
    BY <1>3, Zenon DEF e
  <2>2. Len(d) = Len(a) - n /\ \A i \in 1 .. Len(a) - n : d[i] = a[n + i]
    BY <1>4, Zenon DEF d
  <2>3. Len(c) - n = Len(a) + Len(b) - n
    BY <1>1
  <2> QED  BY <2>1, <2>2, <2>3, Zenon
<1>8. ASSUME NEW i \in 1 .. Len(e) PROVE e[i] = (d \o b)[i]
  <2>0. i \in Nat /\ i >= 1 /\ i \in 1 .. Len(a) + Len(b) - n /\ i \in 1 .. Len(d) + Len(b) /\ n + i \in 1 .. Len(a) + Len(b)
    BY <1>0, <1>7
  <2>1. /\ e[i] = IF n + i <= Len(a) THEN a[n + i] ELSE b[n + i - Len(a)]
        /\ (d \o b)[i] = IF i <= Len(d) THEN d[i] ELSE b[i - Len(d)]
    <3>1. e[i] = c[n + i]
      BY <2>0, <1>7, Zenon
    <3>2. c[n + i] = IF n + i <= Len(a) THEN a[n + i] ELSE b[n + i - Len(a)]
      <4> DEFINE j == n + i
      <4>1. j \in 1 .. Len(a) + Len(b)
        BY <2>0
      <4> HIDE DEF j
      <4>2. c[j] = IF j <= Len(a) THEN a[j] ELSE b[j - Len(a)]
        BY <4>1, <1>1
      <4> QED  BY <4>2 DEF j
    <3>3. (d \o b)[i] = IF i <= Len(d) THEN d[i] ELSE b[i - Len(d)]
      BY <2>0, <1>6, Zenon
    <3> QED  BY <3>1, <3>2, <3>3, Zenon
  <2>2. CASE i <= Len(d)
    <3>1. i \in 1 .. Len(a) - n /\ n + i <= Len(a)
      BY <2>0, <2>2, <1>0, <1>7
    <3> QED  BY <3>1, <2>1, <2>2, <1>7, Zenon
  <2>3. CASE ~(i <= Len(d))
    <3>1. ~(n + i <= Len(a)) /\ n + i - Len(a) = i - Len(d)
      BY <2>0, <2>3, <1>0, <1>7
    <3> QED  BY <3>1, <2>1, <2>3, Zenon
  <2> QED  BY <2>2, <2>3
<1>9. Len(e) = Len(d \o b)
  BY <1>0, <1>6, <1>7
<1>10. e = d \o b
  BY <1>6, <1>7, <1>8, <1>9, SeqEqual
<1> QED  BY <1>5, <1>10, Zenon DEF c, d, e

\* What is behind the first of two sequences put together.
LEMMA CutFirst ==
    ASSUME NEW S, NEW a \in Seq(S), NEW b \in Seq(S), NEW n \in Nat
    PROVE  SubSeq(a \o b, Len(a) + n + 1, Len(a \o b)) = SubSeq(b, n + 1, Len(b))
<1> DEFINE c == a \o b
           e == SubSeq(c, Len(a) + n + 1, Len(c))
           f == SubSeq(b, n + 1, Len(b))
<1>0. Len(a) \in Nat /\ Len(b) \in Nat /\ \A i \in 1 .. Len(b) : b[i] \in S
  OBVIOUS
<1>1. /\ c \in Seq(S) /\ Len(c) = Len(a) + Len(b)
      /\ \A i \in 1 .. Len(a) + Len(b) : c[i] = IF i <= Len(a) THEN a[i] ELSE b[i - Len(a)]
  BY ConcatProperties
<1> HIDE DEF c
<1>2. \A i \in 1 .. Len(c) : c[i] \in S
  BY <1>1
<1>3. /\ e \in Seq(S)
      /\ Len(e) = IF Len(a) + n + 1 <= Len(c) THEN Len(c) - (Len(a) + n + 1) + 1 ELSE 0
      /\ \A i \in 1 .. Len(c) - (Len(a) + n + 1) + 1 : e[i] = c[(Len(a) + n + 1) + i - 1]
  <2>1. Len(a) + n + 1 \in Int /\ Len(c) \in Int /\ \A i \in Len(a) + n + 1 .. Len(c) : c[i] \in S
    BY <1>0, <1>1, <1>2
  <2> QED  BY <2>1, SubSeqProperties
<1>4. /\ f \in Seq(S)
      /\ Len(f) = IF n + 1 <= Len(b) THEN Len(b) - (n + 1) + 1 ELSE 0
      /\ \A i \in 1 .. Len(b) - (n + 1) + 1 : f[i] = b[(n + 1) + i - 1]
  <2>1. n + 1 \in Int /\ Len(b) \in Int /\ \A i \in n + 1 .. Len(b) : b[i] \in S
    BY <1>0
  <2> QED  BY <2>1, SubSeqProperties
<1> HIDE DEF e, f
<1>5. Len(e) = Len(f) /\ Len(f) \in Nat /\ Len(f) <= Len(b)
  BY <1>0, <1>1, <1>3, <1>4
<1>6. ASSUME NEW i \in 1 .. Len(e) PROVE e[i] = f[i]
  <2> DEFINE j == (Len(a) + n + 1) + i - 1
  <2>1. /\ i \in 1 .. Len(c) - (Len(a) + n + 1) + 1 /\ i \in 1 .. Len(b) - (n + 1) + 1
        /\ j \in 1 .. Len(a) + Len(b) /\ ~(j <= Len(a)) /\ j - Len(a) = (n + 1) + i - 1
    BY <1>0, <1>1, <1>3, <1>4, <1>5, SMTT(40)
  <2>2. e[i] = c[j] /\ f[i] = b[(n + 1) + i - 1]
    BY <2>1, <1>3, <1>4, Zenon
  <2> HIDE DEF j
  <2> QED  BY <2>1, <2>2, <1>1, Zenon
<1>7. e = f
  BY <1>3, <1>4, <1>5, <1>6, SeqEqual
<1> QED  BY <1>7, Zenon DEF c, e, f

LEMMA FlattenCut ==
    ASSUME NEW S, NEW ss \in Seq(Seq(S)), NEW k \in 0 .. Len(ss)
    PROVE  FlattenSeq(ss) = FlattenSeq(SubSeq(ss, 1, k)) \o FlattenSeq(SubSeq(ss, k + 1, Len(ss)))
<1>1. /\ SubSeq(ss, 1, k) \in Seq(Seq(S)) /\ SubSeq(ss, k + 1, Len(ss)) \in Seq(Seq(S))
      /\ SubSeq(ss, 1, k) \o SubSeq(ss, k + 1, Len(ss)) = ss
  BY Cut
<1>2. FlattenSeq(SubSeq(ss, 1, k) \o SubSeq(ss, k + 1, Len(ss)))
         = FlattenSeq(SubSeq(ss, 1, k)) \o FlattenSeq(SubSeq(ss, k + 1, Len(ss)))
  BY <1>1, FlattenConcat
<1> QED  BY <1>1, <1>2, Zenon

\* The concatenation is as long as the lengths add up to.
LEMMA FlattenLength ==
    ASSUME NEW S, NEW ss \in Seq(Seq(S)), NEW lens \in Seq(Nat), Len(lens) = Len(ss),
           \A i \in 1 .. Len(ss) : lens[i] = Len(ss[i])
    PROVE  \A k \in 0 .. Len(ss) : Len(FlattenSeq(SubSeq(ss, 1, k))) = Upto(lens, k)
<1> DEFINE L == Len(ss)
           pre(k) == SubSeq(ss, 1, k)
           V == {k \in Nat : k <= L => Len(FlattenSeq(pre(k))) = Upto(lens, k)}
<1>0. L \in Nat /\ Len(lens) = L
  OBVIOUS
<1>1. 0 \in V
  <2>1. pre(0) = <<>>
    BY SubSeqEmpty
  <2>2. Len(<<>>) = 0 /\ Upto(lens, 0) = 0
    BY UptoSum
  <2> QED  BY <2>1, <2>2, FlattenEmpty, Zenon
<1>2. ASSUME NEW k \in Nat, k \in V PROVE k + 1 \in V
  <2> SUFFICES ASSUME k + 1 <= L PROVE Len(FlattenSeq(pre(k + 1))) = Upto(lens, k + 1)
    OBVIOUS
  <2>1. Len(FlattenSeq(pre(k))) = Upto(lens, k)
    BY <1>0, <1>2
  <2>2. k \in 0 .. L /\ k + 1 \in 1 .. L /\ k + 1 \in k + 1 .. L /\ 1 \in 1 .. L /\ (k + 1) - 1 = k
    BY <1>0
  <2>3. pre(k) \in Seq(Seq(S))
    BY <2>2, Cut
  <2>4. ss[k + 1] \in Seq(S) /\ lens[k + 1] = Len(ss[k + 1])
    BY <2>2
  <2>5. pre(k + 1) = Append(pre(k), ss[k + 1])
    <3>1. pre(k + 1) = SubSeq(ss, 1, (k + 1) - 1) \o <<ss[k + 1]>>
      BY <2>2, SubSeqRecursiveSecond
    <3>2. Append(pre(k), ss[k + 1]) = pre(k) \o <<ss[k + 1]>>
      BY <2>3, <2>4, AppendIsConcat
    <3> QED  BY <3>1, <3>2, <2>2, Zenon
  <2> HIDE DEF pre
  <2>6. FlattenSeq(pre(k + 1)) = FlattenSeq(pre(k)) \o ss[k + 1]
    BY <2>3, <2>4, <2>5, FlattenAppend
  <2>7. FlattenSeq(pre(k)) \in Seq(S)
    BY <2>3, FlattenType
  <2>8. Len(FlattenSeq(pre(k)) \o ss[k + 1]) = Len(FlattenSeq(pre(k))) + Len(ss[k + 1])
    BY <2>4, <2>7, ConcatProperties
  <2>9. Upto(lens, k + 1) = Upto(lens, (k + 1) - 1) + lens[k + 1]
    BY <2>2, <1>0, UptoSum
  <2> QED  BY <2>1, <2>2, <2>4, <2>6, <2>8, <2>9, Zenon
<1>3. \A k \in Nat : k \in V
  <2> HIDE DEF V
  <2> QED  BY <1>1, <1>2, Induction
<1>4. ASSUME NEW k \in 0 .. Len(ss) PROVE Len(FlattenSeq(SubSeq(ss, 1, k))) = Upto(lens, k)
  <2>1. k \in Nat /\ k <= L
    BY <1>0
  <2> QED  BY <2>1, <1>3
<1> QED  BY <1>4

-----------------------------------------------------------------------------
(* The queue of outgoing messages *)

LEMMA TotalCons ==
    ASSUME NEW v \in Seq(Nat), NEW h \in Nat
    PROVE  <<h>> \o v \in Seq(Nat) /\ Total(<<h>> \o v) = h + Total(v)
<1> DEFINE L == Len(v)
           w == <<h>> \o v
<1>0. L \in Nat
  OBVIOUS
<1>1. w \in Seq(Nat) /\ Len(w) = L + 1 /\ w[1] = h /\ \A i \in 1 .. L : w[i + 1] = v[i]
  OBVIOUS
<1> HIDE DEF w
<1> DEFINE V == {j \in Nat : j <= L => Upto(w, j + 1) = h + Upto(v, j)}
<1>2. 0 \in V
  <2>1. 1 \in 1 .. Len(w) /\ 1 - 1 = 0 /\ 0 + 1 = 1
    BY <1>0, <1>1
  <2>2. Upto(w, 1) = Upto(w, 0) + w[1] /\ Upto(w, 0) = 0 /\ Upto(v, 0) = 0
    BY <2>1, <1>1, UptoSum
  <2> QED  BY <2>1, <2>2, <1>1
<1>3. ASSUME NEW j \in Nat, j \in V PROVE j + 1 \in V
  <2> SUFFICES ASSUME j + 1 <= L PROVE Upto(w, (j + 1) + 1) = h + Upto(v, j + 1)
    OBVIOUS
  <2>1. Upto(w, j + 1) = h + Upto(v, j)
    BY <1>0, <1>3
  <2>2. /\ j + 1 \in 1 .. L /\ (j + 1) - 1 = j /\ j \in 0 .. L
        /\ (j + 1) + 1 \in 1 .. Len(w) /\ ((j + 1) + 1) - 1 = j + 1
    BY <1>0, <1>1, SMTT(40)
  <2>3. Upto(v, j + 1) = Upto(v, j) + v[j + 1] /\ Upto(v, j) \in Nat /\ v[j + 1] \in Nat
    BY <2>2, UptoSum, SMTT(40)
  <2>4. Upto(w, (j + 1) + 1) = Upto(w, j + 1) + w[(j + 1) + 1]
    BY <2>2, <1>1, UptoSum
  <2>5. w[(j + 1) + 1] = v[j + 1]
    BY <2>2, <1>1
  <2> QED  BY <2>1, <2>3, <2>4, <2>5
<1>4. \A j \in Nat : j \in V
  <2> HIDE DEF V
  <2> QED  BY <1>2, <1>3, Induction
<1>5. Upto(w, L + 1) = h + Upto(v, L)
  BY <1>0, <1>4
<1>6. Total(w) = h + Total(v)
  BY <1>1, <1>5, Zenon DEF Total
<1> QED  BY <1>1, <1>6, Zenon DEF w

UnitSet == Nat \X Nat \X Int

LEMMA UnitsAssociative == \A a, b, c \in Seq(UnitSet) : (a \o b) \o c = a \o (b \o c)
BY ConcatAssociative

\* A range of units: what the lemmas need to know of its parameters.
Span(c, m, lo, hi) == c \in Nat /\ m \in Nat /\ lo \in Int /\ hi \in Int /\ hi - lo \in Nat

LEMMA UnitsLength ==
    \A c, m, lo, hi : Span(c, m, lo, hi) => Len(Units(c, m, lo, hi)) = hi - lo
BY DEF Span, Units

LEMMA UnitsType ==
    ASSUME NEW c \in Nat, NEW m \in Nat, NEW lo \in Int, NEW hi \in Int, hi - lo \in Nat
    PROVE  /\ Units(c, m, lo, hi) \in Seq(UnitSet)
           /\ Len(Units(c, m, lo, hi)) = hi - lo
           /\ \A i \in 1 .. hi - lo : Units(c, m, lo, hi)[i] = <<c, m, lo + i>>
<1>1. \A i \in 1 .. hi - lo : <<c, m, lo + i>> \in UnitSet
  BY DEF UnitSet
<1> QED  BY <1>1 DEF Units

\* What is left of a range behind its first n units.
Drops(c, m, lo, hi, n) ==
    SubSeq(Units(c, m, lo, hi), n + 1, hi - lo) = Units(c, m, lo + n, hi)

LEMMA UnitsCut ==
    ASSUME NEW c, NEW m, NEW lo, NEW hi, Span(c, m, lo, hi),
           NEW n, n \in 0 .. hi - lo
    PROVE  Drops(c, m, lo, hi, n)
<1>0. c \in Nat /\ m \in Nat /\ lo \in Int /\ hi \in Int /\ hi - lo \in Nat
  BY DEF Span
<1> DEFINE u == Units(c, m, lo, hi)
           l == hi - lo
<1>1. u \in Seq(UnitSet) /\ Len(u) = l /\ \A i \in 1 .. l : u[i] = <<c, m, lo + i>>
  <2>1. u \in Seq(UnitSet)
    BY <1>0, UnitsType
  <2>3. Len(u) = l
    BY UnitsLength, Zenon
  <2>4. \A i \in 1 .. l : u[i] = <<c, m, lo + i>>
    BY DEF Units
  <2> QED  BY <2>1, <2>3, <2>4
<1>2. n \in Nat /\ n <= l /\ l \in Nat /\ (lo + n) - lo = n /\ hi - (lo + n) = l - n /\ lo + n \in Int /\ l - n \in Nat
  BY <1>0
<1> HIDE DEF l
<1> HIDE DEF u
<1>m. PICK mid \in Int : mid = lo + n /\ hi - mid = l - n
  BY <1>2
<1>4. /\ Units(c, m, mid, hi) \in Seq(UnitSet) /\ Len(Units(c, m, mid, hi)) = l - n
      /\ \A i \in 1 .. l - n : Units(c, m, mid, hi)[i] = <<c, m, mid + i>>
  <2>1. hi - mid \in Nat
    BY <1>2, <1>m
  <2>2. Units(c, m, mid, hi) \in Seq(UnitSet)
    BY <1>0, <2>1, UnitsType
  <2>3. Len(Units(c, m, mid, hi)) = hi - mid
    <3>1. Span(c, m, mid, hi)
      BY <1>0, <2>1 DEF Span
    <3> QED  BY <3>1, UnitsLength, Zenon
  <2>4. \A i \in 1 .. hi - mid : Units(c, m, mid, hi)[i] = <<c, m, mid + i>>
    BY DEF Units
  <2> QED  BY <2>2, <2>3, <2>4, <1>m
<1>5. /\ SubSeq(u, n + 1, l) \in Seq(UnitSet) /\ Len(SubSeq(u, n + 1, l)) = l - n
      /\ \A i \in 1 .. l - n : SubSeq(u, n + 1, l)[i] = u[n + i]
  <2>1. n \in 0 .. Len(u)
    BY <1>1, <1>2
  <2> QED  BY <2>1, <1>1, Cut
<1>7. \A i \in 1 .. l - n : SubSeq(u, n + 1, l)[i] = Units(c, m, mid, hi)[i]
  <2>1. \A i \in 1 .. l - n : n + i \in 1 .. l /\ lo + (n + i) = mid + i
    BY <1>0, <1>2, <1>m
  <2> QED  BY <2>1, <1>1, <1>4, <1>5, ZenonT(40)
<1>9. SubSeq(u, n + 1, l) = Units(c, m, mid, hi)
  BY <1>4, <1>5, <1>7, SeqEqual
<1> QED  BY <1>9, <1>m, Zenon DEF u, l, Drops

\* The units of an entry that are not written yet, and a queue of entries that have
\* something to write.
Waiting(e) == Units(e.conn, e.msg, e.size - Total(e.vec), e.size)
Pieces(q) == [i \in DOMAIN q |-> Waiting(q[i])]
Queue(q) == q \in Seq(Entries) /\ \A i \in DOMAIN q : q[i].vec # <<>> /\ q[i].vec[1] > 0

LEMMA WaitingType ==
    ASSUME NEW e \in Entries
    PROVE  Waiting(e) \in Seq(UnitSet) /\ Len(Waiting(e)) = Total(e.vec)
<1>1. PICK c \in Nat, m \in Nat, hi \in Int, vec \in Seq(Nat) :
         c = e.conn /\ m = e.msg /\ hi = e.size /\ vec = e.vec
  BY BoundsAssumption DEF Entries
<1>2. PICK t \in Nat : t = Total(vec)
  BY TotalType
<1>3. hi - t \in Int /\ hi \in Int /\ hi - (hi - t) = t
  OBVIOUS
<1>4. PICK lo \in Int : lo = hi - t
  BY <1>3
<1>5. hi - lo \in Nat /\ hi - lo = t
  BY <1>3, <1>4
<1>6. Units(c, m, lo, hi) \in Seq(UnitSet) /\ Len(Units(c, m, lo, hi)) = hi - lo
  <2>0. hi - lo \in Nat
    BY <1>5
  <2>1. Units(c, m, lo, hi) \in Seq(UnitSet)
    BY <1>5, UnitsType
  <2>2. Len(Units(c, m, lo, hi)) = hi - lo
    <3>1. Span(c, m, lo, hi)
      BY <2>0 DEF Span
    <3> QED  BY <3>1, UnitsLength, Zenon
  <2> QED  BY <2>1, <2>2
<1>7. Waiting(e) = Units(c, m, lo, hi)
  BY <1>1, <1>2, <1>4 DEF Waiting
<1> QED  BY <1>1, <1>2, <1>5, <1>6, <1>7, Zenon

LEMMA RestType ==
    ASSUME NEW q \in Seq(Entries)
    PROVE  /\ Rest(q) = FlattenSeq(Pieces(q))
           /\ Pieces(q) \in Seq(Seq(UnitSet)) /\ Len(Pieces(q)) = Len(q)
           /\ \A i \in 1 .. Len(q) : Pieces(q)[i] = Waiting(q[i])
           /\ Pending(q) \in Seq(Nat) /\ Len(Pending(q)) = Len(q)
           /\ \A i \in 1 .. Len(q) : Pending(q)[i] = Total(q[i].vec)
           /\ \A i \in 1 .. Len(q) : Pending(q)[i] = Len(Pieces(q)[i])
           /\ Rest(q) \in Seq(UnitSet) /\ Len(Rest(q)) = Upto(Pending(q), Len(q))
<1> DEFINE L == Len(q)
<1>0. L \in Nat /\ DOMAIN q = 1 .. L /\ \A i \in 1 .. L : q[i] \in Entries
  OBVIOUS
<1>1. Rest(q) = FlattenSeq(Pieces(q))
  BY DEF Rest, Pieces, Waiting
<1>2. \A i \in 1 .. L : Waiting(q[i]) \in Seq(UnitSet) /\ Len(Waiting(q[i])) = Total(q[i].vec)
  BY <1>0, WaitingType
<1>3. \A i \in 1 .. L : Total(q[i].vec) \in Nat
  <2>1. \A i \in 1 .. L : q[i].vec \in Seq(Nat)
    BY <1>0 DEF Entries
  <2> QED  BY <2>1, TotalType
<1>4. Pieces(q) = [i \in 1 .. L |-> Waiting(q[i])] /\ Pending(q) = [i \in 1 .. L |-> Total(q[i].vec)]
  BY <1>0 DEF Pieces, Pending
<1> HIDE DEF L
<1>5. /\ Pieces(q) \in Seq(Seq(UnitSet)) /\ Len(Pieces(q)) = L
      /\ \A i \in 1 .. L : Pieces(q)[i] = Waiting(q[i])
  BY <1>0, <1>2, <1>4
<1>6. /\ Pending(q) \in Seq(Nat) /\ Len(Pending(q)) = L
      /\ \A i \in 1 .. L : Pending(q)[i] = Total(q[i].vec)
  BY <1>0, <1>3, <1>4
<1>7. \A i \in 1 .. L : Pending(q)[i] = Len(Pieces(q)[i])
  BY <1>2, <1>5, <1>6, Zenon
<1>8. Rest(q) \in Seq(UnitSet)
  BY <1>1, <1>5, FlattenType
<1>9. Len(Rest(q)) = Upto(Pending(q), L)
  <2>1. L \in 0 .. Len(Pieces(q))
    BY <1>0, <1>5
  <2>2. Len(FlattenSeq(SubSeq(Pieces(q), 1, L))) = Upto(Pending(q), L)
    BY <2>1, <1>5, <1>6, <1>7, FlattenLength
  <2>3. SubSeq(Pieces(q), 1, L) = Pieces(q)
    BY <1>5, SubSeqFull
  <2> QED  BY <2>2, <2>3, <1>1, Zenon
<1> QED  BY <1>1, <1>5, <1>6, <1>7, <1>8, <1>9 DEF L

LEMMA RestConcat ==
    ASSUME NEW p \in Seq(Entries), NEW q \in Seq(Entries)
    PROVE  Rest(p \o q) = Rest(p) \o Rest(q)
<1>1. /\ p \o q \in Seq(Entries) /\ Len(p \o q) = Len(p) + Len(q)
      /\ \A i \in 1 .. Len(p) + Len(q) : (p \o q)[i] = IF i <= Len(p) THEN p[i] ELSE q[i - Len(p)]
  BY ConcatProperties
<1>2. /\ Pieces(p) \in Seq(Seq(UnitSet)) /\ Len(Pieces(p)) = Len(p) /\ Rest(p) = FlattenSeq(Pieces(p))
      /\ \A i \in 1 .. Len(p) : Pieces(p)[i] = Waiting(p[i])
  BY RestType
<1>3. /\ Pieces(q) \in Seq(Seq(UnitSet)) /\ Len(Pieces(q)) = Len(q) /\ Rest(q) = FlattenSeq(Pieces(q))
      /\ \A i \in 1 .. Len(q) : Pieces(q)[i] = Waiting(q[i])
  BY RestType
<1> DEFINE r == p \o q
           s == Pieces(p) \o Pieces(q)
<1>4. /\ s \in Seq(Seq(UnitSet)) /\ Len(s) = Len(p) + Len(q)
      /\ \A i \in 1 .. Len(p) + Len(q) : s[i] = IF i <= Len(p) THEN Pieces(p)[i] ELSE Pieces(q)[i - Len(p)]
  <2> HIDE DEF s
  <2>1. /\ s \in Seq(Seq(UnitSet)) /\ Len(s) = Len(Pieces(p)) + Len(Pieces(q))
        /\ \A i \in 1 .. Len(Pieces(p)) + Len(Pieces(q)) :
              s[i] = IF i <= Len(Pieces(p)) THEN Pieces(p)[i] ELSE Pieces(q)[i - Len(Pieces(p))]
    <3> DEFINE a == Pieces(p)
               b == Pieces(q)
    <3>1. a \in Seq(Seq(UnitSet)) /\ b \in Seq(Seq(UnitSet)) /\ s = a \o b
      BY <1>2, <1>3 DEF s
    <3> HIDE DEF a, b
    <3>2. /\ s \in Seq(Seq(UnitSet)) /\ Len(s) = Len(a) + Len(b)
          /\ \A i \in 1 .. Len(a) + Len(b) : s[i] = IF i <= Len(a) THEN a[i] ELSE b[i - Len(a)]
      BY <3>1, ConcatProperties
    <3> QED  BY <3>2 DEF a, b
  <2> QED  BY <2>1, <1>2, <1>3, Zenon
<1> HIDE DEF r, s
<1>5. /\ Pieces(r) \in Seq(Seq(UnitSet)) /\ Len(Pieces(r)) = Len(r) /\ Rest(r) = FlattenSeq(Pieces(r))
      /\ \A i \in 1 .. Len(r) : Pieces(r)[i] = Waiting(r[i])
  <2>1. r \in Seq(Entries)
    BY <1>1 DEF r
  <2> QED  BY <2>1, RestType
<1>6. Len(r) = Len(p) + Len(q) /\ Len(p) \in Nat /\ Len(q) \in Nat
  BY <1>1 DEF r
<1>7. ASSUME NEW i \in 1 .. Len(p) + Len(q) PROVE Pieces(r)[i] = s[i]
  <2>1. Pieces(r)[i] = Waiting(r[i]) /\ r[i] = IF i <= Len(p) THEN p[i] ELSE q[i - Len(p)]
    BY <1>1, <1>5, <1>6, Zenon DEF r
  <2>2. s[i] = IF i <= Len(p) THEN Pieces(p)[i] ELSE Pieces(q)[i - Len(p)]
    BY <1>4, Zenon
  <2>3. CASE i <= Len(p)
    <3>1. i \in 1 .. Len(p)
      BY <2>3, <1>6
    <3> QED  BY <3>1, <2>1, <2>2, <2>3, <1>2, Zenon
  <2>4. CASE ~(i <= Len(p))
    <3>1. i - Len(p) \in 1 .. Len(q)
      BY <2>4, <1>6
    <3> QED  BY <3>1, <2>1, <2>2, <2>4, <1>3, Zenon
  <2> QED  BY <2>3, <2>4
<1>8. Pieces(r) = s
  BY <1>4, <1>5, <1>6, <1>7, SeqEqual
<1>9. FlattenSeq(s) = FlattenSeq(Pieces(p)) \o FlattenSeq(Pieces(q))
  BY <1>2, <1>3, FlattenConcat DEF s
<1> QED  BY <1>2, <1>3, <1>5, <1>8, <1>9, Zenon DEF r

LEMMA RestOne ==
    ASSUME NEW e \in Entries
    PROVE  <<e>> \in Seq(Entries) /\ Rest(<<e>>) = Waiting(e)
<1>1. <<e>> \in Seq(Entries) /\ Len(<<e>>) = 1 /\ <<e>>[1] = e
  OBVIOUS
<1>2. /\ Rest(<<e>>) = FlattenSeq(Pieces(<<e>>)) /\ Pieces(<<e>>) \in Seq(Seq(UnitSet))
      /\ Len(Pieces(<<e>>)) = Len(<<e>>)
      /\ \A i \in 1 .. Len(<<e>>) : Pieces(<<e>>)[i] = Waiting(<<e>>[i])
  BY <1>1, RestType
<1>3. Pieces(<<e>>) = <<Waiting(e)>>
  <2> DEFINE p == Pieces(<<e>>)
             w == Waiting(e)
  <2>1. p[1] = w
    <3>1. 1 \in 1 .. Len(<<e>>)
      BY <1>1
    <3> QED  BY <3>1, <1>1, <1>2, Zenon
  <2>2. p \in Seq(Seq(UnitSet)) /\ Len(p) = 1
    BY <1>1, <1>2, Zenon
  <2> HIDE DEF p, w
  <2>3. p = <<w>>
    BY <2>1, <2>2
  <2> QED  BY <2>3 DEF p, w
<1>4. FlattenSeq(<<Waiting(e)>>) = Waiting(e)
  BY WaitingType, FlattenOne
<1> QED  BY <1>1, <1>2, <1>3, <1>4, Zenon

\* Writing some units of the first entry.
LEMMA FirstAdvanced ==
    ASSUME NEW q, Queue(q), q # <<>>, NEW n \in Nat, n < Total(q[1].vec), NEW r,
           r = [q EXCEPT ![1].vec = Advance(@, n)]
    PROVE  /\ Queue(r)
           /\ Rest(r) = SubSeq(Rest(q), n + 1, Len(Rest(q)))
<1> DEFINE L == Len(q)
           e == q[1]
           d == r[1]
<1>0. /\ q \in Seq(Entries) /\ L \in Nat /\ L >= 1 /\ 1 \in 1 .. L /\ DOMAIN q = 1 .. L
      /\ \A i \in 1 .. L : q[i] \in Entries /\ q[i].vec # <<>> /\ q[i].vec[1] > 0
  BY DEF Queue
<1>1. e \in Entries /\ e.vec \in Seq(Nat)
  BY <1>0 DEF Entries
<1>2. PICK t \in Nat : t = Total(e.vec)
  BY <1>1, TotalType
<1>3. n < t
  BY <1>2
<1>4. /\ Advance(e.vec, n) \in Seq(Nat) /\ Advance(e.vec, n) # <<>> /\ Advance(e.vec, n)[1] > 0
      /\ Total(Advance(e.vec, n)) = t - n
  BY <1>1, <1>2, <1>3, AdvanceLemma
<1>v. PICK v \in Seq(Nat) : v = Advance(e.vec, n)
  BY <1>4
<1>5. /\ d = [e EXCEPT !.vec = v] /\ DOMAIN r = 1 .. L
      /\ \A i \in 2 .. L : r[i] = q[i]
  BY <1>0, <1>v
<1>r. r = [q EXCEPT ![1] = d]
  BY <1>0
<1> HIDE DEF d, e
<1>6. /\ d \in Entries /\ d.conn = e.conn /\ d.msg = e.msg /\ d.size = e.size
      /\ d.vec = v
  BY <1>1, <1>5 DEF Entries
<1>7. r \in Seq(Entries) /\ Len(r) = L
  <2>1. d \in Entries /\ q \in Seq(Entries) /\ 1 \in 1 .. Len(q)
    BY <1>0, <1>6
  <2>2. [q EXCEPT ![1] = d] \in Seq(Entries) /\ Len([q EXCEPT ![1] = d]) = Len(q)
    BY <2>1, ExceptSeq
  <2> QED  BY <2>2, <1>r, Zenon
<1>8. Queue(r)
  <2>1. ASSUME NEW i \in 1 .. L PROVE r[i].vec # <<>> /\ r[i].vec[1] > 0
    <3>1. CASE i = 1
      BY <3>1, <1>4, <1>6, <1>v, Zenon DEF d
    <3>2. CASE i # 1
      <4>1. i \in 2 .. L
        BY <3>2, <1>0
      <4> QED  BY <4>1, <1>0, <1>5, Zenon
    <3> QED  BY <3>1, <3>2
  <2> QED  BY <2>1, <1>5, <1>7, Zenon DEF Queue
<1> HIDE DEF L
<1>9. Waiting(d) = SubSeq(Waiting(e), n + 1, t)
  <2>1. PICK c \in Nat, m \in Nat, hi \in Int : c = e.conn /\ m = e.msg /\ hi = e.size
    BY <1>1, BoundsAssumption DEF Entries
  <2>2. PICK lo \in Int : lo = hi - t
    OBVIOUS
  <2>3. hi - lo = t /\ hi - (t - n) = lo + n /\ hi \in Int
    BY <2>2
  <2>4. n \in 0 .. hi - lo
    BY <2>3, <1>3
  <2>l. hi - lo \in Nat
    BY <2>3
  <2>5. SubSeq(Units(c, m, lo, hi), n + 1, hi - lo) = Units(c, m, lo + n, hi)
    <3>1. Span(c, m, lo, hi)
      BY <2>l DEF Span
    <3>2. Drops(c, m, lo, hi, n)
      BY <2>4, <3>1, UnitsCut, Zenon
    <3> QED  BY <3>2, Zenon DEF Drops
  <2>6. Waiting(e) = Units(c, m, lo, hi)
    BY <2>1, <2>2, <1>2 DEF Waiting
  <2>7. Waiting(d) = Units(c, m, lo + n, hi)
    BY <2>1, <2>3, <1>4, <1>6, <1>v DEF Waiting
  <2> QED  BY <2>3, <2>5, <2>6, <2>7, Zenon
<1>10. /\ Waiting(e) \in Seq(UnitSet) /\ Len(Waiting(e)) = t
       /\ Waiting(d) \in Seq(UnitSet)
  BY <1>1, <1>2, <1>6, WaitingType
<1> DEFINE tail == SubSeq(q, 2, L)
<1>11. /\ tail \in Seq(Entries) /\ Len(tail) = L - 1
       /\ \A i \in 1 .. L - 1 : tail[i] = q[1 + i]
  <2>1. 1 \in 0 .. Len(q) /\ 1 + 1 = 2
    BY <1>0 DEF L
  <2> QED  BY <2>1, <1>0, Cut, SMTT(40) DEF L
<1>12. q = <<e>> \o tail
  <2>1. 1 \in 1 .. L /\ L \in 1 .. L /\ 1 + 1 = 2
    BY <1>0
  <2>2. SubSeq(q, 1, L) = <<q[1]>> \o SubSeq(q, 1 + 1, L)
    BY <2>1, <1>0, SubSeqRecursiveFirst DEF L
  <2>3. SubSeq(q, 1, L) = q
    BY <1>0, SubSeqFull DEF L
  <2> QED  BY <2>1, <2>2, <2>3, Zenon DEF e
<1> HIDE DEF tail
<1>13. r = <<d>> \o tail
  <2>1. <<d>> \o tail \in Seq(Entries) /\ Len(<<d>> \o tail) = L
    BY <1>0, <1>6, <1>11
  <2>2. ASSUME NEW i \in 1 .. L PROVE r[i] = (<<d>> \o tail)[i]
    <3>1. CASE i = 1
      <4>1. (<<d>> \o tail)[1] = d
        BY <1>0, <1>6, <1>11
      <4> QED  BY <4>1, <3>1 DEF d
    <3>2. CASE i # 1
      <4>1. i \in 2 .. L /\ i - 1 \in 1 .. L - 1 /\ 1 + (i - 1) = i
        BY <3>2, <1>0
      <4>2. (<<d>> \o tail)[i] = tail[i - 1]
        BY <4>1, <1>0, <1>6, <1>11, SMTT(40)
      <4> QED  BY <4>1, <4>2, <1>5, <1>11, ZenonT(40)
    <3> QED  BY <3>1, <3>2
  <2> QED  BY <2>1, <2>2, <1>7, SeqEqual DEF L
<1>14. Rest(q) = Waiting(e) \o Rest(tail)
  <2>1. <<e>> \in Seq(Entries) /\ Rest(<<e>>) = Waiting(e)
    BY <1>1, RestOne
  <2>2. Rest(<<e>> \o tail) = Rest(<<e>>) \o Rest(tail)
    BY <2>1, <1>11, RestConcat
  <2> QED  BY <2>1, <2>2, <1>12, Zenon
<1>15. Rest(r) = Waiting(d) \o Rest(tail)
  <2>1. <<d>> \in Seq(Entries) /\ Rest(<<d>>) = Waiting(d)
    BY <1>6, RestOne
  <2>2. Rest(<<d>> \o tail) = Rest(<<d>>) \o Rest(tail)
    BY <2>1, <1>11, RestConcat
  <2> QED  BY <2>1, <2>2, <1>13, Zenon
<1>16. Rest(r) = SubSeq(Rest(q), n + 1, Len(Rest(q)))
  <2>1. Rest(tail) \in Seq(UnitSet)
    BY <1>11, RestType
  <2>2. n \in 0 .. Len(Waiting(e))
    BY <1>3, <1>10
  <2>3. SubSeq(Waiting(e) \o Rest(tail), n + 1, Len(Waiting(e) \o Rest(tail)))
          = SubSeq(Waiting(e), n + 1, Len(Waiting(e))) \o Rest(tail)
    BY <2>1, <2>2, <1>10, CutConcat
  <2> QED  BY <2>3, <1>9, <1>10, <1>14, <1>15, Zenon
<1> QED  BY <1>8, <1>16

\* __socket_ioq_churn leaves what was not written.
LEMMA ChurnedLemma ==
    ASSUME NEW q, Queue(q), NEW n \in 0 .. Len(Rest(q))
    PROVE  /\ Queue(Churned(q, n))
           /\ Rest(Churned(q, n)) = SubSeq(Rest(q), n + 1, Len(Rest(q)))
           /\ SubSeq(Rest(q), 1, n) \in Seq(UnitSet)
           /\ SubSeq(Rest(q), 1, n) \o Rest(Churned(q, n)) = Rest(q)
<1> DEFINE L == Len(q)
           P == Pending(q)
<1>0. /\ q \in Seq(Entries) /\ L \in Nat /\ DOMAIN q = 1 .. L
      /\ \A i \in 1 .. L : q[i] \in Entries /\ q[i].vec # <<>> /\ q[i].vec[1] > 0
  BY DEF Queue
<1>1. /\ P \in Seq(Nat) /\ Len(P) = L /\ DOMAIN P = 1 .. L
      /\ \A i \in 1 .. L : P[i] = Total(q[i].vec)
      /\ Rest(q) \in Seq(UnitSet) /\ Len(Rest(q)) = Upto(P, L)
  <2>1. /\ P \in Seq(Nat) /\ Len(P) = L
        /\ \A i \in 1 .. L : P[i] = Total(q[i].vec)
        /\ Rest(q) \in Seq(UnitSet) /\ Len(Rest(q)) = Upto(P, L)
    BY <1>0, RestType
  <2> HIDE DEF P
  <2> QED  BY <2>1
<1>2. n \in Nat /\ n <= Upto(P, L)
  <2>1. Len(Rest(q)) \in Nat
    BY <1>1
  <2>2. n \in Nat /\ n <= Len(Rest(q))
    BY <2>1
  <2> QED  BY <2>2, <1>1
<1>3. PICK k : k = Cardinality({j \in DOMAIN q : Upto(P, j) <= n})
  OBVIOUS
<1>4. /\ k \in 0 .. L /\ Upto(P, k) <= n
      /\ k < L => Upto(P, k + 1) > n
  <2>1. k = Cardinality({j \in DOMAIN P : Upto(P, j) <= n})
    BY <1>0, <1>1, <1>3
  <2> HIDE DEF P
  <2> QED  BY <2>1, <1>1, <1>2, DoneElements
<1> DEFINE left == SubSeq(q, k + 1, L)
           more == n - Upto(P, k)
<1>5. Churned(q, n) = IF more = 0 THEN left ELSE [left EXCEPT ![1].vec = Advance(@, more)]
  BY <1>3 DEF Churned
<1> HIDE DEF L, P
<1>6. Upto(P, k) \in Nat
  BY <1>1, <1>4, UptoSum
<1>7. more \in Nat /\ Upto(P, k) + more = n
  BY <1>2, <1>4, <1>6, SMTT(40)
<1>8. /\ SubSeq(q, 1, k) \in Seq(Entries) /\ left \in Seq(Entries) /\ Len(left) = L - k
      /\ \A i \in 1 .. L - k : left[i] = q[k + i]
      /\ SubSeq(q, 1, k) \o left = q
      /\ Len(SubSeq(q, 1, k)) = k /\ \A i \in 1 .. k : SubSeq(q, 1, k)[i] = q[i]
  BY <1>0, <1>4, Cut, ZenonT(40) DEF L
<1>9. Queue(left)
  <2>1. ASSUME NEW i \in DOMAIN left PROVE left[i].vec # <<>> /\ left[i].vec[1] > 0
    <3>1. i \in 1 .. L - k /\ k + i \in 1 .. L
      BY <1>0, <1>4, <1>8
    <3> QED  BY <3>1, <1>0, <1>8, Zenon
  <2> QED  BY <2>1, <1>8, Zenon DEF Queue
<1> DEFINE done == SubSeq(q, 1, k)
<1>10. Rest(q) = Rest(done) \o Rest(left) /\ Rest(done) \in Seq(UnitSet) /\ Rest(left) \in Seq(UnitSet)
  <2>1. Rest(done \o left) = Rest(done) \o Rest(left)
    BY <1>8, RestConcat
  <2>2. Rest(done) \in Seq(UnitSet) /\ Rest(left) \in Seq(UnitSet)
    BY <1>8, RestType
  <2> QED  BY <2>1, <2>2, <1>8, Zenon
<1>11. Len(Rest(done)) = Upto(P, k)
  <2>1. /\ Rest(q) = FlattenSeq(Pieces(q)) /\ Pieces(q) \in Seq(Seq(UnitSet)) /\ Len(Pieces(q)) = L
        /\ \A i \in 1 .. L : Pieces(q)[i] = Waiting(q[i])
        /\ \A i \in 1 .. L : P[i] = Len(Pieces(q)[i])
    BY <1>0, RestType DEF L, P
  <2>2. k \in 0 .. Len(Pieces(q))
    BY <2>1, <1>4
  <2>3. Len(FlattenSeq(SubSeq(Pieces(q), 1, k))) = Upto(P, k)
    BY <2>1, <2>2, <1>1, FlattenLength
  <2>4. /\ SubSeq(Pieces(q), 1, k) \in Seq(Seq(UnitSet)) /\ Len(SubSeq(Pieces(q), 1, k)) = k
        /\ \A i \in 1 .. k : SubSeq(Pieces(q), 1, k)[i] = Pieces(q)[i]
    BY <2>1, <2>2, Cut
  <2>5. /\ Rest(done) = FlattenSeq(Pieces(done)) /\ Pieces(done) \in Seq(Seq(UnitSet))
        /\ Len(Pieces(done)) = Len(done)
        /\ \A i \in 1 .. Len(done) : Pieces(done)[i] = Waiting(done[i])
    BY <1>8, RestType
  <2>6. ASSUME NEW i \in 1 .. k PROVE Pieces(done)[i] = SubSeq(Pieces(q), 1, k)[i]
    <3>1. i \in 1 .. L
      BY <1>0, <1>4
    <3> HIDE DEF done
    <3>2. done[i] = q[i] /\ Len(done) = k
      BY <1>8, Zenon DEF done
    <3> QED  BY <3>1, <3>2, <2>1, <2>4, <2>5, Zenon
  <2> DEFINE a == Pieces(done)
             b == SubSeq(Pieces(q), 1, k)
  <2>7. a \in Seq(Seq(UnitSet)) /\ b \in Seq(Seq(UnitSet)) /\ Len(a) = k /\ Len(b) = k /\ \A i \in 1 .. k : a[i] = b[i]
    BY <2>4, <2>5, <2>6, <1>8, Zenon
  <2> HIDE DEF a, b
  <2>8. a = b
    BY <2>7, SeqEqual
  <2> QED  BY <2>3, <2>5, <2>8, Zenon DEF a, b
<1> HIDE DEF done, left
<1>12. SubSeq(Rest(q), n + 1, Len(Rest(q))) = SubSeq(Rest(left), more + 1, Len(Rest(left)))
  <2>1. SubSeq(Rest(done) \o Rest(left), Len(Rest(done)) + more + 1, Len(Rest(done) \o Rest(left)))
          = SubSeq(Rest(left), more + 1, Len(Rest(left)))
    <3> HIDE DEF more
    <3> QED  BY <1>7, <1>10, CutFirst
  <2>2. Len(Rest(done)) + more + 1 = n + 1
    <3>1. Len(Rest(done)) + more = n
      BY <1>7, <1>11, Zenon
    <3> QED  BY <3>1, Zenon
  <2> QED  BY <2>1, <2>2, <1>10, Zenon
<1> DEFINE r == [left EXCEPT ![1].vec = Advance(@, more)]
<1>13. ASSUME more # 0
       PROVE  Queue(r) /\ Rest(r) = SubSeq(Rest(left), more + 1, Len(Rest(left)))
  <2>1. k # L
    <3>1. ASSUME k = L PROVE FALSE
      <4>1. Upto(P, L) <= n
        BY <3>1, <1>4
      <4>2. Upto(P, L) \in Nat
        BY <3>1, <1>6
      <4>3. n = Upto(P, k)
        BY <4>1, <4>2, <3>1, <1>2
      <4> QED  BY <4>3, <1>2, <1>13
    <3> QED  BY <3>1
  <2>2. k < L /\ k \in 0 .. L /\ k + 1 \in 1 .. L /\ (k + 1) - 1 = k /\ 1 \in 1 .. L - k /\ k \in Nat
    BY <2>1, <1>0, <1>4
  <2>3. Upto(P, k + 1) = Upto(P, k) + P[k + 1] /\ P[k + 1] \in Nat /\ Upto(P, k + 1) > n
    <3>1. Upto(P, k + 1) = Upto(P, (k + 1) - 1) + P[k + 1]
      BY <2>2, <1>1, UptoSum
    <3>2. P[k + 1] \in Nat
      BY <2>2, <1>1, SMTT(40)
    <3> QED  BY <3>1, <3>2, <2>2, <1>4
  <2>4. more < P[k + 1]
    BY <2>3, <1>2, <1>6
  <2>5. left[1] = q[k + 1] /\ left # <<>>
    BY <2>2, <1>8
  <2> HIDE DEF more
  <2>6. more < Total(left[1].vec)
    <3>1. P[k + 1] = Total(left[1].vec)
      BY <2>2, <2>5, <1>1, Zenon
    <3> QED  BY <3>1, <2>4, Zenon
  <2>7. r = [left EXCEPT ![1].vec = Advance(@, more)]
    OBVIOUS
  <2> HIDE DEF r
  <2>8. more \in Nat
    BY <1>7
  <2> QED  BY <2>5, <2>6, <2>7, <2>8, <1>9, FirstAdvanced
<1>14. /\ Queue(Churned(q, n))
       /\ Rest(Churned(q, n)) = SubSeq(Rest(q), n + 1, Len(Rest(q)))
  <2>1. CASE more = 0
    <3>1. SubSeq(Rest(left), more + 1, Len(Rest(left))) = Rest(left)
      <4>1. more + 1 = 1
        BY <2>1
      <4>2. SubSeq(Rest(left), 1, Len(Rest(left))) = Rest(left)
        BY <1>10, SubSeqFull
      <4> QED  BY <4>1, <4>2, Zenon
    <3>2. Churned(q, n) = left
      BY <2>1, <1>5
    <3> QED  BY <3>1, <3>2, <1>9, <1>12, Zenon
  <2>2. CASE more # 0
    <3>1. Churned(q, n) = r
      BY <2>2, <1>5
    <3> QED  BY <3>1, <2>2, <1>12, <1>13, Zenon
  <2> QED  BY <2>1, <2>2
<1>15. SubSeq(Rest(q), 1, n) \in Seq(UnitSet) /\ SubSeq(Rest(q), 1, n) \o SubSeq(Rest(q), n + 1, Len(Rest(q))) = Rest(q)
  BY <1>1, Cut
<1> QED  BY <1>14, <1>15, Zenon

\* A failed write changes nothing that waits.
LEMMA FailedLemma ==
    ASSUME NEW q, Queue(q), q # <<>>
    PROVE  Queue(Failed(q)) /\ Failed(q) # <<>> /\ Rest(Failed(q)) = Rest(q)
<1> DEFINE L == Len(q)
           d == [q[1] EXCEPT !.dead = TRUE]
<1>0. /\ q \in Seq(Entries) /\ L \in Nat /\ 1 \in 1 .. L /\ DOMAIN q = 1 .. L
      /\ \A i \in 1 .. L : q[i] \in Entries /\ q[i].vec # <<>> /\ q[i].vec[1] > 0
  BY DEF Queue
<1>1. /\ d \in Entries /\ d.conn = q[1].conn /\ d.msg = q[1].msg /\ d.size = q[1].size /\ d.vec = q[1].vec
  BY <1>0 DEF Entries
<1>2. Failed(q) = [q EXCEPT ![1] = d]
  BY <1>0 DEF Failed
<1> HIDE DEF d
<1>3. /\ Failed(q) \in Seq(Entries) /\ Len(Failed(q)) = L /\ DOMAIN Failed(q) = 1 .. L
      /\ \A i \in 1 .. L : Failed(q)[i] = IF i = 1 THEN d ELSE q[i]
  <2>1. /\ [q EXCEPT ![1] = d] \in Seq(Entries) /\ Len([q EXCEPT ![1] = d]) = Len(q)
        /\ \A j \in 1 .. Len(q) : [q EXCEPT ![1] = d][j] = IF j = 1 THEN d ELSE q[j]
    BY <1>0, <1>1, ExceptSeq
  <2>2. DOMAIN [q EXCEPT ![1] = d] = 1 .. L
    BY <1>0
  <2> QED  BY <2>1, <2>2, <1>2, Zenon
<1>4. \A i \in 1 .. L : /\ Failed(q)[i].vec = q[i].vec /\ Failed(q)[i].conn = q[i].conn
                        /\ Failed(q)[i].msg = q[i].msg /\ Failed(q)[i].size = q[i].size
  BY <1>1, <1>3, Zenon
<1>5. Queue(Failed(q))
  BY <1>0, <1>3, <1>4, Zenon DEF Queue
<1>6. Rest(Failed(q)) = Rest(q)
  <2>1. \A i \in 1 .. L : Waiting(Failed(q)[i]) = Waiting(q[i])
    BY <1>4, Zenon DEF Waiting
  <2>2. Pieces(Failed(q)) = Pieces(q)
    BY <2>1, <1>0, <1>3 DEF Pieces
  <2> QED  BY <2>2, <1>0, <1>3, RestType, ZenonT(40)
<1>7. Failed(q) # <<>>
  BY <1>0, <1>3
<1> QED  BY <1>5, <1>6, <1>7

\* With an empty queue nothing happens.
LEMMA ChurnedEmpty ==
    ASSUME NEW n \in 0 .. Len(Rest(<<>>))
    PROVE  Churned(<<>>, n) = <<>>
<1>1. <<>> \in Seq(Entries) /\ Queue(<<>>)
  BY DEF Queue
<1>2. Len(Rest(<<>>)) = Upto(Pending(<<>>), Len(<<>>)) /\ Pending(<<>>) \in Seq(Nat)
  BY <1>1, RestType
<1>3. Upto(Pending(<<>>), 0) = 0 /\ Len(<<>>) = 0
  BY <1>2, UptoSum
<1>4. n = 0
  <2>1. Len(Rest(<<>>)) = 0
    BY <1>2, <1>3, Zenon
  <2> QED  BY <2>1
<1>5. Cardinality({j \in DOMAIN <<>> : Upto(Pending(<<>>), j) <= n}) = 0
  <2>1. {j \in DOMAIN <<>> : Upto(Pending(<<>>), j) <= n} = {}
    OBVIOUS
  <2> QED  BY <2>1, FS_EmptySet, Zenon
<1>6. n - Upto(Pending(<<>>), 0) = 0
  BY <1>3, <1>4
<1>7. SubSeq(<<>>, 0 + 1, Len(<<>>)) = <<>>
  BY SubSeqEmpty
<1> QED  BY <1>5, <1>6, <1>7, Zenon DEF Churned

-----------------------------------------------------------------------------
(* Messages in the streams *)

\* What the first messages of a connection put on the wire.
Submitted(c, sizes) == FlattenSeq([m \in DOMAIN sizes |-> Units(c, m, 0, sizes[m])])

LEMMA SubmittedAppend ==
    ASSUME NEW c \in Nat, NEW sizes \in Seq(Nat), NEW size \in Nat
    PROVE  /\ Submitted(c, sizes) \in Seq(UnitSet)
           /\ Submitted(c, Append(sizes, size)) = Submitted(c, sizes) \o Units(c, Len(sizes) + 1, 0, size)
<1> DEFINE L == Len(sizes)
           more == Append(sizes, size)
           ss == [m \in DOMAIN sizes |-> Units(c, m, 0, sizes[m])]
           tt == [m \in DOMAIN more |-> Units(c, m, 0, more[m])]
           x == Units(c, L + 1, 0, size)
<1>0. L \in Nat /\ DOMAIN sizes = 1 .. L /\ \A m \in 1 .. L : sizes[m] \in Nat
  OBVIOUS
<1>1. /\ more \in Seq(Nat) /\ Len(more) = L + 1 /\ DOMAIN more = 1 .. L + 1
      /\ \A m \in 1 .. L : more[m] = sizes[m]
      /\ more[L + 1] = size
  OBVIOUS
<1>2. ASSUME NEW m \in Nat, NEW s \in Nat PROVE Units(c, m, 0, s) \in Seq(UnitSet)
  <2>1. s - 0 \in Nat /\ 0 \in Int /\ s \in Int
    OBVIOUS
  <2> QED  BY <2>1, UnitsType
<1>3. x \in Seq(UnitSet)
  BY <1>0, <1>2
<1>4. ss \in Seq(Seq(UnitSet)) /\ Len(ss) = L /\ \A m \in 1 .. L : ss[m] = Units(c, m, 0, sizes[m])
  <2> DEFINE u(m) == Units(c, m, 0, sizes[m])
  <2>1. \A m \in 1 .. L : m \in Nat
    BY <1>0
  <2>2. \A m \in 1 .. L : u(m) \in Seq(UnitSet)
    BY <2>1, <1>0, <1>2
  <2>3. ss = [m \in 1 .. L |-> u(m)]
    BY <1>0
  <2> HIDE DEF u, L, ss
  <2>4. ss \in Seq(Seq(UnitSet)) /\ Len(ss) = L /\ \A m \in 1 .. L : ss[m] = u(m)
    BY <2>2, <2>3, <1>0
  <2> QED  BY <2>4 DEF u
<1> HIDE DEF x, more, ss
<1>5. tt = Append(ss, x)
  <2>1. DOMAIN tt = 1 .. L + 1 /\ \A m \in 1 .. L + 1 : tt[m] = Units(c, m, 0, more[m])
    BY <1>1
  <2>2. /\ Append(ss, x) \in Seq(Seq(UnitSet)) /\ Len(Append(ss, x)) = L + 1
        /\ \A m \in 1 .. L : Append(ss, x)[m] = ss[m]
        /\ Append(ss, x)[L + 1] = x
    BY <1>3, <1>4, AppendProperties
  <2>3. ASSUME NEW m \in 1 .. L + 1 PROVE tt[m] = Append(ss, x)[m]
    <3>1. CASE m = L + 1
      <4>1. tt[m] = Units(c, L + 1, 0, size)
        BY <3>1, <2>1, <1>1, Zenon
      <4> QED  BY <4>1, <3>1, <2>2, Zenon DEF x
    <3>2. CASE m # L + 1
      <4>1. m \in 1 .. L
        BY <3>2, <1>0
      <4> QED  BY <4>1, <2>1, <2>2, <1>1, <1>4, Zenon
    <3> QED  BY <3>1, <3>2
  <2>4. tt = [m \in 1 .. L + 1 |-> tt[m]]
    BY <1>1
  <2> DEFINE uu == Append(ss, x)
  <2> HIDE DEF tt, uu
  <2>5. uu = [m \in 1 .. L + 1 |-> uu[m]]
    <3>1. uu \in Seq(Seq(UnitSet)) /\ Len(uu) = L + 1
      BY <2>2 DEF uu
    <3>2. uu \in [1 .. Len(uu) -> Seq(UnitSet)]
      BY <3>1, LenProperties
    <3>3. uu = [m \in 1 .. Len(uu) |-> uu[m]]
      BY <3>2
    <3> QED  BY <3>1, <3>3, Zenon
  <2> QED  BY <2>3, <2>4, <2>5, Zenon DEF uu
<1>6. FlattenSeq(Append(ss, x)) = FlattenSeq(ss) \o x
  BY <1>3, <1>4, FlattenAppend
<1>7. FlattenSeq(ss) \in Seq(UnitSet)
  BY <1>4, FlattenType
<1> QED  BY <1>5, <1>6, <1>7, Zenon DEF Submitted, ss, more, x

\* A message of the peer, and what it sent behind the first n.
Message(c, kinds, m) == Units(c, m, 0, HdrLen + kinds[m].size1 + kinds[m].size2)
Behind(c, kinds, n) == FlattenSeq([i \in 1 .. Len(kinds) - n |-> Message(c, kinds, n + i)])

LEMMA MessageType ==
    ASSUME NEW c \in Nat, NEW kinds \in Seq(InKinds), NEW m \in 1 .. Len(kinds)
    PROVE  /\ kinds[m].size1 \in Nat /\ kinds[m].size2 \in Nat
           /\ Message(c, kinds, m) \in Seq(UnitSet)
           /\ Len(Message(c, kinds, m)) = HdrLen + kinds[m].size1 + kinds[m].size2
           /\ Message(c, kinds, m)[1] = <<c, m, 1>>
<1>1. kinds[m] \in InKinds
  OBVIOUS
<1>2. kinds[m].size1 \in Nat /\ kinds[m].size2 \in Nat
  BY <1>1, MessagesAssumption
<1>3. PICK s \in Int : s = HdrLen + kinds[m].size1 + kinds[m].size2 /\ s - 0 \in Nat /\ s >= 1 /\ s - 0 = s
  BY <1>2, HdrLenAssumption
<1>4. m \in Nat /\ 0 \in Int
  OBVIOUS
<1>n. s - 0 \in Nat
  BY <1>3
<1>5. Units(c, m, 0, s) \in Seq(UnitSet)
  BY <1>n, <1>4, UnitsType
<1>6. Len(Units(c, m, 0, s)) = s - 0
  <2>1. Span(c, m, 0, s)
    BY <1>n, <1>4 DEF Span
  <2> QED  BY <2>1, UnitsLength, Zenon
<1>7. Units(c, m, 0, s)[1] = <<c, m, 1>>
  BY <1>3 DEF Units
<1>8. Message(c, kinds, m) = Units(c, m, 0, s)
  BY <1>3 DEF Message
<1>9. Message(c, kinds, m) \in Seq(UnitSet) /\ Message(c, kinds, m)[1] = <<c, m, 1>>
  BY <1>5, <1>7, <1>8, Zenon
<1>10. Len(Message(c, kinds, m)) = HdrLen + kinds[m].size1 + kinds[m].size2
  BY <1>3, <1>6, <1>8, Zenon
<1> QED  BY <1>2, <1>9, <1>10

LEMMA BehindFirst ==
    ASSUME NEW c \in Nat, NEW kinds \in Seq(InKinds), NEW n \in 0 .. Len(kinds)
    PROVE  /\ Behind(c, kinds, n) \in Seq(UnitSet)
           /\ n = Len(kinds) => Behind(c, kinds, n) = <<>>
           /\ n < Len(kinds) => Behind(c, kinds, n) = Message(c, kinds, n + 1) \o Behind(c, kinds, n + 1)
<1> DEFINE L == Len(kinds)
           ss(k) == [i \in 1 .. L - k |-> Message(c, kinds, k + i)]
<1>0. L \in Nat /\ n \in Nat /\ n <= L
  OBVIOUS
<1>1. ASSUME NEW k \in 0 .. L
      PROVE  /\ ss(k) \in Seq(Seq(UnitSet)) /\ Len(ss(k)) = L - k
             /\ \A i \in 1 .. L - k : ss(k)[i] = Message(c, kinds, k + i)
  <2>1. \A i \in 1 .. L - k : k + i \in 1 .. L
    BY <1>0
  <2>2. \A i \in 1 .. L - k : Message(c, kinds, k + i) \in Seq(UnitSet)
    BY <2>1, MessageType
  <2>3. L - k \in Nat
    BY <1>0
  <2> HIDE DEF L
  <2> QED  BY <2>2, <2>3
<1>2. Behind(c, kinds, n) \in Seq(UnitSet)
  <2>1. FlattenSeq(ss(n)) \in Seq(UnitSet)
    <3> HIDE DEF ss
    <3> QED  BY <1>1, FlattenType
  <2> QED  BY <2>1 DEF Behind
<1>3. ASSUME n = L PROVE Behind(c, kinds, n) = <<>>
  <2>1. ss(n) \in Seq(Seq(UnitSet)) /\ Len(ss(n)) = 0
    BY <1>0, <1>1, <1>3
  <2>2. ss(n) = <<>>
    <3> HIDE DEF ss
    <3> QED  BY <2>1
  <2> QED  BY <2>2, FlattenEmpty, Zenon DEF Behind
<1>4. ASSUME n < L PROVE Behind(c, kinds, n) = Message(c, kinds, n + 1) \o Behind(c, kinds, n + 1)
  <2>0. n \in 0 .. L /\ n + 1 \in 0 .. L /\ n + 1 \in 1 .. L /\ L - n \in Nat /\ 1 \in 1 .. L - n /\ L - (n + 1) = (L - n) - 1
    BY <1>0, <1>4, SMTT(40)
  <2> DEFINE a == ss(n)
             b == ss(n + 1)
             x == Message(c, kinds, n + 1)
  <2>1. /\ a \in Seq(Seq(UnitSet)) /\ Len(a) = L - n
        /\ \A i \in 1 .. L - n : a[i] = Message(c, kinds, n + i)
    <3> HIDE DEF ss
    <3> QED  BY <2>0, <1>1, ZenonT(40)
  <2>2. /\ b \in Seq(Seq(UnitSet)) /\ Len(b) = (L - n) - 1
        /\ \A i \in 1 .. (L - n) - 1 : b[i] = Message(c, kinds, (n + 1) + i)
    <3> HIDE DEF ss
    <3>1. /\ b \in Seq(Seq(UnitSet)) /\ Len(b) = L - (n + 1)
          /\ \A i \in 1 .. L - (n + 1) : b[i] = Message(c, kinds, (n + 1) + i)
      BY <2>0, <1>1, ZenonT(40)
    <3> HIDE DEF b
    <3> QED  BY <3>1, <2>0, ZenonT(40)
  <2>3. x \in Seq(UnitSet)
    BY <2>0, MessageType
  <2> DEFINE M == L - n
  <2> HIDE DEF a, b, x, M, ss
  <2>4. M \in Nat /\ 1 \in 1 .. M
    BY <2>0 DEF M
  <2>5. /\ <<x>> \in Seq(Seq(UnitSet)) /\ <<x>> \o b \in Seq(Seq(UnitSet)) /\ Len(<<x>> \o b) = M
        /\ (<<x>> \o b)[1] = x /\ \A i \in 2 .. M : (<<x>> \o b)[i] = b[i - 1]
    BY <2>2, <2>3, <2>4 DEF M
  <2>6. ASSUME NEW i \in 1 .. M PROVE a[i] = (<<x>> \o b)[i]
    <3>0. a[i] = Message(c, kinds, n + i)
      BY <2>1 DEF M
    <3>1. CASE i = 1
      BY <3>0, <3>1, <2>5, Zenon DEF x
    <3>2. CASE i # 1
      <4>1. i \in 2 .. M /\ i - 1 \in 1 .. M - 1 /\ (n + 1) + (i - 1) = n + i
        BY <3>2, <2>4, <1>0
      <4>2. b[i - 1] = Message(c, kinds, (n + 1) + (i - 1))
        BY <4>1, <2>2, Zenon DEF M
      <4> QED  BY <3>0, <4>1, <4>2, <2>5, Zenon
    <3> QED  BY <3>1, <3>2
  <2>7. a = <<x>> \o b
    <3>1. Len(a) = M
      BY <2>1 DEF M
    <3> QED  BY <3>1, <2>1, <2>5, <2>6, SeqEqual
  <2>8. FlattenSeq(<<x>> \o b) = FlattenSeq(<<x>>) \o FlattenSeq(b)
    BY <2>2, <2>5, FlattenConcat
  <2>9. FlattenSeq(<<x>>) = x
    BY <2>3, FlattenOne
  <2>10. Behind(c, kinds, n) = FlattenSeq(a) /\ Behind(c, kinds, n + 1) = FlattenSeq(b)
    BY DEF Behind, a, b, ss
  <2> QED  BY <2>7, <2>8, <2>9, <2>10, Zenon DEF x
<1> QED  BY <1>2, <1>3, <1>4

LEMMA BehindAppend ==
    ASSUME NEW c \in Nat, NEW kinds \in Seq(InKinds), NEW k \in InKinds, NEW n \in 0 .. Len(kinds)
    PROVE  Behind(c, Append(kinds, k), n)
             = Behind(c, kinds, n) \o Units(c, Len(kinds) + 1, 0, HdrLen + k.size1 + k.size2)
<1> DEFINE L == Len(kinds)
           more == Append(kinds, k)
           x == Units(c, L + 1, 0, HdrLen + k.size1 + k.size2)
           M == L - n
           a == [i \in 1 .. M |-> Message(c, kinds, n + i)]
           b == [i \in 1 .. Len(more) - n |-> Message(c, more, n + i)]
<1>0. L \in Nat /\ n \in Nat /\ n <= L /\ M \in Nat
  OBVIOUS
<1>1. /\ more \in Seq(InKinds) /\ Len(more) = L + 1
      /\ \A i \in 1 .. L : more[i] = kinds[i]
      /\ more[L + 1] = k
  OBVIOUS
<1> HIDE DEF more
<1>2. \A i \in 1 .. M : n + i \in 1 .. L
  BY <1>0
<1>3. a \in Seq(Seq(UnitSet)) /\ Len(a) = M /\ \A i \in 1 .. M : a[i] = Message(c, kinds, n + i)
  <2>1. \A i \in 1 .. M : Message(c, kinds, n + i) \in Seq(UnitSet)
    BY <1>2, MessageType
  <2> HIDE DEF M
  <2> QED  BY <2>1, <1>0
<1>4. x \in Seq(UnitSet) /\ Message(c, more, L + 1) = x
  <2>1. L + 1 \in 1 .. Len(more)
    BY <1>0, <1>1
  <2>2. Message(c, more, L + 1) \in Seq(UnitSet)
    BY <2>1, <1>1, MessageType
  <2>3. Message(c, more, L + 1) = x
    BY <1>1 DEF Message
  <2> QED  BY <2>2, <2>3, Zenon
<1> HIDE DEF x, a
<1>5. b = Append(a, x)
  <2>0. Len(more) - n = M + 1
    BY <1>0, <1>1
  <2>1. DOMAIN b = 1 .. M + 1 /\ b = [i \in 1 .. M + 1 |-> b[i]] /\ \A i \in 1 .. M + 1 : b[i] = Message(c, more, n + i)
    BY <2>0
  <2>2. /\ Append(a, x) \in Seq(Seq(UnitSet)) /\ Len(Append(a, x)) = M + 1
        /\ \A i \in 1 .. M : Append(a, x)[i] = a[i]
        /\ Append(a, x)[M + 1] = x
    <3> HIDE DEF M
    <3> QED  BY <1>0, <1>3, <1>4, AppendProperties
  <2>3. ASSUME NEW i \in 1 .. M + 1 PROVE b[i] = Append(a, x)[i]
    <3>0. b[i] = Message(c, more, n + i)
      BY <2>1, Zenon
    <3>1. CASE i = M + 1
      <4>1. n + i = L + 1
        BY <3>1, <1>0
      <4> QED  BY <3>0, <3>1, <4>1, <2>2, <1>4, Zenon
    <3>2. CASE i # M + 1
      <4>1. i \in 1 .. M
        BY <3>2, <1>0
      <4>2. Message(c, more, n + i) = Message(c, kinds, n + i)
        BY <4>1, <1>1, <1>2, Zenon DEF Message
      <4> QED  BY <3>0, <4>1, <4>2, <2>2, <1>3, Zenon
    <3> QED  BY <3>1, <3>2
  <2> DEFINE uu == Append(a, x)
  <2> HIDE DEF b, uu, M
  <2>4. uu = [i \in 1 .. M + 1 |-> uu[i]]
    <3>1. uu \in Seq(Seq(UnitSet)) /\ Len(uu) = M + 1
      BY <2>2 DEF uu
    <3>2. uu \in [1 .. Len(uu) -> Seq(UnitSet)]
      BY <3>1, LenProperties
    <3>3. uu = [i \in 1 .. Len(uu) |-> uu[i]]
      BY <3>2
    <3> QED  BY <3>1, <3>3, Zenon
  <2> QED  BY <2>1, <2>3, <2>4, Zenon DEF uu
<1>6. FlattenSeq(Append(a, x)) = FlattenSeq(a) \o x
  BY <1>3, <1>4, FlattenAppend
<1>7. Behind(c, more, n) = FlattenSeq(b) /\ Behind(c, kinds, n) = FlattenSeq(a)
  BY DEF Behind, a
<1> QED  BY <1>5, <1>6, <1>7, Zenon DEF more, x

\* Two ways to put a sequence together agree on a first part of the same length.
LEMMA SameFirst ==
    ASSUME NEW S, NEW a \in Seq(S), NEW b \in Seq(S), NEW c \in Seq(S), NEW d \in Seq(S),
           a \o b = c \o d, Len(a) = Len(c)
    PROVE  a = c /\ b = d
<1>0. Len(a) \in Nat /\ Len(b) \in Nat /\ Len(d) \in Nat
  OBVIOUS
<1>1. \A i \in 1 .. Len(a) + Len(b) : (a \o b)[i] = IF i <= Len(a) THEN a[i] ELSE b[i - Len(a)]
  BY ConcatProperties
<1>2. \A i \in 1 .. Len(a) + Len(d) : (a \o b)[i] = IF i <= Len(a) THEN c[i] ELSE d[i - Len(a)]
  <2>1. \A i \in 1 .. Len(c) + Len(d) : (c \o d)[i] = IF i <= Len(c) THEN c[i] ELSE d[i - Len(c)]
    BY ConcatProperties
  <2> QED  BY <2>1, Zenon
<1>3. \A i \in 1 .. Len(a) : a[i] = c[i]
  <2> SUFFICES ASSUME NEW i \in 1 .. Len(a) PROVE a[i] = c[i]
    OBVIOUS
  <2>1. i <= Len(a) /\ i \in 1 .. Len(a) + Len(b) /\ i \in 1 .. Len(a) + Len(d)
    BY <1>0
  <2> QED  BY <2>1, <1>1, <1>2, Zenon
<1>4. a = c
  BY <1>3, SeqEqual
<1>5. /\ SubSeq(a \o b, Len(a) + 0 + 1, Len(a \o b)) = SubSeq(b, 0 + 1, Len(b))
      /\ SubSeq(c \o d, Len(c) + 0 + 1, Len(c \o d)) = SubSeq(d, 0 + 1, Len(d))
  <2>1. 0 \in Nat
    OBVIOUS
  <2> QED  BY <2>1, CutFirst, ZenonT(40)
<1>6. SubSeq(b, 0 + 1, Len(b)) = b /\ SubSeq(d, 0 + 1, Len(d)) = d
  <2>1. SubSeq(b, 1, Len(b)) = b /\ SubSeq(d, 1, Len(d)) = d
    BY SubSeqFull
  <2>2. 0 + 1 = 1
    OBVIOUS
  <2> QED  BY <2>1, <2>2, Zenon
<1>7. b = d
  BY <1>5, <1>6, Zenon
<1> QED  BY <1>4, <1>7

-----------------------------------------------------------------------------
(* Reading a message *)

IncomingSet ==
    [state : {"NADA", "HEADER_COMING", "HEADER_CAME", "DATA_COMING", "COMPLETE"},
     hdr : Seq(UnitSet), body : Seq(UnitSet)]

\* How far the message i has come.
Reached(i) ==
    /\ Len(i.hdr) <= HdrLen
    /\ i.state = "NADA" => i.hdr = <<>>
    /\ i.state \in {"NADA", "HEADER_COMING", "HEADER_CAME"} => i.body = <<>>
    /\ i.state \in {"HEADER_CAME", "DATA_COMING", "COMPLETE"} => Len(i.hdr) = HdrLen
    /\ i.state \in {"DATA_COMING", "COMPLETE"} =>
          Validated(i.hdr) /\ Len(i.body) <= Sizes(i.hdr)
    /\ i.state = "COMPLETE" => Len(i.body) = Sizes(i.hdr)

\* The message so far, and what waits behind it.
SoFar(i, q) == (i.hdr \o i.body) \o q

\* What a step of the state machine keeps.
Read(o, i, q) ==
    /\ o.inc \in IncomingSet /\ Reached(o.inc)
    /\ o.rx \in Seq(UnitSet) /\ o.ret \in {-1, 0, 1}
    /\ SoFar(o.inc, o.rx) = SoFar(i, q)

LEMMA ReadvLemma ==
    ASSUME NEW q \in Seq(UnitSet), NEW want \in Nat
    PROVE  LET r == Readv(q, want)
           IN  /\ r.got \in Seq(UnitSet) /\ r.rest \in Seq(UnitSet) /\ r.got \o r.rest = q
               /\ Len(r.got) \in Nat /\ Len(r.got) <= want
               /\ r.ret \in {-1, 0, 1} /\ (r.ret = 0 => Len(r.got) = want)
<1> DEFINE n == IF want <= Len(q) THEN want ELSE Len(q)
           r == Readv(q, want)
<1>1. n \in 0 .. Len(q) /\ n \in Nat /\ n <= want
  OBVIOUS
<1>2. /\ r.got = SubSeq(q, 1, n) /\ r.rest = SubSeq(q, n + 1, Len(q))
      /\ r.ret = IF n = want THEN 0 ELSE IF conn = "up" THEN 1 ELSE -1
  BY DEF Readv
<1> HIDE DEF n, r
<1>3. /\ SubSeq(q, 1, n) \in Seq(UnitSet) /\ SubSeq(q, n + 1, Len(q)) \in Seq(UnitSet)
      /\ SubSeq(q, 1, n) \o SubSeq(q, n + 1, Len(q)) = q /\ Len(SubSeq(q, 1, n)) = n
  BY <1>1, Cut
<1>4. /\ r.got \in Seq(UnitSet) /\ r.rest \in Seq(UnitSet) /\ r.got \o r.rest = q /\ Len(r.got) = n
  BY <1>2, <1>3, Zenon
<1>5. r.ret \in {-1, 0, 1} /\ (r.ret = 0 => n = want)
  BY <1>2
<1> QED  BY <1>1, <1>4, <1>5 DEF r

LEMMA HeaderComingLemma ==
    ASSUME NEW i \in IncomingSet, Reached(i), i.state \in {"NADA", "HEADER_COMING"},
           NEW q \in Seq(UnitSet)
    PROVE  Read(HeaderComing(i, q), i, q)
<1> DEFINE h == i.hdr
           want == HdrLen - Len(h)
           r == Readv(q, want)
           o == HeaderComing(i, q)
<1>1. h \in Seq(UnitSet) /\ i.body = <<>> /\ Len(h) \in Nat /\ Len(h) <= HdrLen
  BY DEF IncomingSet, Reached
<1> HIDE DEF h
<1>2. want \in Nat /\ Len(h) + want = HdrLen
  BY <1>1, HdrLenAssumption
<1> HIDE DEF want
<1>3. /\ r.got \in Seq(UnitSet) /\ r.rest \in Seq(UnitSet) /\ r.got \o r.rest = q
      /\ Len(r.got) \in Nat /\ Len(r.got) <= want
      /\ r.ret \in {-1, 0, 1} /\ (r.ret = 0 => Len(r.got) = want)
  BY <1>2, ReadvLemma
<1>4. o = Outcome([i EXCEPT !.hdr = h \o r.got,
                            !.state = IF r.ret = 0 THEN "HEADER_CAME" ELSE "HEADER_COMING"],
                  r.rest, r.ret)
  BY DEF HeaderComing, h, want
<1> HIDE DEF r, o
<1> DEFINE g == h \o r.got
<1>5. g \in Seq(UnitSet) /\ Len(g) = Len(h) + Len(r.got)
  BY <1>1, <1>3, ConcatProperties
<1>6. Len(g) <= HdrLen /\ (r.ret = 0 => Len(g) = HdrLen)
  <2> HIDE DEF g
  <2>1. Len(g) <= HdrLen
    BY <1>1, <1>2, <1>3, <1>5, HdrLenAssumption
  <2>2. ASSUME r.ret = 0 PROVE Len(g) = HdrLen
    BY <2>2, <1>2, <1>3, <1>5, Zenon
  <2> QED  BY <2>1, <2>2
<1> HIDE DEF g
<1>7. /\ o.inc \in IncomingSet /\ o.inc.hdr = g /\ o.inc.body = <<>>
      /\ o.inc.state = IF r.ret = 0 THEN "HEADER_CAME" ELSE "HEADER_COMING"
      /\ o.rx = r.rest /\ o.ret = r.ret
  <2>1. o.inc = [i EXCEPT !.hdr = g, !.state = IF r.ret = 0 THEN "HEADER_CAME" ELSE "HEADER_COMING"]
    BY <1>4 DEF Outcome, g
  <2>2. o.rx = r.rest /\ o.ret = r.ret
    BY <1>4 DEF Outcome
  <2> QED  BY <2>1, <2>2, <1>1, <1>5 DEF IncomingSet
<1>8. Reached(o.inc)
  <2>1. CASE r.ret = 0
    <3>1. o.inc.state = "HEADER_CAME"
      BY <2>1, <1>7, Zenon
    <3> QED  BY <3>1, <2>1, <1>6, <1>7 DEF Reached
  <2>2. CASE r.ret # 0
    <3>1. o.inc.state = "HEADER_COMING"
      BY <2>2, <1>7, Zenon
    <3> QED  BY <3>1, <1>6, <1>7 DEF Reached
  <2> QED  BY <2>1, <2>2
<1>9. SoFar(o.inc, o.rx) = SoFar(i, q)
  <2>1. g \o <<>> = g /\ h \o <<>> = h
    BY <1>1, <1>5, ConcatEmptySeq
  <2>2. (h \o r.got) \o r.rest = h \o (r.got \o r.rest)
    <3>1. PICK got \in Seq(UnitSet), rest \in Seq(UnitSet) : got = r.got /\ rest = r.rest
      BY <1>3, Zenon
    <3>2. h \in Seq(UnitSet)
      BY <1>1
    <3>3. (h \o got) \o rest = h \o (got \o rest)
      BY <3>2, ConcatAssociative, SMTT(40)
    <3> QED  BY <3>1, <3>3, Zenon
  <2>3. SoFar(o.inc, o.rx) = g \o r.rest
    BY <2>1, <1>7, Zenon DEF SoFar
  <2>4. SoFar(i, q) = h \o q
    BY <2>1, <1>1, Zenon DEF SoFar, h
  <2> QED  BY <2>2, <2>3, <2>4, <1>3, Zenon DEF g
<1> QED  BY <1>3, <1>7, <1>8, <1>9, Zenon DEF Read, o

LEMMA SizesType ==
    ASSUME conns \in Nat, sent \in Seq(InKinds), NEW hdr, Validated(hdr)
    PROVE  \E m \in 1 .. Len(sent) :
              /\ hdr = Header(m) /\ hdr[1] = <<conns, m, 1>> /\ Announced(hdr) = sent[m]
              /\ Sizes(hdr) \in Nat /\ Sizes(hdr) = sent[m].size1 + sent[m].size2
<1>1. PICK m \in DOMAIN sent : hdr = Header(m)
  BY DEF Validated
<1>2. m \in 1 .. Len(sent) /\ m \in Nat /\ sent[m] \in InKinds
  OBVIOUS
<1>3. hdr[1] = <<conns, m, 1>>
  <2>1. 1 \in 1 .. HdrLen - 0 /\ 0 + 1 = 1
    BY HdrLenAssumption
  <2> QED  BY <2>1, <1>1 DEF Header, Units
<1>4. Announced(hdr) = sent[m]
  BY <1>3 DEF Announced
<1>5. sent[m].size1 \in Nat /\ sent[m].size2 \in Nat
  BY <1>2, MessagesAssumption
<1>6. Sizes(hdr) \in Nat /\ Sizes(hdr) = sent[m].size1 + sent[m].size2
  BY <1>4, <1>5 DEF Sizes
<1> QED  BY <1>1, <1>2, <1>3, <1>4, <1>6

LEMMA HeaderCameLemma ==
    ASSUME conns \in Nat, sent \in Seq(InKinds),
           NEW i \in IncomingSet, Reached(i), i.state = "HEADER_CAME",
           NEW q \in Seq(UnitSet), NEW mem
    PROVE  Read(HeaderCame(i, q, mem), i, q)
<1> DEFINE o == HeaderCame(i, q, mem)
<1>1. i.hdr \in Seq(UnitSet) /\ i.body = <<>> /\ Len(i.hdr) = HdrLen
  BY DEF IncomingSet, Reached
<1>2. CASE Validated(i.hdr) /\ (mem \/ Announced(i.hdr).size2 = 0)
  <2>1. o = Outcome([i EXCEPT !.state = "DATA_COMING"], q, 0)
    BY <1>2 DEF HeaderCame
  <2>2. /\ o.inc \in IncomingSet /\ o.inc.hdr = i.hdr /\ o.inc.body = i.body
        /\ o.inc.state = "DATA_COMING" /\ o.rx = q /\ o.ret = 0
    BY <2>1, SMTT(40) DEF Outcome, IncomingSet
  <2> HIDE DEF o
  <2>3. Reached(o.inc)
    <3>1. Sizes(i.hdr) \in Nat
      BY <1>2, SizesType
    <3>2. Len(o.inc.body) = 0
      BY <2>2, <1>1
    <3>3. Validated(o.inc.hdr) /\ Len(o.inc.body) <= Sizes(o.inc.hdr)
      <4>1. Validated(o.inc.hdr)
        BY <2>2, <1>2, Zenon
      <4>2. Sizes(o.inc.hdr) \in Nat
        BY <2>2, <3>1, Zenon
      <4> QED  BY <4>1, <4>2, <3>2
    <3>4. Len(o.inc.hdr) = HdrLen /\ HdrLen <= HdrLen
      BY <2>2, <1>1, HdrLenAssumption
    <3> QED  BY <2>2, <3>3, <3>4 DEF Reached
  <2>4. SoFar(o.inc, o.rx) = SoFar(i, q)
    BY <2>2, Zenon DEF SoFar
  <2> QED  BY <2>2, <2>3, <2>4 DEF Read, o
<1>3. CASE ~(Validated(i.hdr) /\ (mem \/ Announced(i.hdr).size2 = 0))
  <2>1. o = Outcome(i, q, -1)
    BY <1>3 DEF HeaderCame
  <2>2. o.inc = i /\ o.rx = q /\ o.ret = -1
    BY <2>1 DEF Outcome
  <2> HIDE DEF o
  <2> QED  BY <2>2 DEF Read, o
<1> QED  BY <1>2, <1>3

LEMMA DataComingLemma ==
    ASSUME conns \in Nat, sent \in Seq(InKinds),
           NEW i \in IncomingSet, Reached(i), i.state = "DATA_COMING",
           NEW q \in Seq(UnitSet)
    PROVE  Read(DataComing(i, q), i, q)
<1> DEFINE h == i.hdr
           b == i.body
           want == Sizes(h) - Len(b)
           r == Readv(q, want)
           o == DataComing(i, q)
<1>1. /\ h \in Seq(UnitSet) /\ b \in Seq(UnitSet) /\ Len(b) \in Nat /\ Len(h) = HdrLen
      /\ Validated(h) /\ Len(b) <= Sizes(h)
  BY DEF IncomingSet, Reached
<1> HIDE DEF h, b
<1>2. Sizes(h) \in Nat
  BY <1>1, SizesType
<1>3. want \in Nat /\ Len(b) + want = Sizes(h)
  BY <1>1, <1>2
<1> HIDE DEF want
<1>4. /\ r.got \in Seq(UnitSet) /\ r.rest \in Seq(UnitSet) /\ r.got \o r.rest = q
      /\ Len(r.got) \in Nat /\ Len(r.got) <= want
      /\ r.ret \in {-1, 0, 1} /\ (r.ret = 0 => Len(r.got) = want)
  BY <1>3, ReadvLemma
<1>5. o = Outcome([i EXCEPT !.body = b \o r.got,
                            !.state = IF r.ret = 0 THEN "COMPLETE" ELSE "DATA_COMING"],
                  r.rest, r.ret)
  BY DEF DataComing, h, b, want
<1> HIDE DEF r, o
<1> DEFINE g == b \o r.got
<1>6. g \in Seq(UnitSet) /\ Len(g) = Len(b) + Len(r.got)
  BY <1>1, <1>4, ConcatProperties
<1>7. Len(g) <= Sizes(h) /\ (r.ret = 0 => Len(g) = Sizes(h))
  <2> HIDE DEF g
  <2>1. Len(g) <= Sizes(h)
    BY <1>1, <1>2, <1>3, <1>4, <1>6
  <2>2. ASSUME r.ret = 0 PROVE Len(g) = Sizes(h)
    BY <2>2, <1>3, <1>4, <1>6, Zenon
  <2> QED  BY <2>1, <2>2
<1> HIDE DEF g
<1>8. /\ o.inc \in IncomingSet /\ o.inc.hdr = h /\ o.inc.body = g
      /\ o.inc.state = IF r.ret = 0 THEN "COMPLETE" ELSE "DATA_COMING"
      /\ o.rx = r.rest /\ o.ret = r.ret
  <2>1. o.inc = [i EXCEPT !.body = g, !.state = IF r.ret = 0 THEN "COMPLETE" ELSE "DATA_COMING"]
    BY <1>5 DEF Outcome, g
  <2>2. o.rx = r.rest /\ o.ret = r.ret
    BY <1>5 DEF Outcome
  <2> QED  BY <2>1, <2>2, <1>6 DEF IncomingSet, h
<1>9. Reached(o.inc)
  <2>0. Len(h) <= HdrLen
    BY <1>1, HdrLenAssumption
  <2>1. CASE r.ret = 0
    <3>1. o.inc.state = "COMPLETE"
      BY <2>1, <1>8, Zenon
    <3>2. Len(g) = Sizes(h) /\ Len(g) <= Sizes(h)
      BY <2>1, <1>7, Zenon
    <3> QED  BY <3>1, <3>2, <2>0, <1>1, <1>8 DEF Reached
  <2>2. CASE r.ret # 0
    <3>1. o.inc.state = "DATA_COMING"
      BY <2>2, <1>8, Zenon
    <3> QED  BY <3>1, <2>0, <1>1, <1>7, <1>8 DEF Reached
  <2> QED  BY <2>1, <2>2
<1>10. SoFar(o.inc, o.rx) = SoFar(i, q)
  <2>0. PICK got \in Seq(UnitSet), rest \in Seq(UnitSet) : got = r.got /\ rest = r.rest
    BY <1>4, Zenon
  <2>h. h \in Seq(UnitSet) /\ b \in Seq(UnitSet)
    BY <1>1
  <2>1. (h \o b) \o r.got = h \o (b \o r.got)
    <3>1. (h \o b) \o got = h \o (b \o got)
      BY <2>h, ConcatAssociative, SMTT(40)
    <3> QED  BY <3>1, <2>0, Zenon
  <2>2. h \o b \in Seq(UnitSet)
    BY <2>h, ConcatProperties
  <2>3. ((h \o b) \o r.got) \o r.rest = (h \o b) \o (r.got \o r.rest)
    <3>1. ((h \o b) \o got) \o rest = (h \o b) \o (got \o rest)
      <4> DEFINE a == h \o b
      <4>1. a \in Seq(UnitSet)
        BY <2>2
      <4> HIDE DEF a
      <4>2. (a \o got) \o rest = a \o (got \o rest)
        BY <4>1, ConcatAssociative, SMTT(40)
      <4> QED  BY <4>2 DEF a
    <3> QED  BY <3>1, <2>0, Zenon
  <2>4. SoFar(o.inc, o.rx) = (h \o g) \o r.rest
    BY <1>8, Zenon DEF SoFar
  <2>5. SoFar(i, q) = (h \o b) \o q
    BY Zenon DEF SoFar, h, b
  <2> QED  BY <2>1, <2>3, <2>4, <2>5, <1>4, Zenon DEF g
<1> QED  BY <1>4, <1>8, <1>9, <1>10, Zenon DEF Read, o

\* __socket_proto_state_machine loses and invents nothing.
LEMMA StateMachineLemma ==
    ASSUME conns \in Nat, sent \in Seq(InKinds),
           incoming \in IncomingSet, Reached(incoming), rx \in Seq(UnitSet), NEW mem
    PROVE  Read(StateMachine(mem), incoming, rx)
<1> DEFINE o1 == IF incoming.state \in {"NADA", "HEADER_COMING"} THEN HeaderComing(incoming, rx)
                 ELSE Outcome(incoming, rx, IF incoming.state = "COMPLETE" THEN -1 ELSE 0)
           o2 == IF o1.ret = 0 /\ o1.inc.state = "HEADER_CAME" THEN HeaderCame(o1.inc, o1.rx, mem)
                 ELSE o1
           o3 == IF o2.ret = 0 /\ o2.inc.state = "DATA_COMING" THEN DataComing(o2.inc, o2.rx) ELSE o2
<1>1. Read(o1, incoming, rx)
  <2>1. CASE incoming.state \in {"NADA", "HEADER_COMING"}
    BY <2>1, HeaderComingLemma
  <2>2. CASE ~(incoming.state \in {"NADA", "HEADER_COMING"})
    <3>1. PICK r \in {-1, 0, 1} : o1 = Outcome(incoming, rx, r)
      BY <2>2
    <3>2. o1.inc = incoming /\ o1.rx = rx /\ o1.ret = r
      BY <3>1 DEF Outcome
    <3> HIDE DEF o1
    <3> QED  BY <3>2 DEF Read
  <2> QED  BY <2>1, <2>2
<1> HIDE DEF o1
<1>2. Read(o2, incoming, rx)
  <2>1. CASE o1.ret = 0 /\ o1.inc.state = "HEADER_CAME"
    <3>1. Read(HeaderCame(o1.inc, o1.rx, mem), o1.inc, o1.rx)
      BY <2>1, <1>1, HeaderCameLemma DEF Read
    <3> QED  BY <3>1, <2>1, <1>1 DEF Read
  <2>2. CASE ~(o1.ret = 0 /\ o1.inc.state = "HEADER_CAME")
    BY <2>2, <1>1
  <2> QED  BY <2>1, <2>2
<1> HIDE DEF o2
<1>3. Read(o3, incoming, rx)
  <2>1. CASE o2.ret = 0 /\ o2.inc.state = "DATA_COMING"
    <3>1. Read(DataComing(o2.inc, o2.rx), o2.inc, o2.rx)
      BY <2>1, <1>2, DataComingLemma DEF Read
    <3> QED  BY <3>1, <2>1, <1>2 DEF Read
  <2>2. CASE ~(o2.ret = 0 /\ o2.inc.state = "DATA_COMING")
    BY <2>2, <1>2
  <2> QED  BY <2>1, <2>2
<1>4. StateMachine(mem) = o3
  BY DEF StateMachine, o1, o2
<1> QED  BY <1>3, <1>4, Zenon

-----------------------------------------------------------------------------
(* The inductive invariant *)

\* The variables of the control have their types.
ControlTyped ==
    /\ sock \in BOOLEAN /\ registered \in BOOLEAN /\ pollout \in BOOLEAN
    /\ connected \in {0, 1, 255}
    /\ refcount \in Nat /\ freed \in BOOLEAN /\ holds \subseteq Threads
    /\ pc \in [Threads -> {"idle", "lookup"}]
    /\ hpc \in {"idle", "finish", "out", "in", "err", "unref"}
    /\ ev \in [in : BOOLEAN, out : BOOLEAN, err : BOOLEAN]
    /\ ret \in {-1, 0, 1}
    /\ conn \in {"none", "connecting", "up", "fin", "broken"}
    /\ conns \in 0 .. MaxConns

\* A closed socket has nothing left of its connection; a registered socket is open;
\* a running handler serves a registered one.
ClosedClean ==
    /\ ~sock => /\ connected = 255 /\ ~registered /\ conn = "none"
                /\ ioq = <<>> /\ incoming = Nada
                /\ wire = <<>> /\ flight = <<>> /\ rx = <<>>
                /\ accepted = <<>> /\ sent = <<>> /\ received = <<>>
    /\ sock => conn # "none" /\ conns > 0
    /\ registered => sock
    /\ hpc \in {"finish", "out", "in", "err"} => registered

\* A connected socket is registered, unless no client has a reference; it has output
\* only from when it was connected.
QueueWatched ==
    /\ connected = 1 => conn \in {"up", "fin", "broken"} /\ (registered \/ holds = {})
    /\ connected = 0 => ioq = <<>>
    /\ ioq # <<>> => registered
    /\ connected = 1 /\ ioq # <<>> => pollout \/ conn = "broken"

\* Every reference has an owner.
RefsOwned ==
    /\ refcount = Cardinality(holds) + (IF sock THEN 1 ELSE 0) + (IF hpc = "unref" THEN 1 ELSE 0)
    /\ freed <=> refcount = 0

Control == ControlTyped /\ ClosedClean /\ QueueWatched /\ RefsOwned

\* What was written and what waits is what was submitted.
Output(q, sizes, w, c) ==
    /\ Queue(q) /\ sizes \in Seq(Nat) /\ Len(sizes) <= MaxOut /\ w \in Seq(UnitSet)
    /\ w \o Rest(q) = Submitted(c, sizes)

\* The message that is being read, what waits in the kernel and what is on its way
\* are what the peer sent behind the messages that were received.
Input ==
    /\ incoming \in IncomingSet /\ Reached(incoming)
    /\ rx \in Seq(UnitSet) /\ flight \in Seq(UnitSet)
    /\ sent \in Seq(InKinds)
    /\ received \in Seq(Seq(UnitSet)) /\ Len(received) <= Len(sent)
    /\ SoFar(incoming, rx) \o flight = Behind(conns, sent, Len(received))
    /\ ReceiveFramed

SocketInv == Control /\ Output(ioq, accepted, wire, conns) /\ Input

-----------------------------------------------------------------------------
(* The control *)

LEMMA HoldsFinite ==
    ASSUME ControlTyped
    PROVE  IsFiniteSet(holds) /\ Cardinality(holds) \in Nat
<1>1. IsFiniteSet(holds)
  BY ThreadsAssumption, FS_Subset DEF ControlTyped
<1> QED  BY <1>1, FS_CardinalityType

LEMMA ClientControl ==
    ASSUME Control, NEW t \in Threads,
           \/ ConnectCheck(t)
           \/ ConnectFails(t)
           \/ \E ok \in BOOLEAN : ConnectDo(t, ok)
           \/ socket_disconnect(t)
           \/ \E v \in OutVectors : socket_submit(t, v)
           \/ socket_receive(t)
           \/ transport_unref(t)
    PROVE  Control'
<1> USE DEF Control
<1>0. IsFiniteSet(holds) /\ Cardinality(holds) \in Nat
  BY HoldsFinite
<1>1. CASE ConnectCheck(t) \/ ConnectFails(t)
  <2>1. UNCHANGED <<priv, pool, life, handler, kernel, history>> /\ pc' \in [Threads -> {"idle", "lookup"}]
    BY <1>1 DEF ConnectCheck, ConnectFails, ControlTyped
  <2> USE <2>1 DEF priv, pool, life, handler, kernel, history
  <2>2. ControlTyped'
    BY DEF ControlTyped
  <2>3. ClosedClean' /\ QueueWatched' /\ RefsOwned'
    BY DEF ClosedClean, QueueWatched, RefsOwned
  <2> QED  BY <2>2, <2>3
<1>2. ASSUME NEW ok \in BOOLEAN, ConnectDo(t, ok) PROVE Control'
  <2>1. ~sock /\ conns < MaxConns /\ Connecting(t, ok) /\ ioq = <<>>
    BY <1>2 DEF ConnectDo, ClosedClean
  <2> USE DEF Connecting
  <2>2. ControlTyped'
    <3>1. conns + 1 \in 0 .. MaxConns /\ refcount + 1 \in Nat
      BY <2>1, BoundsAssumption DEF ControlTyped
    <3> QED  BY <2>1, <3>1 DEF ControlTyped, handler
  <2>3. ClosedClean'
    <3>1. conns + 1 > 0
      BY DEF ControlTyped
    <3> QED  BY <2>1, <3>1 DEF ClosedClean, handler
  <2>4. QueueWatched'
    BY <2>1 DEF QueueWatched
  <2>5. RefsOwned'
    <3>1. /\ refcount = Cardinality(holds) + 0 + (IF hpc = "unref" THEN 1 ELSE 0)
          /\ (freed <=> refcount = 0) /\ t \in holds /\ refcount \in Nat
      BY <2>1, <1>2 DEF RefsOwned, ConnectDo, Calls, ControlTyped
    <3>2. Cardinality(holds) # 0
      BY <3>1, <1>0, FS_EmptySet
    <3>3. /\ refcount' = refcount + 1 /\ holds' = holds /\ sock' = TRUE /\ hpc' = hpc /\ freed' = freed
      BY <2>1 DEF handler
    <3>4. freed' <=> refcount' = 0
      <4>1. refcount # 0 /\ refcount + 1 # 0
        BY <3>1, <3>2, <1>0
      <4> QED  BY <4>1, <3>1, <3>3, Zenon
    <3>5. refcount + 1 = Cardinality(holds) + 1 + (IF hpc = "unref" THEN 1 ELSE 0)
      BY <3>1, <1>0
    <3> QED  BY <3>3, <3>4, <3>5 DEF RefsOwned
  <2> QED  BY <2>2, <2>3, <2>4, <2>5
<1>3. CASE socket_disconnect(t)
  <2> USE <1>3 DEF socket_disconnect, Disconnected, pool, life, handler, history
  <2>1. ControlTyped'
    BY DEF ControlTyped
  <2>2. ClosedClean'
    BY DEF ClosedClean
  <2>3. QueueWatched' /\ RefsOwned'
    BY DEF QueueWatched, RefsOwned
  <2> QED  BY <2>1, <2>2, <2>3
<1>4. ASSUME NEW v \in OutVectors, socket_submit(t, v) PROVE Control'
  <2>1. /\ connected = 1 /\ t \in holds
        /\ UNCHANGED <<sock, connected, incoming, registered, life, pc, handler, conn, flight, rx,
                       sent, received, conns>>
    BY <1>4 DEF socket_submit, Calls
  <2>2. registered /\ sock
    BY <2>1 DEF QueueWatched, ClosedClean
  <2>3. pollout' \in BOOLEAN
    BY <1>4, ZenonT(40) DEF socket_submit, ControlTyped
  <2>4. ioq' # <<>> => pollout' \/ conn = "broken"
    <3>1. CASE pollout' = (pollout \/ ioq' # <<>>)
      BY <3>1
    <3>2. CASE ioq = <<>> /\ ~Writable /\ pollout' = pollout
      BY <3>2, <2>1 DEF Writable, QueueWatched
    <3>3. CASE ioq # <<>> /\ pollout' = pollout
      BY <3>3, <2>1 DEF QueueWatched
    <3> QED  BY <3>1, <3>2, <3>3, <1>4 DEF socket_submit
  <2> USE DEF life, handler
  <2>5. ControlTyped'
    BY <2>1, <2>3 DEF ControlTyped
  <2>6. ClosedClean'
    BY <2>1, <2>2 DEF ClosedClean
  <2>7. QueueWatched'
    BY <2>1, <2>2, <2>4 DEF QueueWatched
  <2>8. RefsOwned'
    BY <2>1 DEF RefsOwned
  <2> QED  BY <2>5, <2>6, <2>7, <2>8
<1>5. CASE socket_receive(t)
  <2>1. /\ connected = 1
        /\ UNCHANGED <<sock, connected, ioq, pool, life, pc, handler, kernel, accepted, sent, conns>>
    BY <1>5 DEF socket_receive
  <2>2. sock
    BY <2>1 DEF ClosedClean
  <2> USE DEF pool, life, handler, kernel
  <2>3. ControlTyped'
    BY <2>1 DEF ControlTyped
  <2>4. ClosedClean'
    BY <2>1, <2>2 DEF ClosedClean
  <2>5. QueueWatched' /\ RefsOwned'
    BY <2>1 DEF QueueWatched, RefsOwned
  <2> QED  BY <2>3, <2>4, <2>5
<1>6. CASE transport_unref(t)
  <2>1. /\ t \in holds /\ refcount' = refcount - 1 /\ freed' = (refcount = 1) /\ holds' = holds \ {t}
        /\ UNCHANGED <<priv, pool, pc, handler, kernel, history>>
    BY <1>6 DEF transport_unref, Unref, Calls
  <2> USE DEF priv, pool, handler, kernel, history
  <2>2. Cardinality(holds \ {t}) = Cardinality(holds) - 1 /\ Cardinality(holds \ {t}) \in Nat
    <3>1. IsFiniteSet(holds \ {t})
      BY <1>0, FS_Subset
    <3> QED  BY <3>1, <2>1, <1>0, FS_RemoveElement, FS_CardinalityType
  <2>3. refcount = Cardinality(holds) + (IF sock THEN 1 ELSE 0) + (IF hpc = "unref" THEN 1 ELSE 0)
    BY DEF RefsOwned
  <2>4. refcount - 1 = Cardinality(holds \ {t}) + (IF sock THEN 1 ELSE 0) + (IF hpc = "unref" THEN 1 ELSE 0)
    BY <2>2, <2>3, <1>0
  <2>5. refcount - 1 \in Nat
    BY <2>2, <2>4
  <2>6. ControlTyped'
    BY <2>1, <2>5 DEF ControlTyped
  <2>7. ClosedClean'
    BY <2>1 DEF ClosedClean
  <2>8. QueueWatched'
    BY <2>1 DEF QueueWatched
  <2>9. RefsOwned'
    <3>1. freed' <=> refcount' = 0
      <4>1. refcount \in Nat
        BY DEF ControlTyped
      <4>2. (refcount = 1) <=> (refcount - 1 = 0)
        BY <4>1
      <4> QED  BY <4>2, <2>1, Zenon
    <3> QED  BY <3>1, <2>1, <2>4 DEF RefsOwned
  <2> QED  BY <2>6, <2>7, <2>8, <2>9
<1> QED  BY <1>1, <1>2, <1>3, <1>4, <1>5, <1>6

LEMMA HandlerControl ==
    ASSUME Control, Input,
           \/ \E room \in BOOLEAN : Dispatch(room)
           \/ HandlerStep
    PROVE  Control'
<1> USE DEF Control
<1>1. ASSUME NEW room \in BOOLEAN, Dispatch(room) PROVE Control'
  <2>1. /\ hpc = "idle" /\ registered /\ hpc' = "finish" /\ ret' = 0
        /\ ev' = [in  |-> rx # <<>> \/ conn \in {"fin", "broken"},
                  out |-> pollout /\ (room \/ conn = "broken"),
                  err |-> conn = "broken"]
        /\ UNCHANGED <<priv, pool, life, pc, kernel, history>>
    BY <1>1 DEF Dispatch
  <2>2. ev' \in [in : BOOLEAN, out : BOOLEAN, err : BOOLEAN]
    <3>1. pollout \in BOOLEAN
      BY DEF ControlTyped
    <3>2. /\ (rx # <<>> \/ conn \in {"fin", "broken"}) \in BOOLEAN
          /\ (pollout /\ (room \/ conn = "broken")) \in BOOLEAN
          /\ (conn = "broken") \in BOOLEAN
      OBVIOUS
    <3> QED  BY <2>1, <3>1, <3>2
  <2> USE DEF priv, pool, life, kernel, history
  <2>3. ControlTyped'
    BY <2>1, <2>2 DEF ControlTyped
  <2>4. ClosedClean'
    BY <2>1 DEF ClosedClean
  <2>5. QueueWatched' /\ RefsOwned'
    BY <2>1 DEF QueueWatched, RefsOwned
  <2> QED  BY <2>3, <2>4, <2>5
<1>2. ASSUME NEW named \in BOOLEAN, ConnectFinish(named) PROVE Control'
  <2>1. /\ hpc = "finish" /\ hpc' = "out"
        /\ \/ connected' = connected /\ conn' = conn
           \/ connected = 0 /\ conn \in {"up", "fin"} /\ connected' = 1 /\ conn' = conn
           \/ connected = 0 /\ connected' = 255 /\ conn' = "broken"
        /\ UNCHANGED <<sock, ioq, incoming, pool, life, pc, ev, ret, wire, flight, rx, history>>
    BY <1>2 DEF ConnectFinish, Writable, Disconnected
  <2>2. registered /\ sock
    BY <2>1 DEF ClosedClean
  <2> USE DEF pool, life, history
  <2>3. ControlTyped'
    BY <2>1 DEF ControlTyped
  <2>4. ClosedClean'
    BY <2>1, <2>2 DEF ClosedClean
  <2>5. QueueWatched'
    BY <2>1, <2>2 DEF QueueWatched
  <2>6. RefsOwned'
    BY <2>1 DEF RefsOwned
  <2> QED  BY <2>3, <2>4, <2>5, <2>6
<1>3. ASSUME NEW n \in 0 .. Len(Rest(ioq)), PollOut(n) PROVE Control'
  <2>1. /\ hpc = "out" /\ hpc' = "in"
        /\ UNCHANGED <<sock, incoming, registered, life, pc, ev, flight, rx, history>>
    BY <1>3 DEF PollOut
  <2>2. registered /\ sock
    BY <2>1 DEF ClosedClean
  <2>3. /\ ret' \in {-1, 0, 1} /\ pollout' \in BOOLEAN
        /\ \/ connected' = connected /\ conn' = conn
           \/ connected' = 255 /\ conn' = "broken"
        /\ connected' = 0 => ioq' = <<>>
        /\ connected' = 1 /\ ioq' # <<>> => pollout' \/ conn' = "broken"
    <3>1. CASE ~ev.out /\ n = 0 /\ UNCHANGED <<connected, ioq, pollout, wire, conn, ret>>
      BY <3>1 DEF ControlTyped, QueueWatched
    <3>2. CASE ev.out /\ connected # 1 /\ n = 0 /\ ret' = -1 /\ UNCHANGED <<connected, ioq, pollout, wire, conn>>
      BY <3>2 DEF ControlTyped, QueueWatched
    <3>3. CASE ev.out /\ connected = 1 /\ (Writable \/ ioq = <<>>) /\ Churn(n) /\ UNCHANGED <<connected, conn>>
      <4>1. /\ pollout' = (pollout /\ ioq' # <<>>)
            /\ ret' = IF ioq' = <<>> THEN 0 ELSE 1
            /\ connected = 1 /\ (Writable \/ ioq = <<>>) /\ connected' = connected /\ conn' = conn
            /\ ioq' = Churned(ioq, n)
        BY <3>3 DEF Churn
      <4>2. pollout' \in BOOLEAN /\ ret' \in {-1, 0, 1}
        BY <4>1 DEF ControlTyped
      <4>3. ioq' # <<>> => pollout' \/ conn' = "broken"
        <5>1. CASE ioq = <<>>
          <6>1. Churned(<<>>, n) = <<>>
            BY <5>1, <1>3, ChurnedEmpty
          <6> QED  BY <4>1, <5>1, <6>1
        <5>2. CASE ioq # <<>>
          BY <4>1, <5>2 DEF Writable, QueueWatched
        <5> QED  BY <5>1, <5>2
      <4> QED  BY <4>1, <4>2, <4>3
    <3>4. CASE ev.out /\ connected = 1 /\ n = 0 /\ ChurnFails
      BY <3>4 DEF ChurnFails, Disconnected, ControlTyped
    <3> QED  BY <3>1, <3>2, <3>3, <3>4, <1>3 DEF PollOut
  <2> USE DEF life, history
  <2>4. ControlTyped'
    BY <2>1, <2>3 DEF ControlTyped
  <2>5. ClosedClean'
    BY <2>1, <2>2, <2>3 DEF ClosedClean
  <2>6. QueueWatched'
    BY <2>1, <2>2, <2>3 DEF QueueWatched
  <2>7. RefsOwned'
    BY <2>1 DEF RefsOwned
  <2> QED  BY <2>4, <2>5, <2>6, <2>7
<1>4. ASSUME NEW mem \in BOOLEAN, PollIn(mem) PROVE Control'
  <2>1. /\ hpc = "in" /\ hpc' = "err"
        /\ UNCHANGED <<sock, connected, ioq, pool, life, pc, ev, conn, wire, flight, history>>
    BY <1>4 DEF PollIn
  <2>2. registered /\ sock
    BY <2>1 DEF ClosedClean
  <2>3. ret' \in {-1, 0, 1}
    <3>1. CASE ret = 0 /\ ev.in
      <4>1. ret' = StateMachine(mem).ret
        BY <3>1, <1>4 DEF PollIn
      <4>2. Read(StateMachine(mem), incoming, rx)
        <5>1. conns \in Nat
          BY BoundsAssumption DEF ControlTyped
        <5> QED  BY <5>1, StateMachineLemma DEF Input
      <4> QED  BY <4>1, <4>2 DEF Read
    <3>2. CASE ~(ret = 0 /\ ev.in)
      BY <3>2, <1>4 DEF PollIn, ControlTyped
    <3> QED  BY <3>1, <3>2
  <2> USE DEF pool, life, history
  <2>4. ControlTyped'
    BY <2>1, <2>3 DEF ControlTyped
  <2>5. ClosedClean'
    BY <2>1, <2>2 DEF ClosedClean
  <2>6. QueueWatched' /\ RefsOwned'
    BY <2>1 DEF QueueWatched, RefsOwned
  <2> QED  BY <2>4, <2>5, <2>6
<1>5. CASE PollErr
  <2>1. /\ hpc = "err" /\ hpc' = "unref" /\ Reset /\ ioq' = <<>>
        /\ UNCHANGED <<life, pc, ev, ret, conns>>
    BY <1>5 DEF PollErr
  <2>2. sock
    BY <2>1 DEF ClosedClean
  <2> USE DEF life, Reset
  <2>3. ControlTyped'
    BY <2>1, ZenonT(40) DEF ControlTyped
  <2>4. ClosedClean'
    BY <2>1 DEF ClosedClean
  <2>5. QueueWatched'
    BY <2>1 DEF QueueWatched
  <2>6. RefsOwned'
    <3>1. refcount = Cardinality(holds) + 1 + 0 /\ (freed <=> refcount = 0)
      BY <2>1, <2>2 DEF RefsOwned
    <3>2. Cardinality(holds) \in Nat
      BY HoldsFinite
    <3>3. refcount = Cardinality(holds) + 0 + 1
      BY <3>1, <3>2
    <3> QED  BY <2>1, <3>1, <3>3 DEF RefsOwned
  <2> QED  BY <2>3, <2>4, <2>5, <2>6
<1>6. CASE HandlerDone
  <2>1. /\ hpc = "err" /\ hpc' = "idle"
        /\ UNCHANGED <<priv, pool, life, pc, ev, ret, kernel, history>>
    BY <1>6 DEF HandlerDone
  <2> USE DEF priv, pool, life, kernel, history
  <2>2. ControlTyped'
    BY <2>1 DEF ControlTyped
  <2>3. ClosedClean'
    BY <2>1 DEF ClosedClean
  <2>4. QueueWatched' /\ RefsOwned'
    BY <2>1 DEF QueueWatched, RefsOwned
  <2> QED  BY <2>2, <2>3, <2>4
<1>7. CASE HandlerUnref
  <2>1. /\ hpc = "unref" /\ hpc' = "idle" /\ refcount' = refcount - 1 /\ freed' = (refcount = 1)
        /\ UNCHANGED <<priv, pool, holds, pc, ev, ret, kernel, history>>
    BY <1>7 DEF HandlerUnref, Unref
  <2>2. refcount = Cardinality(holds) + (IF sock THEN 1 ELSE 0) + 1
    BY <2>1 DEF RefsOwned
  <2>3. Cardinality(holds) \in Nat /\ refcount \in Nat
    BY HoldsFinite DEF ControlTyped
  <2>4. /\ refcount - 1 \in Nat
        /\ refcount - 1 = Cardinality(holds) + (IF sock THEN 1 ELSE 0) + 0
    BY <2>2, <2>3
  <2> USE DEF priv, pool, kernel, history
  <2>5. ControlTyped'
    BY <2>1, <2>4 DEF ControlTyped
  <2>6. ClosedClean'
    BY <2>1 DEF ClosedClean
  <2>7. QueueWatched'
    BY <2>1 DEF QueueWatched
  <2>8. RefsOwned'
    <3>1. (refcount = 1) <=> (refcount - 1 = 0)
      BY <2>3
    <3>2. freed' <=> refcount' = 0
      BY <3>1, <2>1, Zenon
    <3> QED  BY <3>2, <2>1, <2>4 DEF RefsOwned
  <2> QED  BY <2>5, <2>6, <2>7, <2>8
<1> QED  BY <1>1, <1>2, <1>3, <1>4, <1>5, <1>6, <1>7 DEF HandlerStep

LEMMA PeerControl ==
    ASSUME Control, Peer
    PROVE  Control'
<1> USE DEF Control
<1>1. /\ UNCHANGED env
      /\ \/ conn' = conn
         \/ conn = "connecting" /\ conn' = "up"
         \/ conn \in {"connecting", "up", "fin"} /\ conn' = "broken"
         \/ conn = "up" /\ conn' = "fin"
      /\ conn # "none"
  BY DEF Peer, Establish, Break, PeerSend, Arrive, PeerFin
<1> USE DEF env, priv, pool, life, handler
<1>2. ControlTyped'
  BY <1>1 DEF ControlTyped
<1>3. ClosedClean'
  <2>1. sock
    BY <1>1 DEF ClosedClean, ControlTyped
  <2> QED  BY <2>1, <1>1 DEF ClosedClean
<1>4. QueueWatched'
  BY <1>1 DEF QueueWatched
<1>5. RefsOwned'
  BY <1>1 DEF RefsOwned
<1> QED  BY <1>2, <1>3, <1>4, <1>5

-----------------------------------------------------------------------------
(* The outgoing stream *)

LEMMA OutputEmpty ==
    ASSUME NEW c
    PROVE  Output(<<>>, <<>>, <<>>, c)
<1>1. <<>> \in Seq(Entries) /\ Queue(<<>>) /\ <<>> \in Seq(Nat) /\ <<>> \in Seq(UnitSet) /\ Len(<<>>) <= MaxOut
  BY BoundsAssumption DEF Queue
<1>2. Rest(<<>>) = <<>>
  <2>1. [i \in DOMAIN <<>> |-> Waiting(<<>>[i])] = <<>>
    OBVIOUS
  <2>2. Pieces(<<>>) = <<>>
    BY <2>1 DEF Pieces
  <2> QED  BY <1>1, <2>2, RestType, FlattenEmpty, Zenon
<1>3. Submitted(c, <<>>) = <<>>
  <2>1. [m \in DOMAIN <<>> |-> Units(c, m, 0, <<>>[m])] = <<>>
    OBVIOUS
  <2> QED  BY <2>1, FlattenEmpty, Zenon DEF Submitted
<1>4. <<>> \o <<>> = <<>>
  OBVIOUS
<1> QED  BY <1>1, <1>2, <1>3, <1>4, Zenon DEF Output

\* A write of n units.
LEMMA OutputWritten ==
    ASSUME NEW q, NEW sizes, NEW w, NEW c, Queue(q), sizes \in Seq(Nat), Len(sizes) <= MaxOut,
           w \in Seq(UnitSet), w \o Rest(q) = Submitted(c, sizes),
           NEW n \in 0 .. Len(Rest(q))
    PROVE  Output(Churned(q, n), sizes, w \o SubSeq(Rest(q), 1, n), c)
<1>1. PICK a, r : a = SubSeq(Rest(q), 1, n) /\ r = Churned(q, n)
  OBVIOUS
<1>2. Queue(r) /\ a \in Seq(UnitSet) /\ a \o Rest(r) = Rest(q)
  BY <1>1, ChurnedLemma, Zenon
<1>3. PICK b : b = Rest(r)
  OBVIOUS
<1>4. b \in Seq(UnitSet)
  <2>1. r \in Seq(Entries)
    BY <1>2 DEF Queue
  <2> QED  BY <2>1, <1>3, RestType
<1>5. (w \o a) \o b = w \o (a \o b)
  BY <1>2, <1>4, ConcatAssociative, SMTT(40)
<1>6. w \o a \in Seq(UnitSet)
  BY <1>2, ConcatProperties
<1> QED  BY <1>1, <1>2, <1>3, <1>5, <1>6, Zenon DEF Output

\* The entry of a new message: all of it waits.
LEMMA EntryLemma ==
    ASSUME ControlTyped, conns > 0, accepted \in Seq(Nat), Len(accepted) < MaxOut,
           NEW v \in OutVectors
    PROVE  /\ Entry(v) \in Entries /\ Entry(v).size \in Nat
           /\ Queue(<<Entry(v)>>) /\ Entry(v).vec # <<>> /\ Entry(v).vec[1] > 0
           /\ Waiting(Entry(v)) = Units(conns, Len(accepted) + 1, 0, Entry(v).size)
           /\ Append(accepted, Entry(v).size) \in Seq(Nat)
           /\ Len(Append(accepted, Entry(v).size)) <= MaxOut
<1> DEFINE e == Entry(v)
<1>1. v \in Seq(Nat) /\ Total(v) \in Nat
  BY MessagesAssumption, TotalType
<1>2. <<HdrLen>> \o v \in Seq(Nat) /\ Total(<<HdrLen>> \o v) = HdrLen + Total(v)
  BY <1>1, HdrLenAssumption, TotalCons
<1>3. /\ e.conn = conns /\ e.msg = Len(accepted) + 1 /\ e.size = HdrLen + Total(v)
      /\ e.vec = <<HdrLen>> \o v
  BY DEF Entry
<1>4. conns \in 1 .. MaxConns /\ Len(accepted) + 1 \in 1 .. MaxOut /\ HdrLen + Total(v) \in Nat /\ Len(accepted) \in Nat
  BY <1>1, HdrLenAssumption, BoundsAssumption DEF ControlTyped
<1>5. e \in Entries
  BY <1>2, <1>4 DEF Entry, Entries
<1>6. e.vec # <<>> /\ e.vec[1] > 0
  <2>1. (<<HdrLen>> \o v)[1] = HdrLen /\ <<HdrLen>> \o v # <<>> /\ HdrLen > 0
    BY <1>1, HdrLenAssumption
  <2> QED  BY <2>1, <1>3
<1> HIDE DEF e
<1>7. Queue(<<e>>)
  <2>1. <<e>> \in Seq(Entries) /\ DOMAIN <<e>> = {1} /\ <<e>>[1] = e
    BY <1>5
  <2>2. \A i \in DOMAIN <<e>> : <<e>>[i].vec # <<>> /\ <<e>>[i].vec[1] > 0
    BY <2>1, <1>6
  <2> QED  BY <2>1, <2>2, Zenon DEF Queue
<1>8. Waiting(e) = Units(conns, Len(accepted) + 1, 0, e.size)
  <2>1. Total(e.vec) = e.size /\ e.size \in Nat
    BY <1>2, <1>3, <1>4
  <2>2. e.size - Total(e.vec) = 0
    BY <2>1
  <2> QED  BY <2>2, <1>3 DEF Waiting
<1>9. e.size \in Nat
  BY <1>3, <1>4
<1>10. Append(accepted, e.size) \in Seq(Nat) /\ Len(Append(accepted, e.size)) <= MaxOut
  <2>1. Append(accepted, e.size) \in Seq(Nat) /\ Len(Append(accepted, e.size)) = Len(accepted) + 1
    BY <1>9, AppendProperties
  <2> QED  BY <2>1, <1>4, BoundsAssumption
<1> QED  BY <1>5, <1>6, <1>7, <1>8, <1>9, <1>10 DEF e

\* A message that joins the queue.
LEMMA OutputQueued ==
    ASSUME ControlTyped, conns > 0, Output(ioq, accepted, wire, conns), Len(accepted) < MaxOut,
           NEW v \in OutVectors, NEW r, r \in {<<Entry(v)>>, Failed(<<Entry(v)>>)}
    PROVE  /\ Queue(r) /\ Rest(r) = Waiting(Entry(v))
           /\ Append(accepted, Entry(v).size) \in Seq(Nat)
           /\ Len(Append(accepted, Entry(v).size)) <= MaxOut
           /\ wire \o (Rest(ioq) \o Waiting(Entry(v))) = Submitted(conns, Append(accepted, Entry(v).size))
           /\ Rest(ioq) \in Seq(UnitSet) /\ Waiting(Entry(v)) \in Seq(UnitSet)
<1> DEFINE e == Entry(v)
<1>0. /\ Queue(ioq) /\ accepted \in Seq(Nat) /\ wire \in Seq(UnitSet)
      /\ wire \o Rest(ioq) = Submitted(conns, accepted)
  BY DEF Output
<1>1. /\ e \in Entries /\ e.size \in Nat /\ Queue(<<e>>)
      /\ Waiting(e) = Units(conns, Len(accepted) + 1, 0, e.size)
      /\ Append(accepted, e.size) \in Seq(Nat) /\ Len(Append(accepted, e.size)) <= MaxOut
  BY <1>0, EntryLemma
<1> HIDE DEF e
<1>2. Rest(<<e>>) = Waiting(e) /\ Waiting(e) \in Seq(UnitSet)
  BY <1>1, RestOne, WaitingType
<1>3. Rest(ioq) \in Seq(UnitSet)
  BY <1>0, RestType DEF Queue
<1>4. wire \o (Rest(ioq) \o Waiting(e)) = Submitted(conns, Append(accepted, e.size))
  <2>1. (wire \o Rest(ioq)) \o Waiting(e) = wire \o (Rest(ioq) \o Waiting(e))
    <3>1. PICK a \in Seq(UnitSet), b \in Seq(UnitSet) : a = Rest(ioq) /\ b = Waiting(e)
      BY <1>2, <1>3, Zenon
    <3>2. wire \in Seq(UnitSet)
      BY <1>0
    <3>3. (wire \o a) \o b = wire \o (a \o b)
      BY <3>2, ConcatAssociative, SMTT(40)
    <3> QED  BY <3>1, <3>3, Zenon
  <2>2. conns \in Nat
    BY BoundsAssumption DEF ControlTyped
  <2>3. Submitted(conns, Append(accepted, e.size))
          = Submitted(conns, accepted) \o Units(conns, Len(accepted) + 1, 0, e.size)
    BY <2>2, <1>0, <1>1, SubmittedAppend
  <2> QED  BY <2>1, <2>3, <1>0, <1>1, Zenon
<1>5. Queue(r) /\ Rest(r) = Waiting(e)
  <2>1. CASE r = <<e>>
    BY <2>1, <1>1, <1>2, Zenon
  <2>2. CASE r = Failed(<<e>>)
    <3>1. <<e>> # <<>>
      OBVIOUS
    <3>2. Queue(Failed(<<e>>)) /\ Rest(Failed(<<e>>)) = Rest(<<e>>)
      BY <3>1, <1>1, FailedLemma
    <3> QED  BY <3>2, <2>2, <1>2, Zenon
  <2> QED  BY <2>1, <2>2 DEF e
<1> QED  BY <1>1, <1>2, <1>3, <1>4, <1>5, Zenon DEF e

LEMMA SubmitOutput ==
    ASSUME Control, Output(ioq, accepted, wire, conns),
           NEW t \in Threads, NEW v \in OutVectors, socket_submit(t, v)
    PROVE  Output(ioq', accepted', wire', conns')
<1> DEFINE e == Entry(v)
           more == Append(accepted, e.size)
<1>0. /\ connected = 1 /\ Len(accepted) < MaxOut /\ accepted' = more /\ conns' = conns
  BY DEF socket_submit
<1>1. ControlTyped /\ conns > 0
  BY <1>0 DEF Control, ClosedClean
<1>2. /\ Queue(<<e>>) /\ Rest(<<e>>) = Waiting(e)
      /\ more \in Seq(Nat) /\ Len(more) <= MaxOut
      /\ wire \o (Rest(ioq) \o Waiting(e)) = Submitted(conns, more)
      /\ Rest(ioq) \in Seq(UnitSet) /\ Waiting(e) \in Seq(UnitSet)
  BY <1>0, <1>1, OutputQueued
<1>3. Queue(Failed(<<e>>)) /\ Rest(Failed(<<e>>)) = Waiting(e)
  BY <1>0, <1>1, OutputQueued
<1>4. e \in Entries
  BY <1>0, <1>1, EntryLemma DEF Output
<1>5. wire \in Seq(UnitSet) /\ Queue(ioq)
  BY DEF Output
<1> HIDE DEF more
<1>6. ASSUME ioq = <<>> PROVE wire \o Waiting(e) = Submitted(conns, more)
  <2>1. Rest(<<>>) = <<>>
    <3>1. Output(<<>>, <<>>, <<>>, conns)
      BY OutputEmpty
    <3>2. <<>> \o Rest(<<>>) = <<>> /\ Rest(<<>>) \in Seq(UnitSet)
      <4>1. Submitted(conns, <<>>) = <<>>
        <5>1. [m \in DOMAIN <<>> |-> Units(conns, m, 0, <<>>[m])] = <<>>
          OBVIOUS
        <5> QED  BY <5>1, FlattenEmpty, Zenon DEF Submitted
      <4> QED  BY <4>1, <3>1, <1>2, <1>6, Zenon DEF Output
    <3> QED  BY <3>2, ConcatEmptySeq
  <2>2. <<>> \o Waiting(e) = Waiting(e)
    BY <1>2, ConcatEmptySeq
  <2> QED  BY <2>1, <2>2, <1>2, <1>6, Zenon
<1>7. CASE ioq = <<>> /\ \E n \in 0 .. e.size : /\ wire' = wire \o SubSeq(Rest(<<e>>), 1, n)
                                                /\ ioq' = Churned(<<e>>, n)
  <2>1. PICK n \in 0 .. e.size : /\ wire' = wire \o SubSeq(Rest(<<e>>), 1, n)
                                 /\ ioq' = Churned(<<e>>, n)
    BY <1>7
  <2>2. n \in 0 .. Len(Rest(<<e>>))
    <3>1. Len(Waiting(e)) = e.size
      <4>1. Len(Waiting(e)) = Total(e.vec)
        BY <1>4, WaitingType
      <4>2. v \in Seq(Nat)
        BY MessagesAssumption
      <4>3. Total(<<HdrLen>> \o v) = HdrLen + Total(v)
        BY <4>2, HdrLenAssumption, TotalCons
      <4> QED  BY <4>1, <4>3 DEF Entry
    <3> QED  BY <3>1, <1>2
  <2>3. wire \o Rest(<<e>>) = Submitted(conns, more)
    BY <1>2, <1>6, <1>7, Zenon
  <2> HIDE DEF e
  <2>4. Output(Churned(<<e>>, n), more, wire \o SubSeq(Rest(<<e>>), 1, n), conns)
    BY <2>2, <2>3, <1>2, <1>5, OutputWritten
  <2> QED  BY <2>1, <2>4, <1>0, Zenon
<1>8. CASE ioq = <<>> /\ ioq' = Failed(<<e>>) /\ wire' = wire
  <2>1. wire \o Rest(Failed(<<e>>)) = Submitted(conns, more)
    BY <1>3, <1>6, <1>8, Zenon
  <2> QED  BY <2>1, <1>0, <1>2, <1>3, <1>5, <1>8, Zenon DEF Output
<1>9. CASE ioq' = Append(ioq, e) /\ wire' = wire
  <2> HIDE DEF e
  <2>1. ioq \in Seq(Entries) /\ <<e>> \in Seq(Entries)
    BY <1>4, <1>5 DEF Queue
  <2>2. Append(ioq, e) = ioq \o <<e>>
    BY <2>1, <1>4, AppendIsConcat
  <2>3. Rest(ioq \o <<e>>) = Rest(ioq) \o Rest(<<e>>)
    BY <2>1, RestConcat
  <2>4. Queue(Append(ioq, e))
    <3>1. /\ Append(ioq, e) \in Seq(Entries) /\ DOMAIN Append(ioq, e) = 1 .. Len(ioq) + 1
          /\ \A i \in 1 .. Len(ioq) : Append(ioq, e)[i] = ioq[i]
          /\ Append(ioq, e)[Len(ioq) + 1] = e
          /\ Len(ioq) \in Nat /\ DOMAIN ioq = 1 .. Len(ioq)
      BY <2>1, <1>4
    <3>2. e.vec # <<>> /\ e.vec[1] > 0
      BY <1>0, <1>1, EntryLemma DEF Output, e
    <3>3. ASSUME NEW i \in 1 .. Len(ioq) + 1
          PROVE  Append(ioq, e)[i].vec # <<>> /\ Append(ioq, e)[i].vec[1] > 0
      <4>1. CASE i = Len(ioq) + 1
        BY <4>1, <3>1, <3>2, Zenon
      <4>2. CASE i # Len(ioq) + 1
        <5>1. i \in 1 .. Len(ioq)
          BY <4>2, <3>1
        <5> QED  BY <5>1, <3>1, <1>5, Zenon DEF Queue
      <4> QED  BY <4>1, <4>2
    <3> QED  BY <3>1, <3>3, Zenon DEF Queue
  <2>5. wire \o Rest(Append(ioq, e)) = Submitted(conns, more)
    BY <2>2, <2>3, <1>2, Zenon
  <2> QED  BY <2>4, <2>5, <1>0, <1>2, <1>5, <1>9, Zenon DEF Output
<1> QED  BY <1>7, <1>8, <1>9 DEF socket_submit

LEMMA PollOutOutput ==
    ASSUME Control, Output(ioq, accepted, wire, conns),
           NEW n \in 0 .. Len(Rest(ioq)), PollOut(n)
    PROVE  Output(ioq', accepted', wire', conns')
<1>0. accepted' = accepted /\ conns' = conns
  BY DEF PollOut, history
<1>1. CASE UNCHANGED <<ioq, wire>>
  BY <1>0, <1>1, Zenon
<1>2. CASE Churn(n)
  <2>1. wire' = wire \o SubSeq(Rest(ioq), 1, n) /\ ioq' = Churned(ioq, n)
    BY <1>2 DEF Churn
  <2>2. Output(Churned(ioq, n), accepted, wire \o SubSeq(Rest(ioq), 1, n), conns)
    <3>1. /\ Queue(ioq) /\ accepted \in Seq(Nat) /\ Len(accepted) <= MaxOut /\ wire \in Seq(UnitSet)
          /\ wire \o Rest(ioq) = Submitted(conns, accepted)
      BY DEF Output
    <3> QED  BY <3>1, OutputWritten, Zenon
  <2> QED  BY <2>1, <2>2, <1>0, Zenon
<1>3. CASE ChurnFails
  <2>1. ioq # <<>> /\ ioq' = Failed(ioq) /\ wire' = wire
    BY <1>3 DEF ChurnFails
  <2>2. Queue(Failed(ioq)) /\ Rest(Failed(ioq)) = Rest(ioq)
    BY <2>1, FailedLemma DEF Output
  <2> QED  BY <2>1, <2>2, <1>0, Zenon DEF Output
<1> QED  BY <1>1, <1>2, <1>3 DEF PollOut

LEMMA OutputNext ==
    ASSUME SocketInv, Next
    PROVE  Output(ioq', accepted', wire', conns')
<1>0. Control /\ Output(ioq, accepted, wire, conns)
  BY DEF SocketInv
<1>1. ASSUME NEW t \in Threads, NEW v \in OutVectors, socket_submit(t, v)
      PROVE  Output(ioq', accepted', wire', conns')
  BY <1>0, <1>1, SubmitOutput
<1>2. ASSUME NEW n \in 0 .. Len(Rest(ioq)), PollOut(n) PROVE Output(ioq', accepted', wire', conns')
  BY <1>0, <1>2, PollOutOutput
<1>3. ASSUME NEW t \in Threads, NEW ok \in BOOLEAN, ConnectDo(t, ok)
      PROVE  Output(ioq', accepted', wire', conns')
  <2>1. ioq = <<>> /\ accepted = <<>> /\ wire = <<>>
    BY <1>0, <1>3 DEF Control, ClosedClean, ConnectDo
  <2>2. ioq' = <<>> /\ accepted' = <<>> /\ wire' = <<>>
    BY <2>1, <1>3 DEF ConnectDo, Connecting
  <2> QED  BY <2>2, OutputEmpty, Zenon
<1>4. CASE PollErr
  <2>1. ioq' = <<>> /\ accepted' = <<>> /\ wire' = <<>>
    BY <1>4 DEF PollErr, Reset
  <2> QED  BY <2>1, OutputEmpty, Zenon
<1>5. CASE UNCHANGED <<ioq, accepted, wire, conns>>
  BY <1>0, <1>5, Zenon
<1>6. ASSUME NEW t \in Threads,
             ConnectCheck(t) \/ ConnectFails(t) \/ socket_disconnect(t) \/ socket_receive(t) \/ transport_unref(t)
      PROVE  UNCHANGED <<ioq, accepted, wire, conns>>
  BY <1>6 DEF ConnectCheck, ConnectFails, socket_disconnect, socket_receive, transport_unref, priv, kernel, history
<1>7. ASSUME NEW room \in BOOLEAN, Dispatch(room) PROVE UNCHANGED <<ioq, accepted, wire, conns>>
  BY <1>7 DEF Dispatch, priv, kernel, history
<1>8. ASSUME NEW named \in BOOLEAN, ConnectFinish(named) PROVE UNCHANGED <<ioq, accepted, wire, conns>>
  BY <1>8 DEF ConnectFinish, history
<1>9. ASSUME NEW mem \in BOOLEAN, PollIn(mem) PROVE UNCHANGED <<ioq, accepted, wire, conns>>
  BY <1>9 DEF PollIn, history
<1>10. CASE HandlerDone \/ HandlerUnref
  BY <1>5, <1>10 DEF HandlerDone, HandlerUnref, priv, kernel, history
<1>11. CASE Peer
  BY <1>5, <1>11 DEF Peer, Establish, Break, PeerSend, Arrive, PeerFin, env, priv
<1>12. CASE Client
  BY <1>1, <1>3, <1>5, <1>6, <1>12, Zenon DEF Client
<1>13. CASE HandlerStep
  BY <1>2, <1>4, <1>5, <1>8, <1>9, <1>10, <1>13, Zenon DEF HandlerStep
<1> QED  BY <1>5, <1>7, <1>11, <1>12, <1>13, Zenon DEF Next

-----------------------------------------------------------------------------
(* The incoming stream *)

LEMMA InputEmpty ==
    ASSUME NEW c
    PROVE  /\ Nada \in IncomingSet /\ SoFar(Nada, <<>>) \o <<>> = Behind(c, <<>>, 0)
           /\ <<>> \in Seq(UnitSet) /\ <<>> \in Seq(InKinds) /\ <<>> \in Seq(Seq(UnitSet)) /\ Len(<<>>) = 0
           /\ Nada.hdr = <<>> /\ Nada.body = <<>> /\ Nada.state = "NADA" /\ DOMAIN <<>> = {}
<1>1. /\ <<>> \in Seq(UnitSet) /\ <<>> \in Seq(InKinds) /\ <<>> \in Seq(Seq(UnitSet)) /\ Len(<<>>) = 0
      /\ DOMAIN <<>> = {}
  OBVIOUS
<1>2. Nada \in IncomingSet /\ Nada.hdr = <<>> /\ Nada.body = <<>> /\ Nada.state = "NADA"
  BY <1>1 DEF Nada, IncomingSet
<1>3. Behind(c, <<>>, 0) = <<>>
  <2>1. [i \in 1 .. Len(<<>>) - 0 |-> Message(c, <<>>, 0 + i)] = <<>>
    OBVIOUS
  <2> QED  BY <2>1, FlattenEmpty, Zenon DEF Behind
<1>4. <<>> \o <<>> = <<>>
  OBVIOUS
<1>5. SoFar(Nada, <<>>) \o <<>> = <<>>
  BY <1>2, <1>4, Zenon DEF SoFar
<1> QED  BY <1>1, <1>2, <1>3, <1>5, Zenon

\* What socket_receive returns is the next message of the peer.
LEMMA ReceivedNext ==
    ASSUME Control, Input, incoming.state = "COMPLETE"
    PROVE  /\ Len(received) + 1 \in 1 .. Len(sent)
           /\ incoming.hdr \o incoming.body = Message(conns, sent, Len(received) + 1)
           /\ rx \o flight = Behind(conns, sent, Len(received) + 1)
<1> DEFINE h == incoming.hdr
           b == incoming.body
           n == Len(received)
           x == Message(conns, sent, n + 1)
<1>0. /\ conns \in Nat /\ sent \in Seq(InKinds) /\ n \in 0 .. Len(sent) /\ Len(sent) \in Nat
      /\ rx \in Seq(UnitSet) /\ flight \in Seq(UnitSet)
  BY BoundsAssumption DEF Control, ControlTyped, Input
<1>1. /\ h \in Seq(UnitSet) /\ b \in Seq(UnitSet) /\ Len(h) = HdrLen /\ Validated(h)
      /\ Len(b) = Sizes(h)
  BY DEF Input, IncomingSet, Reached
<1>2. ((h \o b) \o rx) \o flight = Behind(conns, sent, n)
  BY DEF Input, SoFar
<1> HIDE DEF h, b, n
<1>3. PICK m \in 1 .. Len(sent) :
        /\ h = Header(m) /\ h[1] = <<conns, m, 1>>
        /\ Sizes(h) \in Nat /\ Sizes(h) = sent[m].size1 + sent[m].size2
  BY <1>0, <1>1, SizesType
<1> DEFINE hb == h \o b
           rest == rx \o flight
<1>4. hb \in Seq(UnitSet) /\ rest \in Seq(UnitSet)
  BY <1>0, <1>1, ConcatProperties
<1>5. hb \o rest = Behind(conns, sent, n)
  <2> HIDE DEF hb
  <2>1. (hb \o rx) \o flight = hb \o (rx \o flight)
    BY <1>0, <1>4, ConcatAssociative, SMTT(40)
  <2> QED  BY <2>1, <1>2, Zenon DEF hb, rest
<1>6. Len(hb) = HdrLen + Sizes(h) /\ hb[1] = h[1] /\ Len(hb) >= 1
  <2>1. /\ Len(hb) = Len(h) + Len(b)
        /\ \A i \in 1 .. Len(h) + Len(b) : hb[i] = IF i <= Len(h) THEN h[i] ELSE b[i - Len(h)]
    BY <1>1, ConcatProperties
  <2> HIDE DEF hb
  <2>2. 1 \in 1 .. Len(h) + Len(b) /\ 1 <= Len(h)
    BY <1>1, <1>3, HdrLenAssumption
  <2>3. hb[1] = h[1]
    BY <2>1, <2>2
  <2>4. Len(hb) = HdrLen + Sizes(h)
    BY <2>1, <1>1, Zenon
  <2>5. HdrLen + Sizes(h) >= 1
    BY <1>3, HdrLenAssumption
  <2> QED  BY <2>3, <2>4, <2>5
<1> HIDE DEF hb, rest
<1>7. /\ Len(hb \o rest) = Len(hb) + Len(rest)
      /\ \A i \in 1 .. Len(hb) + Len(rest) : (hb \o rest)[i] = IF i <= Len(hb) THEN hb[i] ELSE rest[i - Len(hb)]
  BY <1>4, ConcatProperties
<1>8. Len(rest) \in Nat /\ Len(hb) \in Nat
  BY <1>4
<1>9. n < Len(sent)
  <2>1. ASSUME n = Len(sent) PROVE FALSE
    <3>1. Behind(conns, sent, n) = <<>>
      BY <2>1, <1>0, BehindFirst
    <3>2. Len(hb \o rest) = 0
      BY <3>1, <1>5
    <3> QED  BY <3>2, <1>6, <1>7, <1>8
  <2> QED  BY <2>1, <1>0
<1>10. n + 1 \in 1 .. Len(sent) /\ n + 1 \in 0 .. Len(sent)
  BY <1>0, <1>9
<1>11. Behind(conns, sent, n) = x \o Behind(conns, sent, n + 1)
  BY <1>0, <1>9, BehindFirst
<1>12. Behind(conns, sent, n + 1) \in Seq(UnitSet)
  BY <1>0, <1>10, BehindFirst
<1>13. /\ sent[n + 1].size1 \in Nat /\ sent[n + 1].size2 \in Nat
       /\ x \in Seq(UnitSet)
       /\ Len(x) = HdrLen + sent[n + 1].size1 + sent[n + 1].size2
       /\ x[1] = <<conns, n + 1, 1>>
  BY <1>0, <1>10, MessageType
<1> DEFINE y == Behind(conns, sent, n + 1)
<1> HIDE DEF x, y
<1>14. hb[1] = x[1]
  <2>1. (hb \o rest)[1] = hb[1]
    <3>1. 1 \in 1 .. Len(hb) + Len(rest) /\ 1 <= Len(hb)
      BY <1>6, <1>8
    <3> QED  BY <3>1, <1>7
  <2>2. (x \o y)[1] = x[1]
    <3>1. /\ Len(y) \in Nat /\ Len(x) \in Nat
          /\ \A i \in 1 .. Len(x) + Len(y) : (x \o y)[i] = IF i <= Len(x) THEN x[i] ELSE y[i - Len(x)]
      <4>1. x \in Seq(UnitSet) /\ y \in Seq(UnitSet)
        BY <1>12, <1>13 DEF y
      <4> QED  BY <4>1, ConcatProperties
    <3>2. Len(x) >= 1
      BY <1>13, HdrLenAssumption
    <3>3. 1 \in 1 .. Len(x) + Len(y) /\ 1 <= Len(x)
      BY <3>1, <3>2
    <3> QED  BY <3>1, <3>3
  <2> QED  BY <2>1, <2>2, <1>5, <1>11, Zenon DEF y
<1>15. m = n + 1
  <2>1. <<conns, m, 1>> = <<conns, n + 1, 1>>
    BY <1>3, <1>6, <1>13, <1>14, Zenon
  <2> QED  BY <2>1
<1>16. Len(hb) = Len(x)
  <2>1. Sizes(h) = sent[n + 1].size1 + sent[n + 1].size2
    BY <1>3, <1>15, Zenon
  <2>2. HdrLen + (sent[n + 1].size1 + sent[n + 1].size2) = HdrLen + sent[n + 1].size1 + sent[n + 1].size2
    BY <1>13, HdrLenAssumption, SMTT(40)
  <2> QED  BY <2>1, <2>2, <1>6, <1>13, Zenon
<1>17. hb = x /\ rest = y
  <2>1. hb \o rest = x \o y
    BY <1>5, <1>11, Zenon DEF y
  <2>2. x \in Seq(UnitSet) /\ y \in Seq(UnitSet) /\ hb \in Seq(UnitSet) /\ rest \in Seq(UnitSet)
    BY <1>4, <1>12, <1>13, Zenon DEF y
  <2> QED  BY <2>1, <2>2, <1>16, SameFirst
<1> QED  BY <1>10, <1>17, Zenon DEF hb, rest, x, y, h, b, n

LEMMA ReceiveInput ==
    ASSUME Control, Input, NEW t \in Threads, socket_receive(t)
    PROVE  Input'
<1> DEFINE n == Len(received)
           x == incoming.hdr \o incoming.body
<1>0. /\ incoming.state = "COMPLETE" /\ incoming' = Nada /\ received' = Append(received, x)
      /\ rx' = rx /\ flight' = flight /\ sent' = sent /\ conns' = conns
  BY DEF socket_receive, kernel
<1>1. /\ n + 1 \in 1 .. Len(sent) /\ x = Message(conns, sent, n + 1)
      /\ rx \o flight = Behind(conns, sent, n + 1)
  BY <1>0, ReceivedNext
<1>2. /\ conns \in Nat /\ sent \in Seq(InKinds) /\ rx \in Seq(UnitSet) /\ flight \in Seq(UnitSet)
      /\ received \in Seq(Seq(UnitSet)) /\ n \in Nat
      /\ \A m \in DOMAIN received : received[m] = Message(conns, sent, m)
  BY BoundsAssumption DEF Control, ControlTyped, Input, ReceiveFramed, Message
<1>3. x \in Seq(UnitSet)
  BY <1>1, <1>2, MessageType
<1> HIDE DEF x
<1>4. /\ received' \in Seq(Seq(UnitSet)) /\ Len(received') = n + 1 /\ DOMAIN received' = 1 .. n + 1
      /\ \A m \in 1 .. n : received'[m] = received[m]
      /\ received'[n + 1] = x /\ DOMAIN received = 1 .. n
  BY <1>0, <1>2, <1>3
<1> HIDE DEF n
<1>5. ASSUME NEW m \in DOMAIN received' PROVE received'[m] = Message(conns, sent, m)
  <2>1. CASE m = n + 1
    BY <2>1, <1>1, <1>4, Zenon
  <2>2. CASE m # n + 1
    <3>1. m \in 1 .. n
      BY <2>2, <1>2, <1>4
    <3> QED  BY <3>1, <1>2, <1>4, Zenon
  <2> QED  BY <2>1, <2>2
<1>6. ReceiveFramed'
  BY <1>0, <1>5, Zenon DEF ReceiveFramed, Message
<1>7. /\ Nada \in IncomingSet /\ Nada.hdr = <<>> /\ Nada.body = <<>> /\ Nada.state = "NADA"
      /\ Len(<<>>) = 0
  BY InputEmpty
<1>8. Reached(incoming)'
  <2>1. 0 <= HdrLen
    BY HdrLenAssumption
  <2> QED  BY <2>1, <1>0, <1>7 DEF Reached
<1>9. SoFar(incoming', rx') \o flight' = Behind(conns', sent', Len(received'))
  <2>1. <<>> \o <<>> = <<>> /\ <<>> \o rx = rx
    BY <1>2, ConcatEmptySeq
  <2>2. SoFar(Nada, rx) = rx
    BY <2>1, <1>7, Zenon DEF SoFar
  <2> QED  BY <2>2, <1>0, <1>1, <1>4, Zenon
<1>10. Len(received') <= Len(sent')
  BY <1>0, <1>1, <1>4
<1> QED  BY <1>0, <1>2, <1>4, <1>6, <1>7, <1>8, <1>9, <1>10, Zenon DEF Input

LEMMA PollInInput ==
    ASSUME Control, Input, NEW mem \in BOOLEAN, PollIn(mem)
    PROVE  Input'
<1>0. UNCHANGED <<flight, sent, received, conns>>
  BY DEF PollIn, history
<1>1. conns \in Nat
  BY BoundsAssumption DEF Control, ControlTyped
<1>2. /\ incoming' \in IncomingSet /\ Reached(incoming') /\ rx' \in Seq(UnitSet)
      /\ SoFar(incoming', rx') = SoFar(incoming, rx)
  <2>1. CASE ret = 0 /\ ev.in
    <3>1. Read(StateMachine(mem), incoming, rx)
      BY <1>1, StateMachineLemma DEF Input
    <3>2. incoming' = StateMachine(mem).inc /\ rx' = StateMachine(mem).rx
      BY <2>1 DEF PollIn
    <3> QED  BY <3>1, <3>2, Zenon DEF Read
  <2>2. CASE ~(ret = 0 /\ ev.in)
    <3>1. incoming' = incoming /\ rx' = rx
      BY <2>2 DEF PollIn
    <3> QED  BY <3>1, Zenon DEF Input
  <2> QED  BY <2>1, <2>2
<1>3. Reached(incoming)'
  BY <1>0, <1>2 DEF Reached, Validated, Header, Sizes, Announced
<1>4. ReceiveFramed'
  BY <1>0 DEF Input, ReceiveFramed
<1>5. /\ flight' \in Seq(UnitSet) /\ sent' \in Seq(InKinds) /\ received' \in Seq(Seq(UnitSet))
      /\ Len(received') <= Len(sent')
  BY <1>0 DEF Input
<1>6. SoFar(incoming', rx') \o flight' = Behind(conns', sent', Len(received'))
  <2>1. SoFar(incoming, rx) \o flight = Behind(conns, sent, Len(received))
    BY DEF Input
  <2> QED  BY <2>1, <1>0, <1>2, Zenon
<1> QED  BY <1>2, <1>3, <1>4, <1>5, <1>6, Zenon DEF Input

LEMMA PeerSendInput ==
    ASSUME Control, Input, NEW k \in InKinds, PeerSend(k)
    PROVE  Input'
<1> DEFINE n == Len(received)
           x == Units(conns, Len(sent) + 1, 0, HdrLen + k.size1 + k.size2)
<1>0. /\ flight = <<>> /\ sent' = Append(sent, k)
      /\ flight' = Units(conns, Len(sent'), 0, HdrLen + k.size1 + k.size2)
      /\ UNCHANGED <<incoming, rx, received, conns>>
  BY DEF PeerSend, env, priv
<1>1. /\ conns \in Nat /\ sent \in Seq(InKinds) /\ rx \in Seq(UnitSet)
      /\ received \in Seq(Seq(UnitSet)) /\ n \in 0 .. Len(sent) /\ Len(sent) \in Nat
      /\ incoming \in IncomingSet
      /\ \A m \in DOMAIN received : received[m] = Message(conns, sent, m)
  BY BoundsAssumption DEF Control, ControlTyped, Input, ReceiveFramed, Message
<1>2. /\ sent' \in Seq(InKinds) /\ Len(sent') = Len(sent) + 1 /\ DOMAIN sent' = 1 .. Len(sent) + 1
      /\ DOMAIN sent = 1 .. Len(sent)
      /\ \A m \in 1 .. Len(sent) : sent'[m] = sent[m]
  BY <1>0, <1>1
<1>3. flight' = x
  BY <1>0, <1>2
<1>4. x \in Seq(UnitSet)
  <2>1. k.size1 \in Nat /\ k.size2 \in Nat
    BY MessagesAssumption
  <2>2. PICK s \in Int : s = HdrLen + k.size1 + k.size2 /\ s - 0 \in Nat
    BY <2>1, HdrLenAssumption
  <2>3. PICK l \in Nat : l = Len(sent) + 1
    BY <1>1
  <2>4. s - 0 \in Nat /\ 0 \in Int
    BY <2>2
  <2>5. Units(conns, l, 0, s) \in Seq(UnitSet)
    BY <2>4, <1>1, UnitsType
  <2> QED  BY <2>2, <2>3, <2>5
<1> HIDE DEF x
<1>5. SoFar(incoming', rx') \o flight' = Behind(conns', sent', Len(received'))
  <2>1. Behind(conns, sent', n) = Behind(conns, sent, n) \o x
    BY <1>0, <1>1, BehindAppend DEF x
  <2>2. SoFar(incoming, rx) \in Seq(UnitSet)
    <3>1. incoming.hdr \in Seq(UnitSet) /\ incoming.body \in Seq(UnitSet)
      BY <1>1 DEF IncomingSet
    <3>2. incoming.hdr \o incoming.body \in Seq(UnitSet)
      BY <3>1, ConcatProperties
    <3> QED  BY <3>2, <1>1, ConcatProperties DEF SoFar
  <2>3. SoFar(incoming, rx) \o <<>> = SoFar(incoming, rx)
    BY <2>2, ConcatEmptySeq
  <2>4. SoFar(incoming, rx) \o flight = Behind(conns, sent, n)
    BY DEF Input
  <2> QED  BY <2>1, <2>3, <2>4, <1>0, <1>3, Zenon
<1>6. Reached(incoming)'
  <2>1. Reached(incoming)
    BY DEF Input
  <2>2. ASSUME Validated(incoming.hdr)
        PROVE  Validated(incoming.hdr)' /\ Sizes(incoming.hdr)' = Sizes(incoming.hdr)
    <3>1. PICK m \in 1 .. Len(sent) : /\ incoming.hdr = Header(m) /\ incoming.hdr[1] = <<conns, m, 1>>
      BY <2>2, <1>1, SizesType
    <3>2. PICK l \in 1 .. Len(sent) : incoming.hdr = Header(l) /\ sent[l].valid
      BY <2>2, <1>2 DEF Validated
    <3>3. l \in DOMAIN sent' /\ sent'[l] = sent[l] /\ sent'[m] = sent[m]
      BY <1>1, <1>2
    <3>4. Validated(incoming.hdr)'
      BY <3>2, <3>3, <1>0 DEF Validated, Header
    <3>5. Sizes(incoming.hdr)' = Sizes(incoming.hdr)
      BY <3>1, <3>3, <1>0 DEF Sizes, Announced
    <3> QED  BY <3>4, <3>5
  <2>3. incoming' = incoming
    BY <1>0
  <2> QED  BY <2>1, <2>2, <2>3 DEF Reached
<1>7. ReceiveFramed'
  <2>1. ASSUME NEW m \in DOMAIN received PROVE received[m] = Message(conns, sent', m)
    <3>1. m \in 1 .. Len(sent)
      BY <1>1
    <3>2. sent'[m] = sent[m]
      BY <3>1, <1>2
    <3> QED  BY <3>2, <1>1, Zenon DEF Message
  <2> QED  BY <2>1, <1>0 DEF ReceiveFramed, Message
<1>8. Len(received') <= Len(sent') /\ received' \in Seq(Seq(UnitSet)) /\ rx' \in Seq(UnitSet) /\ incoming' \in IncomingSet
  <2>1. n <= Len(sent) + 1
    BY <1>1
  <2> QED  BY <2>1, <1>0, <1>1, <1>2
<1> QED  BY <1>2, <1>3, <1>4, <1>5, <1>6, <1>7, <1>8, Zenon DEF Input

LEMMA ArriveInput ==
    ASSUME Control, Input, NEW n \in 1 .. Len(flight), Arrive(n)
    PROVE  Input'
<1> DEFINE a == SubSeq(flight, 1, n)
           b == SubSeq(flight, n + 1, Len(flight))
           s == SoFar(incoming, rx)
<1>0. rx' = rx \o a /\ flight' = b /\ UNCHANGED <<incoming, sent, received, conns>>
  BY DEF Arrive, env, priv
<1>1. rx \in Seq(UnitSet) /\ flight \in Seq(UnitSet) /\ incoming \in IncomingSet
  BY DEF Input
<1>2. a \in Seq(UnitSet) /\ b \in Seq(UnitSet) /\ a \o b = flight
  <2>1. n \in 0 .. Len(flight)
    BY <1>1
  <2> QED  BY <2>1, <1>1, Cut
<1> HIDE DEF a, b
<1>3. PICK hb \in Seq(UnitSet) : hb = incoming.hdr \o incoming.body
  <2>1. incoming.hdr \in Seq(UnitSet) /\ incoming.body \in Seq(UnitSet)
    BY <1>1 DEF IncomingSet
  <2> QED  BY <2>1, ConcatProperties
<1>4. s = hb \o rx /\ s \in Seq(UnitSet) /\ rx' \in Seq(UnitSet)
  <2>1. s = hb \o rx
    BY <1>3 DEF SoFar
  <2>2. hb \o rx \in Seq(UnitSet) /\ rx \o a \in Seq(UnitSet)
    BY <1>1, <1>2, ConcatProperties
  <2> QED  BY <2>1, <2>2, <1>0, Zenon
<1>5. SoFar(incoming', rx') \o flight' = Behind(conns', sent', Len(received'))
  <2>1. hb \o (rx \o a) = (hb \o rx) \o a
    BY <1>1, <1>2, UnitsAssociative, ZenonT(40)
  <2>2. SoFar(incoming', rx') = s \o a
    BY <2>1, <1>0, <1>3, <1>4, Zenon DEF SoFar
  <2> HIDE DEF s
  <2>3. (s \o a) \o b = s \o (a \o b)
    <3>1. PICK u \in Seq(UnitSet) : u = s
      BY <1>4
    <3>2. (u \o a) \o b = u \o (a \o b)
      BY <1>2, UnitsAssociative
    <3> QED  BY <3>1, <3>2, Zenon
  <2>4. s \o flight = Behind(conns, sent, Len(received))
    BY DEF Input, s
  <2> QED  BY <2>2, <2>3, <2>4, <1>0, <1>2, Zenon
<1>6. Reached(incoming)'
  BY <1>0 DEF Input, Reached, Validated, Header, Sizes, Announced
<1>7. ReceiveFramed'
  BY <1>0 DEF Input, ReceiveFramed
<1>8. /\ incoming' \in IncomingSet /\ sent' \in Seq(InKinds) /\ received' \in Seq(Seq(UnitSet))
      /\ Len(received') <= Len(sent')
  BY <1>0 DEF Input
<1> QED  BY <1>0, <1>2, <1>4, <1>5, <1>6, <1>7, <1>8, Zenon DEF Input

LEMMA InputNext ==
    ASSUME SocketInv, Next
    PROVE  Input'
<1>0. Control /\ Input
  BY DEF SocketInv
<1>1. ASSUME NEW t \in Threads, socket_receive(t) PROVE Input'
  BY <1>0, <1>1, ReceiveInput
<1>2. ASSUME NEW mem \in BOOLEAN, PollIn(mem) PROVE Input'
  BY <1>0, <1>2, PollInInput
<1>3. ASSUME NEW k \in InKinds, PeerSend(k) PROVE Input'
  BY <1>0, <1>3, PeerSendInput
<1>4. ASSUME NEW n \in 1 .. Len(flight), Arrive(n) PROVE Input'
  BY <1>0, <1>4, ArriveInput
<1>5. ASSUME incoming' = Nada, rx' = <<>>, flight' = <<>>, sent' = <<>>, received' = <<>>
      PROVE  Input'
  <2>1. 0 <= HdrLen /\ 0 <= 0
    BY HdrLenAssumption
  <2>2. Reached(incoming)'
    BY <1>5, <2>1, InputEmpty DEF Reached
  <2>3. ReceiveFramed'
    BY <1>5, InputEmpty DEF ReceiveFramed
  <2>4. SoFar(incoming', rx') \o flight' = Behind(conns', sent', Len(received'))
    BY <1>5, InputEmpty, Zenon
  <2>5. /\ incoming' \in IncomingSet /\ rx' \in Seq(UnitSet) /\ flight' \in Seq(UnitSet)
        /\ sent' \in Seq(InKinds) /\ received' \in Seq(Seq(UnitSet)) /\ Len(received') <= Len(sent')
    BY <1>5, <2>1, InputEmpty, Zenon
  <2> QED  BY <2>2, <2>3, <2>4, <2>5, Zenon DEF Input
<1>6. ASSUME NEW t \in Threads, NEW ok \in BOOLEAN, ConnectDo(t, ok) PROVE Input'
  <2>1. incoming = Nada /\ rx = <<>> /\ flight = <<>> /\ sent = <<>> /\ received = <<>>
    BY <1>0, <1>6 DEF Control, ClosedClean, ConnectDo
  <2>2. UNCHANGED <<incoming, rx, flight, sent, received>>
    BY <1>6 DEF ConnectDo, Connecting
  <2> QED  BY <2>1, <2>2, <1>5
<1>7. CASE PollErr
  BY <1>5, <1>7 DEF PollErr, Reset
<1>8. CASE UNCHANGED <<incoming, rx, flight, sent, received, conns>>
  BY <1>0, <1>8 DEF Input, Reached, Validated, Header, Sizes, Announced, ReceiveFramed
<1>9. ASSUME NEW t \in Threads,
             \/ ConnectCheck(t) \/ ConnectFails(t) \/ socket_disconnect(t) \/ transport_unref(t)
             \/ \E v \in OutVectors : socket_submit(t, v)
      PROVE  UNCHANGED <<incoming, rx, flight, sent, received, conns>>
  BY <1>9 DEF ConnectCheck, ConnectFails, socket_disconnect, transport_unref, socket_submit, priv, kernel, history
<1>10. ASSUME NEW room \in BOOLEAN, Dispatch(room)
       PROVE  UNCHANGED <<incoming, rx, flight, sent, received, conns>>
  BY <1>10 DEF Dispatch, priv, kernel, history
<1>11. ASSUME NEW named \in BOOLEAN, ConnectFinish(named)
       PROVE  UNCHANGED <<incoming, rx, flight, sent, received, conns>>
  BY <1>11 DEF ConnectFinish, history
<1>12. ASSUME NEW n \in 0 .. Len(Rest(ioq)), PollOut(n)
       PROVE  UNCHANGED <<incoming, rx, flight, sent, received, conns>>
  BY <1>12 DEF PollOut, history
<1>13. CASE HandlerDone \/ HandlerUnref
  BY <1>8, <1>13 DEF HandlerDone, HandlerUnref, priv, kernel, history
<1>14. CASE Establish \/ Break \/ PeerFin
  BY <1>8, <1>14 DEF Establish, Break, PeerFin, env, priv
<1>15. CASE Client
  BY <1>1, <1>6, <1>8, <1>9, <1>15, Zenon DEF Client
<1>16. CASE HandlerStep
  BY <1>2, <1>7, <1>8, <1>11, <1>12, <1>13, <1>16, Zenon DEF HandlerStep
<1>17. CASE Peer
  BY <1>3, <1>4, <1>14, <1>17, Zenon DEF Peer
<1> QED  BY <1>8, <1>10, <1>15, <1>16, <1>17, Zenon DEF Next

-----------------------------------------------------------------------------
(* The theorems *)

LEMMA InvInit == Init => SocketInv
<1> SUFFICES ASSUME Init PROVE SocketInv
  OBVIOUS
<1>0. Fresh /\ (ClientInit \/ AcceptedInit)
  BY DEF Init, ClientInit, AcceptedInit
<1>1. IsFiniteSet(Threads) /\ Cardinality(Threads) \in Nat /\ Threads # {}
  BY ThreadsAssumption, FS_CardinalityType
<1>2. Cardinality({}) = 0 /\ Cardinality(Threads) # 0
  BY <1>1, FS_EmptySet
<1>3. ControlTyped
  <2>1. /\ pc \in [Threads -> {"idle", "lookup"}]
        /\ ev \in [in : BOOLEAN, out : BOOLEAN, err : BOOLEAN]
        /\ hpc = "idle" /\ ret = 0 /\ freed = FALSE
    BY <1>0 DEF Fresh
  <2>2. 0 \in 0 .. MaxConns /\ 1 \in 0 .. MaxConns
    BY BoundsAssumption
  <2>3. /\ sock \in BOOLEAN /\ registered \in BOOLEAN /\ pollout \in BOOLEAN
    BY <1>0, Zenon DEF ClientInit, AcceptedInit
  <2>4. connected \in {0, 1, 255} /\ conn \in {"none", "connecting", "up", "fin", "broken"}
    BY <1>0 DEF ClientInit, AcceptedInit
  <2>5. refcount \in Nat
    BY <1>0, <1>1 DEF ClientInit, AcceptedInit
  <2>6. holds \subseteq Threads
    BY <1>0, Zenon DEF ClientInit, AcceptedInit
  <2>7. conns \in 0 .. MaxConns
    BY <1>0, <2>2 DEF ClientInit, AcceptedInit
  <2>8. hpc \in {"idle", "finish", "out", "in", "err", "unref"} /\ ret \in {-1, 0, 1}
        /\ freed \in BOOLEAN
    BY <2>1
  <2> QED  BY <2>1, <2>3, <2>4, <2>5, <2>6, <2>7, <2>8, Zenon DEF ControlTyped
<1>4. ClosedClean /\ QueueWatched
  BY <1>0 DEF Fresh, ClientInit, AcceptedInit, ClosedClean, QueueWatched
<1>5. RefsOwned
  <2>1. CASE ClientInit
    BY <2>1, <1>1, <1>2 DEF ClientInit, Fresh, RefsOwned
  <2>2. CASE AcceptedInit
    BY <2>2, <1>2 DEF AcceptedInit, Fresh, RefsOwned
  <2> QED  BY <2>1, <2>2, <1>0
<1>6. Output(ioq, accepted, wire, conns)
  BY <1>0, OutputEmpty, Zenon DEF Fresh
<1>7. Input
  <2>0. incoming = Nada /\ rx = <<>> /\ flight = <<>> /\ sent = <<>> /\ received = <<>>
    BY <1>0 DEF Fresh
  <2>1. 0 <= HdrLen /\ 0 <= 0
    BY HdrLenAssumption
  <2>2. Reached(incoming)
    BY <2>0, <2>1, InputEmpty DEF Reached
  <2>3. ReceiveFramed
    BY <2>0, InputEmpty DEF ReceiveFramed
  <2>4. SoFar(incoming, rx) \o flight = Behind(conns, sent, Len(received))
    BY <2>0, InputEmpty, Zenon
  <2>5. /\ incoming \in IncomingSet /\ rx \in Seq(UnitSet) /\ flight \in Seq(UnitSet)
        /\ sent \in Seq(InKinds) /\ received \in Seq(Seq(UnitSet)) /\ Len(received) <= Len(sent)
    BY <2>0, <2>1, InputEmpty, Zenon
  <2> QED  BY <2>2, <2>3, <2>4, <2>5, Zenon DEF Input
<1> QED  BY <1>3, <1>4, <1>5, <1>6, <1>7 DEF SocketInv, Control

LEMMA InvNext == SocketInv /\ [Next]_vars => SocketInv'
<1> SUFFICES ASSUME SocketInv, [Next]_vars PROVE SocketInv'
  OBVIOUS
<1>1. CASE Next
  <2>1. Control'
    <3>1. CASE Client
      <4>1. Control
        BY DEF SocketInv
      <4>2. PICK t \in Threads :
              \/ ConnectCheck(t)
              \/ ConnectFails(t)
              \/ \E ok \in BOOLEAN : ConnectDo(t, ok)
              \/ socket_disconnect(t)
              \/ \E v \in OutVectors : socket_submit(t, v)
              \/ socket_receive(t)
              \/ transport_unref(t)
        BY <3>1 DEF Client
      <4> QED  BY <4>1, <4>2, ClientControl, Zenon
    <3>2. CASE (\E room \in BOOLEAN : Dispatch(room)) \/ HandlerStep
      BY <3>2, HandlerControl, Zenon DEF SocketInv
    <3>3. CASE Peer
      BY <3>3, PeerControl, Zenon DEF SocketInv
    <3> QED  BY <3>1, <3>2, <3>3, <1>1 DEF Next
  <2>2. Output(ioq', accepted', wire', conns')
    BY <1>1, OutputNext
  <2>3. Input'
    BY <1>1, InputNext
  <2> QED  BY <2>1, <2>2, <2>3, Zenon DEF SocketInv
<1>2. CASE UNCHANGED vars
  <2> USE <1>2 DEF vars, priv, pool, life, handler, kernel, history
  <2>1. Control'
    BY DEF SocketInv, Control, ControlTyped, ClosedClean, QueueWatched, RefsOwned
  <2>2. Output(ioq', accepted', wire', conns')
    BY Zenon DEF SocketInv
  <2>3. Input'
    BY DEF SocketInv, Input, Reached, Validated, Header, Sizes, Announced, ReceiveFramed
  <2> QED  BY <2>1, <2>2, <2>3, Zenon DEF SocketInv
<1> QED  BY <1>1, <1>2

\* The invariant holds in every reachable state.
THEOREM Invariant == Spec => []SocketInv
BY InvInit, InvNext, PTL DEF Spec

LEMMA InvWireFramed == SocketInv => WireFramed
BY Zenon DEF SocketInv, Output, Submitted, WireFramed

LEMMA InvReceiveFramed == SocketInv => ReceiveFramed
BY Zenon DEF SocketInv, Input

LEMMA InvWritesWatched == SocketInv => WritesWatched
BY DEF SocketInv, Control, QueueWatched, WritesWatched

LEMMA InvRefsAccounted == SocketInv => RefsAccounted
<1> SUFFICES ASSUME SocketInv PROVE RefsAccounted
  OBVIOUS
<1>0. Control /\ Queue(ioq) /\ incoming \in IncomingSet
  BY DEF SocketInv, Output, Input
<1>1. TypeOK
  BY <1>0 DEF Control, ControlTyped, Queue, IncomingSet, TypeOK
<1>2. /\ refcount = Cardinality(holds) + (IF sock THEN 1 ELSE 0) + (IF hpc = "unref" THEN 1 ELSE 0)
      /\ registered => sock
      /\ freed <=> refcount = 0
  BY <1>0 DEF Control, ClosedClean, RefsOwned
<1>3. ASSUME freed PROVE hpc = "idle" /\ ioq = <<>> /\ incoming = Nada
  <2>1. Cardinality(holds) \in Nat
    BY <1>0, HoldsFinite DEF Control
  <2>2. refcount = 0
    BY <1>2, <1>3, Zenon
  <2>3. ~sock /\ hpc # "unref"
    BY <1>2, <2>1, <2>2
  <2> QED  BY <2>3, <1>0 DEF Control, ControlTyped, ClosedClean
<1> QED  BY <1>1, <1>2, <1>3 DEF RefsAccounted

\* With any number of clients and messages of any lengths, what clients submit goes out
\* whole and in order, on the connection it was submitted on, however the kernel splits
\* the writes of socket_submit and __socket_ioq_churn.
THEOREM WireSafety == Spec => []WireFramed
BY Invariant, InvWireFramed, PTL

\* socket_receive returns the messages of the peer whole and in order, however their
\* units arrive at __socket_proto_state_machine.
THEOREM ReceiveSafety == Spec => []ReceiveFramed
BY Invariant, InvReceiveFramed, PTL

\* Output that waits in ioq is watched by the event pool, or the hangup is coming.
THEOREM WatchSafety == Spec => []WritesWatched
BY Invariant, InvWritesWatched, PTL

\* Every reference to a transport has an owner, transport_unref destroys it exactly when
\* nobody can reach it, and the variables have their types.
THEOREM RefSafety == Spec => []RefsAccounted
BY Invariant, InvRefsAccounted, PTL

====
