----------------------------- MODULE DictProofs -----------------------------
(***************************************************************************)
(* The safety of the dictionaries for any dicts, keys, values and threads, *)
(* any hash function, any buffers and lists of any length.                 *)
(*                                                                         *)
(* The reference count of a value is the number of its owners: pairs, and  *)
(* unreferences that calls have still to make.  A step moves an owner from *)
(* one to the other, adds one or takes one away, and the count follows.    *)
(* What a call has left to do is on dicts that its thread has, so that the *)
(* others cannot change them, and no two calls end the same value or dict. *)
(***************************************************************************)
EXTENDS Dict, FiniteSetTheorems, SequenceTheorems, WellFoundedInduction, TLAPS

-----------------------------------------------------------------------------
(* Induction *)

\* A set of numbers has a first one.
LEMMA First ==
    ASSUME NEW T \in SUBSET Nat, T # {}
    PROVE  \E i \in T : \A j \in T : i <= j
<1> DEFINE R == OpToRel(<, Nat)
<1>1. IsWellFoundedOn(R, Nat)
  BY NatLessThanWellFounded
<1>2. \A x, y \in Nat : x < y => <<x, y>> \in R
  BY DEF OpToRel
<1> HIDE DEF R
<1>3. PICK i \in T : \A j \in T : ~(<<j, i>> \in R)
  BY <1>1, WFMin
<1>4. ASSUME NEW j \in T PROVE i <= j
  <2>1. i \in Nat /\ j \in Nat
    OBVIOUS
  <2>2. ~(j < i)
    BY <2>1, <1>2, <1>3, Zenon
  <2> QED  BY <2>1, <2>2
<1> QED  BY <1>4

\* A set that has 0 and with a number the next has all of them.
LEMMA Induction ==
    ASSUME NEW T, 0 \in T, \A n \in Nat : n \in T => n + 1 \in T
    PROVE  \A n \in Nat : n \in T
<1> SUFFICES ASSUME Nat \ T # {} PROVE FALSE
  OBVIOUS
<1>1. PICK i \in Nat \ T : \A j \in Nat \ T : i <= j
  BY First
<1>2. i # 0 /\ i - 1 \in Nat /\ ~(i <= i - 1) /\ (i - 1) + 1 = i
  BY <1>1
<1>3. i - 1 \in T
  BY <1>1, <1>2
<1> QED  BY <1>1, <1>2, <1>3

\* A set of sequences that has the empty one and with a sequence its extensions
\* has all of them.
LEMMA SeqInduction ==
    ASSUME NEW A, NEW T, <<>> \in T,
           \A q \in Seq(A), e \in A : q \in T => Append(q, e) \in T
    PROVE  \A q \in Seq(A) : q \in T
<1> DEFINE N == {n \in Nat : \A q \in Seq(A) : Len(q) = n => q \in T}
<1>1. 0 \in N
  <2>1. ASSUME NEW q \in Seq(A), Len(q) = 0 PROVE q \in T
    <3>1. q = <<>>
      BY <2>1, EmptySeq
    <3> QED  BY <3>1
  <2> QED  BY <2>1
<1>2. ASSUME NEW n \in Nat, n \in N PROVE n + 1 \in N
  <2>1. ASSUME NEW q \in Seq(A), Len(q) = n + 1 PROVE q \in T
    <3>1. q # <<>>
      BY <2>1, EmptySeq
    <3>2. PICK s \in Seq(A), e \in A : q = Append(s, e)
      BY <3>1, SequenceEmptyOrAppend
    <3>3. Len(s) \in Nat /\ Len(q) = Len(s) + 1
      BY <3>2, AppendProperties, LenProperties
    <3>4. Len(s) = n
      BY <3>3, <2>1
    <3>5. s \in T
      BY <3>4, <1>2
    <3> QED  BY <3>2, <3>5
  <2> QED  BY <2>1
<1>3. \A n \in Nat : n \in N
  <2> HIDE DEF N
  <2> QED  BY <1>1, <1>2, Induction
<1> QED  BY <1>3, LenProperties

-----------------------------------------------------------------------------
(* The elements of a sequence that are in a set *)

\* f is the function by which Only is defined.
Parts(f, set, seq) ==
    f = [n \in 0 .. Len(seq) |->
           IF n = 0 THEN <<>>
           ELSE IF seq[n] \in set THEN Append(f[n - 1], seq[n]) ELSE f[n - 1]]

\* What such a function is at each place.
LEMMA PartsStep ==
    ASSUME NEW f, NEW set, NEW q, Parts(f, set, q), Len(q) \in Nat
    PROVE  /\ f[0] = <<>>
           /\ \A n \in 1 .. Len(q) :
                 f[n] = IF q[n] \in set THEN Append(f[n - 1], q[n]) ELSE f[n - 1]
<1> DEFINE P(n) == IF n = 0 THEN <<>>
                   ELSE IF q[n] \in set THEN Append(f[n - 1], q[n]) ELSE f[n - 1]
<1>1. f = [n \in 0 .. Len(q) |-> P(n)]
  BY DEF Parts
<1> HIDE DEF P
<1>2. \A n \in 0 .. Len(q) : f[n] = P(n)
  BY <1>1
<1>3. f[0] = <<>>
  BY <1>2 DEF P
<1>4. ASSUME NEW n \in 1 .. Len(q)
      PROVE  f[n] = IF q[n] \in set THEN Append(f[n - 1], q[n]) ELSE f[n - 1]
  <2>1. n \in 0 .. Len(q) /\ n # 0
    OBVIOUS
  <2> QED  BY <2>1, <1>2 DEF P
<1> QED  BY <1>3, <1>4

\* Two such functions, one for a longer sequence, agree on the shorter one.
LEMMA PartsAgree ==
    ASSUME NEW A, NEW set, NEW q \in Seq(A), NEW e \in A, NEW f, NEW g,
           Parts(f, set, q), Parts(g, set, Append(q, e))
    PROVE  f[Len(q)] = g[Len(q)]
<1> DEFINE T == {n \in Nat : n <= Len(q) => f[n] = g[n]}
           r == Append(q, e)
<1>0. /\ Len(q) \in Nat /\ Len(r) = Len(q) + 1
      /\ \A i \in 1 .. Len(q) : r[i] = q[i]
  BY AppendProperties, LenProperties
<1>6. Parts(g, set, r)
  OBVIOUS
<1> HIDE DEF r
<1>1. f[0] = <<>> /\ g[0] = <<>>
  BY <1>0, <1>6, PartsStep
<1>2. \A n \in 1 .. Len(q) : f[n] = IF q[n] \in set THEN Append(f[n - 1], q[n]) ELSE f[n - 1]
  BY <1>0, PartsStep
<1>3. \A n \in 1 .. Len(q) + 1 : g[n] = IF r[n] \in set THEN Append(g[n - 1], r[n]) ELSE g[n - 1]
  BY <1>0, <1>6, PartsStep
<1>4. ASSUME NEW n \in Nat, n \in T PROVE n + 1 \in T
  <2> SUFFICES ASSUME n + 1 <= Len(q) PROVE f[n + 1] = g[n + 1]
    OBVIOUS
  <2>1. f[n] = g[n]
    BY <1>4, <1>0
  <2>2. n + 1 \in 1 .. Len(q) /\ n + 1 \in 1 .. Len(q) + 1 /\ (n + 1) - 1 = n
    BY <1>0
  <2>3. r[n + 1] = q[n + 1]
    BY <2>2, <1>0
  <2> QED  BY <2>1, <2>2, <2>3, <1>2, <1>3
<1>5. Len(q) \in T
  <2>1. 0 \in T
    BY <1>1
  <2> HIDE DEF T
  <2> QED  BY <2>1, <1>0, <1>4, Induction
<1> QED  BY <1>0, <1>5

\* There is such a function for every sequence.
LEMMA PartsExist ==
    ASSUME NEW A, NEW set
    PROVE  \A q \in Seq(A) : \E f : Parts(f, set, q)
<1> DEFINE T == {q \in Seq(A) : \E f : Parts(f, set, q)}
<1>1. <<>> \in T
  <2>1. Parts([n \in 0 .. 0 |-> <<>>], set, <<>>)
    BY EmptySeq DEF Parts
  <2> QED  BY <2>1, EmptySeq
<1>2. ASSUME NEW q \in Seq(A), NEW e \in A, q \in T PROVE Append(q, e) \in T
  <2>1. PICK f : Parts(f, set, q)
    BY <1>2
  <2> DEFINE r == Append(q, e)
             L == Len(q)
             g == [n \in 0 .. L + 1 |->
                     IF n = L + 1 THEN IF e \in set THEN Append(f[L], e) ELSE f[L] ELSE f[n]]
  <2>2. /\ L \in Nat /\ Len(r) = L + 1 /\ r[L + 1] = e
        /\ \A i \in 1 .. L : r[i] = q[i]
    BY AppendProperties, LenProperties
  <2>3. f[0] = <<>>
    BY <2>1, <2>2, PartsStep
  <2>4. \A n \in 1 .. L : f[n] = IF q[n] \in set THEN Append(f[n - 1], q[n]) ELSE f[n - 1]
    BY <2>1, <2>2, PartsStep
  <2> HIDE DEF r, L
  <2>5. ASSUME NEW n \in 0 .. L + 1
        PROVE  g[n] = IF n = 0 THEN <<>>
                      ELSE IF r[n] \in set THEN Append(g[n - 1], r[n]) ELSE g[n - 1]
    <3>1. CASE n = 0
      BY <3>1, <2>2, <2>3
    <3>2. CASE n = L + 1
      <4>1. n - 1 = L /\ L \in 0 .. L + 1 /\ L # L + 1 /\ n # 0
        BY <3>2, <2>2
      <4>2. g[n - 1] = f[L] /\ g[n] = IF e \in set THEN Append(f[L], e) ELSE f[L]
        BY <4>1, <3>2
      <4> HIDE DEF g
      <4> QED  BY <4>1, <4>2, <3>2, <2>2
    <3>3. CASE n # 0 /\ n # L + 1
      <4>1. n \in 1 .. L /\ n - 1 \in 0 .. L + 1 /\ n - 1 # L + 1
        BY <3>3, <2>2
      <4>2. g[n] = f[n] /\ g[n - 1] = f[n - 1]
        BY <4>1, <3>3
      <4> HIDE DEF g
      <4> QED  BY <4>1, <4>2, <3>3, <2>2, <2>4
    <3> QED  BY <3>1, <3>2, <3>3
  <2>6. g = [n \in 0 .. L + 1 |-> IF n = 0 THEN <<>>
                      ELSE IF r[n] \in set THEN Append(g[n - 1], r[n]) ELSE g[n - 1]]
    <3> DEFINE G(n) == IF n = 0 THEN <<>>
                       ELSE IF r[n] \in set THEN Append(g[n - 1], r[n]) ELSE g[n - 1]
               h == [n \in 0 .. L + 1 |-> G(n)]
    <3>1. \A n \in 0 .. L + 1 : g[n] = G(n)
      BY <2>5
    <3>2. DOMAIN g = 0 .. L + 1 /\ g = [n \in DOMAIN g |-> g[n]]
      OBVIOUS
    <3> HIDE DEF g, G
    <3>3. g = h
      BY <3>1, <3>2
    <3> QED  BY <3>3 DEF G
  <2>7. Parts(g, set, r)
    BY <2>2, <2>6 DEF Parts
  <2>8. r \in Seq(A)
    BY AppendProperties DEF r
  <2> QED  BY <2>7, <2>8 DEF r
<1>3. \A q \in Seq(A) : q \in T
  <2> HIDE DEF T
  <2> QED  BY <1>1, <1>2, SeqInduction
<1> QED  BY <1>3

\* What Only makes of the empty sequence and of a longer one.
LEMMA OnlyEmpty ==
    ASSUME NEW set
    PROVE  Only(set, <<>>) = <<>>
<1> DEFINE f == CHOOSE f : Parts(f, set, <<>>)
<1>1. Parts(f, set, <<>>)
  BY PartsExist, EmptySeq
<1>2. Only(set, <<>>) = f[Len(<<>>)]
  BY DEF Only, Parts
<1> HIDE DEF f
<1>3. f[0] = <<>>
  BY <1>1, EmptySeq, PartsStep
<1> QED  BY <1>2, <1>3, EmptySeq

\* One element more.
LEMMA OnlyAppend ==
    ASSUME NEW A, NEW set, NEW q \in Seq(A), NEW e \in A
    PROVE  Only(set, Append(q, e)) =
               IF e \in set THEN Append(Only(set, q), e) ELSE Only(set, q)
<1> DEFINE r == Append(q, e)
           f == CHOOSE f : Parts(f, set, q)
           g == CHOOSE g : Parts(g, set, r)
<1>1. r \in Seq(A) /\ Len(r) = Len(q) + 1 /\ r[Len(q) + 1] = e /\ Len(q) \in Nat
  BY AppendProperties, LenProperties
<1>2. Parts(f, set, q) /\ Only(set, q) = f[Len(q)]
  <2>1. Parts(f, set, q)
    BY PartsExist
  <2>2. Only(set, q) = f[Len(q)]
    BY DEF Only, Parts
  <2> QED  BY <2>1, <2>2
<1>3. Parts(g, set, r) /\ Only(set, r) = g[Len(r)]
  <2> HIDE DEF r
  <2>1. Parts(g, set, r)
    BY <1>1, PartsExist
  <2>2. Only(set, r) = g[Len(r)]
    BY DEF Only, Parts
  <2> QED  BY <2>1, <2>2
<1> HIDE DEF f, g
<1>4. f[Len(q)] = g[Len(q)]
  BY <1>2, <1>3, PartsAgree
<1> HIDE DEF r
<1>5. g[Len(q) + 1] = IF e \in set THEN Append(g[Len(q)], e) ELSE g[Len(q)]
  <2>1. Len(q) + 1 \in 0 .. Len(r) /\ Len(q) + 1 # 0 /\ (Len(q) + 1) - 1 = Len(q)
    BY <1>1
  <2> QED  BY <2>1, <1>1, <1>3, PartsStep
<1> QED  BY <1>1, <1>2, <1>3, <1>4, <1>5 DEF r

\* One more element.
LEMMA RangeAppend ==
    ASSUME NEW A, NEW e \in A, NEW s \in Seq(A)
    PROVE  Append(s, e) \in Seq(A) /\ Range(Append(s, e)) = Range(s) \cup {e}
<1>1. PICK r : r = Append(s, e)
  OBVIOUS
<1>2. /\ r \in Seq(A) /\ Len(r) = Len(s) + 1 /\ r[Len(s) + 1] = e
      /\ \A i \in 1 .. Len(s) : r[i] = s[i]
      /\ Len(s) \in Nat /\ DOMAIN s = 1 .. Len(s) /\ DOMAIN r = 1 .. Len(s) + 1
  BY <1>1, AppendProperties, LenProperties
<1>3. Range(r) = Range(s) \cup {e}
  BY <1>2 DEF Range
<1> QED  BY <1>1, <1>2, <1>3

\* The last element may be appended before or after.
LEMMA ConcatAppend ==
    ASSUME NEW A, NEW r \in Seq(A), NEW q \in Seq(A), NEW e \in A
    PROVE  r \o Append(q, e) = Append(r \o q, e)
<1>1. <<e>> \in Seq(A) /\ r \o q \in Seq(A) /\ Append(q, e) = q \o <<e>>
  BY AppendIsConcat, ConcatProperties
<1>2. Append(r \o q, e) = (r \o q) \o <<e>>
  BY <1>1, AppendIsConcat
<1> QED  BY <1>1, <1>2, ConcatAssociative

\* Only keeps the elements that are in the set.
LEMMA OnlyRange ==
    ASSUME NEW A, NEW set
    PROVE  \A q \in Seq(A) : Only(set, q) \in Seq(A) /\ Range(Only(set, q)) = Range(q) \cap set
<1> DEFINE P(q) == Only(set, q) \in Seq(A) /\ Range(Only(set, q)) = Range(q) \cap set
           T == {q \in Seq(A) : P(q)}
<1>1. <<>> \in T
  <2>1. Range(<<>>) = {} /\ <<>> \in Seq(A)
    BY EmptySeq DEF Range
  <2> QED  BY <2>1, OnlyEmpty
<1>2. ASSUME NEW q \in Seq(A), NEW e \in A, q \in T PROVE Append(q, e) \in T
  <2>1. PICK o : o = Only(set, q)
    OBVIOUS
  <2>2. o \in Seq(A) /\ Range(o) = Range(q) \cap set
    BY <1>2, <2>1
  <2>3. \A s \in Seq(A) : Append(s, e) \in Seq(A) /\ Range(Append(s, e)) = Range(s) \cup {e}
    BY RangeAppend
  <2>4. Only(set, Append(q, e)) = IF e \in set THEN Append(o, e) ELSE o
    BY <2>1, OnlyAppend
  <2>5. P(Append(q, e))
    BY <2>2, <2>3, <2>4
  <2> QED  BY <2>5, <2>3
<1>3. \A q \in Seq(A) : q \in T
  <2> HIDE DEF T
  <2> QED  BY <1>1, <1>2, SeqInduction
<1> QED  BY <1>3

\* Keeping in two steps is keeping the elements of both sets.
LEMMA OnlyTwice ==
    ASSUME NEW A, NEW S1, NEW S2
    PROVE  \A q \in Seq(A) : Only(S1, Only(S2, q)) = Only(S1 \cap S2, q)
<1> DEFINE P(q) == Only(S1, Only(S2, q)) = Only(S1 \cap S2, q)
           T == {q \in Seq(A) : P(q)}
<1>1. <<>> \in T
  BY OnlyEmpty, EmptySeq
<1>2. ASSUME NEW q \in Seq(A), NEW e \in A, q \in T PROVE Append(q, e) \in T
  <2>1. PICK o : o = Only(S2, q)
    OBVIOUS
  <2>2. PICK b : b = Only(S1 \cap S2, q)
    OBVIOUS
  <2>3. o \in Seq(A) /\ Only(S1, o) = b
    BY <1>2, <2>1, <2>2, OnlyRange
  <2>4. Only(S1 \cap S2, Append(q, e)) = IF e \in S1 \cap S2 THEN Append(b, e) ELSE b
    BY <2>2, OnlyAppend
  <2>5. Only(S2, Append(q, e)) = IF e \in S2 THEN Append(o, e) ELSE o
    BY <2>1, OnlyAppend
  <2>6. Only(S1, Append(o, e)) = IF e \in S1 THEN Append(b, e) ELSE b
    BY <2>3, OnlyAppend
  <2>7. P(Append(q, e))
    BY <2>3, <2>4, <2>5, <2>6
  <2> QED  BY <2>7, AppendProperties
<1>3. \A q \in Seq(A) : q \in T
  <2> HIDE DEF T
  <2> QED  BY <1>1, <1>2, SeqInduction
<1> QED  BY <1>3

\* Sets that have the same elements of a sequence keep the same.
LEMMA OnlySame ==
    ASSUME NEW A, NEW S1, NEW S2
    PROVE  \A q \in Seq(A) : Range(q) \cap S1 = Range(q) \cap S2 => Only(S1, q) = Only(S2, q)
<1> DEFINE P(q) == Range(q) \cap S1 = Range(q) \cap S2 => Only(S1, q) = Only(S2, q)
           T == {q \in Seq(A) : P(q)}
<1>1. <<>> \in T
  BY OnlyEmpty, EmptySeq
<1>2. ASSUME NEW q \in Seq(A), NEW e \in A, q \in T PROVE Append(q, e) \in T
  <2>1. Append(q, e) \in Seq(A) /\ Range(Append(q, e)) = Range(q) \cup {e}
    BY RangeAppend
  <2>2. SUFFICES ASSUME Range(Append(q, e)) \cap S1 = Range(Append(q, e)) \cap S2
                 PROVE  Only(S1, Append(q, e)) = Only(S2, Append(q, e))
    BY <2>1
  <2>3. Range(q) \cap S1 = Range(q) \cap S2 /\ (e \in S1 <=> e \in S2)
    BY <2>1, <2>2
  <2>4. Only(S1, q) = Only(S2, q)
    BY <1>2, <2>3
  <2>5. Only(S1, Append(q, e)) = IF e \in S1 THEN Append(Only(S1, q), e) ELSE Only(S1, q)
    BY OnlyAppend
  <2>6. Only(S2, Append(q, e)) = IF e \in S2 THEN Append(Only(S2, q), e) ELSE Only(S2, q)
    BY OnlyAppend
  <2> QED  BY <2>3, <2>4, <2>5, <2>6, Zenon
<1>3. \A q \in Seq(A) : q \in T
  <2> HIDE DEF T
  <2> QED  BY <1>1, <1>2, SeqInduction
<1> QED  BY <1>3

\* What is kept of two sequences in a row.
LEMMA OnlyConcat ==
    ASSUME NEW A, NEW set, NEW r \in Seq(A)
    PROVE  \A q \in Seq(A) : Only(set, r \o q) = Only(set, r) \o Only(set, q)
<1> DEFINE P(q) == Only(set, r \o q) = Only(set, r) \o Only(set, q)
           T == {q \in Seq(A) : P(q)}
<1>0. PICK a : a = Only(set, r) /\ a \in Seq(A)
  BY OnlyRange
<1>1. <<>> \in T
  <2>1. r \o <<>> = r /\ a \o <<>> = a
    BY <1>0, ConcatEmptySeq
  <2> QED  BY <2>1, <1>0, OnlyEmpty, EmptySeq
<1>2. ASSUME NEW q \in Seq(A), NEW e \in A, q \in T PROVE Append(q, e) \in T
  <2>1. PICK b : b = Only(set, q) /\ b \in Seq(A)
    BY OnlyRange
  <2>2. Append(q, e) \in Seq(A) /\ r \o q \in Seq(A)
    BY AppendProperties, ConcatProperties
  <2>3. r \o Append(q, e) = Append(r \o q, e)
    BY ConcatAppend
  <2>4. a \o Append(b, e) = Append(a \o b, e)
    BY <1>0, <2>1, ConcatAppend
  <2>5. Only(set, r \o q) = a \o b
    BY <1>2, <1>0, <2>1
  <2>6. Only(set, Append(r \o q, e)) = IF e \in set THEN Append(a \o b, e) ELSE a \o b
    <3>1. PICK c : c = r \o q
      OBVIOUS
    <3>2. Only(set, Append(c, e)) = IF e \in set THEN Append(Only(set, c), e) ELSE Only(set, c)
      <4>1. c \in Seq(A)
        BY <3>1, <2>2
      <4> QED  BY <4>1, OnlyAppend
    <3> QED  BY <3>1, <3>2, <2>5
  <2>7. Only(set, Append(q, e)) = IF e \in set THEN Append(b, e) ELSE b
    BY <2>1, OnlyAppend
  <2>8. P(Append(q, e))
    BY <1>0, <2>3, <2>4, <2>6, <2>7
  <2> QED  BY <2>8, <2>2
<1>3. \A q \in Seq(A) : q \in T
  <2> HIDE DEF T
  <2> QED  BY <1>1, <1>2, SeqInduction
<1> QED  BY <1>3

\* What is kept of one more element in front.
LEMMA OnlyFirst ==
    ASSUME NEW A, NEW set, NEW q \in Seq(A), NEW e \in A
    PROVE  Only(set, <<e>> \o q) = IF e \in set THEN <<e>> \o Only(set, q) ELSE Only(set, q)
<1>1. PICK u : u = <<e>>
  OBVIOUS
<1>2. PICK n : n = <<>>
  OBVIOUS
<1>6. u \in Seq(A) /\ n \in Seq(A) /\ Append(n, e) = u
  BY <1>1, <1>2
<1>7. Only(set, n) = n
  BY <1>2, OnlyEmpty
<1>8. Only(set, Append(n, e)) = IF e \in set THEN Append(n, e) ELSE n
  <2>1. Only(set, Append(n, e)) = IF e \in set THEN Append(Only(set, n), e) ELSE Only(set, n)
    <3>1. n \in Seq(A)
      BY <1>6
    <3> QED  BY <3>1, OnlyAppend
  <2> QED  BY <2>1, <1>7
<1>3. Only(set, u \o q) = Only(set, u) \o Only(set, q)
  BY <1>6, OnlyConcat
<1>4. PICK b : b = Only(set, q) /\ b \in Seq(A)
  BY OnlyRange
<1>5. <<>> \o b = b
  BY <1>4, ConcatEmptySeq
<1> QED  BY <1>1, <1>2, <1>3, <1>4, <1>5, <1>6, <1>8

\* The other elements, when an element that occurs once is removed.
LEMMA OnlyRemove ==
    ASSUME NEW A, NEW q \in Seq(A), NEW i \in DOMAIN q,
           \A m, n \in DOMAIN q : q[m] = q[n] => m = n, NEW set
    PROVE  Only(set, RemoveAt(q, i)) = Only(set \ {q[i]}, q)
<1> DEFINE e == q[i]
           a == SubSeq(q, 1, i - 1)
           b == SubSeq(q, i + 1, Len(q))
<1>0. DOMAIN q = 1 .. Len(q) /\ Len(q) \in Nat /\ i \in 1 .. Len(q) /\ e \in A
  BY LenProperties
<1>1. /\ a \in Seq(A) /\ Len(a) = i - 1 /\ \A j \in 1 .. i - 1 : a[j] = q[j]
  BY <1>0
<1>2. /\ b \in Seq(A) /\ Len(b) = Len(q) - i /\ \A j \in 1 .. Len(q) - i : b[j] = q[i + j]
  BY <1>0
<1>3. q = (a \o <<e>>) \o b
  <2>1. a \o <<e>> = SubSeq(q, 1, i)
    <3>1. 1 \in 1 .. Len(q) /\ i \in 1 .. Len(q)
      BY <1>0
    <3>2. SubSeq(q, 1, i) = SubSeq(q, 1, i - 1) \o <<q[i]>>
      BY <3>1, SubSeqRecursiveSecond
    <3> QED  BY <3>2
  <2>2. q = SubSeq(q, 1, i) \o SubSeq(q, i + 1, Len(q))
    <3>1. SubSeq(q, 1, i) \o SubSeq(q, i + 1, Len(q)) = SubSeq(q, 1, Len(q))
      <4>1. 1 \in 1 .. Len(q) + 1 /\ i \in 1 - 1 .. Len(q) /\ Len(q) \in i .. Len(q)
        BY <1>0
      <4> QED  BY <4>1, ConcatAdjacentSubSeq
    <3>2. SubSeq(q, 1, Len(q)) = q
      BY SubSeqFull
    <3> QED  BY <3>1, <3>2
  <2> QED  BY <2>1, <2>2
<1>4. e \notin Range(a)
  <2>1. \A j \in 1 .. i - 1 : a[j] # e
    BY <1>0, <1>1
  <2>2. DOMAIN a = 1 .. i - 1
    BY <1>1, LenProperties
  <2> QED  BY <2>1, <2>2 DEF Range
<1>5. e \notin Range(b)
  <2>1. \A j \in 1 .. Len(q) - i : b[j] # e
    BY <1>0, <1>2
  <2>2. DOMAIN b = 1 .. Len(q) - i
    BY <1>2, LenProperties
  <2> QED  BY <2>1, <2>2 DEF Range
<1>6. RemoveAt(q, i) = a \o b
  BY DEF RemoveAt
<1> HIDE DEF a, b, e
<1>13. PICK rest : rest = set \ {e}
  OBVIOUS
<1>7. Only(set, a) = Only(set \ {e}, a)
  <2>1. Range(a) \cap set = Range(a) \cap (set \ {e})
    BY <1>4
  <2> QED  BY <2>1, <1>1, OnlySame
<1>8. Only(set, b) = Only(set \ {e}, b)
  <2>1. Range(b) \cap set = Range(b) \cap (set \ {e})
    BY <1>5
  <2> QED  BY <2>1, <1>2, OnlySame
<1>9. Only(set, a \o b) = Only(set \ {e}, a) \o Only(set \ {e}, b)
  <2>1. Only(set, a \o b) = Only(set, a) \o Only(set, b)
    BY <1>1, <1>2, OnlyConcat, SMTT(30)
  <2> QED  BY <2>1, <1>7, <1>8
<1>10. a \o <<e>> = Append(a, e) /\ Append(a, e) \in Seq(A)
  BY <1>0, <1>1, AppendIsConcat, AppendProperties
<1>11. Only(set \ {e}, Append(a, e)) = Only(set \ {e}, a)
  BY <1>0, <1>1, OnlyAppend
<1>12. Only(set \ {e}, q) = Only(set \ {e}, a) \o Only(set \ {e}, b)
  <2>1. PICK c : c = Append(a, e)
    OBVIOUS
  <2>2. Only(rest, c \o b) = Only(rest, c) \o Only(rest, b)
    <3>1. c \in Seq(A) /\ b \in Seq(A)
      BY <2>1, <1>2, <1>10
    <3> QED  BY <3>1, OnlyConcat
  <2> QED  BY <2>1, <2>2, <1>3, <1>10, <1>11, <1>13
<1> QED  BY <1>6, <1>9, <1>12 DEF e

-----------------------------------------------------------------------------
(* Counting *)

\* The tagged elements of finitely many finite sets are finitely many.
LEMMA TaggedFinite ==
    ASSUME NEW F, IsFiniteSet(DOMAIN F), \A a \in DOMAIN F : IsFiniteSet(F[a])
    PROVE  IsFiniteSet(Tagged(F)) /\ Cardinality(Tagged(F)) \in Nat
<1> DEFINE G(a) == {a} \X F[a]
           T == {G(a) : a \in DOMAIN F}
<1>1. \A a \in DOMAIN F : IsFiniteSet(G(a))
  BY FS_Singleton, FS_Product
<1>2. IsFiniteSet(T)
  <2> DEFINE g == [a \in DOMAIN F |-> G(a)]
  <2> HIDE DEF G
  <2>1. g \in Surjection(DOMAIN F, T)
    BY DEF Surjection
  <2> QED  BY <2>1, FS_Surjection
<1>3. \A S \in T : IsFiniteSet(S)
  <2> HIDE DEF G
  <2> QED  BY <1>1
<1>4. IsFiniteSet(UNION T)
  <2> HIDE DEF T
  <2> QED  BY <1>2, <1>3, FS_UNION
<1>5. Tagged(F) = UNION T
  BY DEF Tagged
<1> QED  BY <1>4, <1>5, FS_CardinalityType

\* A change of one of the sets changes the number by as much.
LEMMA TaggedChange ==
    ASSUME NEW F, NEW G, IsFiniteSet(DOMAIN F), DOMAIN G = DOMAIN F, NEW a \in DOMAIN F,
           \A b \in DOMAIN F : IsFiniteSet(F[b]), IsFiniteSet(G[a]),
           \A b \in DOMAIN F \ {a} : G[b] = F[b]
    PROVE  /\ Cardinality(Tagged(F)) \in Nat /\ Cardinality(Tagged(G)) \in Nat
           /\ Cardinality(F[a]) \in Nat /\ Cardinality(G[a]) \in Nat
           /\ Cardinality(F[a]) <= Cardinality(Tagged(F))
           /\ Cardinality(Tagged(G)) + Cardinality(F[a]) = Cardinality(Tagged(F)) + Cardinality(G[a])
<1> DEFINE R == [b \in DOMAIN F |-> IF b = a THEN {} ELSE F[b]]
<1>1. IsFiniteSet(Tagged(R))
  <2>1. DOMAIN R = DOMAIN F /\ \A b \in DOMAIN R : IsFiniteSet(R[b])
    BY FS_EmptySet
  <2> HIDE DEF R
  <2> QED  BY <2>1, TaggedFinite
<1>2. ASSUME NEW H, DOMAIN H = DOMAIN F, \A b \in DOMAIN F \ {a} : H[b] = F[b], IsFiniteSet(H[a])
      PROVE  /\ Cardinality(Tagged(H)) = Cardinality(Tagged(R)) + Cardinality(H[a])
             /\ Cardinality(H[a]) \in Nat /\ Cardinality(Tagged(R)) \in Nat
  <2> DEFINE C == {a} \X H[a]
  <2>1. Tagged(H) = Tagged(R) \cup C
    BY <1>2 DEF Tagged
  <2>2. Tagged(R) \cap C = {}
    BY DEF Tagged
  <2>3. IsFiniteSet(C) /\ Cardinality(C) = 1 * Cardinality(H[a])
    <3>1. IsFiniteSet({a}) /\ Cardinality({a}) = 1
      BY FS_Singleton
    <3> QED  BY <1>2, <3>1, FS_Product
  <2> HIDE DEF C, R
  <2>4. Cardinality(Tagged(R) \cup C)
          = Cardinality(Tagged(R)) + Cardinality(C) - Cardinality(Tagged(R) \cap C)
    BY <1>1, <2>3, FS_Union
  <2>5. Cardinality(Tagged(R)) \in Nat /\ Cardinality(H[a]) \in Nat /\ Cardinality({}) = 0
    BY <1>1, <1>2, FS_CardinalityType, FS_EmptySet
  <2>6. Cardinality(C) = Cardinality(H[a])
    BY <2>3, <2>5
  <2>7. Cardinality(Tagged(H)) = Cardinality(Tagged(R)) + Cardinality(H[a]) - 0
    BY <2>1, <2>2, <2>4, <2>5, <2>6
  <2> QED  BY <2>5, <2>7
<1> HIDE DEF R
<1>3. /\ Cardinality(Tagged(F)) = Cardinality(Tagged(R)) + Cardinality(F[a])
      /\ Cardinality(F[a]) \in Nat /\ Cardinality(Tagged(R)) \in Nat
  BY <1>2
<1>4. /\ Cardinality(Tagged(G)) = Cardinality(Tagged(R)) + Cardinality(G[a])
      /\ Cardinality(G[a]) \in Nat
  BY <1>2
<1> QED  BY <1>3, <1>4

\* Two of the sets.
LEMMA TaggedTwo ==
    ASSUME NEW F, IsFiniteSet(DOMAIN F), NEW a \in DOMAIN F, NEW b \in DOMAIN F, a # b,
           \A c \in DOMAIN F : IsFiniteSet(F[c])
    PROVE  Cardinality(F[a]) + Cardinality(F[b]) <= Cardinality(Tagged(F))
<1> DEFINE G == [F EXCEPT ![a] = {}]
<1>1. /\ DOMAIN G = DOMAIN F /\ G[a] = {} /\ G[b] = F[b]
      /\ \A c \in DOMAIN F \ {a} : G[c] = F[c]
      /\ \A c \in DOMAIN F : IsFiniteSet(G[c])
  BY FS_EmptySet
<1> HIDE DEF G
<1>2. Cardinality(Tagged(G)) + Cardinality(F[a]) = Cardinality(Tagged(F)) + Cardinality(G[a])
  BY <1>1, TaggedChange
<1>3. Cardinality(G[b]) <= Cardinality(Tagged(G)) /\ Cardinality(Tagged(G)) \in Nat
      /\ Cardinality(G[b]) \in Nat
  BY <1>1, TaggedChange
<1>4. Cardinality(F[a]) \in Nat /\ Cardinality(Tagged(F)) \in Nat
  BY TaggedFinite, FS_CardinalityType
<1>5. Cardinality(G[a]) = 0
  BY <1>1, FS_EmptySet
<1> QED  BY <1>1, <1>2, <1>3, <1>4, <1>5

\* Sets whose elements correspond have as many.
LEMMA SameNumber ==
    ASSUME NEW S, NEW T, IsFiniteSet(S), NEW f \in [S -> T],
           \A a, b \in S : f[a] = f[b] => a = b,
           \A c \in T : \E a \in S : f[a] = c
    PROVE  IsFiniteSet(T) /\ Cardinality(T) = Cardinality(S)
<1>1. f \in Bijection(S, T)
  BY DEF Bijection, Injection, Surjection, IsInjective
<1>2. ExistsBijection(S, T)
  BY <1>1 DEF ExistsBijection
<1> QED  BY <1>2, FS_Bijection

-----------------------------------------------------------------------------
(* The inductive invariant *)

\* The pairs with a value, and the unreferences of it that a call has to make.
Of(pairs, x) == {p \in pairs : p.value = x}
Unrefs(q, x) == {i \in DOMAIN q : q[i].op = "unref" /\ q[i].data = x}

\* Owners, of any lists and any calls.
PairOwners(l, x) == Cardinality(Tagged([d \in Dicts |-> Of(Range(l[d]), x)]))
ThreadOwners(w, x) == Cardinality(Tagged([t \in Threads |-> Unrefs(w[t], x)]))
OwnersOf(l, w, x) == PairOwners(l, x) + ThreadOwners(w, x)

\* The references that the threads have on a dict.
References(h, d) == Cardinality(Tagged([t \in Threads |-> 1 .. h[t][d]]))

KeysOf(l) == [i \in DOMAIN l |-> l[i].key]
Bucket(h) == {k \in Keys : Hash(k) = h}

\* The keys of a dict are different and each is in its chain.
Keyed(l, ch, n) ==
    /\ \A i, j \in DOMAIN l : l[i].key = l[j].key => i = j
    /\ \A h \in 0 .. HashSize - 1 : ch[h] = Only(Bucket(h), KeysOf(l))
    /\ n <= Len(l)

\* A dict that is not in use has no references and no pairs; its maker has it before
\* the first reference.
Lifecycle(st, n, h, m, l) ==
    \A d \in Dicts :
        /\ n[d] = References(h, d)
        /\ st[d] # "live" => n[d] = 0 /\ l[d] = <<>> /\ m[d] = NULL
        /\ m[d] # NULL => n[d] = 0

\* The values that calls are about to free.
Frees(w) ==
    {x \in Datas : \E t \in Threads : \E i \in DOMAIN w[t] : w[t][i].op = "free" /\ w[t][i].data = x}

\* A value has as many references as owners, and none when it is about to be freed.
Values(l, w, c, r) ==
    /\ \A x \in Datas : IF c[x] = "free" THEN OwnersOf(l, w, x) = 0
                                         ELSE r[x] = OwnersOf(l, w, x)
    /\ \A x \in Frees(w) : c[x] # "free" /\ OwnersOf(l, w, x) = 0

\* Holds and Exclusive, of any dicts.
Has(st, h, m, t, d) == st[d] = "live" /\ (h[t][d] > 0 \/ m[d] = t)

Owns(st, n, h, m, t, d) ==
    /\ st[d] = "live"
    /\ \/ n[d] = 1 /\ h[t][d] = 1
       \/ m[d] = t

\* What a thread has to do on dicts can be done.
Possible(st, n, h, m, l, t, j) ==
    /\ j.op = "ref" => Has(st, h, m, t, j.dict) /\ \E p \in Range(l[j.dict]) : p.key = j.key
    /\ j.op = "copy" => /\ Has(st, h, m, t, j.from) /\ Owns(st, n, h, m, t, j.to)
                        /\ j.at \in DOMAIN l[j.from]
    /\ j.op = "destroy" => st[j.dict] = "live" /\ n[j.dict] = 0 /\ m[j.dict] = NULL
    /\ j.op = "gone" => st[j.dict] = "dying"

Work(st, n, h, m, l, w) ==
    \A t \in Threads : \A i \in DOMAIN w[t] : Possible(st, n, h, m, l, t, w[t][i])

\* Two operations that end the same value or the same dict.
SameEnd(a, b) ==
    \/ a.op = "free" /\ b.op = "free" /\ a.data = b.data
    \/ a.op \in {"destroy", "gone"} /\ b.op \in {"destroy", "gone"} /\ a.dict = b.dict

\* A value and a dict end once.
Once(w) ==
    \A t, u \in Threads : \A i \in DOMAIN w[t], k \in DOMAIN w[u] :
        SameEnd(w[t][i], w[u][k]) => t = u /\ i = k

\* The rest of a call.
Rest(q) ==
    \A i \in DOMAIN q :
        /\ q[i].op \in {"destroy", "ref"} => Len(q) = 1
        /\ q[i].op = "gone" => i = Len(q)
        /\ q[i].op = "copy" => \A k \in DOMAIN q : q[k].op \in {"free", "copy"}

\* Everything together: an invariant of every step.
DictInv ==
    /\ TypeOK
    /\ \A d \in Dicts : Keyed(list[d], chain[d], count[d])
    /\ Lifecycle(state, refcount, held, maker, list)
    /\ Values(list, todo, content, refs)
    /\ Work(state, refcount, held, maker, list, todo)
    /\ Once(todo)
    /\ \A t \in Threads : Rest(todo[t])

-----------------------------------------------------------------------------
(* Owners *)

\* The elements of a sequence are finitely many.
LEMMA FiniteRange ==
    ASSUME NEW A, NEW q \in Seq(A)
    PROVE  IsFiniteSet(Range(q)) /\ IsFiniteSet(DOMAIN q)
<1>1. DOMAIN q = 1 .. Len(q) /\ Len(q) \in Nat
  BY LenProperties
<1>2. IsFiniteSet(1 .. Len(q))
  BY <1>1, FS_Interval
<1>3. q \in Surjection(DOMAIN q, Range(q))
  BY <1>1, LenProperties DEF Surjection, Range
<1> QED  BY <1>1, <1>2, <1>3, FS_Surjection

\* There are finitely many such pairs.
LEMMA OfFinite ==
    ASSUME NEW S, IsFiniteSet(S), NEW x
    PROVE  IsFiniteSet(Of(S, x)) /\ Cardinality(Of(S, x)) \in Nat
<1>1. Of(S, x) \in SUBSET S
  BY DEF Of
<1> QED  BY <1>1, FS_Subset, FS_CardinalityType

\* There are finitely many such unreferences.
LEMMA UnrefsFinite ==
    ASSUME NEW q \in Seq(Op), NEW x
    PROVE  IsFiniteSet(Unrefs(q, x)) /\ Cardinality(Unrefs(q, x)) \in Nat
<1>1. Unrefs(q, x) \in SUBSET DOMAIN q
  BY DEF Unrefs
<1> QED  BY <1>1, FiniteRange, FS_Subset, FS_CardinalityType

\* One more pair and one pair less.
LEMMA OfMore ==
    ASSUME NEW S, IsFiniteSet(S), NEW p, p \notin S, NEW x
    PROVE  Cardinality(Of(S \cup {p}, x)) = Cardinality(Of(S, x)) + IF p.value = x THEN 1 ELSE 0
<1>1. IsFiniteSet(Of(S, x)) /\ Cardinality(Of(S, x)) \in Nat /\ p \notin Of(S, x)
  BY OfFinite DEF Of
<1>2. CASE p.value = x
  <2>1. Of(S \cup {p}, x) = Of(S, x) \cup {p}
    BY <1>2 DEF Of
  <2>2. Cardinality(Of(S, x) \cup {p}) = Cardinality(Of(S, x)) + 1
    BY <1>1, FS_AddElement
  <2> QED  BY <2>1, <2>2, <1>2
<1>3. CASE p.value # x
  <2>1. Of(S \cup {p}, x) = Of(S, x)
    BY <1>3 DEF Of
  <2> QED  BY <2>1, <1>1, <1>3
<1> QED  BY <1>2, <1>3

\* A pair less.
LEMMA OfLess ==
    ASSUME NEW S, IsFiniteSet(S), NEW p \in S, NEW x
    PROVE  Cardinality(Of(S, x)) = Cardinality(Of(S \ {p}, x)) + IF p.value = x THEN 1 ELSE 0
<1>1. PICK R : R = S \ {p}
  OBVIOUS
<1>2. IsFiniteSet(R) /\ p \notin R /\ S = R \cup {p}
  BY <1>1, FS_RemoveElement
<1>3. Cardinality(Of(R \cup {p}, x)) = Cardinality(Of(R, x)) + IF p.value = x THEN 1 ELSE 0
  BY <1>2, OfMore
<1> QED  BY <1>1, <1>2, <1>3

\* A change of one dict changes the owners by as much as its own pairs.
LEMMA PairOwnersChange ==
    ASSUME NEW l \in [Dicts -> Seq(Pair)], NEW d \in Dicts, NEW m \in Seq(Pair), NEW x
    PROVE  /\ PairOwners(l, x) \in Nat /\ PairOwners([l EXCEPT ![d] = m], x) \in Nat
           /\ Cardinality(Of(Range(l[d]), x)) \in Nat /\ Cardinality(Of(Range(m), x)) \in Nat
           /\ Cardinality(Of(Range(l[d]), x)) <= PairOwners(l, x)
           /\ PairOwners([l EXCEPT ![d] = m], x) + Cardinality(Of(Range(l[d]), x))
                = PairOwners(l, x) + Cardinality(Of(Range(m), x))
<1> DEFINE n == [l EXCEPT ![d] = m]
           F == [e \in Dicts |-> Of(Range(l[e]), x)]
           G == [e \in Dicts |-> Of(Range(n[e]), x)]
<1>1. /\ DOMAIN F = Dicts /\ DOMAIN G = Dicts /\ IsFiniteSet(Dicts)
      /\ F[d] = Of(Range(l[d]), x) /\ G[d] = Of(Range(m), x)
      /\ \A e \in Dicts \ {d} : G[e] = F[e]
  BY FiniteAssumption
<1>2. \A e \in Dicts : IsFiniteSet(F[e])
  <2>1. ASSUME NEW e \in Dicts PROVE IsFiniteSet(F[e])
    <3>1. IsFiniteSet(Range(l[e]))
      BY FiniteRange
    <3> QED  BY <3>1, OfFinite
  <2> QED  BY <2>1
<1>3. IsFiniteSet(G[d])
  <2>1. IsFiniteSet(Range(m))
    BY FiniteRange
  <2> QED  BY <2>1, <1>1, OfFinite
<1>4. PairOwners(l, x) = Cardinality(Tagged(F)) /\ PairOwners(n, x) = Cardinality(Tagged(G))
  BY DEF PairOwners
<1> HIDE DEF F, G
<1>5. /\ Cardinality(Tagged(F)) \in Nat /\ Cardinality(Tagged(G)) \in Nat
      /\ Cardinality(F[d]) \in Nat /\ Cardinality(G[d]) \in Nat
      /\ Cardinality(F[d]) <= Cardinality(Tagged(F))
      /\ Cardinality(Tagged(G)) + Cardinality(F[d]) = Cardinality(Tagged(F)) + Cardinality(G[d])
  BY <1>1, <1>2, <1>3, TaggedChange
<1> HIDE DEF n
<1>6. /\ PairOwners(l, x) \in Nat /\ PairOwners(n, x) \in Nat
      /\ Cardinality(Of(Range(l[d]), x)) \in Nat /\ Cardinality(Of(Range(m), x)) \in Nat
      /\ Cardinality(Of(Range(l[d]), x)) <= PairOwners(l, x)
      /\ PairOwners(n, x) + Cardinality(Of(Range(l[d]), x))
           = PairOwners(l, x) + Cardinality(Of(Range(m), x))
  BY <1>1, <1>4, <1>5
<1> QED  BY <1>6 DEF n

\* A change of one call changes the owners by as much as its own unreferences.
LEMMA ThreadOwnersChange ==
    ASSUME NEW w \in [Threads -> Seq(Op)], NEW t \in Threads, NEW q \in Seq(Op), NEW x
    PROVE  /\ ThreadOwners(w, x) \in Nat /\ ThreadOwners([w EXCEPT ![t] = q], x) \in Nat
           /\ Cardinality(Unrefs(w[t], x)) \in Nat /\ Cardinality(Unrefs(q, x)) \in Nat
           /\ Cardinality(Unrefs(w[t], x)) <= ThreadOwners(w, x)
           /\ ThreadOwners([w EXCEPT ![t] = q], x) + Cardinality(Unrefs(w[t], x))
                = ThreadOwners(w, x) + Cardinality(Unrefs(q, x))
<1> DEFINE n == [w EXCEPT ![t] = q]
           F == [u \in Threads |-> Unrefs(w[u], x)]
           G == [u \in Threads |-> Unrefs(n[u], x)]
<1>1. /\ DOMAIN F = Threads /\ DOMAIN G = Threads /\ IsFiniteSet(Threads)
      /\ F[t] = Unrefs(w[t], x) /\ G[t] = Unrefs(q, x)
      /\ \A u \in Threads \ {t} : G[u] = F[u]
  BY FiniteAssumption
<1>2. \A u \in Threads : IsFiniteSet(F[u])
  BY UnrefsFinite
<1>3. IsFiniteSet(G[t])
  BY <1>1, UnrefsFinite
<1>4. ThreadOwners(w, x) = Cardinality(Tagged(F)) /\ ThreadOwners(n, x) = Cardinality(Tagged(G))
  BY DEF ThreadOwners
<1> HIDE DEF F, G
<1>5. /\ Cardinality(Tagged(F)) \in Nat /\ Cardinality(Tagged(G)) \in Nat
      /\ Cardinality(F[t]) \in Nat /\ Cardinality(G[t]) \in Nat
      /\ Cardinality(F[t]) <= Cardinality(Tagged(F))
      /\ Cardinality(Tagged(G)) + Cardinality(F[t]) = Cardinality(Tagged(F)) + Cardinality(G[t])
  BY <1>1, <1>2, <1>3, TaggedChange
<1> HIDE DEF n
<1>6. /\ ThreadOwners(w, x) \in Nat /\ ThreadOwners(n, x) \in Nat
      /\ Cardinality(Unrefs(w[t], x)) \in Nat /\ Cardinality(Unrefs(q, x)) \in Nat
      /\ Cardinality(Unrefs(w[t], x)) <= ThreadOwners(w, x)
      /\ ThreadOwners(n, x) + Cardinality(Unrefs(w[t], x))
           = ThreadOwners(w, x) + Cardinality(Unrefs(q, x))
  BY <1>1, <1>4, <1>5
<1> QED  BY <1>6 DEF n

\* A number of references, as a set.
LEMMA Interval ==
    ASSUME NEW n \in Nat
    PROVE  IsFiniteSet(1 .. n) /\ Cardinality(1 .. n) = n
<1>1. 1 \in Int /\ n \in Int
  OBVIOUS
<1>2. IsFiniteSet(1 .. n) /\ Cardinality(1 .. n) = IF 1 > n THEN 0 ELSE n - 1 + 1
  BY <1>1, FS_Interval
<1> QED  BY <1>2

\* A thread that has a reference, and two threads that have.
LEMMA ReferencesAtLeast ==
    ASSUME NEW h \in [Threads -> [Dicts -> Nat]], NEW d \in Dicts, NEW t \in Threads
    PROVE  /\ References(h, d) \in Nat /\ h[t][d] <= References(h, d)
           /\ \A u \in Threads \ {t} : h[t][d] + h[u][d] <= References(h, d)
<1> DEFINE F == [u \in Threads |-> 1 .. h[u][d]]
<1>1. DOMAIN F = Threads /\ IsFiniteSet(Threads)
  BY FiniteAssumption
<1>2. \A u \in Threads : IsFiniteSet(F[u]) /\ Cardinality(F[u]) = h[u][d]
  <2>1. ASSUME NEW u \in Threads PROVE IsFiniteSet(F[u]) /\ Cardinality(F[u]) = h[u][d]
    <3>1. h[u][d] \in Nat
      OBVIOUS
    <3>2. IsFiniteSet(1 .. h[u][d]) /\ Cardinality(1 .. h[u][d]) = h[u][d]
      BY <3>1, Interval
    <3> QED  BY <3>2
  <2> QED  BY <2>1
<1>3. References(h, d) = Cardinality(Tagged(F))
  BY DEF References
<1> HIDE DEF F
<1>4. Cardinality(Tagged(F)) \in Nat
  BY <1>1, <1>2, TaggedFinite
<1>5. Cardinality(F[t]) <= Cardinality(Tagged(F))
  BY <1>1, <1>2, TaggedChange
<1>6. ASSUME NEW u \in Threads \ {t} PROVE Cardinality(F[t]) + Cardinality(F[u]) <= Cardinality(Tagged(F))
  BY <1>1, <1>2, TaggedTwo
<1> QED  BY <1>2, <1>3, <1>4, <1>5, <1>6

\* A change of the references of one thread.
LEMMA ReferencesChange ==
    ASSUME NEW h \in [Threads -> [Dicts -> Nat]], NEW d \in Dicts, NEW t \in Threads,
           NEW g \in [Threads -> [Dicts -> Nat]],
           \A u \in Threads \ {t} : g[u][d] = h[u][d]
    PROVE  References(g, d) + h[t][d] = References(h, d) + g[t][d]
<1> DEFINE F == [u \in Threads |-> 1 .. h[u][d]]
           G == [u \in Threads |-> 1 .. g[u][d]]
<1>1. /\ DOMAIN F = Threads /\ DOMAIN G = Threads /\ IsFiniteSet(Threads)
      /\ \A u \in Threads \ {t} : G[u] = F[u]
  BY FiniteAssumption
<1>2. \A u \in Threads : IsFiniteSet(F[u])
  BY Interval
<1>3. IsFiniteSet(G[t]) /\ Cardinality(F[t]) = h[t][d] /\ Cardinality(G[t]) = g[t][d]
  <2>1. h[t][d] \in Nat /\ g[t][d] \in Nat
    OBVIOUS
  <2>2. IsFiniteSet(1 .. g[t][d]) /\ Cardinality(1 .. g[t][d]) = g[t][d]
    BY <2>1, Interval
  <2>3. Cardinality(1 .. h[t][d]) = h[t][d]
    BY <2>1, Interval
  <2> QED  BY <2>2, <2>3
<1>4. References(h, d) = Cardinality(Tagged(F)) /\ References(g, d) = Cardinality(Tagged(G))
  BY DEF References
<1> HIDE DEF F, G
<1>5. Cardinality(Tagged(G)) + Cardinality(F[t]) = Cardinality(Tagged(F)) + Cardinality(G[t])
  BY <1>1, <1>2, <1>3, TaggedChange
<1> QED  BY <1>3, <1>4, <1>5

\* The owners among the threads are a number.
LEMMA ThreadOwnersNat ==
    ASSUME NEW w \in [Threads -> Seq(Op)], NEW x
    PROVE  ThreadOwners(w, x) \in Nat
<1> DEFINE F == [u \in Threads |-> Unrefs(w[u], x)]
<1>1. DOMAIN F = Threads /\ IsFiniteSet(Threads)
  BY FiniteAssumption
<1>2. \A u \in Threads : IsFiniteSet(F[u])
  <2>1. ASSUME NEW u \in Threads PROVE IsFiniteSet(F[u])
    <3>1. PICK q \in Seq(Op) : q = w[u]
      OBVIOUS
    <3> QED  BY <3>1, UnrefsFinite
  <2> QED  BY <2>1
<1> HIDE DEF F
<1>3. Cardinality(Tagged(F)) \in Nat
  BY <1>1, <1>2, TaggedFinite
<1> QED  BY <1>3 DEF ThreadOwners, F

\* References depend on nothing but what the threads have of the dict.
LEMMA SameReferences ==
    ASSUME NEW h \in [Threads -> [Dicts -> Nat]], NEW g \in [Threads -> [Dicts -> Nat]],
           NEW d \in Dicts, \A u \in Threads : g[u][d] = h[u][d]
    PROVE  References(g, d) = References(h, d)
<1>1. [u \in Threads |-> 1 .. g[u][d]] = [u \in Threads |-> 1 .. h[u][d]]
  OBVIOUS
<1> QED  BY <1>1 DEF References

\* The owners among the pairs are a number.
LEMMA PairOwnersNat ==
    ASSUME NEW l \in [Dicts -> Seq(Pair)], NEW x
    PROVE  PairOwners(l, x) \in Nat
<1> DEFINE F == [d \in Dicts |-> Of(Range(l[d]), x)]
<1>1. DOMAIN F = Dicts /\ IsFiniteSet(Dicts)
  BY FiniteAssumption
<1>2. \A d \in Dicts : IsFiniteSet(F[d])
  <2>1. ASSUME NEW d \in Dicts PROVE IsFiniteSet(F[d])
    <3>1. PICK q \in Seq(Pair) : q = l[d]
      OBVIOUS
    <3> QED  BY <3>1, FiniteRange, OfFinite
  <2> QED  BY <2>1
<1> HIDE DEF F
<1>3. Cardinality(Tagged(F)) \in Nat
  BY <1>1, <1>2, TaggedFinite
<1> QED  BY <1>3 DEF PairOwners, F

-----------------------------------------------------------------------------
(* Sequences without one of their elements *)

\* m is l without its element i.
RemoveAtIs(l, m, i) ==
    /\ Len(m) = Len(l) - 1
    /\ \A S : l \in Seq(S) => m \in Seq(S)
    /\ DOMAIN m = 1 .. Len(l) - 1
    /\ \A j \in 1 .. Len(l) - 1 : m[j] = IF j < i THEN l[j] ELSE l[j + 1]

\* RemoveAt leaves out the one element.
LEMMA RemoveAtAll ==
    ASSUME NEW A, NEW l \in Seq(A), NEW i \in DOMAIN l
    PROVE  RemoveAtIs(l, RemoveAt(l, i), i)
<1> DEFINE a == SubSeq(l, 1, i - 1)
           b == SubSeq(l, i + 1, Len(l))
<1>0. DOMAIN l = 1 .. Len(l) /\ Len(l) \in Nat /\ i \in 1 .. Len(l)
  BY LenProperties
<1>1. ASSUME NEW S, l \in Seq(S)
      PROVE  /\ a \in Seq(S) /\ Len(a) = i - 1 /\ \A j \in 1 .. i - 1 : a[j] = l[j]
             /\ b \in Seq(S) /\ Len(b) = Len(l) - i /\ \A j \in 1 .. Len(l) - i : b[j] = l[i + j]
  <2>1. a \in Seq(S) /\ Len(a) = i - 1 /\ \A j \in 1 .. i - 1 : a[j] = l[j]
    BY <1>0, <1>1
  <2>2. b \in Seq(S) /\ Len(b) = Len(l) - i /\ \A j \in 1 .. Len(l) - i : b[j] = l[i + j]
    BY <1>0, <1>1
  <2> QED  BY <2>1, <2>2
<1> HIDE DEF a, b
<1>2. RemoveAt(l, i) = a \o b
  BY DEF RemoveAt, a, b
<1>3. ASSUME NEW S, l \in Seq(S)
      PROVE  /\ a \o b \in Seq(S) /\ Len(a \o b) = Len(l) - 1
             /\ \A j \in 1 .. Len(l) - 1 : (a \o b)[j] = IF j < i THEN l[j] ELSE l[j + 1]
  <2>1. /\ a \in Seq(S) /\ Len(a) = i - 1 /\ \A j \in 1 .. i - 1 : a[j] = l[j]
        /\ b \in Seq(S) /\ Len(b) = Len(l) - i /\ \A j \in 1 .. Len(l) - i : b[j] = l[i + j]
    BY <1>1, <1>3
  <2>2. /\ a \o b \in Seq(S) /\ Len(a \o b) = Len(a) + Len(b)
        /\ \A j \in 1 .. Len(a) + Len(b) : (a \o b)[j] = IF j <= Len(a) THEN a[j] ELSE b[j - Len(a)]
    BY <2>1, ConcatProperties
  <2>3. Len(a) + Len(b) = Len(l) - 1
    BY <1>0, <2>1
  <2>4. ASSUME NEW j \in 1 .. Len(l) - 1 PROVE (a \o b)[j] = IF j < i THEN l[j] ELSE l[j + 1]
    <3>1. (a \o b)[j] = IF j <= Len(a) THEN a[j] ELSE b[j - Len(a)]
      BY <2>2, <2>3
    <3>2. CASE j < i
      <4>1. j <= Len(a) /\ j \in 1 .. i - 1
        BY <1>0, <2>1, <3>2
      <4> QED  BY <4>1, <2>1, <3>1, <3>2
    <3>3. CASE ~(j < i)
      <4>1. ~(j <= Len(a)) /\ j - Len(a) \in 1 .. Len(l) - i /\ i + (j - Len(a)) = j + 1
        BY <1>0, <2>1, <3>3
      <4> QED  BY <4>1, <2>1, <3>1, <3>3
    <3> QED  BY <3>2, <3>3
  <2> QED  BY <2>2, <2>3, <2>4
<1>4. DOMAIN (a \o b) = 1 .. Len(l) - 1
  <2>1. a \o b \in Seq(A) /\ Len(a \o b) = Len(l) - 1
    BY <1>3
  <2> QED  BY <2>1, LenProperties
<1>5. /\ Len(a \o b) = Len(l) - 1
      /\ \A j \in 1 .. Len(l) - 1 : (a \o b)[j] = IF j < i THEN l[j] ELSE l[j + 1]
  BY <1>3
<1>6. \A S : l \in Seq(S) => a \o b \in Seq(S)
  BY <1>3
<1> QED  BY <1>2, <1>4, <1>5, <1>6 DEF RemoveAtIs

-----------------------------------------------------------------------------
(* The pairs of a dict *)

\* The keys of a list are a sequence of keys.
LEMMA KeysOfList ==
    ASSUME NEW l \in Seq(Pair)
    PROVE  /\ KeysOf(l) \in Seq(Keys) /\ Len(KeysOf(l)) = Len(l) /\ DOMAIN KeysOf(l) = DOMAIN l
           /\ \A i \in DOMAIN l : KeysOf(l)[i] = l[i].key
           /\ DOMAIN l = 1 .. Len(l) /\ Len(l) \in Nat
           /\ \A k : k \in Range(KeysOf(l)) <=> \E i \in DOMAIN l : l[i].key = k
<1>1. DOMAIN l = 1 .. Len(l) /\ Len(l) \in Nat /\ \A i \in 1 .. Len(l) : l[i] \in Pair
  BY LenProperties
<1>2. \A i \in 1 .. Len(l) : l[i].key \in Keys
  BY <1>1 DEF Pair
<1>3. KeysOf(l) = [i \in 1 .. Len(l) |-> l[i].key]
  BY <1>1 DEF KeysOf
<1>4. KeysOf(l) \in Seq(Keys) /\ Len(KeysOf(l)) = Len(l)
  BY <1>1, <1>2, <1>3
<1>5. DOMAIN KeysOf(l) = DOMAIN l /\ \A i \in DOMAIN l : KeysOf(l)[i] = l[i].key
  BY <1>1, <1>3
<1>6. \A k : k \in Range(KeysOf(l)) <=> \E i \in DOMAIN l : l[i].key = k
  BY <1>5 DEF Range
<1> QED  BY <1>1, <1>4, <1>5, <1>6

\* The search in the chain of a key finds it when the list has a pair with it.
LEMMA KeyedLookup ==
    ASSUME NEW l \in Seq(Pair), NEW ch, NEW n, Keyed(l, ch, n), NEW k \in Keys
    PROVE  k \in Range(ch[Hash(k)]) <=> \E i \in DOMAIN l : l[i].key = k
<1>1. Hash(k) \in 0 .. HashSize - 1 /\ k \in Bucket(Hash(k))
  BY HashAssumption DEF Bucket
<1>2. PICK b : b = Bucket(Hash(k))
  OBVIOUS
<1>3. ch[Hash(k)] = Only(b, KeysOf(l))
  BY <1>1, <1>2 DEF Keyed
<1>4. Range(Only(b, KeysOf(l))) = Range(KeysOf(l)) \cap b
  BY KeysOfList, OnlyRange
<1>5. k \in Range(KeysOf(l)) <=> \E i \in DOMAIN l : l[i].key = k
  BY KeysOfList
<1> QED  BY <1>1, <1>2, <1>3, <1>4, <1>5

\* A pair for a key that the dict does not have goes to the front of both.
LEMMA KeyedFirst ==
    ASSUME NEW l \in Seq(Pair), NEW ch \in [0 .. HashSize - 1 -> Seq(Keys)], NEW n \in Int,
           Keyed(l, ch, n),
           NEW p \in Pair, \A i \in DOMAIN l : l[i].key # p.key
    PROVE  /\ Keyed(<<p>> \o l, [ch EXCEPT ![Hash(p.key)] = <<p.key>> \o @], n + 1)
           /\ <<p>> \o l \in Seq(Pair) /\ Len(<<p>> \o l) = Len(l) + 1
           /\ [ch EXCEPT ![Hash(p.key)] = <<p.key>> \o @] \in [0 .. HashSize - 1 -> Seq(Keys)]
           /\ Range(<<p>> \o l) = Range(l) \cup {p} /\ p \notin Range(l)
<1>1. PICK m : m = <<p>> \o l
  OBVIOUS
<1>2. PICK k : k = p.key
  OBVIOUS
<1>3. k \in Keys /\ Hash(k) \in 0 .. HashSize - 1 /\ k \in Bucket(Hash(k))
  BY <1>2, HashAssumption DEF Pair, Bucket
<1>4. /\ m \in Seq(Pair) /\ Len(m) = Len(l) + 1 /\ m[1] = p
      /\ \A i \in 1 .. Len(l) : m[i + 1] = l[i]
      /\ DOMAIN l = 1 .. Len(l) /\ DOMAIN m = 1 .. Len(l) + 1 /\ Len(l) \in Nat
  BY <1>1
<1>5. \A i \in 2 .. Len(l) + 1 : i - 1 \in 1 .. Len(l) /\ m[i] = l[i - 1]
  BY <1>4
<1>6. Range(m) = Range(l) \cup {p}
  <2>1. \A y \in Range(m) : y \in Range(l) \cup {p}
    <3>1. ASSUME NEW i \in DOMAIN m PROVE m[i] \in Range(l) \cup {p}
      <4>1. i = 1 \/ i \in 2 .. Len(l) + 1
        BY <1>4
      <4>2. CASE i = 1
        BY <4>2, <1>4
      <4>3. CASE i \in 2 .. Len(l) + 1
        BY <4>3, <1>4, <1>5 DEF Range
      <4> QED  BY <4>1, <4>2, <4>3
    <3> QED  BY <3>1 DEF Range
  <2>2. \A i \in DOMAIN l : l[i] \in Range(m)
    <3>1. ASSUME NEW i \in DOMAIN l PROVE l[i] \in Range(m)
      <4>1. i + 1 \in DOMAIN m /\ m[i + 1] = l[i]
        BY <1>4
      <4> QED  BY <4>1 DEF Range
    <3> QED  BY <3>1
  <2>3. p \in Range(m)
    <3>1. 1 \in DOMAIN m
      BY <1>4
    <3> QED  BY <3>1, <1>4 DEF Range
  <2> QED  BY <2>1, <2>2, <2>3 DEF Range
<1>7. p \notin Range(l)
  BY DEF Range
<1>8. \A i, j \in DOMAIN m : m[i].key = m[j].key => i = j
  <2>1. ASSUME NEW i \in DOMAIN m, NEW j \in DOMAIN m, m[i].key = m[j].key, i # 1, j # 1
        PROVE  i = j
    <3>1. i \in 2 .. Len(l) + 1 /\ j \in 2 .. Len(l) + 1
      BY <2>1, <1>4
    <3>2. i - 1 \in DOMAIN l /\ j - 1 \in DOMAIN l /\ l[i - 1].key = l[j - 1].key
      BY <3>1, <2>1, <1>4, <1>5
    <3>3. i - 1 = j - 1
      BY <3>2 DEF Keyed
    <3> QED  BY <3>1, <3>3
  <2>2. ASSUME NEW i \in DOMAIN m, i # 1 PROVE m[i].key # p.key
    <3>1. i \in 2 .. Len(l) + 1
      BY <2>2, <1>4
    <3> QED  BY <3>1, <1>4, <1>5
  <2> QED  BY <2>1, <2>2, <1>4
<1>9. PICK e : e = [ch EXCEPT ![Hash(k)] = <<k>> \o @]
  OBVIOUS
<1>10. e \in [0 .. HashSize - 1 -> Seq(Keys)]
  <2>1. <<k>> \o ch[Hash(k)] \in Seq(Keys)
    BY <1>3
  <2> QED  BY <2>1, <1>9
<1>11. KeysOf(m) = <<k>> \o KeysOf(l)
  <2>1. /\ KeysOf(m) \in Seq(Keys) /\ Len(KeysOf(m)) = Len(l) + 1
        /\ \A i \in 1 .. Len(l) + 1 : KeysOf(m)[i] = m[i].key
    BY <1>4, KeysOfList
  <2>2. /\ KeysOf(l) \in Seq(Keys) /\ Len(KeysOf(l)) = Len(l)
        /\ \A i \in 1 .. Len(l) : KeysOf(l)[i] = l[i].key
    BY <1>4, KeysOfList
  <2>3. PICK a : a = KeysOf(m)
    OBVIOUS
  <2>4. PICK b : b = KeysOf(l)
    OBVIOUS
  <2>5. PICK c : c = <<k>> \o b
    OBVIOUS
  <2>6. /\ c \in Seq(Keys) /\ Len(c) = Len(l) + 1 /\ c[1] = k
        /\ \A i \in 2 .. Len(l) + 1 : c[i] = b[i - 1]
    <3>1. b \in Seq(Keys) /\ Len(b) = Len(l)
      BY <2>2, <2>4
    <3>2. /\ c \in Seq(Keys) /\ Len(c) = Len(b) + 1 /\ c[1] = k
          /\ \A i \in 1 .. Len(b) : c[i + 1] = b[i]
      BY <3>1, <2>5, <1>3
    <3>3. \A i \in 2 .. Len(l) + 1 : i - 1 \in 1 .. Len(b) /\ (i - 1) + 1 = i
      BY <3>1, <1>4
    <3>4. \A i \in 2 .. Len(l) + 1 : c[i] = b[i - 1]
      BY <3>2, <3>3
    <3> QED  BY <3>1, <3>2, <3>4
  <2>7. ASSUME NEW i \in 1 .. Len(l) + 1 PROVE a[i] = c[i]
    <3>1. a[i] = m[i].key
      BY <2>1, <2>3
    <3>2. CASE i = 1
      BY <3>1, <3>2, <2>6, <1>2, <1>4
    <3>3. CASE i # 1
      <4>1. i \in 2 .. Len(l) + 1
        BY <3>3, <1>4
      <4>2. c[i] = b[i - 1] /\ i - 1 \in 1 .. Len(l) /\ m[i] = l[i - 1]
        BY <4>1, <2>6, <1>5
      <4>3. b[i - 1] = l[i - 1].key
        BY <4>2, <2>2, <2>4
      <4> QED  BY <4>2, <4>3, <3>1
    <3> QED  BY <3>2, <3>3
  <2>8. a = c
    BY <2>1, <2>3, <2>6, <2>7, SeqEqual
  <2> QED  BY <2>3, <2>4, <2>5, <2>8
<1>12. ASSUME NEW h \in 0 .. HashSize - 1 PROVE e[h] = Only(Bucket(h), KeysOf(m))
  <2>1. ch[h] = Only(Bucket(h), KeysOf(l))
    BY DEF Keyed
  <2>2. PICK b : b = Bucket(h)
    OBVIOUS
  <2>3. PICK q : q = KeysOf(l)
    OBVIOUS
  <2>4. q \in Seq(Keys)
    BY <2>3, KeysOfList
  <2>5. Only(b, <<k>> \o q) = IF k \in b THEN <<k>> \o Only(b, q) ELSE Only(b, q)
    BY <2>4, <1>3, OnlyFirst
  <2>6. k \in b <=> h = Hash(k)
    BY <2>2, <1>3 DEF Bucket
  <2>7. e[h] = IF h = Hash(k) THEN <<k>> \o ch[h] ELSE ch[h]
    BY <1>3, <1>9
  <2> QED  BY <2>1, <2>2, <2>3, <2>5, <2>6, <2>7, <1>11
<1>13. n + 1 <= Len(m)
  BY <1>4 DEF Keyed
<1>14. Keyed(m, e, n + 1)
  BY <1>8, <1>12, <1>13 DEF Keyed
<1> QED  BY <1>1, <1>2, <1>4, <1>6, <1>7, <1>9, <1>10, <1>14

\* Another value for a key.
LEMMA KeyedReplace ==
    ASSUME NEW l \in Seq(Pair), NEW ch, NEW n, Keyed(l, ch, n), NEW i \in DOMAIN l,
           NEW p \in Pair, p.key = l[i].key
    PROVE  /\ Keyed([l EXCEPT ![i] = p], ch, n)
           /\ [l EXCEPT ![i] = p] \in Seq(Pair) /\ Len([l EXCEPT ![i] = p]) = Len(l)
           /\ Range([l EXCEPT ![i] = p]) = (Range(l) \ {l[i]}) \cup {p}
           /\ p \notin Range(l) \ {l[i]}
<1>1. PICK m : m = [l EXCEPT ![i] = p]
  OBVIOUS
<1>2. /\ DOMAIN l = 1 .. Len(l) /\ Len(l) \in Nat
      /\ m \in Seq(Pair) /\ Len(m) = Len(l) /\ DOMAIN m = DOMAIN l
      /\ m[i] = p /\ \A j \in DOMAIN l : j # i => m[j] = l[j]
  BY <1>1, LenProperties, ExceptSeq
<1>3. \A j \in DOMAIN l : m[j].key = l[j].key
  BY <1>2
<1>4. KeysOf(m) = KeysOf(l)
  BY <1>2, <1>3 DEF KeysOf
<1>5. \A j, k \in DOMAIN l : l[j].key = l[k].key => j = k
  BY DEF Keyed
<1>6. Keyed(m, ch, n)
  <2>1. \A j, k \in DOMAIN m : m[j].key = m[k].key => j = k
    BY <1>2, <1>3, <1>5
  <2> QED  BY <2>1, <1>2, <1>4 DEF Keyed
<1>7. Range(m) = (Range(l) \ {l[i]}) \cup {p}
  BY <1>2, <1>5 DEF Range
<1>8. p \notin Range(l) \ {l[i]}
  BY <1>5 DEF Range
<1> QED  BY <1>1, <1>2, <1>6, <1>7, <1>8

\* A pair leaves the list and its chain.
LEMMA KeyedRemove ==
    ASSUME NEW l \in Seq(Pair), NEW ch \in [0 .. HashSize - 1 -> Seq(Keys)], NEW n \in Int,
           Keyed(l, ch, n), NEW i \in DOMAIN l, NEW k, k = l[i].key
    PROVE  /\ Keyed(RemoveAt(l, i), [ch EXCEPT ![Hash(k)] = Only(Keys \ {k}, @)], n - 1)
           /\ RemoveAt(l, i) \in Seq(Pair)
           /\ [ch EXCEPT ![Hash(k)] = Only(Keys \ {k}, @)] \in [0 .. HashSize - 1 -> Seq(Keys)]
           /\ Range(RemoveAt(l, i)) = Range(l) \ {l[i]}
<1>1. PICK m : m = RemoveAt(l, i)
  OBVIOUS
<1>2. /\ DOMAIN l = 1 .. Len(l) /\ Len(l) \in Nat /\ i \in 1 .. Len(l)
      /\ l[i] \in Pair /\ k \in Keys
  <2>1. DOMAIN l = 1 .. Len(l) /\ Len(l) \in Nat
    BY LenProperties
  <2>2. l[i] \in Pair
    BY <2>1, ElementOfSeq
  <2> QED  BY <2>1, <2>2 DEF Pair
<1>3. RemoveAtIs(l, m, i)
  BY <1>1, RemoveAtAll
<1>4. /\ m \in Seq(Pair) /\ Len(m) = Len(l) - 1 /\ DOMAIN m = 1 .. Len(l) - 1
      /\ \A j \in 1 .. Len(l) - 1 : m[j] = IF j < i THEN l[j] ELSE l[j + 1]
  BY <1>3, <1>2 DEF RemoveAtIs
<1>5. \A j, g \in DOMAIN l : l[j].key = l[g].key => j = g
  BY DEF Keyed
<1> DEFINE Old(j) == IF j < i THEN j ELSE j + 1
<1>6. \A j \in 1 .. Len(l) - 1 : Old(j) \in DOMAIN l /\ Old(j) # i /\ m[j] = l[Old(j)]
  BY <1>2, <1>4
<1>7. \A j, g \in 1 .. Len(l) - 1 : Old(j) = Old(g) => j = g
  BY <1>2
<1>8. \A g \in DOMAIN l : g # i => \E j \in 1 .. Len(l) - 1 : Old(j) = g
  <2>1. ASSUME NEW g \in DOMAIN l, g # i PROVE \E j \in 1 .. Len(l) - 1 : Old(j) = g
    <3>1. CASE g < i
      <4>1. g \in 1 .. Len(l) - 1 /\ Old(g) = g
        BY <3>1, <1>2
      <4> QED  BY <4>1
    <3>2. CASE g > i
      <4>1. g - 1 \in 1 .. Len(l) - 1 /\ Old(g - 1) = g
        BY <3>2, <1>2
      <4> QED  BY <4>1
    <3> QED  BY <3>1, <3>2, <2>1, <1>2
  <2> QED  BY <2>1
<1> HIDE DEF Old
<1>9. \A j, g \in DOMAIN m : m[j].key = m[g].key => j = g
  <2>1. ASSUME NEW j \in DOMAIN m, NEW g \in DOMAIN m, m[j].key = m[g].key PROVE j = g
    <3>1. j \in 1 .. Len(l) - 1 /\ g \in 1 .. Len(l) - 1
      BY <1>4
    <3>2. l[Old(j)].key = l[Old(g)].key /\ Old(j) \in DOMAIN l /\ Old(g) \in DOMAIN l
      BY <3>1, <2>1, <1>6
    <3>3. Old(j) = Old(g)
      BY <3>2, <1>5
    <3> QED  BY <3>1, <3>3, <1>7
  <2> QED  BY <2>1
<1>10. Range(m) = Range(l) \ {l[i]}
  <2>1. \A j \in DOMAIN m : m[j] \in Range(l) /\ m[j] # l[i]
    BY <1>4, <1>5, <1>6 DEF Range
  <2>2. \A g \in DOMAIN l : l[g] # l[i] => l[g] \in Range(m)
    <3>1. ASSUME NEW g \in DOMAIN l, l[g] # l[i] PROVE l[g] \in Range(m)
      <4>1. PICK j \in 1 .. Len(l) - 1 : Old(j) = g
        BY <3>1, <1>8
      <4> QED  BY <4>1, <1>4, <1>6 DEF Range
    <3> QED  BY <3>1
  <2> QED  BY <2>1, <2>2 DEF Range
<1>11. PICK e : e = [ch EXCEPT ![Hash(k)] = Only(Keys \ {k}, @)]
  OBVIOUS
<1>12. Hash(k) \in 0 .. HashSize - 1
  BY <1>2, HashAssumption
<1>13. e \in [0 .. HashSize - 1 -> Seq(Keys)]
  <2>1. Only(Keys \ {k}, ch[Hash(k)]) \in Seq(Keys)
    BY <1>12, OnlyRange
  <2> QED  BY <2>1, <1>11
<1>14. PICK q : q = KeysOf(l)
  OBVIOUS
<1>15. /\ q \in Seq(Keys) /\ Len(q) = Len(l) /\ DOMAIN q = DOMAIN l
       /\ \A j \in DOMAIN l : q[j] = l[j].key
  BY <1>14, KeysOfList
<1>16. KeysOf(m) = RemoveAt(q, i)
  <2>1. PICK r : r = RemoveAt(q, i)
    OBVIOUS
  <2>2. RemoveAtIs(q, r, i)
    BY <2>1, <1>15, RemoveAtAll
  <2>3. /\ r \in Seq(Keys) /\ Len(r) = Len(l) - 1 /\ DOMAIN r = 1 .. Len(l) - 1
        /\ \A j \in 1 .. Len(l) - 1 : r[j] = q[Old(j)]
    BY <2>2, <1>2, <1>15 DEF RemoveAtIs, Old
  <2>4. PICK a : a = KeysOf(m)
    OBVIOUS
  <2>5. /\ a \in Seq(Keys) /\ Len(a) = Len(l) - 1
        /\ \A j \in 1 .. Len(l) - 1 : a[j] = m[j].key
    BY <2>4, <1>4, KeysOfList
  <2>6. \A j \in 1 .. Len(l) - 1 : a[j] = r[j]
    BY <2>3, <2>5, <1>6, <1>15
  <2>7. a = r
    BY <2>3, <2>5, <2>6, SeqEqual
  <2> QED  BY <2>1, <2>4, <2>7
<1>17. ASSUME NEW h \in 0 .. HashSize - 1 PROVE e[h] = Only(Bucket(h), KeysOf(m))
  <2>1. ch[h] = Only(Bucket(h), q)
    BY <1>14 DEF Keyed
  <2>2. PICK b : b = Bucket(h)
    OBVIOUS
  <2>3. Only(b, RemoveAt(q, i)) = Only(b \ {k}, q)
    <3>1. \A j, g \in DOMAIN q : q[j] = q[g] => j = g
      BY <1>5, <1>15
    <3>2. i \in DOMAIN q /\ q[i] = k
      BY <1>15
    <3>3. Only(b, RemoveAt(q, i)) = Only(b \ {q[i]}, q)
      BY <3>1, <3>2, <1>15, OnlyRemove
    <3> QED  BY <3>2, <3>3
  <2>4. CASE h = Hash(k)
    <3>1. PICK K : K = Keys \ {k}
      OBVIOUS
    <3>2. e[h] = Only(K, ch[h])
      BY <2>4, <3>1, <1>11, <1>12
    <3>3. Only(K, Only(b, q)) = Only(K \cap b, q)
      BY <1>15, OnlyTwice
    <3>4. K \cap b = b \ {k}
      BY <2>2, <3>1 DEF Bucket
    <3> QED  BY <2>1, <2>2, <2>3, <3>2, <3>3, <3>4, <1>16
  <2>5. CASE h # Hash(k)
    <3>1. e[h] = ch[h]
      BY <2>5, <1>11, <1>12
    <3>2. b \ {k} = b
      BY <2>2, <2>5 DEF Bucket
    <3> QED  BY <2>1, <2>2, <2>3, <3>1, <3>2, <1>16
  <2> QED  BY <2>4, <2>5
<1>18. n - 1 <= Len(m)
  BY <1>4, <1>2 DEF Keyed
<1>19. Keyed(m, e, n - 1)
  BY <1>9, <1>17, <1>18 DEF Keyed
<1> QED  BY <1>1, <1>4, <1>10, <1>11, <1>13, <1>19

-----------------------------------------------------------------------------
(* Setting and deleting pairs of one dict *)

\* The type of a store.
Stores ==
    [list : Seq(Pair), chain : [0 .. HashSize - 1 -> Seq(Keys)], count : Int,
     content : [Datas -> AllContents \cup {"free"}], refs : [Datas -> Nat], dead : Seq(Datas)]

\* How many pairs of a list have a value.
Uses(l, x) == Cardinality(Of(Range(l), x))

\* A store whose dict can be changed: others own o[x] references of x, and are about to
\* free the values in F.
StoreInv(s, o, F) ==
    /\ s \in Stores
    /\ Keyed(s.list, s.chain, s.count)
    /\ \A x \in Datas : IF s.content[x] = "free" THEN Uses(s.list, x) + o[x] = 0
                                                ELSE s.refs[x] = Uses(s.list, x) + o[x]
    /\ \A x \in F \cup Range(s.dead) : s.content[x] # "free" /\ Uses(s.list, x) + o[x] = 0
    /\ F \cap Range(s.dead) = {}
    /\ \A i, j \in DOMAIN s.dead : s.dead[i] = s.dead[j] => i = j

\* The uses of a value in one dict are a number.
LEMMA UsesNat ==
    ASSUME NEW l \in Seq(Pair), NEW x
    PROVE  Uses(l, x) \in Nat
BY FiniteRange, OfFinite DEF Uses

\* One more value is not repeated.
LEMMA AppendOnce ==
    ASSUME NEW A, NEW q \in Seq(A), NEW e \in A, e \notin Range(q),
           \A i, j \in DOMAIN q : q[i] = q[j] => i = j
    PROVE  \A i, j \in DOMAIN Append(q, e) : Append(q, e)[i] = Append(q, e)[j] => i = j
<1>1. PICK r : r = Append(q, e)
  OBVIOUS
<1>2. /\ r \in Seq(A) /\ Len(r) = Len(q) + 1 /\ r[Len(q) + 1] = e
      /\ \A i \in 1 .. Len(q) : r[i] = q[i]
      /\ Len(q) \in Nat /\ DOMAIN q = 1 .. Len(q) /\ DOMAIN r = 1 .. Len(q) + 1
  BY <1>1, AppendProperties, LenProperties
<1>3. \A i \in 1 .. Len(q) : q[i] # e
  BY <1>2 DEF Range
<1>4. \A i, j \in DOMAIN r : r[i] = r[j] => i = j
  BY <1>2, <1>3
<1> QED  BY <1>1, <1>4

\* The references follow the pairs: what remains to be shown of a change.
LEMMA StoreBalance ==
    ASSUME NEW s, NEW r, NEW o \in [Datas -> Nat], NEW F \in SUBSET Datas, StoreInv(s, o, F),
           r \in Stores, Keyed(r.list, r.chain, r.count), r.content = s.content,
           \A x \in Datas : s.content[x] # "free"
                               => r.refs[x] + Uses(s.list, x) = s.refs[x] + Uses(r.list, x),
           \A x \in Datas : \/ Uses(r.list, x) <= Uses(s.list, x)
                            \/ s.content[x] # "free" /\ x \notin F \cup Range(s.dead),
           \/ r.dead = s.dead
           \/ \E y \in Datas : /\ r.dead = Append(s.dead, y)
                               /\ Uses(s.list, y) > 0 /\ Uses(r.list, y) + o[y] = 0
    PROVE  StoreInv(r, o, F)
<1>0. /\ s \in Stores
      /\ \A x \in Datas : IF s.content[x] = "free" THEN Uses(s.list, x) + o[x] = 0
                                                  ELSE s.refs[x] = Uses(s.list, x) + o[x]
      /\ \A x \in F \cup Range(s.dead) : s.content[x] # "free" /\ Uses(s.list, x) + o[x] = 0
      /\ F \cap Range(s.dead) = {}
      /\ \A i, j \in DOMAIN s.dead : s.dead[i] = s.dead[j] => i = j
  BY DEF StoreInv
<1>1. s.list \in Seq(Pair) /\ r.list \in Seq(Pair) /\ s.dead \in Seq(Datas)
      /\ s.refs \in [Datas -> Nat] /\ r.refs \in [Datas -> Nat]
  BY <1>0 DEF Stores
<1>2. \A x \in Datas : Uses(s.list, x) \in Nat /\ Uses(r.list, x) \in Nat /\ o[x] \in Nat
                       /\ s.refs[x] \in Nat /\ r.refs[x] \in Nat
  BY <1>1, UsesNat
<1>3. ASSUME NEW x \in Datas
      PROVE  IF r.content[x] = "free" THEN Uses(r.list, x) + o[x] = 0
                                      ELSE r.refs[x] = Uses(r.list, x) + o[x]
  <2>1. CASE s.content[x] = "free"
    <3>1. Uses(r.list, x) <= Uses(s.list, x) /\ Uses(s.list, x) + o[x] = 0
      BY <2>1, <1>0
    <3> QED  BY <2>1, <3>1, <1>2
  <2>2. CASE s.content[x] # "free"
    <3>1. /\ s.refs[x] = Uses(s.list, x) + o[x]
          /\ r.refs[x] + Uses(s.list, x) = s.refs[x] + Uses(r.list, x)
      BY <2>2, <1>0
    <3>3. PICK a \in Nat, b \in Nat, m \in Nat, n \in Nat, k \in Nat :
             /\ a = Uses(s.list, x) /\ b = Uses(r.list, x) /\ m = s.refs[x] /\ n = r.refs[x]
             /\ k = o[x]
      BY <1>2
    <3>4. m = a + k /\ n + a = m + b
      BY <3>1, <3>3
    <3>5. n = b + k
      <4>1. a \in Nat /\ b \in Nat /\ m \in Nat /\ n \in Nat /\ k \in Nat
        BY <3>3
      <4> QED  BY <3>4, <4>1
    <3>2. r.refs[x] = Uses(r.list, x) + o[x]
      BY <3>3, <3>5
    <3> QED  BY <2>2, <3>2
  <2> QED  BY <2>1, <2>2
<1>4. Range(s.dead) \subseteq Datas
  BY <1>1, RangeOfSeq
<1>5. ASSUME NEW x \in F \cup Range(s.dead) PROVE r.content[x] # "free" /\ Uses(r.list, x) + o[x] = 0
  <2>1. x \in Datas /\ s.content[x] # "free" /\ Uses(s.list, x) + o[x] = 0
    BY <1>0, <1>4
  <2>2. Uses(r.list, x) <= Uses(s.list, x)
    BY <2>1
  <2> QED  BY <2>1, <2>2, <1>2
<1>6. CASE r.dead = s.dead
  <2>1. \A x \in F \cup Range(r.dead) : r.content[x] # "free" /\ Uses(r.list, x) + o[x] = 0
    BY <1>5, <1>6
  <2>2. F \cap Range(r.dead) = {} /\ \A i, j \in DOMAIN r.dead : r.dead[i] = r.dead[j] => i = j
    BY <1>0, <1>6
  <2> QED  BY <2>1, <2>2, <1>3 DEF StoreInv
<1>7. CASE \E y \in Datas : /\ r.dead = Append(s.dead, y)
                            /\ Uses(s.list, y) > 0 /\ Uses(r.list, y) + o[y] = 0
  <2>1. PICK y \in Datas : /\ r.dead = Append(s.dead, y)
                           /\ Uses(s.list, y) > 0 /\ Uses(r.list, y) + o[y] = 0
    BY <1>7
  <2>2. Range(r.dead) = Range(s.dead) \cup {y}
    BY <2>1, <1>1, RangeAppend
  <2>3. s.content[y] # "free" /\ y \notin F \cup Range(s.dead)
    <3>1. Uses(s.list, y) + o[y] # 0
      BY <2>1, <1>2
    <3> QED  BY <3>1, <1>0
  <2>4. \A x \in F \cup Range(r.dead) : r.content[x] # "free" /\ Uses(r.list, x) + o[x] = 0
    BY <2>1, <2>2, <2>3, <1>5
  <2>5. F \cap Range(r.dead) = {}
    BY <2>2, <2>3, <1>0
  <2>6. \A i, j \in DOMAIN r.dead : r.dead[i] = r.dead[j] => i = j
    <3>1. PICK q : q = s.dead
      OBVIOUS
    <3>2. q \in Seq(Datas) /\ y \notin Range(q) /\ \A i, j \in DOMAIN q : q[i] = q[j] => i = j
      BY <3>1, <2>3, <1>0, <1>1
    <3>3. \A i, j \in DOMAIN Append(q, y) : Append(q, y)[i] = Append(q, y)[j] => i = j
      BY <3>2, AppendOnce
    <3> QED  BY <3>1, <3>3, <2>1
  <2> QED  BY <2>4, <2>5, <2>6, <1>3 DEF StoreInv
<1> QED  BY <1>6, <1>7

\* A new data_t: no one refers to it.
LEMMA NewData ==
    ASSUME NEW s, NEW o \in [Datas -> Nat], NEW F \in SUBSET Datas, StoreInv(s, o, F),
           FreeDatas(s) # {}, NEW c \in AllContents, NEW x, x = Min(FreeDatas(s))
    PROVE  /\ StoreInv(get_new_data(s, c), o, F)
           /\ x \in Datas /\ get_new_data(s, c).content[x] # "free"
           /\ x \notin F \cup Range(s.dead)
           /\ get_new_data(s, c).list = s.list /\ get_new_data(s, c).dead = s.dead
           /\ get_new_data(s, c).chain = s.chain /\ get_new_data(s, c).count = s.count
           /\ FreeDatas(get_new_data(s, c)) = FreeDatas(s) \ {x} /\ x \in FreeDatas(s)
<1>0. /\ s \in Stores
      /\ Keyed(s.list, s.chain, s.count)
      /\ \A y \in Datas : IF s.content[y] = "free" THEN Uses(s.list, y) + o[y] = 0
                                                  ELSE s.refs[y] = Uses(s.list, y) + o[y]
      /\ \A y \in F \cup Range(s.dead) : s.content[y] # "free" /\ Uses(s.list, y) + o[y] = 0
      /\ F \cap Range(s.dead) = {}
      /\ \A i, j \in DOMAIN s.dead : s.dead[i] = s.dead[j] => i = j
  BY DEF StoreInv
<1>1. x \in FreeDatas(s)
  <2>1. FreeDatas(s) \in SUBSET Nat
    BY DatasAssumption DEF FreeDatas
  <2>2. PICK i \in FreeDatas(s) : \A j \in FreeDatas(s) : i <= j
    BY <2>1, First
  <2> QED  BY <2>2 DEF Min
<1>2. x \in Datas /\ s.content[x] = "free"
  BY <1>1 DEF FreeDatas
<1>3. c # "free"
  BY NullAssumption DEF AllContents
<1>4. PICK r : r = get_new_data(s, c)
  OBVIOUS
<1>5. r = [s EXCEPT !.content[x] = c, !.refs[x] = 0]
  BY <1>4 DEF get_new_data
<1>6. /\ r \in Stores /\ r.list = s.list /\ r.dead = s.dead /\ r.chain = s.chain /\ r.count = s.count
      /\ r.content = [s.content EXCEPT ![x] = c] /\ r.refs = [s.refs EXCEPT ![x] = 0]
  BY <1>0, <1>2, <1>5 DEF Stores
<1>7. /\ s.content \in [Datas -> AllContents \cup {"free"}] /\ s.refs \in [Datas -> Nat]
      /\ s.list \in Seq(Pair)
  BY <1>0 DEF Stores
<1>8. /\ r.content[x] = c /\ r.refs[x] = 0
      /\ \A y \in Datas \ {x} : r.content[y] = s.content[y] /\ r.refs[y] = s.refs[y]
  BY <1>2, <1>6, <1>7
<1>9. \A y \in Datas : IF r.content[y] = "free" THEN Uses(r.list, y) + o[y] = 0
                                               ELSE r.refs[y] = Uses(r.list, y) + o[y]
  <2>1. Uses(s.list, x) + o[x] = 0
    BY <1>0, <1>2
  <2> QED  BY <2>1, <1>0, <1>3, <1>6, <1>8
<1>10. x \notin F \cup Range(s.dead)
  BY <1>0, <1>2
<1>11. Range(s.dead) \subseteq Datas
  BY <1>0, RangeOfSeq DEF Stores
<1>12. \A y \in F \cup Range(r.dead) : r.content[y] # "free" /\ Uses(r.list, y) + o[y] = 0
  <2>1. ASSUME NEW y \in F \cup Range(s.dead) PROVE r.content[y] # "free" /\ Uses(r.list, y) + o[y] = 0
    <3>1. y \in Datas \ {x}
      BY <1>10, <1>11
    <3> QED  BY <3>1, <1>0, <1>6, <1>8
  <2> QED  BY <2>1, <1>6
<1>13. StoreInv(r, o, F)
  BY <1>0, <1>6, <1>9, <1>12 DEF StoreInv
<1>14. FreeDatas(r) = FreeDatas(s) \ {x}
  BY <1>3, <1>8 DEF FreeDatas
<1> QED  BY <1>1, <1>2, <1>3, <1>4, <1>6, <1>8, <1>10, <1>13, <1>14

\* data_unref and data_ref, field by field.
LEMMA UnrefFields ==
    ASSUME NEW u \in Stores, NEW y \in Datas, u.refs[y] > 0
    PROVE  LET r == data_unref(u, y)
           IN  /\ r \in Stores /\ r.list = u.list /\ r.chain = u.chain /\ r.count = u.count
               /\ r.content = u.content
               /\ r.refs[y] = u.refs[y] - 1 /\ \A z \in Datas \ {y} : r.refs[z] = u.refs[z]
               /\ r.dead = IF u.refs[y] = 1 THEN Append(u.dead, y) ELSE u.dead
<1> DEFINE r == data_unref(u, y)
           d == IF u.refs[y] = 1 THEN Append(u.dead, y) ELSE u.dead
<1>1. r = [u EXCEPT !.refs[y] = u.refs[y] - 1, !.dead = d]
  BY DEF data_unref, Stores
<1>2. d \in Seq(Datas)
  BY DEF Stores
<1>3. u.refs \in [Datas -> Nat] /\ u.refs[y] - 1 \in Nat
  BY DEF Stores
<1> HIDE DEF r, d
<1>4. /\ r \in Stores /\ r.list = u.list /\ r.chain = u.chain /\ r.count = u.count
      /\ r.content = u.content /\ r.dead = d
      /\ r.refs = [u.refs EXCEPT ![y] = u.refs[y] - 1]
  BY <1>1, <1>2, <1>3 DEF Stores
<1>5. r.refs[y] = u.refs[y] - 1 /\ \A z \in Datas \ {y} : r.refs[z] = u.refs[z]
  BY <1>3, <1>4
<1> QED  BY <1>4, <1>5 DEF r, d

\* data_ref changes the count of one value.
LEMMA RefFields ==
    ASSUME NEW u \in Stores, NEW y \in Datas
    PROVE  LET r == data_ref(u, y)
           IN  /\ r \in Stores /\ r.list = u.list /\ r.chain = u.chain /\ r.count = u.count
               /\ r.content = u.content /\ r.dead = u.dead
               /\ r.refs[y] = u.refs[y] + 1 /\ \A z \in Datas \ {y} : r.refs[z] = u.refs[z]
<1> DEFINE r == data_ref(u, y)
<1>1. r = [u EXCEPT !.refs[y] = u.refs[y] + 1]
  BY DEF data_ref, Stores
<1>3. u.refs \in [Datas -> Nat] /\ u.refs[y] + 1 \in Nat
  BY DEF Stores
<1> HIDE DEF r
<1>4. /\ r \in Stores /\ r.list = u.list /\ r.chain = u.chain /\ r.count = u.count
      /\ r.content = u.content /\ r.dead = u.dead
      /\ r.refs = [u.refs EXCEPT ![y] = u.refs[y] + 1]
  BY <1>1, <1>3 DEF Stores
<1>5. r.refs[y] = u.refs[y] + 1 /\ \A z \in Datas \ {y} : r.refs[z] = u.refs[z]
  BY <1>3, <1>4
<1> QED  BY <1>4, <1>5 DEF r

\* The place of a pair whose key is found.
LEMMA FoundAt ==
    ASSUME NEW s, NEW o, NEW F, StoreInv(s, o, F), NEW k \in Keys, _dict_lookup(s, k)
    PROVE  /\ Position(s, k) \in DOMAIN s.list /\ s.list[Position(s, k)].key = k
           /\ s.list[Position(s, k)] \in Pair /\ s.list[Position(s, k)].value \in Datas
<1>1. s.list \in Seq(Pair) /\ Keyed(s.list, s.chain, s.count)
  BY DEF StoreInv, Stores
<1>2. k \in Range(s.chain[Hash(k)])
  BY DEF _dict_lookup
<1>3. \E i \in DOMAIN s.list : s.list[i].key = k
  BY <1>1, <1>2, KeyedLookup
<1>4. Position(s, k) \in DOMAIN s.list /\ s.list[Position(s, k)].key = k
  BY <1>3 DEF Position
<1>5. s.list[Position(s, k)] \in Pair
  BY <1>1, <1>4, LenProperties, ElementOfSeq
<1> QED  BY <1>4, <1>5 DEF Pair

\* A value that a pair of the dict has.
LEMMA UsedValue ==
    ASSUME NEW l \in Seq(Pair), NEW i \in DOMAIN l
    PROVE  /\ Uses(l, l[i].value) \in Nat /\ Uses(l, l[i].value) > 0
           /\ l[i] \in Range(l) /\ IsFiniteSet(Range(l))
<1>1. l[i] \in Range(l) /\ IsFiniteSet(Range(l))
  BY FiniteRange DEF Range
<1>2. PICK p, S : p = l[i] /\ S = Range(l)
  OBVIOUS
<1>3. p \in S /\ IsFiniteSet(S)
  BY <1>1, <1>2
<1>4. Cardinality(Of(S, p.value)) = Cardinality(Of(S \ {p}, p.value)) + 1
  BY <1>3, OfLess
<1>5. Cardinality(Of(S \ {p}, p.value)) \in Nat
  BY <1>3, FS_RemoveElement, OfFinite
<1>6. Uses(l, p.value) > 0 /\ Uses(l, p.value) \in Nat
  BY <1>2, <1>4, <1>5 DEF Uses
<1> QED  BY <1>1, <1>2, <1>6

\* _dict_set keeps the dict and the references right, whether it replaces, adds or fails.
LEMMA SetStoreOf ==
    ASSUME NEW s, NEW o \in [Datas -> Nat], NEW F \in SUBSET Datas, StoreInv(s, o, F),
           NEW k \in Keys, NEW x \in Datas, s.content[x] # "free", x \notin F \cup Range(s.dead),
           NEW mem \in BOOLEAN
    PROVE  /\ StoreInv(_dict_set(s, k, x, mem), o, F)
           /\ _dict_set(s, k, x, mem).content = s.content
           /\ Len(s.list) <= Len(_dict_set(s, k, x, mem).list)
<1> DEFINE r == _dict_set(s, k, x, mem)
           p == [key |-> k, value |-> x]
<1>0. /\ s \in Stores /\ Keyed(s.list, s.chain, s.count)
      /\ s.list \in Seq(Pair) /\ s.chain \in [0 .. HashSize - 1 -> Seq(Keys)] /\ s.count \in Int
      /\ s.dead \in Seq(Datas) /\ s.refs \in [Datas -> Nat]
  BY DEF StoreInv, Stores
<1>1. p \in Pair /\ p.key = k /\ p.value = x
  BY DEF Pair
<1>2. CASE _dict_lookup(s, k)
  <2>1. PICK i : i = Position(s, k)
    OBVIOUS
  <2>2. i \in DOMAIN s.list /\ s.list[i].key = k /\ s.list[i].value \in Datas
    BY <2>1, <1>2, FoundAt
  <2>3. PICK y \in Datas : y = s.list[i].value
    BY <2>2
  <2>4. PICK v : v = data_ref(s, x)
    OBVIOUS
  <2>5. /\ v \in Stores /\ v.list = s.list /\ v.chain = s.chain /\ v.count = s.count
        /\ v.content = s.content /\ v.dead = s.dead
        /\ v.refs[x] = s.refs[x] + 1 /\ \A z \in Datas \ {x} : v.refs[z] = s.refs[z]
    BY <2>4, <1>0, RefFields, SMTT(30)
  <2>6. PICK m : m = [s.list EXCEPT ![i] = p]
    OBVIOUS
  <2>7. /\ Keyed(m, s.chain, s.count) /\ m \in Seq(Pair) /\ Len(m) = Len(s.list)
        /\ Range(m) = (Range(s.list) \ {s.list[i]}) \cup {p} /\ p \notin Range(s.list) \ {s.list[i]}
    <3>1. p.key = s.list[i].key
      BY <1>1, <2>2
    <3>2. PICK l \in Seq(Pair) : l = s.list
      BY <1>0
    <3>3. PICK ch, n : ch = s.chain /\ n = s.count
      OBVIOUS
    <3>4. PICK e \in Pair : e = p
      BY <1>1
    <3>5. Keyed(l, ch, n) /\ i \in DOMAIN l /\ e.key = l[i].key
      BY <3>1, <3>2, <3>3, <3>4, <2>2, <1>0
    <3>6. /\ Keyed([l EXCEPT ![i] = e], ch, n)
          /\ [l EXCEPT ![i] = e] \in Seq(Pair) /\ Len([l EXCEPT ![i] = e]) = Len(l)
          /\ Range([l EXCEPT ![i] = e]) = (Range(l) \ {l[i]}) \cup {e}
          /\ e \notin Range(l) \ {l[i]}
      BY <3>5, KeyedReplace
    <3>7. m = [l EXCEPT ![i] = e]
      BY <3>2, <3>4, <2>6
    <3> HIDE DEF p
    <3> QED  BY <3>2, <3>3, <3>4, <3>6, <3>7
  <2>8. PICK u : u = [v EXCEPT !.list = m]
    OBVIOUS
  <2>9. r = data_unref(u, y)
    <3>1. r = data_unref([v EXCEPT !.list[i].value = x], y)
      BY <1>2, <2>1, <2>3, <2>4 DEF _dict_set
    <3>2. [s.list[i] EXCEPT !.value = x] = p
      <4>1. s.list[i] \in Pair
        BY <2>2, <1>0, LenProperties, ElementOfSeq
      <4> QED  BY <4>1, <2>2 DEF Pair
    <3>3. [v.list EXCEPT ![i].value = x] = m
      BY <3>2, <2>5, <2>6
    <3>4. [v EXCEPT !.list[i].value = x] = u
      BY <3>3, <2>5, <2>8 DEF Stores
    <3> QED  BY <3>1, <3>4
  <2>10. /\ u \in Stores /\ u.list = m /\ u.chain = s.chain /\ u.count = s.count
         /\ u.content = s.content /\ u.dead = s.dead /\ u.refs = v.refs
    BY <2>5, <2>7, <2>8 DEF Stores
  <2>11. Uses(s.list, y) \in Nat /\ Uses(s.list, y) > 0 /\ s.list[i] \in Range(s.list)
         /\ IsFiniteSet(Range(s.list))
    BY <2>2, <2>3, <1>0, UsedValue
  <2>12. s.refs[y] = Uses(s.list, y) + o[y] /\ s.content[y] # "free"
         /\ s.refs[y] \in Nat /\ o[y] \in Nat
    BY <2>11, <1>0 DEF StoreInv
  <2>13. s.refs[y] > 0
    BY <2>11, <2>12
  <2>14. u.refs[y] > 0
    BY <2>5, <2>10, <2>13, <1>0
  <2> HIDE DEF r, p
  <2>15. /\ r \in Stores /\ r.list = m /\ r.chain = s.chain /\ r.count = s.count
         /\ r.content = s.content
         /\ r.refs[y] = u.refs[y] - 1 /\ \A z \in Datas \ {y} : r.refs[z] = u.refs[z]
         /\ r.dead = IF u.refs[y] = 1 THEN Append(s.dead, y) ELSE s.dead
    BY <2>9, <2>10, <2>14, UnrefFields
  <2>16. PICK R : R = Range(s.list) \ {s.list[i]}
    OBVIOUS
  <2>17. IsFiniteSet(R)
    BY <2>11, <2>16, FS_RemoveElement
  <2>18. ASSUME NEW z \in Datas
         PROVE  /\ Uses(s.list, z) = Cardinality(Of(R, z)) + IF y = z THEN 1 ELSE 0
                /\ Uses(m, z) = Cardinality(Of(R, z)) + IF x = z THEN 1 ELSE 0
                /\ Cardinality(Of(R, z)) \in Nat
    <3>1. Uses(s.list, z) = Cardinality(Of(R, z)) + IF s.list[i].value = z THEN 1 ELSE 0
      BY <2>11, <2>16, OfLess DEF Uses
    <3>2. Cardinality(Of(R \cup {p}, z)) = Cardinality(Of(R, z)) + IF p.value = z THEN 1 ELSE 0
      BY <2>7, <2>16, <2>17, OfMore
    <3>3. Cardinality(Of(R, z)) \in Nat
      BY <2>17, OfFinite
    <3>4. Range(m) = R \cup {p}
      BY <2>7, <2>16
    <3> QED  BY <3>1, <3>2, <3>3, <3>4, <2>3, <1>1 DEF Uses
  <2>19. ASSUME NEW z \in Datas
         PROVE  r.refs[z] + Uses(s.list, z) = s.refs[z] + Uses(r.list, z)
    <3>1. PICK n \in Nat : n = Cardinality(Of(R, z))
      BY <2>18
    <3>2. PICK f \in Nat : f = s.refs[z]
      BY <1>0
    <3>3. /\ Uses(s.list, z) = n + IF y = z THEN 1 ELSE 0
          /\ Uses(r.list, z) = n + IF x = z THEN 1 ELSE 0
      BY <3>1, <2>15, <2>18
    <3>4. u.refs[z] = f + IF x = z THEN 1 ELSE 0
      BY <3>2, <2>5, <2>10
    <3>5. r.refs[z] = (f + IF x = z THEN 1 ELSE 0) - IF y = z THEN 1 ELSE 0
      BY <3>4, <2>15
    <3> QED  BY <3>1, <3>2, <3>3, <3>5
  <2>20. \A z \in Datas : \/ Uses(r.list, z) <= Uses(s.list, z)
                          \/ s.content[z] # "free" /\ z \notin F \cup Range(s.dead)
    BY <2>15, <2>18
  <2>21. CASE u.refs[y] = 1
    <3>1. r.dead = Append(s.dead, y)
      BY <2>15, <2>21
    <3>2. x # y
      BY <2>5, <2>10, <2>13, <2>21, <1>0
    <3>3. s.refs[y] = 1
      BY <3>2, <2>5, <2>10, <2>21
    <3>4. Uses(s.list, y) = Uses(m, y) + 1 /\ Uses(m, y) \in Nat
      BY <3>2, <2>18
    <3>5. Uses(r.list, y) + o[y] = 0
      BY <3>3, <3>4, <2>12, <2>15
    <3>6. \E z \in Datas : /\ r.dead = Append(s.dead, z)
                           /\ Uses(s.list, z) > 0 /\ Uses(r.list, z) + o[z] = 0
      BY <3>1, <3>5, <2>11
    <3>7. StoreInv(r, o, F)
      BY <3>6, <2>7, <2>15, <2>19, <2>20, StoreBalance
    <3> QED  BY <3>7, <2>7, <2>15, <1>0 DEF r
  <2>22. CASE u.refs[y] # 1
    <3>1. r.dead = s.dead
      BY <2>15, <2>22
    <3>7. StoreInv(r, o, F)
      BY <3>1, <2>7, <2>15, <2>19, <2>20, StoreBalance
    <3> QED  BY <3>7, <2>7, <2>15, <1>0 DEF r
  <2> QED  BY <2>21, <2>22
<1>3. CASE ~_dict_lookup(s, k) /\ mem
  <2>1. PICK v : v = data_ref(s, x)
    OBVIOUS
  <2>2. /\ v \in Stores /\ v.list = s.list /\ v.chain = s.chain /\ v.count = s.count
        /\ v.content = s.content /\ v.dead = s.dead
        /\ v.refs[x] = s.refs[x] + 1 /\ \A z \in Datas \ {x} : v.refs[z] = s.refs[z]
    BY <2>1, <1>0, RefFields, SMTT(30)
  <2>3. PICK m : m = <<p>> \o s.list
    OBVIOUS
  <2>4. PICK ch : ch = [s.chain EXCEPT ![Hash(k)] = <<k>> \o @]
    OBVIOUS
  <2>5. \A i \in DOMAIN s.list : s.list[i].key # p.key
    BY <1>0, <1>1, <1>3, KeyedLookup DEF _dict_lookup
  <2>6. r = [v EXCEPT !.list = m, !.chain = ch, !.count = s.count + 1]
    <3>1. r = [v EXCEPT !.list = <<p>> \o @, !.chain[Hash(k)] = <<k>> \o @, !.count = @ + 1]
      BY <1>3, <2>1 DEF _dict_set
    <3> HIDE DEF r, p
    <3> QED  BY <3>1, <2>2, <2>3, <2>4 DEF Stores
  <2> HIDE DEF r, p
  <2>7. /\ Keyed(m, ch, s.count + 1) /\ m \in Seq(Pair) /\ Len(m) = Len(s.list) + 1
        /\ ch \in [0 .. HashSize - 1 -> Seq(Keys)]
        /\ Range(m) = Range(s.list) \cup {p} /\ p \notin Range(s.list)
    BY <2>3, <2>4, <2>5, <1>0, <1>1, KeyedFirst
  <2>8. /\ r \in Stores /\ r.list = m /\ r.chain = ch /\ r.count = s.count + 1
        /\ r.content = s.content /\ r.dead = s.dead /\ r.refs = v.refs
    <3>1. PICK c \in Int : c = s.count + 1
      BY <1>0
    <3>2. r = [v EXCEPT !.list = m, !.chain = ch, !.count = c]
      BY <3>1, <2>6
    <3>3. r \in Stores
      BY <3>2, <2>2, <2>7 DEF Stores
    <3>4. /\ r.list = m /\ r.chain = ch /\ r.count = c
          /\ r.content = v.content /\ r.dead = v.dead /\ r.refs = v.refs
      BY <3>2, <2>2 DEF Stores
    <3> QED  BY <3>1, <3>3, <3>4, <2>2
  <2>9. ASSUME NEW z \in Datas
        PROVE  /\ Uses(m, z) = Uses(s.list, z) + IF x = z THEN 1 ELSE 0
               /\ Uses(s.list, z) \in Nat
    <3>1. IsFiniteSet(Range(s.list))
      BY <1>0, FiniteRange
    <3>2. PICK S : S = Range(s.list)
      OBVIOUS
    <3>3. Cardinality(Of(S \cup {p}, z)) = Cardinality(Of(S, z)) + IF p.value = z THEN 1 ELSE 0
      BY <3>1, <3>2, <2>7, OfMore
    <3>4. Uses(s.list, z) \in Nat
      BY <1>0, UsesNat
    <3> QED  BY <3>2, <3>3, <3>4, <2>7, <1>1 DEF Uses
  <2>10. ASSUME NEW z \in Datas
         PROVE  r.refs[z] + Uses(s.list, z) = s.refs[z] + Uses(r.list, z)
    <3>1. PICK f \in Nat : f = s.refs[z]
      BY <1>0
    <3>2. r.refs[z] = f + IF x = z THEN 1 ELSE 0
      BY <3>1, <2>2, <2>8
    <3>3. PICK n \in Nat : n = Uses(s.list, z)
      BY <2>9
    <3>4. Uses(r.list, z) = n + IF x = z THEN 1 ELSE 0
      BY <3>3, <2>8, <2>9
    <3> QED  BY <3>1, <3>2, <3>3, <3>4
  <2>11. \A z \in Datas : \/ Uses(r.list, z) <= Uses(s.list, z)
                          \/ s.content[z] # "free" /\ z \notin F \cup Range(s.dead)
    BY <2>8, <2>9
  <2>12. StoreInv(r, o, F)
    BY <2>7, <2>8, <2>10, <2>11, StoreBalance
  <2>13. Len(s.list) <= Len(r.list)
    BY <2>7, <2>8, <1>0, LenProperties
  <2> QED  BY <2>8, <2>12, <2>13 DEF r
<1>4. CASE ~_dict_lookup(s, k) /\ ~mem
  <2>1. r = s
    BY <1>4 DEF _dict_set
  <2>2. Len(s.list) \in Nat
    BY <1>0, LenProperties
  <2> QED  BY <2>1, <2>2
<1> QED  BY <1>2, <1>3, <1>4

\* The same of a result that is known to be one of _dict_set.
LEMMA SetStore ==
    ASSUME NEW s, NEW o \in [Datas -> Nat], NEW F \in SUBSET Datas, StoreInv(s, o, F),
           NEW k \in Keys, NEW x \in Datas, s.content[x] # "free", x \notin F \cup Range(s.dead),
           NEW r, \E mem \in BOOLEAN : r = _dict_set(s, k, x, mem)
    PROVE  /\ StoreInv(r, o, F)
           /\ r.content = s.content
           /\ Len(s.list) <= Len(r.list)
<1>1. CASE r = _dict_set(s, k, x, TRUE)
  <2>1. /\ StoreInv(_dict_set(s, k, x, TRUE), o, F)
        /\ _dict_set(s, k, x, TRUE).content = s.content
        /\ Len(s.list) <= Len(_dict_set(s, k, x, TRUE).list)
    BY SetStoreOf
  <2> QED  BY <1>1, <2>1, Zenon
<1>2. CASE r = _dict_set(s, k, x, FALSE)
  <2>1. /\ StoreInv(_dict_set(s, k, x, FALSE), o, F)
        /\ _dict_set(s, k, x, FALSE).content = s.content
        /\ Len(s.list) <= Len(_dict_set(s, k, x, FALSE).list)
    BY SetStoreOf
  <2> QED  BY <1>2, <2>1, Zenon
<1>3. r = _dict_set(s, k, x, TRUE) \/ r = _dict_set(s, k, x, FALSE)
  BY Zenon
<1> QED  BY <1>1, <1>2, <1>3

\* So does the unlinking of dict_del.
LEMMA UnlinkStore ==
    ASSUME NEW s, NEW o \in [Datas -> Nat], NEW F \in SUBSET Datas, StoreInv(s, o, F),
           NEW k \in Keys, _dict_lookup(s, k)
    PROVE  StoreInv(Unlink(s, k), o, F)
<1> DEFINE r == Unlink(s, k)
<1>0. /\ s \in Stores /\ Keyed(s.list, s.chain, s.count)
      /\ s.list \in Seq(Pair) /\ s.chain \in [0 .. HashSize - 1 -> Seq(Keys)] /\ s.count \in Int
      /\ s.dead \in Seq(Datas) /\ s.refs \in [Datas -> Nat]
  BY DEF StoreInv, Stores
<1>1. PICK i : i = Position(s, k)
  OBVIOUS
<1>2. i \in DOMAIN s.list /\ s.list[i].key = k /\ s.list[i].value \in Datas
  BY <1>1, FoundAt
<1>3. PICK y \in Datas : y = s.list[i].value
  BY <1>2
<1>4. PICK m : m = RemoveAt(s.list, i)
  OBVIOUS
<1>5. PICK ch : ch = [s.chain EXCEPT ![Hash(k)] = Only(Keys \ {k}, @)]
  OBVIOUS
<1>6. /\ Keyed(m, ch, s.count - 1) /\ m \in Seq(Pair) /\ ch \in [0 .. HashSize - 1 -> Seq(Keys)]
      /\ Range(m) = Range(s.list) \ {s.list[i]}
  BY <1>0, <1>2, <1>4, <1>5, KeyedRemove
<1>7. PICK u : u = [s EXCEPT !.chain = ch, !.list = m, !.count = s.count - 1]
  OBVIOUS
<1>8. r = data_unref(u, y)
  <2>1. r = data_unref([s EXCEPT !.chain[Hash(k)] = Only(Keys \ {k}, @),
                                 !.list = RemoveAt(@, i), !.count = @ - 1], y)
    BY <1>1, <1>3 DEF Unlink
  <2>2. [s EXCEPT !.chain[Hash(k)] = Only(Keys \ {k}, @),
                  !.list = RemoveAt(@, i), !.count = @ - 1] = u
    BY <1>0, <1>4, <1>5, <1>7 DEF Stores
  <2> QED  BY <2>1, <2>2
<1>9. /\ u \in Stores /\ u.list = m /\ u.chain = ch /\ u.count = s.count - 1
      /\ u.content = s.content /\ u.dead = s.dead /\ u.refs = s.refs
  <2>1. PICK c \in Int : c = s.count - 1
    BY <1>0
  <2>2. u = [s EXCEPT !.chain = ch, !.list = m, !.count = c]
    BY <2>1, <1>7
  <2>3. u \in Stores
    BY <2>2, <1>0, <1>6 DEF Stores
  <2>4. /\ u.list = m /\ u.chain = ch /\ u.count = c
        /\ u.content = s.content /\ u.dead = s.dead /\ u.refs = s.refs
    BY <2>2, <1>0 DEF Stores
  <2> QED  BY <2>1, <2>3, <2>4
<1>10. Uses(s.list, y) \in Nat /\ Uses(s.list, y) > 0 /\ s.list[i] \in Range(s.list)
       /\ IsFiniteSet(Range(s.list))
  BY <1>2, <1>3, <1>0, UsedValue
<1>11. s.refs[y] = Uses(s.list, y) + o[y] /\ s.refs[y] \in Nat /\ o[y] \in Nat
  BY <1>10, <1>0 DEF StoreInv
<1>12. u.refs[y] > 0
  BY <1>9, <1>10, <1>11
<1> HIDE DEF r
<1>13. /\ r \in Stores /\ r.list = m /\ r.chain = ch /\ r.count = s.count - 1
       /\ r.content = s.content
       /\ r.refs[y] = s.refs[y] - 1 /\ \A z \in Datas \ {y} : r.refs[z] = s.refs[z]
       /\ r.dead = IF s.refs[y] = 1 THEN Append(s.dead, y) ELSE s.dead
  BY <1>8, <1>9, <1>12, UnrefFields
<1>14. ASSUME NEW z \in Datas
       PROVE  /\ Uses(s.list, z) = Uses(m, z) + IF y = z THEN 1 ELSE 0
              /\ Uses(m, z) \in Nat
  <2>1. Uses(s.list, z) = Cardinality(Of(Range(s.list) \ {s.list[i]}, z))
                            + IF s.list[i].value = z THEN 1 ELSE 0
    BY <1>10, OfLess DEF Uses
  <2>2. Uses(m, z) \in Nat
    BY <1>6, UsesNat
  <2> QED  BY <2>1, <2>2, <1>3, <1>6 DEF Uses
<1>15. ASSUME NEW z \in Datas
       PROVE  r.refs[z] + Uses(s.list, z) = s.refs[z] + Uses(r.list, z)
  <2>1. PICK f \in Nat : f = s.refs[z]
    BY <1>0
  <2>2. r.refs[z] = f - IF y = z THEN 1 ELSE 0
    BY <2>1, <1>13
  <2>3. PICK n \in Nat : n = Uses(m, z)
    BY <1>14
  <2>4. Uses(s.list, z) = n + IF y = z THEN 1 ELSE 0
    BY <2>3, <1>14
  <2> QED  BY <2>1, <2>2, <2>3, <2>4, <1>13
<1>16. \A z \in Datas : Uses(r.list, z) <= Uses(s.list, z)
  BY <1>13, <1>14
<1>17. CASE s.refs[y] = 1
  <2>1. r.dead = Append(s.dead, y)
    BY <1>13, <1>17
  <2>2. Uses(s.list, y) = Uses(m, y) + 1 /\ Uses(m, y) \in Nat
    BY <1>14
  <2>3. Uses(r.list, y) + o[y] = 0
    BY <2>2, <1>11, <1>13, <1>17
  <2>4. \E z \in Datas : /\ r.dead = Append(s.dead, z)
                         /\ Uses(s.list, z) > 0 /\ Uses(r.list, z) + o[z] = 0
    BY <2>1, <2>3, <1>10
  <2>5. StoreInv(r, o, F)
    BY <2>4, <1>6, <1>13, <1>15, <1>16, StoreBalance
  <2> QED  BY <2>5 DEF r
<1>18. CASE s.refs[y] # 1
  <2>1. r.dead = s.dead
    BY <1>13, <1>18
  <2>2. StoreInv(r, o, F)
    BY <2>1, <1>6, <1>13, <1>15, <1>16, StoreBalance
  <2> QED  BY <2>2 DEF r
<1> QED  BY <1>17, <1>18

-----------------------------------------------------------------------------
(* The pairs of a buffer *)

\* What buffers consist of.
Setting == [key : Keys, content : AllContents]

\* One turn of the loop of dict_unserialize.
ParseStep(b, p, size) ==
    IF b.ret = 0 /\ Room(b.buf, p, size)
    THEN [b EXCEPT !.pairs = Append(@, p), !.buf = @ + PairLen(p.key, p.content)]
    ELSE [b EXCEPT !.ret = -1]

FillStep(r, p, m) ==
    _dict_set(get_new_data(r, p.content), p.key, Min(FreeDatas(r)), m)

\* f is the function by which Parse, or Fill, is defined.
Parsed(f, w, size) ==
    f = [n \in 0 .. Len(w) |-> IF n = 0 THEN [pairs |-> <<>>, buf |-> DICT_HDR_LEN, ret |-> 0]
                               ELSE ParseStep(f[n - 1], w[n], size)]

Filled(f, s, w, mem) ==
    f = [n \in 0 .. Len(w) |-> IF n = 0 THEN [s EXCEPT !.count = 0]
                               ELSE FillStep(f[n - 1], w[n], mem[n])]

\* There is such a function.
LEMMA ParsedExists ==
    ASSUME NEW w \in Seq(Setting), NEW size
    PROVE  \E f : Parsed(f, w, size)
<1> DEFINE L == Len(w)
           B == [pairs |-> <<>>, buf |-> DICT_HDR_LEN, ret |-> 0]
           G(b, n) == ParseStep(b, w[n], size)
           Is(g, n) == g = [i \in 0 .. n |-> IF i = 0 THEN B ELSE G(g[i - 1], i)]
           T == {n \in Nat : \E g : Is(g, n)}
<1>0. L \in Nat
  BY LenProperties
<1> HIDE DEF B, G
<1>1. 0 \in T
  <2>1. Is([i \in 0 .. 0 |-> B], 0)
    OBVIOUS
  <2> QED  BY <2>1
<1>2. ASSUME NEW n \in Nat, n \in T PROVE n + 1 \in T
  <2>1. PICK g : Is(g, n)
    BY <1>2
  <2> DEFINE h == [i \in 0 .. n + 1 |-> IF i = n + 1 THEN G(g[n], n + 1) ELSE g[i]]
             H(i) == IF i = 0 THEN B ELSE G(h[i - 1], i)
  <2>2. g[0] = B /\ \A i \in 1 .. n : g[i] = G(g[i - 1], i)
    <3> DEFINE K(i) == IF i = 0 THEN B ELSE G(g[i - 1], i)
    <3>1. g = [i \in 0 .. n |-> K(i)]
      BY <2>1
    <3> HIDE DEF K
    <3>2. \A i \in 0 .. n : g[i] = K(i)
      BY <3>1
    <3> QED  BY <3>2 DEF K
  <2>3. ASSUME NEW i \in 0 .. n + 1 PROVE h[i] = H(i)
    <3>1. CASE i = 0
      BY <3>1, <2>2
    <3>2. CASE i = n + 1
      <4>1. i - 1 = n /\ n \in 0 .. n + 1 /\ n # n + 1 /\ i # 0
        BY <3>2
      <4>2. h[i - 1] = g[n] /\ h[i] = G(g[n], n + 1)
        BY <4>1, <3>2
      <4> HIDE DEF h
      <4> QED  BY <4>1, <4>2, <3>2
    <3>3. CASE i # 0 /\ i # n + 1
      <4>1. i \in 1 .. n /\ i - 1 \in 0 .. n + 1 /\ i - 1 # n + 1
        BY <3>3
      <4>2. h[i] = g[i] /\ h[i - 1] = g[i - 1]
        BY <4>1, <3>3
      <4> HIDE DEF h
      <4> QED  BY <4>1, <4>2, <3>3, <2>2
    <3> QED  BY <3>1, <3>2, <3>3
  <2>4. h = [i \in 0 .. n + 1 |-> h[i]]
    OBVIOUS
  <2>5. h = [i \in 0 .. n + 1 |-> H(i)]
    <3> HIDE DEF h, H
    <3> QED  BY <2>3, <2>4
  <2>6. Is(h, n + 1)
    BY <2>5
  <2> HIDE DEF Is
  <2> QED  BY <2>6
<1>3. L \in T
  <2> HIDE DEF T
  <2> QED  BY <1>0, <1>1, <1>2, Induction
<1>4. PICK g : Is(g, L)
  BY <1>3
<1>5. Parsed(g, w, size)
  BY <1>4 DEF Parsed, G, B
<1> QED  BY <1>5

\* The function of Fill exists.
LEMMA FilledExists ==
    ASSUME NEW w \in Seq(Setting), NEW s, NEW mem
    PROVE  \E f : Filled(f, s, w, mem)
<1> DEFINE L == Len(w)
           B == [s EXCEPT !.count = 0]
           G(b, n) == FillStep(b, w[n], mem[n])
           Is(g, n) == g = [i \in 0 .. n |-> IF i = 0 THEN B ELSE G(g[i - 1], i)]
           T == {n \in Nat : \E g : Is(g, n)}
<1>0. L \in Nat
  BY LenProperties
<1> HIDE DEF B, G
<1>1. 0 \in T
  <2>1. Is([i \in 0 .. 0 |-> B], 0)
    OBVIOUS
  <2> QED  BY <2>1
<1>2. ASSUME NEW n \in Nat, n \in T PROVE n + 1 \in T
  <2>1. PICK g : Is(g, n)
    BY <1>2
  <2> DEFINE h == [i \in 0 .. n + 1 |-> IF i = n + 1 THEN G(g[n], n + 1) ELSE g[i]]
             H(i) == IF i = 0 THEN B ELSE G(h[i - 1], i)
  <2>2. g[0] = B /\ \A i \in 1 .. n : g[i] = G(g[i - 1], i)
    <3> DEFINE K(i) == IF i = 0 THEN B ELSE G(g[i - 1], i)
    <3>1. g = [i \in 0 .. n |-> K(i)]
      BY <2>1
    <3> HIDE DEF K
    <3>2. \A i \in 0 .. n : g[i] = K(i)
      BY <3>1
    <3> QED  BY <3>2 DEF K
  <2>3. ASSUME NEW i \in 0 .. n + 1 PROVE h[i] = H(i)
    <3>1. CASE i = 0
      BY <3>1, <2>2
    <3>2. CASE i = n + 1
      <4>1. i - 1 = n /\ n \in 0 .. n + 1 /\ n # n + 1 /\ i # 0
        BY <3>2
      <4>2. h[i - 1] = g[n] /\ h[i] = G(g[n], n + 1)
        BY <4>1, <3>2
      <4> HIDE DEF h
      <4> QED  BY <4>1, <4>2, <3>2
    <3>3. CASE i # 0 /\ i # n + 1
      <4>1. i \in 1 .. n /\ i - 1 \in 0 .. n + 1 /\ i - 1 # n + 1
        BY <3>3
      <4>2. h[i] = g[i] /\ h[i - 1] = g[i - 1]
        BY <4>1, <3>3
      <4> HIDE DEF h
      <4> QED  BY <4>1, <4>2, <3>3, <2>2
    <3> QED  BY <3>1, <3>2, <3>3
  <2>4. h = [i \in 0 .. n + 1 |-> h[i]]
    OBVIOUS
  <2>5. h = [i \in 0 .. n + 1 |-> H(i)]
    <3> HIDE DEF h, H
    <3> QED  BY <2>3, <2>4
  <2>6. Is(h, n + 1)
    BY <2>5
  <2> HIDE DEF Is
  <2> QED  BY <2>6
<1>3. L \in T
  <2> HIDE DEF T
  <2> QED  BY <1>0, <1>1, <1>2, Induction
<1>4. PICK g : Is(g, L)
  BY <1>3
<1>5. Filled(g, s, w, mem)
  BY <1>4 DEF Filled, G, B
<1> QED  BY <1>5

\* dict_unserialize sets pairs with keys and contents.
LEMMA ParsePairs ==
    ASSUME NEW w \in Seq(Setting), NEW size
    PROVE  Parse(w, size).pairs \in Seq(Setting)
<1> DEFINE f == CHOOSE f : Parsed(f, w, size)
<1>1. CASE DICT_HDR_LEN > size
  BY <1>1 DEF Parse
<1>2. CASE ~(DICT_HDR_LEN > size)
  <2>1. Parsed(f, w, size)
    BY ParsedExists
  <2>2. Parse(w, size) = f[Len(w)]
    BY <1>2 DEF Parse, Parsed, ParseStep
  <2> HIDE DEF f
  <2>3. Len(w) \in Nat /\ \A i \in 1 .. Len(w) : w[i] \in Setting
    BY LenProperties, ElementOfSeq
  <2>4. /\ f[0] = [pairs |-> <<>>, buf |-> DICT_HDR_LEN, ret |-> 0]
        /\ \A n \in 1 .. Len(w) : f[n] = ParseStep(f[n - 1], w[n], size)
    <3> DEFINE K(n) == IF n = 0 THEN [pairs |-> <<>>, buf |-> DICT_HDR_LEN, ret |-> 0]
                       ELSE ParseStep(f[n - 1], w[n], size)
    <3>1. f = [n \in 0 .. Len(w) |-> K(n)]
      BY <2>1 DEF Parsed
    <3> HIDE DEF K
    <3>2. \A n \in 0 .. Len(w) : f[n] = K(n)
      BY <3>1
    <3>3. f[0] = K(0)
      BY <3>2, <2>3
    <3>4. ASSUME NEW n \in 1 .. Len(w) PROVE f[n] = ParseStep(f[n - 1], w[n], size)
      <4>1. n \in 0 .. Len(w) /\ n # 0
        OBVIOUS
      <4> QED  BY <4>1, <3>2 DEF K
    <3> QED  BY <3>3, <3>4 DEF K
  <2> DEFINE V == [pairs : Seq(Setting), buf : Int, ret : {0, -1}]
             T == {n \in Nat : n <= Len(w) => f[n] \in V}
  <2>5. 0 \in T
    <3>1. <<>> \in Seq(Setting)
      BY EmptySeq
    <3>5. PICK e \in Seq(Setting) : e = <<>>
      BY <3>1
    <3>6. PICK c \in Int : c = DICT_HDR_LEN
      BY DEF DICT_HDR_LEN
    <3>3. [pairs |-> e, buf |-> c, ret |-> 0] \in V
      OBVIOUS
    <3>4. f[0] = [pairs |-> e, buf |-> c, ret |-> 0]
      BY <3>5, <3>6, <2>4
    <3> QED  BY <3>3, <3>4
  <2>6. ASSUME NEW n \in Nat, n \in T PROVE n + 1 \in T
    <3> SUFFICES ASSUME n + 1 <= Len(w) PROVE f[n + 1] \in V
      OBVIOUS
    <3>1. f[n] \in V
      BY <2>6, <2>3
    <3>2. n + 1 \in 1 .. Len(w) /\ (n + 1) - 1 = n
      BY <2>3
    <3>3. PICK b : b = f[n]
      OBVIOUS
    <3>4. PICK p \in Setting : p = w[n + 1]
      BY <3>2, <2>3
    <3>5. f[n + 1] = ParseStep(b, p, size)
      BY <3>2, <3>3, <3>4, <2>4
    <3>6. PairLen(p.key, p.content) \in Int
      BY LenAssumption DEF PairLen, Setting, AllContents, Len0, DICT_DATA_HDR_KEY_LEN,
                           DICT_DATA_HDR_VAL_LEN
    <3>7. b \in V /\ Append(b.pairs, p) \in Seq(Setting) /\ b.buf + PairLen(p.key, p.content) \in Int
      BY <3>1, <3>3, <3>6
    <3>8. ParseStep(b, p, size) \in V
      <4>1. PICK q \in Seq(Setting), c \in Int :
               q = Append(b.pairs, p) /\ c = b.buf + PairLen(p.key, p.content)
        BY <3>7
      <4>2. [b EXCEPT !.pairs = q, !.buf = c] \in V /\ [b EXCEPT !.ret = -1] \in V
        BY <3>7
      <4>3. ParseStep(b, p, size) \in {[b EXCEPT !.pairs = q, !.buf = c], [b EXCEPT !.ret = -1]}
        BY <4>1 DEF ParseStep
      <4> QED  BY <4>2, <4>3
    <3> QED  BY <3>5, <3>8
  <2>7. f[Len(w)] \in V
    <3>1. Len(w) \in T
      <4> HIDE DEF T
      <4> QED  BY <2>3, <2>5, <2>6, Induction
    <3> QED  BY <3>1, <2>3
  <2> QED  BY <2>2, <2>7
<1> QED  BY <1>1, <1>2

\* What a store becomes when a new value is set under a key.
NewlySet(s, k, c) == {_dict_set(get_new_data(s, c), k, Min(FreeDatas(s)), mem) : mem \in BOOLEAN}

\* dict_set of a new value keeps a store right.
LEMMA SetNew ==
    ASSUME NEW s, NEW o \in [Datas -> Nat], NEW F \in SUBSET Datas, StoreInv(s, o, F),
           FreeDatas(s) # {}, NEW k \in Keys, NEW c \in AllContents,
           NEW r \in NewlySet(s, k, c)
    PROVE  /\ StoreInv(r, o, F) /\ Len(s.list) <= Len(r.list)
           /\ FreeDatas(r) = FreeDatas(s) \ {Min(FreeDatas(s))}
           /\ Min(FreeDatas(s)) \in FreeDatas(s)
<1>1. PICK x : x = Min(FreeDatas(s))
  OBVIOUS
<1>2. PICK v : v = get_new_data(s, c)
  OBVIOUS
<1>3. /\ StoreInv(v, o, F) /\ x \in Datas /\ v.content[x] # "free"
      /\ x \notin F \cup Range(v.dead) /\ v.list = s.list
      /\ FreeDatas(v) = FreeDatas(s) \ {x} /\ x \in FreeDatas(s)
  BY <1>1, <1>2, NewData
<1>4. \E mem \in BOOLEAN : r = _dict_set(v, k, x, mem)
  BY <1>1, <1>2, Zenon DEF NewlySet
<1>5. StoreInv(r, o, F) /\ r.content = v.content /\ Len(v.list) <= Len(r.list)
  BY <1>3, <1>4, SetStore
<1>6. FreeDatas(r) = FreeDatas(s) \ {x}
  BY <1>3, <1>5 DEF FreeDatas
<1> QED  BY <1>1, <1>3, <1>5, <1>6

\* Filling a dict keeps it and the references right, if there is a data_t for each pair.
LEMMA FillStore ==
    ASSUME NEW s, NEW o \in [Datas -> Nat], NEW F \in SUBSET Datas, StoreInv(s, o, F),
           NEW w \in Seq(Setting), NEW mem \in [DOMAIN w -> BOOLEAN],
           Cardinality(FreeDatas(s)) >= Len(w)
    PROVE  StoreInv(Fill(s, w, mem), o, F)
<1> DEFINE f == CHOOSE f : Filled(f, s, w, mem)
<1>1. Filled(f, s, w, mem)
  BY FilledExists
<1>2. Fill(s, w, mem) = f[Len(w)]
  BY DEF Fill, Filled, FillStep
<1> HIDE DEF f
<1>3. Len(w) \in Nat /\ DOMAIN w = 1 .. Len(w) /\ \A i \in 1 .. Len(w) : w[i] \in Setting
  BY LenProperties, ElementOfSeq
<1>4. /\ f[0] = [s EXCEPT !.count = 0]
      /\ \A n \in 1 .. Len(w) : f[n] = FillStep(f[n - 1], w[n], mem[n])
  <2> DEFINE K(n) == IF n = 0 THEN [s EXCEPT !.count = 0]
                     ELSE FillStep(f[n - 1], w[n], mem[n])
  <2>1. f = [n \in 0 .. Len(w) |-> K(n)]
    BY <1>1 DEF Filled
  <2> HIDE DEF K
  <2>2. \A n \in 0 .. Len(w) : f[n] = K(n)
    BY <2>1
  <2>3. f[0] = K(0)
    BY <2>2, <1>3
  <2>4. ASSUME NEW n \in 1 .. Len(w) PROVE f[n] = FillStep(f[n - 1], w[n], mem[n])
    <3>1. n \in 0 .. Len(w) /\ n # 0
      OBVIOUS
    <3> QED  BY <3>1, <2>2 DEF K
  <2> QED  BY <2>3, <2>4 DEF K
<1> DEFINE P(n) == StoreInv(f[n], o, F) /\ Cardinality(FreeDatas(f[n])) >= Len(w) - n
           T == {n \in Nat : n <= Len(w) => P(n)}
<1>5. 0 \in T
  <2>1. PICK r : r = [s EXCEPT !.count = 0]
    OBVIOUS
  <2>2. s \in Stores /\ Keyed(s.list, s.chain, s.count)
    BY DEF StoreInv
  <2>3. /\ r \in Stores /\ r.list = s.list /\ r.chain = s.chain /\ r.count = 0
        /\ r.content = s.content /\ r.refs = s.refs /\ r.dead = s.dead
    <3>1. PICK c \in Int : c = 0
      OBVIOUS
    <3>2. r = [s EXCEPT !.count = c]
      BY <3>1, <2>1
    <3>3. r \in Stores
      BY <3>2, <2>2 DEF Stores
    <3>4. /\ r.list = s.list /\ r.chain = s.chain /\ r.count = c
          /\ r.content = s.content /\ r.refs = s.refs /\ r.dead = s.dead
      BY <3>2, <2>2 DEF Stores
    <3> QED  BY <3>1, <3>3, <3>4
  <2>4. Keyed(r.list, r.chain, r.count)
    <3>1. Len(s.list) \in Nat
      BY <2>2, LenProperties DEF Stores
    <3> QED  BY <3>1, <2>2, <2>3 DEF Keyed
  <2>5. StoreInv(r, o, F)
    BY <2>3, <2>4 DEF StoreInv
  <2>6. FreeDatas(r) = FreeDatas(s)
    BY <2>3 DEF FreeDatas
  <2>7. f[0] = r
    BY <2>1, <1>4
  <2> QED  BY <2>5, <2>6, <2>7, <1>3
<1>6. ASSUME NEW n \in Nat, n \in T PROVE n + 1 \in T
  <2> SUFFICES ASSUME n + 1 <= Len(w) PROVE P(n + 1)
    OBVIOUS
  <2>1. P(n)
    BY <1>6, <1>3
  <2>2. n + 1 \in 1 .. Len(w) /\ (n + 1) - 1 = n
    BY <1>3
  <2>3. PICK r : r = f[n]
    OBVIOUS
  <2>4. PICK p \in Setting : p = w[n + 1]
    BY <2>2, <1>3
  <2>5. PICK m \in BOOLEAN : m = mem[n + 1]
    BY <2>2, <1>3
  <2>6. PICK x : x = Min(FreeDatas(r))
    OBVIOUS
  <2>8. f[n + 1] \in NewlySet(r, p.key, p.content)
    <3>1. f[n + 1] = FillStep(r, p, m)
      BY <2>2, <2>3, <2>4, <2>5, <1>4
    <3>2. f[n + 1] = _dict_set(get_new_data(r, p.content), p.key, Min(FreeDatas(r)), m)
      BY <3>1, Zenon DEF FillStep
    <3> QED  BY <3>2, Zenon DEF NewlySet
  <2>9. StoreInv(r, o, F) /\ Cardinality(FreeDatas(r)) >= Len(w) - n
    BY <2>1, <2>3
  <2>10. IsFiniteSet(FreeDatas(r)) /\ Cardinality(FreeDatas(r)) \in Nat
    <3>1. FreeDatas(r) \in SUBSET Datas
      BY DEF FreeDatas
    <3> QED  BY <3>1, FiniteAssumption, FS_Subset, FS_CardinalityType
  <2>11. FreeDatas(r) # {}
    <3>1. Cardinality(FreeDatas(r)) # 0
      BY <2>9, <2>10, <1>3
    <3> QED  BY <3>1, FS_EmptySet
  <2>14. StoreInv(f[n + 1], o, F) /\ FreeDatas(f[n + 1]) = FreeDatas(r) \ {x} /\ x \in FreeDatas(r)
    <3>1. PICK k \in Keys, c \in AllContents : k = p.key /\ c = p.content
      BY DEF Setting
    <3>2. PICK u : u = f[n + 1]
      OBVIOUS
    <3>3. u \in NewlySet(r, k, c)
      BY <2>8, <3>1, <3>2, Zenon
    <3>4. StoreInv(u, o, F) /\ FreeDatas(u) = FreeDatas(r) \ {x} /\ x \in FreeDatas(r)
      BY <3>3, <2>6, <2>9, <2>11, SetNew
    <3> QED  BY <3>2, <3>4
  <2>16. Cardinality(FreeDatas(r) \ {x}) = Cardinality(FreeDatas(r)) - 1
    BY <2>10, <2>14, FS_RemoveElement
  <2>17. Cardinality(FreeDatas(f[n + 1])) >= Len(w) - (n + 1)
    BY <2>9, <2>10, <2>14, <2>16, <1>3
  <2> QED  BY <2>14, <2>17
<1>7. P(Len(w))
  <2>1. Len(w) \in T
    <3> HIDE DEF T
    <3> QED  BY <1>3, <1>5, <1>6, Induction
  <2> QED  BY <2>1, <1>3
<1> QED  BY <1>2, <1>7

-----------------------------------------------------------------------------
(* Calls that change one dict *)

\* One sequence after another.
LEMMA Joined ==
    ASSUME NEW A, NEW p \in Seq(A), NEW r \in Seq(A)
    PROVE  /\ p \o r \in Seq(A) /\ Len(p \o r) = Len(p) + Len(r)
           /\ Len(p) \in Nat /\ Len(r) \in Nat /\ DOMAIN p = 1 .. Len(p) /\ DOMAIN r = 1 .. Len(r)
           /\ DOMAIN (p \o r) = 1 .. Len(p) + Len(r)
           /\ \A i \in DOMAIN p : (p \o r)[i] = p[i]
           /\ \A i \in DOMAIN (p \o r) \ DOMAIN p : i - Len(p) \in DOMAIN r /\ (p \o r)[i] = r[i - Len(p)]
<1>1. PICK q : q = p \o r
  OBVIOUS
<1>2. /\ q \in Seq(A) /\ Len(q) = Len(p) + Len(r)
      /\ \A i \in 1 .. Len(p) + Len(r) : q[i] = IF i <= Len(p) THEN p[i] ELSE r[i - Len(p)]
  BY <1>1, ConcatProperties
<1>3. /\ Len(p) \in Nat /\ Len(r) \in Nat /\ DOMAIN p = 1 .. Len(p) /\ DOMAIN r = 1 .. Len(r)
      /\ DOMAIN q = 1 .. Len(q)
  BY <1>2, LenProperties
<1>4. \A i \in DOMAIN p : q[i] = p[i]
  BY <1>2, <1>3
<1>5. \A i \in DOMAIN q \ DOMAIN p : i - Len(p) \in DOMAIN r /\ q[i] = r[i - Len(p)]
  BY <1>2, <1>3
<1> QED  BY <1>1, <1>2, <1>3, <1>4, <1>5

\* The work of a thread, piece by piece.
LEMMA TodoTypes ==
    ASSUME TypeOK, NEW t \in Threads
    PROVE  /\ todo \in [Threads -> Seq(Op)] /\ todo[t] \in Seq(Op)
           /\ Len(todo[t]) \in Nat /\ DOMAIN todo[t] = 1 .. Len(todo[t])
           /\ \A i \in DOMAIN todo[t] : todo[t][i] \in Op
<1>1. todo \in [Threads -> Seq(Op)]
  BY DEF TypeOK
<1>2. todo[t] \in Seq(Op)
  BY <1>1
<1> QED  BY <1>1, <1>2, LenProperties, ElementOfSeq

\* Who has a dict exclusively is the only one who has it.
LEMMA Alone ==
    ASSUME TypeOK, Lifecycle(state, refcount, held, maker, list),
           NEW t \in Threads, NEW u \in Threads, NEW d \in Dicts, Owns(state, refcount, held, maker, t, d),
           Has(state, held, maker, u, d)
    PROVE  u = t
<1>1. held \in [Threads -> [Dicts -> Nat]] /\ held[t][d] \in Nat /\ held[u][d] \in Nat
  BY DEF TypeOK
<1>2. refcount[d] = References(held, d) /\ (maker[d] # NULL => refcount[d] = 0)
  BY DEF Lifecycle
<1>3. held[u][d] <= References(held, d) /\ References(held, d) \in Nat
  BY <1>1, ReferencesAtLeast
<1>4. t # NULL /\ u # NULL
  BY NullAssumption
<1>5. CASE maker[d] = t
  <2>1. References(held, d) = 0
    BY <1>2, <1>4, <1>5
  <2>2. held[u][d] = 0
    BY <2>1, <1>1, <1>3
  <2> QED  BY <2>2, <1>5 DEF Has
<1>6. CASE refcount[d] = 1 /\ held[t][d] = 1
  <2> SUFFICES ASSUME u # t PROVE FALSE
    OBVIOUS
  <2>1. maker[d] = NULL
    BY <1>2, <1>6
  <2>2. held[u][d] > 0
    BY <2>1, <1>4 DEF Has
  <2>3. held[t][d] + held[u][d] <= References(held, d)
    BY <1>1, ReferencesAtLeast
  <2> QED  BY <2>2, <2>3, <1>1, <1>2, <1>6
<1> QED  BY <1>5, <1>6 DEF Owns

\* A thread gets other work that ends nothing twice.
LEMMA OnceChange ==
    ASSUME NEW w \in [Threads -> Seq(Op)], Once(w), NEW t \in Threads, NEW q \in Seq(Op),
           \A i, k \in DOMAIN q : SameEnd(q[i], q[k]) => i = k,
           \A u \in Threads \ {t} : \A i \in DOMAIN q, k \in DOMAIN w[u] : ~SameEnd(q[i], w[u][k])
    PROVE  Once([w EXCEPT ![t] = q])
<1>1. PICK v : v = [w EXCEPT ![t] = q]
  OBVIOUS
<1>2. v[t] = q /\ \A u \in Threads \ {t} : v[u] = w[u]
  BY <1>1
<1>3. ASSUME NEW a \in Threads, NEW b \in Threads, NEW i \in DOMAIN v[a], NEW k \in DOMAIN v[b],
             SameEnd(v[a][i], v[b][k])
      PROVE  a = b /\ i = k
  <2>1. CASE a = t /\ b = t
    BY <2>1, <1>2, <1>3
  <2>2. CASE a = t /\ b # t
    BY <2>2, <1>2, <1>3
  <2>3. CASE a # t /\ b = t
    <3>1. SameEnd(v[b][k], v[a][i])
      BY <1>3 DEF SameEnd
    <3> QED  BY <3>1, <2>3, <1>2
  <2>4. CASE a # t /\ b # t
    <3>1. v[a] = w[a] /\ v[b] = w[b]
      BY <2>4, <1>2
    <3> QED  BY <3>1, <1>3 DEF Once
  <2> QED  BY <2>1, <2>2, <2>3, <2>4
<1>4. Once(v)
  BY <1>3 DEF Once
<1> QED  BY <1>1, <1>4

\* The values that will be freed when a thread gets other work.
LEMMA FreesChange ==
    ASSUME NEW w \in [Threads -> Seq(Op)], NEW t \in Threads, NEW q \in Seq(Op), NEW S,
           \A i \in DOMAIN q : q[i].op = "free" => q[i].data \in S
    PROVE  Frees([w EXCEPT ![t] = q]) \subseteq Frees(w) \cup S
<1> SUFFICES ASSUME NEW x \in Frees([w EXCEPT ![t] = q]) PROVE x \in Frees(w) \cup S
  OBVIOUS
<1>1. PICK v : v = [w EXCEPT ![t] = q]
  OBVIOUS
<1>2. v[t] = q /\ \A u \in Threads \ {t} : v[u] = w[u]
  BY <1>1
<1>3. x \in Datas /\ \E u \in Threads : \E i \in DOMAIN v[u] : v[u][i].op = "free" /\ v[u][i].data = x
  BY <1>1 DEF Frees
<1>8. PICK u \in Threads : \E i \in DOMAIN v[u] : v[u][i].op = "free" /\ v[u][i].data = x
  BY <1>3
<1>4. PICK i \in DOMAIN v[u] : v[u][i].op = "free" /\ v[u][i].data = x
  BY <1>8
<1>5. CASE u = t
  BY <1>2, <1>4, <1>5
<1>6. CASE u # t
  <2>1. v[u] = w[u]
    BY <1>2, <1>6
  <2> QED  BY <2>1, <1>3, <1>4 DEF Frees
<1> QED  BY <1>5, <1>6

\* What owns values besides the pairs of d.
Others(d) == [x \in Datas |-> OwnersOf(list, todo, x) - Uses(list[d], x)]

\* The owners of a value outside of dict d.
LEMMA OthersNat ==
    ASSUME TypeOK, NEW d \in Dicts
    PROVE  /\ Others(d) \in [Datas -> Nat]
           /\ \A x \in Datas : Others(d)[x] + Uses(list[d], x) = OwnersOf(list, todo, x)
           /\ \A x \in Datas : Uses(list[d], x) \in Nat /\ OwnersOf(list, todo, x) \in Nat
<1>1. list \in [Dicts -> Seq(Pair)] /\ todo \in [Threads -> Seq(Op)]
  BY DEF TypeOK
<1>2. ASSUME NEW x \in Datas
      PROVE  /\ OwnersOf(list, todo, x) - Uses(list[d], x) \in Nat
             /\ Uses(list[d], x) \in Nat /\ OwnersOf(list, todo, x) \in Nat
  <2>1. PairOwners(list, x) \in Nat /\ Uses(list[d], x) \in Nat /\ Uses(list[d], x) <= PairOwners(list, x)
    <3>1. PICK m \in Seq(Pair) : m = list[d]
      BY <1>1
    <3> QED  BY <1>1, <3>1, PairOwnersChange DEF Uses
  <2>2. ThreadOwners(todo, x) \in Nat
    BY <1>1, ThreadOwnersNat
  <2> QED  BY <2>1, <2>2 DEF OwnersOf
<1>3. \A x \in Datas : Others(d)[x] = OwnersOf(list, todo, x) - Uses(list[d], x)
  BY DEF Others
<1>4. Others(d) \in [Datas -> Nat]
  BY <1>2 DEF Others
<1> QED  BY <1>2, <1>3, <1>4

\* The frees of dead values.
LEMMA DeadFrees ==
    ASSUME NEW dead \in Seq(Datas)
    PROVE  LET p == [i \in DOMAIN dead |-> [op |-> "free", data |-> dead[i]]]
           IN  p \in Seq(Op) /\ Len(p) = Len(dead) /\ DOMAIN p = DOMAIN dead
<1> DEFINE p == [i \in DOMAIN dead |-> [op |-> "free", data |-> dead[i]]]
<1>1. DOMAIN dead = 1 .. Len(dead) /\ Len(dead) \in Nat
  BY LenProperties
<1>2. ASSUME NEW i \in DOMAIN dead PROVE [op |-> "free", data |-> dead[i]] \in Op
  <2>1. dead[i] \in Datas
    BY <1>1, ElementOfSeq
  <2>2. [op |-> "free", data |-> dead[i]] \in [op : {"unref", "free"}, data : Datas]
    BY <2>1
  <2> QED  BY <2>2 DEF Op
<1>3. p \in Seq(Op)
  <2> HIDE DEF Op
  <2> QED  BY <1>1, <1>2
<1>4. DOMAIN p = 1 .. Len(dead)
  BY <1>1
<1>5. Len(p) = Len(dead)
  <2> HIDE DEF p
  <2> QED  BY <1>1, <1>3, <1>4, LenProperties
<1> QED  BY <1>1, <1>3, <1>4, <1>5

\* What a call does to the pairs of a dict that it has exclusively keeps the invariant; n
\* operations of its own that end nothing are done.
LEMMA CommitInv ==
    ASSUME DictInv, NEW t \in Threads, NEW d \in Dicts, Owns(state, refcount, held, maker, t, d),
           NEW s, StoreInv(s, Others(d), Frees(todo)),
           NEW n \in Nat, NEW rest \in Seq(Op),
           \A i \in DOMAIN rest : i + n \in DOMAIN todo[t] /\ rest[i] = todo[t][i + n],
           \A i \in DOMAIN todo[t] : todo[t][i].op \in {"free", "copy"},
           rest = <<>> \/ Len(list[d]) <= Len(s.list),
           Commit(t, d, s, rest), UNCHANGED dictVars
    PROVE  DictInv'
<1>0. /\ TypeOK /\ Lifecycle(state, refcount, held, maker, list)
      /\ \A e \in Dicts : Keyed(list[e], chain[e], count[e])
      /\ Values(list, todo, content, refs) /\ Once(todo)
      /\ Work(state, refcount, held, maker, list, todo)
      /\ \A u \in Threads : Rest(todo[u])
  BY DEF DictInv
<1>1. /\ s \in Stores /\ Keyed(s.list, s.chain, s.count)
      /\ s.list \in Seq(Pair) /\ s.chain \in [0 .. HashSize - 1 -> Seq(Keys)] /\ s.count \in Int
      /\ s.content \in [Datas -> AllContents \cup {"free"}] /\ s.refs \in [Datas -> Nat]
      /\ s.dead \in Seq(Datas)
  BY DEF StoreInv, Stores
<1>2. /\ todo \in [Threads -> Seq(Op)] /\ list \in [Dicts -> Seq(Pair)]
      /\ \A i \in DOMAIN todo[t] : todo[t][i] \in Op
  BY <1>0, TodoTypes DEF TypeOK
<1> DEFINE p == [i \in DOMAIN s.dead |-> [op |-> "free", data |-> s.dead[i]]]
           q == p \o rest
<1>3. p \in Seq(Op) /\ DOMAIN p = DOMAIN s.dead
  BY <1>1, DeadFrees
<1>4. \A i \in DOMAIN p : p[i] = [op |-> "free", data |-> s.dead[i]]
  BY <1>3
<1>5. /\ list' = [list EXCEPT ![d] = s.list] /\ chain' = [chain EXCEPT ![d] = s.chain]
      /\ count' = [count EXCEPT ![d] = s.count] /\ content' = s.content /\ refs' = s.refs
      /\ todo' = [todo EXCEPT ![t] = q]
      /\ state' = state /\ refcount' = refcount /\ held' = held /\ maker' = maker
  BY DEF Commit, dictVars
<1> HIDE DEF p, q
<1>6. /\ q \in Seq(Op) /\ Len(p) \in Nat
      /\ \A i \in DOMAIN p : q[i] = p[i] /\ i \in Nat
      /\ \A i \in DOMAIN q \ DOMAIN p : i - Len(p) \in DOMAIN rest /\ q[i] = rest[i - Len(p)] /\ i \in Nat
  BY <1>3, Joined, SMTT(30) DEF q
<1>7. ASSUME NEW i \in DOMAIN q
      PROVE  \/ i \in DOMAIN s.dead /\ q[i] = [op |-> "free", data |-> s.dead[i]]
             \/ /\ i \notin DOMAIN s.dead /\ i \in Nat /\ (i - Len(p)) + n \in DOMAIN todo[t]
                /\ q[i] = todo[t][(i - Len(p)) + n]
  <2>1. CASE i \in DOMAIN p
    BY <2>1, <1>3, <1>4, <1>6
  <2>2. CASE i \notin DOMAIN p
    BY <2>2, <1>3, <1>6
  <2> QED  BY <2>1, <2>2
<1>8. todo'[t] = q /\ \A u \in Threads \ {t} : todo'[u] = todo[u]
  BY <1>2, <1>5
<1>9. list'[d] = s.list /\ \A e \in Dicts \ {d} : list'[e] = list[e]
  BY <1>2, <1>5
<1>10. TypeOK'
  <2>1. /\ list' \in [Dicts -> Seq(Pair)] /\ content' \in [Datas -> AllContents \cup {"free"}]
        /\ refs' \in [Datas -> Nat]
    BY <1>1, <1>2, <1>5
  <2>2. chain' \in [Dicts -> [0 .. HashSize - 1 -> Seq(Keys)]] /\ count' \in [Dicts -> Int]
    BY <1>0, <1>1, <1>5 DEF TypeOK
  <2>3. todo' \in [Threads -> Seq(Op)]
    BY <1>2, <1>5, <1>6
  <2> QED  BY <2>1, <2>2, <2>3, <1>0, <1>5 DEF TypeOK
<1>11. \A e \in Dicts : Keyed(list'[e], chain'[e], count'[e])
  <2>1. chain \in [Dicts -> [0 .. HashSize - 1 -> Seq(Keys)]] /\ count \in [Dicts -> Int]
    BY <1>0 DEF TypeOK
  <2>2. chain'[d] = s.chain /\ count'[d] = s.count
    BY <2>1, <1>5
  <2>3. \A e \in Dicts \ {d} : chain'[e] = chain[e] /\ count'[e] = count[e]
    BY <2>1, <1>5
  <2>4. ASSUME NEW e \in Dicts PROVE Keyed(list'[e], chain'[e], count'[e])
    <3>1. CASE e = d
      BY <3>1, <2>2, <1>1, <1>9
    <3>2. CASE e # d
      BY <3>2, <2>3, <1>0, <1>9
    <3> QED  BY <3>1, <3>2
  <2> QED  BY <2>4
<1>12. Lifecycle(state', refcount', held', maker', list')
  <2>1. state[d] = "live"
    BY DEF Owns
  <2> QED  BY <2>1, <1>0, <1>5, <1>9 DEF Lifecycle
<1>13. Range(s.dead) \subseteq Datas /\ \A i \in DOMAIN s.dead : s.dead[i] \in Range(s.dead)
  BY <1>1, RangeOfSeq DEF Range
<1>14. ASSUME NEW u \in Threads, NEW k \in DOMAIN todo[u], todo[u][k].op = "free"
       PROVE  todo[u][k].data \in Frees(todo)
  <2>1. todo[u][k] \in Op
    BY <1>0, TodoTypes
  <2>2. todo[u][k].data \in Datas
    BY <2>1, <1>14 DEF Op
  <2> QED  BY <2>2, <1>14 DEF Frees
<1>15. /\ Frees(todo) \cap Range(s.dead) = {} /\ Frees(todo) \in SUBSET Datas
       /\ \A i, j \in DOMAIN s.dead : s.dead[i] = s.dead[j] => i = j
       /\ \A x \in Datas : IF s.content[x] = "free" THEN Uses(s.list, x) + Others(d)[x] = 0
                                                ELSE s.refs[x] = Uses(s.list, x) + Others(d)[x]
       /\ \A x \in Frees(todo) \cup Range(s.dead) :
             s.content[x] # "free" /\ Uses(s.list, x) + Others(d)[x] = 0
  BY DEF StoreInv, Frees
<1>16. ASSUME NEW x \in Datas PROVE OwnersOf(list', todo', x) = Uses(s.list, x) + Others(d)[x]
  <2>1. Unrefs(todo[t], x) = {}
    BY DEF Unrefs
  <2>2. Unrefs(q, x) = {}
    <3> SUFFICES ASSUME NEW i \in DOMAIN q PROVE q[i].op # "unref"
      BY DEF Unrefs
    <3> QED  BY <1>7
  <2>3. ThreadOwners(todo', x) + Cardinality(Unrefs(todo[t], x))
          = ThreadOwners(todo, x) + Cardinality(Unrefs(q, x))
    BY <1>2, <1>5, <1>6, ThreadOwnersChange
  <2>4. ThreadOwners(todo', x) \in Nat /\ ThreadOwners(todo, x) \in Nat
    BY <1>2, <1>10, ThreadOwnersNat DEF TypeOK
  <2>5. ThreadOwners(todo', x) = ThreadOwners(todo, x)
    BY <2>1, <2>2, <2>3, <2>4, FS_EmptySet
  <2>6. /\ PairOwners(list', x) + Uses(list[d], x) = PairOwners(list, x) + Uses(s.list, x)
        /\ PairOwners(list', x) \in Nat /\ PairOwners(list, x) \in Nat
        /\ Uses(list[d], x) \in Nat /\ Uses(s.list, x) \in Nat
    BY <1>1, <1>2, <1>5, PairOwnersChange, ZenonT(60) DEF Uses
  <2>7. Others(d)[x] + Uses(list[d], x) = OwnersOf(list, todo, x) /\ Others(d)[x] \in Nat
    BY <1>0, OthersNat
  <2>8. PICK a \in Nat, b \in Nat, k \in Nat, c \in Nat, e \in Nat :
           /\ a = PairOwners(list', x) /\ b = PairOwners(list, x) /\ k = ThreadOwners(todo, x)
           /\ c = Uses(list[d], x) /\ e = Uses(s.list, x)
    BY <2>4, <2>6
  <2>9. PICK f \in Nat : f = Others(d)[x]
    BY <2>7
  <2>10. OwnersOf(list', todo', x) = a + k /\ OwnersOf(list, todo, x) = b + k
    BY <2>5, <2>8 DEF OwnersOf
  <2>11. a + c = b + e /\ f + c = b + k
    BY <2>6, <2>7, <2>8, <2>9, <2>10
  <2>12. a + k = e + f
    <3>1. a \in Nat /\ b \in Nat /\ k \in Nat /\ c \in Nat /\ e \in Nat /\ f \in Nat
      BY <2>8, <2>9
    <3> QED  BY <3>1, <2>11
  <2> QED  BY <2>8, <2>9, <2>10, <2>12
<1>17. Values(list', todo', content', refs')
  <2>1. Frees(todo') \subseteq Frees(todo) \cup Range(s.dead)
    <3>1. \A i \in DOMAIN q : q[i].op = "free" => q[i].data \in Frees(todo) \cup Range(s.dead)
      BY <1>7, <1>13, <1>14
    <3>2. Frees(todo') \subseteq Frees(todo) \cup (Frees(todo) \cup Range(s.dead))
      BY <3>1, <1>2, <1>5, <1>6, FreesChange
    <3> QED  BY <3>2
  <2>2. \A x \in Datas : IF content'[x] = "free" THEN OwnersOf(list', todo', x) = 0
                                                ELSE refs'[x] = OwnersOf(list', todo', x)
    BY <1>5, <1>15, <1>16
  <2>3. \A x \in Frees(todo') : content'[x] # "free" /\ OwnersOf(list', todo', x) = 0
    BY <2>1, <1>5, <1>13, <1>15, <1>16
  <2> QED  BY <2>2, <2>3 DEF Values
<1>18. Work(state', refcount', held', maker', list', todo')
  <2> SUFFICES ASSUME NEW u \in Threads, NEW i \in DOMAIN todo'[u]
               PROVE  Possible(state, refcount, held, maker, list', u, todo'[u][i])
    BY <1>5 DEF Work
  <2>1. CASE u = t
    <3>1. CASE i \in DOMAIN s.dead /\ q[i] = [op |-> "free", data |-> s.dead[i]]
      BY <3>1, <2>1, <1>8 DEF Possible
    <3>2. CASE (i - Len(p)) + n \in DOMAIN todo[t] /\ q[i] = todo[t][(i - Len(p)) + n]
      <4>1. PICK j : j = q[i]
        OBVIOUS
      <4>2. Possible(state, refcount, held, maker, list, t, j) /\ j.op \in {"free", "copy"} /\ j \in Op
        BY <3>2, <4>1, <1>0, <1>2 DEF Work
      <4>3. CASE j.op = "free"
        BY <4>1, <4>3, <2>1, <1>8 DEF Possible
      <4>4. CASE j.op = "copy"
        <5>1. j.at \in DOMAIN list[j.from] /\ j.from \in Dicts
          BY <4>2, <4>4 DEF Possible, Op
        <5>2. j.at \in DOMAIN list'[j.from]
          <6>1. CASE j.from = d
            <7>1. rest # <<>>
              <8>1. i \in DOMAIN q \ DOMAIN p
                BY <4>1, <4>4, <2>1, <1>4, <1>6, <1>8
              <8>2. i - Len(p) \in DOMAIN rest
                BY <8>1, <1>6
              <8> QED  BY <8>2
            <7>2. PICK l \in Seq(Pair), m \in Seq(Pair) : l = list[d] /\ m = s.list
              BY <1>1, <1>2
            <7>3. Len(l) <= Len(m) /\ DOMAIN l = 1 .. Len(l) /\ DOMAIN m = 1 .. Len(m)
                  /\ Len(l) \in Nat /\ Len(m) \in Nat
              BY <7>1, <7>2, LenProperties
            <7> QED  BY <6>1, <7>2, <7>3, <5>1, <1>9
          <6>2. CASE j.from # d
            BY <6>2, <5>1, <1>9
          <6> QED  BY <6>1, <6>2
        <5>3. Possible(state, refcount, held, maker, list', t, j)
          BY <5>2, <4>2, <4>4 DEF Possible
        <5> QED  BY <5>3, <4>1, <2>1, <1>8
      <4> QED  BY <4>2, <4>3, <4>4
    <3> QED  BY <3>1, <3>2, <2>1, <1>7, <1>8
  <2>2. CASE u # t
    <3>1. PICK j : j = todo[u][i]
      OBVIOUS
    <3>2. i \in DOMAIN todo[u] /\ todo'[u][i] = j
      BY <3>1, <2>2, <1>8
    <3>3. Possible(state, refcount, held, maker, list, u, j) /\ j \in Op
      BY <3>1, <3>2, <1>0, TodoTypes DEF Work
    <3>4. ASSUME NEW e \in Dicts, Has(state, held, maker, u, e) PROVE list'[e] = list[e]
      <4>1. e # d
        BY <3>4, <2>2, <1>0, Alone
      <4> QED  BY <4>1, <1>9
    <3>5. j.op = "ref" => list'[j.dict] = list[j.dict]
      BY <3>3, <3>4 DEF Op, Possible
    <3>6. j.op = "copy" => list'[j.from] = list[j.from]
      BY <3>3, <3>4 DEF Op, Possible
    <3>7. Possible(state, refcount, held, maker, list', u, j)
      BY <3>3, <3>5, <3>6 DEF Possible
    <3> QED  BY <3>2, <3>7
  <2> QED  BY <2>1, <2>2
<1>19. Once(todo')
  <2>1. ASSUME NEW i \in DOMAIN s.dead, NEW u \in Threads, NEW k \in DOMAIN todo[u]
        PROVE  /\ ~SameEnd([op |-> "free", data |-> s.dead[i]], todo[u][k])
               /\ ~SameEnd(todo[u][k], [op |-> "free", data |-> s.dead[i]])
    <3>1. ~(todo[u][k].op = "free" /\ todo[u][k].data = s.dead[i])
      BY <1>13, <1>14, <1>15
    <3> QED  BY <3>1 DEF SameEnd
  <2>2. ASSUME NEW i \in DOMAIN q, NEW k \in DOMAIN q, SameEnd(q[i], q[k]) PROVE i = k
    <3>1. CASE i \in DOMAIN s.dead /\ k \in DOMAIN s.dead
      <4>1. q[i] = [op |-> "free", data |-> s.dead[i]] /\ q[k] = [op |-> "free", data |-> s.dead[k]]
        BY <3>1, <1>7
      <4>2. s.dead[i] = s.dead[k]
        BY <4>1, <2>2 DEF SameEnd
      <4> QED  BY <4>2, <3>1, <1>15
    <3>2. CASE i \in DOMAIN s.dead /\ k \notin DOMAIN s.dead
      BY <3>2, <2>1, <2>2, <1>7, ZenonT(60)
    <3>3. CASE i \notin DOMAIN s.dead /\ k \in DOMAIN s.dead
      BY <3>3, <2>1, <2>2, <1>7
    <3>4. CASE i \notin DOMAIN s.dead /\ k \notin DOMAIN s.dead
      <4>1. /\ (i - Len(p)) + n \in DOMAIN todo[t] /\ q[i] = todo[t][(i - Len(p)) + n]
            /\ (k - Len(p)) + n \in DOMAIN todo[t] /\ q[k] = todo[t][(k - Len(p)) + n]
            /\ i \in Nat /\ k \in Nat
        BY <3>4, <1>7
      <4>2. (i - Len(p)) + n = (k - Len(p)) + n
        BY <4>1, <2>2, <1>0 DEF Once
      <4> QED  BY <4>1, <4>2, <1>6
    <3> QED  BY <3>1, <3>2, <3>3, <3>4
  <2>3. ASSUME NEW u \in Threads \ {t}, NEW i \in DOMAIN q, NEW k \in DOMAIN todo[u]
        PROVE  ~SameEnd(q[i], todo[u][k])
    <3>1. CASE i \in DOMAIN s.dead
      BY <3>1, <2>1, <1>7, SMTT(30)
    <3>2. CASE i \notin DOMAIN s.dead
      <4>1. (i - Len(p)) + n \in DOMAIN todo[t] /\ q[i] = todo[t][(i - Len(p)) + n]
        BY <3>2, <1>7
      <4> QED  BY <4>1, <1>0 DEF Once
    <3> QED  BY <3>1, <3>2
  <2> QED  BY <2>2, <2>3, <1>0, <1>2, <1>5, <1>6, OnceChange
<1>20. \A u \in Threads : Rest(todo'[u])
  <2>1. \A i \in DOMAIN q : q[i].op \in {"free", "copy"}
    BY <1>7
  <2>2. Rest(q)
    BY <2>1 DEF Rest
  <2> QED  BY <2>2, <1>0, <1>8
<1> QED  BY <1>10, <1>11, <1>12, <1>17, <1>18, <1>19, <1>20 DEF DictInv

\* A step that changes nothing.
LEMMA SameInv ==
    ASSUME DictInv, UNCHANGED vars
    PROVE  DictInv'
<1>1. /\ state' = state /\ refcount' = refcount /\ held' = held /\ maker' = maker
      /\ list' = list /\ chain' = chain /\ count' = count
      /\ content' = content /\ refs' = refs /\ todo' = todo
  BY DEF vars, dictVars, pairVars, dataVars
<1>2. TypeOK'
  BY <1>1 DEF DictInv, TypeOK
<1> QED  BY <1>1, <1>2 DEF DictInv

\* The store of a dict is right.
LEMMA StoreRight ==
    ASSUME DictInv, NEW d \in Dicts
    PROVE  /\ StoreInv(Store(d), Others(d), Frees(todo))
           /\ Others(d) \in [Datas -> Nat] /\ Frees(todo) \in SUBSET Datas
           /\ Store(d).list = list[d] /\ list[d] \in Seq(Pair)
<1>0. /\ TypeOK /\ Keyed(list[d], chain[d], count[d]) /\ Values(list, todo, content, refs)
  BY DEF DictInv
<1>1. /\ list[d] \in Seq(Pair) /\ chain[d] \in [0 .. HashSize - 1 -> Seq(Keys)] /\ count[d] \in Int
      /\ content \in [Datas -> AllContents \cup {"free"}] /\ refs \in [Datas -> Nat]
  BY <1>0 DEF TypeOK
<1>2. PICK s : s = Store(d)
  OBVIOUS
<1>3. PICK e \in Seq(Datas) : e = <<>>
  BY EmptySeq
<1>4. s = [list |-> list[d], chain |-> chain[d], count |-> count[d],
           content |-> content, refs |-> refs, dead |-> e]
  BY <1>2, <1>3 DEF Store
<1>5. s \in Stores
  BY <1>1, <1>4 DEF Stores
<1>6. /\ s.list = list[d] /\ s.chain = chain[d] /\ s.count = count[d]
      /\ s.content = content /\ s.refs = refs /\ s.dead = e
  BY <1>4
<1>7. /\ Others(d) \in [Datas -> Nat]
      /\ \A x \in Datas : Others(d)[x] + Uses(list[d], x) = OwnersOf(list, todo, x)
                          /\ Others(d)[x] \in Nat /\ Uses(list[d], x) \in Nat
  BY <1>0, OthersNat
<1>8. \A x \in Datas : Uses(s.list, x) + Others(d)[x] = OwnersOf(list, todo, x)
  BY <1>6, <1>7
<1>9. Frees(todo) \in SUBSET Datas
  BY DEF Frees
<1>10. Range(s.dead) = {} /\ \A i, j \in DOMAIN s.dead : s.dead[i] = s.dead[j] => i = j
  BY <1>3, <1>6 DEF Range
<1>11. \A x \in Datas : IF s.content[x] = "free" THEN Uses(s.list, x) + Others(d)[x] = 0
                                                 ELSE s.refs[x] = Uses(s.list, x) + Others(d)[x]
  BY <1>0, <1>6, <1>8 DEF Values
<1>12. \A x \in Frees(todo) \cup Range(s.dead) : s.content[x] # "free" /\ Uses(s.list, x) + Others(d)[x] = 0
  BY <1>0, <1>6, <1>8, <1>9, <1>10 DEF Values
<1>13. StoreInv(s, Others(d), Frees(todo))
  BY <1>0, <1>5, <1>6, <1>10, <1>11, <1>12 DEF StoreInv
<1> QED  BY <1>1, <1>2, <1>6, <1>7, <1>9, <1>13

\* The calls of a thread that is in no other.
LEMMA CallInv ==
    ASSUME DictInv, NEW t \in Threads, NEW d \in Dicts, Idle(t), Exclusive(t, d),
           NEW s, StoreInv(s, Others(d), Frees(todo)), Commit(t, d, s, <<>>), UNCHANGED dictVars
    PROVE  DictInv'
<1>1. Owns(state, refcount, held, maker, t, d)
  BY DEF Owns, Exclusive
<1>2. PICK rest \in Seq(Op) : rest = <<>>
  BY EmptySeq
<1>3. DOMAIN rest = {} /\ DOMAIN todo[t] = {}
  BY <1>2 DEF Idle
<1>4. /\ \A i \in DOMAIN rest : i + 0 \in DOMAIN todo[t] /\ rest[i] = todo[t][i + 0]
      /\ \A i \in DOMAIN todo[t] : todo[t][i].op \in {"free", "copy"}
  BY <1>3
<1>5. Commit(t, d, s, rest) /\ 0 \in Nat
  BY <1>2
<1> QED  BY <1>1, <1>2, <1>4, <1>5, CommitInv

\* dict_set: a new value for one key.
LEMMA DictSetInv ==
    ASSUME DictInv, NEW t \in Threads, NEW d \in Dicts, NEW set \in Settings,
           dict_set(t, d, set.key, set.content)
    PROVE  DictInv'
<1>1. PICK k \in Keys, c \in AllContents : k = set.key /\ c = set.content
  BY ClientsAssumption DEF AllContents
<1>2. Idle(t) /\ Exclusive(t, d) /\ FreeDatas(Store(d)) # {} /\ UNCHANGED dictVars
  BY DEF dict_set
<1>3. \E mem \in BOOLEAN :
         Commit(t, d, _dict_set(get_new_data(Store(d), c), k, Min(FreeDatas(Store(d))), mem), <<>>)
  BY <1>1, Zenon DEF dict_set
<1>4. PICK u : u = Store(d)
  OBVIOUS
<1>5. \E s \in NewlySet(u, k, c) : Commit(t, d, s, <<>>)
  BY <1>3, <1>4, Zenon DEF NewlySet
<1>6. PICK s \in NewlySet(u, k, c) : Commit(t, d, s, <<>>)
  BY <1>5
<1>7. StoreInv(u, Others(d), Frees(todo)) /\ Others(d) \in [Datas -> Nat] /\ Frees(todo) \in SUBSET Datas
      /\ FreeDatas(u) # {}
  BY <1>2, <1>4, StoreRight
<1>8. StoreInv(s, Others(d), Frees(todo))
  BY <1>7, SetNew
<1> QED  BY <1>2, <1>6, <1>8, CallInv

\* dict_del: the pair leaves chain and list, its value is unreferenced.
LEMMA DictDelInv ==
    ASSUME DictInv, NEW t \in Threads, NEW d \in Dicts, NEW k \in Keys, dict_del(t, d, k)
    PROVE  DictInv'
<1>1. /\ Idle(t) /\ Exclusive(t, d) /\ _dict_lookup(Store(d), k) /\ UNCHANGED dictVars
      /\ Commit(t, d, Unlink(Store(d), k), <<>>)
  BY DEF dict_del
<1>2. PICK u : u = Store(d)
  OBVIOUS
<1>3. StoreInv(u, Others(d), Frees(todo)) /\ Others(d) \in [Datas -> Nat] /\ Frees(todo) \in SUBSET Datas
      /\ _dict_lookup(u, k) /\ Commit(t, d, Unlink(u, k), <<>>)
  BY <1>1, <1>2, StoreRight
<1>4. StoreInv(Unlink(u, k), Others(d), Frees(todo))
  BY <1>3, UnlinkStore
<1> QED  BY <1>1, <1>3, <1>4, CallInv

\* dict_unserialize: a new value for every pair of the buffer.
LEMMA DictUnserializeInv ==
    ASSUME DictInv, NEW t \in Threads, NEW d \in Dicts, NEW w \in Buffers, NEW size,
           dict_unserialize(t, d, w, size)
    PROVE  DictInv'
<1>1. PICK b \in Seq(Setting) : b = w
  BY ClientsAssumption DEF Setting, AllContents
<1>2. PICK pairs \in Seq(Setting) : pairs = Parse(w, size).pairs
  BY <1>1, ParsePairs
<1>3. /\ Idle(t) /\ Exclusive(t, d) /\ UNCHANGED dictVars
      /\ Cardinality(FreeDatas(Store(d))) >= Len(pairs)
      /\ IF DICT_HDR_LEN > size
         THEN UNCHANGED <<pairVars, dataVars, todo>>
         ELSE \E mem \in [DOMAIN pairs -> BOOLEAN] : Commit(t, d, Fill(Store(d), pairs, mem), <<>>)
  BY <1>2, Zenon DEF dict_unserialize
<1>4. CASE DICT_HDR_LEN > size
  <2>1. UNCHANGED vars
    BY <1>3, <1>4 DEF vars
  <2> QED  BY <2>1, SameInv
<1>5. CASE ~(DICT_HDR_LEN > size)
  <2>1. PICK mem \in [DOMAIN pairs -> BOOLEAN] : Commit(t, d, Fill(Store(d), pairs, mem), <<>>)
    BY <1>3, <1>5
  <2>2. PICK u : u = Store(d)
    OBVIOUS
  <2>3. StoreInv(u, Others(d), Frees(todo)) /\ Others(d) \in [Datas -> Nat]
        /\ Frees(todo) \in SUBSET Datas
        /\ Cardinality(FreeDatas(u)) >= Len(pairs) /\ Commit(t, d, Fill(u, pairs, mem), <<>>)
    BY <1>3, <2>1, <2>2, StoreRight
  <2>4. StoreInv(Fill(u, pairs, mem), Others(d), Frees(todo))
    BY <2>3, FillStore
  <2> QED  BY <1>3, <2>3, <2>4, CallInv
<1> QED  BY <1>4, <1>5

\* _copy: one pair is shared with the copy.
LEMMA CopyPairInv ==
    ASSUME DictInv, NEW t \in Threads, CopyPair(t)
    PROVE  DictInv'
<1>0. /\ TypeOK /\ Rest(todo[t]) /\ Work(state, refcount, held, maker, list, todo)
      /\ Values(list, todo, content, refs)
  BY DEF DictInv
<1>1. PICK q \in Seq(Op) : q = todo[t]
  BY <1>0, TodoTypes
<1>2. q # <<>> /\ q[1].op = "copy" /\ UNCHANGED dictVars
  BY <1>1 DEF CopyPair
<1>3. /\ Len(q) \in Nat /\ DOMAIN q = 1 .. Len(q) /\ 1 \in DOMAIN q /\ q[1] \in Op
      /\ Tail(q) \in Seq(Op) /\ DOMAIN Tail(q) = 1 .. Len(q) - 1
      /\ \A i \in 1 .. Len(q) - 1 : Tail(q)[i] = q[i + 1]
  BY <1>2, EmptySeq, LenProperties, HeadTailProperties, ElementOfSeq
<1>4. PICK j : j = q[1]
  OBVIOUS
<1>5. /\ j \in Op /\ j.op = "copy" /\ Possible(state, refcount, held, maker, list, t, j)
      /\ \A i \in DOMAIN q : q[i].op \in {"free", "copy"}
  BY <1>0, <1>1, <1>2, <1>3, <1>4 DEF Work, Rest
<1>6. PICK from \in Dicts, to \in Dicts : from = j.from /\ to = j.to
  BY <1>5 DEF Op
<1>7. PICK l \in Seq(Pair) : l = list[from]
  BY <1>0 DEF TypeOK
<1>8. /\ j.at \in DOMAIN l /\ Owns(state, refcount, held, maker, t, to)
  BY <1>5, <1>6, <1>7 DEF Possible
<1>9. PICK pair \in Pair : pair = l[j.at]
  BY <1>8, LenProperties, ElementOfSeq
<1>10. PICK k \in Keys, x \in Datas : k = pair.key /\ x = pair.value
  BY DEF Pair
<1>11. \E mem \in BOOLEAN : Commit(t, to, _dict_set(Store(to), k, x, mem), Tail(q))
  BY <1>1, <1>4, <1>6, <1>7, <1>9, <1>10, Zenon DEF CopyPair
<1>12. PICK u : u = Store(to)
  OBVIOUS
<1>13. PICK s : Commit(t, to, s, Tail(q)) /\ \E mem \in BOOLEAN : s = _dict_set(u, k, x, mem)
  BY <1>11, <1>12, Zenon
<1>14. /\ StoreInv(u, Others(to), Frees(todo)) /\ Others(to) \in [Datas -> Nat]
       /\ Frees(todo) \in SUBSET Datas /\ u.list = list[to]
  BY <1>12, StoreRight
<1>15. content[x] # "free" /\ x \notin Frees(todo)
  <2>1. Uses(l, x) > 0
    BY <1>8, <1>9, <1>10, UsedValue
  <2>2. Others(from)[x] + Uses(l, x) = OwnersOf(list, todo, x) /\ Others(from)[x] \in Nat
        /\ Uses(l, x) \in Nat
    BY <1>0, <1>7, OthersNat
  <2>3. OwnersOf(list, todo, x) # 0
    BY <2>1, <2>2
  <2> QED  BY <2>3, <1>0 DEF Values
<1>16. u.content[x] # "free" /\ x \notin Frees(todo) \cup Range(u.dead)
  BY <1>12, <1>15 DEF Store, Range
<1>17. StoreInv(s, Others(to), Frees(todo)) /\ Len(u.list) <= Len(s.list)
  BY <1>13, <1>14, <1>16, SetStore, SMTT(30)
<1>18. \A i \in DOMAIN Tail(q) : i + 1 \in DOMAIN q /\ Tail(q)[i] = q[i + 1]
  BY <1>3
<1>19. PICK rest \in Seq(Op) : rest = Tail(q)
  BY <1>3
<1>20. /\ \A i \in DOMAIN rest : i + 1 \in DOMAIN todo[t] /\ rest[i] = todo[t][i + 1]
       /\ \A i \in DOMAIN todo[t] : todo[t][i].op \in {"free", "copy"}
       /\ Len(list[to]) <= Len(s.list) /\ Commit(t, to, s, rest) /\ 1 \in Nat
  BY <1>1, <1>5, <1>13, <1>14, <1>17, <1>18, <1>19
<1> QED  BY <1>2, <1>8, <1>17, <1>20, CommitInv

-----------------------------------------------------------------------------
(* Calls that begin *)

\* A sequence of one element.
LEMMA Single ==
    ASSUME NEW A, NEW e \in A
    PROVE  /\ <<e>> \in Seq(A) /\ Len(<<e>>) = 1 /\ DOMAIN <<e>> = {1} /\ <<e>>[1] = e
           /\ \A i \in DOMAIN <<e>> : i = 1 /\ <<e>>[i] = e
OBVIOUS

\* A dict without pairs.
LEMMA KeyedEmpty ==
    /\ Keyed(<<>>, [h \in 0 .. HashSize - 1 |-> <<>>], 0)
    /\ <<>> \in Seq(Pair) /\ [h \in 0 .. HashSize - 1 |-> <<>>] \in [0 .. HashSize - 1 -> Seq(Keys)]
<1>1. PICK l \in Seq(Pair) : l = <<>>
  BY EmptySeq
<1>2. DOMAIN l = {} /\ Len(l) = 0
  BY <1>1
<1>3. KeysOf(l) = <<>>
  BY <1>1, <1>2 DEF KeysOf
<1>4. \A h \in 0 .. HashSize - 1 : Only(Bucket(h), KeysOf(l)) = <<>>
  BY <1>3, OnlyEmpty
<1>5. Keyed(l, [h \in 0 .. HashSize - 1 |-> <<>>], 0)
  BY <1>2, <1>4 DEF Keyed
<1>6. [h \in 0 .. HashSize - 1 |-> <<>>] \in [0 .. HashSize - 1 -> Seq(Keys)]
  BY EmptySeq
<1> QED  BY <1>1, <1>5, <1>6

\* A thread gets other work with the same unreferences.
LEMMA ValuesTodo ==
    ASSUME TypeOK, Values(list, todo, content, refs), NEW t \in Threads, NEW q \in Seq(Op),
           \A x \in Datas : Cardinality(Unrefs(q, x)) = Cardinality(Unrefs(todo[t], x)),
           \A i \in DOMAIN q : q[i].op = "free" => q[i].data \in Frees(todo)
    PROVE  Values(list, [todo EXCEPT ![t] = q], content, refs)
<1>1. todo \in [Threads -> Seq(Op)]
  BY DEF TypeOK
<1>2. PICK v : v = [todo EXCEPT ![t] = q]
  OBVIOUS
<1>3. v \in [Threads -> Seq(Op)]
  BY <1>1, <1>2
<1>4. ASSUME NEW x \in Datas PROVE OwnersOf(list, v, x) = OwnersOf(list, todo, x)
  <2>1. /\ ThreadOwners(v, x) + Cardinality(Unrefs(todo[t], x))
             = ThreadOwners(todo, x) + Cardinality(Unrefs(q, x))
        /\ ThreadOwners(v, x) \in Nat /\ ThreadOwners(todo, x) \in Nat
        /\ Cardinality(Unrefs(todo[t], x)) \in Nat
    BY <1>1, <1>2, ThreadOwnersChange
  <2>2. Cardinality(Unrefs(q, x)) = Cardinality(Unrefs(todo[t], x))
    OBVIOUS
  <2>3. ThreadOwners(v, x) = ThreadOwners(todo, x)
    BY <2>1, <2>2
  <2> QED  BY <2>3 DEF OwnersOf
<1>5. Frees(v) \subseteq Frees(todo) \cup Frees(todo)
  BY <1>1, <1>2, FreesChange
<1>6. Frees(todo) \subseteq Datas
  BY DEF Frees
<1>7. Values(list, v, content, refs)
  BY <1>4, <1>5, <1>6 DEF Values
<1> QED  BY <1>2, <1>7

\* Operations that are not unreferences.
LEMMA NoUnrefs ==
    ASSUME NEW q, \A i \in DOMAIN q : q[i].op # "unref", NEW x
    PROVE  Unrefs(q, x) = {} /\ Cardinality(Unrefs(q, x)) = 0
<1>1. Unrefs(q, x) = {}
  BY DEF Unrefs
<1> QED  BY <1>1, FS_EmptySet

\* A call that begins and has done nothing yet.
LEMMA BeginInv ==
    ASSUME DictInv, NEW t \in Threads, Idle(t), NEW q \in Seq(Op),
           \A i \in DOMAIN q : /\ q[i].op \in {"ref", "copy"}
                               /\ Possible(state, refcount, held, maker, list, t, q[i]),
           Rest(q), todo' = [todo EXCEPT ![t] = q], UNCHANGED <<dictVars, pairVars, dataVars>>
    PROVE  DictInv'
<1>0. /\ TypeOK /\ Lifecycle(state, refcount, held, maker, list)
      /\ \A e \in Dicts : Keyed(list[e], chain[e], count[e])
      /\ Values(list, todo, content, refs) /\ Once(todo)
      /\ Work(state, refcount, held, maker, list, todo)
      /\ \A u \in Threads : Rest(todo[u])
  BY DEF DictInv
<1>1. /\ state' = state /\ refcount' = refcount /\ held' = held /\ maker' = maker
      /\ list' = list /\ chain' = chain /\ count' = count /\ content' = content /\ refs' = refs
  BY DEF dictVars, pairVars, dataVars
<1>2. todo \in [Threads -> Seq(Op)] /\ DOMAIN todo[t] = {}
  BY <1>0 DEF TypeOK, Idle
<1>3. todo'[t] = q /\ \A u \in Threads \ {t} : todo'[u] = todo[u]
  BY <1>2
<1>4. TypeOK'
  <2>1. todo' \in [Threads -> Seq(Op)]
    BY <1>2
  <2> QED  BY <2>1, <1>0, <1>1 DEF TypeOK
<1>5. Values(list', todo', content', refs')
  <2>1. \A x \in Datas : Cardinality(Unrefs(q, x)) = Cardinality(Unrefs(todo[t], x))
    <3>1. \A i \in DOMAIN q : q[i].op # "unref"
      OBVIOUS
    <3>2. \A i \in DOMAIN todo[t] : todo[t][i].op # "unref"
      BY <1>2
    <3>3. \A x \in Datas : Cardinality(Unrefs(q, x)) = 0
      BY <3>1, NoUnrefs
    <3>4. \A x \in Datas : Cardinality(Unrefs(todo[t], x)) = 0
      BY <3>2, NoUnrefs
    <3> QED  BY <3>3, <3>4
  <2>2. \A i \in DOMAIN q : q[i].op = "free" => q[i].data \in Frees(todo)
    OBVIOUS
  <2>3. Values(list, [todo EXCEPT ![t] = q], content, refs)
    BY <2>1, <2>2, <1>0, ValuesTodo
  <2> QED  BY <2>3, <1>1
<1>6. Work(state', refcount', held', maker', list', todo')
  <2> SUFFICES ASSUME NEW u \in Threads, NEW i \in DOMAIN todo'[u]
               PROVE  Possible(state, refcount, held, maker, list, u, todo'[u][i])
    BY <1>1 DEF Work
  <2>1. CASE u = t
    BY <2>1, <1>3
  <2>2. CASE u # t
    BY <2>2, <1>0, <1>3 DEF Work
  <2> QED  BY <2>1, <2>2
<1>7. Once(todo')
  <2>1. \A i \in DOMAIN q : \A b : ~SameEnd(q[i], b)
    BY DEF SameEnd
  <2> QED  BY <2>1, <1>0, <1>2, OnceChange
<1>8. \A u \in Threads : Rest(todo'[u])
  BY <1>0, <1>3
<1> QED  BY <1>0, <1>1, <1>4, <1>5, <1>6, <1>7, <1>8 DEF DictInv

\* dict_get_with_ref and the getters: the pair is found.
LEMMA DictGetInv ==
    ASSUME DictInv, NEW t \in Threads, NEW d \in Dicts, NEW k \in Keys, dict_get_with_ref(t, d, k)
    PROVE  DictInv'
<1>1. PICK j : j = [op |-> "ref", dict |-> d, key |-> k]
  OBVIOUS
<1>2. j \in Op /\ j.op = "ref" /\ j.dict = d /\ j.key = k
  BY <1>1 DEF Op
<1>3. PICK q : q = <<j>>
  OBVIOUS
<1>4. q \in Seq(Op) /\ Len(q) = 1 /\ \A i \in DOMAIN q : q[i] = j
  BY <1>2, <1>3, Single
<1>5. /\ Idle(t) /\ Holds(t, d) /\ _dict_lookup(Store(d), k)
      /\ todo' = [todo EXCEPT ![t] = q] /\ UNCHANGED <<dictVars, pairVars, dataVars>>
  BY <1>1, <1>3 DEF dict_get_with_ref
<1>6. \E p \in Range(list[d]) : p.key = k
  <2>1. PICK l \in Seq(Pair) : l = list[d]
    BY DEF DictInv, TypeOK
  <2>2. Keyed(l, chain[d], count[d]) /\ k \in Range(chain[d][Hash(k)])
    BY <2>1, <1>5 DEF DictInv, _dict_lookup, Store
  <2>3. \E i \in DOMAIN l : l[i].key = k
    BY <2>2, KeyedLookup
  <2> QED  BY <2>1, <2>3 DEF Range
<1>7. Possible(state, refcount, held, maker, list, t, j)
  BY <1>2, <1>5, <1>6 DEF Possible, Holds, Has
<1>8. Rest(q)
  BY <1>2, <1>4 DEF Rest
<1>9. \A i \in DOMAIN q : q[i].op \in {"ref", "copy"} /\ Possible(state, refcount, held, maker, list, t, q[i])
  BY <1>2, <1>4, <1>7
<1> QED  BY <1>4, <1>5, <1>8, <1>9, BeginInv

\* dict_copy: the walk over the pairs begins.
LEMMA DictCopyInv ==
    ASSUME DictInv, NEW t \in Threads, NEW from \in Dicts, NEW to \in Dicts, dict_copy(t, from, to)
    PROVE  DictInv'
<1>1. PICK l \in Seq(Pair) : l = list[from]
  BY DEF DictInv, TypeOK
<1>2. DOMAIN l = 1 .. Len(l) /\ Len(l) \in Nat
  BY LenProperties
<1> DEFINE copy(i) == [op |-> "copy", from |-> from, to |-> to, at |-> i]
           q == [i \in 1 .. Len(l) |-> copy(i)]
<1>3. \A i \in 1 .. Len(l) : copy(i) \in Op
  BY <1>2 DEF Op
<1>4. \A i \in 1 .. Len(l) : copy(i).op = "copy" /\ copy(i).from = from /\ copy(i).to = to /\ copy(i).at = i
  OBVIOUS
<1>5. /\ Idle(t) /\ Holds(t, from) /\ Exclusive(t, to)
      /\ todo' = [todo EXCEPT ![t] = q] /\ UNCHANGED <<dictVars, pairVars, dataVars>>
  BY <1>1, <1>2 DEF dict_copy
<1> HIDE DEF copy
<1>6. q \in Seq(Op) /\ DOMAIN q = 1 .. Len(l) /\ \A i \in DOMAIN q : q[i] = copy(i)
  BY <1>2, <1>3
<1> HIDE DEF q
<1>7. \A i \in DOMAIN q : q[i].op = "copy"
  BY <1>4, <1>6
<1>8. Rest(q)
  BY <1>7 DEF Rest
<1>9. ASSUME NEW i \in DOMAIN q PROVE Possible(state, refcount, held, maker, list, t, q[i])
  <2>1. q[i].op = "copy" /\ q[i].from = from /\ q[i].to = to /\ q[i].at \in DOMAIN list[from]
    BY <1>1, <1>2, <1>4, <1>6
  <2> QED  BY <2>1, <1>5 DEF Possible, Holds, Exclusive, Has, Owns
<1> QED  BY <1>5, <1>6, <1>7, <1>8, <1>9, BeginInv

-----------------------------------------------------------------------------
(* The references on a dict *)

\* What can be done still can, when the dicts it is done on are as they were.
LEMMA StillPossible ==
    ASSUME NEW st, NEW n, NEW h, NEW m, NEW l, NEW st2, NEW n2, NEW h2, NEW m2, NEW l2,
           NEW u, NEW j \in Op, Possible(st, n, h, m, l, u, j),
           \A e \in Dicts : j.op \in {"ref", "copy"} /\ Has(st, h, m, u, e)
                               => Has(st2, h2, m2, u, e) /\ l2[e] = l[e],
           \A e \in Dicts : j.op = "copy" /\ Owns(st, n, h, m, u, e) => Owns(st2, n2, h2, m2, u, e),
           \A e \in Dicts : j.op = "destroy" /\ j.dict = e /\ st[e] = "live" /\ n[e] = 0 /\ m[e] = NULL
                               => st2[e] = "live" /\ n2[e] = 0 /\ m2[e] = NULL,
           \A e \in Dicts : j.op = "gone" /\ j.dict = e /\ st[e] = "dying" => st2[e] = "dying"
    PROVE  Possible(st2, n2, h2, m2, l2, u, j)
<1>1. /\ j.op \in {"ref", "destroy", "gone"} => j.dict \in Dicts
      /\ j.op = "copy" => j.from \in Dicts /\ j.to \in Dicts
  BY DEF Op
<1>2. j.op = "ref" => Has(st2, h2, m2, u, j.dict) /\ \E p \in Range(l2[j.dict]) : p.key = j.key
  BY <1>1 DEF Possible
<1>3. j.op = "copy" => Has(st2, h2, m2, u, j.from) /\ Owns(st2, n2, h2, m2, u, j.to)
                       /\ j.at \in DOMAIN l2[j.from]
  BY <1>1 DEF Possible
<1>4. j.op = "destroy" => st2[j.dict] = "live" /\ n2[j.dict] = 0 /\ m2[j.dict] = NULL
  BY <1>1 DEF Possible
<1>5. j.op = "gone" => st2[j.dict] = "dying"
  BY <1>1 DEF Possible
<1> QED  BY <1>2, <1>3, <1>4, <1>5 DEF Possible

\* The dicts that other threads than t are to end.
Ending(w, t, d) ==
    \E u \in Threads \ {t} : \E i \in DOMAIN w[u] : w[u][i].op \in {"destroy", "gone"} /\ w[u][i].dict = d

\* The dicts change in no way that matters to other threads than t.
Undisturbed(t, st, n, h, m, l) ==
    /\ \A u \in Threads \ {t} : \A e \in Dicts :
          /\ Has(state, held, maker, u, e) => Has(st, h, m, u, e) /\ l[e] = list[e]
          /\ Owns(state, refcount, held, maker, u, e) => Owns(st, n, h, m, u, e)
    /\ \A e \in Dicts : Ending(todo, t, e) =>
          /\ state[e] = "live" /\ refcount[e] = 0 /\ maker[e] = NULL
                => st[e] = "live" /\ n[e] = 0 /\ m[e] = NULL
          /\ state[e] = "dying" => st[e] = "dying"

\* The other threads can go on.
LEMMA OthersWork ==
    ASSUME TypeOK, Work(state, refcount, held, maker, list, todo), NEW t,
           NEW st, NEW n, NEW h, NEW m, NEW l, Undisturbed(t, st, n, h, m, l)
    PROVE  \A u \in Threads \ {t} : \A i \in DOMAIN todo[u] : Possible(st, n, h, m, l, u, todo[u][i])
<1> SUFFICES ASSUME NEW u \in Threads \ {t}, NEW i \in DOMAIN todo[u]
             PROVE  Possible(st, n, h, m, l, u, todo[u][i])
  OBVIOUS
<1>1. PICK j \in Op : j = todo[u][i]
  BY TodoTypes
<1>2. Possible(state, refcount, held, maker, list, u, j)
  BY <1>1 DEF Work
<1>3. /\ \A e \in Dicts : Has(state, held, maker, u, e) => Has(st, h, m, u, e) /\ l[e] = list[e]
      /\ \A e \in Dicts : Owns(state, refcount, held, maker, u, e) => Owns(st, n, h, m, u, e)
  BY DEF Undisturbed
<1>4. \A e \in Dicts : j.op \in {"destroy", "gone"} /\ j.dict = e => Ending(todo, t, e)
  BY <1>1 DEF Ending
<1>5. \A e \in Dicts : j.op = "destroy" /\ j.dict = e /\ state[e] = "live" /\ refcount[e] = 0 /\ maker[e] = NULL
                               => st[e] = "live" /\ n[e] = 0 /\ m[e] = NULL
  BY <1>4 DEF Undisturbed
<1>6. \A e \in Dicts : j.op = "gone" /\ j.dict = e /\ state[e] = "dying" => st[e] = "dying"
  BY <1>4 DEF Undisturbed
<1>7. Possible(st, n, h, m, l, u, j)
  BY <1>2, <1>3, <1>5, <1>6, StillPossible
<1> QED  BY <1>1, <1>7

\* A dict that was free has neither references nor pairs, and nothing is done on it.
LEMMA FreshInv ==
    ASSUME DictInv, NEW d \in Dicts, Fresh(d), UNCHANGED <<dataVars, todo>>,
           refcount' \in [Dicts -> Nat], held' \in [Threads -> [Dicts -> Nat]],
           maker' \in [Dicts -> Threads \cup {NULL}],
           \A e \in Dicts \ {d} : refcount'[e] = refcount[e] /\ maker'[e] = maker[e]
                                  /\ \A u \in Threads : held'[u][e] = held[u][e],
           refcount'[d] = References(held', d), maker'[d] # NULL => refcount'[d] = 0
    PROVE  DictInv'
<1>0. /\ TypeOK /\ Lifecycle(state, refcount, held, maker, list)
      /\ \A e \in Dicts : Keyed(list[e], chain[e], count[e])
      /\ Values(list, todo, content, refs) /\ Once(todo)
      /\ Work(state, refcount, held, maker, list, todo)
      /\ \A u \in Threads : Rest(todo[u])
  BY DEF DictInv
<1>1. /\ state[d] = "free" /\ state' = [state EXCEPT ![d] = "live"]
      /\ chain' = [chain EXCEPT ![d] = [h \in 0 .. HashSize - 1 |-> <<>>]]
      /\ count' = [count EXCEPT ![d] = 0]
      /\ content' = content /\ refs' = refs /\ todo' = todo
  BY DEF Fresh, dataVars
<1>2. list[d] = <<>>
  BY <1>0, <1>1 DEF Lifecycle
<1>3. list' = list
  BY <1>0, <1>2 DEF Fresh, TypeOK
<1>4. /\ state'[d] = "live" /\ \A e \in Dicts \ {d} : state'[e] = state[e]
      /\ state' \in [Dicts -> {"free", "live", "dying"}]
  BY <1>0, <1>1 DEF TypeOK
<1>5. /\ chain' \in [Dicts -> [0 .. HashSize - 1 -> Seq(Keys)]] /\ count' \in [Dicts -> Int]
      /\ chain'[d] = [h \in 0 .. HashSize - 1 |-> <<>>] /\ count'[d] = 0
      /\ \A e \in Dicts \ {d} : chain'[e] = chain[e] /\ count'[e] = count[e]
  <2>1. PICK c \in [0 .. HashSize - 1 -> Seq(Keys)] : c = [h \in 0 .. HashSize - 1 |-> <<>>]
    BY KeyedEmpty
  <2>2. chain' = [chain EXCEPT ![d] = c]
    BY <2>1, <1>1
  <2> QED  BY <2>1, <2>2, <1>0, <1>1 DEF TypeOK
<1>6. TypeOK'
  BY <1>0, <1>1, <1>3, <1>4, <1>5 DEF TypeOK
<1>7. \A e \in Dicts : Keyed(list'[e], chain'[e], count'[e])
  <2>1. Keyed(list'[d], chain'[d], count'[d])
    BY <1>2, <1>3, <1>5, KeyedEmpty
  <2>2. \A e \in Dicts \ {d} : Keyed(list'[e], chain'[e], count'[e])
    BY <1>0, <1>3, <1>5
  <2> QED  BY <2>1, <2>2
<1>8. Lifecycle(state', refcount', held', maker', list')
  <2> SUFFICES ASSUME NEW e \in Dicts
               PROVE  /\ refcount'[e] = References(held', e)
                      /\ state'[e] # "live" => refcount'[e] = 0 /\ list'[e] = <<>> /\ maker'[e] = NULL
                      /\ maker'[e] # NULL => refcount'[e] = 0
    BY DEF Lifecycle
  <2>1. CASE e = d
    BY <2>1, <1>4
  <2>2. CASE e # d
    <3>1. References(held', e) = References(held, e)
      <4>1. held \in [Threads -> [Dicts -> Nat]]
        BY <1>0 DEF TypeOK
      <4>2. \A u \in Threads : held'[u][e] = held[u][e]
        BY <2>2
      <4> QED  BY <4>1, <4>2, SameReferences
    <3> QED  BY <3>1, <2>2, <1>0, <1>3, <1>4 DEF Lifecycle
  <2> QED  BY <2>1, <2>2
<1>9. Work(state', refcount', held', maker', list', todo')
  <2> SUFFICES ASSUME NEW u \in Threads, NEW i \in DOMAIN todo[u]
               PROVE  Possible(state', refcount', held', maker', list', u, todo[u][i])
    BY <1>1 DEF Work
  <2>1. PICK j \in Op : j = todo[u][i]
    BY <1>0, TodoTypes
  <2>2. Possible(state, refcount, held, maker, list, u, j)
    BY <2>1, <1>0 DEF Work
  <2>3. ASSUME NEW e \in Dicts, Has(state, held, maker, u, e)
        PROVE  Has(state', held', maker', u, e) /\ list'[e] = list[e]
    <3>1. e # d
      BY <2>3, <1>1 DEF Has
    <3> QED  BY <3>1, <2>3, <1>3, <1>4 DEF Has
  <2>4. ASSUME NEW e \in Dicts, Owns(state, refcount, held, maker, u, e)
        PROVE  Owns(state', refcount', held', maker', u, e)
    <3>1. e # d
      BY <2>4, <1>1 DEF Owns
    <3> QED  BY <3>1, <2>4, <1>4 DEF Owns
  <2>5. ASSUME NEW e \in Dicts, state[e] = "live" \/ state[e] = "dying"
        PROVE  state'[e] = state[e] /\ refcount'[e] = refcount[e] /\ maker'[e] = maker[e]
    BY <2>5, <1>1, <1>4
  <2>6. Possible(state', refcount', held', maker', list', u, j)
    BY <2>2, <2>3, <2>4, <2>5, StillPossible
  <2> QED  BY <2>1, <2>6
<1> QED  BY <1>0, <1>1, <1>3, <1>6, <1>7, <1>8, <1>9 DEF DictInv

\* dict_new: the caller has the one reference.
LEMMA DictNewInv ==
    ASSUME DictInv, NEW t \in Threads, NEW d \in Dicts, dict_new(t, d)
    PROVE  DictInv'
<1>0. TypeOK /\ Lifecycle(state, refcount, held, maker, list)
  BY DEF DictInv
<1>1. /\ Fresh(d) /\ UNCHANGED <<dataVars, todo>> /\ maker' = maker /\ state[d] = "free"
      /\ refcount' = [refcount EXCEPT ![d] = 1] /\ held' = [held EXCEPT ![t][d] = 1]
  BY DEF dict_new, Fresh
<1>2. /\ refcount \in [Dicts -> Nat] /\ held \in [Threads -> [Dicts -> Nat]]
      /\ maker \in [Dicts -> Threads \cup {NULL}]
  BY <1>0 DEF TypeOK
<1>3. /\ refcount' \in [Dicts -> Nat] /\ held' \in [Threads -> [Dicts -> Nat]]
      /\ refcount'[d] = 1 /\ held'[t][d] = 1
      /\ \A u \in Threads \ {t} : held'[u][d] = held[u][d]
  BY <1>1, <1>2
<1>4. \A e \in Dicts \ {d} : refcount'[e] = refcount[e] /\ maker'[e] = maker[e]
                             /\ \A u \in Threads : held'[u][e] = held[u][e]
  BY <1>1, <1>2
<1>5. References(held, d) = 0 /\ maker[d] = NULL
  BY <1>0, <1>1 DEF Lifecycle
<1>6. held[t][d] = 0
  <2>1. held[t][d] <= References(held, d) /\ held[t][d] \in Nat
    BY <1>2, ReferencesAtLeast
  <2> QED  BY <2>1, <1>5
<1>7. References(held', d) + held[t][d] = References(held, d) + held'[t][d]
  BY <1>2, <1>3, ReferencesChange
<1>8. References(held', d) \in Nat
  BY <1>3, ReferencesAtLeast
<1>9. refcount'[d] = References(held', d) /\ maker'[d] = NULL
  BY <1>1, <1>3, <1>5, <1>6, <1>7, <1>8
<1> QED  BY <1>1, <1>2, <1>3, <1>4, <1>9, FreshInv

\* get_new_dict: no reference yet, but a maker.
LEMMA GetNewDictInv ==
    ASSUME DictInv, NEW t \in Threads, NEW d \in Dicts, get_new_dict(t, d)
    PROVE  DictInv'
<1>0. TypeOK /\ Lifecycle(state, refcount, held, maker, list)
  BY DEF DictInv
<1>1. /\ Fresh(d) /\ UNCHANGED <<dataVars, todo>> /\ held' = held /\ state[d] = "free"
      /\ refcount' = [refcount EXCEPT ![d] = 0] /\ maker' = [maker EXCEPT ![d] = t]
  BY DEF get_new_dict, Fresh
<1>2. /\ refcount \in [Dicts -> Nat] /\ held \in [Threads -> [Dicts -> Nat]]
      /\ maker \in [Dicts -> Threads \cup {NULL}]
  BY <1>0 DEF TypeOK
<1>3. /\ refcount' \in [Dicts -> Nat] /\ held' \in [Threads -> [Dicts -> Nat]]
      /\ maker' \in [Dicts -> Threads \cup {NULL}] /\ refcount'[d] = 0
  BY <1>1, <1>2
<1>4. \A e \in Dicts \ {d} : refcount'[e] = refcount[e] /\ maker'[e] = maker[e]
                             /\ \A u \in Threads : held'[u][e] = held[u][e]
  BY <1>1, <1>2
<1>5. References(held, d) = 0
  BY <1>0, <1>1 DEF Lifecycle
<1>6. refcount'[d] = References(held', d)
  BY <1>1, <1>3, <1>5
<1> QED  BY <1>1, <1>3, <1>4, <1>6, FreshInv

\* References on a dict come and go, and t has work left on it only when none remains.
LEMMA CountInv ==
    ASSUME DictInv, NEW t \in Threads, NEW d \in Dicts, Idle(t), state[d] = "live",
           UNCHANGED <<state, pairVars, dataVars>>,
           refcount' \in [Dicts -> Nat], held' \in [Threads -> [Dicts -> Nat]],
           maker' \in [Dicts -> Threads \cup {NULL}],
           \A e \in Dicts \ {d} : refcount'[e] = refcount[e] /\ maker'[e] = maker[e]
                                  /\ \A u \in Threads : held'[u][e] = held[u][e],
           refcount'[d] = References(held', d), maker'[d] # NULL => refcount'[d] = 0,
           ~(refcount[d] = 0 /\ maker[d] = NULL),
           \A u \in Threads \ {t} :
              /\ Has(state, held, maker, u, d) => Has(state, held', maker', u, d)
              /\ ~Owns(state, refcount, held, maker, u, d),
           NEW q \in Seq(Op), todo' = [todo EXCEPT ![t] = q],
           \/ q = <<>>
           \/ /\ q = <<[op |-> "destroy", dict |-> d]>>
              /\ refcount'[d] = 0 /\ maker'[d] = NULL
    PROVE  DictInv'
<1>0. /\ TypeOK /\ Lifecycle(state, refcount, held, maker, list)
      /\ \A e \in Dicts : Keyed(list[e], chain[e], count[e])
      /\ Values(list, todo, content, refs) /\ Once(todo)
      /\ Work(state, refcount, held, maker, list, todo)
      /\ \A u \in Threads : Rest(todo[u])
  BY DEF DictInv
<1>1. /\ state' = state /\ list' = list /\ chain' = chain /\ count' = count
      /\ content' = content /\ refs' = refs
  BY DEF pairVars, dataVars
<1>2. todo \in [Threads -> Seq(Op)] /\ DOMAIN todo[t] = {}
  BY <1>0 DEF TypeOK, Idle
<1>3. todo'[t] = q /\ \A u \in Threads \ {t} : todo'[u] = todo[u]
  BY <1>2
<1>4. PICK last : last = [op |-> "destroy", dict |-> d]
  OBVIOUS
<1>5. last \in Op /\ last.op = "destroy" /\ last.dict = d
  BY <1>4 DEF Op
<1>6. \A i \in DOMAIN q : /\ q[i] = last /\ i = 1 /\ Len(q) = 1
                          /\ refcount'[d] = 0 /\ maker'[d] = NULL
  <2>1. CASE q = <<>>
    BY <2>1
  <2>2. CASE q = <<last>> /\ refcount'[d] = 0 /\ maker'[d] = NULL
    BY <2>2, <1>5, Single
  <2> QED  BY <2>1, <2>2, <1>4
<1>7. TypeOK'
  <2>1. todo' \in [Threads -> Seq(Op)]
    BY <1>2
  <2> QED  BY <2>1, <1>0, <1>1 DEF TypeOK
<1>8. Lifecycle(state', refcount', held', maker', list')
  <2> SUFFICES ASSUME NEW e \in Dicts
               PROVE  /\ refcount'[e] = References(held', e)
                      /\ state'[e] # "live" => refcount'[e] = 0 /\ list'[e] = <<>> /\ maker'[e] = NULL
                      /\ maker'[e] # NULL => refcount'[e] = 0
    BY DEF Lifecycle
  <2>1. CASE e = d
    BY <2>1, <1>1
  <2>2. CASE e # d
    <3>1. References(held', e) = References(held, e)
      <4>1. held \in [Threads -> [Dicts -> Nat]]
        BY <1>0 DEF TypeOK
      <4>2. \A u \in Threads : held'[u][e] = held[u][e]
        BY <2>2
      <4> QED  BY <4>1, <4>2, SameReferences
    <3> QED  BY <3>1, <2>2, <1>0, <1>1 DEF Lifecycle
  <2> QED  BY <2>1, <2>2
<1>9. Values(list', todo', content', refs')
  <2>1. \A x \in Datas : Cardinality(Unrefs(q, x)) = Cardinality(Unrefs(todo[t], x))
    <3>1. \A i \in DOMAIN q : q[i].op # "unref"
      BY <1>5, <1>6
    <3>2. \A i \in DOMAIN todo[t] : todo[t][i].op # "unref"
      BY <1>2
    <3>3. \A x \in Datas : Cardinality(Unrefs(q, x)) = 0
      BY <3>1, NoUnrefs
    <3>4. \A x \in Datas : Cardinality(Unrefs(todo[t], x)) = 0
      BY <3>2, NoUnrefs
    <3> QED  BY <3>3, <3>4
  <2>2. \A i \in DOMAIN q : q[i].op = "free" => q[i].data \in Frees(todo)
    BY <1>5, <1>6
  <2>3. Values(list, [todo EXCEPT ![t] = q], content, refs)
    BY <2>1, <2>2, <1>0, ValuesTodo
  <2> QED  BY <2>3, <1>1
<1>13. \A u \in Threads \ {t} : \A i \in DOMAIN todo[u] :
          Possible(state', refcount', held', maker', list', u, todo[u][i])
  <2>1. ASSUME NEW u \in Threads \ {t}, NEW e \in Dicts, Has(state, held, maker, u, e)
        PROVE  Has(state', held', maker', u, e) /\ list'[e] = list[e]
    <3>1. CASE e = d
      BY <3>1, <2>1, <1>1
    <3>2. CASE e # d
      BY <3>2, <2>1, <1>1 DEF Has
    <3> QED  BY <3>1, <3>2
  <2>2. ASSUME NEW u \in Threads \ {t}, NEW e \in Dicts, Owns(state, refcount, held, maker, u, e)
        PROVE  Owns(state', refcount', held', maker', u, e)
    <3>1. e # d
      BY <2>2
    <3> QED  BY <3>1, <2>2, <1>1 DEF Owns
  <2>3. ASSUME NEW e \in Dicts, state[e] = "live" /\ refcount[e] = 0 /\ maker[e] = NULL
        PROVE  state'[e] = "live" /\ refcount'[e] = 0 /\ maker'[e] = NULL
    <3>1. e # d
      BY <2>3
    <3> QED  BY <3>1, <2>3, <1>1
  <2>4. \A e \in Dicts : state[e] = "dying" => state'[e] = "dying"
    BY <1>1
  <2>5. Undisturbed(t, state', refcount', held', maker', list')
    BY <2>1, <2>2, <2>3, <2>4 DEF Undisturbed
  <2> QED  BY <2>5, <1>0, OthersWork
<1>10. Work(state', refcount', held', maker', list', todo')
  <2> SUFFICES ASSUME NEW u \in Threads, NEW i \in DOMAIN todo'[u]
               PROVE  Possible(state', refcount', held', maker', list', u, todo'[u][i])
    BY DEF Work
  <2>1. CASE u = t
    <3>1. todo'[u][i] = last /\ refcount'[d] = 0 /\ maker'[d] = NULL
      BY <2>1, <1>3, <1>6
    <3> QED  BY <3>1, <1>1, <1>5 DEF Possible
  <2>2. CASE u # t
    BY <2>2, <1>3, <1>13
  <2> QED  BY <2>1, <2>2
<1>11. Once(todo')
  <2>1. \A i, k \in DOMAIN q : SameEnd(q[i], q[k]) => i = k
    BY <1>6
  <2>2. ASSUME NEW u \in Threads \ {t}, NEW i \in DOMAIN q, NEW k \in DOMAIN todo[u]
        PROVE  ~SameEnd(q[i], todo[u][k])
    <3> SUFFICES ASSUME SameEnd(last, todo[u][k]) PROVE FALSE
      BY <1>6
    <3>1. Possible(state, refcount, held, maker, list, u, todo[u][k])
      BY <1>0 DEF Work
    <3>2. todo[u][k].op \in {"destroy", "gone"} /\ todo[u][k].dict = d
      BY <1>5 DEF SameEnd
    <3> QED  BY <3>1, <3>2 DEF Possible
  <2> QED  BY <2>1, <2>2, <1>0, <1>2, OnceChange
<1>12. \A u \in Threads : Rest(todo'[u])
  <2>1. Rest(q)
    BY <1>5, <1>6 DEF Rest
  <2> QED  BY <2>1, <1>0, <1>3
<1> QED  BY <1>0, <1>1, <1>7, <1>8, <1>9, <1>10, <1>11, <1>12 DEF DictInv

\* dict_ref: one more reference for some thread.
LEMMA DictRefInv ==
    ASSUME DictInv, NEW t \in Threads, NEW u \in Threads, NEW d \in Dicts, dict_ref(t, u, d)
    PROVE  DictInv'
<1>0. TypeOK /\ Lifecycle(state, refcount, held, maker, list)
  BY DEF DictInv
<1>1. /\ Idle(t) /\ Has(state, held, maker, t, d) /\ UNCHANGED <<state, pairVars, dataVars>> /\ todo' = todo
      /\ refcount' = [refcount EXCEPT ![d] = @ + 1] /\ held' = [held EXCEPT ![u][d] = @ + 1]
      /\ maker' = [maker EXCEPT ![d] = NULL]
  BY DEF dict_ref, Holds, Has
<1>2. /\ refcount \in [Dicts -> Nat] /\ held \in [Threads -> [Dicts -> Nat]]
      /\ maker \in [Dicts -> Threads \cup {NULL}] /\ todo \in [Threads -> Seq(Op)]
  BY <1>0 DEF TypeOK
<1>3. state[d] = "live" /\ t # NULL
  BY <1>1, NullAssumption DEF Has
<1>4. /\ refcount' \in [Dicts -> Nat] /\ held' \in [Threads -> [Dicts -> Nat]]
      /\ maker' \in [Dicts -> Threads \cup {NULL}]
      /\ refcount'[d] = refcount[d] + 1 /\ held'[u][d] = held[u][d] + 1 /\ maker'[d] = NULL
      /\ \A v \in Threads \ {u} : held'[v][d] = held[v][d]
  BY <1>1, <1>2
<1>5. \A e \in Dicts \ {d} : refcount'[e] = refcount[e] /\ maker'[e] = maker[e]
                             /\ \A v \in Threads : held'[v][e] = held[v][e]
  BY <1>1, <1>2
<1>6. refcount'[d] = References(held', d)
  <2>1. References(held', d) + held[u][d] = References(held, d) + held'[u][d]
    BY <1>2, <1>4, ReferencesChange
  <2>2. References(held', d) \in Nat /\ References(held, d) \in Nat /\ held[u][d] \in Nat
    BY <1>2, <1>4, ReferencesAtLeast
  <2>3. References(held, d) = refcount[d]
    BY <1>0 DEF Lifecycle
  <2>4. PICK a \in Nat, b \in Nat, c \in Nat :
           a = References(held', d) /\ b = References(held, d) /\ c = held[u][d]
    BY <2>2
  <2>5. a + c = b + (c + 1)
    BY <2>1, <2>4, <1>4
  <2>6. a = b + 1
    <3>1. a \in Nat /\ b \in Nat /\ c \in Nat
      BY <2>4
    <3> QED  BY <3>1, <2>5
  <2> QED  BY <2>3, <2>4, <2>6, <1>4
<1>7. held[t][d] <= refcount[d] /\ held[t][d] \in Nat /\ refcount[d] \in Nat
  <2>1. held[t][d] <= References(held, d)
    BY <1>2, ReferencesAtLeast
  <2> QED  BY <2>1, <1>0, <1>2 DEF Lifecycle
<1>8. ~(refcount[d] = 0 /\ maker[d] = NULL)
  BY <1>1, <1>3, <1>7 DEF Has
<1>9. ASSUME NEW v \in Threads \ {t}
      PROVE  /\ Has(state, held, maker, v, d) => Has(state, held', maker', v, d)
             /\ ~Owns(state, refcount, held, maker, v, d)
  <2>1. ~Owns(state, refcount, held, maker, v, d)
    BY <1>0, <1>1, <1>9, Alone
  <2>2. maker[d] # v
    BY <2>1, <1>3 DEF Owns
  <2>3. held[v][d] \in Nat /\ (held'[v][d] = held[v][d] \/ held'[v][d] = held[v][d] + 1)
    BY <1>2, <1>4
  <2> QED  BY <2>1, <2>2, <2>3 DEF Has
<1>10. PICK q \in Seq(Op) : q = <<>>
  BY EmptySeq
<1>11. todo' = [todo EXCEPT ![t] = q]
  BY <1>1, <1>2, <1>10 DEF Idle
<1>12. maker'[d] # NULL => refcount'[d] = 0
  BY <1>4
<1> QED  BY <1>1, <1>3, <1>4, <1>5, <1>6, <1>8, <1>9, <1>10, <1>11, <1>12, CountInv

\* dict_unref: the last reference leaves the destruction to do.
LEMMA DictUnrefInv ==
    ASSUME DictInv, NEW t \in Threads, NEW d \in Dicts, dict_unref(t, d)
    PROVE  DictInv'
<1>0. TypeOK /\ Lifecycle(state, refcount, held, maker, list)
  BY DEF DictInv
<1>1. /\ Idle(t) /\ held[t][d] > 0 /\ UNCHANGED <<state, pairVars, dataVars>> /\ maker' = maker
      /\ refcount' = [refcount EXCEPT ![d] = @ - 1] /\ held' = [held EXCEPT ![t][d] = @ - 1]
      /\ todo' = IF refcount[d] = 1 THEN [todo EXCEPT ![t] = <<[op |-> "destroy", dict |-> d]>>]
                                    ELSE todo
  BY DEF dict_unref
<1>2. /\ refcount \in [Dicts -> Nat] /\ held \in [Threads -> [Dicts -> Nat]]
      /\ maker \in [Dicts -> Threads \cup {NULL}] /\ todo \in [Threads -> Seq(Op)]
      /\ held[t][d] \in Nat /\ refcount[d] \in Nat
  BY <1>0 DEF TypeOK
<1>3. /\ References(held, d) = refcount[d] /\ held[t][d] <= refcount[d]
      /\ \A v \in Threads \ {t} : held[t][d] + held[v][d] <= refcount[d]
  BY <1>0, <1>2, ReferencesAtLeast DEF Lifecycle
<1>4. refcount[d] > 0 /\ maker[d] = NULL /\ state[d] = "live"
  <2>1. refcount[d] > 0
    BY <1>1, <1>2, <1>3
  <2> QED  BY <2>1, <1>0 DEF Lifecycle
<1>5. refcount[d] - 1 \in Nat /\ held[t][d] - 1 \in Nat
  BY <1>1, <1>2, <1>4
<1>6. /\ refcount' \in [Dicts -> Nat] /\ held' \in [Threads -> [Dicts -> Nat]]
      /\ refcount'[d] = refcount[d] - 1 /\ held'[t][d] = held[t][d] - 1
      /\ \A v \in Threads \ {t} : held'[v][d] = held[v][d]
  BY <1>1, <1>2, <1>5
<1>7. \A e \in Dicts \ {d} : refcount'[e] = refcount[e] /\ maker'[e] = maker[e]
                             /\ \A v \in Threads : held'[v][e] = held[v][e]
  BY <1>1, <1>2
<1>8. refcount'[d] = References(held', d)
  <2>1. References(held', d) + held[t][d] = References(held, d) + held'[t][d]
    BY <1>2, <1>6, ReferencesChange
  <2>2. References(held', d) \in Nat
    BY <1>6, ReferencesAtLeast
  <2> QED  BY <2>1, <2>2, <1>2, <1>3, <1>6
<1>9. ASSUME NEW v \in Threads \ {t}
      PROVE  /\ Has(state, held, maker, v, d) => Has(state, held', maker', v, d)
             /\ ~Owns(state, refcount, held, maker, v, d)
  <2>1. Has(state, held, maker, v, d) => Has(state, held', maker', v, d)
    BY <1>1, <1>6 DEF Has
  <2>2. v # NULL
    BY NullAssumption
  <2>3. ~(refcount[d] = 1 /\ held[v][d] = 1)
    <3>1. held[t][d] + held[v][d] <= refcount[d]
      BY <1>3
    <3> QED  BY <3>1, <1>1, <1>2
  <2> QED  BY <2>1, <2>2, <2>3, <1>4 DEF Owns
<1>14. /\ maker' \in [Dicts -> Threads \cup {NULL}] /\ (maker'[d] # NULL => refcount'[d] = 0)
       /\ ~(refcount[d] = 0 /\ maker[d] = NULL) /\ state[d] = "live"
       /\ Idle(t) /\ UNCHANGED <<state, pairVars, dataVars>>
  BY <1>1, <1>2, <1>4
<1>10. PICK last : last = [op |-> "destroy", dict |-> d]
  OBVIOUS
<1>11. last \in Op
  BY <1>10 DEF Op
<1>12. CASE refcount[d] = 1
  <2>1. PICK q \in Seq(Op) : q = <<last>>
    BY <1>11, Single
  <2>2. /\ todo' = [todo EXCEPT ![t] = q] /\ refcount'[d] = 0 /\ maker'[d] = NULL
        /\ q = <<[op |-> "destroy", dict |-> d]>>
    BY <2>1, <1>1, <1>4, <1>6, <1>10, <1>12
  <2> QED  BY <2>2, <1>6, <1>7, <1>8, <1>9, <1>14, CountInv
<1>13. CASE refcount[d] # 1
  <2>1. PICK q \in Seq(Op) : q = <<>>
    BY EmptySeq
  <2>2. todo' = [todo EXCEPT ![t] = q] /\ maker'[d] = NULL
    BY <2>1, <1>1, <1>2, <1>4, <1>13 DEF Idle
  <2> QED  BY <2>1, <2>2, <1>6, <1>7, <1>8, <1>9, <1>14, CountInv
<1> QED  BY <1>12, <1>13

\* dict_destroy of a dict that never had a reference.
LEMMA DictDestroyInv ==
    ASSUME DictInv, NEW t \in Threads, NEW d \in Dicts, dict_destroy(t, d)
    PROVE  DictInv'
<1>0. TypeOK /\ Lifecycle(state, refcount, held, maker, list)
  BY DEF DictInv
<1>1. /\ Idle(t) /\ maker[d] = t /\ UNCHANGED <<state, pairVars, dataVars>>
      /\ refcount' = refcount /\ held' = held /\ maker' = [maker EXCEPT ![d] = NULL]
      /\ todo' = [todo EXCEPT ![t] = <<[op |-> "destroy", dict |-> d]>>]
  BY DEF dict_destroy
<1>2. /\ refcount \in [Dicts -> Nat] /\ held \in [Threads -> [Dicts -> Nat]]
      /\ maker \in [Dicts -> Threads \cup {NULL}] /\ t # NULL
  BY <1>0, NullAssumption DEF TypeOK
<1>3. /\ References(held, d) = refcount[d] /\ refcount[d] = 0 /\ state[d] = "live"
  BY <1>0, <1>1, <1>2 DEF Lifecycle
<1>4. /\ maker' \in [Dicts -> Threads \cup {NULL}] /\ maker'[d] = NULL /\ refcount'[d] = 0
      /\ refcount'[d] = References(held', d)
  BY <1>1, <1>2, <1>3
<1>5. \A e \in Dicts \ {d} : refcount'[e] = refcount[e] /\ maker'[e] = maker[e]
                             /\ \A v \in Threads : held'[v][e] = held[v][e]
  BY <1>1, <1>2
<1>6. Owns(state, refcount, held, maker, t, d)
  BY <1>1, <1>3 DEF Owns
<1>7. ASSUME NEW v \in Threads \ {t}
      PROVE  /\ Has(state, held, maker, v, d) => Has(state, held', maker', v, d)
             /\ ~Owns(state, refcount, held, maker, v, d)
  <2>1. ~Has(state, held, maker, v, d)
    BY <1>0, <1>6, <1>7, Alone
  <2>2. ~Owns(state, refcount, held, maker, v, d)
    BY <1>1, <1>3 DEF Owns
  <2> QED  BY <2>1, <2>2
<1>8. PICK last : last = [op |-> "destroy", dict |-> d]
  OBVIOUS
<1>9. PICK q \in Seq(Op) : q = <<last>>
  <2>1. last \in Op
    BY <1>8 DEF Op
  <2> QED  BY <2>1, Single
<1>10. q = <<[op |-> "destroy", dict |-> d]>> /\ todo' = [todo EXCEPT ![t] = q]
  BY <1>1, <1>8, <1>9
<1>11. ~(refcount[d] = 0 /\ maker[d] = NULL)
  BY <1>1, <1>2
<1> QED  BY <1>1, <1>2, <1>3, <1>4, <1>5, <1>7, <1>10, <1>11, CountInv

-----------------------------------------------------------------------------
(* Calls that go on *)

\* The rest of some work, one operation done.
LEMMA TailOf ==
    ASSUME NEW q \in Seq(Op), q # <<>>
    PROVE  /\ Tail(q) \in Seq(Op) /\ Len(Tail(q)) = Len(q) - 1 /\ DOMAIN Tail(q) = 1 .. Len(q) - 1
           /\ \A i \in 1 .. Len(q) - 1 : Tail(q)[i] = q[i + 1] /\ i + 1 \in DOMAIN q
           /\ Len(q) \in Nat \ {0} /\ DOMAIN q = 1 .. Len(q) /\ 1 \in DOMAIN q /\ q[1] \in Op
BY EmptySeq, LenProperties, HeadTailProperties, ElementOfSeq

\* The unreferences behind the first operation.
LEMMA UnrefsTail ==
    ASSUME NEW q \in Seq(Op), q # <<>>, NEW x
    PROVE  Cardinality(Unrefs(q, x)) = Cardinality(Unrefs(Tail(q), x))
                                         + IF q[1].op = "unref" /\ q[1].data = x THEN 1 ELSE 0
<1>1. PICK r \in Seq(Op) : r = Tail(q)
  BY TailOf
<1>2. /\ DOMAIN r = 1 .. Len(q) - 1 /\ \A i \in 1 .. Len(q) - 1 : r[i] = q[i + 1]
      /\ DOMAIN q = 1 .. Len(q) /\ Len(q) \in Nat \ {0}
  BY <1>1, TailOf
<1> DEFINE S == Unrefs(r, x)
           T == Unrefs(q, x) \ {1}
           f == [i \in S |-> i + 1]
<1>3. S \subseteq 1 .. Len(q) - 1 /\ T \subseteq 2 .. Len(q)
  BY <1>2 DEF Unrefs
<1>4. f \in [S -> T]
  <2>1. \A i \in S : i + 1 \in T
    BY <1>2 DEF Unrefs
  <2> HIDE DEF S, T
  <2> QED  BY <2>1
<1>5. \A a, b \in S : f[a] = f[b] => a = b
  <2> HIDE DEF S
  <2> QED  BY <1>2, <1>3
<1>6. \A c \in T : \E a \in S : f[a] = c
  <2> SUFFICES ASSUME NEW c \in T PROVE \E a \in S : f[a] = c
    OBVIOUS
  <2>1. c - 1 \in S
    BY <1>2, <1>3 DEF Unrefs
  <2>2. (c - 1) + 1 = c
    BY <1>2, <1>3
  <2> HIDE DEF S, T
  <2> QED  BY <2>1, <2>2
<1>7. IsFiniteSet(S) /\ IsFiniteSet(Unrefs(q, x)) /\ Cardinality(Unrefs(q, x)) \in Nat
  BY UnrefsFinite
<1>8. Cardinality(T) = Cardinality(S)
  <2> HIDE DEF S, T, f
  <2> QED  BY <1>4, <1>5, <1>6, <1>7, SameNumber
<1>9. CASE 1 \in Unrefs(q, x)
  <2>1. Cardinality(T) = Cardinality(Unrefs(q, x)) - 1
    BY <1>7, <1>9, FS_RemoveElement
  <2>2. q[1].op = "unref" /\ q[1].data = x
    BY <1>9 DEF Unrefs
  <2>3. PICK a \in Nat, b \in Nat : a = Cardinality(Unrefs(q, x)) /\ b = Cardinality(T)
    BY <1>7, <1>8, UnrefsFinite
  <2>4. a = b + 1
    BY <2>1, <2>3
  <2>5. Cardinality(Unrefs(Tail(q), x)) = b
    BY <2>3, <1>1, <1>8
  <2> QED  BY <2>2, <2>3, <2>4, <2>5
<1>10. CASE 1 \notin Unrefs(q, x)
  <2>1. T = Unrefs(q, x)
    BY <1>10
  <2>2. ~(q[1].op = "unref" /\ q[1].data = x)
    BY <1>2, <1>10 DEF Unrefs
  <2>3. PICK a \in Nat : a = Cardinality(Unrefs(q, x))
    BY <1>7
  <2>4. Cardinality(Unrefs(Tail(q), x)) = a
    BY <2>1, <2>3, <1>1, <1>8
  <2> QED  BY <2>2, <2>3, <2>4
<1> QED  BY <1>9, <1>10

\* A free takes the place of the first operation.
LEMMA FirstReplaced ==
    ASSUME NEW q \in Seq(Op), q # <<>>, NEW e \in Op
    PROVE  /\ <<e>> \o Tail(q) \in Seq(Op) /\ Len(<<e>> \o Tail(q)) = Len(q)
           /\ DOMAIN (<<e>> \o Tail(q)) = DOMAIN q
           /\ (<<e>> \o Tail(q))[1] = e
           /\ \A i \in DOMAIN q \ {1} : (<<e>> \o Tail(q))[i] = q[i]
           /\ Tail(<<e>> \o Tail(q)) = Tail(q) /\ <<e>> \o Tail(q) # <<>>
<1>1. PICK p \in Seq(Op) : p = <<e>>
  BY Single
<1>2. Len(p) = 1 /\ DOMAIN p = {1} /\ p[1] = e
  BY <1>1, Single
<1>3. PICK b \in Seq(Op) : b = Tail(q)
  BY TailOf
<1>4. /\ Len(b) = Len(q) - 1 /\ Len(q) \in Nat \ {0} /\ DOMAIN q = 1 .. Len(q) /\ DOMAIN b = 1 .. Len(q) - 1
      /\ \A i \in 1 .. Len(q) - 1 : b[i] = q[i + 1]
  BY <1>3, TailOf
<1>5. PICK r : r = p \o b
  OBVIOUS
<1>6. /\ r \in Seq(Op) /\ Len(r) = Len(p) + Len(b) /\ DOMAIN r = 1 .. Len(p) + Len(b)
      /\ r[1] = p[1]
      /\ \A i \in DOMAIN r \ DOMAIN p : r[i] = b[i - Len(p)]
  <2>1. /\ p \o b \in Seq(Op) /\ Len(p \o b) = Len(p) + Len(b) /\ DOMAIN (p \o b) = 1 .. Len(p) + Len(b)
        /\ \A i \in DOMAIN p : (p \o b)[i] = p[i]
        /\ \A i \in DOMAIN (p \o b) \ DOMAIN p : (p \o b)[i] = b[i - Len(p)]
    BY Joined
  <2>2. 1 \in DOMAIN p
    BY <1>2
  <2> QED  BY <2>1, <2>2, <1>5
<1>7. Len(r) = Len(q) /\ DOMAIN r = DOMAIN q /\ r[1] = e
  BY <1>2, <1>4, <1>6
<1>8. ASSUME NEW i \in DOMAIN q \ {1} PROVE r[i] = q[i]
  <2>1. r[i] = b[i - 1] /\ i - 1 \in 1 .. Len(q) - 1
    BY <1>2, <1>4, <1>6, <1>7
  <2>2. b[i - 1] = q[(i - 1) + 1] /\ (i - 1) + 1 = i
    BY <2>1, <1>4
  <2> QED  BY <2>1, <2>2
<1>9. r # <<>>
  BY <1>4, <1>7
<1>10. Tail(r) = b
  <2>1. PICK a \in Seq(Op) : a = Tail(r)
    BY <1>6, <1>9, TailOf
  <2>2. DOMAIN a = 1 .. Len(q) - 1 /\ \A i \in 1 .. Len(q) - 1 : a[i] = r[i + 1]
    BY <2>1, <1>6, <1>7, <1>9, TailOf
  <2>3. ASSUME NEW i \in 1 .. Len(q) - 1 PROVE a[i] = b[i]
    <3>1. i + 1 \in DOMAIN q \ {1}
      BY <1>4
    <3> QED  BY <3>1, <2>2, <1>4, <1>8
  <2>4. a = [i \in 1 .. Len(q) - 1 |-> a[i]] /\ b = [i \in 1 .. Len(q) - 1 |-> b[i]]
    BY <2>2, <1>4
  <2> QED  BY <2>1, <2>3, <2>4
<1> QED  BY <1>1, <1>3, <1>5, <1>6, <1>7, <1>8, <1>9, <1>10

\* A thread has made the first of the operations q, and perhaps has a free to make instead.
Advanced(q, dead, r) ==
    \/ dead = {} /\ r = Tail(q)
    \/ \E x : dead = {x} /\ r = <<[op |-> "free", data |-> x]>> \o Tail(q)

\* What is left has an unreference less if the operation was one.
OneDone(q, r) ==
    \A x \in Datas : Cardinality(Unrefs(q, x)) = Cardinality(Unrefs(r, x))
                                         + IF q[1].op = "unref" /\ q[1].data = x THEN 1 ELSE 0

\* It is operations of before, and frees of dead values.
LeftOf(q, dead, r) ==
    \A i \in DOMAIN r : \/ r[i].op = "free" /\ r[i].data \in dead
                        \/ \E k \in DOMAIN q \ {1} : r[i] = q[k]

\* What is left of a call after an operation on a value is the rest of a call.
LEMMA Advance ==
    ASSUME TypeOK, Once(todo), NEW t \in Threads, NEW q \in Seq(Op), q = todo[t], q # <<>>, Rest(q),
           q[1].op \in {"unref", "free"},
           NEW dead \in SUBSET Datas, dead \cap Frees(todo) = {}, NEW r, Advanced(q, dead, r)
    PROVE  /\ r \in Seq(Op) /\ Rest(r) /\ Once([todo EXCEPT ![t] = r])
           /\ LeftOf(q, dead, r) /\ OneDone(q, r)
<1>0. todo \in [Threads -> Seq(Op)]
  BY DEF TypeOK
<1>1. PICK b \in Seq(Op) : b = Tail(q)
  BY TailOf
<1>2. /\ Len(b) = Len(q) - 1 /\ DOMAIN b = 1 .. Len(q) - 1
      /\ \A i \in 1 .. Len(q) - 1 : b[i] = q[i + 1] /\ i + 1 \in DOMAIN q
      /\ Len(q) \in Nat \ {0} /\ DOMAIN q = 1 .. Len(q) /\ 1 \in DOMAIN q /\ q[1] \in Op
  BY <1>1, TailOf
<1>3. \A i \in DOMAIN q : q[i].op \notin {"destroy", "ref"}
  <2> SUFFICES ASSUME NEW i \in DOMAIN q, q[i].op \in {"destroy", "ref"} PROVE FALSE
    OBVIOUS
  <2>1. Len(q) = 1
    BY DEF Rest
  <2>2. i = 1
    BY <2>1, <1>2
  <2> QED  BY <2>2
<1> DEFINE n == IF dead = {} THEN 1 ELSE 0
<1>4. /\ r \in Seq(Op) /\ Len(r) = Len(q) - n
      /\ \A i \in DOMAIN r : \/ i = 1 /\ r[i].op = "free" /\ dead = {r[i].data}
                             \/ i + n \in DOMAIN q \ {1} /\ r[i] = q[i + n]
      /\ \A x \in Datas : Cardinality(Unrefs(r, x)) = Cardinality(Unrefs(Tail(q), x))
  <2>1. CASE dead = {} /\ r = Tail(q)
    <3>1. r = b /\ n = 1
      BY <2>1, <1>1
    <3>2. ASSUME NEW i \in DOMAIN r PROVE i + n \in DOMAIN q \ {1} /\ r[i] = q[i + n]
      BY <3>1, <1>2
    <3> QED  BY <2>1, <3>1, <3>2, <1>2
  <2>2. CASE \E x : dead = {x} /\ r = <<[op |-> "free", data |-> x]>> \o Tail(q)
    <3>1. PICK x : dead = {x} /\ r = <<[op |-> "free", data |-> x]>> \o Tail(q)
      BY <2>2
    <3>2. PICK e : e = [op |-> "free", data |-> x]
      OBVIOUS
    <3>3. x \in Datas /\ n = 0
      BY <3>1
    <3>4. e \in Op /\ e.op = "free" /\ e.data = x
      BY <3>2, <3>3 DEF Op
    <3>5. r = <<e>> \o Tail(q)
      BY <3>1, <3>2
    <3>6. /\ r \in Seq(Op) /\ Len(r) = Len(q) /\ DOMAIN r = DOMAIN q /\ r[1] = e
          /\ \A i \in DOMAIN q \ {1} : r[i] = q[i]
          /\ Tail(r) = Tail(q) /\ r # <<>>
      <4>1. LET s == <<e>> \o Tail(q)
            IN  /\ s \in Seq(Op) /\ Len(s) = Len(q) /\ DOMAIN s = DOMAIN q /\ s[1] = e
                /\ \A i \in DOMAIN q \ {1} : s[i] = q[i]
                /\ Tail(s) = Tail(q) /\ s # <<>>
        BY <3>4, FirstReplaced
      <4> QED  BY <4>1, <3>5
    <3>7. ASSUME NEW i \in DOMAIN r
          PROVE  \/ i = 1 /\ r[i].op = "free" /\ dead = {r[i].data}
                 \/ i + n \in DOMAIN q \ {1} /\ r[i] = q[i + n]
      <4>1. CASE i = 1
        BY <4>1, <3>1, <3>4, <3>6
      <4>2. CASE i # 1
        <5>1. i \in DOMAIN q \ {1} /\ i + n = i
          BY <4>2, <3>3, <3>6, <1>2
        <5> QED  BY <5>1, <3>6
      <4> QED  BY <4>1, <4>2
    <3>8. ASSUME NEW y \in Datas PROVE Cardinality(Unrefs(r, y)) = Cardinality(Unrefs(Tail(q), y))
      <4>1. Cardinality(Unrefs(r, y)) = Cardinality(Unrefs(Tail(r), y))
                                          + IF r[1].op = "unref" /\ r[1].data = y THEN 1 ELSE 0
        BY <3>6, UnrefsTail
      <4>2. Cardinality(Unrefs(b, y)) \in Nat
        BY UnrefsFinite
      <4>3. r[1].op # "unref"
        BY <3>4, <3>6
      <4>4. PICK c \in Nat : c = Cardinality(Unrefs(Tail(q), y))
        BY <4>2, <1>1
      <4>5. Cardinality(Unrefs(r, y)) = c + 0
        BY <4>1, <4>3, <4>4, <3>6
      <4> QED  BY <4>4, <4>5
    <3>9. Len(r) = Len(q) - n
      <4>1. n = 0
        BY <3>3
      <4>2. Len(r) = Len(q) /\ Len(q) \in Nat
        BY <3>6, <1>2
      <4> HIDE DEF n
      <4> QED  BY <4>1, <4>2
    <3> QED  BY <3>6, <3>7, <3>8, <3>9
  <2> QED  BY <2>1, <2>2 DEF Advanced
<1> HIDE DEF n
<1>5. n \in {0, 1} /\ \A i \in DOMAIN r : i \in Nat
  BY <1>4, LenProperties DEF n
<1>6. \A i \in DOMAIN r : \/ r[i].op = "free" /\ r[i].data \in dead
                          \/ \E k \in DOMAIN q \ {1} : r[i] = q[k]
  BY <1>4
<1>7. Rest(r)
  <2> SUFFICES ASSUME NEW i \in DOMAIN r
               PROVE  /\ r[i].op \notin {"destroy", "ref"}
                      /\ r[i].op = "gone" => i = Len(r)
                      /\ r[i].op = "copy" => \A k \in DOMAIN r : r[k].op \in {"free", "copy"}
    BY DEF Rest
  <2>1. r[i].op \notin {"destroy", "ref"}
    BY <1>3, <1>6
  <2>2. ASSUME r[i].op = "gone" PROVE i = Len(r)
    <3>1. i + n \in DOMAIN q /\ q[i + n].op = "gone"
      BY <2>2, <1>4
    <3>2. i + n = Len(q)
      BY <3>1 DEF Rest
    <3> QED  BY <3>2, <1>2, <1>4, <1>5
  <2>3. ASSUME r[i].op = "copy", NEW k \in DOMAIN r PROVE r[k].op \in {"free", "copy"}
    <3>1. \E m \in DOMAIN q : q[m].op = "copy"
      BY <2>3, <1>6
    <3>2. \A m \in DOMAIN q : q[m].op \in {"free", "copy"}
      BY <3>1 DEF Rest
    <3> QED  BY <3>2, <1>6
  <2> QED  BY <2>1, <2>2, <2>3
<1>8. ASSUME NEW u \in Threads, NEW k \in DOMAIN todo[u], todo[u][k].op = "free"
      PROVE  todo[u][k].data \notin dead
  <2>1. todo[u][k] \in Op
    BY TodoTypes
  <2>2. todo[u][k].data \in Datas
    BY <2>1, <1>8 DEF Op
  <2>3. todo[u][k].data \in Frees(todo)
    BY <2>2, <1>8 DEF Frees
  <2> QED  BY <2>3
<1>9. ASSUME NEW i \in DOMAIN r, NEW u \in Threads, NEW k \in DOMAIN todo[u],
             r[i].op = "free", dead = {r[i].data}
      PROVE  ~SameEnd(r[i], todo[u][k]) /\ ~SameEnd(todo[u][k], r[i])
  BY <1>8, <1>9 DEF SameEnd
<1>10. Once([todo EXCEPT ![t] = r])
  <2>1. ASSUME NEW i \in DOMAIN r, NEW k \in DOMAIN r, SameEnd(r[i], r[k]) PROVE i = k
    <3>1. CASE i = 1 /\ r[i].op = "free" /\ dead = {r[i].data}
      <4>1. CASE k = 1
        BY <3>1, <4>1
      <4>2. CASE k + n \in DOMAIN q /\ r[k] = q[k + n]
        BY <3>1, <4>2, <2>1, <1>9
      <4> QED  BY <4>1, <4>2, <1>4
    <3>2. CASE i + n \in DOMAIN q /\ r[i] = q[i + n]
      <4>1. CASE k = 1 /\ r[k].op = "free" /\ dead = {r[k].data}
        BY <3>2, <4>1, <2>1, <1>9
      <4>2. CASE k + n \in DOMAIN q /\ r[k] = q[k + n]
        <5>1. i + n = k + n
          BY <3>2, <4>2, <2>1 DEF Once
        <5> QED  BY <5>1, <1>5
      <4> QED  BY <4>1, <4>2, <1>4
    <3> QED  BY <3>1, <3>2, <1>4
  <2>2. ASSUME NEW u \in Threads \ {t}, NEW i \in DOMAIN r, NEW k \in DOMAIN todo[u]
        PROVE  ~SameEnd(r[i], todo[u][k])
    <3>1. CASE i = 1 /\ r[i].op = "free" /\ dead = {r[i].data}
      BY <3>1, <1>9
    <3>2. CASE i + n \in DOMAIN q /\ r[i] = q[i + n]
      BY <3>2 DEF Once
    <3> QED  BY <3>1, <3>2, <1>4
  <2> QED  BY <2>1, <2>2, <1>0, <1>4, OnceChange
<1>11. ASSUME NEW x \in Datas
       PROVE  Cardinality(Unrefs(q, x)) = Cardinality(Unrefs(r, x))
                                         + IF q[1].op = "unref" /\ q[1].data = x THEN 1 ELSE 0
  BY <1>4, UnrefsTail
<1> QED  BY <1>4, <1>6, <1>7, <1>10, <1>11 DEF LeftOf, OneDone

\* Owners when a thread has other work.
LEMMA AdvanceOwners ==
    ASSUME TypeOK, NEW t \in Threads, NEW r \in Seq(Op), NEW w, w = [todo EXCEPT ![t] = r], NEW x
    PROVE  /\ OwnersOf(list, todo, x) + Cardinality(Unrefs(r, x))
                = OwnersOf(list, w, x) + Cardinality(Unrefs(todo[t], x))
           /\ OwnersOf(list, w, x) \in Nat /\ OwnersOf(list, todo, x) \in Nat
           /\ Cardinality(Unrefs(r, x)) \in Nat /\ Cardinality(Unrefs(todo[t], x)) \in Nat
<1>1. todo \in [Threads -> Seq(Op)] /\ list \in [Dicts -> Seq(Pair)]
  BY DEF TypeOK
<1>2. /\ ThreadOwners(w, x) \in Nat /\ ThreadOwners(todo, x) \in Nat
      /\ Cardinality(Unrefs(todo[t], x)) \in Nat /\ Cardinality(Unrefs(r, x)) \in Nat
      /\ ThreadOwners(w, x) + Cardinality(Unrefs(todo[t], x))
           = ThreadOwners(todo, x) + Cardinality(Unrefs(r, x))
  BY <1>1, ThreadOwnersChange
<1>3. PICK a \in Nat, b \in Nat, c \in Nat, d \in Nat :
         /\ a = ThreadOwners(w, x) /\ b = ThreadOwners(todo, x)
         /\ c = Cardinality(Unrefs(r, x)) /\ d = Cardinality(Unrefs(todo[t], x))
  BY <1>2
<1>4. a + d = b + c
  BY <1>2, <1>3
<1>6. PairOwners(list, x) \in Nat
  BY <1>1, PairOwnersNat
<1>7. PICK p \in Nat : p = PairOwners(list, x)
  BY <1>6
<1>8. OwnersOf(list, todo, x) = p + b /\ OwnersOf(list, w, x) = p + a
  BY <1>3, <1>7 DEF OwnersOf
<1>9. p \in Nat /\ a \in Nat /\ b \in Nat /\ c \in Nat /\ d \in Nat
  BY <1>3, <1>7
<1>10. (p + b) + c = (p + a) + d
  BY <1>4, <1>9
<1> QED  BY <1>3, <1>8, <1>9, <1>10, SMTT(30)

\* The owners of a value are a number.
LEMMA OwnersNat ==
    ASSUME TypeOK, NEW x
    PROVE  OwnersOf(list, todo, x) \in Nat
<1>1. PairOwners(list, x) \in Nat /\ ThreadOwners(todo, x) \in Nat
  BY PairOwnersNat, ThreadOwnersNat DEF TypeOK
<1> QED  BY <1>1 DEF OwnersOf

\* A free that a call has to make is of a value about to be freed.
LEMMA FreesOf ==
    ASSUME TypeOK, NEW t \in Threads, NEW k \in DOMAIN todo[t], todo[t][k].op = "free"
    PROVE  todo[t][k].data \in Frees(todo)
<1>1. todo[t][k] \in Op
  BY TodoTypes
<1>2. todo[t][k].data \in Datas
  BY <1>1 DEF Op
<1> QED  BY <1>2 DEF Frees

\* The owners of a value when thread t has other work.
Shifted(w, r, x, t) ==
    /\ OwnersOf(list, todo, x) + Cardinality(Unrefs(r, x))
         = OwnersOf(list, w, x) + Cardinality(Unrefs(todo[t], x))
    /\ OwnersOf(list, w, x) \in Nat /\ OwnersOf(list, todo, x) \in Nat
    /\ Cardinality(Unrefs(r, x)) \in Nat /\ Cardinality(Unrefs(todo[t], x)) \in Nat

\* That is so.
LEMMA AdvanceShifted ==
    ASSUME TypeOK, NEW t \in Threads, NEW r \in Seq(Op), NEW w, w = [todo EXCEPT ![t] = r], NEW x
    PROVE  Shifted(w, r, x, t)
BY AdvanceOwners DEF Shifted

\* A step of a thread on values, with what is left of its call.
LEMMA DataStepInv ==
    ASSUME DictInv, NEW t \in Threads, NEW r \in Seq(Op), Rest(r), Once([todo EXCEPT ![t] = r]),
           \A i \in DOMAIN r : Possible(state, refcount, held, maker, list, t, r[i]),
           UNCHANGED <<dictVars, pairVars>>, todo' = [todo EXCEPT ![t] = r],
           content' \in [Datas -> AllContents \cup {"free"}], refs' \in [Datas -> Nat],
           Values(list, todo', content', refs')
    PROVE  DictInv'
<1>0. /\ TypeOK /\ Lifecycle(state, refcount, held, maker, list)
      /\ \A e \in Dicts : Keyed(list[e], chain[e], count[e])
      /\ Work(state, refcount, held, maker, list, todo)
      /\ \A u \in Threads : Rest(todo[u])
  BY DEF DictInv
<1>1. /\ state' = state /\ refcount' = refcount /\ held' = held /\ maker' = maker
      /\ list' = list /\ chain' = chain /\ count' = count
  BY DEF dictVars, pairVars
<1>2. todo \in [Threads -> Seq(Op)]
  BY <1>0 DEF TypeOK
<1>3. /\ todo' \in [Threads -> Seq(Op)]
      /\ todo'[t] = r /\ \A u \in Threads \ {t} : todo'[u] = todo[u]
  BY <1>2
<1>4. TypeOK'
  BY <1>0, <1>1, <1>3 DEF TypeOK
<1>5. Work(state', refcount', held', maker', list', todo')
  <2> SUFFICES ASSUME NEW u \in Threads, NEW i \in DOMAIN todo'[u]
               PROVE  Possible(state, refcount, held, maker, list, u, todo'[u][i])
    BY <1>1 DEF Work
  <2>1. CASE u = t
    BY <2>1, <1>3
  <2>2. CASE u # t
    BY <2>2, <1>0, <1>3 DEF Work
  <2> QED  BY <2>1, <2>2
<1>6. \A u \in Threads : Rest(todo'[u])
  BY <1>0, <1>3
<1>7. Once(todo') /\ Values(list', todo', content', refs')
  BY <1>1
<1> QED  BY <1>0, <1>1, <1>4, <1>5, <1>6, <1>7 DEF DictInv

\* The operations that are left are still to be made, and no others but frees.
LEMMA LeftPossible ==
    ASSUME DictInv, NEW t \in Threads, NEW r,
           \A i \in DOMAIN r : r[i].op = "free" \/ \E k \in DOMAIN todo[t] : r[i] = todo[t][k]
    PROVE  \A i \in DOMAIN r : Possible(state, refcount, held, maker, list, t, r[i])
<1> SUFFICES ASSUME NEW i \in DOMAIN r PROVE Possible(state, refcount, held, maker, list, t, r[i])
  OBVIOUS
<1>1. CASE r[i].op = "free"
  BY <1>1 DEF Possible
<1>2. CASE \E k \in DOMAIN todo[t] : r[i] = todo[t][k]
  <2>1. Work(state, refcount, held, maker, list, todo)
    BY DEF DictInv
  <2> QED  BY <2>1, <1>2 DEF Work
<1> QED  BY <1>1, <1>2

\* data_unref: one owner less, and a free to make when it was the last.
LEMMA DataUnrefInv ==
    ASSUME DictInv, NEW t \in Threads, DataUnref(t)
    PROVE  DictInv'
<1>0. /\ TypeOK /\ Values(list, todo, content, refs) /\ Once(todo) /\ Rest(todo[t])
      /\ todo \in [Threads -> Seq(Op)] /\ content \in [Datas -> AllContents \cup {"free"}]
      /\ refs \in [Datas -> Nat]
  BY DEF DictInv, TypeOK
<1>1. PICK q \in Seq(Op) : q = todo[t]
  BY <1>0
<1>2. q # <<>> /\ q[1].op = "unref" /\ UNCHANGED <<dictVars, pairVars>> /\ content' = content
  BY <1>1 DEF DataUnref
<1>3. 1 \in DOMAIN q /\ q[1] \in Op /\ Tail(q) \in Seq(Op)
  BY <1>2, TailOf
<1>4. PICK x \in Datas : x = q[1].data
  BY <1>2, <1>3 DEF Op
<1> DEFINE e == [op |-> "free", data |-> x]
           dead == IF refs[x] = 1 THEN {x} ELSE {}
           r == IF refs[x] = 1 THEN <<e>> \o Tail(q) ELSE Tail(q)
<1>5. refs' = [refs EXCEPT ![x] = @ - 1]
  BY <1>1, <1>4 DEF DataUnref, data_unref
<1>6. todo' = [todo EXCEPT ![t] = r]
  <2>1. PICK gone : gone = IF refs[x] = 1 THEN Append(<<>>, x) ELSE <<>>
    OBVIOUS
  <2>2. todo' = [todo EXCEPT ![t] = [i \in DOMAIN gone |-> [op |-> "free", data |-> x]] \o Tail(@)]
    BY <2>1, <1>1, <1>4 DEF DataUnref, data_unref
  <2>3. [i \in DOMAIN gone |-> [op |-> "free", data |-> x]] \o Tail(q) = r
    <3>1. CASE refs[x] = 1
      <4>1. gone = <<x>>
        BY <2>1, <3>1
      <4>2. PICK f : f = e
        OBVIOUS
      <4>3. [i \in DOMAIN gone |-> f] = <<f>>
        BY <4>1
      <4> QED  BY <3>1, <4>2, <4>3
    <3>2. CASE refs[x] # 1
      <4>1. gone = <<>>
        BY <2>1, <3>2
      <4>2. [i \in DOMAIN gone |-> [op |-> "free", data |-> x]] = <<>>
        BY <4>1
      <4>3. PICK b \in Seq(Op) : b = Tail(q)
        BY <1>3
      <4>4. <<>> \o b = b
        BY ConcatEmptySeq
      <4> QED  BY <3>2, <4>2, <4>3, <4>4
    <3> QED  BY <3>1, <3>2
  <2> HIDE DEF r
  <2> QED  BY <2>2, <2>3, <1>0, <1>1
<1>7. Cardinality(Unrefs(q, x)) = Cardinality(Unrefs(Tail(q), x)) + 1
  BY <1>2, <1>4, UnrefsTail
<1>8. OwnersOf(list, todo, x) > 0 /\ OwnersOf(list, todo, x) \in Nat
  <2>1. /\ Cardinality(Unrefs(q, x)) <= ThreadOwners(todo, x) /\ ThreadOwners(todo, x) \in Nat
    BY <1>0, <1>1, ThreadOwnersChange
  <2>2. Cardinality(Unrefs(Tail(q), x)) \in Nat
    BY <1>3, UnrefsFinite
  <2>3. PairOwners(list, x) \in Nat
    BY <1>0, PairOwnersNat DEF TypeOK
  <2> QED  BY <2>1, <2>2, <2>3, <1>7 DEF OwnersOf
<1>9. content[x] # "free" /\ refs[x] = OwnersOf(list, todo, x) /\ x \notin Frees(todo)
  BY <1>0, <1>8 DEF Values
<1>10. dead \in SUBSET Datas /\ dead \cap Frees(todo) = {}
  BY <1>9
<1>11. Advanced(q, dead, r)
  BY DEF Advanced
<1>12. \A y \in dead : y = x /\ refs[x] = 1
  OBVIOUS
<1> HIDE DEF r, dead
<1>13. /\ r \in Seq(Op) /\ Rest(r) /\ Once([todo EXCEPT ![t] = r])
       /\ LeftOf(q, dead, r) /\ OneDone(q, r)
  <2>1. /\ TypeOK /\ Once(todo) /\ q = todo[t] /\ q # <<>> /\ Rest(q) /\ q[1].op \in {"unref", "free"}
        /\ dead \in SUBSET Datas /\ dead \cap Frees(todo) = {} /\ Advanced(q, dead, r)
    BY <1>0, <1>1, <1>2, <1>10, <1>11
  <2> QED  BY <1>1, <2>1, Advance
<1>14. \A i \in DOMAIN r : Possible(state, refcount, held, maker, list, t, r[i])
  BY <1>1, <1>13, LeftPossible DEF LeftOf
<1>15. Frees(todo') \subseteq Frees(todo) \cup dead
  <2>1. \A i \in DOMAIN r : r[i].op = "free" => r[i].data \in Frees(todo) \cup dead
    <3>1. \A k \in DOMAIN q : q[k].op = "free" => q[k].data \in Frees(todo)
      BY <1>0, <1>1, FreesOf
    <3> QED  BY <3>1, <1>13 DEF LeftOf
  <2>2. Frees([todo EXCEPT ![t] = r]) \subseteq Frees(todo) \cup (Frees(todo) \cup dead)
    BY <2>1, <1>0, <1>13, FreesChange
  <2> QED  BY <2>2, <1>6
<1>16. ASSUME NEW y \in Datas
       PROVE  OwnersOf(list, todo', y) = OwnersOf(list, todo, y) - (IF x = y THEN 1 ELSE 0)
  <2>1. PICK w : w = [todo EXCEPT ![t] = r]
    OBVIOUS
  <2>2. /\ OwnersOf(list, todo, y) + Cardinality(Unrefs(r, y))
             = OwnersOf(list, w, y) + Cardinality(Unrefs(todo[t], y))
        /\ OwnersOf(list, w, y) \in Nat /\ OwnersOf(list, todo, y) \in Nat
        /\ Cardinality(Unrefs(r, y)) \in Nat
    <3>1. TypeOK /\ r \in Seq(Op)
      BY <1>0, <1>13
    <3>2. Shifted(w, r, y, t)
      BY <2>1, <3>1, AdvanceShifted
    <3> QED  BY <3>2 DEF Shifted
  <2>3. Cardinality(Unrefs(todo[t], y)) = Cardinality(Unrefs(r, y)) + IF x = y THEN 1 ELSE 0
    BY <1>1, <1>2, <1>4, <1>13 DEF OneDone
  <2>4. PICK a \in Nat, b \in Nat, c \in Nat :
           a = OwnersOf(list, todo, y) /\ b = OwnersOf(list, w, y) /\ c = Cardinality(Unrefs(r, y))
    BY <2>2
  <2>5. a + c = b + (c + IF x = y THEN 1 ELSE 0)
    BY <2>2, <2>3, <2>4
  <2>6. b = a - (IF x = y THEN 1 ELSE 0)
    <3>1. a \in Nat /\ b \in Nat /\ c \in Nat
      BY <2>4
    <3> QED  BY <3>1, <2>5
  <2> QED  BY <2>1, <2>4, <2>6, <1>6
<1>17. /\ refs' \in [Datas -> Nat] /\ refs'[x] = refs[x] - 1
       /\ \A y \in Datas \ {x} : refs'[y] = refs[y]
  <2>1. refs[x] - 1 \in Nat
    BY <1>8, <1>9
  <2> QED  BY <2>1, <1>0, <1>5
<1>18. Values(list, todo', content', refs')
  <2>1. ASSUME NEW y \in Datas
        PROVE  IF content'[y] = "free" THEN OwnersOf(list, todo', y) = 0
                                       ELSE refs'[y] = OwnersOf(list, todo', y)
    <3>1. CASE y = x
      BY <3>1, <1>2, <1>8, <1>9, <1>16, <1>17
    <3>2. CASE y # x
      <4>1. OwnersOf(list, todo', y) = OwnersOf(list, todo, y)
        <5>1. OwnersOf(list, todo, y) \in Nat
          BY <1>0, OwnersNat
        <5> QED  BY <5>1, <3>2, <1>16
      <4> QED  BY <4>1, <3>2, <1>0, <1>2, <1>17 DEF Values
    <3> QED  BY <3>1, <3>2
  <2>2. ASSUME NEW y \in Frees(todo') PROVE content'[y] # "free" /\ OwnersOf(list, todo', y) = 0
    <3>1. CASE y \in dead
      BY <3>1, <1>2, <1>9, <1>12, <1>16
    <3>2. CASE y \in Frees(todo)
      <4>1. y # x /\ y \in Datas
        BY <3>2, <1>9 DEF Frees
      <4>2. content[y] # "free" /\ OwnersOf(list, todo, y) = 0
        BY <3>2, <1>0 DEF Values
      <4>3. OwnersOf(list, todo', y) = 0
        BY <4>1, <4>2, <1>16
      <4> QED  BY <4>2, <4>3, <1>2
    <3> QED  BY <3>1, <3>2, <1>15
  <2> QED  BY <2>1, <2>2 DEF Values
<1> QED  BY <1>0, <1>2, <1>6, <1>13, <1>14, <1>17, <1>18, DataStepInv

\* data_destroy: the value has no owner, and nobody else is to free it.
LEMMA DataDestroyInv ==
    ASSUME DictInv, NEW t \in Threads, data_destroy(t)
    PROVE  DictInv'
<1>0. /\ TypeOK /\ Values(list, todo, content, refs) /\ Once(todo) /\ Rest(todo[t])
      /\ todo \in [Threads -> Seq(Op)] /\ content \in [Datas -> AllContents \cup {"free"}]
      /\ refs \in [Datas -> Nat]
  BY DEF DictInv, TypeOK
<1>1. PICK q \in Seq(Op) : q = todo[t]
  BY <1>0
<1>2. q # <<>> /\ q[1].op = "free" /\ UNCHANGED <<dictVars, pairVars>> /\ refs' = refs
  BY <1>1 DEF data_destroy
<1>3. 1 \in DOMAIN q /\ q[1] \in Op
  BY <1>2, TailOf
<1>4. PICK x \in Datas : x = q[1].data
  BY <1>2, <1>3 DEF Op
<1>5. PICK r \in Seq(Op) : r = Tail(q)
  BY <1>2, TailOf
<1>6. content' = [content EXCEPT ![x] = "free"] /\ todo' = [todo EXCEPT ![t] = r]
  BY <1>0, <1>1, <1>4, <1>5 DEF data_destroy
<1>7. x \in Frees(todo)
  BY <1>0, <1>1, <1>2, <1>3, <1>4, FreesOf
<1>8. content[x] # "free" /\ OwnersOf(list, todo, x) = 0
  BY <1>0, <1>7 DEF Values
<1>9. PICK dead : dead = {}
  OBVIOUS
<1>10. /\ Rest(r) /\ Once([todo EXCEPT ![t] = r]) /\ LeftOf(q, dead, r) /\ OneDone(q, r)
  <2>1. /\ TypeOK /\ Once(todo) /\ q = todo[t] /\ q # <<>> /\ Rest(q) /\ q[1].op \in {"unref", "free"}
        /\ dead \in SUBSET Datas /\ dead \cap Frees(todo) = {}
    BY <1>0, <1>1, <1>2, <1>9
  <2>2. Advanced(q, dead, r)
    BY <1>5, <1>9 DEF Advanced
  <2> QED  BY <2>1, <2>2, Advance
<1>11. \A i \in DOMAIN r : Possible(state, refcount, held, maker, list, t, r[i])
  BY <1>1, <1>10, LeftPossible DEF LeftOf
<1>12. \A y \in Frees(todo') : y \in Frees(todo) /\ y # x
  <2> SUFFICES ASSUME NEW y \in Datas, NEW u \in Threads, NEW i \in DOMAIN todo'[u],
                      todo'[u][i].op = "free", todo'[u][i].data = y
               PROVE  y \in Frees(todo) /\ y # x
    BY DEF Frees
  <2>1. PICK k \in DOMAIN todo[u] : todo'[u][i] = todo[u][k] /\ (u = t => k # 1)
    <3>1. CASE u = t
      <4>1. todo'[u] = r
        BY <3>1, <1>0, <1>6
      <4>2. \E k \in DOMAIN q \ {1} : r[i] = q[k]
        BY <4>1, <1>9, <1>10 DEF LeftOf
      <4> QED  BY <4>1, <4>2, <3>1, <1>1
    <3>2. CASE u # t
      BY <3>2, <1>0, <1>6
    <3> QED  BY <3>1, <3>2
  <2>2. y \in Frees(todo)
    BY <2>1, <1>0, FreesOf
  <2>3. ASSUME y = x PROVE FALSE
    <3>1. SameEnd(todo[u][k], todo[t][1])
      BY <2>1, <2>3, <1>1, <1>2, <1>4 DEF SameEnd
    <3> QED  BY <3>1, <2>1, <1>0, <1>1, <1>3 DEF Once
  <2> QED  BY <2>2, <2>3
<1>13. ASSUME NEW y \in Datas PROVE OwnersOf(list, todo', y) = OwnersOf(list, todo, y)
  <2>1. PICK w : w = [todo EXCEPT ![t] = r]
    OBVIOUS
  <2>2. Shifted(w, r, y, t)
    BY <2>1, <1>0, AdvanceShifted
  <2>3. Cardinality(Unrefs(r, y)) \in Nat
    BY <2>2 DEF Shifted
  <2>4. Cardinality(Unrefs(todo[t], y)) = Cardinality(Unrefs(r, y)) + 0
    BY <1>1, <1>2, <1>10 DEF OneDone
  <2>5. PICK a \in Nat, b \in Nat, c \in Nat :
           a = OwnersOf(list, todo, y) /\ b = OwnersOf(list, w, y) /\ c = Cardinality(Unrefs(r, y))
    BY <2>2 DEF Shifted
  <2>6. a + c = b + (c + 0)
    BY <2>2, <2>4, <2>5 DEF Shifted
  <2>7. a = b
    <3>1. a \in Nat /\ b \in Nat /\ c \in Nat
      BY <2>5
    <3> QED  BY <3>1, <2>6
  <2> QED  BY <2>1, <2>5, <2>7, <1>6
<1>14. /\ content' \in [Datas -> AllContents \cup {"free"}] /\ content'[x] = "free"
       /\ \A y \in Datas \ {x} : content'[y] = content[y]
  BY <1>0, <1>6
<1>15. Values(list, todo', content', refs')
  <2>1. ASSUME NEW y \in Datas
        PROVE  IF content'[y] = "free" THEN OwnersOf(list, todo', y) = 0
                                       ELSE refs'[y] = OwnersOf(list, todo', y)
    <3>1. CASE y = x
      BY <3>1, <1>8, <1>13, <1>14
    <3>2. CASE y # x
      <4>1. content'[y] = content[y] /\ refs'[y] = refs[y]
        BY <3>2, <1>2, <1>14
      <4> QED  BY <4>1, <1>0, <1>13 DEF Values
    <3> QED  BY <3>1, <3>2
  <2>2. ASSUME NEW y \in Frees(todo') PROVE content'[y] # "free" /\ OwnersOf(list, todo', y) = 0
    <3>1. y \in Frees(todo) /\ y # x /\ y \in Datas
      BY <1>12 DEF Frees
    <3>2. content[y] # "free" /\ OwnersOf(list, todo, y) = 0
      BY <3>1, <1>0 DEF Values
    <3> QED  BY <3>1, <3>2, <1>13, <1>14
  <2> QED  BY <2>1, <2>2 DEF Values
<1>16. refs' \in [Datas -> Nat]
  BY <1>0, <1>2
<1> QED  BY <1>2, <1>6, <1>10, <1>11, <1>14, <1>15, <1>16, DataStepInv

\* data_ref of a getter: the value of the pair lives, since the pair is there.
LEMMA DataRefInv ==
    ASSUME DictInv, NEW t \in Threads, DataRef(t)
    PROVE  DictInv'
<1>0. /\ TypeOK /\ Values(list, todo, content, refs) /\ Once(todo) /\ Rest(todo[t])
      /\ todo \in [Threads -> Seq(Op)] /\ content \in [Datas -> AllContents \cup {"free"}]
      /\ refs \in [Datas -> Nat] /\ list \in [Dicts -> Seq(Pair)]
      /\ Work(state, refcount, held, maker, list, todo)
  BY DEF DictInv, TypeOK
<1>1. PICK q \in Seq(Op) : q = todo[t]
  BY <1>0
<1>2. q # <<>> /\ q[1].op = "ref" /\ UNCHANGED <<dictVars, pairVars>> /\ content' = content
  BY <1>1 DEF DataRef
<1>3. 1 \in DOMAIN q /\ q[1] \in Op /\ DOMAIN q = 1 .. Len(q)
  BY <1>2, TailOf
<1>4. PICK d \in Dicts : d = q[1].dict
  BY <1>2, <1>3 DEF Op
<1>5. PICK k \in Keys : k = q[1].key
  BY <1>2, <1>3 DEF Op
<1>6. Len(q) = 1
  BY <1>0, <1>1, <1>2, <1>3 DEF Rest
<1>7. \E i \in DOMAIN list[d] : list[d][i].key = k
  <2>1. Possible(state, refcount, held, maker, list, t, q[1])
    BY <1>0, <1>1, <1>3 DEF Work
  <2>2. \E p \in Range(list[d]) : p.key = k
    BY <2>1, <1>2, <1>4, <1>5 DEF Possible
  <2> QED  BY <2>2 DEF Range
<1>8. PICK i \in DOMAIN list[d] : i = Position(Store(d), k)
  BY <1>7 DEF Position, Store
<1>9. PICK x \in Datas : x = list[d][i].value
  <2>1. list[d][i] \in Pair
    BY <1>0, ElementOfSeq, LenProperties
  <2> QED  BY <2>1 DEF Pair
<1>10. Uses(list[d], x) > 0 /\ Uses(list[d], x) \in Nat
  BY <1>0, <1>9, UsedValue
<1>11. OwnersOf(list, todo, x) > 0 /\ OwnersOf(list, todo, x) \in Nat
  <2>1. /\ Others(d) \in [Datas -> Nat] /\ OwnersOf(list, todo, x) \in Nat
        /\ Others(d)[x] + Uses(list[d], x) = OwnersOf(list, todo, x)
    BY <1>0, OthersNat
  <2>2. PICK a \in Nat, b \in Nat, c \in Nat :
           a = Others(d)[x] /\ b = Uses(list[d], x) /\ c = OwnersOf(list, todo, x)
    BY <2>1, <1>10
  <2>3. a + b = c /\ b > 0
    BY <2>1, <2>2, <1>10
  <2> QED  BY <2>1, <2>2, <2>3
<1>12. content[x] # "free" /\ refs[x] = OwnersOf(list, todo, x) /\ x \notin Frees(todo)
  BY <1>0, <1>11 DEF Values
<1>13. PICK e : e = [op |-> "unref", data |-> x]
  OBVIOUS
<1>14. e \in Op /\ e.op = "unref" /\ e.data = x
  BY <1>13 DEF Op
<1>15. PICK r \in Seq(Op) : r = <<e>>
  BY <1>14, Single
<1>16. /\ Len(r) = 1 /\ DOMAIN r = {1} /\ r[1] = e /\ \A m \in DOMAIN r : m = 1 /\ r[m] = e
  BY <1>14, <1>15, Single
<1>17. refs' = [refs EXCEPT ![x] = @ + 1] /\ todo' = [todo EXCEPT ![t] = r]
  BY <1>1, <1>4, <1>5, <1>8, <1>9, <1>13, <1>15 DEF DataRef, data_ref
<1>18. Rest(r)
  BY <1>14, <1>16 DEF Rest
<1>19. Once([todo EXCEPT ![t] = r])
  <2>1. \A m, n \in DOMAIN r : SameEnd(r[m], r[n]) => m = n
    BY <1>16
  <2>2. \A u \in Threads \ {t} : \A m \in DOMAIN r, n \in DOMAIN todo[u] : ~SameEnd(r[m], todo[u][n])
    BY <1>14, <1>16 DEF SameEnd
  <2> QED  BY <2>1, <2>2, <1>0, OnceChange
<1>20. \A m \in DOMAIN r : Possible(state, refcount, held, maker, list, t, r[m])
  BY <1>14, <1>16 DEF Possible
<1>21. Frees(todo') \subseteq Frees(todo)
  <2>1. \A m \in DOMAIN r : r[m].op = "free" => r[m].data \in {}
    BY <1>14, <1>16
  <2>2. Frees([todo EXCEPT ![t] = r]) \subseteq Frees(todo) \cup {}
    BY <2>1, <1>0, FreesChange
  <2> QED  BY <2>2, <1>17
<1>22. ASSUME NEW y \in Datas
       PROVE  OwnersOf(list, todo', y) = OwnersOf(list, todo, y) + (IF x = y THEN 1 ELSE 0)
  <2>1. PICK w : w = [todo EXCEPT ![t] = r]
    OBVIOUS
  <2>2. Shifted(w, r, y, t)
    BY <2>1, <1>0, AdvanceShifted
  <2>3. Cardinality(Unrefs(todo[t], y)) = 0
    <3>1. \A m \in DOMAIN q : m = 1
      BY <1>3, <1>6
    <3>2. \A m \in DOMAIN q : q[m].op # "unref"
      BY <3>1, <1>2
    <3> QED  BY <3>2, <1>1, NoUnrefs
  <2>4. Cardinality(Unrefs(r, y)) = IF x = y THEN 1 ELSE 0
    <3>1. CASE x = y
      <4>1. Unrefs(r, y) = {1}
        BY <3>1, <1>14, <1>16 DEF Unrefs
      <4> QED  BY <4>1, <3>1, FS_Singleton
    <3>2. CASE x # y
      <4>1. Unrefs(r, y) = {}
        BY <3>2, <1>14, <1>16 DEF Unrefs
      <4> QED  BY <4>1, <3>2, FS_EmptySet
    <3> QED  BY <3>1, <3>2
  <2>5. PICK a \in Nat, b \in Nat :
           a = OwnersOf(list, todo, y) /\ b = OwnersOf(list, w, y)
    BY <2>2 DEF Shifted
  <2>6. a + (IF x = y THEN 1 ELSE 0) = b + 0
    BY <2>2, <2>3, <2>4, <2>5 DEF Shifted
  <2>7. b = a + (IF x = y THEN 1 ELSE 0)
    <3>1. a \in Nat /\ b \in Nat
      BY <2>5
    <3> QED  BY <3>1, <2>6
  <2> QED  BY <2>1, <2>5, <2>7, <1>17
<1>23. /\ refs' \in [Datas -> Nat] /\ refs'[x] = refs[x] + 1
       /\ \A y \in Datas \ {x} : refs'[y] = refs[y]
  BY <1>0, <1>17
<1>24. Values(list, todo', content', refs')
  <2>1. ASSUME NEW y \in Datas
        PROVE  IF content'[y] = "free" THEN OwnersOf(list, todo', y) = 0
                                       ELSE refs'[y] = OwnersOf(list, todo', y)
    <3>1. CASE y = x
      BY <3>1, <1>2, <1>12, <1>22, <1>23
    <3>2. CASE y # x
      <4>1. OwnersOf(list, todo', y) = OwnersOf(list, todo, y)
        <5>1. OwnersOf(list, todo, y) \in Nat
          BY <1>0, OwnersNat
        <5> QED  BY <5>1, <3>2, <1>22
      <4> QED  BY <4>1, <3>2, <1>0, <1>2, <1>23 DEF Values
    <3> QED  BY <3>1, <3>2
  <2>2. ASSUME NEW y \in Frees(todo') PROVE content'[y] # "free" /\ OwnersOf(list, todo', y) = 0
    <3>1. y \in Frees(todo) /\ y # x /\ y \in Datas
      BY <1>12, <1>21 DEF Frees
    <3>2. content[y] # "free" /\ OwnersOf(list, todo, y) = 0
      BY <3>1, <1>0 DEF Values
    <3>3. OwnersOf(list, todo', y) = 0
      BY <3>1, <3>2, <1>22
    <3> QED  BY <3>2, <3>3, <1>2
  <2> QED  BY <2>1, <2>2 DEF Values
<1> QED  BY <1>2, <1>17, <1>18, <1>19, <1>20, <1>23, <1>24, <1>0, DataStepInv

\* The dict that a call ends is ended by no other call.
LEMMA NotEnding ==
    ASSUME DictInv, NEW t \in Threads, NEW k \in DOMAIN todo[t], todo[t][k].op \in {"destroy", "gone"}
    PROVE  ~Ending(todo, t, todo[t][k].dict)
<1> SUFFICES ASSUME NEW u \in Threads \ {t}, NEW i \in DOMAIN todo[u],
                    todo[u][i].op \in {"destroy", "gone"}, todo[u][i].dict = todo[t][k].dict
             PROVE  FALSE
  BY DEF Ending
<1>1. SameEnd(todo[u][i], todo[t][k])
  BY DEF SameEnd
<1> QED  BY <1>1 DEF DictInv, Once

\* The end of dict_destroy: nobody else ends the dict, nobody uses it.
LEMMA GoneInv ==
    ASSUME DictInv, NEW t \in Threads, Gone(t)
    PROVE  DictInv'
<1>0. /\ TypeOK /\ Values(list, todo, content, refs) /\ Once(todo) /\ Rest(todo[t])
      /\ Lifecycle(state, refcount, held, maker, list)
      /\ \A e \in Dicts : Keyed(list[e], chain[e], count[e])
      /\ Work(state, refcount, held, maker, list, todo)
      /\ \A u \in Threads : Rest(todo[u])
      /\ todo \in [Threads -> Seq(Op)] /\ state \in [Dicts -> {"free", "live", "dying"}]
  BY DEF DictInv, TypeOK
<1>1. PICK q \in Seq(Op) : q = todo[t]
  BY <1>0
<1>2. /\ q # <<>> /\ q[1].op = "gone"
      /\ refcount' = refcount /\ held' = held /\ maker' = maker
      /\ list' = list /\ chain' = chain /\ count' = count /\ content' = content /\ refs' = refs
  BY <1>1 DEF Gone, pairVars, dataVars
<1>3. 1 \in DOMAIN q /\ q[1] \in Op /\ DOMAIN q = 1 .. Len(q)
  BY <1>2, TailOf
<1>4. PICK d \in Dicts : d = q[1].dict
  BY <1>2, <1>3 DEF Op
<1>5. Len(q) = 1
  BY <1>0, <1>1, <1>2, <1>3 DEF Rest
<1>6. PICK r \in Seq(Op) : r = <<>>
  BY EmptySeq
<1>7. Tail(q) = r
  <2>1. Tail(q) \in Seq(Op) /\ Len(Tail(q)) = 0
    BY <1>2, <1>5, TailOf
  <2> QED  BY <2>1, <1>6, EmptySeq
<1>8. /\ state' = [state EXCEPT ![d] = "free"] /\ todo' = [todo EXCEPT ![t] = r]
  BY <1>0, <1>1, <1>4, <1>7 DEF Gone
<1>9. state[d] = "dying" /\ ~Ending(todo, t, d)
  <2>1. Possible(state, refcount, held, maker, list, t, q[1])
    BY <1>0, <1>1, <1>3 DEF Work
  <2>2. ~Ending(todo, t, todo[t][1].dict)
    BY <1>1, <1>2, <1>3, NotEnding
  <2> QED  BY <2>1, <2>2, <1>1, <1>2, <1>4 DEF Possible
<1>10. /\ state' \in [Dicts -> {"free", "live", "dying"}] /\ state'[d] = "free"
       /\ \A e \in Dicts \ {d} : state'[e] = state[e]
       /\ todo' \in [Threads -> Seq(Op)] /\ todo'[t] = r
       /\ \A u \in Threads \ {t} : todo'[u] = todo[u]
  BY <1>0, <1>8
<1>11. TypeOK'
  BY <1>0, <1>2, <1>10 DEF TypeOK
<1>12. Lifecycle(state', refcount', held', maker', list')
  <2>1. \A e \in Dicts : state'[e] # "live" => state[e] # "live"
    BY <1>9, <1>10
  <2> QED  BY <2>1, <1>0, <1>2 DEF Lifecycle
<1>13. Values(list', todo', content', refs')
  <2>1. \A x \in Datas : Cardinality(Unrefs(r, x)) = Cardinality(Unrefs(todo[t], x))
    <3>1. \A m \in DOMAIN q : m = 1
      BY <1>3, <1>5
    <3>2. \A m \in DOMAIN todo[t] : todo[t][m].op # "unref"
      BY <3>1, <1>1, <1>2
    <3>3. \A m \in DOMAIN r : r[m].op # "unref"
      BY <1>6
    <3>4. \A x \in Datas : Cardinality(Unrefs(todo[t], x)) = 0
      BY <3>2, NoUnrefs
    <3>5. \A x \in Datas : Cardinality(Unrefs(r, x)) = 0
      BY <3>3, NoUnrefs
    <3> QED  BY <3>4, <3>5
  <2>2. \A i \in DOMAIN r : r[i].op = "free" => r[i].data \in Frees(todo)
    BY <1>6
  <2>3. Values(list, [todo EXCEPT ![t] = r], content, refs)
    BY <2>1, <2>2, <1>0, ValuesTodo
  <2> QED  BY <2>3, <1>2, <1>8
<1>14. Undisturbed(t, state', refcount', held', maker', list')
  <2>1. ASSUME NEW u \in Threads \ {t}, NEW e \in Dicts, Has(state, held, maker, u, e)
        PROVE  Has(state', held', maker', u, e) /\ list'[e] = list[e]
    <3>1. e # d
      BY <2>1, <1>9 DEF Has
    <3> QED  BY <3>1, <2>1, <1>2, <1>10 DEF Has
  <2>2. ASSUME NEW u \in Threads \ {t}, NEW e \in Dicts, Owns(state, refcount, held, maker, u, e)
        PROVE  Owns(state', refcount', held', maker', u, e)
    <3>1. e # d
      BY <2>2, <1>9 DEF Owns
    <3> QED  BY <3>1, <2>2, <1>2, <1>10 DEF Owns
  <2>3. \A e \in Dicts : Ending(todo, t, e) => state'[e] = state[e] /\ refcount'[e] = refcount[e]
                                               /\ maker'[e] = maker[e]
    BY <1>2, <1>9, <1>10
  <2> QED  BY <2>1, <2>2, <2>3 DEF Undisturbed
<1>15. Work(state', refcount', held', maker', list', todo')
  <2> SUFFICES ASSUME NEW u \in Threads, NEW i \in DOMAIN todo'[u]
               PROVE  Possible(state', refcount', held', maker', list', u, todo'[u][i])
    BY DEF Work
  <2>1. u # t
    BY <1>6, <1>10
  <2>2. \A v \in Threads \ {t} : \A k \in DOMAIN todo[v] :
           Possible(state', refcount', held', maker', list', v, todo[v][k])
    BY <1>0, <1>14, OthersWork
  <2> QED  BY <2>1, <2>2, <1>10
<1>16. Once(todo')
  <2>1. Once([todo EXCEPT ![t] = r])
    <3>1. \A i, k \in DOMAIN r : SameEnd(r[i], r[k]) => i = k
      BY <1>6
    <3>2. \A u \in Threads \ {t} : \A i \in DOMAIN r, k \in DOMAIN todo[u] : ~SameEnd(r[i], todo[u][k])
      BY <1>6
    <3> QED  BY <3>1, <3>2, <1>0, OnceChange
  <2> QED  BY <2>1, <1>8
<1>17. \A u \in Threads : Rest(todo'[u])
  BY <1>0, <1>6, <1>10 DEF Rest
<1>18. \A e \in Dicts : Keyed(list'[e], chain'[e], count'[e])
  BY <1>0, <1>2
<1> QED  BY <1>11, <1>12, <1>13, <1>15, <1>16, <1>17, <1>18 DEF DictInv

\* The work of dict_destroy: a data_unref for each pair, then the dict_t itself.
Given(l, d) == [i \in DOMAIN l |-> [op |-> "unref", data |-> l[i].value]]
                 \o <<[op |-> "gone", dict |-> d]>>

\* What that work consists of.
GivenBack(q, l, d) ==
    /\ q \in Seq(Op) /\ DOMAIN q = 1 .. Len(l) + 1 /\ Len(q) = Len(l) + 1
    /\ \A i \in DOMAIN l : i \in DOMAIN q /\ q[i].op = "unref" /\ q[i].data = l[i].value
    /\ q[Len(l) + 1].op = "gone" /\ q[Len(l) + 1].dict = d
    /\ \A i \in DOMAIN q : i \in DOMAIN l \/ i = Len(l) + 1

\* Given consists of that.
LEMMA GivenIs ==
    ASSUME NEW l \in Seq(Pair), NEW d \in Dicts
    PROVE  GivenBack(Given(l, d), l, d)
<1> DEFINE p == [i \in DOMAIN l |-> [op |-> "unref", data |-> l[i].value]]
<1>1. DOMAIN l = 1 .. Len(l) /\ Len(l) \in Nat /\ \A i \in DOMAIN l : l[i] \in Pair
  BY LenProperties, ElementOfSeq
<1>2. \A i \in DOMAIN l : p[i] \in Op /\ p[i].op = "unref" /\ p[i].data = l[i].value
  BY <1>1 DEF Op, Pair
<1>3. p \in Seq(Op) /\ Len(p) = Len(l) /\ DOMAIN p = DOMAIN l
  <2>1. DOMAIN p = 1 .. Len(l)
    BY <1>1
  <2>2. p \in [1 .. Len(l) -> Op]
    BY <1>1, <1>2
  <2> QED  BY <2>1, <2>2, <1>1, SeqDef, LenProperties
<1>4. PICK e : e = [op |-> "gone", dict |-> d]
  OBVIOUS
<1>5. e \in Op /\ e.op = "gone" /\ e.dict = d
  BY <1>4 DEF Op
<1>6. PICK s \in Seq(Op) : s = <<e>>
  BY <1>5, Single
<1>7. Len(s) = 1 /\ DOMAIN s = {1} /\ s[1] = e
  BY <1>5, <1>6, Single
<1>8. PICK a \in Seq(Op) : a = p
  BY <1>3
<1>9. a \o s = Given(l, d)
  BY <1>4, <1>6, <1>8 DEF Given
<1> HIDE DEF p
<1>10. /\ a \o s \in Seq(Op) /\ Len(a \o s) = Len(a) + Len(s)
       /\ DOMAIN (a \o s) = 1 .. Len(a) + Len(s)
       /\ \A i \in DOMAIN a : (a \o s)[i] = a[i]
       /\ \A i \in DOMAIN (a \o s) \ DOMAIN a : i - Len(a) \in DOMAIN s /\ (a \o s)[i] = s[i - Len(a)]
  BY Joined
<1>11. PICK q \in Seq(Op) : q = Given(l, d)
  BY <1>9, <1>10
<1>12. /\ DOMAIN q = 1 .. Len(l) + 1 /\ Len(q) = Len(l) + 1
       /\ \A i \in DOMAIN l : i \in DOMAIN q /\ q[i] = p[i]
       /\ \A i \in DOMAIN q : i \in DOMAIN l \/ i = Len(l) + 1
  BY <1>1, <1>3, <1>7, <1>8, <1>9, <1>10, <1>11
<1>13. q[Len(l) + 1] = e
  <2>1. Len(l) + 1 \in DOMAIN q \ DOMAIN a
    BY <1>1, <1>3, <1>8, <1>12
  <2>2. Len(a) = Len(l) /\ (Len(l) + 1) - Len(l) = 1
    BY <1>1, <1>3, <1>8
  <2>3. q[Len(l) + 1] = s[(Len(l) + 1) - Len(a)]
    BY <2>1, <1>9, <1>10, <1>11
  <2> QED  BY <2>2, <2>3, <1>7
<1> QED  BY <1>2, <1>5, <1>11, <1>12, <1>13 DEF GivenBack

\* It gives back the references of the pairs.
LEMMA GivenUses ==
    ASSUME NEW l \in Seq(Pair), \A i, j \in DOMAIN l : l[i].key = l[j].key => i = j,
           NEW d, NEW q, GivenBack(q, l, d), NEW x
    PROVE  Cardinality(Unrefs(q, x)) = Uses(l, x)
<1> DEFINE S == Unrefs(q, x)
           T == Of(Range(l), x)
           f == [i \in S |-> l[i]]
<1>1. ASSUME NEW i \in S PROVE i \in DOMAIN l /\ l[i].value = x
  BY <1>1 DEF GivenBack, Unrefs
<1>2. f \in [S -> T]
  BY <1>1 DEF Of, Range
<1>3. \A a, b \in S : f[a] = f[b] => a = b
  BY <1>1
<1>4. ASSUME NEW c \in T PROVE \E a \in S : f[a] = c
  <2>1. PICK a \in DOMAIN l : l[a] = c /\ c.value = x
    BY DEF Of, Range
  <2>2. a \in S
    BY <2>1 DEF GivenBack, Unrefs
  <2> QED  BY <2>1, <2>2
<1>5. IsFiniteSet(S)
  BY UnrefsFinite DEF GivenBack
<1> HIDE DEF S, T, f
<1>6. Cardinality(T) = Cardinality(S)
  BY <1>2, <1>3, <1>4, <1>5, SameNumber
<1> QED  BY <1>6 DEF S, T, Uses

\* dict_destroy: the references of the pairs become unreferences to make.
LEMMA DestroyInv ==
    ASSUME DictInv, NEW t \in Threads, Destroy(t)
    PROVE  DictInv'
<1>0. /\ TypeOK /\ Values(list, todo, content, refs) /\ Once(todo) /\ Rest(todo[t])
      /\ Lifecycle(state, refcount, held, maker, list)
      /\ \A e \in Dicts : Keyed(list[e], chain[e], count[e])
      /\ Work(state, refcount, held, maker, list, todo)
      /\ \A u \in Threads : Rest(todo[u])
      /\ todo \in [Threads -> Seq(Op)] /\ state \in [Dicts -> {"free", "live", "dying"}]
      /\ list \in [Dicts -> Seq(Pair)] /\ held \in [Threads -> [Dicts -> Nat]]
      /\ refcount \in [Dicts -> Nat]
  BY DEF DictInv, TypeOK
<1>1. PICK q \in Seq(Op) : q = todo[t]
  BY <1>0
<1>2. /\ q # <<>> /\ q[1].op = "destroy"
      /\ refcount' = refcount /\ held' = held /\ maker' = maker /\ content' = content /\ refs' = refs
  BY <1>1 DEF Destroy, dataVars
<1>3. 1 \in DOMAIN q /\ q[1] \in Op /\ DOMAIN q = 1 .. Len(q)
  BY <1>2, TailOf
<1>4. PICK d \in Dicts : d = q[1].dict
  BY <1>2, <1>3 DEF Op
<1>5. Len(q) = 1 /\ \A m \in DOMAIN q : m = 1
  <2>1. Len(q) = 1
    BY <1>0, <1>1, <1>2, <1>3 DEF Rest
  <2> QED  BY <2>1, <1>3
<1>6. PICK l \in Seq(Pair) : l = list[d]
  BY <1>0
<1>7. Len(l) \in Nat /\ DOMAIN l = 1 .. Len(l)
  BY LenProperties
<1>8. PICK r \in Seq(Op) : r = Given(l, d)
  BY GivenIs DEF GivenBack
<1>9. GivenBack(r, l, d)
  BY <1>8, GivenIs
<1>24. \A i \in DOMAIN r : /\ r[i].op \in {"unref", "gone"}
                           /\ r[i].op = "gone" => i = Len(l) + 1 /\ r[i].dict = d
  BY <1>9 DEF GivenBack
<1>10. /\ state' = [state EXCEPT ![d] = "dying"] /\ list' = [list EXCEPT ![d] = <<>>]
       /\ chain' = [chain EXCEPT ![d] = [h \in 0 .. HashSize - 1 |-> <<>>]]
       /\ count' = [count EXCEPT ![d] = 0] /\ todo' = [todo EXCEPT ![t] = r]
  BY <1>1, <1>4, <1>6, <1>8 DEF Destroy, Given
<1>11. /\ state[d] = "live" /\ refcount[d] = 0 /\ maker[d] = NULL
       /\ ~Ending(todo, t, d)
  <2>1. Possible(state, refcount, held, maker, list, t, q[1])
    BY <1>0, <1>1, <1>3 DEF Work
  <2>2. ~Ending(todo, t, todo[t][1].dict)
    BY <1>1, <1>2, <1>3, NotEnding
  <2> QED  BY <2>1, <2>2, <1>1, <1>2, <1>4 DEF Possible
<1>12. \A u \in Threads : held[u][d] = 0
  <2> SUFFICES ASSUME NEW u \in Threads PROVE held[u][d] = 0
    OBVIOUS
  <2>1. References(held, d) = 0
    BY <1>0, <1>11 DEF Lifecycle
  <2>2. held[u][d] <= References(held, d) /\ held[u][d] \in Nat
    BY <1>0, ReferencesAtLeast
  <2> QED  BY <2>1, <2>2
<1>13. \A u \in Threads : ~Has(state, held, maker, u, d) /\ ~Owns(state, refcount, held, maker, u, d)
  <2>1. \A u \in Threads : u # NULL
    BY NullAssumption
  <2> QED  BY <2>1, <1>11, <1>12 DEF Has, Owns
<1>14. /\ state' \in [Dicts -> {"free", "live", "dying"}] /\ state'[d] = "dying"
       /\ \A e \in Dicts \ {d} : state'[e] = state[e]
       /\ todo' \in [Threads -> Seq(Op)] /\ todo'[t] = r
       /\ \A u \in Threads \ {t} : todo'[u] = todo[u]
  BY <1>0, <1>10
<1>15. /\ list' \in [Dicts -> Seq(Pair)] /\ list'[d] = <<>>
       /\ chain' \in [Dicts -> [0 .. HashSize - 1 -> Seq(Keys)]] /\ count' \in [Dicts -> Int]
       /\ chain'[d] = [h \in 0 .. HashSize - 1 |-> <<>>] /\ count'[d] = 0
       /\ \A e \in Dicts \ {d} : list'[e] = list[e] /\ chain'[e] = chain[e] /\ count'[e] = count[e]
  <2>1. PICK c \in [0 .. HashSize - 1 -> Seq(Keys)] : c = [h \in 0 .. HashSize - 1 |-> <<>>]
    BY KeyedEmpty
  <2>2. PICK m \in Seq(Pair) : m = <<>>
    BY KeyedEmpty
  <2>3. chain' = [chain EXCEPT ![d] = c] /\ list' = [list EXCEPT ![d] = m]
    BY <2>1, <2>2, <1>10
  <2> QED  BY <2>1, <2>2, <2>3, <1>0, <1>10 DEF TypeOK
<1>16. TypeOK'
  BY <1>0, <1>2, <1>14, <1>15 DEF TypeOK
<1>17. \A e \in Dicts : Keyed(list'[e], chain'[e], count'[e])
  <2>1. Keyed(list'[d], chain'[d], count'[d])
    BY <1>15, KeyedEmpty
  <2>2. \A e \in Dicts \ {d} : Keyed(list'[e], chain'[e], count'[e])
    BY <1>0, <1>15
  <2> QED  BY <2>1, <2>2
<1>18. Lifecycle(state', refcount', held', maker', list')
  <2>1. \A e \in Dicts \ {d} : state'[e] = state[e] /\ list'[e] = list[e]
    BY <1>14, <1>15
  <2> QED  BY <2>1, <1>0, <1>2, <1>11, <1>14, <1>15, SMTT(30) DEF Lifecycle
<1>19. ASSUME NEW x \in Datas PROVE OwnersOf(list', todo', x) = OwnersOf(list, todo, x)
  <2>1. PICK m \in Seq(Pair) : m = <<>>
    BY KeyedEmpty
  <2>2. PICK l2 : l2 = [list EXCEPT ![d] = m]
    OBVIOUS
  <2>3. PICK w : w = [todo EXCEPT ![t] = r]
    OBVIOUS
  <2>4. /\ PairOwners(list, x) \in Nat /\ PairOwners(l2, x) \in Nat
        /\ Uses(l, x) \in Nat
        /\ PairOwners(l2, x) + Uses(l, x) = PairOwners(list, x) + Cardinality(Of(Range(m), x))
    BY <2>2, <1>0, <1>6, PairOwnersChange, ZenonT(60) DEF Uses
  <2>5. Cardinality(Of(Range(m), x)) = 0
    <3>1. Of(Range(m), x) = {}
      BY <2>1 DEF Of, Range
    <3> QED  BY <3>1, FS_EmptySet
  <2>6. /\ ThreadOwners(todo, x) \in Nat /\ ThreadOwners(w, x) \in Nat
        /\ ThreadOwners(w, x) + Cardinality(Unrefs(todo[t], x))
             = ThreadOwners(todo, x) + Cardinality(Unrefs(r, x))
    BY <2>3, <1>0, ThreadOwnersChange
  <2>7. Cardinality(Unrefs(todo[t], x)) = 0
    <3>1. \A i \in DOMAIN q : q[i].op # "unref"
      BY <1>2, <1>5
    <3> QED  BY <3>1, <1>1, NoUnrefs
  <2>8. Cardinality(Unrefs(r, x)) = Uses(l, x)
    <3>1. \A i, j \in DOMAIN l : l[i].key = l[j].key => i = j
      BY <1>0, <1>6 DEF Keyed
    <3> QED  BY <3>1, <1>9, GivenUses
  <2>9. PICK a \in Nat, b \in Nat, c \in Nat :
           a = PairOwners(list, x) /\ b = PairOwners(l2, x) /\ c = Uses(l, x)
    BY <2>4
  <2>10. PICK g \in Nat, h \in Nat : g = ThreadOwners(todo, x) /\ h = ThreadOwners(w, x)
    BY <2>6
  <2>11. b + c = a + 0
    BY <2>4, <2>5, <2>9
  <2>12. h + 0 = g + c
    BY <2>6, <2>7, <2>8, <2>9, <2>10
  <2>13. b + h = a + g
    <3>1. a \in Nat /\ b \in Nat /\ c \in Nat /\ g \in Nat /\ h \in Nat
      BY <2>9, <2>10
    <3> QED  BY <3>1, <2>11, <2>12
  <2>14. OwnersOf(l2, w, x) = b + h /\ OwnersOf(list, todo, x) = a + g
    BY <2>9, <2>10 DEF OwnersOf
  <2>15. l2 = list' /\ w = todo'
    BY <2>1, <2>2, <2>3, <1>10
  <2> QED  BY <2>13, <2>14, <2>15
<1>20. Frees(todo') \subseteq Frees(todo)
  <2>1. \A m \in DOMAIN r : r[m].op = "free" => r[m].data \in {}
    BY <1>9 DEF GivenBack
  <2>2. Frees([todo EXCEPT ![t] = r]) \subseteq Frees(todo) \cup {}
    BY <2>1, <1>0, FreesChange
  <2> QED  BY <2>2, <1>10
<1>21. Values(list', todo', content', refs')
  <2>1. ASSUME NEW y \in Datas
        PROVE  IF content'[y] = "free" THEN OwnersOf(list', todo', y) = 0
                                       ELSE refs'[y] = OwnersOf(list', todo', y)
    BY <1>0, <1>2, <1>19 DEF Values
  <2>2. ASSUME NEW y \in Frees(todo') PROVE content'[y] # "free" /\ OwnersOf(list', todo', y) = 0
    <3>1. y \in Frees(todo) /\ y \in Datas
      BY <1>20 DEF Frees
    <3>2. content[y] # "free" /\ OwnersOf(list, todo, y) = 0
      BY <3>1, <1>0 DEF Values
    <3> QED  BY <3>1, <3>2, <1>2, <1>19
  <2> QED  BY <2>1, <2>2 DEF Values
<1>22. Undisturbed(t, state', refcount', held', maker', list')
  <2>1. ASSUME NEW u \in Threads \ {t}, NEW e \in Dicts, Has(state, held, maker, u, e)
        PROVE  Has(state', held', maker', u, e) /\ list'[e] = list[e]
    <3>1. e # d
      BY <2>1, <1>13
    <3> QED  BY <3>1, <2>1, <1>2, <1>14, <1>15 DEF Has
  <2>2. ASSUME NEW u \in Threads \ {t}, NEW e \in Dicts, Owns(state, refcount, held, maker, u, e)
        PROVE  Owns(state', refcount', held', maker', u, e)
    <3>1. e # d
      BY <2>2, <1>13
    <3> QED  BY <3>1, <2>2, <1>2, <1>14 DEF Owns
  <2>3. \A e \in Dicts : Ending(todo, t, e) => state'[e] = state[e] /\ refcount'[e] = refcount[e]
                                               /\ maker'[e] = maker[e]
    BY <1>2, <1>11, <1>14
  <2> QED  BY <2>1, <2>2, <2>3 DEF Undisturbed
<1>23. Work(state', refcount', held', maker', list', todo')
  <2> SUFFICES ASSUME NEW u \in Threads, NEW i \in DOMAIN todo'[u]
               PROVE  Possible(state', refcount', held', maker', list', u, todo'[u][i])
    BY DEF Work
  <2>1. CASE u = t
    <3>1. todo'[u] = r
      BY <2>1, <1>14
    <3>2. \A m \in DOMAIN r : Possible(state', refcount', held', maker', list', t, r[m])
      <4> SUFFICES ASSUME NEW m \in DOMAIN r
                   PROVE  Possible(state', refcount', held', maker', list', t, r[m])
        OBVIOUS
      <4>1. r[m].op = "unref" \/ (r[m].op = "gone" /\ r[m].dict = d)
        BY <1>24
      <4> QED  BY <4>1, <1>14 DEF Possible
    <3> QED  BY <2>1, <3>1, <3>2
  <2>2. CASE u # t
    <3>1. \A v \in Threads \ {t} : \A k \in DOMAIN todo[v] :
             Possible(state', refcount', held', maker', list', v, todo[v][k])
      BY <1>0, <1>22, OthersWork
    <3> QED  BY <2>2, <3>1, <1>14
  <2> QED  BY <2>1, <2>2
<1>25. Once(todo')
  <2>1. \A i, k \in DOMAIN r : SameEnd(r[i], r[k]) => i = k
    BY <1>24 DEF SameEnd
  <2>2. ASSUME NEW u \in Threads \ {t}, NEW i \in DOMAIN r, NEW k \in DOMAIN todo[u],
               SameEnd(r[i], todo[u][k])
        PROVE  FALSE
    <3>1. r[i].op = "gone" /\ todo[u][k].op \in {"destroy", "gone"} /\ todo[u][k].dict = d
      BY <2>2, <1>24 DEF SameEnd
    <3> QED  BY <3>1, <1>11 DEF Ending
  <2>3. Once([todo EXCEPT ![t] = r])
    BY <2>1, <2>2, <1>0, OnceChange
  <2> QED  BY <2>3, <1>10
<1>26. \A u \in Threads : Rest(todo'[u])
  <2>1. Len(r) = Len(l) + 1
    BY <1>9 DEF GivenBack
  <2>2. Rest(r)
    BY <2>1, <1>24 DEF Rest
  <2> QED  BY <2>2, <1>0, <1>14
<1> QED  BY <1>16, <1>17, <1>18, <1>21, <1>23, <1>25, <1>26 DEF DictInv

-----------------------------------------------------------------------------
(* The invariant holds, and the properties follow from it. *)

\* At the start there is no dict and no value.
LEMMA InitInv ==
    ASSUME Init
    PROVE  DictInv
<1>1. TypeOK
  <2>1. state \in [Dicts -> {"free", "live", "dying"}] /\ refcount \in [Dicts -> Nat]
    BY DEF Init
  <2>2. held \in [Threads -> [Dicts -> Nat]] /\ maker \in [Dicts -> Threads \cup {NULL}]
    BY DEF Init
  <2>3. PICK m \in Seq(Pair) : m = <<>>
    BY KeyedEmpty
  <2>4. PICK c \in [0 .. HashSize - 1 -> Seq(Keys)] : c = [h \in 0 .. HashSize - 1 |-> <<>>]
    BY KeyedEmpty
  <2>5. PICK q \in Seq(Op) : q = <<>>
    BY EmptySeq
  <2>6. list \in [Dicts -> Seq(Pair)]
    BY <2>3 DEF Init
  <2>7. chain \in [Dicts -> [0 .. HashSize - 1 -> Seq(Keys)]]
    BY <2>4 DEF Init
  <2>8. todo \in [Threads -> Seq(Op)]
    BY <2>5 DEF Init
  <2>9. count \in [Dicts -> Int] /\ refs \in [Datas -> Nat] /\ content \in [Datas -> AllContents \cup {"free"}]
    BY DEF Init
  <2> QED  BY <2>1, <2>2, <2>6, <2>7, <2>8, <2>9 DEF TypeOK
<1>2. /\ \A d \in Dicts : state[d] = "free" /\ refcount[d] = 0 /\ maker[d] = NULL /\ list[d] = <<>>
      /\ \A d \in Dicts : \A t \in Threads : held[t][d] = 0
      /\ \A d \in Dicts : chain[d] = [h \in 0 .. HashSize - 1 |-> <<>>] /\ count[d] = 0
      /\ \A x \in Datas : content[x] = "free"
      /\ \A t \in Threads : todo[t] = <<>> /\ DOMAIN todo[t] = {}
  BY DEF Init
<1>3. \A d \in Dicts : Keyed(list[d], chain[d], count[d])
  BY <1>2, KeyedEmpty
<1>4. Lifecycle(state, refcount, held, maker, list)
  <2>1. ASSUME NEW d \in Dicts PROVE References(held, d) = 0
    <3> DEFINE F == [t \in Threads |-> 1 .. held[t][d]]
    <3>1. \A t \in Threads : F[t] = {}
      BY <1>2
    <3>2. Tagged(F) = {}
      BY <3>1 DEF Tagged
    <3> QED  BY <3>2, FS_EmptySet DEF References
  <2> QED  BY <2>1, <1>2 DEF Lifecycle
<1>5. Values(list, todo, content, refs)
  <2>1. ASSUME NEW x \in Datas PROVE OwnersOf(list, todo, x) = 0
    <3> DEFINE F == [d \in Dicts |-> Of(Range(list[d]), x)]
               G == [t \in Threads |-> Unrefs(todo[t], x)]
    <3>1. \A d \in Dicts : F[d] = {}
      BY <1>2 DEF Of, Range
    <3>2. \A t \in Threads : G[t] = {}
      BY <1>2 DEF Unrefs
    <3>3. Tagged(F) = {} /\ Tagged(G) = {}
      BY <3>1, <3>2 DEF Tagged
    <3>4. PairOwners(list, x) = 0 /\ ThreadOwners(todo, x) = 0
      BY <3>3, FS_EmptySet DEF PairOwners, ThreadOwners
    <3> QED  BY <3>4 DEF OwnersOf
  <2>2. Frees(todo) = {}
    BY <1>2 DEF Frees
  <2> QED  BY <2>1, <2>2, <1>2 DEF Values
<1>6. Work(state, refcount, held, maker, list, todo) /\ Once(todo) /\ \A t \in Threads : Rest(todo[t])
  BY <1>2 DEF Work, Once, Rest
<1> QED  BY <1>1, <1>3, <1>4, <1>5, <1>6 DEF DictInv

\* Every step keeps the invariant.
LEMMA NextInv ==
    ASSUME DictInv, [Next]_vars
    PROVE  DictInv'
<1>1. CASE UNCHANGED vars
  BY <1>1, SameInv
<1>2. ASSUME NEW t \in Threads, Continue(t) PROVE DictInv'
  BY <1>2, DestroyInv, GoneInv, DataUnrefInv, DataDestroyInv, DataRefInv, CopyPairInv DEF Continue
<1>3. ASSUME NEW t \in Threads, NEW d \in Dicts, Call(t, d) PROVE DictInv'
  <2>1. CASE dict_new(t, d) \/ get_new_dict(t, d) \/ dict_unref(t, d) \/ dict_destroy(t, d)
    BY <2>1, DictNewInv, GetNewDictInv, DictUnrefInv, DictDestroyInv
  <2>2. CASE \E u \in Threads : dict_ref(t, u, d)
    BY <2>2, DictRefInv
  <2>3. CASE \E s \in Settings : dict_set(t, d, s.key, s.content)
    BY <2>3, DictSetInv
  <2>4. CASE (\E k \in Keys : dict_del(t, d, k)) \/ (\E k \in Keys : dict_get_with_ref(t, d, k))
    BY <2>4, DictDelInv, DictGetInv
  <2>5. CASE \E to \in Dicts : dict_copy(t, d, to)
    BY <2>5, DictCopyInv
  <2>6. CASE \E w \in Buffers, cut \in Cuts :
               Size(w) >= cut /\ dict_unserialize(t, d, w, Size(w) - cut)
    BY <2>6, DictUnserializeInv
  <2> QED  BY <2>1, <2>2, <2>3, <2>4, <2>5, <2>6, <1>3 DEF Call
<1> QED  BY <1>1, <1>2, <1>3 DEF Next

\* The inductive invariant holds.
LEMMA DictInvariant == Spec => []DictInv
BY InitInv, NextInv, PTL DEF Spec

\* Owners, in the terms of the invariant.
LEMMA OwnersAre ==
    ASSUME NEW x
    PROVE  Owners(x) = OwnersOf(list, todo, x)
BY DEF Owners, OwnersOf, PairOwners, ThreadOwners, Of, Unrefs

\* The counts of values and dicts are those of the owners.
LEMMA InvAccounted ==
    ASSUME DictInv
    PROVE  RefsAccounted
<1>1. Values(list, todo, content, refs) /\ Lifecycle(state, refcount, held, maker, list)
  BY DEF DictInv
<1>2. \A x \in Datas : IF content[x] = "free" THEN Owners(x) = 0 ELSE refs[x] = Owners(x)
  BY <1>1, OwnersAre DEF Values
<1>3. \A d \in Live : refcount[d] = Cardinality(Tagged([t \in Threads |-> 1 .. held[t][d]]))
  BY <1>1 DEF Lifecycle, Live, References
<1> QED  BY <1>2, <1>3 DEF RefsAccounted

\* Chains and list agree.
LEMMA InvChains ==
    ASSUME DictInv
    PROVE  ChainsMatchList
BY DEF DictInv, ChainsMatchList, Live, Keyed, KeysOf, Bucket

\* A thread that has an unreference to make is one of the owners.
LEMMA UnrefOwned ==
    ASSUME TypeOK, NEW t \in Threads, NEW i \in DOMAIN todo[t], todo[t][i].op = "unref"
    PROVE  OwnersOf(list, todo, todo[t][i].data) \in Nat /\ OwnersOf(list, todo, todo[t][i].data) > 0
<1>1. todo \in [Threads -> Seq(Op)] /\ list \in [Dicts -> Seq(Pair)]
  BY DEF TypeOK
<1>2. PICK q \in Seq(Op) : q = todo[t]
  BY <1>1
<1>3. PICK x : x = todo[t][i].data
  OBVIOUS
<1>4. IsFiniteSet(Unrefs(q, x)) /\ Cardinality(Unrefs(q, x)) \in Nat
  BY UnrefsFinite
<1>5. i \in Unrefs(q, x)
  BY <1>2, <1>3 DEF Unrefs
<1>6. Cardinality(Unrefs(q, x)) # 0
  BY <1>4, <1>5, FS_EmptySet
<1>7. Cardinality(Unrefs(q, x)) <= ThreadOwners(todo, x) /\ ThreadOwners(todo, x) \in Nat
  BY <1>1, <1>2, ThreadOwnersChange
<1>8. PairOwners(list, x) \in Nat
  BY <1>1, PairOwnersNat
<1> QED  BY <1>3, <1>4, <1>6, <1>7, <1>8 DEF OwnersOf

\* What a thread does next, it does with what is alive.
LEMMA InvDangling ==
    ASSUME DictInv
    PROVE  NoDanglingUse
<1>0. /\ TypeOK /\ Values(list, todo, content, refs) /\ Once(todo)
      /\ Lifecycle(state, refcount, held, maker, list)
      /\ Work(state, refcount, held, maker, list, todo)
      /\ todo \in [Threads -> Seq(Op)] /\ list \in [Dicts -> Seq(Pair)]
      /\ held \in [Threads -> [Dicts -> Nat]] /\ refcount \in [Dicts -> Nat]
  BY DEF DictInv, TypeOK
<1> SUFFICES ASSUME NEW t \in Threads, todo[t] # <<>>, NEW j, j = todo[t][1]
             PROVE  CASE j.op = "free" ->
                           /\ content[j.data] # "free"
                           /\ Owners(j.data) = 0
                           /\ \A u \in Threads \ {t} : \A i \in DOMAIN todo[u] : todo[u][i] # j
                      [] j.op = "unref" -> content[j.data] # "free" /\ refs[j.data] > 0
                      [] j.op = "ref" -> /\ state[j.dict] = "live"
                                         /\ j.key \in {p.key : p \in Range(list[j.dict])}
                      [] j.op = "copy" ->
                           /\ Holds(t, j.from) /\ Exclusive(t, j.to)
                           /\ j.at \in DOMAIN list[j.from]
                           /\ content[list[j.from][j.at].value] # "free"
                      [] j.op \in {"destroy", "gone"} ->
                           /\ state[j.dict] # "free"
                           /\ \A u \in Threads : held[u][j.dict] = 0
                           /\ maker[j.dict] = NULL
  BY DEF NoDanglingUse
<1>1. 1 \in DOMAIN todo[t] /\ j \in Op
  BY <1>0, TailOf
<1>2. Possible(state, refcount, held, maker, list, t, j)
  BY <1>0, <1>1 DEF Work
<1>3. CASE j.op = "free"
  <2>1. j.data \in Frees(todo)
    BY <1>0, <1>1, <1>3, FreesOf
  <2>2. content[j.data] # "free" /\ OwnersOf(list, todo, j.data) = 0
    BY <2>1, <1>0 DEF Values
  <2>3. ASSUME NEW u \in Threads \ {t}, NEW i \in DOMAIN todo[u], todo[u][i] = j PROVE FALSE
    <3>1. SameEnd(todo[u][i], todo[t][1])
      BY <2>3, <1>3 DEF SameEnd
    <3> QED  BY <3>1, <1>0, <1>1 DEF Once
  <2> QED  BY <2>2, <2>3, <1>3, OwnersAre
<1>4. CASE j.op = "unref"
  <2>1. j.data \in Datas
    BY <1>1, <1>4 DEF Op
  <2>2. OwnersOf(list, todo, j.data) \in Nat /\ OwnersOf(list, todo, j.data) > 0
    BY <1>0, <1>1, <1>4, UnrefOwned
  <2>3. content[j.data] # "free" /\ refs[j.data] > 0
    BY <2>1, <2>2, <1>0 DEF Values
  <2> QED  BY <2>3, <1>4
<1>5. CASE j.op = "ref"
  <2>1. Has(state, held, maker, t, j.dict) /\ \E p \in Range(list[j.dict]) : p.key = j.key
    BY <1>2, <1>5 DEF Possible
  <2> QED  BY <2>1, <1>5 DEF Has
<1>6. CASE j.op = "copy"
  <2>1. /\ Has(state, held, maker, t, j.from) /\ Owns(state, refcount, held, maker, t, j.to)
        /\ j.at \in DOMAIN list[j.from]
    BY <1>2, <1>6 DEF Possible
  <2>2. Holds(t, j.from) /\ Exclusive(t, j.to)
    BY <2>1 DEF Has, Owns, Holds, Exclusive
  <2>3. PICK d \in Dicts : d = j.from
    BY <1>1, <1>6 DEF Op
  <2>4. PICK i \in DOMAIN list[d] : i = j.at
    BY <2>1, <2>3
  <2>5. list[d] \in Seq(Pair)
    BY <1>0
  <2>6. list[d][i] \in Pair
    BY <2>5, LenProperties, ElementOfSeq
  <2>7. PICK x \in Datas : x = list[d][i].value
    BY <2>6 DEF Pair
  <2>8. Uses(list[d], x) \in Nat /\ Uses(list[d], x) > 0
    BY <2>5, <2>7, UsedValue
  <2>9. /\ Others(d) \in [Datas -> Nat]
        /\ Others(d)[x] + Uses(list[d], x) = OwnersOf(list, todo, x)
    BY <1>0, OthersNat
  <2>10. PICK a \in Nat : a = Others(d)[x]
    BY <2>9
  <2>11. OwnersOf(list, todo, x) # 0
    BY <2>8, <2>9, <2>10
  <2>12. content[x] # "free"
    BY <2>11, <1>0 DEF Values
  <2> QED  BY <2>1, <2>2, <2>3, <2>4, <2>7, <2>12, <1>6
<1>7. CASE j.op \in {"destroy", "gone"}
  <2>1. PICK d \in Dicts : d = j.dict
    BY <1>1, <1>7 DEF Op
  <2>2. state[d] # "free" /\ refcount[d] = 0 /\ maker[d] = NULL
    BY <2>1, <1>0, <1>2, <1>7 DEF Possible, Lifecycle
  <2>3. ASSUME NEW u \in Threads PROVE held[u][d] = 0
    <3>1. References(held, d) = 0
      BY <2>2, <1>0 DEF Lifecycle
    <3>2. held[u][d] <= References(held, d) /\ held[u][d] \in Nat
      BY <1>0, ReferencesAtLeast
    <3> QED  BY <3>1, <3>2
  <2>4. /\ state[j.dict] # "free" /\ maker[j.dict] = NULL
        /\ \A u \in Threads : held[u][j.dict] = 0
    BY <2>1, <2>2, <2>3
  <2> QED  BY <2>4, <1>7
<1>8. j.op \in {"free", "unref", "ref", "copy", "destroy", "gone"}
  BY <1>1 DEF Op
<1> QED  BY <1>3, <1>4, <1>5, <1>6, <1>7, <1>8

\* A data_t has as many references as pairs and getters that will give one back, and
\* a dict_t as many as the threads have, through data_ref, data_unref, dict_ref,
\* dict_unref and every call that shares a value (dict.c 187-460), as long as a client
\* changes a dict only while it has the one reference on it (Exclusive).
THEOREM ReferencesSafety == Spec => []RefsAccounted
BY DictInvariant, InvAccounted, PTL

\* If every client changes a dict only while it has the one reference on it, then no
\* call uses a value or a dict that another has freed, and each is freed once, although
\* several threads read, copy and destroy dicts that share values, and a value is
\* destroyed after the unlock.  The condition is Exclusive, a guard of the actions that
\* change a dict.  dict.c does not enforce it, and without it the theorem is false: a
\* dict_set between the unlock and the data_ref of dict_get_with_ref (dict.c:1248)
\* frees the value that the getter is about to reference.
THEOREM DanglingSafety == Spec => []NoDanglingUse
BY DictInvariant, InvDangling, PTL

\* The hash chains and the members list of a dict hold the same keys, each once, through
\* dict_set, dict_del, dict_copy and dict_unserialize by clients that keep to Exclusive.
THEOREM ChainsSafety == Spec => []ChainsMatchList
BY DictInvariant, InvChains, PTL
=============================================================================
