--------------------------- MODULE MemPoolProofs ---------------------------
(***************************************************************************)
(* The safety of the memory pool for objects of every size and pools of    *)
(* every length, under the load of a hash table and of other users.        *)
(*                                                                         *)
(* The pool's chunks are told apart by their addresses alone, so the proof *)
(* starts with the arithmetic of addresses.  Every step of the hash table  *)
(* is a step of the pool or leaves it alone, so what holds for the pool on *)
(* its own holds under the table.  An invariant of the table itself then   *)
(* says where each entry is, and what that means for entries and objects.  *)
(***************************************************************************)
EXTENDS RbtHash, FiniteSetTheorems, TLAPS

-----------------------------------------------------------------------------
(* The lists: what the operations of LinkedList do to the entries. *)

\* list_add puts a new entry on a list, once (list.h, list_add).
LEMMA ListAddLemma ==
    ASSUME NEW S, NEW s \in Seq(S), IsInjective(s), NEW x \in S, x \notin Entries(s)
    PROVE  /\ list_add(x, s) \in Seq(S)
           /\ Len(list_add(x, s)) = Len(s) + 1
           /\ Entries(list_add(x, s)) = Entries(s) \cup {x}
           /\ IsInjective(list_add(x, s))
<1> DEFINE n == list_add(x, s)
<1>1. /\ n \in Seq(S)
      /\ Len(n) = Len(s) + 1
      /\ n[1] = x
      /\ \A i \in 1 .. Len(s) : n[i + 1] = s[i]
      /\ DOMAIN n = 1 .. Len(s) + 1
      /\ DOMAIN s = 1 .. Len(s)
      /\ Len(s) \in Nat
  BY DEF list_add
<1>2. \A i \in 2 .. Len(s) + 1 : n[i] = s[i - 1] /\ i - 1 \in 1 .. Len(s)
  BY <1>1
<1>3. Entries(n) = Entries(s) \cup {x}
  <2>1. ASSUME NEW y \in Entries(n) PROVE y \in Entries(s) \cup {x}
    <3>1. PICK i \in 1 .. Len(s) + 1 : y = n[i]
      BY <1>1 DEF Entries, Range
    <3>2. i = 1 \/ i \in 2 .. Len(s) + 1
      BY <1>1
    <3>3. CASE i \in 2 .. Len(s) + 1
      BY <3>1, <3>3, <1>1, <1>2 DEF Entries, Range
    <3> QED  BY <3>1, <3>2, <3>3, <1>1
  <2>2. ASSUME NEW y \in Entries(s) \cup {x} PROVE y \in Entries(n)
    <3>1. CASE y = x
      <4>1. 1 \in DOMAIN n
        BY <1>1
      <4> QED  BY <4>1, <3>1, <1>1 DEF Entries, Range
    <3>2. CASE y \in Entries(s)
      <4>1. PICK i \in 1 .. Len(s) : y = s[i]
        BY <3>2, <1>1 DEF Entries, Range
      <4>2. i + 1 \in DOMAIN n /\ n[i + 1] = y
        BY <4>1, <1>1
      <4> QED  BY <4>2 DEF Entries, Range
    <3> QED  BY <3>1, <3>2, <2>2
  <2> QED  BY <2>1, <2>2
<1>4. IsInjective(n)
  <2>1. \A i \in 1 .. Len(s) : s[i] # x
    BY <1>1 DEF Entries, Range
  <2>2. SUFFICES ASSUME NEW i \in 1 .. Len(s) + 1, NEW j \in 1 .. Len(s) + 1, n[i] = n[j], i < j
                 PROVE FALSE
    BY <1>1 DEF IsInjective
  <2>3. j \in 2 .. Len(s) + 1 /\ n[j] = s[j - 1] /\ j - 1 \in 1 .. Len(s)
    BY <1>1, <1>2, <2>2
  <2>4. CASE i = 1
    BY <2>1, <2>2, <2>3, <2>4, <1>1
  <2>5. CASE i # 1
    <3>1. n[i] = s[i - 1] /\ i - 1 \in 1 .. Len(s)
      BY <2>5, <1>2, <1>1
    <3>2. i - 1 = j - 1
      BY <3>1, <2>2, <2>3, <1>1 DEF IsInjective
    <3> QED  BY <3>2, <2>2
  <2> QED  BY <2>4, <2>5
<1> QED  BY <1>1, <1>3, <1>4

\* list_del takes exactly one entry off the list that holds it (list.h, list_del).
LEMMA ListDelLemma ==
    ASSUME NEW S, NEW s \in Seq(S), IsInjective(s), NEW x \in Entries(s)
    PROVE  /\ list_del(x, s) \in Seq(S)
           /\ Len(list_del(x, s)) = Len(s) - 1
           /\ Entries(list_del(x, s)) = Entries(s) \ {x}
           /\ IsInjective(list_del(x, s))
<1> DEFINE p == Place(x, s)
           n == list_del(x, s)
<1>1. DOMAIN s = 1 .. Len(s) /\ Len(s) \in Nat
  OBVIOUS
<1>2. p \in 1 .. Len(s) /\ s[p] = x
  BY <1>1 DEF Place, Entries, Range
<1>3. n = [i \in 1 .. Len(s) - 1 |-> IF i < p THEN s[i] ELSE s[i + 1]]
  BY DEF list_del
<1> HIDE DEF p, n
<1>4. n \in Seq(S) /\ Len(n) = Len(s) - 1 /\ DOMAIN n = 1 .. Len(s) - 1
  <2>1. \A i \in 1 .. Len(s) - 1 : n[i] \in S
    BY <1>1, <1>3
  <2> QED  BY <2>1, <1>1, <1>2, <1>3
<1>5. Entries(n) = Entries(s) \ {x}
  <2>1. ASSUME NEW y \in Entries(n) PROVE y \in Entries(s) \ {x}
    <3>1. PICK i \in 1 .. Len(s) - 1 : y = n[i]
      BY <1>4 DEF Entries, Range
    <3>2. CASE i < p
      <4>1. i \in 1 .. Len(s) /\ i # p /\ y = s[i]
        BY <3>1, <3>2, <1>1, <1>3
      <4> QED  BY <4>1, <1>1, <1>2 DEF Entries, Range, IsInjective
    <3>3. CASE ~(i < p)
      <4>1. i + 1 \in 1 .. Len(s) /\ i + 1 # p /\ y = s[i + 1]
        BY <3>1, <3>3, <1>1, <1>2, <1>3
      <4> QED  BY <4>1, <1>1, <1>2 DEF Entries, Range, IsInjective
    <3> QED  BY <3>2, <3>3
  <2>2. ASSUME NEW y \in Entries(s), y # x PROVE y \in Entries(n)
    <3>1. PICK i \in 1 .. Len(s) : y = s[i]
      BY <1>1 DEF Entries, Range
    <3>2. i # p
      BY <3>1, <2>2, <1>2
    <3>3. CASE i < p
      <4>1. i \in 1 .. Len(s) - 1 /\ n[i] = y
        BY <3>1, <3>3, <1>1, <1>2, <1>3
      <4> QED  BY <4>1, <1>4 DEF Entries, Range
    <3>4. CASE i > p
      <4>1. i - 1 \in 1 .. Len(s) - 1 /\ ~(i - 1 < p) /\ (i - 1) + 1 = i
        BY <3>1, <3>4, <1>1, <1>2
      <4>2. n[i - 1] = y
        BY <4>1, <3>1, <1>3
      <4> QED  BY <4>1, <4>2, <1>4 DEF Entries, Range
    <3> QED  BY <3>2, <3>3, <3>4, <1>1, <1>2
  <2> QED  BY <2>1, <2>2
<1>6. IsInjective(n)
  <2>1. SUFFICES ASSUME NEW i \in 1 .. Len(s) - 1, NEW j \in 1 .. Len(s) - 1, n[i] = n[j]
                 PROVE i = j
    BY <1>4 DEF IsInjective
  <2> DEFINE Old(k) == IF k < p THEN k ELSE k + 1
  <2>2. \A k \in 1 .. Len(s) - 1 : Old(k) \in 1 .. Len(s) /\ n[k] = s[Old(k)]
    BY <1>1, <1>2, <1>3
  <2>3. Old(i) = Old(j)
    BY <2>1, <2>2, <1>1 DEF IsInjective
  <2> QED  BY <2>3, <1>1, <1>2
<1> QED  BY <1>4, <1>5, <1>6 DEF n

-----------------------------------------------------------------------------
(* Addresses *)

LEMMA Sizes ==
    /\ SizeofType \in Nat /\ SizeofType > 0 /\ Pad \in Nat /\ Count \in Nat /\ Count > 0
    /\ PaddedSize \in Nat /\ PaddedSize = SizeofType + Pad /\ Base \in Nat
    /\ Count * PaddedSize \in Nat /\ PoolEnd = Base + Count * PaddedSize /\ PoolEnd \in Nat
<1>1. SizeofType \in Nat /\ SizeofType > 0 /\ Pad \in Nat /\ Count \in Nat /\ Count > 0 /\ Base \in Nat
  BY SizeAssumption, AddrAssumption
<1>2. PaddedSize \in Nat /\ PaddedSize = SizeofType + Pad
  BY <1>1 DEF PaddedSize
<1>3. Count * PaddedSize \in Nat
  BY <1>1, <1>2
<1> QED  BY <1>1, <1>2, <1>3 DEF PoolEnd

\* One chunk ends before the next begins.
LEMMA Multiples ==
    ASSUME NEW i \in Nat, NEW j \in Nat, i < j, NEW n \in Nat
    PROVE  i * n \in Nat /\ j * n \in Nat /\ i * n + n <= j * n
<1>1. PICK k \in Nat : j = (i + 1) + k
  <2>1. j - (i + 1) \in Nat /\ j = (i + 1) + (j - (i + 1))
    OBVIOUS
  <2> QED  BY <2>1
<1>2. i * n \in Nat /\ j * n \in Nat /\ k * n \in Nat
  OBVIOUS
<1>3. ((i + 1) + k) * n = i * n + n + k * n
  OBVIOUS
<1>4. j * n = i * n + n + k * n
  BY <1>1, <1>3
<1> DEFINE a == i * n
           b == j * n
           c == k * n
<1> HIDE DEF a, b, c
<1>5. a \in Nat /\ b \in Nat /\ c \in Nat /\ b = a + n + c
  BY <1>2, <1>4 DEF a, b, c
<1>6. a + n <= b
  BY <1>5
<1> QED  BY <1>2, <1>6 DEF a, b

\* The chunks lie in the region and do not overlap.
LEMMA HeadsLemma ==
    /\ \A h \in Heads : h \in Nat /\ Base <= h /\ h + PaddedSize <= PoolEnd
    /\ \A h, g \in Heads : h # g => h + PaddedSize <= g \/ g + PaddedSize <= h
<1>1. ASSUME NEW h \in Heads PROVE h \in Nat /\ Base <= h /\ h + PaddedSize <= PoolEnd
  <2>1. PICK i \in 0 .. Count - 1 : h = Base + i * PaddedSize
    BY <1>1 DEF Heads
  <2>2. i \in Nat /\ i < Count
    BY <2>1, Sizes
  <2> DEFINE a == i * PaddedSize
             c == Count * PaddedSize
  <2>3. a \in Nat /\ c \in Nat /\ a + PaddedSize <= c
    BY <2>2, Sizes, Multiples
  <2>4. h = Base + a /\ PoolEnd = Base + c
    BY <2>1, Sizes
  <2> HIDE DEF a, c
  <2> QED  BY <2>3, <2>4, Sizes
<1>2. ASSUME NEW h \in Heads, NEW g \in Heads, h # g
      PROVE  h + PaddedSize <= g \/ g + PaddedSize <= h
  <2>1. PICK i \in 0 .. Count - 1 : h = Base + i * PaddedSize
    BY <1>2 DEF Heads
  <2>2. PICK j \in 0 .. Count - 1 : g = Base + j * PaddedSize
    BY <1>2 DEF Heads
  <2>3. i \in Nat /\ j \in Nat /\ (i < j \/ j < i)
    BY <1>2, <2>1, <2>2, Sizes
  <2> DEFINE a == i * PaddedSize
             b == j * PaddedSize
  <2>4. a \in Nat /\ b \in Nat /\ (a + PaddedSize <= b \/ b + PaddedSize <= a)
    BY <2>3, Sizes, Multiples
  <2>5. h = Base + a /\ g = Base + b
    BY <2>1, <2>2
  <2> HIDE DEF a, b
  <2> QED  BY <2>4, <2>5, Sizes
<1> QED  BY <1>1, <1>2

\* A number below the modulus, and a multiple of it.
LEMMA Remainders ==
    /\ \A m \in Nat \ {0} : \A a \in 0 .. m - 1 : a % m = a
    /\ \A m \in Nat \ {0} : \A i \in Nat : (i * m) % m = 0
<1>1. ASSUME NEW m \in Nat \ {0}, NEW a \in 0 .. m - 1 PROVE a % m = a
  OBVIOUS
<1>2. ASSUME NEW m \in Nat \ {0}, NEW i \in Nat PROVE (i * m) % m = 0
  OBVIOUS
<1> QED  BY <1>1, <1>2

\* __is_member recognises the chunks.
LEMMA ChunkIsMember ==
    ASSUME NEW h \in Heads
    PROVE  is_member(h + Pad) = 1
<1>1. PICK i \in 0 .. Count - 1 : h = Base + i * PaddedSize
  BY DEF Heads
<1> DEFINE a == i * PaddedSize
           c == Count * PaddedSize
<1>2. i \in Nat /\ i < Count
  BY Sizes
<1>3. a \in Nat /\ c \in Nat /\ a + PaddedSize <= c
  BY <1>2, Sizes, Multiples
<1>4. a % PaddedSize = 0
  BY <1>2, Sizes, Remainders
<1>5. h = Base + a /\ PoolEnd = Base + c
  BY <1>1, Sizes
<1> HIDE DEF a, c
<1>6. AddrSpace \in Nat \ {0} /\ a \in 0 .. AddrSpace - 1
  BY <1>3, <1>5, Sizes, RegionAssumption
<1>7. a % AddrSpace = a
  BY <1>6, Remainders
<1>8. ptr2chunkhead(h + Pad) - Base = a
  BY <1>3, <1>5, Sizes DEF ptr2chunkhead
<1>9. ~(h + Pad < Base) /\ ~(h + Pad >= PoolEnd) /\ h + Pad >= Base /\ h + Pad < PoolEnd
  BY <1>3, <1>5, Sizes
<1>10. ((ptr2chunkhead(h + Pad) - Base) % AddrSpace) % PaddedSize = 0
  BY <1>4, <1>7, <1>8
<1> DEFINE x == h + Pad
           d == ((ptr2chunkhead(x) - Base) % AddrSpace) % PaddedSize
<1>11. is_member(x) = CASE x < Base \/ x >= PoolEnd -> 0
                        [] x >= Base /\ x < PoolEnd -> IF d # 0 THEN -1 ELSE 1
  BY DEF is_member
<1>12. ~(x < Base) /\ ~(x >= PoolEnd) /\ x >= Base /\ x < PoolEnd /\ d = 0
  BY <1>9, <1>10
<1> HIDE DEF x, d
<1>13. is_member(x) = 1
  BY <1>11, <1>12
<1> QED  BY <1>13 DEF x

\* ... and the blocks of malloc.
LEMMA HeapIsNotMember ==
    ASSUME NEW p \in HeapAddrs
    PROVE  p \in Nat /\ is_member(p) = 0
<1>1. p \in Nat
  BY AddrAssumption
<1>2. p \in Block(p)
  BY <1>1, Sizes DEF Block, Bytes
<1>3. p \notin Bytes(Base, PoolEnd)
  BY <1>2, HeapAssumption
<1>4. p < Base \/ p >= PoolEnd
  BY <1>1, <1>3, Sizes DEF Bytes
<1>5. ~(p >= Base /\ p < PoolEnd)
  BY <1>1, <1>4, Sizes
<1> DEFINE d == ((ptr2chunkhead(p) - Base) % AddrSpace) % PaddedSize
<1>6. is_member(p) = CASE p < Base \/ p >= PoolEnd -> 0
                       [] p >= Base /\ p < PoolEnd -> IF d # 0 THEN -1 ELSE 1
  BY DEF is_member
<1> HIDE DEF d
<1>7. is_member(p) = 0
  BY <1>4, <1>5, <1>6
<1> QED  BY <1>1, <1>7

-----------------------------------------------------------------------------
(* The inductive invariant *)

\* The chunks that callers hold.
Out == held \ heap

HeldInv ==
    /\ held \subseteq Nat
    /\ heap \subseteq held \cap HeapAddrs
    /\ \A p \in Out : p - Pad \in Heads
    /\ \A p, q \in heap : p # q => Block(p) \cap Block(q) = {}
    /\ \A p \in Out : p - Pad \notin Entries(list)

ChunksInv ==
    /\ list \in Seq(Heads) /\ IsInjective(list)
    /\ hot_count \in Nat /\ cold_count \in Nat /\ hot_count + cold_count = Count
    /\ IsFiniteSet(Out) /\ Cardinality(Out) = hot_count
    /\ alive => Len(list) = cold_count
    /\ alive => \A h \in Heads : h \in Entries(list) \/ h + Pad \in Out

IInv == HeldInv /\ ChunksInv /\ aborted = FALSE /\ alive \in BOOLEAN

\* What a caller holds is a chunk or a block of malloc.
LEMMA HeldMembers ==
    ASSUME HeldInv, NEW p \in held
    PROVE  /\ p \in Nat
           /\ p \in heap => is_member(p) = 0 /\ p \in HeapAddrs
           /\ p \notin heap => /\ is_member(p) = 1
                               /\ p \in Out /\ p - Pad \in Heads /\ (p - Pad) + Pad = p
<1>1. p \in Nat
  BY DEF HeldInv
<1>2. ASSUME p \in heap PROVE is_member(p) = 0 /\ p \in HeapAddrs
  <2>1. p \in HeapAddrs
    BY <1>2 DEF HeldInv
  <2> QED  BY <2>1, HeapIsNotMember
<1>3. ASSUME p \notin heap PROVE /\ is_member(p) = 1
                                 /\ p \in Out /\ p - Pad \in Heads /\ (p - Pad) + Pad = p
  <2>1. p \in Out /\ p - Pad \in Heads
    BY <1>3 DEF HeldInv, Out
  <2>2. (p - Pad) + Pad = p
    BY <1>1, Sizes
  <2>3. is_member((p - Pad) + Pad) = 1
    BY <2>1, ChunkIsMember
  <2> QED  BY <2>1, <2>2, <2>3
<1> QED  BY <1>1, <1>2, <1>3

\* Memory that overlaps nothing else.
LEMMA DisjointLemma ==
    ASSUME HeldInv, ChunksInv
    PROVE  BlocksDisjoint
<1>1. ASSUME NEW p \in Out
      PROVE  /\ p \in Nat /\ p - Pad \in Heads /\ p - Pad \in Nat /\ Base <= p - Pad
             /\ p + SizeofType <= PoolEnd /\ p + SizeofType = (p - Pad) + PaddedSize
  <2>1. p \in Nat /\ p - Pad \in Heads
    BY <1>1 DEF HeldInv, Out
  <2>2. p - Pad \in Nat /\ Base <= p - Pad /\ (p - Pad) + PaddedSize <= PoolEnd
    BY <2>1, HeadsLemma
  <2> QED  BY <2>1, <2>2, Sizes
<1>2. ASSUME NEW p \in heap PROVE p \in Nat /\ Block(p) \cap Bytes(Base, PoolEnd) = {}
  BY <1>2, HeapAssumption, AddrAssumption DEF HeldInv
<1>3. ASSUME NEW p \in Out PROVE Block(p) \subseteq Bytes(Base, PoolEnd)
  BY <1>1, <1>3, Sizes DEF Block, Bytes
<1>4. ASSUME NEW p \in Out, NEW q \in Out, p # q PROVE Block(p) \cap Block(q) = {}
  <2>1. p - Pad # q - Pad
    BY <1>1, <1>4, Sizes
  <2>2. (p - Pad) + PaddedSize <= q - Pad \/ (q - Pad) + PaddedSize <= p - Pad
    BY <2>1, <1>1, HeadsLemma
  <2>3. p + SizeofType <= q \/ q + SizeofType <= p
    BY <2>2, <1>1, Sizes
  <2> QED  BY <2>3, <1>1, Sizes DEF Block, Bytes
<1>5. ASSUME NEW p \in held, NEW q \in held, p # q PROVE Block(p) \cap Block(q) = {}
  <2>1. (p \in Out \/ p \in heap) /\ (q \in Out \/ q \in heap)
    BY DEF Out
  <2>2. CASE p \in Out /\ q \in Out
    BY <2>2, <1>4, <1>5
  <2>3. CASE p \in heap /\ q \in heap
    BY <2>3, <1>5 DEF HeldInv
  <2>4. CASE p \in Out /\ q \in heap
    BY <2>4, <1>2, <1>3
  <2>5. CASE p \in heap /\ q \in Out
    BY <2>5, <1>2, <1>3
  <2> QED  BY <2>1, <2>2, <2>3, <2>4, <2>5
<1>6. ASSUME NEW p \in held, NEW i \in DOMAIN list
      PROVE  Block(p) \cap Bytes(list[i], list[i] + Pad) = {}
  <2> DEFINE h == list[i]
  <2>1. h \in Heads /\ h \in Entries(list)
    BY DEF ChunksInv, Entries, Range
  <2> HIDE DEF h
  <2>2. h \in Nat /\ Base <= h /\ h + PaddedSize <= PoolEnd
    BY <2>1, HeadsLemma
  <2>3. CASE p \in heap
    <3>1. Bytes(h, h + Pad) \subseteq Bytes(Base, PoolEnd)
      BY <2>2, Sizes DEF Bytes
    <3> QED  BY <3>1, <2>3, <1>2 DEF h
  <2>4. CASE p \in Out
    <3>1. p - Pad # h
      BY <2>1, <2>4 DEF HeldInv
    <3>2. (p - Pad) + PaddedSize <= h \/ h + PaddedSize <= p - Pad
      BY <3>1, <2>1, <2>4, <1>1, HeadsLemma
    <3>3. p + SizeofType <= h \/ h + Pad <= p
      BY <3>2, <2>2, <2>4, <1>1, Sizes
    <3>4. Block(p) \cap Bytes(h, h + Pad) = {}
      BY <3>3, <2>2, <2>4, <1>1, Sizes DEF Block, Bytes
    <3> QED  BY <3>4 DEF h
  <2> QED  BY <2>3, <2>4 DEF Out
<1> QED  BY <1>5, <1>6 DEF BlocksDisjoint

-----------------------------------------------------------------------------
(* The operations *)

LEMMA GetChunkInv ==
    ASSUME IInv, NEW p, GetChunk(p)
    PROVE  IInv'
<1> DEFINE h == Head(list)
<1>1. /\ alive /\ cold_count # 0 /\ p = h + Pad /\ list' = list_del(h, list)
      /\ hot_count' = hot_count + 1 /\ cold_count' = cold_count - 1 /\ held' = held \cup {p}
      /\ UNCHANGED <<heap, aborted, alive>>
  BY DEF GetChunk, chunkhead2ptr
<1>2. /\ list \in Seq(Heads) /\ IsInjective(list) /\ hot_count \in Nat /\ cold_count \in Nat
      /\ hot_count + cold_count = Count /\ IsFiniteSet(Out) /\ Cardinality(Out) = hot_count
      /\ Len(list) = cold_count
      /\ \A g \in Heads : g \in Entries(list) \/ g + Pad \in Out
  BY <1>1 DEF IInv, ChunksInv
<1>3. h \in Heads /\ h \in Entries(list)
  <2>1. list # <<>>
    BY <1>1, <1>2
  <2>2. 1 \in DOMAIN list /\ h = list[1] /\ h \in Heads
    BY <2>1, <1>2
  <2> QED  BY <2>2 DEF Entries, Range
<1> HIDE DEF h
<1>4. p \in Nat /\ p - Pad = h /\ h \in Nat
  BY <1>1, <1>3, HeadsLemma, Sizes
<1>5. p \notin held
  <2>1. p \notin Out
    BY <1>3, <1>4 DEF IInv, HeldInv
  <2>2. p \notin heap
    <3>1. is_member(p) = 1
      BY <1>1, <1>3, ChunkIsMember
    <3>2. ASSUME p \in heap PROVE is_member(p) = 0
      <4>1. p \in HeapAddrs
        BY <3>2 DEF IInv, HeldInv
      <4> QED  BY <4>1, HeapIsNotMember
    <3> QED  BY <3>1, <3>2
  <2> QED  BY <2>1, <2>2 DEF Out
<1>6. Out' = Out \cup {p} /\ p \notin Out
  BY <1>1, <1>5 DEF Out, IInv, HeldInv
<1>7. /\ list' \in Seq(Heads) /\ Len(list') = Len(list) - 1
      /\ Entries(list') = Entries(list) \ {h} /\ IsInjective(list')
  BY <1>1, <1>2, <1>3, ListDelLemma
<1>8. HeldInv'
  <2>1. held' \subseteq Nat /\ heap' \subseteq held' \cap HeapAddrs
    BY <1>1, <1>4 DEF IInv, HeldInv
  <2>2. \A q \in Out' : q - Pad \in Heads /\ q - Pad \notin Entries(list')
    <3>1. ASSUME NEW q \in Out PROVE q - Pad \in Heads /\ q - Pad \notin Entries(list')
      BY <1>7 DEF IInv, HeldInv
    <3> QED  BY <3>1, <1>3, <1>4, <1>6, <1>7
  <2>3. \A q, r \in heap' : q # r => Block(q) \cap Block(r) = {}
    BY <1>1 DEF IInv, HeldInv
  <2> QED  BY <2>1, <2>2, <2>3 DEF HeldInv, Block, Bytes
<1>9. ChunksInv'
  <2>1. IsFiniteSet(Out') /\ Cardinality(Out') = hot_count'
    BY <1>1, <1>2, <1>6, FS_AddElement
  <2>2. hot_count' \in Nat /\ cold_count' \in Nat /\ hot_count' + cold_count' = Count
    BY <1>1, <1>2, Sizes
  <2>3. Len(list') = cold_count'
    BY <1>1, <1>2, <1>7
  <2>4. \A g \in Heads : g \in Entries(list') \/ g + Pad \in Out'
    BY <1>1, <1>2, <1>6, <1>7
  <2> QED  BY <2>1, <2>2, <2>3, <2>4, <1>7 DEF ChunksInv
<1>10. aborted' = FALSE /\ alive' \in BOOLEAN
  BY <1>1, Zenon DEF IInv
<1> QED  BY <1>8, <1>9, <1>10 DEF IInv

LEMMA GetHeapInv ==
    ASSUME IInv, NEW p, GetHeap(p)
    PROVE  IInv'
<1> DEFINE new == {p} \ {NULL}
<1>1. /\ new \subseteq HeapAddrs
      /\ \A q \in new : \A h \in heap : Block(q) \cap Block(h) = {}
      /\ heap' = heap \cup new /\ held' = held \cup new
      /\ UNCHANGED <<list, hot_count, cold_count, aborted, alive>>
  BY DEF GetHeap
<1>2. \A q, r \in new : q = r
  OBVIOUS
<1> HIDE DEF new
<1>3. new \subseteq Nat /\ \A q \in new : q \notin Out
  <2>1. ASSUME NEW q \in new, q \in Out PROVE FALSE
    <3>1. q \in held /\ q \notin heap
      BY <2>1 DEF Out
    <3>2. is_member(q) = 1
      BY <3>1, HeldMembers DEF IInv
    <3>3. is_member(q) = 0
      BY <2>1, <1>1, HeapIsNotMember
    <3> QED  BY <3>2, <3>3
  <2> QED  BY <2>1, <1>1, AddrAssumption
<1>4. Out' = Out
  BY <1>1, <1>3 DEF Out
<1>5. HeldInv'
  <2>1. held' \subseteq Nat /\ heap' \subseteq held' \cap HeapAddrs
    BY <1>1, <1>3 DEF IInv, HeldInv
  <2>2. \A q \in Out' : q - Pad \in Heads /\ q - Pad \notin Entries(list')
    BY <1>1, <1>4 DEF IInv, HeldInv
  <2>3. ASSUME NEW q \in heap', NEW r \in heap', q # r PROVE Block(q) \cap Block(r) = {}
    <3>1. CASE q \in heap /\ r \in heap
      BY <3>1, <2>3 DEF IInv, HeldInv
    <3>2. CASE q \in new /\ r \in new
      BY <3>2, <2>3, <1>2
    <3>3. CASE q \in new /\ r \in heap
      BY <3>3, <1>1
    <3>4. CASE q \in heap /\ r \in new
      BY <3>4, <1>1
    <3> QED  BY <3>1, <3>2, <3>3, <3>4, <1>1
  <2> QED  BY <2>1, <2>2, <2>3 DEF HeldInv, Block, Bytes
<1>6. ChunksInv'
  BY <1>1, <1>4 DEF IInv, ChunksInv
<1>7. aborted' = FALSE /\ alive' \in BOOLEAN
  BY <1>1, Zenon DEF IInv
<1> QED  BY <1>5, <1>6, <1>7 DEF IInv

LEMMA PutInv ==
    ASSUME IInv, NEW p, mem_put(p)
    PROVE  IInv'
<1>1. HeldInv /\ ChunksInv /\ p \in held
  BY DEF IInv, mem_put
<1>2. CASE p \in heap
  <2>1. is_member(p) = 0
    BY <1>1, <1>2, HeldMembers
  <2>2. /\ held' = held \ {p} /\ heap' = heap \ {p}
        /\ UNCHANGED <<list, hot_count, cold_count>>
    BY <2>1 DEF mem_put
  <2>3. aborted' = FALSE /\ alive' \in BOOLEAN /\ alive' = alive
    <3>1. aborted' = (is_member(p) = -1) /\ alive' = alive
      BY DEF mem_put
    <3>2. ~(is_member(p) = -1)
      BY <2>1
    <3> QED  BY <3>1, <3>2, Zenon DEF IInv
  <2>4. Out' = Out
    BY <2>2, <1>2 DEF Out
  <2>5. HeldInv'
    <3>1. held' \subseteq Nat /\ heap' \subseteq held' \cap HeapAddrs
      BY <2>2, <1>1 DEF HeldInv
    <3>2. \A q \in Out' : q - Pad \in Heads /\ q - Pad \notin Entries(list')
      BY <2>2, <2>4, <1>1 DEF HeldInv
    <3>3. \A q, r \in heap' : q # r => Block(q) \cap Block(r) = {}
      BY <2>2, <1>1 DEF HeldInv
    <3> QED  BY <3>1, <3>2, <3>3 DEF HeldInv, Block, Bytes
  <2>6. ChunksInv'
    BY <2>2, <2>3, <2>4, <1>1 DEF ChunksInv
  <2> QED  BY <2>3, <2>5, <2>6 DEF IInv
<1>3. CASE p \notin heap
  <2> DEFINE h == p - Pad
  <2>1. p \in Nat /\ is_member(p) = 1 /\ p \in Out /\ h \in Heads /\ h + Pad = p
    BY <1>1, <1>3, HeldMembers
  <2>2. /\ held' = held \ {p} /\ heap' = heap /\ list' = list_add(h, list)
        /\ hot_count' = hot_count - 1 /\ cold_count' = cold_count + 1
    BY <2>1 DEF mem_put, ptr2chunkhead
  <2>3. aborted' = FALSE /\ alive' \in BOOLEAN /\ alive' = alive
    <3>1. aborted' = (is_member(p) = -1) /\ alive' = alive
      BY DEF mem_put
    <3>2. ~(is_member(p) = -1)
      BY <2>1
    <3> QED  BY <3>1, <3>2, Zenon DEF IInv
  <2>4. Out' = Out \ {p}
    BY <2>2 DEF Out
  <2>5. h \notin Entries(list)
    BY <2>1, <1>1 DEF HeldInv
  <2> HIDE DEF h
  <2>6. /\ list' \in Seq(Heads) /\ Len(list') = Len(list) + 1
        /\ Entries(list') = Entries(list) \cup {h} /\ IsInjective(list')
    BY <2>1, <2>2, <2>5, <1>1, ListAddLemma DEF ChunksInv
  <2>7. HeldInv'
    <3>1. held' \subseteq Nat /\ heap' \subseteq held' \cap HeapAddrs
      BY <2>2, <1>1, <1>3 DEF HeldInv
    <3>2. ASSUME NEW q \in Out' PROVE q - Pad \in Heads /\ q - Pad \notin Entries(list')
      <4>1. q \in Out /\ q # p /\ q \in Nat
        BY <3>1, <3>2, <2>4 DEF Out
      <4>2. q - Pad # h
        BY <4>1, <2>1, Sizes DEF h
      <4> QED  BY <4>1, <4>2, <2>6, <1>1 DEF HeldInv
    <3>3. \A q, r \in heap' : q # r => Block(q) \cap Block(r) = {}
      BY <2>2, <1>1 DEF HeldInv
    <3> QED  BY <3>1, <3>2, <3>3 DEF HeldInv, Block, Bytes
  <2>8. ChunksInv'
    <3>1. /\ IsFiniteSet(Out) /\ Cardinality(Out) = hot_count /\ hot_count \in Nat
          /\ cold_count \in Nat /\ hot_count + cold_count = Count
      BY <1>1 DEF ChunksInv
    <3>2. IsFiniteSet(Out') /\ Cardinality(Out') = hot_count - 1
      BY <3>1, <2>1, <2>4, FS_RemoveElement
    <3>3. Cardinality(Out') \in Nat
      BY <3>2, FS_CardinalityType
    <3>4. hot_count' \in Nat /\ cold_count' \in Nat /\ hot_count' + cold_count' = Count
      BY <3>1, <3>2, <3>3, <2>2, Sizes
    <3>5. alive => Len(list') = cold_count'
      BY <2>2, <2>6, <1>1 DEF ChunksInv
    <3>6. ASSUME alive, NEW g \in Heads PROVE g \in Entries(list') \/ g + Pad \in Out'
      <4>1. g \in Entries(list) \/ g + Pad \in Out
        BY <3>6, <1>1 DEF ChunksInv
      <4>2. g \in Nat /\ h \in Nat
        BY <2>1, HeadsLemma
      <4>3. g + Pad = p => g = h
        BY <4>2, <2>1, Sizes
      <4> QED  BY <4>1, <4>3, <2>4, <2>6
    <3> QED  BY <3>2, <3>4, <3>5, <3>6, <2>2, <2>3, <2>6 DEF ChunksInv
  <2> QED  BY <2>3, <2>7, <2>8 DEF IInv
<1> QED  BY <1>2, <1>3

LEMMA PoolDestroyInv ==
    ASSUME IInv, mem_pool_destroy
    PROVE  IInv'
<1>1. alive' = FALSE /\ list' = <<>> /\ UNCHANGED <<hot_count, cold_count, heap, held, aborted>>
  BY DEF mem_pool_destroy
<1>2. HeldInv /\ ChunksInv
  BY DEF IInv
<1>3. list' \in Seq(Heads) /\ IsInjective(list') /\ Entries(list') = {}
  BY <1>1 DEF IsInjective, Entries, Range
<1>4. Out' = Out
  BY <1>1 DEF Out
<1>5. HeldInv'
  <2>1. held' \subseteq Nat /\ heap' \subseteq held' \cap HeapAddrs
    BY <1>1, <1>2 DEF HeldInv
  <2>2. \A q \in Out' : q - Pad \in Heads /\ q - Pad \notin Entries(list')
    BY <1>2, <1>3, <1>4 DEF HeldInv
  <2>3. \A q, r \in heap' : q # r => Block(q) \cap Block(r) = {}
    BY <1>1, <1>2 DEF HeldInv
  <2> QED  BY <2>1, <2>2, <2>3 DEF HeldInv, Block, Bytes
<1>6. ChunksInv'
  BY <1>1, <1>2, <1>3, <1>4 DEF ChunksInv
<1>7. aborted' = FALSE /\ alive' \in BOOLEAN
  BY <1>1, Zenon DEF IInv
<1> QED  BY <1>5, <1>6, <1>7 DEF IInv

\* mem_pool_new_fn establishes the invariant.
LEMMA InitInv ==
    ASSUME Init
    PROVE  IInv
<1>1. /\ list = [i \in 1 .. Count |-> Base + (i - 1) * PaddedSize]
      /\ hot_count = 0 /\ cold_count = Count /\ heap = {} /\ held = {}
  BY DEF Init
<1>2. Out = {} /\ IsFiniteSet(Out) /\ Cardinality(Out) = 0
  BY <1>1, FS_EmptySet DEF Out
<1>3. list \in Seq(Heads) /\ Len(list) = Count /\ DOMAIN list = 1 .. Count
  <2>1. ASSUME NEW i \in 1 .. Count PROVE Base + (i - 1) * PaddedSize \in Heads
    <3>1. i - 1 \in 0 .. Count - 1
      BY Sizes
    <3> QED  BY <3>1 DEF Heads
  <2>2. list \in [1 .. Count -> Heads]
    BY <1>1, <2>1
  <2> QED  BY <2>2, Sizes
<1>4. IsInjective(list)
  <2>1. ASSUME NEW i \in 1 .. Count, NEW j \in 1 .. Count, i < j PROVE list[i] # list[j]
    <3> DEFINE a == (i - 1) * PaddedSize
               b == (j - 1) * PaddedSize
    <3>1. i - 1 \in Nat /\ j - 1 \in Nat /\ i - 1 < j - 1
      BY <2>1, Sizes
    <3>2. a \in Nat /\ b \in Nat /\ a + PaddedSize <= b
      BY <3>1, Sizes, Multiples
    <3>3. list[i] = Base + a /\ list[j] = Base + b
      BY <1>1
    <3> HIDE DEF a, b
    <3> QED  BY <3>2, <3>3, Sizes
  <2>2. ASSUME NEW i \in DOMAIN list, NEW j \in DOMAIN list, list[i] = list[j] PROVE i = j
    <3>1. i \in Nat /\ j \in Nat /\ i \in 1 .. Count /\ j \in 1 .. Count
      BY <1>3, <2>2
    <3> QED  BY <3>1, <2>1, <2>2
  <2> QED  BY <2>2 DEF IsInjective
<1>5. ASSUME NEW h \in Heads PROVE h \in Entries(list)
  <2>1. PICK i \in 0 .. Count - 1 : h = Base + i * PaddedSize
    BY <1>5 DEF Heads
  <2>2. i + 1 \in 1 .. Count /\ (i + 1) - 1 = i
    BY Sizes
  <2>3. list[i + 1] = Base + ((i + 1) - 1) * PaddedSize
    BY <1>1, <2>2
  <2>4. list[i + 1] = h
    BY <2>1, <2>2, <2>3
  <2> QED  BY <2>2, <2>4, <1>3 DEF Entries, Range
<1>6. HeldInv
  BY <1>1, <1>2 DEF HeldInv
<1>7. ChunksInv
  BY <1>1, <1>2, <1>3, <1>4, <1>5, Sizes DEF ChunksInv
<1>8. aborted = FALSE /\ alive \in BOOLEAN
  BY Zenon DEF Init
<1> QED  BY <1>6, <1>7, <1>8 DEF IInv

\* A step that leaves the pool alone.
LEMMA StutterInv ==
    ASSUME IInv, UNCHANGED vars
    PROVE  IInv'
<1>1. UNCHANGED <<list, hot_count, cold_count, heap, held>> /\ aborted' = aborted /\ alive' = alive
  BY DEF vars
<1>2. HeldInv'
  BY <1>1 DEF IInv, HeldInv, Out, Block, Bytes
<1>3. ChunksInv'
  BY <1>1 DEF IInv, ChunksInv, Out
<1>4. aborted' = FALSE /\ alive' \in BOOLEAN
  BY <1>1, Zenon DEF IInv
<1> QED  BY <1>2, <1>3, <1>4 DEF IInv

-----------------------------------------------------------------------------
(* The table *)

\* What a step of anybody does to the pool.
PoolStep ==
    \/ \E p : mem_get(p)
    \/ \E p : mem_put(p)
    \/ mem_pool_destroy
    \/ UNCHANGED vars

LEMMA PoolStepInv ==
    ASSUME IInv, PoolStep
    PROVE  IInv'
<1>1. ASSUME NEW p, mem_get(p) PROVE IInv'
  BY <1>1, GetChunkInv, GetHeapInv DEF mem_get
<1>2. ASSUME NEW p, mem_put(p) PROVE IInv'
  BY <1>2, PutInv
<1>3. CASE mem_pool_destroy
  BY <1>3, PoolDestroyInv
<1>4. CASE UNCHANGED vars
  BY <1>4, StutterInv
<1> QED  BY <1>1, <1>2, <1>3, <1>4 DEF PoolStep

\* Every step of the table and of the pool's other users is a step of the pool.
LEMMA HashStepIsPoolStep ==
    ASSUME [HashNext]_allVars
    PROVE  PoolStep
<1>1. CASE rbthash_table_init
  BY <1>1 DEF rbthash_table_init, PoolStep
<1>2. ASSUME NEW t \in Threads, NEW key \in Keys, NEW data \in Data, rbthash_insert(t, key, data)
      PROVE  PoolStep
  BY <1>2 DEF rbthash_insert, init_entry, PoolStep
<1>3. ASSUME NEW t \in Threads, NEW key \in Keys, rbthash_get(t, key) \/ rbthash_remove(t, key)
      PROVE  PoolStep
  BY <1>3, SMTT(40) DEF rbthash_get, rbthash_remove, PoolStep
<1>4. ASSUME NEW t \in Threads,
             PutBack(t) \/ insert_entry(t) \/ deinit_entry(t) \/ ReadData(t) \/ DropEntry(t)
      PROVE  PoolStep
  BY <1>4 DEF PutBack, insert_entry, deinit_entry, ReadData, DropEntry, PutEntry, PoolStep
<1>5. CASE DestroyEntry
  BY <1>5 DEF DestroyEntry, PutEntry, PoolStep
<1>6. CASE rbthash_table_destroy
  BY <1>6 DEF rbthash_table_destroy, PoolStep
<1>7. CASE OtherGets \/ OtherPuts
  BY <1>7 DEF OtherGets, OtherPuts, PoolStep
<1>8. CASE UNCHANGED allVars
  BY <1>8 DEF allVars, PoolStep
<1> QED  BY <1>1, <1>2, <1>3, <1>4, <1>5, <1>6, <1>7, <1>8 DEF HashNext

LEMMA InvImpliesAccounted ==
    ASSUME IInv
    PROVE  PoolAccounted /\ BlocksDisjoint
<1>1. HeldInv /\ ChunksInv
  BY DEF IInv
<1>2. TypeOK
  <2>1. list \in Seq(Heads) /\ heap \subseteq HeapAddrs /\ held \subseteq Nat
    BY <1>1 DEF HeldInv, ChunksInv
  <2>2. hot_count \in 0 .. Count /\ cold_count \in 0 .. Count
    BY <1>1, Sizes DEF ChunksInv
  <2>3. aborted \in BOOLEAN /\ alive \in BOOLEAN
    BY Zenon DEF IInv
  <2> QED  BY <2>1, <2>2, <2>3 DEF TypeOK
<1>3. ASSUME alive PROVE Entries(list) \cup {ptr2chunkhead(p) : p \in Out} = Heads
  <2>1. Entries(list) \subseteq Heads
    BY <1>1 DEF ChunksInv, Entries, Range
  <2>2. ASSUME NEW p \in Out PROVE ptr2chunkhead(p) \in Heads
    BY <1>1, <2>2 DEF HeldInv, ptr2chunkhead
  <2>3. ASSUME NEW h \in Heads PROVE h \in Entries(list) \/ \E p \in Out : h = ptr2chunkhead(p)
    <3>1. h \in Nat /\ h = (h + Pad) - Pad
      BY <2>3, HeadsLemma, Sizes
    <3>2. h \in Entries(list) \/ h + Pad \in Out
      BY <1>1, <1>3, <2>3 DEF ChunksInv
    <3> QED  BY <3>1, <3>2 DEF ptr2chunkhead
  <2> QED  BY <2>1, <2>2, <2>3
<1>4. ChunksAccounted
  BY <1>1, <1>3 DEF ChunksAccounted, ChunksInv, Out
<1>5. PutMatchesGet
  <2>1. heap \subseteq held /\ \A p \in held \ heap : is_member(p) = 1
    BY <1>1, HeldMembers DEF HeldInv
  <2>2. ~aborted
    BY Zenon DEF IInv
  <2> QED  BY <2>1, <2>2 DEF PutMatchesGet
<1> QED  BY <1>1, <1>2, <1>4, <1>5, DisjointLemma DEF PoolAccounted

-----------------------------------------------------------------------------
(* The theorems *)

LEMMA PoolInvariant == HashSpec => []IInv
<1>1. HashInit => IInv
  BY InitInv DEF HashInit
<1>2. IInv /\ [HashNext]_allVars => IInv'
  BY HashStepIsPoolStep, PoolStepInv
<1> QED  BY <1>1, <1>2, PTL DEF HashSpec

\* mem_get and mem_put neither lose a chunk nor count one twice, and mem_put tells a
\* chunk from a block of malloc (__is_member) for every pointer that mem_get returned,
\* so that it never aborts: for objects of every size, pools of every length, and any
\* interleaving of the table's threads with the other users of a shared pool.
THEOREM PoolNeverLosesAChunk == HashSpec => []PoolAccounted
<1>1. IInv => PoolAccounted
  BY InvImpliesAccounted
<1> QED  BY <1>1, PoolInvariant, PTL

\* The memory that mem_get returns overlaps neither another caller's memory nor the
\* list header of a free chunk.
THEOREM CallersMemoryIsDisjoint == HashSpec => []BlocksDisjoint
<1>1. IInv => BlocksDisjoint
  BY InvImpliesAccounted
<1> QED  BY <1>1, PoolInvariant, PTL

-----------------------------------------------------------------------------
(* The table.  Its inductive invariant says where entries are: a tree, the   *)
(* hands of one call, lost, or another user's; and what they hold.           *)

Carrying == {"put", "probe", "deinit", "drop"}

Calls == {Idle} \cup [at : Carrying, entry : Ptrs]
                \cup [at : {"read"}, entry : Ptrs, key : Keys, gone : BOOLEAN]

\* What calls have in their hands; InFlight is Flight(call).
Flight(c) == {c[t].entry : t \in {u \in Threads : c[u].at \in Carrying}}

\* What is in the trees; AllEntries is Planted(buckets).
Planted(bk) == UNION {bk[b] : b \in DOMAIN bk}

\* An entry is in the hands of one call.
OneCall(c) ==
    \A t, u \in Threads :
        c[t].at \in Carrying /\ c[u].at \in Carrying /\ c[t].entry = c[u].entry => t = u

\* An entry is in the bucket of its key, alone with its key.
Trees(bk, en) ==
    /\ \A b \in DOMAIN bk : \A e \in bk[b] : Bucket(en[e].key) = b
    /\ \A b \in DOMAIN bk : \A e, f \in bk[b] : en[e].key = en[f].key => e = f

\* The objects of the entries E: not the caller's, each in one entry, and alive.
Objects(E, en, my, df) ==
    /\ \A e \in E : en[e].key \in Keys /\ en[e].data \in Data /\ en[e].data \notin my
                    /\ df[en[e].data] = 0
    /\ \A e, f \in E : en[e].data = en[f].data => e = f
    /\ \A d \in Data : df[d] \in {0, 1} /\ (df[d] = 1 => d \notin my)

Shape ==
    /\ call \in [Threads -> Calls]
    /\ DOMAIN buckets = 0 .. numbuckets - 1
    /\ DOMAIN entry = Ptrs /\ DOMAIN dfuncs = Data
    /\ mine \subseteq Data
    /\ AllEntries \subseteq Ptrs /\ InFlight \subseteq Ptrs
    /\ leaked \subseteq Ptrs /\ others \subseteq Ptrs

\* Where entries can be, which is one place at a time.
Places ==
    /\ AllEntries \cap InFlight = {} /\ AllEntries \cap leaked = {} /\ AllEntries \cap others = {}
    /\ InFlight \cap leaked = {} /\ InFlight \cap others = {} /\ leaked \cap others = {}
    /\ alive => held = AllEntries \cup InFlight \cup leaked \cup others

Owned == AllEntries \cup InFlight \cup leaked

TableInv ==
    /\ Shape
    /\ OneCall(call)
    /\ Trees(buckets, entry)
    /\ Places
    /\ Objects(Owned, entry, mine, dfuncs)
    /\ GetReadsOwn

-----------------------------------------------------------------------------
(* Calls *)

\* A call takes an entry into its hands; the others keep what they have.
LEMMA FlightGain ==
    ASSUME NEW c, NEW d, NEW t \in Threads, OneCall(c),
           c[t].at \notin Carrying, d[t].at \in Carrying, d[t].entry \notin Flight(c),
           \A u \in Threads : u # t => /\ d[u].at \in Carrying <=> c[u].at \in Carrying
                                       /\ c[u].at \in Carrying => d[u].entry = c[u].entry
    PROVE  Flight(d) = Flight(c) \cup {d[t].entry} /\ OneCall(d)
<1>1. ASSUME NEW e \in Flight(d) PROVE e \in Flight(c) \cup {d[t].entry}
  BY <1>1 DEF Flight
<1>2. ASSUME NEW e \in Flight(c) PROVE e \in Flight(d)
  BY <1>2 DEF Flight
<1>3. d[t].entry \in Flight(d)
  BY DEF Flight
<1>4. ASSUME NEW u \in Threads, NEW v \in Threads, d[u].at \in Carrying, d[v].at \in Carrying,
             d[u].entry = d[v].entry
      PROVE  u = v
  <2>1. \A w \in Threads : w # t /\ d[w].at \in Carrying => d[w].entry \in Flight(c)
    BY DEF Flight
  <2>2. CASE u = t \/ v = t
    BY <2>1, <2>2, <1>4
  <2>3. CASE u # t /\ v # t
    BY <2>3, <1>4 DEF OneCall
  <2> QED  BY <2>2, <2>3
<1> QED  BY <1>1, <1>2, <1>3, <1>4 DEF OneCall

\* A call lets go of its entry.
LEMMA FlightLoss ==
    ASSUME NEW c, NEW d, NEW t \in Threads, OneCall(c),
           c[t].at \in Carrying, d[t].at \notin Carrying,
           \A u \in Threads : u # t => d[u] = c[u]
    PROVE  /\ Flight(d) = Flight(c) \ {c[t].entry} /\ OneCall(d)
           /\ c[t].entry \in Flight(c)
<1>1. ASSUME NEW e \in Flight(d) PROVE e \in Flight(c) /\ e # c[t].entry
  <2>1. PICK u \in Threads : d[u].at \in Carrying /\ e = d[u].entry
    BY <1>1 DEF Flight
  <2> QED  BY <2>1 DEF Flight, OneCall
<1>2. ASSUME NEW e \in Flight(c), e # c[t].entry PROVE e \in Flight(d)
  BY <1>2 DEF Flight
<1>3. c[t].entry \in Flight(c)
  BY DEF Flight
<1>4. OneCall(d)
  <2>1. \A w \in Threads : d[w].at \in Carrying => w # t
    OBVIOUS
  <2> QED  BY <2>1 DEF OneCall
<1> QED  BY <1>1, <1>2, <1>3, <1>4

\* A step that neither takes nor lets go.
LEMMA FlightSame ==
    ASSUME NEW c, NEW d, OneCall(c),
           \A u \in Threads : /\ d[u].at \in Carrying <=> c[u].at \in Carrying
                              /\ c[u].at \in Carrying => d[u].entry = c[u].entry
    PROVE  Flight(d) = Flight(c) /\ OneCall(d)
<1>1. Flight(d) \subseteq Flight(c) /\ Flight(c) \subseteq Flight(d)
  BY DEF Flight
<1>2. OneCall(d)
  BY DEF OneCall
<1> QED  BY <1>1, <1>2

-----------------------------------------------------------------------------
(* Buckets *)

\* rb_probe puts an entry with a new key into the bucket of the key.
LEMMA Planting ==
    ASSUME NEW bk, NEW en, NEW e, NEW b \in DOMAIN bk, Trees(bk, en), Bucket(en[e].key) = b,
           \A f \in bk[b] : en[f].key # en[e].key
    PROVE  /\ Trees([bk EXCEPT ![b] = @ \cup {e}], en)
           /\ Planted([bk EXCEPT ![b] = @ \cup {e}]) = Planted(bk) \cup {e}
<1> DEFINE new == [bk EXCEPT ![b] = @ \cup {e}]
<1>1. DOMAIN new = DOMAIN bk /\ new[b] = bk[b] \cup {e} /\ \A c \in DOMAIN bk : c # b => new[c] = bk[c]
  OBVIOUS
<1> HIDE DEF new
<1>2. Trees(new, en)
  BY <1>1 DEF Trees
<1>3. Planted(new) = Planted(bk) \cup {e}
  BY <1>1 DEF Planted
<1> QED  BY <1>2, <1>3 DEF new

\* rb_delete, rb_destroy.
LEMMA Uprooting ==
    ASSUME NEW bk, NEW en, NEW b \in DOMAIN bk, NEW e \in bk[b], Trees(bk, en)
    PROVE  /\ Trees([bk EXCEPT ![b] = @ \ {e}], en)
           /\ Planted([bk EXCEPT ![b] = @ \ {e}]) = Planted(bk) \ {e}
           /\ e \in Planted(bk)
<1> DEFINE new == [bk EXCEPT ![b] = @ \ {e}]
<1>1. DOMAIN new = DOMAIN bk /\ new[b] = bk[b] \ {e} /\ \A c \in DOMAIN bk : c # b => new[c] = bk[c]
  OBVIOUS
<1> HIDE DEF new
<1>2. Trees(new, en)
  BY <1>1 DEF Trees
<1>3. \A c \in DOMAIN bk : e \in bk[c] => c = b
  BY DEF Trees
<1>4. Planted(new) = Planted(bk) \ {e}
  BY <1>1, <1>3 DEF Planted
<1>5. e \in Planted(bk)
  BY DEF Planted
<1> QED  BY <1>2, <1>4, <1>5 DEF new

\* An entry that is not in a tree can be written.
LEMMA TreesKept ==
    ASSUME NEW bk, NEW en, NEW p, NEW x, Trees(bk, en), p \notin Planted(bk),
           Planted(bk) \subseteq DOMAIN en
    PROVE  Trees(bk, [en EXCEPT ![p] = x])
<1> DEFINE new == [en EXCEPT ![p] = x]
<1>1. \A e \in Planted(bk) : new[e] = en[e]
  OBVIOUS
<1> HIDE DEF new
<1>2. \A b \in DOMAIN bk : \A e \in bk[b] : e \in Planted(bk)
  BY DEF Planted
<1>3. Trees(bk, new)
  BY <1>1, <1>2 DEF Trees
<1> QED  BY <1>3 DEF new

-----------------------------------------------------------------------------
(* Objects *)

\* rbthash_init_entry: a new entry takes an object of the caller.
LEMMA ObjectTaken ==
    ASSUME NEW E, NEW en, NEW my, NEW df, Objects(E, en, my, df), DOMAIN en = Ptrs, E \subseteq Ptrs,
           NEW p \in Ptrs, p \notin E, NEW key \in Keys, NEW data \in my, my \subseteq Data
    PROVE  Objects(E \cup {p}, [en EXCEPT ![p] = [key |-> key, data |-> data]], my \ {data}, df)
<1> DEFINE new == [en EXCEPT ![p] = [key |-> key, data |-> data]]
<1>1. /\ new[p].key = key /\ new[p].data = data
      /\ \A e \in E : e # p /\ new[e] = en[e]
  OBVIOUS
<1> HIDE DEF new
<1>2. data \in Data /\ df[data] = 0 /\ \A e \in E : en[e].data # data
  BY DEF Objects
<1>3. ASSUME NEW e \in E \cup {p}
      PROVE  new[e].key \in Keys /\ new[e].data \in Data /\ new[e].data \notin my \ {data}
             /\ df[new[e].data] = 0
  BY <1>1, <1>2, <1>3 DEF Objects
<1>4. ASSUME NEW e \in E \cup {p}, NEW f \in E \cup {p}, new[e].data = new[f].data PROVE e = f
  BY <1>1, <1>2, <1>4 DEF Objects
<1>5. \A d \in Data : df[d] \in {0, 1} /\ (df[d] = 1 => d \notin my \ {data})
  BY DEF Objects
<1>6. Objects(E \cup {p}, new, my \ {data}, df)
  BY <1>3, <1>4, <1>5 DEF Objects
<1> QED  BY <1>6 DEF new

\* An entry goes back to the pool and its object to the caller.
LEMMA ObjectReturned ==
    ASSUME NEW E, NEW en, NEW my, NEW df, Objects(E, en, my, df), DOMAIN en = Ptrs, E \subseteq Ptrs,
           NEW p \in E
    PROVE  /\ Objects(E \ {p}, [en EXCEPT ![p] = NoEntry], my \cup {en[p].data}, df)
           /\ en[p].data \in Data
<1> DEFINE new == [en EXCEPT ![p] = NoEntry]
<1>1. \A e \in E \ {p} : new[e] = en[e]
  OBVIOUS
<1> HIDE DEF new
<1>2. en[p].data \in Data /\ df[en[p].data] = 0 /\ \A e \in E \ {p} : en[e].data # en[p].data
  BY DEF Objects
<1>3. ASSUME NEW e \in E \ {p}
      PROVE  new[e].key \in Keys /\ new[e].data \in Data /\ new[e].data \notin my \cup {en[p].data}
             /\ df[new[e].data] = 0
  BY <1>1, <1>2, <1>3 DEF Objects
<1>4. ASSUME NEW e \in E \ {p}, NEW f \in E \ {p}, new[e].data = new[f].data PROVE e = f
  BY <1>1, <1>4 DEF Objects
<1>5. \A d \in Data : df[d] \in {0, 1} /\ (df[d] = 1 => d \notin my \cup {en[p].data})
  BY <1>2 DEF Objects
<1>6. Objects(E \ {p}, new, my \cup {en[p].data}, df)
  BY <1>3, <1>4, <1>5 DEF Objects
<1> QED  BY <1>2, <1>6 DEF new

\* An entry goes back to the pool and its object to dfunc.
LEMMA ObjectDestroyed ==
    ASSUME NEW E, NEW en, NEW my, NEW df, Objects(E, en, my, df), DOMAIN en = Ptrs, E \subseteq Ptrs,
           DOMAIN df = Data, NEW p \in E
    PROVE  Objects(E \ {p}, [en EXCEPT ![p] = NoEntry], my, [df EXCEPT ![en[p].data] = @ + 1])
<1> DEFINE new == [en EXCEPT ![p] = NoEntry]
           o == en[p].data
           dead == [df EXCEPT ![o] = @ + 1]
<1>1. \A e \in E \ {p} : new[e] = en[e]
  OBVIOUS
<1> HIDE DEF new
<1>2. o \in Data /\ o \notin my /\ df[o] = 0 /\ \A e \in E \ {p} : en[e].data # o
  BY DEF Objects
<1> HIDE DEF o
<1>3. dead[o] = 1 /\ \A d \in Data : d # o => dead[d] = df[d]
  BY <1>2
<1> HIDE DEF dead
<1>4. ASSUME NEW e \in E \ {p}
      PROVE  new[e].key \in Keys /\ new[e].data \in Data /\ new[e].data \notin my
             /\ dead[new[e].data] = 0
  BY <1>1, <1>2, <1>3, <1>4 DEF Objects
<1>5. ASSUME NEW e \in E \ {p}, NEW f \in E \ {p}, new[e].data = new[f].data PROVE e = f
  BY <1>1, <1>5 DEF Objects
<1>6. \A d \in Data : dead[d] \in {0, 1} /\ (dead[d] = 1 => d \notin my)
  BY <1>2, <1>3 DEF Objects
<1>7. Objects(E \ {p}, new, my, dead)
  BY <1>4, <1>5, <1>6 DEF Objects
<1> QED  BY <1>7 DEF new, dead, o

-----------------------------------------------------------------------------
(* The steps of the table *)

LEMMA BucketType == \A key \in Keys : Bucket(key) \in 0 .. numbuckets - 1
<1>1. numbuckets \in Nat \ {0} /\ \A key \in Keys : Hash[key] \in Nat
  BY HashAssumption
<1>2. \A n \in Nat : n % numbuckets \in 0 .. numbuckets - 1
  BY <1>1
<1> QED  BY <1>1, <1>2 DEF Bucket

\* mem_get never returns what somebody has.
LEMMA GetFresh ==
    ASSUME IInv, NEW p \in Ptrs, mem_get(p)
    PROVE  p \notin held /\ held' = held \cup {p} /\ alive /\ alive' = alive
<1>0. p # NULL
  BY NullAssumption
<1>1. HeldInv /\ ChunksInv
  BY DEF IInv
<1>2. ASSUME GetChunk(p) PROVE p \notin held
  <2>1. alive /\ cold_count # 0 /\ p = Head(list) + Pad
    BY <1>2 DEF GetChunk, chunkhead2ptr
  <2>2. list \in Seq(Heads) /\ Len(list) = cold_count
    BY <1>1, <2>1 DEF ChunksInv
  <2>3. list # <<>>
    BY <2>1, <2>2
  <2>4. 1 \in DOMAIN list /\ Head(list) = list[1] /\ Head(list) \in Heads
    BY <2>2, <2>3
  <2>5. PICK h \in Heads : h = Head(list) /\ h \in Entries(list)
    BY <2>4 DEF Entries, Range
  <2>6. is_member(p) = 1 /\ p - Pad = h
    BY <2>1, <2>5, ChunkIsMember, HeadsLemma, Sizes
  <2>7. p \notin heap
    <3>1. ASSUME p \in heap PROVE is_member(p) = 0
      <4>1. p \in HeapAddrs
        BY <1>1, <3>1 DEF HeldInv
      <4> QED  BY <4>1, HeapIsNotMember
    <3> QED  BY <2>6, <3>1
  <2>8. p \notin Out
    BY <1>1, <2>5, <2>6 DEF HeldInv
  <2> QED  BY <2>7, <2>8 DEF Out
<1>3. ASSUME GetHeap(p) PROVE p \notin held
  <2>1. p \in HeapAddrs /\ \A h \in heap : Block(p) \cap Block(h) = {}
    BY <1>0, <1>3 DEF GetHeap
  <2>2. p \in Nat /\ is_member(p) = 0
    BY <2>1, HeapIsNotMember
  <2>3. p \in Block(p)
    BY <2>2, Sizes DEF Block, Bytes
  <2>4. p \notin heap
    BY <2>1, <2>3
  <2>5. p \in held => p \in heap
    BY <1>1, <2>2, HeldMembers
  <2> QED  BY <2>4, <2>5
<1>4. p \notin held
  BY <1>2, <1>3 DEF mem_get
<1>5. held' = held \cup {p}
  BY <1>0 DEF mem_get, GetChunk, GetHeap
<1>6. alive /\ alive' = alive
  BY Zenon DEF mem_get, GetChunk, GetHeap
<1> QED  BY <1>4, <1>5, <1>6

LEMMA PutGives ==
    ASSUME NEW p, mem_put(p)
    PROVE  p \in held /\ held' = held \ {p} /\ alive /\ alive' = alive
BY Zenon DEF mem_put

\* What TableInv says of the sets.
LEMMA Sets == AllEntries = Planted(buckets) /\ InFlight = Flight(call)
BY DEF AllEntries, Planted, InFlight, Flight, Carrying

LEMMA SetsNext == AllEntries' = Planted(buckets') /\ InFlight' = Flight(call')
BY DEF AllEntries, Planted, InFlight, Flight, Carrying

\* An entry that is found is in a tree.
LEMMA InBucketPlanted ==
    ASSUME Shape, NEW key \in Keys
    PROVE  InBucket(key) \subseteq AllEntries
<1>1. Bucket(key) \in DOMAIN buckets
  BY BucketType DEF Shape
<1> QED  BY <1>1 DEF InBucket, AllEntries

\* Readers are left alone by a step that keeps entries where they are.
LEMMA ReadersKept ==
    ASSUME Shape, GetReadsOwn, NEW d, call' = d,
           \A t \in Threads : d[t].at = "read" => d[t] = call[t],
           \A key \in Keys : InBucket(key) \subseteq InBucket(key)'
    PROVE  GetReadsOwn'
<1> SUFFICES ASSUME NEW t \in Threads, d[t].at = "read", ~d[t].gone
             PROVE  d[t].entry \in InBucket(d[t].key)'
  BY DEF GetReadsOwn
<1>1. d[t] = call[t]
  OBVIOUS
<1>2. call[t] \in Calls /\ call[t].at = "read"
  BY <1>1 DEF Shape
<1>3. call[t].key \in Keys
  BY <1>2 DEF Calls, Idle, Carrying
<1>4. ~call[t].gone
  BY <1>1, Zenon
<1>5. call[t].entry \in InBucket(call[t].key)
  BY <1>2, <1>4 DEF GetReadsOwn
<1> QED  BY <1>1, <1>3, <1>5

\* The same when only an entry that is in no tree is written.
LEMMA BucketsKept ==
    ASSUME Shape, NEW p, p \notin AllEntries, NEW x,
           entry' = [entry EXCEPT ![p] = x], buckets' = buckets
    PROVE  \A key \in Keys : InBucket(key) \subseteq InBucket(key)'
<1> SUFFICES ASSUME NEW key \in Keys, NEW e \in InBucket(key)
             PROVE  e \in InBucket(key)'
  OBVIOUS
<1>1. e \in AllEntries
  BY InBucketPlanted
<1>2. e \in Ptrs /\ e # p
  BY <1>1 DEF Shape
<1>3. entry'[e] = entry[e]
  BY <1>2 DEF Shape
<1> QED  BY <1>3 DEF InBucket

LEMMA GetNothing ==
    ASSUME IInv, mem_get(NULL)
    PROVE  held' = held /\ alive' = alive
<1>1. ASSUME GetChunk(NULL) PROVE FALSE
  <2>1. alive /\ cold_count # 0 /\ NULL = chunkhead2ptr(Head(list))
    BY <1>1 DEF GetChunk
  <2>2. list \in Seq(Heads) /\ Len(list) = cold_count
    BY <2>1 DEF IInv, ChunksInv
  <2>3. list # <<>>
    BY <2>1, <2>2
  <2>4. Head(list) \in Heads
    BY <2>2, <2>3
  <2> QED  BY <2>1, <2>4, NullAssumption DEF Ptrs
<1>2. GetHeap(NULL)
  BY <1>1 DEF mem_get
<1>3. held' = held
  BY <1>2 DEF GetHeap
<1>4. alive' = alive
  BY <1>2, Zenon DEF GetHeap
<1> QED  BY <1>3, <1>4

\* A step that leaves the table alone.
LEMMA TableSame ==
    ASSUME TableInv, UNCHANGED <<buckets, entry, call, leaked, others, mine, dfuncs>>,
           alive' => alive /\ held' = held
    PROVE  TableInv'
<1>1. /\ buckets' = buckets /\ entry' = entry /\ call' = call /\ leaked' = leaked
      /\ others' = others /\ mine' = mine /\ dfuncs' = dfuncs
  OBVIOUS
<1>2. AllEntries' = AllEntries /\ InFlight' = InFlight
  BY <1>1 DEF AllEntries, InFlight
<1>3. Owned' = Owned
  BY <1>1, <1>2 DEF Owned
<1>4. Shape'
  BY <1>1, <1>2 DEF TableInv, Shape
<1>5. Places'
  BY <1>1, <1>2 DEF TableInv, Places
<1>6. GetReadsOwn'
  BY <1>1, Zenon DEF TableInv, GetReadsOwn, InBucket
<1> QED  BY <1>1, <1>3, <1>4, <1>5, <1>6 DEF TableInv

LEMMA InsertInv ==
    ASSUME IInv, TableInv, NEW t \in Threads, NEW key \in Keys, NEW data \in Data,
           rbthash_insert(t, key, data)
    PROVE  TableInv'
<1>0. /\ call[t] = Idle /\ data \in mine /\ init_entry(t, key, data)
      /\ buckets' = buckets /\ leaked' = leaked /\ others' = others /\ dfuncs' = dfuncs
  BY DEF rbthash_insert
<1>1. PICK p \in Ptrs \cup {NULL} :
         /\ mem_get(p)
         /\ IF p = NULL
            THEN UNCHANGED <<entry, call, mine>>
            ELSE \E memory \in BOOLEAN :
                    /\ entry' = [entry EXCEPT ![p] = [key |-> key, data |-> data]]
                    /\ mine' = mine \ {data}
                    /\ call' = [call EXCEPT ![t] = [at |-> IF memory THEN "probe" ELSE "put",
                                                    entry |-> p]]
  BY <1>0 DEF init_entry
<1>2. CASE p = NULL
  <2>1. held' = held /\ alive' = alive
    BY <1>1, <1>2, GetNothing
  <2> QED  BY <2>1, <1>0, <1>1, <1>2, TableSame, Zenon
<1>3. CASE p # NULL
  <2>1. p \in Ptrs /\ mem_get(p) /\ entry' = [entry EXCEPT ![p] = [key |-> key, data |-> data]]
        /\ mine' = mine \ {data}
    BY <1>1, <1>3
  <2>2. PICK at \in {"probe", "put"} : call' = [call EXCEPT ![t] = [at |-> at, entry |-> p]]
    <3>1. PICK memory \in BOOLEAN :
              call' = [call EXCEPT ![t] = [at |-> IF memory THEN "probe" ELSE "put", entry |-> p]]
      BY <1>1, <1>3, Zenon
    <3>2. (IF memory THEN "probe" ELSE "put") \in {"probe", "put"}
      BY Zenon
    <3> QED  BY <3>1, <3>2, Zenon
  <2>3. p \notin held /\ held' = held \cup {p} /\ alive /\ alive' = alive
    BY <2>1, GetFresh
  <2> DEFINE d == [call EXCEPT ![t] = [at |-> at, entry |-> p]]
  <2>4. call \in [Threads -> Calls]
    BY DEF TableInv, Shape
  <2>5. /\ d \in [Threads -> Calls] /\ d[t].at \in Carrying /\ d[t].entry = p /\ d[t].at # "read"
        /\ \A u \in Threads : u # t => d[u] = call[u]
    <3>1. [at |-> at, entry |-> p] \in Calls
      BY <2>1 DEF Calls, Carrying
    <3> QED  BY <3>1, <2>4 DEF Carrying
  <2>6. call' = d
    BY <2>2
  <2> HIDE DEF d
  <2>7. call[t].at \notin Carrying
    BY <1>0 DEF Idle, Carrying
  <2>8. p \notin AllEntries /\ p \notin InFlight /\ p \notin leaked /\ p \notin others
    BY <2>3 DEF TableInv, Places
  <2>9. Flight(d) = Flight(call) \cup {p} /\ OneCall(d)
    <3>1. OneCall(call) /\ d[t].entry \notin Flight(call)
      BY <2>5, <2>8, Sets DEF TableInv
    <3>2. \A u \in Threads : u # t => /\ d[u].at \in Carrying <=> call[u].at \in Carrying
                                      /\ call[u].at \in Carrying => d[u].entry = call[u].entry
      BY <2>5
    <3> QED  BY <3>1, <3>2, <2>5, <2>7, FlightGain
  <2>10. AllEntries' = AllEntries /\ InFlight' = InFlight \cup {p}
    BY <2>6, <2>9, <1>0, Sets, SetsNext
  <2>11. Owned' = Owned \cup {p} /\ p \notin Owned
    BY <2>8, <2>10, <1>0 DEF Owned
  <2>12. Shape'
    <3>1. DOMAIN entry' = Ptrs
      BY <2>1 DEF TableInv, Shape
    <3>2. mine' \subseteq Data
      BY <2>1 DEF TableInv, Shape
    <3>3. AllEntries' \subseteq Ptrs /\ InFlight' \subseteq Ptrs
      BY <2>1, <2>10 DEF TableInv, Shape
    <3> QED  BY <3>1, <3>2, <3>3, <2>5, <2>6, <1>0 DEF TableInv, Shape
  <2>13. Trees(buckets', entry')
    <3>1. Planted(buckets) \subseteq DOMAIN entry /\ p \notin Planted(buckets)
      BY <2>8, Sets DEF TableInv, Shape
    <3>2. Trees(buckets, [entry EXCEPT ![p] = [key |-> key, data |-> data]])
      BY <3>1, TreesKept DEF TableInv
    <3> QED  BY <3>2, <2>1, <1>0
  <2>14. Places'
    BY <2>3, <2>8, <2>10, <1>0 DEF TableInv, Places
  <2>15. Objects(Owned', entry', mine', dfuncs')
    <3>1. Owned \subseteq Ptrs /\ DOMAIN entry = Ptrs /\ mine \subseteq Data
      BY DEF TableInv, Shape, Owned
    <3>2. Objects(Owned \cup {p}, [entry EXCEPT ![p] = [key |-> key, data |-> data]],
                  mine \ {data}, dfuncs)
      BY <3>1, <2>1, <2>11, <1>0, ObjectTaken DEF TableInv
    <3> QED  BY <3>2, <2>1, <2>11, <1>0
  <2>16. GetReadsOwn'
    <3>1. \A k \in Keys : InBucket(k) \subseteq InBucket(k)'
      BY <2>1, <2>8, <1>0, BucketsKept DEF TableInv
    <3>2. \A u \in Threads : d[u].at = "read" => d[u] = call[u]
      BY <2>5
    <3> QED  BY <3>1, <3>2, <2>6, ReadersKept DEF TableInv
  <2> QED  BY <2>6, <2>9, <2>12, <2>13, <2>14, <2>15, <2>16 DEF TableInv
<1> QED  BY <1>2, <1>3

\* A call ends and has nothing in its hands any more.
LEMMA LetGo ==
    ASSUME Shape, OneCall(call), NEW t \in Threads, call[t].at \in Carrying,
           call' = [call EXCEPT ![t] = Idle]
    PROVE  /\ call' \in [Threads -> Calls] /\ OneCall(call')
           /\ InFlight' = InFlight \ {call[t].entry} /\ call[t].entry \in InFlight
           /\ \A u \in Threads : call'[u].at = "read" => call'[u] = call[u]
<1>1. PICK d : d = [call EXCEPT ![t] = Idle]
  OBVIOUS
<1>2. call \in [Threads -> Calls] /\ Idle \in Calls
  BY DEF Shape, Calls
<1>3. d \in [Threads -> Calls] /\ d[t] = Idle /\ \A u \in Threads : u # t => d[u] = call[u]
  BY <1>1, <1>2
<1>4. d[t].at \notin Carrying /\ d[t].at # "read"
  BY <1>3 DEF Idle, Carrying
<1>5. Flight(d) = Flight(call) \ {call[t].entry} /\ OneCall(d) /\ call[t].entry \in Flight(call)
  BY <1>3, <1>4, FlightLoss
<1>6. call' = d
  BY <1>1
<1>7. \A u \in Threads : d[u].at = "read" => d[u] = call[u]
  BY <1>3, <1>4
<1> QED  BY <1>3, <1>5, <1>6, <1>7, Sets, SetsNext

\* A call gives its entry back to the pool.
LEMMA EntryPutBack ==
    ASSUME TableInv, NEW t \in Threads, call[t].at \in Carrying,
           NEW e, e = call[t].entry, PutEntry(e), call' = [call EXCEPT ![t] = Idle],
           buckets' = buckets, leaked' = leaked, others' = others,
           mine' \subseteq Data, DOMAIN dfuncs' = Data,
           Objects(Owned \ {e}, [entry EXCEPT ![e] = NoEntry], mine', dfuncs')
    PROVE  TableInv'
<1>1. /\ call' \in [Threads -> Calls] /\ OneCall(call')
      /\ InFlight' = InFlight \ {e} /\ e \in InFlight
      /\ \A u \in Threads : call'[u].at = "read" => call'[u] = call[u]
  BY LetGo DEF TableInv
<1>2. entry' = [entry EXCEPT ![e] = NoEntry] /\ held' = held \ {e} /\ alive' = alive
  BY PutGives DEF PutEntry
<1>3. e \in Ptrs /\ e \notin AllEntries /\ e \notin leaked /\ e \notin others
  BY <1>1 DEF TableInv, Shape, Places
<1>4. AllEntries' = AllEntries
  BY DEF AllEntries
<1>5. Owned' = Owned \ {e}
  BY <1>1, <1>3, <1>4 DEF Owned
<1>6. Shape'
  <2>1. DOMAIN entry' = Ptrs
    BY <1>2 DEF TableInv, Shape
  <2>2. AllEntries' \subseteq Ptrs /\ InFlight' \subseteq Ptrs
    BY <1>1, <1>4 DEF TableInv, Shape
  <2> QED  BY <1>1, <2>1, <2>2 DEF TableInv, Shape
<1>7. Trees(buckets', entry')
  <2>1. Planted(buckets) \subseteq DOMAIN entry /\ e \notin Planted(buckets)
    BY <1>3, Sets DEF TableInv, Shape
  <2>2. Trees(buckets, [entry EXCEPT ![e] = NoEntry])
    BY <2>1, TreesKept DEF TableInv
  <2> QED  BY <2>2, <1>2
<1>8. Places'
  BY <1>1, <1>2, <1>3, <1>4 DEF TableInv, Places
<1>9. Objects(Owned', entry', mine', dfuncs')
  BY <1>2, <1>5
<1>10. GetReadsOwn'
  <2>1. \A k \in Keys : InBucket(k) \subseteq InBucket(k)'
    BY <1>2, <1>3, BucketsKept DEF TableInv
  <2>2. PICK d : d = call'
    OBVIOUS
  <2>3. \A u \in Threads : d[u].at = "read" => d[u] = call[u]
    BY <1>1, <2>2
  <2> QED  BY <2>1, <2>2, <2>3, ReadersKept DEF TableInv
<1> QED  BY <1>1, <1>6, <1>7, <1>8, <1>9, <1>10 DEF TableInv

\* What is in a call's hands.
LEMMA Carried ==
    ASSUME TableInv, NEW t \in Threads, call[t].at \in Carrying
    PROVE  /\ call[t].entry \in InFlight /\ call[t].entry \in Owned /\ Owned \subseteq Ptrs
           /\ call[t].entry \notin AllEntries
           /\ DOMAIN entry = Ptrs /\ DOMAIN dfuncs = Data /\ mine \subseteq Data
           /\ Objects(Owned, entry, mine, dfuncs)
<1>1. call[t].entry \in InFlight
  BY DEF InFlight, Carrying
<1> QED  BY <1>1 DEF TableInv, Shape, Places, Owned

LEMMA ReturnInv ==
    ASSUME TableInv, NEW t \in Threads, PutBack(t) \/ DropEntry(t)
    PROVE  TableInv'
<1>1. PICK e : e = call[t].entry
  OBVIOUS
<1>2. /\ call[t].at \in Carrying /\ mine' = mine \cup {entry[e].data} /\ PutEntry(e)
      /\ call' = [call EXCEPT ![t] = Idle]
      /\ buckets' = buckets /\ leaked' = leaked /\ others' = others /\ dfuncs' = dfuncs
  BY <1>1 DEF PutBack, DropEntry, Carrying
<1>3. /\ e \in Owned /\ Owned \subseteq Ptrs /\ DOMAIN entry = Ptrs /\ DOMAIN dfuncs = Data
      /\ mine \subseteq Data /\ Objects(Owned, entry, mine, dfuncs)
  BY <1>1, <1>2, Carried
<1>4. /\ Objects(Owned \ {e}, [entry EXCEPT ![e] = NoEntry], mine \cup {entry[e].data}, dfuncs)
      /\ entry[e].data \in Data
  BY <1>3, ObjectReturned
<1> QED  BY <1>1, <1>2, <1>3, <1>4, EntryPutBack

LEMMA DeinitInv ==
    ASSUME TableInv, NEW t \in Threads, deinit_entry(t)
    PROVE  TableInv'
<1>1. PICK e : e = call[t].entry
  OBVIOUS
<1>2. /\ call[t].at \in Carrying /\ dfuncs' = [dfuncs EXCEPT ![entry[e].data] = @ + 1]
      /\ PutEntry(e) /\ call' = [call EXCEPT ![t] = Idle]
      /\ buckets' = buckets /\ leaked' = leaked /\ others' = others /\ mine' = mine
  BY <1>1 DEF deinit_entry, Carrying
<1>3. /\ e \in Owned /\ Owned \subseteq Ptrs /\ DOMAIN entry = Ptrs /\ DOMAIN dfuncs = Data
      /\ mine \subseteq Data /\ Objects(Owned, entry, mine, dfuncs)
  BY <1>1, <1>2, Carried
<1>4. Objects(Owned \ {e}, [entry EXCEPT ![e] = NoEntry], mine,
              [dfuncs EXCEPT ![entry[e].data] = @ + 1])
  BY <1>3, ObjectDestroyed
<1>5. DOMAIN dfuncs' = Data
  BY <1>2, <1>3
<1> QED  BY <1>1, <1>2, <1>3, <1>4, <1>5, EntryPutBack

LEMMA InsertEntryInv ==
    ASSUME TableInv, NEW t \in Threads, insert_entry(t)
    PROVE  TableInv'
<1>1. PICK e, key : e = call[t].entry /\ key = entry[e].key
  OBVIOUS
<1>2. /\ call[t].at = "probe" /\ held' = held /\ alive' = alive
      /\ entry' = entry /\ others' = others /\ mine' = mine /\ dfuncs' = dfuncs
  BY Zenon DEF insert_entry, vars
<1>3. call[t].at \in Carrying
  BY <1>2 DEF Carrying
<1>4. /\ e \in InFlight /\ e \in Owned /\ e \notin AllEntries /\ e \in Ptrs /\ key \in Keys
  BY <1>1, <1>3, Carried DEF Objects
<1>5. DOMAIN entry' = Ptrs /\ DOMAIN dfuncs' = Data /\ mine' \subseteq Data
  BY <1>2 DEF TableInv, Shape
<1>6. CASE /\ InBucket(key) = {}
           /\ buckets' = [buckets EXCEPT ![Bucket(key)] = @ \cup {e}]
           /\ call' = [call EXCEPT ![t] = Idle]
           /\ leaked' = leaked
  <2>1. /\ call' \in [Threads -> Calls] /\ OneCall(call')
        /\ InFlight' = InFlight \ {e}
        /\ \A u \in Threads : call'[u].at = "read" => call'[u] = call[u]
    BY <1>1, <1>3, <1>6, LetGo DEF TableInv
  <2>2. PICK b \in DOMAIN buckets : b = Bucket(key)
    BY <1>4, BucketType DEF TableInv, Shape
  <2>3. \A f \in buckets[b] : entry[f].key # entry[e].key
    BY <1>1, <1>6, <2>2 DEF InBucket
  <2>4. /\ Trees([buckets EXCEPT ![b] = @ \cup {e}], entry)
        /\ Planted([buckets EXCEPT ![b] = @ \cup {e}]) = Planted(buckets) \cup {e}
    <3>1. Trees(buckets, entry) /\ Bucket(entry[e].key) = b
      BY <1>1, <2>2 DEF TableInv
    <3> QED  BY <2>3, <3>1, Planting, ZenonT(40)
  <2>5. buckets' = [buckets EXCEPT ![b] = @ \cup {e}]
    BY <1>6, <2>2
  <2>6. Trees(buckets', entry') /\ AllEntries' = AllEntries \cup {e}
    BY <2>4, <2>5, <1>2, Sets, SetsNext
  <2>7. Owned' = Owned
    BY <2>1, <2>6, <1>4, <1>6 DEF Owned
  <2>8. Shape'
    <3>1. DOMAIN buckets' = 0 .. numbuckets - 1
      BY <2>5 DEF TableInv, Shape
    <3>2. AllEntries' \subseteq Ptrs /\ InFlight' \subseteq Ptrs
      BY <2>1, <2>6, <1>4 DEF TableInv, Shape
    <3> QED  BY <3>1, <3>2, <2>1, <1>2, <1>5, <1>6 DEF TableInv, Shape
  <2>9. Places'
    BY <2>1, <2>6, <1>2, <1>4, <1>6 DEF TableInv, Places
  <2>10. Objects(Owned', entry', mine', dfuncs')
    BY <2>7, <1>2 DEF TableInv
  <2>11. GetReadsOwn'
    <3>1. \A k \in DOMAIN buckets : buckets[k] \subseteq buckets'[k]
      BY <2>5
    <3>2. \A k \in Keys : Bucket(k) \in DOMAIN buckets
      BY BucketType DEF TableInv, Shape
    <3>3. \A k \in Keys : InBucket(k) \subseteq InBucket(k)'
      BY <3>1, <3>2, <1>2 DEF InBucket
    <3>4. PICK d : d = call'
      OBVIOUS
    <3>5. \A u \in Threads : d[u].at = "read" => d[u] = call[u]
      BY <2>1, <3>4
    <3> QED  BY <3>3, <3>4, <3>5, ReadersKept DEF TableInv
  <2> QED  BY <2>1, <2>6, <2>8, <2>9, <2>10, <2>11 DEF TableInv
<1>7. CASE /\ leaked' = leaked \cup {e}
           /\ call' = [call EXCEPT ![t] = Idle]
           /\ buckets' = buckets
  <2>1. /\ call' \in [Threads -> Calls] /\ OneCall(call')
        /\ InFlight' = InFlight \ {e}
        /\ \A u \in Threads : call'[u].at = "read" => call'[u] = call[u]
    BY <1>1, <1>3, <1>7, LetGo DEF TableInv
  <2>2. AllEntries' = AllEntries
    BY <1>7 DEF AllEntries
  <2>3. Owned' = Owned
    BY <2>1, <2>2, <1>4, <1>7 DEF Owned
  <2>4. Shape'
    <3>1. AllEntries' \subseteq Ptrs /\ InFlight' \subseteq Ptrs /\ leaked' \subseteq Ptrs
      BY <2>1, <2>2, <1>4, <1>7 DEF TableInv, Shape
    <3> QED  BY <3>1, <2>1, <1>2, <1>5, <1>7 DEF TableInv, Shape
  <2>5. Places'
    BY <2>1, <2>2, <1>2, <1>4, <1>7 DEF TableInv, Places
  <2>6. Trees(buckets', entry') /\ Objects(Owned', entry', mine', dfuncs')
    BY <2>3, <1>2, <1>7 DEF TableInv
  <2>7. GetReadsOwn'
    <3>1. \A k \in Keys : InBucket(k) \subseteq InBucket(k)'
      BY <1>2, <1>7 DEF InBucket
    <3>2. PICK d : d = call'
      OBVIOUS
    <3>3. \A u \in Threads : d[u].at = "read" => d[u] = call[u]
      BY <2>1, <3>2
    <3> QED  BY <3>1, <3>2, <3>3, ReadersKept DEF TableInv
  <2> QED  BY <2>1, <2>4, <2>5, <2>6, <2>7 DEF TableInv
<1>8. CASE call' = [call EXCEPT ![t].at = "deinit"] /\ buckets' = buckets /\ leaked' = leaked
  <2>1. PICK d : d = [call EXCEPT ![t].at = "deinit"]
    OBVIOUS
  <2>2. call \in [Threads -> Calls]
    BY DEF TableInv, Shape
  <2>3. call[t] \in [at : Carrying, entry : Ptrs]
    BY <1>2, <2>2 DEF Calls, Idle, Carrying
  <2>4. /\ d \in [Threads -> Calls] /\ d[t].at = "deinit" /\ d[t].entry = call[t].entry
        /\ \A u \in Threads : u # t => d[u] = call[u]
    BY <2>1, <2>2, <2>3 DEF Calls, Carrying
  <2>5. call' = d
    BY <1>8, <2>1
  <2>6. Flight(d) = Flight(call) /\ OneCall(d)
    <3>1. OneCall(call)
      BY DEF TableInv
    <3>2. \A u \in Threads : /\ d[u].at \in Carrying <=> call[u].at \in Carrying
                             /\ call[u].at \in Carrying => d[u].entry = call[u].entry
      BY <2>4, <1>3 DEF Carrying
    <3> QED  BY <3>1, <3>2, FlightSame
  <2>7. AllEntries' = AllEntries /\ InFlight' = InFlight /\ Owned' = Owned
    BY <2>5, <2>6, <1>8, Sets, SetsNext DEF Owned
  <2>8. Shape'
    BY <2>4, <2>5, <2>7, <1>2, <1>8 DEF TableInv, Shape
  <2>9. Places'
    BY <2>7, <1>2, <1>8 DEF TableInv, Places
  <2>10. Trees(buckets', entry') /\ Objects(Owned', entry', mine', dfuncs')
    BY <2>7, <1>2, <1>8 DEF TableInv
  <2>11. GetReadsOwn'
    <3>1. \A k \in Keys : InBucket(k) \subseteq InBucket(k)'
      BY <1>2, <1>8 DEF InBucket
    <3>2. \A u \in Threads : d[u].at = "read" => d[u] = call[u]
      BY <2>4
    <3> QED  BY <3>1, <3>2, <2>5, ReadersKept DEF TableInv
  <2> QED  BY <2>5, <2>6, <2>8, <2>9, <2>10, <2>11 DEF TableInv
<1> QED  BY <1>1, <1>6, <1>7, <1>8, Zenon DEF insert_entry

\* rbthash_get, between the unlock and the read of entry->data, and its end.
LEMMA GetInv ==
    ASSUME TableInv, NEW t \in Threads, NEW d, call' = d, d \in [Threads -> Calls],
           call[t].at \notin Carrying, d[t].at \notin Carrying,
           \A u \in Threads : u # t => d[u] = call[u],
           d[t].at = "read" => d[t].entry \in InBucket(d[t].key),
           UNCHANGED <<buckets, entry, leaked, others, mine, dfuncs>>, held' = held, alive' = alive
    PROVE  TableInv'
<1>1. /\ buckets' = buckets /\ entry' = entry /\ leaked' = leaked
      /\ others' = others /\ mine' = mine /\ dfuncs' = dfuncs
  OBVIOUS
<1>2. Flight(d) = Flight(call) /\ OneCall(d)
  <2>1. OneCall(call)
    BY DEF TableInv
  <2>2. \A u \in Threads : /\ d[u].at \in Carrying <=> call[u].at \in Carrying
                           /\ call[u].at \in Carrying => d[u].entry = call[u].entry
    OBVIOUS
  <2> QED  BY <2>1, <2>2, FlightSame
<1>3. AllEntries' = AllEntries /\ InFlight' = InFlight /\ Owned' = Owned
  BY <1>1, <1>2, Sets, SetsNext DEF Owned
<1>4. Shape'
  BY <1>1, <1>3 DEF TableInv, Shape
<1>5. Places'
  BY <1>1, <1>3 DEF TableInv, Places
<1>6. Trees(buckets', entry') /\ Objects(Owned', entry', mine', dfuncs')
  BY <1>1, <1>3 DEF TableInv
<1>7. GetReadsOwn'
  <2>1. ASSUME NEW u \in Threads, d[u].at = "read", ~d[u].gone
        PROVE  d[u].entry \in InBucket(d[u].key)
    <3>1. CASE u = t
      BY <2>1, <3>1
    <3>2. CASE u # t
      <4>1. d[u] = call[u]
        BY <3>2
      <4>2. call[u].at = "read" /\ ~call[u].gone
        BY <2>1, <4>1, Zenon
      <4>3. call[u].entry \in InBucket(call[u].key)
        BY <4>2 DEF TableInv, GetReadsOwn
      <4> QED  BY <4>1, <4>3
    <3> QED  BY <3>1, <3>2
  <2>2. \A k : InBucket(k)' = InBucket(k)
    BY <1>1 DEF InBucket
  <2> QED  BY <2>1, <2>2, Zenon DEF GetReadsOwn
<1> QED  BY <1>2, <1>4, <1>5, <1>6, <1>7 DEF TableInv

LEMMA LookupInv ==
    ASSUME TableInv, NEW t \in Threads, NEW key \in Keys, rbthash_get(t, key)
    PROVE  TableInv'
<1>1. PICK e \in InBucket(key) :
          call' = [call EXCEPT ![t] = [at |-> "read", entry |-> e, key |-> key, gone |-> FALSE]]
  BY DEF rbthash_get
<1>2. /\ call[t] = Idle /\ buckets' = buckets /\ entry' = entry /\ leaked' = leaked
      /\ others' = others /\ mine' = mine /\ dfuncs' = dfuncs /\ held' = held /\ alive' = alive
  BY Zenon DEF rbthash_get, vars
<1>3. e \in Ptrs
  BY InBucketPlanted DEF TableInv, Shape
<1> DEFINE r == [at |-> "read", entry |-> e, key |-> key, gone |-> FALSE]
<1>4. r \in Calls /\ r.at = "read" /\ r.entry = e /\ r.key = key
  BY <1>3 DEF Calls
<1> HIDE DEF r
<1>5. PICK d : d = [call EXCEPT ![t] = r]
  OBVIOUS
<1>6. call \in [Threads -> Calls]
  BY DEF TableInv, Shape
<1>7. d \in [Threads -> Calls] /\ d[t] = r /\ \A u \in Threads : u # t => d[u] = call[u]
  BY <1>4, <1>5, <1>6
<1>8. call[t].at \notin Carrying /\ d[t].at \notin Carrying
  BY <1>2, <1>4, <1>7 DEF Idle, Carrying
<1>9. call' = d
  BY <1>1, <1>5 DEF r
<1>10. d[t].entry \in InBucket(d[t].key)
  BY <1>4, <1>7
<1> QED  BY <1>2, <1>7, <1>8, <1>9, <1>10, GetInv

LEMMA ReadInv ==
    ASSUME TableInv, NEW t \in Threads, ReadData(t)
    PROVE  TableInv'
<1>1. /\ call[t].at = "read" /\ call' = [call EXCEPT ![t] = Idle]
      /\ buckets' = buckets /\ entry' = entry /\ leaked' = leaked
      /\ others' = others /\ mine' = mine /\ dfuncs' = dfuncs /\ held' = held /\ alive' = alive
  BY Zenon DEF ReadData, vars
<1>2. PICK d : d = [call EXCEPT ![t] = Idle]
  OBVIOUS
<1>3. call \in [Threads -> Calls] /\ Idle \in Calls
  BY DEF TableInv, Shape, Calls
<1>4. d \in [Threads -> Calls] /\ d[t] = Idle /\ \A u \in Threads : u # t => d[u] = call[u]
  BY <1>2, <1>3
<1>5. call[t].at \notin Carrying /\ d[t].at \notin Carrying /\ d[t].at # "read"
  BY <1>1, <1>4 DEF Idle, Carrying
<1>6. call' = d
  BY <1>1, <1>2
<1> QED  BY <1>1, <1>4, <1>5, <1>6, GetInv

\* The entry that is removed leaves the tree and goes into the call's hands; who has
\* found it is told.
LEMMA RemoveInv ==
    ASSUME TableInv, NEW t \in Threads, NEW key \in Keys, rbthash_remove(t, key)
    PROVE  TableInv'
<1>1. PICK e \in InBucket(key) :
          /\ buckets' = [buckets EXCEPT ![Bucket(key)] = @ \ {e}]
          /\ call' = [u \in Threads |->
                         IF u = t THEN [at |-> "drop", entry |-> e]
                         ELSE IF call[u].at = "read" /\ call[u].entry = e
                         THEN [call[u] EXCEPT !.gone = TRUE]
                         ELSE call[u]]
  BY DEF rbthash_remove
<1>2. /\ call[t] = Idle /\ entry' = entry /\ leaked' = leaked
      /\ others' = others /\ mine' = mine /\ dfuncs' = dfuncs /\ held' = held /\ alive' = alive
  BY Zenon DEF rbthash_remove, vars
<1>3. PICK b \in DOMAIN buckets : b = Bucket(key)
  BY BucketType DEF TableInv, Shape
<1>4. e \in buckets[b]
  BY <1>3 DEF InBucket
<1>5. /\ Trees([buckets EXCEPT ![b] = @ \ {e}], entry)
      /\ Planted([buckets EXCEPT ![b] = @ \ {e}]) = Planted(buckets) \ {e}
      /\ e \in Planted(buckets)
  BY <1>4, Uprooting DEF TableInv
<1>6. buckets' = [buckets EXCEPT ![b] = @ \ {e}]
  BY <1>1, <1>3
<1>7. Trees(buckets', entry') /\ AllEntries' = AllEntries \ {e} /\ e \in AllEntries
  BY <1>2, <1>5, <1>6, Sets, SetsNext
<1>8. e \in Ptrs /\ e \notin InFlight /\ e \notin leaked /\ e \notin others
  BY <1>7 DEF TableInv, Shape, Places
<1>9. PICK d : d = [u \in Threads |->
                         IF u = t THEN [at |-> "drop", entry |-> e]
                         ELSE IF call[u].at = "read" /\ call[u].entry = e
                         THEN [call[u] EXCEPT !.gone = TRUE]
                         ELSE call[u]]
  OBVIOUS
<1>10. call \in [Threads -> Calls]
  BY DEF TableInv, Shape
<1>11. d[t] = [at |-> "drop", entry |-> e] /\ d[t] \in Calls
  BY <1>8, <1>9 DEF Calls, Carrying
<1>12. ASSUME NEW u \in Threads, u # t, call[u].at = "read" /\ call[u].entry = e
       PROVE  d[u] \in Calls /\ d[u].at = "read" /\ d[u].gone
  <2>1. d[u] = [call[u] EXCEPT !.gone = TRUE]
    BY <1>9, <1>12
  <2>2. call[u] \in [at : {"read"}, entry : Ptrs, key : Keys, gone : BOOLEAN]
    BY <1>10, <1>12 DEF Calls, Idle, Carrying
  <2>3. d[u] \in [at : {"read"}, entry : Ptrs, key : Keys, gone : BOOLEAN]
    BY <2>1, <2>2
  <2>4. d[u].gone
    BY <2>1, <2>2
  <2> QED  BY <2>3, <2>4 DEF Calls
<1>13. ASSUME NEW u \in Threads, u # t, ~(call[u].at = "read" /\ call[u].entry = e)
       PROVE  d[u] = call[u]
  BY <1>9, <1>13
<1>14. d \in [Threads -> Calls]
  <2>1. ASSUME NEW u \in Threads PROVE d[u] \in Calls
    BY <1>10, <1>11, <1>12, <1>13
  <2>2. d = [u \in Threads |-> d[u]]
    BY <1>9
  <2> QED  BY <2>1, <2>2
<1>15. call' = d
  BY <1>1, <1>9
<1>16. Flight(d) = Flight(call) \cup {e} /\ OneCall(d)
  <2>1. OneCall(call) /\ e \notin Flight(call)
    BY <1>8, Sets DEF TableInv
  <2>2. call[t].at \notin Carrying /\ d[t].at \in Carrying /\ d[t].entry = e
    BY <1>2, <1>11 DEF Idle, Carrying
  <2>3. \A u \in Threads : u # t => /\ d[u].at \in Carrying <=> call[u].at \in Carrying
                                    /\ call[u].at \in Carrying => d[u].entry = call[u].entry
    <3>1. "read" \notin Carrying
      BY DEF Carrying
    <3> QED  BY <3>1, <1>12, <1>13
  <2> QED  BY <2>1, <2>2, <2>3, FlightGain
<1>17. InFlight' = InFlight \cup {e}
  BY <1>15, <1>16, Sets, SetsNext
<1>18. Owned' = Owned
  BY <1>2, <1>7, <1>17 DEF Owned
<1>19. Shape'
  <2>1. DOMAIN buckets' = 0 .. numbuckets - 1
    BY <1>6 DEF TableInv, Shape
  <2>2. AllEntries' \subseteq Ptrs /\ InFlight' \subseteq Ptrs
    BY <1>7, <1>8, <1>17 DEF TableInv, Shape
  <2> QED  BY <2>1, <2>2, <1>2, <1>14, <1>15 DEF TableInv, Shape
<1>20. Places'
  BY <1>2, <1>7, <1>8, <1>17 DEF TableInv, Places
<1>21. Objects(Owned', entry', mine', dfuncs')
  BY <1>2, <1>18 DEF TableInv
<1>22. GetReadsOwn'
  <2>1. ASSUME NEW u \in Threads, d[u].at = "read", ~d[u].gone
        PROVE  d[u].entry \in InBucket(d[u].key)'
    <3>1. u # t
      BY <2>1, <1>11
    <3>2. ~(call[u].at = "read" /\ call[u].entry = e)
      BY <2>1, <3>1, <1>12
    <3>3. d[u] = call[u]
      BY <3>1, <3>2, <1>13
    <3>4. call[u].at = "read" /\ ~call[u].gone
      BY <2>1, <3>3, Zenon
    <3>5. call[u].entry \in InBucket(call[u].key)
      BY <3>4 DEF TableInv, GetReadsOwn
    <3>6. call[u].entry # e
      BY <3>2, <3>4
    <3>7. PICK k \in Keys : k = call[u].key
      BY <3>4, <1>10 DEF Calls, Idle, Carrying
    <3>8. Bucket(k) \in DOMAIN buckets
      BY <3>7, BucketType DEF TableInv, Shape
    <3>9. call[u].entry \in buckets'[Bucket(k)]
      BY <3>5, <3>6, <3>7, <3>8, <1>6 DEF InBucket
    <3>10. entry'[d[u].entry].key = k
      BY <3>3, <3>5, <3>7, <1>2 DEF InBucket
    <3>11. d[u].entry \in InBucket(k)'
      BY <3>3, <3>9, <3>10 DEF InBucket
    <3> QED  BY <3>3, <3>7, <3>11, Zenon
  <2> QED  BY <2>1, <1>15, Zenon DEF GetReadsOwn
<1> QED  BY <1>7, <1>15, <1>16, <1>19, <1>20, <1>21, <1>22 DEF TableInv

\* rbthash_table_destroy, entry by entry.
LEMMA DestroyEntryInv ==
    ASSUME TableInv, DestroyEntry
    PROVE  TableInv'
<1>0. PICK b \in DOMAIN buckets :
         \E e \in buckets[b] :
            /\ buckets' = [buckets EXCEPT ![b] = @ \ {e}]
            /\ dfuncs' = [dfuncs EXCEPT ![entry[e].data] = @ + 1]
            /\ PutEntry(e)
  BY DEF DestroyEntry
<1>1. PICK e \in buckets[b] :
         /\ buckets' = [buckets EXCEPT ![b] = @ \ {e}]
         /\ dfuncs' = [dfuncs EXCEPT ![entry[e].data] = @ + 1]
         /\ PutEntry(e)
  BY <1>0
<1>2. /\ \A t \in Threads : call[t] = Idle
      /\ call' = call /\ leaked' = leaked /\ others' = others /\ mine' = mine
  BY DEF DestroyEntry
<1>3. entry' = [entry EXCEPT ![e] = NoEntry] /\ held' = held \ {e} /\ alive' = alive
  BY <1>1, PutGives DEF PutEntry
<1>4. /\ Trees([buckets EXCEPT ![b] = @ \ {e}], entry)
      /\ Planted([buckets EXCEPT ![b] = @ \ {e}]) = Planted(buckets) \ {e}
      /\ e \in Planted(buckets)
  BY Uprooting DEF TableInv
<1>5. Trees(buckets', entry) /\ Planted(buckets') = Planted(buckets) \ {e}
  BY <1>1, <1>4
<1>6. AllEntries' = AllEntries \ {e} /\ e \in AllEntries /\ InFlight' = InFlight
  BY <1>2, <1>4, <1>5, Sets, SetsNext
<1>7. e \in Ptrs /\ e \notin InFlight /\ e \notin leaked /\ e \notin others /\ e \in Owned
  BY <1>6 DEF TableInv, Shape, Places, Owned
<1>8. Owned' = Owned \ {e}
  BY <1>2, <1>6, <1>7 DEF Owned
<1>9. /\ DOMAIN entry = Ptrs /\ DOMAIN dfuncs = Data /\ Owned \subseteq Ptrs
      /\ Planted(buckets') \subseteq DOMAIN entry /\ e \notin Planted(buckets')
  BY <1>5, Sets DEF TableInv, Shape, Owned
<1>10. Trees(buckets', entry')
  <2>1. PICK bk : bk = buckets'
    OBVIOUS
  <2>2. Trees(bk, [entry EXCEPT ![e] = NoEntry])
    BY <2>1, <1>5, <1>9, TreesKept
  <2> QED  BY <2>1, <2>2, <1>3
<1>11. Objects(Owned', entry', mine', dfuncs')
  <2>1. Objects(Owned \ {e}, [entry EXCEPT ![e] = NoEntry], mine,
                [dfuncs EXCEPT ![entry[e].data] = @ + 1])
    BY <1>7, <1>9, ObjectDestroyed DEF TableInv
  <2> QED  BY <2>1, <1>1, <1>2, <1>3, <1>8
<1>12. Shape'
  <2>1. DOMAIN entry' = Ptrs
    BY <1>3, <1>9
  <2>2. DOMAIN dfuncs' = Data
    BY <1>1, <1>9
  <2>3. DOMAIN buckets' = 0 .. numbuckets - 1
    BY <1>1 DEF TableInv, Shape
  <2>4. AllEntries' \subseteq Ptrs /\ InFlight' \subseteq Ptrs
    BY <1>6 DEF TableInv, Shape
  <2> QED  BY <2>1, <2>2, <2>3, <2>4, <1>2 DEF TableInv, Shape
<1>13. Places'
  BY <1>2, <1>3, <1>6, <1>7 DEF TableInv, Places
<1>14. GetReadsOwn' /\ OneCall(call')
  <2>1. \A t \in Threads : call'[t].at # "read"
    BY <1>2 DEF Idle
  <2>2. GetReadsOwn'
    BY <2>1 DEF GetReadsOwn
  <2>3. OneCall(call')
    BY <1>2 DEF TableInv
  <2> QED  BY <2>2, <2>3
<1> QED  BY <1>10, <1>11, <1>12, <1>13, <1>14 DEF TableInv

\* The pool's other users.
LEMMA OtherInv ==
    ASSUME IInv, TableInv, OtherGets \/ OtherPuts
    PROVE  TableInv'
<1>1. /\ buckets' = buckets /\ entry' = entry /\ call' = call /\ leaked' = leaked
      /\ mine' = mine /\ dfuncs' = dfuncs
  BY DEF OtherGets, OtherPuts
<1>2. AllEntries' = AllEntries /\ InFlight' = InFlight
  BY <1>1 DEF AllEntries, InFlight
<1>3. Owned' = Owned
  BY <1>1, <1>2 DEF Owned
<1>4. others' \subseteq Ptrs /\ Places'
  <2>1. CASE OtherGets
    <3>1. PICK p \in Ptrs : mem_get(p) /\ others' = others \cup {p}
      BY <2>1 DEF OtherGets
    <3>2. p \notin held /\ held' = held \cup {p} /\ alive /\ alive' = alive
      BY <3>1, GetFresh
    <3>3. p \notin AllEntries /\ p \notin InFlight /\ p \notin leaked
      BY <3>2 DEF TableInv, Places
    <3> QED  BY <3>1, <3>2, <3>3, <1>1, <1>2 DEF TableInv, Shape, Places
  <2>2. CASE OtherPuts
    <3>1. PICK p \in others : mem_put(p) /\ others' = others \ {p}
      BY <2>2 DEF OtherPuts
    <3>2. held' = held \ {p} /\ alive' = alive
      BY <3>1, PutGives
    <3>3. p \notin AllEntries /\ p \notin InFlight /\ p \notin leaked
      BY <3>1 DEF TableInv, Places
    <3> QED  BY <3>1, <3>2, <3>3, <1>1, <1>2 DEF TableInv, Shape, Places
  <2> QED  BY <2>1, <2>2
<1>5. Shape'
  BY <1>1, <1>2, <1>4 DEF TableInv, Shape
<1>6. GetReadsOwn'
  BY <1>1, Zenon DEF TableInv, GetReadsOwn, InBucket
<1> QED  BY <1>1, <1>3, <1>4, <1>5, <1>6 DEF TableInv

LEMMA TableInitInv ==
    ASSUME HashInit
    PROVE  TableInv
<1>1. /\ buckets = [b \in 0 .. numbuckets - 1 |-> {}] /\ entry = [p \in Ptrs |-> NoEntry]
      /\ call = [t \in Threads |-> Idle] /\ leaked = {} /\ others = {} /\ mine = Data
      /\ dfuncs = [d \in Data |-> 0] /\ held = {}
  BY DEF HashInit, Init
<1>2. \A t \in Threads : call[t] = Idle /\ call[t].at \notin Carrying /\ call[t].at # "read"
  BY <1>1 DEF Idle, Carrying
<1>3. AllEntries = {} /\ InFlight = {}
  BY <1>1, <1>2 DEF AllEntries, InFlight, Carrying
<1>4. Owned = {}
  BY <1>1, <1>3 DEF Owned
<1>5. Shape
  <2>1. call \in [Threads -> Calls]
    BY <1>1 DEF Calls
  <2> QED  BY <2>1, <1>1, <1>3 DEF Shape
<1>6. OneCall(call) /\ GetReadsOwn
  BY <1>2 DEF OneCall, GetReadsOwn
<1>7. Trees(buckets, entry)
  BY <1>1 DEF Trees
<1>8. Places
  BY <1>1, <1>3 DEF Places
<1>9. Objects(Owned, entry, mine, dfuncs)
  BY <1>1, <1>4 DEF Objects
<1> QED  BY <1>5, <1>6, <1>7, <1>8, <1>9 DEF TableInv

LEMMA TableStepInv ==
    ASSUME IInv, TableInv, [HashNext]_allVars
    PROVE  TableInv'
<1>1. ASSUME rbthash_table_init \/ rbthash_table_destroy \/ UNCHANGED allVars PROVE TableInv'
  <2>1. UNCHANGED <<buckets, entry, call, leaked, others, mine, dfuncs>>
    BY <1>1 DEF rbthash_table_init, rbthash_table_destroy, allVars, tableVars
  <2>2. alive' => alive /\ held' = held
    <3>1. mem_pool_destroy \/ UNCHANGED vars
      BY <1>1 DEF rbthash_table_init, rbthash_table_destroy, allVars
    <3> QED  BY <3>1, Zenon DEF mem_pool_destroy, vars
  <2> QED  BY <2>1, <2>2, TableSame
<1>2. ASSUME NEW t \in Threads, NEW key \in Keys, NEW data \in Data, rbthash_insert(t, key, data)
      PROVE  TableInv'
  BY <1>2, InsertInv
<1>3. ASSUME NEW t \in Threads, NEW key \in Keys, rbthash_get(t, key) PROVE TableInv'
  BY <1>3, LookupInv
<1>4. ASSUME NEW t \in Threads, NEW key \in Keys, rbthash_remove(t, key) PROVE TableInv'
  BY <1>4, RemoveInv
<1>5. ASSUME NEW t \in Threads, PutBack(t) \/ DropEntry(t) PROVE TableInv'
  BY <1>5, ReturnInv
<1>6. ASSUME NEW t \in Threads, insert_entry(t) PROVE TableInv'
  BY <1>6, InsertEntryInv
<1>7. ASSUME NEW t \in Threads, deinit_entry(t) PROVE TableInv'
  BY <1>7, DeinitInv
<1>8. ASSUME NEW t \in Threads, ReadData(t) PROVE TableInv'
  BY <1>8, ReadInv
<1>9. CASE DestroyEntry
  BY <1>9, DestroyEntryInv
<1>10. CASE OtherGets \/ OtherPuts
  BY <1>10, OtherInv
<1> QED
  BY <1>1, <1>2, <1>3, <1>4, <1>5, <1>6, <1>7, <1>8, <1>9, <1>10, Zenon DEF HashNext

-----------------------------------------------------------------------------
(* What follows for the table *)

LEMMA TableInvariant == HashSpec => []TableInv
<1>1. HashInit => TableInv
  BY TableInitInv
<1>2. IInv /\ TableInv /\ [HashNext]_allVars => TableInv'
  BY TableStepInv
<1> QED  BY <1>1, <1>2, PoolInvariant, PTL DEF HashSpec

\* As many entries are in calls' hands as there are calls that have one.
LEMMA FlightCount ==
    ASSUME TableInv
    PROVE  Cardinality(InFlight) =
               Cardinality({t \in Threads : call[t].at \in {"put", "probe", "deinit", "drop"}})
<1> DEFINE busy == {t \in Threads : call[t].at \in {"put", "probe", "deinit", "drop"}}
           f == [t \in busy |-> call[t].entry]
<1>1. IsFiniteSet(busy)
  BY ThreadsAssumption, FS_Subset
<1>2. InFlight = {call[t].entry : t \in busy}
  BY DEF InFlight
<1>3. \A t, u \in busy : call[t].entry = call[u].entry => t = u
  BY DEF TableInv, OneCall, Carrying
<1> HIDE DEF busy
<1>4. f \in Bijection(busy, InFlight)
  <2>1. f \in [busy -> InFlight] /\ \A t \in busy : f[t] = call[t].entry
    BY <1>2
  <2>2. f \in Injection(busy, InFlight)
    BY <2>1, <1>3 DEF Injection, IsInjective
  <2>3. f \in Surjection(busy, InFlight)
    BY <2>1, <1>2 DEF Surjection
  <2> QED  BY <2>2, <2>3 DEF Bijection
<1>5. ExistsBijection(busy, InFlight)
  BY <1>4 DEF ExistsBijection
<1>6. Cardinality(busy) = Cardinality(InFlight)
  BY <1>1, <1>5, FS_Bijection
<1> QED  BY <1>6 DEF busy

LEMMA TableAccounted ==
    ASSUME TableInv
    PROVE  EntriesAccounted
<1>1. alive => held = AllEntries \cup InFlight \cup leaked \cup others
  BY DEF TableInv, Places
<1>2. \A S, T \in {AllEntries, InFlight, leaked, others} : S = T \/ S \cap T = {}
  BY DEF TableInv, Places
<1>3. ASSUME NEW b \in DOMAIN buckets, NEW e \in buckets[b]
      PROVE  Bucket(entry[e].key) = b /\ InBucket(entry[e].key) = {e}
  <2>1. Bucket(entry[e].key) = b
    BY DEF TableInv, Trees
  <2>2. \A f \in buckets[b] : entry[f].key = entry[e].key => f = e
    BY DEF TableInv, Trees
  <2> QED  BY <2>1, <2>2 DEF InBucket
<1> QED  BY <1>1, <1>2, <1>3, FlightCount DEF EntriesAccounted

LEMMA TableDestroysOnce ==
    ASSUME TableInv
    PROVE  DestroyedOnce
<1>1. Objects(Owned, entry, mine, dfuncs)
  BY DEF TableInv
<1>2. \A d \in Data : dfuncs[d] <= 1 /\ (dfuncs[d] = 1 => d \notin mine)
  BY <1>1 DEF Objects
<1>3. \A e \in AllEntries \cup InFlight : dfuncs[entry[e].data] = 0
  BY <1>1 DEF Objects, Owned
<1> QED  BY <1>2, <1>3 DEF DestroyedOnce

\* For any number of threads, keys and buckets, every entry that was taken from the pool
\* is in the bucket of its key, in the hands of one call of rbthash_insert or
\* rbthash_remove, lost to a duplicate, or another user's, and never in two of these
\* places: no failure of rbthash_insert puts an entry back twice or not at all.
THEOREM EntriesNeverLost == HashSpec => []EntriesAccounted
<1>1. TableInv => EntriesAccounted
  BY TableAccounted
<1> QED  BY <1>1, TableInvariant, PTL

\* dfunc is called at most once for an object (rbthash_deinit_entry,
\* rbthash_table_destroy), and never for one that the caller still has or that
\* rbthash_get can return.
THEOREM ObjectsDestroyedOnce == HashSpec => []DestroyedOnce
<1>1. TableInv => DestroyedOnce
  BY TableDestroysOnce
<1> QED  BY <1>1, TableInvariant, PTL

\* rbthash_get reads entry->data after the unlock; unless somebody removed the entry it
\* still is the entry of the key that was looked up.
THEOREM LookupsReadTheirOwn == HashSpec => []GetReadsOwn
<1>1. TableInv => GetReadsOwn
  BY DEF TableInv
<1> QED  BY <1>1, TableInvariant, PTL
=============================================================================
