-------------------------- MODULE IobufPoolProofs --------------------------
(***************************************************************************)
(* The safety of IobufPool for every number of arenas, iobufs and threads. *)
(*                                                                         *)
(* The invariant ties together three views of an iobuf: the list of its    *)
(* arena that it is on, its reference count, and the threads that are      *)
(* between the two critical sections of iobuf_unref with it.               *)
(***************************************************************************)
EXTENDS IobufPool, TLAPS

-----------------------------------------------------------------------------
(* The lists: what the operations of LinkedList do to the entries. *)

\* list_add puts a new entry on a list, once (list.h, list_add).
LEMMA ListAddLemma ==
    ASSUME NEW S, NEW s \in Seq(S), IsInjective(s), NEW x \in S, x \notin Entries(s)
    PROVE  /\ list_add(x, s) \in Seq(S)
           /\ Len(list_add(x, s)) = Len(s) + 1
           /\ Entries(list_add(x, s)) = Entries(s) \cup {x}
           /\ IsInjective(list_add(x, s))
<1> DEFINE n == list_add(x, s)
<1>1. /\ n \in Seq(S)
      /\ Len(n) = Len(s) + 1
      /\ n[1] = x
      /\ \A i \in 1 .. Len(s) : n[i + 1] = s[i]
      /\ DOMAIN n = 1 .. Len(s) + 1
      /\ DOMAIN s = 1 .. Len(s)
      /\ Len(s) \in Nat
  BY DEF list_add
<1>2. \A i \in 2 .. Len(s) + 1 : n[i] = s[i - 1] /\ i - 1 \in 1 .. Len(s)
  BY <1>1
<1>3. Entries(n) = Entries(s) \cup {x}
  <2>1. ASSUME NEW y \in Entries(n) PROVE y \in Entries(s) \cup {x}
    <3>1. PICK i \in 1 .. Len(s) + 1 : y = n[i]
      BY <1>1 DEF Entries, Range
    <3>2. i = 1 \/ i \in 2 .. Len(s) + 1
      BY <1>1
    <3>3. CASE i \in 2 .. Len(s) + 1
      BY <3>1, <3>3, <1>1, <1>2 DEF Entries, Range
    <3> QED  BY <3>1, <3>2, <3>3, <1>1
  <2>2. ASSUME NEW y \in Entries(s) \cup {x} PROVE y \in Entries(n)
    <3>1. CASE y = x
      <4>1. 1 \in DOMAIN n
        BY <1>1
      <4> QED  BY <4>1, <3>1, <1>1 DEF Entries, Range
    <3>2. CASE y \in Entries(s)
      <4>1. PICK i \in 1 .. Len(s) : y = s[i]
        BY <3>2, <1>1 DEF Entries, Range
      <4>2. i + 1 \in DOMAIN n /\ n[i + 1] = y
        BY <4>1, <1>1
      <4> QED  BY <4>2 DEF Entries, Range
    <3> QED  BY <3>1, <3>2, <2>2
  <2> QED  BY <2>1, <2>2
<1>4. IsInjective(n)
  <2>1. \A i \in 1 .. Len(s) : s[i] # x
    BY <1>1 DEF Entries, Range
  <2>2. SUFFICES ASSUME NEW i \in 1 .. Len(s) + 1, NEW j \in 1 .. Len(s) + 1, n[i] = n[j], i < j
                 PROVE FALSE
    BY <1>1 DEF IsInjective
  <2>3. j \in 2 .. Len(s) + 1 /\ n[j] = s[j - 1] /\ j - 1 \in 1 .. Len(s)
    BY <1>1, <1>2, <2>2
  <2>4. CASE i = 1
    BY <2>1, <2>2, <2>3, <2>4, <1>1
  <2>5. CASE i # 1
    <3>1. n[i] = s[i - 1] /\ i - 1 \in 1 .. Len(s)
      BY <2>5, <1>2, <1>1
    <3>2. i - 1 = j - 1
      BY <3>1, <2>2, <2>3, <1>1 DEF IsInjective
    <3> QED  BY <3>2, <2>2
  <2> QED  BY <2>4, <2>5
<1> QED  BY <1>1, <1>3, <1>4

\* list_add_tail does the same at the other end (list.h, list_add_tail).
LEMMA ListAddTailLemma ==
    ASSUME NEW S, NEW s \in Seq(S), IsInjective(s), NEW x \in S, x \notin Entries(s)
    PROVE  /\ list_add_tail(x, s) \in Seq(S)
           /\ Len(list_add_tail(x, s)) = Len(s) + 1
           /\ Entries(list_add_tail(x, s)) = Entries(s) \cup {x}
           /\ IsInjective(list_add_tail(x, s))
<1> DEFINE n == list_add_tail(x, s)
<1>1. /\ n \in Seq(S)
      /\ Len(n) = Len(s) + 1
      /\ n[Len(s) + 1] = x
      /\ \A i \in 1 .. Len(s) : n[i] = s[i]
      /\ DOMAIN n = 1 .. Len(s) + 1
      /\ DOMAIN s = 1 .. Len(s)
      /\ Len(s) \in Nat
  BY DEF list_add_tail
<1>3. Entries(n) = Entries(s) \cup {x}
  <2>1. ASSUME NEW y \in Entries(n) PROVE y \in Entries(s) \cup {x}
    BY <1>1 DEF Entries, Range
  <2>2. ASSUME NEW y \in Entries(s) \cup {x} PROVE y \in Entries(n)
    <3>1. CASE y = x
      <4>1. Len(s) + 1 \in DOMAIN n
        BY <1>1
      <4> QED  BY <4>1, <3>1, <1>1 DEF Entries, Range
    <3>2. CASE y \in Entries(s)
      <4>1. PICK i \in 1 .. Len(s) : y = s[i]
        BY <3>2, <1>1 DEF Entries, Range
      <4>2. i \in DOMAIN n /\ n[i] = y
        BY <4>1, <1>1
      <4> QED  BY <4>2 DEF Entries, Range
    <3> QED  BY <3>1, <3>2, <2>2
  <2> QED  BY <2>1, <2>2
<1>4. IsInjective(n)
  <2>1. \A i \in 1 .. Len(s) : s[i] # x
    BY <1>1 DEF Entries, Range
  <2> QED  BY <2>1, <1>1 DEF IsInjective
<1> QED  BY <1>1, <1>3, <1>4

\* list_del takes exactly one entry off the list that holds it (list.h, list_del).
LEMMA ListDelLemma ==
    ASSUME NEW S, NEW s \in Seq(S), IsInjective(s), NEW x \in Entries(s)
    PROVE  /\ list_del(x, s) \in Seq(S)
           /\ Len(list_del(x, s)) = Len(s) - 1
           /\ Entries(list_del(x, s)) = Entries(s) \ {x}
           /\ IsInjective(list_del(x, s))
<1> DEFINE p == Place(x, s)
           n == list_del(x, s)
<1>1. DOMAIN s = 1 .. Len(s) /\ Len(s) \in Nat
  OBVIOUS
<1>2. p \in 1 .. Len(s) /\ s[p] = x
  BY <1>1 DEF Place, Entries, Range
<1>3. n = [i \in 1 .. Len(s) - 1 |-> IF i < p THEN s[i] ELSE s[i + 1]]
  BY DEF list_del
<1> HIDE DEF p, n
<1>4. n \in Seq(S) /\ Len(n) = Len(s) - 1 /\ DOMAIN n = 1 .. Len(s) - 1
  <2>1. \A i \in 1 .. Len(s) - 1 : n[i] \in S
    BY <1>1, <1>3
  <2> QED  BY <2>1, <1>1, <1>2, <1>3
<1>5. Entries(n) = Entries(s) \ {x}
  <2>1. ASSUME NEW y \in Entries(n) PROVE y \in Entries(s) \ {x}
    <3>1. PICK i \in 1 .. Len(s) - 1 : y = n[i]
      BY <1>4 DEF Entries, Range
    <3>2. CASE i < p
      <4>1. i \in 1 .. Len(s) /\ i # p /\ y = s[i]
        BY <3>1, <3>2, <1>1, <1>3
      <4> QED  BY <4>1, <1>1, <1>2 DEF Entries, Range, IsInjective
    <3>3. CASE ~(i < p)
      <4>1. i + 1 \in 1 .. Len(s) /\ i + 1 # p /\ y = s[i + 1]
        BY <3>1, <3>3, <1>1, <1>2, <1>3
      <4> QED  BY <4>1, <1>1, <1>2 DEF Entries, Range, IsInjective
    <3> QED  BY <3>2, <3>3
  <2>2. ASSUME NEW y \in Entries(s), y # x PROVE y \in Entries(n)
    <3>1. PICK i \in 1 .. Len(s) : y = s[i]
      BY <1>1 DEF Entries, Range
    <3>2. i # p
      BY <3>1, <2>2, <1>2
    <3>3. CASE i < p
      <4>1. i \in 1 .. Len(s) - 1 /\ n[i] = y
        BY <3>1, <3>3, <1>1, <1>2, <1>3
      <4> QED  BY <4>1, <1>4 DEF Entries, Range
    <3>4. CASE i > p
      <4>1. i - 1 \in 1 .. Len(s) - 1 /\ ~(i - 1 < p) /\ (i - 1) + 1 = i
        BY <3>1, <3>4, <1>1, <1>2
      <4>2. n[i - 1] = y
        BY <4>1, <3>1, <1>3
      <4> QED  BY <4>1, <4>2, <1>4 DEF Entries, Range
    <3> QED  BY <3>2, <3>3, <3>4, <1>1, <1>2
  <2> QED  BY <2>1, <2>2
<1>6. IsInjective(n)
  <2>1. SUFFICES ASSUME NEW i \in 1 .. Len(s) - 1, NEW j \in 1 .. Len(s) - 1, n[i] = n[j]
                 PROVE i = j
    BY <1>4 DEF IsInjective
  <2> DEFINE Old(k) == IF k < p THEN k ELSE k + 1
  <2>2. \A k \in 1 .. Len(s) - 1 : Old(k) \in 1 .. Len(s) /\ n[k] = s[Old(k)]
    BY <1>1, <1>2, <1>3
  <2>3. Old(i) = Old(j)
    BY <2>1, <2>2, <1>1 DEF IsInjective
  <2> QED  BY <2>3, <1>1, <1>2
<1> QED  BY <1>4, <1>5, <1>6 DEF n

\* A list that does not hold the entry is not changed (list.h, list_del).
LEMMA ListDelAbsent ==
    ASSUME NEW s, NEW x, x \notin Entries(s)
    PROVE  list_del(x, s) = s
BY DEF list_del

-----------------------------------------------------------------------------
(* One arena *)

\* Every iobuf of the arena is on one of its two lists, once, and the counts are
\* the lengths of the lists.
WellFormed(r) ==
    /\ r \in ArenaType
    /\ IsInjective(r.active) /\ IsInjective(r.passive)
    /\ Entries(r.active) \cap Entries(r.passive) = {}
    /\ Entries(r.active) \cup Entries(r.passive) = Slots
    /\ r.active_cnt = Len(r.active)
    /\ r.passive_cnt = Len(r.passive)
    /\ r.active_cnt + r.passive_cnt = IobufCnt

\* __iobuf_arena_init_iobufs builds a well-formed arena with no iobuf in use.
LEMMA FreshArenaLemma ==
    /\ WellFormed(FreshArena)
    /\ Entries(FreshArena.active) = {}
    /\ FreshArena.passive_cnt > 0
    /\ \A i \in Slots : FreshArena.ref[i] = 0
<1> DEFINE p == [i \in 1 .. IobufCnt |-> IobufCnt + 1 - i]
<1>1. IobufCnt \in Nat /\ IobufCnt > 0
  BY IobufCntAssumption
<1>2. p \in Seq(Slots) /\ Len(p) = IobufCnt /\ DOMAIN p = 1 .. IobufCnt
  BY <1>1 DEF Slots
<1>3. IsInjective(p)
  BY <1>1, <1>2 DEF IsInjective
<1>4. Entries(p) = Slots
  <2>1. ASSUME NEW i \in Slots PROVE i \in Entries(p)
    <3>1. IobufCnt + 1 - i \in DOMAIN p /\ p[IobufCnt + 1 - i] = i
      BY <1>1 DEF Slots
    <3> QED  BY <3>1 DEF Entries, Range
  <2>2. Entries(p) \subseteq Slots
    BY <1>1, <1>2 DEF Entries, Range, Slots
  <2> QED  BY <2>1, <2>2
<1>5. <<>> \in Seq(Slots) /\ Len(<<>>) = 0 /\ IsInjective(<<>>) /\ Entries(<<>>) = {}
  BY DEF Entries, Range, IsInjective
<1>6. /\ FreshArena.active = <<>> /\ FreshArena.active_cnt = 0
      /\ FreshArena.passive = p /\ FreshArena.passive_cnt = IobufCnt
      /\ FreshArena.ref = [i \in Slots |-> 0]
      /\ FreshArena \in ArenaType
  BY <1>1, <1>2, <1>5 DEF FreshArena, ArenaType
<1> HIDE DEF p
<1>7. /\ Entries(FreshArena.active) = {} /\ Entries(FreshArena.passive) = Slots
      /\ IsInjective(FreshArena.active) /\ IsInjective(FreshArena.passive)
      /\ FreshArena.active_cnt = Len(FreshArena.active)
      /\ FreshArena.passive_cnt = Len(FreshArena.passive)
  BY <1>2, <1>3, <1>4, <1>5, <1>6
<1>8. FreshArena.active_cnt + FreshArena.passive_cnt = IobufCnt /\ FreshArena.passive_cnt > 0
  BY <1>1, <1>6
<1>9. \A i \in Slots : FreshArena.ref[i] = 0
  BY <1>6
<1>10. WellFormed(FreshArena)
  BY <1>6, <1>7, <1>8 DEF WellFormed
<1> QED  BY <1>7, <1>8, <1>9, <1>10

\* __iobuf_get takes one iobuf from the passive to the active list.
LEMMA ArenaGetLemma ==
    ASSUME NEW r, WellFormed(r), r.passive_cnt > 0
    PROVE  /\ Head(r.passive) \in Entries(r.passive)
           /\ WellFormed(ArenaGet(r))
           /\ Entries(ArenaGet(r).active) = Entries(r.active) \cup {Head(r.passive)}
           /\ ArenaGet(r).ref = [r.ref EXCEPT ![Head(r.passive)] = @ + 1]
           /\ ArenaGet(r).active_cnt > 0
<1> DEFINE i == Head(r.passive)
<1>1. r.active \in Seq(Slots) /\ r.passive \in Seq(Slots)
  BY DEF WellFormed, ArenaType
<1>a. /\ r.active_cnt \in 0 .. IobufCnt /\ r.passive_cnt \in 0 .. IobufCnt
      /\ IobufCnt \in Nat
      /\ r.active_cnt + r.passive_cnt = IobufCnt
  BY IobufCntAssumption DEF WellFormed, ArenaType
<1>b. r.ref \in [Slots -> Nat]
  BY DEF WellFormed, ArenaType
<1>2. i \in Slots /\ i \in Entries(r.passive) /\ i \notin Entries(r.active)
  <2>1. Len(r.passive) > 0 /\ 1 \in DOMAIN r.passive /\ i = r.passive[1]
    BY <1>1 DEF WellFormed
  <2> QED  BY <2>1, <1>1 DEF WellFormed, Entries, Range
<1> HIDE DEF i
<1>3. IsInjective(r.active) /\ IsInjective(r.passive)
  BY DEF WellFormed
<1>4. /\ list_add(i, r.active) \in Seq(Slots)
      /\ Len(list_add(i, r.active)) = Len(r.active) + 1
      /\ Entries(list_add(i, r.active)) = Entries(r.active) \cup {i}
      /\ IsInjective(list_add(i, r.active))
  <2>1. r.active \in Seq(Slots)
    BY <1>1
  <2>2. i \in Slots /\ IsInjective(r.active) /\ i \notin Entries(r.active)
    BY <1>2, <1>3
  <2> QED  BY <2>1, <2>2, ListAddLemma
<1>5. /\ list_del(i, r.passive) \in Seq(Slots)
      /\ Len(list_del(i, r.passive)) = Len(r.passive) - 1
      /\ Entries(list_del(i, r.passive)) = Entries(r.passive) \ {i}
      /\ IsInjective(list_del(i, r.passive))
  BY <1>1, <1>2, <1>3, ListDelLemma
<1>6. /\ ArenaGet(r).active = list_add(i, r.active)
      /\ ArenaGet(r).active_cnt = r.active_cnt + 1
      /\ ArenaGet(r).passive = list_del(i, r.passive)
      /\ ArenaGet(r).passive_cnt = r.passive_cnt - 1
      /\ ArenaGet(r).ref = [r.ref EXCEPT ![i] = @ + 1]
  BY DEF ArenaGet, i
<1>7. r.active_cnt = Len(r.active) /\ r.passive_cnt = Len(r.passive)
  BY DEF WellFormed
<1>8. /\ r.active_cnt + 1 \in 0 .. IobufCnt
      /\ r.passive_cnt - 1 \in 0 .. IobufCnt
      /\ [r.ref EXCEPT ![i] = @ + 1] \in [Slots -> Nat]
  BY <1>2, <1>a, <1>b
<1>9. ArenaGet(r) \in ArenaType
  BY <1>4, <1>5, <1>8 DEF ArenaType, ArenaGet, i
<1>10. /\ Entries(list_add(i, r.active)) \cap Entries(list_del(i, r.passive)) = {}
       /\ Entries(list_add(i, r.active)) \cup Entries(list_del(i, r.passive)) = Slots
  BY <1>2, <1>4, <1>5 DEF WellFormed
<1>11. WellFormed(ArenaGet(r))
  <2>1. IsInjective(ArenaGet(r).active) /\ IsInjective(ArenaGet(r).passive)
    BY <1>4, <1>5, <1>6
  <2>2. /\ ArenaGet(r).active_cnt = Len(ArenaGet(r).active)
        /\ ArenaGet(r).passive_cnt = Len(ArenaGet(r).passive)
    BY <1>4, <1>5, <1>6, <1>7
  <2>3. ArenaGet(r).active_cnt + ArenaGet(r).passive_cnt = IobufCnt
    BY <1>6, <1>a
  <2> QED  BY <2>1, <2>2, <2>3, <1>6, <1>9, <1>10 DEF WellFormed
<1> QED  BY <1>2, <1>4, <1>6, <1>11, <1>a DEF i

\* __iobuf_put takes it back.
LEMMA ArenaPutLemma ==
    ASSUME NEW r, WellFormed(r), NEW i, i \in Entries(r.active)
    PROVE  /\ WellFormed(ArenaPut(r, i))
           /\ Entries(ArenaPut(r, i).active) = Entries(r.active) \ {i}
           /\ ArenaPut(r, i).ref = r.ref
           /\ ArenaPut(r, i).active_cnt = r.active_cnt - 1
           /\ ArenaPut(r, i).passive_cnt = r.passive_cnt + 1
<1>1. r.active \in Seq(Slots) /\ r.passive \in Seq(Slots)
  BY DEF WellFormed, ArenaType
<1>a. /\ r.active_cnt \in 0 .. IobufCnt /\ r.passive_cnt \in 0 .. IobufCnt
      /\ IobufCnt \in Nat
      /\ r.active_cnt + r.passive_cnt = IobufCnt
  BY IobufCntAssumption DEF WellFormed, ArenaType
<1>b. r.ref \in [Slots -> Nat]
  BY DEF WellFormed, ArenaType
<1>2. i \in Slots /\ i \notin Entries(r.passive)
  BY DEF WellFormed
<1>3. IsInjective(r.active) /\ IsInjective(r.passive)
  BY DEF WellFormed
<1>4. /\ list_del(i, r.active) \in Seq(Slots)
      /\ Len(list_del(i, r.active)) = Len(r.active) - 1
      /\ Entries(list_del(i, r.active)) = Entries(r.active) \ {i}
      /\ IsInjective(list_del(i, r.active))
  BY <1>1, <1>3, ListDelLemma
<1>5. list_del(i, r.passive) = r.passive
  BY <1>2, ListDelAbsent
<1>6. /\ list_add(i, r.passive) \in Seq(Slots)
      /\ Len(list_add(i, r.passive)) = Len(r.passive) + 1
      /\ Entries(list_add(i, r.passive)) = Entries(r.passive) \cup {i}
      /\ IsInjective(list_add(i, r.passive))
  <2>1. r.passive \in Seq(Slots)
    BY <1>1
  <2>2. i \in Slots /\ IsInjective(r.passive) /\ i \notin Entries(r.passive)
    BY <1>2, <1>3
  <2> QED  BY <2>1, <2>2, ListAddLemma
<1> DEFINE n == ArenaPut(r, i)
<1>7. /\ n.active = list_del(i, r.active)
      /\ n.active_cnt = r.active_cnt - 1
      /\ n.passive = list_add(i, r.passive)
      /\ n.passive_cnt = r.passive_cnt + 1
      /\ n.ref = r.ref
  BY <1>5 DEF ArenaPut
<1>8. r.active_cnt = Len(r.active) /\ r.passive_cnt = Len(r.passive)
  BY DEF WellFormed
<1>9. r.active_cnt # 0
  <2>1. Len(r.active) # 0
    BY <1>1 DEF Entries, Range
  <2> QED  BY <2>1, <1>8
<1>10. r.active_cnt - 1 \in 0 .. IobufCnt /\ r.passive_cnt + 1 \in 0 .. IobufCnt
  BY <1>9, <1>a
<1>11. n \in ArenaType
  BY <1>b, <1>4, <1>5, <1>6, <1>10 DEF ArenaType, ArenaPut
<1>12. /\ Entries(list_del(i, r.active)) \cap Entries(list_add(i, r.passive)) = {}
       /\ Entries(list_del(i, r.active)) \cup Entries(list_add(i, r.passive)) = Slots
  BY <1>2, <1>4, <1>6 DEF WellFormed
<1> HIDE DEF n
<1>13. WellFormed(n)
  <2>1. IsInjective(n.active) /\ IsInjective(n.passive)
    BY <1>4, <1>6, <1>7
  <2>2. /\ n.active_cnt = Len(n.active)
        /\ n.passive_cnt = Len(n.passive)
    BY <1>4, <1>6, <1>7, <1>8
  <2>3. n.active_cnt + n.passive_cnt = IobufCnt
    BY <1>7, <1>a
  <2> QED  BY <2>1, <2>2, <2>3, <1>7, <1>11, <1>12 DEF WellFormed
<1> QED  BY <1>4, <1>7, <1>13 DEF n

\* Counting references leaves the lists of an arena alone.
LEMMA ArenaRefLemma ==
    ASSUME NEW r, WellFormed(r), NEW i \in Slots, NEW d \in Int, r.ref[i] + d \in Nat
    PROVE  /\ WellFormed(ArenaRef(r, i, d))
           /\ ArenaRef(r, i, d).active = r.active
           /\ ArenaRef(r, i, d).active_cnt = r.active_cnt
           /\ ArenaRef(r, i, d).passive_cnt = r.passive_cnt
           /\ ArenaRef(r, i, d).ref = [r.ref EXCEPT ![i] = @ + d]
<1>1. r \in ArenaType
  BY DEF WellFormed
<1>2. r.ref \in [Slots -> Nat]
  BY <1>1 DEF ArenaType
<1>3. /\ ArenaRef(r, i, d).active = r.active
      /\ ArenaRef(r, i, d).active_cnt = r.active_cnt
      /\ ArenaRef(r, i, d).passive = r.passive
      /\ ArenaRef(r, i, d).passive_cnt = r.passive_cnt
      /\ ArenaRef(r, i, d).ref = [r.ref EXCEPT ![i] = @ + d]
  BY <1>1 DEF ArenaRef, ArenaType
<1>4. [r.ref EXCEPT ![i] = @ + d] \in [Slots -> Nat]
  BY <1>2
<1>5. ArenaRef(r, i, d) \in ArenaType
  BY <1>1, <1>3, <1>4 DEF ArenaRef, ArenaType
<1> QED  BY <1>3, <1>5 DEF WellFormed

-----------------------------------------------------------------------------
(* The lists of the pool *)

\* Every arena is on at most one list, at most once.
GoodLists(L) ==
    /\ L \in [ListNames -> Seq(Arenas)]
    /\ \A k \in ListNames : IsInjective(L[k])
    /\ \A j, k \in ListNames : j # k => Entries(L[j]) \cap Entries(L[k]) = {}

OnLists(L) == UNION {Entries(L[k]) : k \in ListNames}

Total(L) == Len(L["arenas"]) + Len(L["filled"]) + Len(L["purge"])

\* Each list holds the arenas its comment in struct iobuf_pool says, the
\* arenas X aside.
ListsMatch(L, A, X) ==
    /\ \A a \in Entries(L["arenas"]) \ X : A[a].passive_cnt > 0
    /\ \A a \in Entries(L["filled"]) \ X : A[a].passive_cnt = 0
    /\ \A a \in Entries(L["purge"]) \ X  : A[a].active_cnt = 0

\* The lists became M from L: the same arenas, on the lists their contents A ask for.
ListsAfter(M, L, A) ==
    /\ GoodLists(M)
    /\ OnLists(M) = OnLists(L)
    /\ Total(M) = Total(L)
    /\ ListsMatch(M, A, {})

\* list_del of an arena, seen from every list of the pool.
LEMMA RemoveLemma ==
    ASSUME NEW L, GoodLists(L), NEW a \in Arenas, NEW j \in ListNames
    PROVE  /\ list_del(a, L[j]) \in Seq(Arenas)
           /\ IsInjective(list_del(a, L[j]))
           /\ Entries(list_del(a, L[j])) = Entries(L[j]) \ {a}
           /\ Len(list_del(a, L[j])) = Len(L[j]) - (IF a \in Entries(L[j]) THEN 1 ELSE 0)
<1>1. L[j] \in Seq(Arenas) /\ IsInjective(L[j])
  BY DEF GoodLists
<1>2. CASE a \in Entries(L[j])
  BY <1>1, <1>2, ListDelLemma
<1>3. CASE a \notin Entries(L[j])
  <2>1. list_del(a, L[j]) = L[j]
    BY <1>3, ListDelAbsent
  <2>2. Len(L[j]) \in Nat
    BY <1>1
  <2>3. Len(L[j]) = Len(L[j]) - (IF a \in Entries(L[j]) THEN 1 ELSE 0)
    BY <1>3, <2>2
  <2> QED  BY <1>1, <1>3, <2>1, <2>3
<1> QED  BY <1>2, <1>3

\* Moving an arena to another list (list_del, then list_add or list_add_tail).
LEMMA MoveLemma ==
    ASSUME NEW L, GoodLists(L), NEW a \in Arenas, NEW k \in ListNames, NEW M,
           M = MoveHead(a, k, L) \/ M = MoveTail(a, k, L)
    PROVE  /\ GoodLists(M)
           /\ Entries(M[k]) = Entries(L[k]) \cup {a}
           /\ \A j \in ListNames \ {k} : Entries(M[j]) = Entries(L[j]) \ {a}
           /\ OnLists(M) = OnLists(L) \cup {a}
           /\ a \in OnLists(L) => Total(M) = Total(L)
           /\ a \notin OnLists(L) => Total(M) = Total(L) + 1
<1> DEFINE d == list_del(a, L[k])
           c(j) == IF a \in Entries(L[j]) THEN 1 ELSE 0
<1>1. /\ d \in Seq(Arenas) /\ IsInjective(d)
      /\ Entries(d) = Entries(L[k]) \ {a}
      /\ Len(d) = Len(L[k]) - c(k)
  BY RemoveLemma
<1>2. M \in [ListNames -> UNION {{M[j]} : j \in ListNames}]
  BY DEF MoveHead, MoveTail
<1>3. \A j \in ListNames \ {k} : M[j] = list_del(a, L[j])
  BY DEF MoveHead, MoveTail
<1>4. M[k] = list_add(a, d) \/ M[k] = list_add_tail(a, d)
  BY DEF MoveHead, MoveTail
<1>5. a \notin Entries(d)
  BY <1>1
<1>6. /\ M[k] \in Seq(Arenas) /\ IsInjective(M[k])
      /\ Entries(M[k]) = Entries(d) \cup {a}
      /\ Len(M[k]) = Len(d) + 1
  <2>1. d \in Seq(Arenas) /\ IsInjective(d)
    BY <1>1
  <2> HIDE DEF d
  <2>2. CASE M[k] = list_add(a, d)
    BY <2>1, <2>2, <1>5, ListAddLemma
  <2>3. CASE M[k] = list_add_tail(a, d)
    BY <2>1, <2>3, <1>5, ListAddTailLemma
  <2> QED  BY <2>2, <2>3, <1>4
<1>7. ASSUME NEW j \in ListNames, j # k
      PROVE  /\ M[j] \in Seq(Arenas) /\ IsInjective(M[j])
             /\ Entries(M[j]) = Entries(L[j]) \ {a}
             /\ Len(M[j]) = Len(L[j]) - c(j)
  <2>1. M[j] = list_del(a, L[j])
    BY <1>3, <1>7
  <2>2. /\ list_del(a, L[j]) \in Seq(Arenas)
        /\ IsInjective(list_del(a, L[j]))
        /\ Entries(list_del(a, L[j])) = Entries(L[j]) \ {a}
        /\ Len(list_del(a, L[j])) = Len(L[j]) - c(j)
    BY RemoveLemma
  <2> QED  BY <2>1, <2>2
<1>8. Entries(M[k]) = Entries(L[k]) \cup {a}
  BY <1>1, <1>6
<1>9. \A j \in ListNames \ {k} : Entries(M[j]) = Entries(L[j]) \ {a}
  BY <1>7
<1>10. GoodLists(M)
  <2>1. \A j \in ListNames : M[j] \in Seq(Arenas)
    BY <1>6, <1>7
  <2>2. M \in [ListNames -> Seq(Arenas)]
    BY <2>1, <1>2
  <2>3. \A j \in ListNames : IsInjective(M[j])
    BY <1>6, <1>7
  <2>4. ASSUME NEW i \in ListNames, NEW j \in ListNames, i # j
        PROVE Entries(M[i]) \cap Entries(M[j]) = {}
    <3>1. Entries(L[i]) \cap Entries(L[j]) = {}
      BY <2>4 DEF GoodLists
    <3>2. i = k => Entries(M[i]) = Entries(L[i]) \cup {a} /\ Entries(M[j]) = Entries(L[j]) \ {a}
      BY <1>8, <1>9, <2>4
    <3>3. j = k => Entries(M[j]) = Entries(L[j]) \cup {a} /\ Entries(M[i]) = Entries(L[i]) \ {a}
      BY <1>8, <1>9, <2>4
    <3>4. i # k /\ j # k => Entries(M[j]) = Entries(L[j]) \ {a} /\ Entries(M[i]) = Entries(L[i]) \ {a}
      BY <1>9
    <3> QED  BY <3>1, <3>2, <3>3, <3>4
  <2> QED  BY <2>2, <2>3, <2>4 DEF GoodLists
<1>11. OnLists(M) = OnLists(L) \cup {a}
  BY <1>8, <1>9 DEF OnLists
<1>12. Len(M[k]) = Len(L[k]) + 1 - c(k)
  <2>1. Len(L[k]) \in Nat
    BY DEF GoodLists
  <2> QED  BY <2>1, <1>1, <1>6
<1>13. Total(M) = Total(L) + 1 - c("arenas") - c("filled") - c("purge")
  <2> DEFINE l(j) == Len(L[j])
             m(j) == Len(M[j])
  <2>1. l("arenas") \in Int /\ l("filled") \in Int /\ l("purge") \in Int
    BY DEF GoodLists, ListNames
  <2>2. c("arenas") \in Int /\ c("filled") \in Int /\ c("purge") \in Int
    OBVIOUS
  <2>3. /\ Total(M) = m("arenas") + m("filled") + m("purge")
        /\ Total(L) = l("arenas") + l("filled") + l("purge")
    BY DEF Total
  <2>4. m(k) = l(k) + 1 - c(k)
    BY <1>12
  <2>5. \A j \in ListNames : j # k => m(j) = l(j) - c(j)
    BY <1>7
  <2> HIDE DEF c, l, m
  <2>6. CASE k = "arenas"
    BY <2>1, <2>2, <2>3, <2>4, <2>5, <2>6 DEF ListNames
  <2>7. CASE k = "filled"
    BY <2>1, <2>2, <2>3, <2>4, <2>5, <2>7 DEF ListNames
  <2>8. CASE k = "purge"
    BY <2>1, <2>2, <2>3, <2>4, <2>5, <2>8 DEF ListNames
  <2> QED  BY <2>6, <2>7, <2>8 DEF ListNames
<1>14. Total(L) \in Nat
  BY DEF GoodLists, ListNames, Total
<1>15. a \notin OnLists(L) => c("arenas") = 0 /\ c("filled") = 0 /\ c("purge") = 0
  BY DEF OnLists, ListNames
<1>16. a \in OnLists(L) =>
          \/ c("arenas") = 1 /\ c("filled") = 0 /\ c("purge") = 0
          \/ c("arenas") = 0 /\ c("filled") = 1 /\ c("purge") = 0
          \/ c("arenas") = 0 /\ c("filled") = 0 /\ c("purge") = 1
  <2>1. /\ Entries(L["arenas"]) \cap Entries(L["filled"]) = {}
        /\ Entries(L["arenas"]) \cap Entries(L["purge"]) = {}
        /\ Entries(L["filled"]) \cap Entries(L["purge"]) = {}
    BY DEF GoodLists, ListNames
  <2>2. OnLists(L) = Entries(L["arenas"]) \cup Entries(L["filled"]) \cup Entries(L["purge"])
    BY DEF OnLists, ListNames
  <2> QED  BY <2>1, <2>2
<1>17. a \in OnLists(L) => Total(M) = Total(L)
  BY <1>13, <1>14, <1>16
<1>18. a \notin OnLists(L) => Total(M) = Total(L) + 1
  BY <1>13, <1>14, <1>15
<1> QED  BY <1>8, <1>9, <1>10, <1>11, <1>17, <1>18

\* What an arena's place on the lists says when nothing else changes.
LEMMA StayLemma ==
    ASSUME NEW L, GoodLists(L), NEW A \in [Arenas -> ArenaType], NEW a \in Arenas,
           ListsMatch(L, A, {a}), a \in Entries(L["arenas"]),
           NEW r \in ArenaType, r.passive_cnt > 0
    PROVE  ListsMatch(L, [A EXCEPT ![a] = r], {})
<1>1. a \notin Entries(L["filled"]) /\ a \notin Entries(L["purge"])
  BY DEF GoodLists, ListNames
<1>2. \A k \in ListNames : Entries(L[k]) \subseteq Arenas
  BY DEF GoodLists, Entries, Range
<1>3. \A b \in Arenas : [A EXCEPT ![a] = r][b] = IF b = a THEN r ELSE A[b]
  OBVIOUS
<1> QED  BY <1>1, <1>2, <1>3 DEF ListsMatch, ListNames

\* An arena without a passive iobuf belongs on `filled'.
LEMMA MoveToFilledLemma ==
    ASSUME NEW L, GoodLists(L), NEW A \in [Arenas -> ArenaType], NEW a \in Arenas,
           ListsMatch(L, A, {a}), NEW r \in ArenaType, r.passive_cnt = 0
    PROVE  ListsMatch(MoveHead(a, "filled", L), [A EXCEPT ![a] = r], {})
<1> DEFINE M == MoveHead(a, "filled", L)
<1>0. M = MoveHead(a, "filled", L) /\ "filled" \in ListNames
  BY DEF ListNames
<1> HIDE DEF M
<1>1. /\ Entries(M["filled"]) = Entries(L["filled"]) \cup {a}
      /\ Entries(M["arenas"]) = Entries(L["arenas"]) \ {a}
      /\ Entries(M["purge"]) = Entries(L["purge"]) \ {a}
  <2>1. Entries(M["filled"]) = Entries(L["filled"]) \cup {a}
    BY <1>0, MoveLemma
  <2>2. \A j \in ListNames \ {"filled"} : Entries(M[j]) = Entries(L[j]) \ {a}
    BY <1>0, MoveLemma
  <2> QED  BY <2>1, <2>2 DEF ListNames
<1>2. \A k \in ListNames : Entries(L[k]) \subseteq Arenas
  BY DEF GoodLists, Entries, Range
<1>3. \A b \in Arenas : [A EXCEPT ![a] = r][b] = IF b = a THEN r ELSE A[b]
  OBVIOUS
<1> QED  BY <1>1, <1>2, <1>3 DEF ListsMatch, ListNames, M

\* An arena without an active iobuf may go to `purge'.
LEMMA MoveToPurgeLemma ==
    ASSUME NEW L, GoodLists(L), NEW A \in [Arenas -> ArenaType], NEW a \in Arenas,
           ListsMatch(L, A, {a}), NEW r \in ArenaType, r.active_cnt = 0
    PROVE  ListsMatch(MoveTail(a, "purge", L), [A EXCEPT ![a] = r], {})
<1> DEFINE M == MoveTail(a, "purge", L)
<1>0. M = MoveTail(a, "purge", L) /\ "purge" \in ListNames
  BY DEF ListNames
<1> HIDE DEF M
<1>1. /\ Entries(M["filled"]) = Entries(L["filled"]) \ {a}
      /\ Entries(M["arenas"]) = Entries(L["arenas"]) \ {a}
      /\ Entries(M["purge"]) = Entries(L["purge"]) \cup {a}
  <2>1. Entries(M["purge"]) = Entries(L["purge"]) \cup {a}
    BY <1>0, MoveLemma
  <2>2. \A j \in ListNames \ {"purge"} : Entries(M[j]) = Entries(L[j]) \ {a}
    BY <1>0, MoveLemma
  <2> QED  BY <2>1, <2>2 DEF ListNames
<1>2. \A k \in ListNames : Entries(L[k]) \subseteq Arenas
  BY DEF GoodLists, Entries, Range
<1>3. \A b \in Arenas : [A EXCEPT ![a] = r][b] = IF b = a THEN r ELSE A[b]
  OBVIOUS
<1> QED  BY <1>1, <1>2, <1>3 DEF ListsMatch, ListNames, M

\* Taking an arena to the tail of `arenas', its own contents aside.
LEMMA MoveToArenasLemma ==
    ASSUME NEW L, GoodLists(L), NEW A, NEW a \in Arenas, ListsMatch(L, A, {})
    PROVE  ListsMatch(MoveTail(a, "arenas", L), A, {a})
<1> DEFINE M == MoveTail(a, "arenas", L)
<1>0. M = MoveTail(a, "arenas", L) /\ "arenas" \in ListNames
  BY DEF ListNames
<1> HIDE DEF M
<1>1. /\ Entries(M["filled"]) = Entries(L["filled"]) \ {a}
      /\ Entries(M["arenas"]) = Entries(L["arenas"]) \cup {a}
      /\ Entries(M["purge"]) = Entries(L["purge"]) \ {a}
  <2>1. Entries(M["arenas"]) = Entries(L["arenas"]) \cup {a}
    BY <1>0, MoveLemma
  <2>2. \A j \in ListNames \ {"arenas"} : Entries(M[j]) = Entries(L[j]) \ {a}
    BY <1>0, MoveLemma
  <2> QED  BY <2>1, <2>2 DEF ListNames
<1> QED  BY <1>1 DEF ListsMatch, M

\* __iobuf_get leaves the lists right: an arena that becomes full goes to `filled'.
LEMMA GetListsLemma ==
    ASSUME NEW L, GoodLists(L), NEW A \in [Arenas -> ArenaType], NEW a \in Arenas,
           ListsMatch(L, A, {a}), a \in Entries(L["arenas"]), NEW r \in ArenaType,
           NEW M, M = IF r.passive_cnt = 0 THEN MoveHead(a, "filled", L) ELSE L
    PROVE  ListsAfter(M, L, [A EXCEPT ![a] = r])
<1>1. a \in OnLists(L) /\ "filled" \in ListNames
  BY DEF OnLists, ListNames
<1>2. CASE r.passive_cnt = 0
  <2>1. M = MoveHead(a, "filled", L)
    BY <1>2
  <2>2. GoodLists(M) /\ OnLists(M) = OnLists(L) \cup {a} /\ Total(M) = Total(L)
    BY <2>1, <1>1, MoveLemma
  <2>3. OnLists(L) \cup {a} = OnLists(L)
    BY <1>1
  <2>4. ListsMatch(M, [A EXCEPT ![a] = r], {})
    BY <2>1, <1>2, MoveToFilledLemma
  <2> QED  BY <2>2, <2>3, <2>4 DEF ListsAfter
<1>3. CASE r.passive_cnt # 0
  <2>1. r.passive_cnt > 0
    BY <1>3, IobufCntAssumption DEF ArenaType
  <2>2. ListsMatch(L, [A EXCEPT ![a] = r], {})
    BY <2>1, StayLemma
  <2> QED  BY <1>3, <2>2 DEF ListsAfter
<1> QED  BY <1>2, <1>3

\* __iobuf_put leaves the lists right: a full arena goes back to `arenas' and one
\* without an active iobuf goes on to `purge'.
LEMMA PutListsLemma ==
    ASSUME NEW L, GoodLists(L), NEW A \in [Arenas -> ArenaType], NEW a \in Arenas,
           ListsMatch(L, A, {}), a \in OnLists(L), A[a].active_cnt > 0,
           NEW r \in ArenaType, r.passive_cnt > 0,
           NEW N, N = (IF A[a].passive_cnt = 0 THEN MoveTail(a, "arenas", L) ELSE L),
           NEW M, M = (IF r.active_cnt = 0 THEN MoveTail(a, "purge", N) ELSE N)
    PROVE  ListsAfter(M, L, [A EXCEPT ![a] = r])
<1>0. "arenas" \in ListNames /\ "purge" \in ListNames
  BY DEF ListNames
<1>1. OnLists(L) \cup {a} = OnLists(L)
  OBVIOUS
<1>2. /\ GoodLists(N) /\ OnLists(N) = OnLists(L) /\ Total(N) = Total(L)
      /\ ListsMatch(N, A, {a}) /\ a \in Entries(N["arenas"])
  <2>1. CASE A[a].passive_cnt = 0
    <3>1. N = MoveTail(a, "arenas", L)
      BY <2>1
    <3>2. GoodLists(N) /\ OnLists(N) = OnLists(L) \cup {a} /\ Total(N) = Total(L)
      BY <3>1, <1>0, MoveLemma
    <3>3. Entries(N["arenas"]) = Entries(L["arenas"]) \cup {a}
      BY <3>1, <1>0, MoveLemma
    <3>4. ListsMatch(N, A, {a})
      BY <3>1, MoveToArenasLemma
    <3> QED  BY <1>1, <3>2, <3>3, <3>4
  <2>2. CASE A[a].passive_cnt # 0
    <3>1. N = L
      BY <2>2
    <3>2. a \notin Entries(L["filled"]) /\ a \notin Entries(L["purge"])
      BY <2>2 DEF ListsMatch
    <3>3. a \in Entries(L["arenas"])
      BY <3>2 DEF OnLists, ListNames
    <3>4. ListsMatch(L, A, {a})
      BY DEF ListsMatch
    <3> QED  BY <3>1, <3>3, <3>4
  <2> QED  BY <2>1, <2>2
<1>3. CASE r.active_cnt = 0
  <2>1. M = MoveTail(a, "purge", N)
    BY <1>3
  <2>2. GoodLists(M) /\ OnLists(M) = OnLists(N) \cup {a} /\ Total(M) = Total(N)
    BY <2>1, <1>0, <1>2, MoveLemma
  <2>3. ListsMatch(M, [A EXCEPT ![a] = r], {})
    BY <2>1, <1>2, <1>3, MoveToPurgeLemma
  <2> QED  BY <2>2, <2>3, <1>1, <1>2 DEF ListsAfter
<1>4. CASE r.active_cnt # 0
  <2>1. ListsMatch(N, [A EXCEPT ![a] = r], {})
    BY <1>2, StayLemma
  <2> QED  BY <2>1, <1>2, <1>4 DEF ListsAfter
<1> QED  BY <1>3, <1>4

-----------------------------------------------------------------------------
(* The inductive invariant *)

ArenasWellFormed == \A a \in Arenas : WellFormed(arena[a])

\* iobuf->ref counts the references that clients own.
RefsOwned == \A a \in Arenas : \A i \in Slots : arena[a].ref[i] = owned[<<a, i>>]

\* The active list of an arena holds the iobufs that have a holder or that a
\* thread has dropped and not put back yet.
ActiveInUse ==
    \A a \in Arenas : \A i \in Slots :
        i \in Entries(arena[a].active) <=> (owned[<<a, i>>] > 0 \/ <<a, i>> \in Putting)

\* Only one thread puts an iobuf back, after its last reference is gone.
OnePutter ==
    /\ \A t \in Threads : pc[t] = "put" => buf[t] \in Iobufs /\ owned[buf[t]] = 0
    /\ \A t, u \in Threads : pc[t] = "put" /\ pc[u] = "put" /\ buf[t] = buf[u] => t = u

\* Nothing of an unmapped arena is in use.
UnmappedUnused == \A a \in Arenas \ live : arena[a].active_cnt = 0

PoolLists ==
    /\ GoodLists(lists)
    /\ live = OnLists(lists)
    /\ ListsMatch(lists, arena, {})
    /\ arena_cnt = Total(lists)

IInv ==
    /\ TypeOK
    /\ PoolLists
    /\ ArenasWellFormed
    /\ RefsOwned
    /\ ActiveInUse
    /\ OnePutter
    /\ UnmappedUnused
    /\ NoAbort

\* PoolLists says what the runs check as ListsDescribeArenas.
LEMMA PoolListsLemma == PoolLists => ListsDescribeArenas
BY DEF PoolLists, ListsDescribeArenas, GoodLists, OnLists, ListsMatch, Total

\* The arenas on the lists are arenas, and there is a number of them.
LEMMA GoodListsLemma ==
    ASSUME NEW L, GoodLists(L)
    PROVE  OnLists(L) \in SUBSET Arenas /\ Total(L) \in Nat
<1>1. \A k \in ListNames : Entries(L[k]) \subseteq Arenas
  BY DEF GoodLists, Entries, Range
<1>2. Total(L) \in Nat
  BY DEF GoodLists, ListNames, Total
<1> QED  BY <1>1, <1>2 DEF OnLists

\* The part of iobuf_get that its three paths share preserves the invariant.
LEMMA TakeFromLemma ==
    ASSUME IInv, NEW a \in Arenas, NEW r, NEW L, TakeFrom(a, r, L),
           WellFormed(r), r.passive_cnt > 0,
           \A i \in Slots : r.ref[i] = owned[<<a, i>>],
           \A i \in Slots : i \in Entries(r.active) <=> (owned[<<a, i>>] > 0 \/ <<a, i>> \in Putting),
           GoodLists(L), ListsMatch(L, arena, {a}), a \in Entries(L["arenas"]),
           OnLists(L) = live', Total(L) = arena_cnt', live \subseteq live'
    PROVE  IInv'
<1> DEFINE i == Head(r.passive)
           r2 == ArenaGet(r)
           b == <<a, i>>
<1>1. /\ i \in Entries(r.passive)
      /\ WellFormed(r2)
      /\ Entries(r2.active) = Entries(r.active) \cup {i}
      /\ r2.ref = [r.ref EXCEPT ![i] = @ + 1]
  BY ArenaGetLemma
<1>2. i \in Slots /\ i \notin Entries(r.active) /\ r.ref \in [Slots -> Nat]
  BY <1>1 DEF WellFormed, ArenaType
<1>3. /\ arena' = [arena EXCEPT ![a] = r2]
      /\ lists' = IF r2.passive_cnt = 0 THEN MoveHead(a, "filled", L) ELSE L
      /\ owned' = [owned EXCEPT ![b] = @ + 1]
      /\ pc' = pc /\ buf' = buf /\ aborted' = aborted
  BY DEF TakeFrom
<1> HIDE DEF i, r2
<1>4. b \in Iobufs /\ owned \in [Iobufs -> Nat] /\ owned[b] = 0 /\ b \notin Putting
  BY <1>2 DEF IInv, TypeOK, Iobufs
<1>5. arena \in [Arenas -> ArenaType] /\ r2 \in ArenaType
  BY <1>1 DEF IInv, TypeOK, WellFormed
<1>6. /\ GoodLists(lists')
      /\ OnLists(lists') = OnLists(L)
      /\ Total(lists') = Total(L)
      /\ ListsMatch(lists', arena', {})
  <2>1. lists' = IF r2.passive_cnt = 0 THEN MoveHead(a, "filled", L) ELSE L
    BY <1>3
  <2>2. ListsAfter(lists', L, [arena EXCEPT ![a] = r2])
    BY <2>1, <1>5, GetListsLemma
  <2> QED  BY <2>2, <1>3 DEF ListsAfter
<1>7. PoolLists'
  BY <1>6 DEF PoolLists, GoodLists, OnLists, ListsMatch, Total
<1>8. TypeOK'
  <2>1. lists' \in [ListNames -> Seq(Arenas)]
    BY <1>6 DEF GoodLists
  <2>2. live' \in SUBSET Arenas /\ arena_cnt' \in Nat
    BY GoodListsLemma
  <2>3. arena' \in [Arenas -> ArenaType]
    BY <1>3, <1>5
  <2>4. owned' \in [Iobufs -> Nat]
    BY <1>3, <1>4
  <2>5. /\ pc' \in [Threads -> {"idle", "put", "prune"}]
        /\ buf' \in [Threads -> Iobufs \cup {NoBuf}]
        /\ aborted' \in BOOLEAN
    BY <1>3 DEF IInv, TypeOK
  <2> QED  BY <2>1, <2>2, <2>3, <2>4, <2>5 DEF TypeOK
<1>9. \A c \in Arenas : arena'[c] = IF c = a THEN r2 ELSE arena[c]
  BY <1>3, <1>5
<1>10. \A c \in Arenas : \A j \in Slots :
          owned'[<<c, j>>] = IF c = a /\ j = i THEN owned[b] + 1 ELSE owned[<<c, j>>]
  BY <1>3, <1>4 DEF Iobufs
<1>11. Putting' = Putting
  BY <1>3 DEF Putting
<1>12. ArenasWellFormed'
  <2>1. \A c \in Arenas : WellFormed(arena'[c])
    BY <1>1, <1>9 DEF IInv, ArenasWellFormed
  <2> QED  BY <2>1 DEF ArenasWellFormed, WellFormed
<1>13. RefsOwned'
  <2>1. ASSUME NEW c \in Arenas, NEW j \in Slots PROVE arena'[c].ref[j] = owned'[<<c, j>>]
    <3>1. CASE c = a
      <4>1. arena'[c].ref[j] = IF j = i THEN r.ref[j] + 1 ELSE r.ref[j]
        BY <3>1, <1>1, <1>2, <1>9
      <4> QED  BY <4>1, <3>1, <1>10
    <3>2. CASE c # a
      BY <3>2, <1>9, <1>10 DEF IInv, RefsOwned
    <3> QED  BY <3>1, <3>2
  <2> QED  BY <2>1 DEF RefsOwned
<1>14. ActiveInUse'
  <2>1. ASSUME NEW c \in Arenas, NEW j \in Slots
        PROVE  j \in Entries(arena'[c].active) <=> (owned'[<<c, j>>] > 0 \/ <<c, j>> \in Putting)
    <3>1. CASE c = a
      <4>1. j \in Entries(arena'[c].active) <=> (j \in Entries(r.active) \/ j = i)
        BY <3>1, <1>1, <1>9
      <4> QED  BY <4>1, <3>1, <1>4, <1>10
    <3>2. CASE c # a
      BY <3>2, <1>9, <1>10 DEF IInv, ActiveInUse
    <3> QED  BY <3>1, <3>2
  <2> QED  BY <2>1, <1>11 DEF ActiveInUse
<1>15. OnePutter'
  <2>1. ASSUME NEW t \in Threads, pc[t] = "put" PROVE buf[t] \in Iobufs /\ owned'[buf[t]] = 0
    <3>1. buf[t] \in Iobufs /\ owned[buf[t]] = 0 /\ buf[t] \in Putting
      BY <2>1 DEF IInv, OnePutter, Putting
    <3>2. buf[t] # b
      BY <3>1, <1>4
    <3> QED  BY <3>1, <3>2, <1>3, <1>4
  <2> QED  BY <2>1, <1>3 DEF IInv, OnePutter
<1>16. UnmappedUnused'
  <2>1. a \in live'
    BY DEF OnLists, ListNames
  <2> QED  BY <2>1, <1>9 DEF IInv, UnmappedUnused
<1>17. NoAbort'
  BY <1>3 DEF IInv, NoAbort
<1> QED  BY <1>7, <1>8, <1>12, <1>13, <1>14, <1>15, <1>16, <1>17 DEF IInv

\* An arena counts an active iobuf exactly when it has one on its active list.
LEMMA ActiveLemma ==
    ASSUME NEW r, WellFormed(r)
    PROVE  /\ r.active_cnt = 0 <=> Entries(r.active) = {}
           /\ r.active_cnt \in Nat /\ r.passive_cnt \in Nat
           /\ r.active_cnt = 0 => r.passive_cnt > 0
<1>1. r.active_cnt \in 0 .. IobufCnt /\ r.passive_cnt \in 0 .. IobufCnt /\ IobufCnt \in Nat \ {0}
  BY IobufCntAssumption DEF WellFormed, ArenaType
<1>2. r.active_cnt + r.passive_cnt = IobufCnt
  BY DEF WellFormed
<1>3. r.active_cnt = 0 => r.passive_cnt > 0
  BY <1>1, <1>2
<1>4. r.active \in Seq(Slots)
  BY DEF WellFormed, ArenaType
<1>5. Len(r.active) = 0 <=> Entries(r.active) = {}
  <2>1. ASSUME Len(r.active) = 0 PROVE Entries(r.active) = {}
    BY <1>4, <2>1 DEF Entries, Range
  <2>2. ASSUME Len(r.active) # 0 PROVE Entries(r.active) # {}
    <3>1. 1 \in DOMAIN r.active
      BY <1>4, <2>2
    <3> QED  BY <3>1 DEF Entries, Range
  <2> QED  BY <2>1, <2>2
<1>6. r.active_cnt = 0 <=> Entries(r.active) = {}
  BY <1>5 DEF WellFormed
<1> QED  BY <1>1, <1>3, <1>6

\* iobuf_get from an arena of `arenas' preserves the invariant.
LEMMA GetSelectedInv ==
    ASSUME IInv, NEW t \in Threads, GetSelected(t)
    PROVE  IInv'
<1>1. PICK n \in Selectable : TakeFrom(lists["arenas"][n], arena[lists["arenas"][n]], lists)
  BY DEF GetSelected
<1> DEFINE a == lists["arenas"][n]
<1>2. live' = live /\ arena_cnt' = arena_cnt
  BY DEF GetSelected
<1>3. n \in DOMAIN lists["arenas"] /\ arena[a].passive_cnt # 0
  BY DEF Selectable
<1>4. lists["arenas"] \in Seq(Arenas)
  BY DEF IInv, TypeOK, ListNames
<1>5. a \in Arenas /\ a \in Entries(lists["arenas"])
  BY <1>3, <1>4 DEF Entries, Range
<1>6. TakeFrom(a, arena[a], lists)
  BY <1>1
<1> HIDE DEF a
<1>7. WellFormed(arena[a])
  BY <1>5 DEF IInv, ArenasWellFormed
<1>8. arena[a].passive_cnt > 0
  BY <1>3, <1>7, ActiveLemma
<1>9. /\ \A i \in Slots : arena[a].ref[i] = owned[<<a, i>>]
      /\ \A i \in Slots : i \in Entries(arena[a].active)
                             <=> (owned[<<a, i>>] > 0 \/ <<a, i>> \in Putting)
  BY <1>5 DEF IInv, RefsOwned, ActiveInUse
<1>10. GoodLists(lists) /\ OnLists(lists) = live' /\ Total(lists) = arena_cnt'
  BY <1>2 DEF IInv, PoolLists
<1>11. ListsMatch(lists, arena, {a})
  BY DEF IInv, PoolLists, ListsMatch
<1> QED  BY <1>2, <1>5, <1>6, <1>7, <1>8, <1>9, <1>10, <1>11, TakeFromLemma

\* iobuf_get through __iobuf_arena_unprune preserves the invariant.
LEMMA GetUnprunedInv ==
    ASSUME IInv, NEW t \in Threads, GetUnpruned(t)
    PROVE  IInv'
<1> DEFINE a == Head(lists["purge"])
           L == MoveTail(a, "arenas", lists)
<1>1. TakeFrom(a, arena[a], L) /\ live' = live /\ arena_cnt' = arena_cnt
  BY DEF GetUnpruned
<1>2. a \in Arenas /\ a \in Entries(lists["purge"])
  <2>1. lists["purge"] \in Seq(Arenas)
    BY DEF IInv, TypeOK, ListNames
  <2>2. lists["purge"] # <<>>
    BY DEF GetUnpruned, list_empty
  <2>3. 1 \in DOMAIN lists["purge"] /\ a = lists["purge"][1]
    BY <2>1, <2>2
  <2> QED  BY <2>1, <2>3 DEF Entries, Range
<1>3. L = MoveTail(a, "arenas", lists) /\ "arenas" \in ListNames
  BY DEF ListNames
<1> HIDE DEF a, L
<1>4. WellFormed(arena[a])
  BY <1>2 DEF IInv, ArenasWellFormed
<1>5. arena[a].active_cnt = 0
  BY <1>2 DEF IInv, PoolLists, ListsMatch
<1>6. arena[a].passive_cnt > 0
  BY <1>4, <1>5, ActiveLemma
<1>7. /\ \A i \in Slots : arena[a].ref[i] = owned[<<a, i>>]
      /\ \A i \in Slots : i \in Entries(arena[a].active)
                             <=> (owned[<<a, i>>] > 0 \/ <<a, i>> \in Putting)
  BY <1>2 DEF IInv, RefsOwned, ActiveInUse
<1>8. /\ GoodLists(lists) /\ OnLists(lists) = live /\ Total(lists) = arena_cnt
      /\ ListsMatch(lists, arena, {})
  BY DEF IInv, PoolLists
<1>9. a \in OnLists(lists)
  BY <1>2 DEF OnLists, ListNames
<1>10. GoodLists(L)
  BY <1>2, <1>3, <1>8, MoveLemma
<1>11. Entries(L["arenas"]) = Entries(lists["arenas"]) \cup {a}
  BY <1>2, <1>3, <1>8, MoveLemma
<1>12. OnLists(L) = OnLists(lists) \cup {a}
  BY <1>2, <1>3, <1>8, MoveLemma
<1>13. Total(L) = Total(lists)
  BY <1>2, <1>3, <1>8, <1>9, MoveLemma
<1>14. ListsMatch(L, arena, {a})
  BY <1>2, <1>3, <1>8, MoveToArenasLemma
<1>15. OnLists(L) = live' /\ Total(L) = arena_cnt' /\ live \subseteq live' /\ a \in Entries(L["arenas"])
  BY <1>1, <1>8, <1>9, <1>11, <1>12, <1>13
<1> QED  BY <1>1, <1>2, <1>4, <1>6, <1>7, <1>10, <1>14, <1>15, TakeFromLemma

\* iobuf_get through __iobuf_arena_alloc preserves the invariant.
LEMMA GetAllocatedInv ==
    ASSUME IInv, NEW t \in Threads, GetAllocated(t)
    PROVE  IInv'
<1>1. PICK a \in Arenas \ live :
         TakeFrom(a, FreshArena, MoveTail(a, "arenas", lists)) /\ live' = live \cup {a}
  BY DEF GetAllocated
<1> DEFINE L == MoveTail(a, "arenas", lists)
<1>2. arena_cnt' = arena_cnt + 1
  BY DEF GetAllocated
<1>3. L = MoveTail(a, "arenas", lists) /\ "arenas" \in ListNames
  BY DEF ListNames
<1>4. TakeFrom(a, FreshArena, L)
  BY <1>1
<1> HIDE DEF L
<1>5. /\ WellFormed(FreshArena) /\ FreshArena.passive_cnt > 0
      /\ Entries(FreshArena.active) = {}
      /\ \A i \in Slots : FreshArena.ref[i] = 0
  BY FreshArenaLemma
<1>6. ASSUME NEW i \in Slots PROVE owned[<<a, i>>] = 0 /\ <<a, i>> \notin Putting
  <2>1. WellFormed(arena[a]) /\ arena[a].active_cnt = 0
    BY DEF IInv, ArenasWellFormed, UnmappedUnused
  <2>2. i \notin Entries(arena[a].active)
    BY <2>1, ActiveLemma
  <2>3. owned[<<a, i>>] \in Nat
    BY DEF IInv, TypeOK, Iobufs
  <2> QED  BY <2>2, <2>3 DEF IInv, ActiveInUse
<1>7. /\ \A i \in Slots : FreshArena.ref[i] = owned[<<a, i>>]
      /\ \A i \in Slots : i \in Entries(FreshArena.active)
                             <=> (owned[<<a, i>>] > 0 \/ <<a, i>> \in Putting)
  BY <1>5, <1>6
<1>8. /\ GoodLists(lists) /\ OnLists(lists) = live /\ Total(lists) = arena_cnt
      /\ ListsMatch(lists, arena, {})
  BY DEF IInv, PoolLists
<1>9. a \notin OnLists(lists)
  BY <1>8
<1>10. GoodLists(L)
  BY <1>3, <1>8, MoveLemma
<1>11. Entries(L["arenas"]) = Entries(lists["arenas"]) \cup {a}
  BY <1>3, <1>8, MoveLemma
<1>12. OnLists(L) = OnLists(lists) \cup {a}
  BY <1>3, <1>8, MoveLemma
<1>13. Total(L) = Total(lists) + 1
  BY <1>3, <1>8, <1>9, MoveLemma
<1>14. ListsMatch(L, arena, {a})
  BY <1>3, <1>8, MoveToArenasLemma
<1>15. OnLists(L) = live' /\ Total(L) = arena_cnt' /\ live \subseteq live' /\ a \in Entries(L["arenas"])
  BY <1>1, <1>2, <1>8, <1>11, <1>12, <1>13
<1> QED  BY <1>4, <1>5, <1>7, <1>10, <1>14, <1>15, TakeFromLemma

\* A change of iobuf->ref that the clients' references follow leaves everything
\* but the use of that iobuf as it was.
LEMMA RefStepLemma ==
    ASSUME IInv, NEW b \in Iobufs, NEW d \in Int, owned[b] + d \in Nat,
           arena' = [arena EXCEPT ![b[1]] = ArenaRef(@, b[2], d)],
           owned' = [owned EXCEPT ![b] = @ + d],
           lists' = lists, arena_cnt' = arena_cnt, live' = live, aborted' = aborted
    PROVE  /\ PoolLists' /\ ArenasWellFormed' /\ RefsOwned' /\ UnmappedUnused' /\ NoAbort'
           /\ lists' \in [ListNames -> Seq(Arenas)]
           /\ arena' \in [Arenas -> ArenaType]
           /\ owned' \in [Iobufs -> Nat]
           /\ \A a \in Arenas : arena'[a].active = arena[a].active
           /\ \A a \in Arenas : \A i \in Slots :
                 owned'[<<a, i>>] = IF <<a, i>> = b THEN owned[b] + d ELSE owned[<<a, i>>]
<1>1. PICK c \in Arenas, j \in Slots : b = <<c, j>>
  BY DEF Iobufs
<1> DEFINE r == arena[c]
           r2 == ArenaRef(r, j, d)
<1>2. owned \in [Iobufs -> Nat] /\ arena \in [Arenas -> ArenaType]
  BY DEF IInv, TypeOK
<1>3. r.ref[j] + d \in Nat /\ WellFormed(r) /\ r.ref \in [Slots -> Nat]
  BY <1>1, <1>2 DEF IInv, RefsOwned, ArenasWellFormed, ArenaType
<1>4. /\ WellFormed(r2)
      /\ r2.active = r.active
      /\ r2.active_cnt = r.active_cnt
      /\ r2.passive_cnt = r.passive_cnt
      /\ r2.ref = [r.ref EXCEPT ![j] = @ + d]
  BY <1>3, ArenaRefLemma
<1>5. \A a \in Arenas : arena'[a] = IF a = c THEN r2 ELSE arena[a]
  BY <1>1, <1>2
<1>6. arena' \in [Arenas -> ArenaType]
  BY <1>1, <1>2, <1>4 DEF WellFormed
<1> HIDE DEF r2
<1>7. /\ \A a \in Arenas : arena'[a].active = arena[a].active
      /\ \A a \in Arenas : arena'[a].active_cnt = arena[a].active_cnt
      /\ \A a \in Arenas : arena'[a].passive_cnt = arena[a].passive_cnt
  BY <1>4, <1>5
<1>8. owned' \in [Iobufs -> Nat]
  BY <1>2
<1>9. \A a \in Arenas : \A i \in Slots :
         owned'[<<a, i>>] = IF <<a, i>> = b THEN owned[b] + d ELSE owned[<<a, i>>]
  BY <1>2 DEF Iobufs
<1>10. ArenasWellFormed'
  <2>1. \A a \in Arenas : WellFormed(arena'[a])
    BY <1>4, <1>5 DEF IInv, ArenasWellFormed
  <2> QED  BY <2>1 DEF ArenasWellFormed, WellFormed
<1>11. RefsOwned'
  <2>1. ASSUME NEW a \in Arenas, NEW i \in Slots PROVE arena'[a].ref[i] = owned'[<<a, i>>]
    <3>1. r.ref[j] = owned[b]
      BY <1>1 DEF IInv, RefsOwned
    <3>2. arena[a].ref[i] = owned[<<a, i>>]
      BY DEF IInv, RefsOwned
    <3>3. CASE a = c /\ i = j
      <4>1. arena'[a].ref[i] = r.ref[j] + d
        BY <3>3, <1>3, <1>4, <1>5
      <4>2. owned'[<<a, i>>] = owned[b] + d
        BY <3>3, <1>1, <1>9
      <4> QED  BY <4>1, <4>2, <3>1
    <3>4. CASE ~(a = c /\ i = j)
      <4>1. arena'[a].ref[i] = arena[a].ref[i]
        BY <3>4, <1>3, <1>4, <1>5
      <4>2. owned'[<<a, i>>] = owned[<<a, i>>]
        BY <3>4, <1>1, <1>9
      <4> QED  BY <4>1, <4>2, <3>2
    <3> QED  BY <3>3, <3>4
  <2> QED  BY <2>1 DEF RefsOwned
<1>12. PoolLists'
  <2>1. \A k \in ListNames : Entries(lists[k]) \subseteq Arenas
    BY DEF IInv, PoolLists, GoodLists, Entries, Range
  <2>2. ListsMatch(lists, arena', {})
    BY <2>1, <1>7 DEF IInv, PoolLists, ListsMatch, ListNames
  <2> QED  BY <2>2 DEF IInv, PoolLists, GoodLists, OnLists, ListsMatch, Total
<1>13. UnmappedUnused' /\ NoAbort'
  BY <1>7 DEF IInv, UnmappedUnused, NoAbort
<1>14. lists' \in [ListNames -> Seq(Arenas)]
  BY DEF IInv, TypeOK
<1> QED  BY <1>6, <1>7, <1>8, <1>9, <1>10, <1>11, <1>12, <1>13, <1>14

\* iobuf_ref preserves the invariant.
LEMMA IobufRefInv ==
    ASSUME IInv, NEW t \in Threads, NEW b \in Iobufs, iobuf_ref(t, b)
    PROVE  IInv'
<1>1. /\ arena' = [arena EXCEPT ![b[1]] = ArenaRef(@, b[2], 1)]
      /\ owned' = [owned EXCEPT ![b] = @ + 1]
      /\ lists' = lists /\ arena_cnt' = arena_cnt /\ live' = live /\ aborted' = aborted
      /\ pc' = pc /\ buf' = buf
  BY DEF iobuf_ref
<1>2. owned[b] \in Nat /\ owned[b] > 0 /\ owned \in [Iobufs -> Nat]
  BY MaxRefAssumption DEF iobuf_ref, IInv, TypeOK
<1>3. owned[b] + 1 \in Nat /\ 1 \in Int
  BY <1>2
<1>4. /\ PoolLists' /\ ArenasWellFormed' /\ RefsOwned' /\ UnmappedUnused' /\ NoAbort'
      /\ lists' \in [ListNames -> Seq(Arenas)]
      /\ arena' \in [Arenas -> ArenaType]
      /\ owned' \in [Iobufs -> Nat]
      /\ \A a \in Arenas : arena'[a].active = arena[a].active
      /\ \A a \in Arenas : \A i \in Slots :
            owned'[<<a, i>>] = IF <<a, i>> = b THEN owned[b] + 1 ELSE owned[<<a, i>>]
  BY <1>1, <1>3, RefStepLemma
<1>5. Putting' = Putting
  BY <1>1 DEF Putting
<1>6. ActiveInUse'
  <2>1. ASSUME NEW a \in Arenas, NEW i \in Slots PROVE owned'[<<a, i>>] > 0 <=> owned[<<a, i>>] > 0
    <3>1. owned'[<<a, i>>] = IF <<a, i>> = b THEN owned[b] + 1 ELSE owned[<<a, i>>]
      BY <1>4
    <3>2. CASE <<a, i>> = b
      BY <3>1, <3>2, <1>2
    <3> QED  BY <3>1, <3>2
  <2> QED  BY <2>1, <1>4, <1>5 DEF IInv, ActiveInUse
<1>7. OnePutter'
  <2>1. \A x \in Iobufs : owned[x] = 0 => owned'[x] = 0
    BY <1>1, <1>2
  <2> QED  BY <2>1, <1>1 DEF IInv, OnePutter
<1>8. TypeOK'
  BY <1>1, <1>4 DEF IInv, TypeOK
<1> QED  BY <1>4, <1>6, <1>7, <1>8 DEF IInv

\* The decrement of iobuf_unref preserves the invariant: only the thread that
\* took the last reference goes on to iobuf_put.
LEMMA IobufUnrefInv ==
    ASSUME IInv, NEW t \in Threads, NEW b \in Iobufs, iobuf_unref(t, b)
    PROVE  IInv'
<1> DEFINE last == arena[b[1]].ref[b[2]] - 1 = 0
<1>1. /\ arena' = [arena EXCEPT ![b[1]] = ArenaRef(@, b[2], -1)]
      /\ owned' = [owned EXCEPT ![b] = @ + (-1)]
      /\ lists' = lists /\ arena_cnt' = arena_cnt /\ live' = live /\ aborted' = aborted
      /\ pc[t] = "idle"
      /\ pc' = [pc EXCEPT ![t] = IF last THEN "put" ELSE "idle"]
      /\ buf' = [buf EXCEPT ![t] = IF last THEN b ELSE NoBuf]
  <2>1. owned \in [Iobufs -> Nat]
    BY DEF IInv, TypeOK
  <2>2. owned[b] - 1 = owned[b] + (-1)
    BY <2>1
  <2> QED  BY <2>2 DEF iobuf_unref
<1>2. owned[b] \in Nat /\ owned[b] > 0 /\ owned \in [Iobufs -> Nat]
  BY DEF iobuf_unref, IInv, TypeOK
<1>3. owned[b] + (-1) \in Nat /\ -1 \in Int
  BY <1>2
<1>4. /\ PoolLists' /\ ArenasWellFormed' /\ RefsOwned' /\ UnmappedUnused' /\ NoAbort'
      /\ lists' \in [ListNames -> Seq(Arenas)]
      /\ arena' \in [Arenas -> ArenaType]
      /\ owned' \in [Iobufs -> Nat]
      /\ \A a \in Arenas : arena'[a].active = arena[a].active
      /\ \A a \in Arenas : \A i \in Slots :
            owned'[<<a, i>>] = IF <<a, i>> = b THEN owned[b] + (-1) ELSE owned[<<a, i>>]
  BY <1>1, <1>3, RefStepLemma
<1>5. last <=> owned[b] = 1
  <2>1. arena[b[1]].ref[b[2]] = owned[b]
    BY DEF IInv, RefsOwned, Iobufs
  <2> QED  BY <2>1, <1>2
<1>6. /\ pc \in [Threads -> {"idle", "put", "prune"}]
      /\ buf \in [Threads -> Iobufs \cup {NoBuf}]
  BY DEF IInv, TypeOK
<1> HIDE DEF last
<1>7. \A u \in Threads : /\ pc'[u] = IF u = t THEN IF last THEN "put" ELSE "idle" ELSE pc[u]
                         /\ buf'[u] = IF u = t THEN IF last THEN b ELSE NoBuf ELSE buf[u]
  BY <1>1, <1>6
<1>8. b \notin Putting
  BY <1>2 DEF IInv, OnePutter, Putting
<1>9. \A x : x \in Putting' <=> (x \in Putting \/ (last /\ x = b))
  <2>1. \A x : x \in Putting <=> \E u \in Threads : pc[u] = "put" /\ buf[u] = x
    BY DEF Putting
  <2>2. \A x : x \in Putting' <=> \E u \in Threads : pc'[u] = "put" /\ buf'[u] = x
    BY DEF Putting
  <2> QED  BY <2>1, <2>2, <1>1, <1>7
<1>10. ActiveInUse'
  <2>1. ASSUME NEW a \in Arenas, NEW i \in Slots
        PROVE  (owned'[<<a, i>>] > 0 \/ <<a, i>> \in Putting')
                  <=> (owned[<<a, i>>] > 0 \/ <<a, i>> \in Putting)
    <3>1. CASE <<a, i>> = b
      <4>1. owned'[<<a, i>>] = owned[b] + (-1)
        BY <3>1, <1>4
      <4>2. owned'[<<a, i>>] > 0 \/ owned[b] = 1
        BY <4>1, <1>2
      <4>3. owned[b] = 1 => <<a, i>> \in Putting'
        BY <3>1, <1>5, <1>9
      <4> QED  BY <4>2, <4>3, <3>1, <1>2
    <3>2. CASE <<a, i>> # b
      BY <3>2, <1>4, <1>9
    <3> QED  BY <3>1, <3>2
  <2> QED  BY <2>1, <1>4 DEF IInv, ActiveInUse
<1>11. OnePutter'
  <2>1. ASSUME NEW u \in Threads, pc'[u] = "put"
        PROVE  buf'[u] \in Iobufs /\ owned'[buf'[u]] = 0
    <3>1. CASE u = t
      BY <3>1, <2>1, <1>1, <1>2, <1>5, <1>7
    <3>2. CASE u # t
      <4>1. buf'[u] = buf[u] /\ buf[u] \in Iobufs /\ owned[buf[u]] = 0
        BY <3>2, <2>1, <1>7 DEF IInv, OnePutter
      <4>2. buf[u] # b
        BY <4>1, <1>2
      <4> QED  BY <4>1, <4>2, <1>1, <1>2
    <3> QED  BY <3>1, <3>2
  <2>2. ASSUME NEW u \in Threads, NEW v \in Threads,
               pc'[u] = "put", pc'[v] = "put", buf'[u] = buf'[v]
        PROVE  u = v
    <3>1. ASSUME NEW x \in Threads, x # t, pc'[x] = "put" PROVE pc[x] = "put" /\ buf'[x] = buf[x] /\ buf[x] # b
      BY <3>1, <1>7, <1>8 DEF Putting
    <3>2. pc'[t] = "put" => buf'[t] = b
      BY <1>7
    <3> QED  BY <3>1, <3>2, <2>2 DEF IInv, OnePutter
  <2> QED  BY <2>1, <2>2 DEF OnePutter
<1>12. TypeOK'
  <2>1. /\ pc' \in [Threads -> {"idle", "put", "prune"}]
        /\ buf' \in [Threads -> Iobufs \cup {NoBuf}]
    BY <1>1, <1>6
  <2> QED  BY <2>1, <1>1, <1>4 DEF IInv, TypeOK
<1> QED  BY <1>4, <1>10, <1>11, <1>12 DEF IInv

\* iobuf_put preserves the invariant: the arena ends up on the list its counts ask for.
LEMMA IobufPutInv ==
    ASSUME IInv, NEW t \in Threads, iobuf_put(t)
    PROVE  IInv'
<1>0. pc[t] = "put"
  BY DEF iobuf_put
<1>1. PICK a \in Arenas, i \in Slots : buf[t] = <<a, i>>
  BY <1>0 DEF IInv, OnePutter, Iobufs
<1> DEFINE r == arena[a]
           r2 == ArenaPut(r, i)
           N == IF r.passive_cnt = 0 THEN MoveTail(a, "arenas", lists) ELSE lists
<1>2. /\ arena' = [arena EXCEPT ![a] = r2]
      /\ lists' = IF r2.active_cnt = 0 THEN MoveTail(a, "purge", N) ELSE N
      /\ pc' = [pc EXCEPT ![t] = "prune"]
      /\ buf' = [buf EXCEPT ![t] = NoBuf]
      /\ arena_cnt' = arena_cnt /\ live' = live /\ owned' = owned /\ aborted' = aborted
  BY <1>1 DEF iobuf_put
<1>3. <<a, i>> \in Putting /\ <<a, i>> \in Iobufs /\ owned[<<a, i>>] = 0
  BY <1>0, <1>1 DEF IInv, OnePutter, Putting
<1>4. WellFormed(r) /\ i \in Entries(r.active)
  BY <1>3 DEF IInv, ArenasWellFormed, ActiveInUse
<1>5. r.active_cnt > 0 /\ r.passive_cnt \in Nat
  BY <1>4, ActiveLemma
<1>6. /\ WellFormed(r2)
      /\ Entries(r2.active) = Entries(r.active) \ {i}
      /\ r2.ref = r.ref
      /\ r2.passive_cnt = r.passive_cnt + 1
  BY <1>4, ArenaPutLemma
<1>7. r2 \in ArenaType /\ r2.passive_cnt > 0 /\ arena \in [Arenas -> ArenaType]
  BY <1>5, <1>6 DEF WellFormed, IInv, TypeOK
<1>8. a \in live
  BY <1>5 DEF IInv, UnmappedUnused
<1> HIDE DEF r2, N
<1>9. ListsAfter(lists', lists, [arena EXCEPT ![a] = r2])
  <2>1. GoodLists(lists) /\ ListsMatch(lists, arena, {}) /\ a \in OnLists(lists)
    BY <1>8 DEF IInv, PoolLists
  <2>2. N = (IF arena[a].passive_cnt = 0 THEN MoveTail(a, "arenas", lists) ELSE lists)
    BY DEF N
  <2>3. lists' = (IF r2.active_cnt = 0 THEN MoveTail(a, "purge", N) ELSE N)
    BY <1>2
  <2> QED  BY <2>1, <2>2, <2>3, <1>5, <1>7, PutListsLemma
<1>10. PoolLists'
  <2>1. GoodLists(lists') /\ ListsMatch(lists', arena', {})
    BY <1>2, <1>9 DEF ListsAfter
  <2>2. OnLists(lists') = live' /\ Total(lists') = arena_cnt'
    BY <1>2, <1>9 DEF ListsAfter, IInv, PoolLists
  <2> QED  BY <2>1, <2>2 DEF PoolLists, GoodLists, OnLists, ListsMatch, Total
<1>11. \A c \in Arenas : arena'[c] = IF c = a THEN r2 ELSE arena[c]
  BY <1>2, <1>7
<1>12. /\ pc \in [Threads -> {"idle", "put", "prune"}]
       /\ buf \in [Threads -> Iobufs \cup {NoBuf}]
  BY DEF IInv, TypeOK
<1>13. TypeOK'
  <2>1. lists' \in [ListNames -> Seq(Arenas)]
    BY <1>9 DEF ListsAfter, GoodLists
  <2>2. arena' \in [Arenas -> ArenaType]
    BY <1>2, <1>7
  <2>3. /\ pc' \in [Threads -> {"idle", "put", "prune"}]
        /\ buf' \in [Threads -> Iobufs \cup {NoBuf}]
    BY <1>2, <1>12
  <2> QED  BY <2>1, <2>2, <2>3, <1>2 DEF IInv, TypeOK
<1>14. \A u \in Threads : /\ pc'[u] = IF u = t THEN "prune" ELSE pc[u]
                          /\ buf'[u] = IF u = t THEN NoBuf ELSE buf[u]
  BY <1>2, <1>12
<1>15. \A x : x \in Putting' <=> (x \in Putting /\ x # <<a, i>>)
  <2>1. \A x : x \in Putting <=> \E u \in Threads : pc[u] = "put" /\ buf[u] = x
    BY DEF Putting
  <2>2. \A x : x \in Putting' <=> \E u \in Threads : pc'[u] = "put" /\ buf'[u] = x
    BY DEF Putting
  <2>3. \A u \in Threads : pc[u] = "put" /\ buf[u] = <<a, i>> => u = t
    BY <1>0, <1>1 DEF IInv, OnePutter
  <2>4. \A u \in Threads : pc'[u] = "put" <=> (pc[u] = "put" /\ u # t)
    BY <1>14
  <2>5. \A u \in Threads : u # t => buf'[u] = buf[u]
    BY <1>14
  <2>6. ASSUME NEW x, x \in Putting' PROVE x \in Putting /\ x # <<a, i>>
    <3>1. PICK u \in Threads : pc'[u] = "put" /\ buf'[u] = x
      BY <2>2, <2>6
    <3>2. pc[u] = "put" /\ u # t /\ buf[u] = x
      BY <3>1, <2>4, <2>5
    <3> QED  BY <3>2, <2>1, <2>3
  <2>7. ASSUME NEW x, x \in Putting, x # <<a, i>> PROVE x \in Putting'
    <3>1. PICK u \in Threads : pc[u] = "put" /\ buf[u] = x
      BY <2>1, <2>7
    <3>2. u # t
      BY <3>1, <2>7, <1>1
    <3> QED  BY <3>1, <3>2, <2>2, <2>4, <2>5
  <2> QED  BY <2>6, <2>7
<1>16. ArenasWellFormed'
  <2>1. \A c \in Arenas : WellFormed(arena'[c])
    BY <1>6, <1>11 DEF IInv, ArenasWellFormed
  <2> QED  BY <2>1 DEF ArenasWellFormed, WellFormed
<1>17. RefsOwned'
  <2>1. \A c \in Arenas : arena'[c].ref = arena[c].ref
    BY <1>6, <1>11
  <2> QED  BY <2>1, <1>2 DEF IInv, RefsOwned
<1>18. ActiveInUse'
  <2>1. ASSUME NEW c \in Arenas, NEW j \in Slots
        PROVE  j \in Entries(arena'[c].active) <=> (owned[<<c, j>>] > 0 \/ <<c, j>> \in Putting')
    <3>1. j \in Entries(arena[c].active) <=> (owned[<<c, j>>] > 0 \/ <<c, j>> \in Putting)
      BY DEF IInv, ActiveInUse
    <3>2. CASE c = a /\ j = i
      <4>1. j \notin Entries(arena'[c].active)
        BY <3>2, <1>6, <1>11
      <4>2. <<c, j>> \notin Putting' /\ ~(owned[<<c, j>>] > 0)
        BY <3>2, <1>3, <1>15
      <4> QED  BY <4>1, <4>2
    <3>3. CASE ~(c = a /\ j = i)
      <4>1. j \in Entries(arena'[c].active) <=> j \in Entries(arena[c].active)
        BY <3>3, <1>6, <1>11
      <4>2. <<c, j>> \in Putting' <=> <<c, j>> \in Putting
        BY <3>3, <1>15
      <4> QED  BY <4>1, <4>2, <3>1
    <3> QED  BY <3>2, <3>3
  <2> QED  BY <2>1, <1>2 DEF ActiveInUse
<1>19. OnePutter'
  BY <1>2, <1>14 DEF IInv, OnePutter
<1>20. UnmappedUnused' /\ NoAbort'
  BY <1>2, <1>8, <1>11 DEF IInv, UnmappedUnused, NoAbort
<1> QED  BY <1>10, <1>13, <1>16, <1>17, <1>18, <1>19, <1>20 DEF IInv

\* Emptying one list of the pool.
LEMMA ClearLemma ==
    ASSUME NEW L, GoodLists(L), NEW k \in ListNames, NEW A, ListsMatch(L, A, {}),
           NEW M, M = [L EXCEPT ![k] = <<>>]
    PROVE  /\ GoodLists(M)
           /\ OnLists(M) = OnLists(L) \ Entries(L[k])
           /\ Total(M) = Total(L) - Len(L[k])
           /\ ListsMatch(M, A, {})
<1>1. <<>> \in Seq(Arenas) /\ Len(<<>>) = 0 /\ IsInjective(<<>>) /\ Entries(<<>>) = {}
  BY DEF Entries, Range, IsInjective
<1>2. L \in [ListNames -> Seq(Arenas)]
  BY DEF GoodLists
<1>3. M \in [ListNames -> Seq(Arenas)] /\ \A j \in ListNames : M[j] = IF j = k THEN <<>> ELSE L[j]
  BY <1>1, <1>2
<1>4. \A j \in ListNames : Entries(M[j]) = IF j = k THEN {} ELSE Entries(L[j])
  BY <1>1, <1>3
<1>5. \A i, j \in ListNames : i # j => Entries(L[i]) \cap Entries(L[j]) = {}
  BY DEF GoodLists
<1>6. GoodLists(M)
  <2>1. \A j \in ListNames : IsInjective(M[j])
    BY <1>1, <1>3 DEF GoodLists
  <2>2. \A i, j \in ListNames : i # j => Entries(M[i]) \cap Entries(M[j]) = {}
    BY <1>4, <1>5
  <2> QED  BY <2>1, <2>2, <1>3 DEF GoodLists
<1>7. OnLists(M) = OnLists(L) \ Entries(L[k])
  BY <1>4, <1>5 DEF OnLists
<1>8. Total(M) = Total(L) - Len(L[k])
  <2> DEFINE l(j) == Len(L[j])
             m(j) == Len(M[j])
  <2>1. l("arenas") \in Int /\ l("filled") \in Int /\ l("purge") \in Int
    BY <1>2 DEF ListNames
  <2>2. \A j \in ListNames : m(j) = IF j = k THEN 0 ELSE l(j)
    BY <1>1, <1>3
  <2>3. /\ Total(M) = m("arenas") + m("filled") + m("purge")
        /\ Total(L) = l("arenas") + l("filled") + l("purge")
        /\ Len(L[k]) = l(k)
    BY DEF Total
  <2> HIDE DEF l, m
  <2>4. CASE k = "arenas"
    BY <2>1, <2>2, <2>3, <2>4 DEF ListNames
  <2>5. CASE k = "filled"
    BY <2>1, <2>2, <2>3, <2>5 DEF ListNames
  <2>6. CASE k = "purge"
    BY <2>1, <2>2, <2>3, <2>6 DEF ListNames
  <2> QED  BY <2>4, <2>5, <2>6 DEF ListNames
<1>9. ListsMatch(M, A, {})
  BY <1>4 DEF ListsMatch, ListNames
<1> QED  BY <1>6, <1>7, <1>8, <1>9

\* Unmapping every arena of a list of idle arenas.
LEMMA UnmapLemma ==
    ASSUME IInv, NEW k \in ListNames, NEW D, D = Entries(lists[k]),
           \A a \in D : arena[a].active_cnt = 0,
           lists' = [lists EXCEPT ![k] = <<>>],
           arena_cnt' = arena_cnt - Len(lists[k]),
           Destroy(D), arena' = arena, owned' = owned, buf' = buf,
           pc' \in [Threads -> {"idle", "put", "prune"}],
           \A t \in Threads : pc'[t] = "put" <=> pc[t] = "put"
    PROVE  IInv'
<1>1. GoodLists(lists) /\ ListsMatch(lists, arena, {}) /\ OnLists(lists) = live /\ Total(lists) = arena_cnt
  BY DEF IInv, PoolLists
<1>2. GoodLists(lists') /\ ListsMatch(lists', arena, {})
  BY <1>1, ClearLemma
<1>3. OnLists(lists') = OnLists(lists) \ Entries(lists[k])
  BY <1>1, ClearLemma
<1>4. Total(lists') = Total(lists) - Len(lists[k])
  BY <1>1, ClearLemma
<1>5. live' = live \ D /\ aborted' = (aborted \/ \E a \in D : \E i \in Slots : arena[a].ref[i] # 0)
  BY DEF Destroy
<1>6. D \subseteq Arenas
  BY DEF IInv, TypeOK, Entries, Range
<1>7. ASSUME NEW a \in D, NEW i \in Slots PROVE arena[a].ref[i] = 0
  <2>1. WellFormed(arena[a]) /\ arena[a].active_cnt = 0
    BY <1>6 DEF IInv, ArenasWellFormed
  <2>2. i \notin Entries(arena[a].active)
    BY <2>1, ActiveLemma
  <2>3. owned[<<a, i>>] \in Nat /\ ~(owned[<<a, i>>] > 0)
    BY <2>2, <1>6 DEF IInv, ActiveInUse, TypeOK, Iobufs
  <2>4. arena[a].ref[i] = owned[<<a, i>>]
    BY <1>6 DEF IInv, RefsOwned
  <2> QED  BY <2>3, <2>4
<1>8. aborted' = FALSE
  BY <1>5, <1>7, Zenon DEF IInv, NoAbort
<1>9. PoolLists'
  <2>1. live' = OnLists(lists') /\ arena_cnt' = Total(lists')
    BY <1>1, <1>3, <1>4, <1>5
  <2> QED  BY <2>1, <1>2 DEF PoolLists, GoodLists, OnLists, ListsMatch, Total
<1>10. TypeOK'
  <2>1. lists' \in [ListNames -> Seq(Arenas)]
    BY <1>2 DEF GoodLists
  <2>2. arena_cnt' \in Nat
    <3>1. Total(lists') \in Nat
      BY <1>2, GoodListsLemma
    <3> QED  BY <3>1, <1>1, <1>4
  <2> QED  BY <2>1, <2>2, <1>5, <1>8 DEF IInv, TypeOK
<1>11. Putting' = Putting
  BY DEF Putting
<1>12. ArenasWellFormed' /\ RefsOwned' /\ ActiveInUse'
  BY <1>11 DEF IInv, ArenasWellFormed, RefsOwned, ActiveInUse, WellFormed
<1>13. OnePutter'
  BY DEF IInv, OnePutter
<1>14. UnmappedUnused'
  BY <1>5 DEF IInv, UnmappedUnused
<1>15. NoAbort'
  BY <1>8 DEF NoAbort
<1> QED  BY <1>9, <1>10, <1>12, <1>13, <1>14, <1>15 DEF IInv

\* iobuf_pool_prune preserves the invariant: it unmaps only arenas nobody uses.
LEMMA PruneInv ==
    ASSUME IInv, NEW t \in Threads, iobuf_pool_prune(t)
    PROVE  IInv'
<1>1. /\ pc[t] = "prune" /\ pc' = [pc EXCEPT ![t] = "idle"]
      /\ arena' = arena /\ owned' = owned /\ buf' = buf
  BY DEF iobuf_pool_prune
<1>2. pc \in [Threads -> {"idle", "put", "prune"}]
  BY DEF IInv, TypeOK
<1>3. /\ pc' \in [Threads -> {"idle", "put", "prune"}]
      /\ \A u \in Threads : pc'[u] = "put" <=> pc[u] = "put"
  BY <1>1, <1>2
<1>4. CASE list_empty(lists["arenas"])
  <2>1. lists' = lists /\ arena_cnt' = arena_cnt /\ live' = live /\ aborted' = aborted
    BY <1>4 DEF iobuf_pool_prune
  <2>2. Putting' = Putting
    BY <1>1, <1>3 DEF Putting
  <2>3. TypeOK'
    BY <1>1, <1>3, <2>1 DEF IInv, TypeOK
  <2>4. PoolLists'
    BY <1>1, <2>1 DEF IInv, PoolLists, GoodLists, OnLists, ListsMatch, Total
  <2>5. ArenasWellFormed' /\ RefsOwned' /\ ActiveInUse'
    BY <1>1, <2>2 DEF IInv, ArenasWellFormed, RefsOwned, ActiveInUse, WellFormed
  <2>6. OnePutter'
    BY <1>1, <1>3 DEF IInv, OnePutter
  <2>7. UnmappedUnused' /\ NoAbort'
    BY <1>1, <2>1 DEF IInv, UnmappedUnused, NoAbort
  <2> QED  BY <2>3, <2>4, <2>5, <2>6, <2>7 DEF IInv
<1>5. CASE ~list_empty(lists["arenas"])
  <2>1. \A a \in Entries(lists["purge"]) : arena[a].active_cnt = 0
    BY DEF IInv, PoolLists, ListsMatch
  <2>2. Idle = Entries(lists["purge"])
    BY <2>1 DEF Idle
  <2>3. list_keep(lists["purge"], Entries(lists["purge"]) \ Idle) = <<>>
    BY <2>2 DEF list_keep
  <2>4. "purge" \in ListNames /\ lists \in [ListNames -> Seq(Arenas)]
    BY DEF ListNames, IInv, TypeOK
  <2>5. lists' = [lists EXCEPT !["purge"] = <<>>]
    BY <1>5, <2>3 DEF iobuf_pool_prune
  <2>6. arena_cnt' = arena_cnt - Len(lists["purge"])
    <3>1. lists'["purge"] = <<>>
      BY <2>4, <2>5
    <3>2. Len(lists["purge"]) \in Nat /\ Len(<<>>) = 0
      BY <2>4
    <3>3. arena_cnt' = arena_cnt - (Len(lists["purge"]) - Len(lists'["purge"]))
      BY <1>5 DEF iobuf_pool_prune
    <3>4. Len(lists["purge"]) - Len(<<>>) = Len(lists["purge"])
      BY <2>4
    <3> QED  BY <3>1, <3>3, <3>4
  <2>7. Destroy(Entries(lists["purge"]))
    BY <1>5, <2>2 DEF iobuf_pool_prune
  <2> QED  BY <1>1, <1>3, <2>1, <2>4, <2>5, <2>6, <2>7, UnmapLemma
<1> QED  BY <1>4, <1>5

\* iobuf_pool_destroy preserves the invariant.
LEMMA PoolDestroyInv ==
    ASSUME IInv, iobuf_pool_destroy
    PROVE  IInv'
<1>1. /\ \A t \in Threads : pc[t] = "idle"
      /\ \A b \in Iobufs : owned[b] = 0
      /\ lists' = [lists EXCEPT !["arenas"] = <<>>]
      /\ arena_cnt' = arena_cnt - Len(lists["arenas"])
      /\ Destroy(Entries(lists["arenas"]))
      /\ arena' = arena /\ owned' = owned /\ pc' = pc /\ buf' = buf
  BY DEF iobuf_pool_destroy
<1>2. "arenas" \in ListNames
  BY DEF ListNames
<1>3. pc' \in [Threads -> {"idle", "put", "prune"}] /\ \A t \in Threads : pc'[t] = "put" <=> pc[t] = "put"
  BY <1>1 DEF IInv, TypeOK
<1>4. ASSUME NEW a \in Entries(lists["arenas"]) PROVE arena[a].active_cnt = 0
  <2>1. a \in Arenas
    BY DEF IInv, TypeOK, ListNames, Entries, Range
  <2>2. WellFormed(arena[a])
    BY <2>1 DEF IInv, ArenasWellFormed
  <2>3. Entries(arena[a].active) \subseteq Slots
    BY <2>2 DEF WellFormed
  <2>4. Putting = {}
    BY <1>1 DEF Putting
  <2>5. \A i \in Slots : i \notin Entries(arena[a].active)
    <3>1. \A i \in Slots : owned[<<a, i>>] = 0 /\ <<a, i>> \notin Putting
      BY <2>1, <2>4, <1>1 DEF Iobufs
    <3>2. \A i \in Slots : i \in Entries(arena[a].active)
                              <=> (owned[<<a, i>>] > 0 \/ <<a, i>> \in Putting)
      BY <2>1 DEF IInv, ActiveInUse
    <3>3. ~(0 > 0)
      OBVIOUS
    <3> QED  BY <3>1, <3>2, <3>3
  <2>6. Entries(arena[a].active) = {}
    BY <2>3, <2>5
  <2> QED  BY <2>2, <2>6, ActiveLemma
<1> QED  BY <1>1, <1>2, <1>3, <1>4, UnmapLemma

\* iobuf_pool_new establishes the invariant.
LEMMA InitInv == Init => IInv
<1> SUFFICES ASSUME Init PROVE IInv
  OBVIOUS
<1>1. /\ arena = [a \in Arenas |-> FreshArena]
      /\ owned = [b \in Iobufs |-> 0]
      /\ pc = [t \in Threads |-> "idle"]
      /\ buf = [t \in Threads |-> NoBuf]
      /\ aborted = FALSE
  BY DEF Init
<1>2. /\ WellFormed(FreshArena)
      /\ Entries(FreshArena.active) = {}
      /\ FreshArena.passive_cnt > 0
      /\ \A i \in Slots : FreshArena.ref[i] = 0
  BY FreshArenaLemma
<1>3. FreshArena.active_cnt = 0 /\ FreshArena \in ArenaType
  BY <1>2 DEF FreshArena, WellFormed
<1>4. Putting = {}
  BY <1>1 DEF Putting
<1>5. PoolLists
  <2>0. <<>> \in Seq(Arenas) /\ Len(<<>>) = 0 /\ IsInjective(<<>>) /\ Entries(<<>>) = {}
    BY DEF Entries, Range, IsInjective
  <2>1. ASSUME NEW a \in Arenas, live = {a}, arena_cnt = 1,
               lists = [k \in ListNames |-> IF k = "arenas" THEN <<a>> ELSE <<>>]
        PROVE  PoolLists
    <3>1. <<a>> \in Seq(Arenas) /\ Len(<<a>>) = 1 /\ IsInjective(<<a>>) /\ Entries(<<a>>) = {a}
      BY DEF Entries, Range, IsInjective
    <3>2. lists["arenas"] = <<a>> /\ lists["filled"] = <<>> /\ lists["purge"] = <<>>
      BY <2>1 DEF ListNames
    <3>3. GoodLists(lists)
      <4>1. lists \in [ListNames -> Seq(Arenas)]
        BY <2>0, <2>1, <3>1
      <4>2. \A k \in ListNames : IsInjective(lists[k])
        BY <2>0, <2>1, <3>1
      <4>3. \A j, k \in ListNames : j # k => Entries(lists[j]) \cap Entries(lists[k]) = {}
        BY <2>0, <3>1, <3>2 DEF ListNames
      <4> QED  BY <4>1, <4>2, <4>3 DEF GoodLists
    <3>4. live = OnLists(lists)
      BY <2>0, <2>1, <3>1, <3>2 DEF OnLists, ListNames
    <3>5. ListsMatch(lists, arena, {})
      BY <2>0, <3>1, <3>2, <1>1, <1>2 DEF ListsMatch
    <3>6. arena_cnt = Total(lists)
      <4>1. Total(lists) = Len(<<a>>) + Len(<<>>) + Len(<<>>)
        BY <3>2 DEF Total
      <4> QED  BY <4>1, <2>0, <2>1, <3>1
    <3> QED  BY <3>3, <3>4, <3>5, <3>6 DEF PoolLists
  <2>2. ASSUME live = {}, arena_cnt = 0, lists = [k \in ListNames |-> <<>>]
        PROVE  PoolLists
    <3>1. lists["arenas"] = <<>> /\ lists["filled"] = <<>> /\ lists["purge"] = <<>>
      BY <2>2 DEF ListNames
    <3>2. GoodLists(lists)
      BY <2>0, <2>2 DEF GoodLists
    <3>3. live = OnLists(lists) /\ ListsMatch(lists, arena, {})
      BY <2>0, <2>2, <3>1 DEF OnLists, ListNames, ListsMatch
    <3>4. arena_cnt = Total(lists)
      <4>1. Total(lists) = Len(<<>>) + Len(<<>>) + Len(<<>>)
        BY <3>1 DEF Total
      <4> QED  BY <4>1, <2>0, <2>2
    <3> QED  BY <3>2, <3>3, <3>4 DEF PoolLists
  <2> QED  BY <2>1, <2>2 DEF Init
<1>6. TypeOK
  <2>1. lists \in [ListNames -> Seq(Arenas)] /\ live \in SUBSET Arenas /\ arena_cnt \in Nat
    <3>1. GoodLists(lists) /\ live = OnLists(lists) /\ arena_cnt = Total(lists)
      BY <1>5 DEF PoolLists
    <3>2. lists \in [ListNames -> Seq(Arenas)]
      BY <3>1 DEF GoodLists
    <3> QED  BY <3>1, <3>2, GoodListsLemma
  <2> QED  BY <2>1, <1>1, <1>3 DEF TypeOK
<1>7. ArenasWellFormed /\ UnmappedUnused /\ NoAbort /\ OnePutter
  BY <1>1, <1>2, <1>3 DEF ArenasWellFormed, UnmappedUnused, NoAbort, OnePutter
<1>8. \A a \in Arenas : \A i \in Slots : owned[<<a, i>>] = 0
  BY <1>1 DEF Iobufs
<1>9. RefsOwned /\ ActiveInUse
  BY <1>1, <1>2, <1>4, <1>8 DEF RefsOwned, ActiveInUse
<1> QED  BY <1>5, <1>6, <1>7, <1>9 DEF IInv

\* A step that changes nothing preserves the invariant.
LEMMA StutterInv == IInv /\ UNCHANGED vars => IInv'
<1> SUFFICES ASSUME IInv, UNCHANGED vars PROVE IInv'
  OBVIOUS
<1> USE DEF vars
<1>1. TypeOK' /\ OnePutter' /\ UnmappedUnused' /\ NoAbort'
  BY DEF IInv, TypeOK, OnePutter, UnmappedUnused, NoAbort
<1>2. PoolLists'
  BY DEF IInv, PoolLists, GoodLists, OnLists, ListsMatch, Total
<1>3. Putting' = Putting
  BY DEF Putting
<1>4. ArenasWellFormed' /\ RefsOwned' /\ ActiveInUse'
  BY <1>3 DEF IInv, ArenasWellFormed, RefsOwned, ActiveInUse, WellFormed
<1> QED  BY <1>1, <1>2, <1>4 DEF IInv

\* Every step preserves the invariant.
LEMMA NextInv == IInv /\ [Next]_vars => IInv'
<1> SUFFICES ASSUME IInv, [Next]_vars PROVE IInv'
  OBVIOUS
<1>1. ASSUME NEW t \in Threads, GetSelected(t) PROVE IInv'
  BY <1>1, GetSelectedInv
<1>2. ASSUME NEW t \in Threads, GetUnpruned(t) PROVE IInv'
  BY <1>2, GetUnprunedInv
<1>3. ASSUME NEW t \in Threads, GetAllocated(t) PROVE IInv'
  BY <1>3, GetAllocatedInv
<1>4. ASSUME NEW t \in Threads, GetFails(t) PROVE IInv'
  BY <1>4, StutterInv DEF GetFails
<1>5. ASSUME NEW t \in Threads, NEW b \in Iobufs, iobuf_ref(t, b) PROVE IInv'
  BY <1>5, IobufRefInv
<1>6. ASSUME NEW t \in Threads, NEW b \in Iobufs, iobuf_unref(t, b) PROVE IInv'
  BY <1>6, IobufUnrefInv
<1>7. ASSUME NEW t \in Threads, iobuf_put(t) PROVE IInv'
  BY <1>7, IobufPutInv
<1>8. ASSUME NEW t \in Threads, iobuf_pool_prune(t) PROVE IInv'
  BY <1>8, PruneInv
<1>9. CASE iobuf_pool_destroy
  BY <1>9, PoolDestroyInv
<1>10. CASE UNCHANGED vars
  BY <1>10, StutterInv
<1> QED
  BY <1>1, <1>2, <1>3, <1>4, <1>5, <1>6, <1>7, <1>8, <1>9, <1>10 DEF Next, Thread

\* The invariant holds in every reachable state of the pool.
THEOREM Invariance == Spec => []IInv
BY InitInv, NextInv, PTL DEF Spec

-----------------------------------------------------------------------------
(* The properties *)

\* The variables of the pool keep their types: in particular iobuf->ref and the
\* counts of an arena never go below zero, whatever the threads do.
THEOREM TypeCorrect == Spec => []TypeOK
<1>1. IInv => TypeOK
  BY DEF IInv
<1> QED  BY <1>1, Invariance, PTL

\* Each mapped arena is on exactly one of the pool's lists, on the one that its
\* counts ask for, and arena_cnt counts them.
THEOREM ListsCorrect == Spec => []ListsDescribeArenas
<1>1. IInv => ListsDescribeArenas
  BY PoolListsLemma DEF IInv
<1> QED  BY <1>1, Invariance, PTL

\* A prune or a destroy never unmaps an iobuf that has a holder or that a thread
\* is still putting back.
THEOREM HeldBuffersSafe == Spec => []HeldBuffersMapped
<1>1. IInv => HeldBuffersMapped
  <2> SUFFICES ASSUME IInv, NEW a \in Arenas, NEW i \in Slots,
                      owned[<<a, i>>] > 0 \/ <<a, i>> \in Putting
               PROVE  a \in live /\ i \in Entries(arena[a].active)
    BY DEF HeldBuffersMapped, Iobufs
  <2>1. i \in Entries(arena[a].active) /\ WellFormed(arena[a])
    BY DEF IInv, ActiveInUse, ArenasWellFormed
  <2>2. arena[a].active_cnt # 0
    BY <2>1, ActiveLemma
  <2> QED  BY <2>1, <2>2 DEF IInv, UnmappedUnused
<1> QED  BY <1>1, Invariance, PTL

\* The assert on iobuf->ref in __iobuf_arena_destroy_iobufs never fails.
THEOREM AssertHolds == Spec => []NoAbort
<1>1. IInv => NoAbort
  BY DEF IInv
<1> QED  BY <1>1, Invariance, PTL
-----------------------------------------------------------------------------
(***************************************************************************)
(* The pool keeps the promises of IobufAbs.                                *)
(*                                                                         *)
(* Every step of IobufPool is a step of IobufAbs or leaves the mapped      *)
(* arenas, the references and the set of returning iobufs alone.  That an  *)
(* iobuf on a passive list is free, and that an unmapped arena is, comes   *)
(* from the inductive invariant IInv.                                      *)
(***************************************************************************)

\* What a step of the pool may look like to its clients.
AbsStep ==
    \/ \E b \in Iobufs : Abs!Get(b) \/ Abs!Ref(b) \/ Abs!Unref(b) \/ Abs!Return(b)
    \/ \E D \in SUBSET Arenas : Abs!Unmap(D)
    \/ live' = live /\ owned' = owned /\ Putting' = Putting

\* An iobuf that is not on the active list of its arena is free.
LEMMA InactiveFree ==
    ASSUME IInv, NEW a \in Arenas, NEW i \in Slots, i \notin Entries(arena[a].active)
    PROVE  owned[<<a, i>>] = 0 /\ <<a, i>> \notin Putting
<1>1. owned[<<a, i>>] \in Nat
  BY DEF IInv, TypeOK, Iobufs
<1>2. ~(owned[<<a, i>>] > 0) /\ <<a, i>> \notin Putting
  BY DEF IInv, ActiveInUse
<1> QED  BY <1>1, <1>2

\* An arena without active iobufs is free altogether.
LEMMA IdleFree ==
    ASSUME IInv, NEW a \in Arenas, arena[a].active_cnt = 0, NEW i \in Slots
    PROVE  owned[<<a, i>>] = 0 /\ <<a, i>> \notin Putting
<1>1. WellFormed(arena[a])
  BY DEF IInv, ArenasWellFormed
<1>2. i \notin Entries(arena[a].active)
  BY <1>1, ActiveLemma
<1> QED  BY <1>2, InactiveFree

\* The common part of the three paths of iobuf_get hands out a free iobuf.
LEMMA TakeFromGets ==
    ASSUME NEW a \in Arenas, NEW r, NEW L, TakeFrom(a, r, L),
           WellFormed(r), r.passive_cnt > 0,
           \A i \in Entries(r.passive) : owned[<<a, i>>] = 0 /\ <<a, i>> \notin Putting,
           owned \in [Iobufs -> Nat], live' = live \cup {a}
    PROVE  AbsStep
<1> DEFINE i == Head(r.passive)
           b == <<a, i>>
<1>1. i \in Entries(r.passive)
  BY ArenaGetLemma
<1>2. i \in Slots
  BY <1>1 DEF WellFormed
<1>3. owned' = [owned EXCEPT ![b] = @ + 1] /\ pc' = pc /\ buf' = buf
  BY DEF TakeFrom
<1> HIDE DEF i
<1>4. b \in Iobufs /\ owned[b] = 0 /\ b \notin Putting
  BY <1>1, <1>2 DEF Iobufs
<1>5. owned' = [owned EXCEPT ![b] = 1]
  BY <1>3, <1>4
<1>6. Putting' = Putting
  BY <1>3 DEF Putting
<1>7. b[1] = a
  OBVIOUS
<1> HIDE DEF b
<1>8. Abs!Get(b)
  BY <1>4, <1>5, <1>6, <1>7 DEF Abs!Get, Abs!Free
<1> QED  BY <1>4, <1>8 DEF AbsStep

\* iobuf_get from an arena of `arenas'.
LEMMA GetSelectedAbs ==
    ASSUME IInv, NEW t \in Threads, GetSelected(t)
    PROVE  AbsStep
<1>1. PICK n \in Selectable : TakeFrom(lists["arenas"][n], arena[lists["arenas"][n]], lists)
  BY DEF GetSelected
<1> DEFINE a == lists["arenas"][n]
<1>2. n \in DOMAIN lists["arenas"] /\ arena[a].passive_cnt # 0
  BY DEF Selectable
<1>3. lists["arenas"] \in Seq(Arenas)
  BY DEF IInv, TypeOK, ListNames
<1>4. a \in Arenas /\ a \in Entries(lists["arenas"])
  BY <1>2, <1>3 DEF Entries, Range
<1>5. TakeFrom(a, arena[a], lists)
  BY <1>1
<1> HIDE DEF a
<1>6. WellFormed(arena[a])
  BY <1>4 DEF IInv, ArenasWellFormed
<1>7. arena[a].passive_cnt > 0
  BY <1>2, <1>6, ActiveLemma
<1>8. \A i \in Entries(arena[a].passive) : i \in Slots /\ i \notin Entries(arena[a].active)
  BY <1>6 DEF WellFormed
<1>9. \A i \in Entries(arena[a].passive) : owned[<<a, i>>] = 0 /\ <<a, i>> \notin Putting
  BY <1>4, <1>8, InactiveFree
<1>10. a \in live
  BY <1>4 DEF IInv, PoolLists, OnLists, ListNames
<1>11. live' = live \cup {a}
  BY <1>10 DEF GetSelected
<1>12. owned \in [Iobufs -> Nat]
  BY DEF IInv, TypeOK
<1> QED  BY <1>4, <1>5, <1>6, <1>7, <1>9, <1>11, <1>12, TakeFromGets

\* iobuf_get through __iobuf_arena_unprune.
LEMMA GetUnprunedAbs ==
    ASSUME IInv, NEW t \in Threads, GetUnpruned(t)
    PROVE  AbsStep
<1> DEFINE a == Head(lists["purge"])
           L == MoveTail(a, "arenas", lists)
<1>1. TakeFrom(a, arena[a], L) /\ live' = live
  BY DEF GetUnpruned
<1>2. a \in Arenas /\ a \in Entries(lists["purge"])
  <2>1. lists["purge"] \in Seq(Arenas)
    BY DEF IInv, TypeOK, ListNames
  <2>2. lists["purge"] # <<>>
    BY DEF GetUnpruned, list_empty
  <2>3. 1 \in DOMAIN lists["purge"] /\ a = lists["purge"][1]
    BY <2>1, <2>2
  <2> QED  BY <2>1, <2>3 DEF Entries, Range
<1> HIDE DEF a, L
<1>3. WellFormed(arena[a])
  BY <1>2 DEF IInv, ArenasWellFormed
<1>4. arena[a].active_cnt = 0
  BY <1>2 DEF IInv, PoolLists, ListsMatch
<1>5. arena[a].passive_cnt > 0
  BY <1>3, <1>4, ActiveLemma
<1>6. \A i \in Entries(arena[a].passive) : i \in Slots
  BY <1>3 DEF WellFormed
<1>7. \A i \in Entries(arena[a].passive) : owned[<<a, i>>] = 0 /\ <<a, i>> \notin Putting
  BY <1>2, <1>4, <1>6, IdleFree
<1>8. a \in live
  BY <1>2 DEF IInv, PoolLists, OnLists, ListNames
<1>9. live' = live \cup {a}
  BY <1>1, <1>8
<1>10. owned \in [Iobufs -> Nat]
  BY DEF IInv, TypeOK
<1> QED  BY <1>1, <1>2, <1>3, <1>5, <1>7, <1>9, <1>10, TakeFromGets

\* iobuf_get through __iobuf_arena_alloc: the new arena was not in use.
LEMMA GetAllocatedAbs ==
    ASSUME IInv, NEW t \in Threads, GetAllocated(t)
    PROVE  AbsStep
<1>1. PICK a \in Arenas \ live :
         TakeFrom(a, FreshArena, MoveTail(a, "arenas", lists)) /\ live' = live \cup {a}
  BY DEF GetAllocated
<1>2. WellFormed(FreshArena) /\ FreshArena.passive_cnt > 0
  BY FreshArenaLemma
<1>3. arena[a].active_cnt = 0
  BY DEF IInv, UnmappedUnused
<1>4. \A i \in Entries(FreshArena.passive) : i \in Slots
  BY <1>2 DEF WellFormed
<1>5. \A i \in Entries(FreshArena.passive) : owned[<<a, i>>] = 0 /\ <<a, i>> \notin Putting
  BY <1>3, <1>4, IdleFree
<1>6. owned \in [Iobufs -> Nat]
  BY DEF IInv, TypeOK
<1> QED  BY <1>1, <1>2, <1>5, <1>6, TakeFromGets

\* iobuf_ref is Ref.
LEMMA IobufRefAbs ==
    ASSUME IInv, NEW t \in Threads, NEW b \in Iobufs, iobuf_ref(t, b)
    PROVE  AbsStep
<1>1. owned[b] > 0
  BY MaxRefAssumption DEF iobuf_ref
<1>2. owned' = [owned EXCEPT ![b] = @ + 1] /\ live' = live /\ pc' = pc /\ buf' = buf
  BY DEF iobuf_ref
<1>3. Putting' = Putting
  BY <1>2 DEF Putting
<1>4. Abs!Ref(b)
  BY <1>1, <1>2, <1>3 DEF Abs!Ref
<1> QED  BY <1>4 DEF AbsStep

\* The decrement of iobuf_unref is Unref: the iobuf begins to return with its
\* last reference.
LEMMA IobufUnrefAbs ==
    ASSUME IInv, NEW t \in Threads, NEW b \in Iobufs, iobuf_unref(t, b)
    PROVE  AbsStep
<1> DEFINE last == arena[b[1]].ref[b[2]] - 1 = 0
<1>1. /\ owned[b] > 0 /\ pc[t] = "idle"
      /\ owned' = [owned EXCEPT ![b] = @ - 1] /\ live' = live
      /\ pc' = [pc EXCEPT ![t] = IF last THEN "put" ELSE "idle"]
      /\ buf' = [buf EXCEPT ![t] = IF last THEN b ELSE NoBuf]
  BY DEF iobuf_unref
<1>2. last <=> owned[b] = 1
  <2>1. arena[b[1]].ref[b[2]] = owned[b]
    BY DEF IInv, RefsOwned, Iobufs
  <2>2. owned[b] \in Nat
    BY DEF IInv, TypeOK
  <2> QED  BY <2>1, <2>2
<1> HIDE DEF last
<1>3. /\ pc \in [Threads -> {"idle", "put", "prune"}]
      /\ buf \in [Threads -> Iobufs \cup {NoBuf}]
  BY DEF IInv, TypeOK
<1>4. \A u \in Threads : /\ pc'[u] = IF u = t THEN IF last THEN "put" ELSE "idle" ELSE pc[u]
                         /\ buf'[u] = IF u = t THEN IF last THEN b ELSE NoBuf ELSE buf[u]
  BY <1>1, <1>3
<1>5. \A x : x \in Putting' <=> (x \in Putting \/ (last /\ x = b))
  <2>1. \A x : x \in Putting <=> \E u \in Threads : pc[u] = "put" /\ buf[u] = x
    BY DEF Putting
  <2>2. \A x : x \in Putting' <=> \E u \in Threads : pc'[u] = "put" /\ buf'[u] = x
    BY DEF Putting
  <2> QED  BY <2>1, <2>2, <1>1, <1>4
<1>6. Putting' = IF owned[b] = 1 THEN Putting \cup {b} ELSE Putting
  <2>1. CASE owned[b] = 1
    BY <2>1, <1>2, <1>5
  <2>2. CASE owned[b] # 1
    BY <2>2, <1>2, <1>5
  <2> QED  BY <2>1, <2>2
<1>7. Abs!Unref(b)
  BY <1>1, <1>6 DEF Abs!Unref
<1> QED  BY <1>7 DEF AbsStep

\* iobuf_put is Return: no other thread is putting the same iobuf.
LEMMA IobufPutAbs ==
    ASSUME IInv, NEW t \in Threads, iobuf_put(t)
    PROVE  AbsStep
<1> DEFINE b == buf[t]
<1>1. /\ pc[t] = "put" /\ live' = live /\ owned' = owned
      /\ pc' = [pc EXCEPT ![t] = "prune"]
      /\ buf' = [buf EXCEPT ![t] = NoBuf]
  BY DEF iobuf_put
<1>2. b \in Iobufs /\ b \in Putting
  BY <1>1 DEF IInv, OnePutter, Putting
<1>3. \A u \in Threads : pc[u] = "put" /\ buf[u] = b => u = t
  BY <1>1 DEF IInv, OnePutter
<1>4. /\ pc \in [Threads -> {"idle", "put", "prune"}]
      /\ buf \in [Threads -> Iobufs \cup {NoBuf}]
  BY DEF IInv, TypeOK
<1>5. \A u \in Threads : /\ pc'[u] = IF u = t THEN "prune" ELSE pc[u]
                         /\ buf'[u] = IF u = t THEN NoBuf ELSE buf[u]
  BY <1>1, <1>4
<1>6. b = buf[t]
  OBVIOUS
<1> HIDE DEF b
<1>7. \A x : x \in Putting' <=> (x \in Putting /\ x # b)
  <2>1. \A x : x \in Putting <=> \E u \in Threads : pc[u] = "put" /\ buf[u] = x
    BY DEF Putting
  <2>2. \A x : x \in Putting' <=> \E u \in Threads : pc'[u] = "put" /\ buf'[u] = x
    BY DEF Putting
  <2>3. ASSUME NEW x, x \in Putting' PROVE x \in Putting /\ x # b
    <3>1. PICK u \in Threads : pc'[u] = "put" /\ buf'[u] = x
      BY <2>2, <2>3
    <3>2. pc[u] = "put" /\ u # t /\ buf[u] = x
      BY <3>1, <1>5
    <3> QED  BY <3>2, <2>1, <1>3
  <2>4. ASSUME NEW x, x \in Putting, x # b PROVE x \in Putting'
    <3>1. PICK u \in Threads : pc[u] = "put" /\ buf[u] = x
      BY <2>1, <2>4
    <3>2. u # t
      BY <3>1, <2>4, <1>6
    <3> QED  BY <3>1, <3>2, <2>2, <1>5
  <2> QED  BY <2>3, <2>4
<1>8. Putting' = Putting \ {b}
  BY <1>7
<1>9. Abs!Return(b)
  BY <1>1, <1>2, <1>8 DEF Abs!Return
<1> QED  BY <1>2, <1>9 DEF AbsStep

\* Unmapping arenas that count no active iobuf is Unmap.
LEMMA UnmapAbs ==
    ASSUME IInv, NEW D \in SUBSET Arenas, \A a \in D : arena[a].active_cnt = 0,
           live' = live \ D, owned' = owned, Putting' = Putting
    PROVE  AbsStep
<1>1. \A a \in D : \A i \in Slots : owned[<<a, i>>] = 0 /\ <<a, i>> \notin Putting
  BY IdleFree
<1>2. Abs!Unmap(D)
  BY <1>1 DEF Abs!Unmap, Abs!Free
<1> QED  BY <1>2 DEF AbsStep

\* iobuf_pool_prune unmaps idle arenas or none.
LEMMA PruneAbs ==
    ASSUME IInv, NEW t \in Threads, iobuf_pool_prune(t)
    PROVE  AbsStep
<1>1. /\ pc[t] = "prune" /\ pc' = [pc EXCEPT ![t] = "idle"]
      /\ owned' = owned /\ buf' = buf
  BY DEF iobuf_pool_prune
<1>2. \A u \in Threads : pc'[u] = "put" <=> pc[u] = "put"
  BY <1>1 DEF IInv, TypeOK
<1>3. Putting' = Putting
  BY <1>1, <1>2 DEF Putting
<1>4. CASE list_empty(lists["arenas"])
  <2>1. live' = live
    BY <1>4 DEF iobuf_pool_prune
  <2> QED  BY <2>1, <1>1, <1>3 DEF AbsStep
<1>5. CASE ~list_empty(lists["arenas"])
  <2>1. live' = live \ Idle
    BY <1>5 DEF iobuf_pool_prune, Destroy
  <2>2. Idle \in SUBSET Arenas
    BY DEF Idle, IInv, TypeOK, ListNames, Entries, Range
  <2>3. \A a \in Idle : arena[a].active_cnt = 0
    BY DEF Idle
  <2> QED  BY <2>1, <2>2, <2>3, <1>1, <1>3, UnmapAbs
<1> QED  BY <1>4, <1>5

\* iobuf_pool_destroy unmaps the arenas of `arenas' when nothing is in use.
LEMMA PoolDestroyAbs ==
    ASSUME IInv, iobuf_pool_destroy
    PROVE  AbsStep
<1> DEFINE D == Entries(lists["arenas"])
<1>1. /\ \A t \in Threads : pc[t] = "idle"
      /\ \A b \in Iobufs : owned[b] = 0
      /\ live' = live \ D
      /\ owned' = owned /\ pc' = pc /\ buf' = buf
  BY DEF iobuf_pool_destroy, Destroy
<1>2. Putting = {} /\ Putting' = Putting
  BY <1>1 DEF Putting
<1>3. D \in SUBSET Arenas
  BY DEF IInv, TypeOK, ListNames, Entries, Range
<1> HIDE DEF D
<1>4. \A a \in D : \A i \in Slots : owned[<<a, i>>] = 0 /\ <<a, i>> \notin Putting
  BY <1>1, <1>2, <1>3 DEF Iobufs
<1>5. Abs!Unmap(D)
  BY <1>1, <1>2, <1>4 DEF Abs!Unmap, Abs!Free
<1> QED  BY <1>3, <1>5 DEF AbsStep

\* Every step of the pool is a step of its promise, or changes nothing of it.
LEMMA NextAbs == IInv /\ [Next]_vars => AbsStep
<1> SUFFICES ASSUME IInv, [Next]_vars PROVE AbsStep
  OBVIOUS
<1>1. ASSUME NEW t \in Threads, GetSelected(t) PROVE AbsStep
  BY <1>1, GetSelectedAbs
<1>2. ASSUME NEW t \in Threads, GetUnpruned(t) PROVE AbsStep
  BY <1>2, GetUnprunedAbs
<1>3. ASSUME NEW t \in Threads, GetAllocated(t) PROVE AbsStep
  BY <1>3, GetAllocatedAbs
<1>4. ASSUME UNCHANGED vars PROVE AbsStep
  <2>1. live' = live /\ owned' = owned /\ pc' = pc /\ buf' = buf
    BY <1>4 DEF vars
  <2>2. Putting' = Putting
    BY <2>1 DEF Putting
  <2> QED  BY <2>1, <2>2 DEF AbsStep
<1>5. ASSUME NEW t \in Threads, NEW b \in Iobufs, iobuf_ref(t, b) PROVE AbsStep
  BY <1>5, IobufRefAbs
<1>6. ASSUME NEW t \in Threads, NEW b \in Iobufs, iobuf_unref(t, b) PROVE AbsStep
  BY <1>6, IobufUnrefAbs
<1>7. ASSUME NEW t \in Threads, iobuf_put(t) PROVE AbsStep
  BY <1>7, IobufPutAbs
<1>8. ASSUME NEW t \in Threads, iobuf_pool_prune(t) PROVE AbsStep
  BY <1>8, PruneAbs
<1>9. CASE iobuf_pool_destroy
  BY <1>9, PoolDestroyAbs
<1>10. ASSUME NEW t \in Threads, GetFails(t) PROVE UNCHANGED vars
  BY <1>10 DEF GetFails
<1> QED
  BY <1>1, <1>2, <1>3, <1>4, <1>5, <1>6, <1>7, <1>8, <1>9, <1>10 DEF Next, Thread

\* iobuf_pool_new maps one arena or none, and no iobuf is in use.
LEMMA InitAbs == Init => Abs!Init
<1> SUFFICES ASSUME Init PROVE Abs!Init
  OBVIOUS
<1>1. live \in SUBSET Arenas
  BY DEF Init
<1>2. owned = [b \in Abs!Iobufs |-> 0]
  BY DEF Init, Iobufs, Abs!Iobufs
<1>3. Putting = {}
  BY DEF Init, Putting
<1> QED  BY <1>1, <1>2, <1>3 DEF Abs!Init

\* The pool keeps its promise: it never hands out an iobuf that has a holder or
\* that a thread is still putting, whatever the threads do between the critical
\* sections, and it unmaps an arena only when all its iobufs are free.
THEOREM Refinement == Spec => ImplementsAbs
<1>1. AbsStep => [Abs!Next]_(Abs!vars)
  BY DEF AbsStep, Abs!Next, Abs!vars, Abs!Iobufs, Iobufs
<1>2. IInv /\ [Next]_vars => [Abs!Next]_(Abs!vars)
  BY <1>1, NextAbs
<1> QED  BY <1>2, InitAbs, Invariance, PTL DEF Spec, ImplementsAbs, Abs!Spec
=============================================================================
