---------------------------- MODULE IobrefProofs ----------------------------
(***************************************************************************)
(* The safety of iobrefs for any number of iobrefs, iobufs, threads and    *)
(* slots, and for merges between any iobrefs.                              *)
(*                                                                         *)
(* Counts are sizes of sets of slots.  What keeps a merge complete is that *)
(* its lock protects `from', that its references protect `to', and that    *)
(* the filled slots of an iobref come first.                               *)
(***************************************************************************)
EXTENDS Iobref, FiniteSetTheorems, WellFoundedInduction, TLAPS

-----------------------------------------------------------------------------
(* The inductive invariant *)

\* An iobref without references is empty, but for the slots that the one thread
\* that destroys it has not reached.
DestroyInv ==
    /\ \A t \in Threads : job[t].op = "destroy" =>
          /\ job[t].from \in Iobrefs /\ ref[job[t].from] = 0 /\ job[t].i \in Index
          /\ \A k \in 1 .. job[t].i - 1 : entries[job[t].from][k] = NULL
    /\ \A t, u \in Threads :
          job[t].op = "destroy" /\ job[u].op = "destroy" /\ job[t].from = job[u].from => t = u
    /\ \A r \in Iobrefs :
          ref[r] = 0 /\ (\A t \in Threads : job[t].op = "destroy" => job[t].from # r) =>
              \A k \in Index : entries[r][k] = NULL

\* Whoever merges has references on both iobrefs.
PinInv == \A r \in Iobrefs : Pinned(r) <= ref[r]

\* __iobref_add fills the first empty slot.
PackedInv ==
    \A r \in Iobrefs : ref[r] > 0 =>
        \A k, l \in Index : k < l /\ entries[r][k] = NULL => entries[r][l] = NULL

\* A merge holds from->lock and has copied the slots before its index.
MergeInv ==
    \A t \in Threads : job[t].op = "merge" =>
        /\ job[t].to \in Iobrefs /\ job[t].from \in Iobrefs
        /\ lock[job[t].from] = t
        /\ job[t].i \in 1 .. Slots + 1
        /\ \A k \in 1 .. job[t].i - 1 : \E m \in Index :
              /\ entries[job[t].from][k] # NULL
              /\ entries[job[t].to][m] = entries[job[t].from][k]

IInv == BufrefsAccounted /\ DestroyInv /\ PinInv /\ PackedInv /\ MergeInv

-----------------------------------------------------------------------------
(* Slots that hold an iobuf *)

SlotsOf(e, b) == {x \in Iobrefs \X Index : e[x[1]][x[2]] = b}

Entries == [Iobrefs -> [Index -> Iobufs \cup {NULL}]]

LEMMA SlotsFinite ==
    ASSUME NEW e, NEW b
    PROVE  IsFiniteSet(SlotsOf(e, b)) /\ Cardinality(SlotsOf(e, b)) \in Nat
<1>1. IsFiniteSet(Index)
  BY SlotsAssumption, FS_Interval DEF Index
<1>2. IsFiniteSet(Iobrefs \X Index)
  BY <1>1, FiniteAssumption, FS_Product
<1>3. IsFiniteSet(SlotsOf(e, b))
  BY <1>2, FS_Subset DEF SlotsOf
<1> QED  BY <1>3, FS_CardinalityType

\* Filling an empty slot adds one holder of its iobuf.
LEMMA FillSlot ==
    ASSUME NEW e \in Entries, NEW r \in Iobrefs, NEW i \in Index, NEW b \in Iobufs,
           e[r][i] = NULL, NEW x \in Iobufs
    PROVE  /\ [e EXCEPT ![r][i] = b] \in Entries
           /\ Cardinality(SlotsOf([e EXCEPT ![r][i] = b], x))
                = Cardinality(SlotsOf(e, x)) + (IF x = b THEN 1 ELSE 0)
<1> DEFINE n == [e EXCEPT ![r][i] = b]
<1>1. n \in Entries
  BY DEF Entries
<1>2. \A s \in Iobrefs, k \in Index : n[s][k] = IF s = r /\ k = i THEN b ELSE e[s][k]
  BY DEF Entries
<1> HIDE DEF n
<1>3. CASE x = b
  <2>1. <<r, i>> \notin SlotsOf(e, x)
    BY NullAssumption DEF SlotsOf
  <2>2. SlotsOf(n, x) = SlotsOf(e, x) \cup {<<r, i>>}
    BY <1>2, <1>3 DEF SlotsOf
  <2> QED  BY <1>1, <1>3, <2>1, <2>2, SlotsFinite, FS_AddElement DEF n
<1>4. CASE x # b
  <2>1. SlotsOf(n, x) = SlotsOf(e, x)
    BY <1>2, <1>4, NullAssumption DEF SlotsOf
  <2> QED  BY <1>1, <1>4, <2>1, SlotsFinite DEF n
<1> QED  BY <1>3, <1>4

\* Clearing a slot takes one holder away.
LEMMA ClearSlot ==
    ASSUME NEW e \in Entries, NEW r \in Iobrefs, NEW i \in Index, NEW x \in Iobufs
    PROVE  /\ [e EXCEPT ![r][i] = NULL] \in Entries
           /\ Cardinality(SlotsOf([e EXCEPT ![r][i] = NULL], x))
                = Cardinality(SlotsOf(e, x)) - (IF x = e[r][i] THEN 1 ELSE 0)
<1> DEFINE n == [e EXCEPT ![r][i] = NULL]
<1>1. n \in Entries
  BY DEF Entries
<1>2. \A s \in Iobrefs, k \in Index : n[s][k] = IF s = r /\ k = i THEN NULL ELSE e[s][k]
  BY DEF Entries
<1> HIDE DEF n
<1>3. CASE x = e[r][i]
  <2>1. <<r, i>> \in SlotsOf(e, x)
    BY <1>3 DEF SlotsOf
  <2>2. SlotsOf(n, x) = SlotsOf(e, x) \ {<<r, i>>}
    BY <1>2, <1>3, NullAssumption DEF SlotsOf
  <2> QED  BY <1>1, <1>3, <2>1, <2>2, SlotsFinite, FS_RemoveElement DEF n
<1>4. CASE x # e[r][i]
  <2>1. SlotsOf(n, x) = SlotsOf(e, x)
    BY <1>2, <1>4, NullAssumption DEF SlotsOf
  <2> QED  BY <1>1, <1>4, <2>1, SlotsFinite DEF n
<1> QED  BY <1>3, <1>4

\* BufrefsAccounted in these terms.
LEMMA Accounting ==
    /\ BufrefsAccounted <=>
         TypeOK /\ \A b \in Iobufs : bufref[b] = own[b] + Cardinality(SlotsOf(entries, b))
    /\ BufrefsAccounted' <=>
         TypeOK' /\ \A b \in Iobufs : bufref'[b] = own'[b] + Cardinality(SlotsOf(entries', b))
BY DEF BufrefsAccounted, Holding, SlotsOf

\* A thread inside iobref_merge keeps both of its iobrefs allocated.
LEMMA MergePins ==
    ASSUME IInv, NEW t \in Threads, job[t].op = "merge"
    PROVE  ref[job[t].to] > 0 /\ ref[job[t].from] > 0
<1> DEFINE P(r) == {u \in Threads : job[u].op = "merge" /\ r \in {job[u].to, job[u].from}}
<1>1. ASSUME NEW r \in Iobrefs, t \in P(r) PROVE ref[r] > 0
  <2>1. IsFiniteSet(P(r)) /\ Cardinality(P(r)) \in Nat
    BY FiniteAssumption, FS_Subset, FS_CardinalityType
  <2>2. Cardinality(P(r)) # 0
    BY <1>1, <2>1, FS_EmptySet
  <2>3. ref[r] \in Nat /\ Cardinality(P(r)) <= ref[r]
    BY DEF IInv, BufrefsAccounted, TypeOK, PinInv, Pinned
  <2> HIDE DEF P
  <2> QED  BY <2>1, <2>2, <2>3
<1>2. job[t].to \in Iobrefs /\ job[t].from \in Iobrefs
  BY DEF IInv, MergeInv
<1> QED  BY <1>1, <1>2

LEMMA PinnedType ==
    ASSUME NEW r
    PROVE  Pinned(r) \in Nat
<1>1. IsFiniteSet({u \in Threads : job[u].op = "merge" /\ r \in {job[u].to, job[u].from}})
  BY FiniteAssumption, FS_Subset
<1> QED  BY <1>1, FS_CardinalityType DEF Pinned

-----------------------------------------------------------------------------
(* __iobref_add *)

\* A set of slots has a first one.
LEMMA FirstSlot ==
    ASSUME NEW T \in SUBSET Nat, T # {}
    PROVE  \E i \in T : \A j \in T : i <= j
<1> DEFINE R == OpToRel(<, Nat)
<1>1. IsWellFoundedOn(R, Nat)
  BY NatLessThanWellFounded
<1>2. \A x, y \in Nat : x < y => <<x, y>> \in R
  BY DEF OpToRel
<1> HIDE DEF R
<1>3. PICK i \in T : \A j \in T : ~(<<j, i>> \in R)
  BY <1>1, WFMin
<1>4. ASSUME NEW j \in T PROVE i <= j
  <2>1. i \in Nat /\ j \in Nat
    OBVIOUS
  <2>2. ~(j < i)
    BY <2>1, <1>2, <1>3, Zenon
  <2> QED  BY <2>1, <2>2
<1> QED  BY <1>4

\* What __iobref_add does to an iobref in use.
LEMMA AddLemma ==
    ASSUME IInv, NEW r \in Iobrefs, NEW b \in Iobufs, ref[r] > 0, Add(r, b), own' = own
    PROVE  /\ entries' \in Entries /\ bufref' \in [Iobufs -> Nat]
           /\ \A x \in Iobufs : bufref'[x] = own'[x] + Cardinality(SlotsOf(entries', x))
           /\ \A s \in Iobrefs : s # r => entries'[s] = entries[s]
           /\ \A k \in Index : entries[r][k] # NULL => entries'[r][k] = entries[r][k]
           /\ \A k, l \in Index : k < l /\ entries'[r][k] = NULL => entries'[r][l] = NULL
           /\ Empty(r) # {} => \E m \in Index : entries'[r][m] = b
           /\ Empty(r) = {} => entries' = entries
<1> DEFINE First(i) == i \in Empty(r) /\ \A j \in Empty(r) : i <= j
<1>1. /\ entries \in Entries /\ bufref \in [Iobufs -> Nat] /\ own \in [Iobufs -> Nat]
      /\ \A x \in Iobufs : bufref[x] = own[x] + Cardinality(SlotsOf(entries, x))
      /\ \A k, l \in Index : k < l /\ entries[r][k] = NULL => entries[r][l] = NULL
  BY Accounting DEF IInv, PackedInv, TypeOK, Entries
<1>2. Index \subseteq Nat /\ Empty(r) \subseteq Index
  BY DEF Index, Empty
<1>3. CASE Empty(r) = {}
  <2>1. entries' = entries /\ bufref' = bufref
    BY <1>3 DEF Add
  <2> QED  BY <1>1, <1>3, <2>1
<1>4. CASE Empty(r) # {}
  <2> DEFINE f == CHOOSE i \in Empty(r) : \A j \in Empty(r) : i <= j
  <2>1. f \in Empty(r) /\ \A j \in Empty(r) : f <= j
    <3>1. \E i \in Empty(r) : \A j \in Empty(r) : i <= j
      BY <1>2, <1>4, FirstSlot
    <3> QED  BY <3>1
  <2>2. /\ entries' = [entries EXCEPT ![r][f] = b]
        /\ bufref' = [bufref EXCEPT ![b] = @ + 1]
    BY <1>4 DEF Add
  <2> HIDE DEF f
  <2>3. f \in Index /\ entries[r][f] = NULL
    BY <2>1, <1>2 DEF Empty
  <2>4. /\ entries' \in Entries
        /\ \A x \in Iobufs : Cardinality(SlotsOf(entries', x))
                               = Cardinality(SlotsOf(entries, x)) + (IF x = b THEN 1 ELSE 0)
    <3> DEFINE n == [entries EXCEPT ![r][f] = b]
    <3>1. ASSUME NEW x \in Iobufs
          PROVE  /\ n \in Entries
                 /\ Cardinality(SlotsOf(n, x))
                      = Cardinality(SlotsOf(entries, x)) + (IF x = b THEN 1 ELSE 0)
      BY <1>1, <2>3, FillSlot
    <3>2. entries' = n
      BY <2>2
    <3> HIDE DEF n
    <3> QED  BY <3>1, <3>2
  <2>5. \A x \in Iobufs : bufref'[x] = bufref[x] + (IF x = b THEN 1 ELSE 0)
    BY <1>1, <2>2
  <2>6. bufref' \in [Iobufs -> Nat]
    BY <1>1, <2>2
  <2>7. ASSUME NEW x \in Iobufs
        PROVE  bufref'[x] = own'[x] + Cardinality(SlotsOf(entries', x))
    <3> DEFINE C == Cardinality(SlotsOf(entries, x))
               D == Cardinality(SlotsOf(entries', x))
               o == IF x = b THEN 1 ELSE 0
    <3>1. C \in Nat /\ own[x] \in Nat /\ bufref[x] \in Nat /\ o \in {0, 1}
      BY <1>1, SlotsFinite
    <3>2. bufref[x] = own[x] + C /\ D = C + o /\ bufref'[x] = bufref[x] + o
      BY <1>1, <2>4, <2>5
    <3> HIDE DEF C, D, o
    <3>3. bufref'[x] = own[x] + D
      BY <3>1, <3>2
    <3> QED  BY <3>3 DEF D
  <2>8. /\ \A s \in Iobrefs : s # r => entries'[s] = entries[s]
        /\ \A k \in Index : entries'[r][k] = IF k = f THEN b ELSE entries[r][k]
    BY <1>1, <2>2, <2>3 DEF Entries
  <2>9. b # NULL
    BY NullAssumption
  <2>10. ASSUME NEW k \in Index, NEW l \in Index, k < l, entries'[r][k] = NULL
         PROVE  entries'[r][l] = NULL
    <3>1. k # f /\ entries[r][k] = NULL
      BY <2>8, <2>9, <2>10
    <3>2. f <= k /\ f \in Nat /\ k \in Nat /\ l \in Nat
      BY <3>1, <2>1, <2>3, <1>2 DEF Empty
    <3>3. l # f
      BY <3>2, <2>10
    <3>4. entries[r][l] = NULL
      BY <3>1, <1>1, <2>10
    <3> QED  BY <3>3, <3>4, <2>8
  <2> QED  BY <1>4, <2>3, <2>4, <2>6, <2>7, <2>8, <2>10
<1> QED  BY <1>3, <1>4

\* Adding to an iobref that is not locked keeps what a merge relies on.
LEMMA AddKeeps ==
    ASSUME IInv, NEW r \in Iobrefs, NEW b \in Iobufs, ref[r] > 0, lock[r] = NULL, Add(r, b),
           own' = own
    PROVE  /\ \A t \in Threads : job[t].op = "merge" =>
                 /\ entries'[job[t].from] = entries[job[t].from]
                 /\ \A k \in 1 .. job[t].i - 1 : \E m \in Index :
                       /\ entries'[job[t].from][k] # NULL
                       /\ entries'[job[t].to][m] = entries'[job[t].from][k]
           /\ \A t \in Threads : job[t].op = "destroy" => entries'[job[t].from] = entries[job[t].from]
           /\ \A s \in Iobrefs : ref[s] = 0 => entries'[s] = entries[s]
           /\ \A s \in Iobrefs : ref[s] > 0 =>
                 \A k, l \in Index : k < l /\ entries'[s][k] = NULL => entries'[s][l] = NULL
<1>1. /\ \A s \in Iobrefs : s # r => entries'[s] = entries[s]
      /\ \A k \in Index : entries[r][k] # NULL => entries'[r][k] = entries[r][k]
      /\ \A k, l \in Index : k < l /\ entries'[r][k] = NULL => entries'[r][l] = NULL
  BY AddLemma
<1>2. ref \in [Iobrefs -> Nat]
  BY DEF IInv, BufrefsAccounted, TypeOK
<1>3. ASSUME NEW t \in Threads, job[t].op = "merge"
      PROVE  /\ entries'[job[t].from] = entries[job[t].from]
             /\ \A k \in 1 .. job[t].i - 1 : \E m \in Index :
                   /\ entries'[job[t].from][k] # NULL
                   /\ entries'[job[t].to][m] = entries'[job[t].from][k]
  <2>1. /\ job[t].to \in Iobrefs /\ job[t].from \in Iobrefs /\ lock[job[t].from] = t
        /\ \A k \in 1 .. job[t].i - 1 : \E m \in Index :
              /\ entries[job[t].from][k] # NULL
              /\ entries[job[t].to][m] = entries[job[t].from][k]
    BY <1>3 DEF IInv, MergeInv
  <2>2. job[t].from # r
    BY <2>1, NullAssumption
  <2>3. entries'[job[t].from] = entries[job[t].from]
    BY <1>1, <2>1, <2>2
  <2>4. \A m \in Index : entries[job[t].to][m] # NULL => entries'[job[t].to][m] = entries[job[t].to][m]
    BY <1>1, <2>1
  <2> QED  BY <2>1, <2>3, <2>4
<1>4. ASSUME NEW s \in Iobrefs, ref[s] = 0 PROVE entries'[s] = entries[s]
  <2>1. s # r
    BY <1>4, <1>2
  <2> QED  BY <2>1, <1>1
<1>5. ASSUME NEW t \in Threads, job[t].op = "destroy" PROVE entries'[job[t].from] = entries[job[t].from]
  <2>1. job[t].from \in Iobrefs /\ ref[job[t].from] = 0
    BY <1>5 DEF IInv, DestroyInv
  <2> QED  BY <2>1, <1>4
<1>6. ASSUME NEW s \in Iobrefs, ref[s] > 0, NEW k \in Index, NEW l \in Index, k < l,
             entries'[s][k] = NULL
      PROVE  entries'[s][l] = NULL
  <2>1. CASE s = r
    BY <2>1, <1>1, <1>6
  <2>2. CASE s # r
    BY <2>2, <1>1, <1>6 DEF IInv, PackedInv
  <2> QED  BY <2>1, <2>2
<1> QED  BY <1>3, <1>4, <1>5, <1>6

-----------------------------------------------------------------------------
(* The operations *)

\* The merges that need a reference on r.
PinSet(j, r) == {u \in Threads : j[u].op = "merge" /\ r \in {j[u].to, j[u].from}}

LEMMA PinSetLemma ==
    ASSUME NEW r
    PROVE  /\ Pinned(r) = Cardinality(PinSet(job, r)) /\ Pinned(r)' = Cardinality(PinSet(job', r))
           /\ IsFiniteSet(PinSet(job, r)) /\ IsFiniteSet(PinSet(job', r))
           /\ Pinned(r) \in Nat /\ Pinned(r)' \in Nat
<1>1. Pinned(r) = Cardinality(PinSet(job, r)) /\ Pinned(r)' = Cardinality(PinSet(job', r))
  BY DEF Pinned, PinSet
<1>2. IsFiniteSet(PinSet(job, r)) /\ IsFiniteSet(PinSet(job', r))
  BY FiniteAssumption, FS_Subset DEF PinSet
<1> QED  BY <1>1, <1>2, FS_CardinalityType

LEMMA IdleLemma == Idle \in Job /\ Idle.op = "idle" /\ Idle.from = NULL /\ Idle.i = 0
BY SlotsAssumption DEF Idle, Job

LEMMA NewInv ==
    ASSUME IInv, NEW t \in Threads, NEW r \in Iobrefs, iobref_new(t, r)
    PROVE  IInv'
<1>1. /\ ref[r] = 0 /\ \A u \in Threads : job[u].from # r
      /\ ref' = [ref EXCEPT ![r] = 1]
      /\ entries' = [entries EXCEPT ![r] = [i \in Index |-> NULL]]
      /\ UNCHANGED <<bufref, own, lock, job>>
  BY DEF iobref_new
<1>2. /\ TypeOK /\ \A b \in Iobufs : bufref[b] = own[b] + Cardinality(SlotsOf(entries, b))
  BY Accounting DEF IInv
<1>3. entries' = entries
  <2>1. \A k \in Index : entries[r][k] = NULL
    BY <1>1 DEF IInv, DestroyInv
  <2>2. entries[r] = [i \in Index |-> NULL]
    BY <1>2, <2>1 DEF TypeOK
  <2> QED  BY <1>1, <1>2, <2>2 DEF TypeOK
<1>4. TypeOK'
  BY <1>1, <1>2, <1>3 DEF TypeOK
<1>5. BufrefsAccounted'
  BY <1>1, <1>2, <1>3, <1>4, Accounting
<1>6. DestroyInv'
  BY <1>1, <1>2, <1>3 DEF IInv, DestroyInv, TypeOK
<1>7. PinInv'
  <2> SUFFICES ASSUME NEW s \in Iobrefs PROVE Pinned(s)' <= ref'[s]
    BY DEF PinInv
  <2>1. Pinned(s)' = Pinned(s) /\ Pinned(s) \in Nat /\ Pinned(s) <= ref[s]
    BY <1>1, PinSetLemma DEF IInv, PinInv
  <2> QED  BY <2>1, <1>1, <1>2 DEF TypeOK
<1>8. PackedInv'
  <2>1. \A k \in Index : entries[r][k] = NULL
    BY <1>1 DEF IInv, DestroyInv
  <2> QED  BY <2>1, <1>1, <1>2, <1>3 DEF IInv, PackedInv, TypeOK
<1>9. MergeInv'
  BY <1>1, <1>3 DEF IInv, MergeInv
<1> QED  BY <1>5, <1>6, <1>7, <1>8, <1>9 DEF IInv

LEMMA RefInv ==
    ASSUME IInv, NEW t \in Threads, NEW r \in Iobrefs, iobref_ref(t, r)
    PROVE  IInv'
<1>1. /\ ref[r] \in 1 .. MaxRef - 1
      /\ ref' = [ref EXCEPT ![r] = @ + 1]
      /\ UNCHANGED <<entries, bufref, own, lock, job>>
  BY DEF iobref_ref
<1>2. TypeOK /\ \A b \in Iobufs : bufref[b] = own[b] + Cardinality(SlotsOf(entries, b))
  BY Accounting DEF IInv
<1>3. /\ ref' \in [Iobrefs -> Nat]
      /\ \A s \in Iobrefs : ref'[s] >= ref[s] /\ (ref'[s] = 0 <=> ref[s] = 0)
  BY <1>1, <1>2 DEF TypeOK
<1>4. BufrefsAccounted'
  BY <1>1, <1>2, <1>3, Accounting DEF TypeOK
<1>5. DestroyInv'
  BY <1>1, <1>3 DEF IInv, DestroyInv
<1>6. PinInv'
  <2> SUFFICES ASSUME NEW s \in Iobrefs PROVE Pinned(s)' <= ref'[s]
    BY DEF PinInv
  <2>1. Pinned(s)' = Pinned(s) /\ Pinned(s) \in Nat /\ Pinned(s) <= ref[s]
    BY <1>1, PinSetLemma DEF IInv, PinInv
  <2>2. ref[s] \in Nat /\ ref'[s] \in Nat /\ ref'[s] >= ref[s]
    BY <1>2, <1>3 DEF TypeOK
  <2> QED  BY <2>1, <2>2
<1>7. PackedInv'
  <2>1. \A s \in Iobrefs : ref'[s] > 0 => ref[s] > 0
    BY <1>2, <1>3 DEF TypeOK
  <2> QED  BY <2>1, <1>1 DEF IInv, PackedInv
<1>8. MergeInv'
  BY <1>1 DEF IInv, MergeInv
<1> QED  BY <1>4, <1>5, <1>6, <1>7, <1>8 DEF IInv

LEMMA UnrefInv ==
    ASSUME IInv, NEW t \in Threads, NEW r \in Iobrefs, iobref_unref(t, r)
    PROVE  IInv'
<1> DEFINE d == [op |-> "destroy", to |-> NULL, from |-> r, i |-> 1, ret |-> 0]
<1>1. /\ job[t] = Idle /\ ref[r] > Pinned(r)
      /\ ref' = [ref EXCEPT ![r] = @ - 1]
      /\ job' = IF ref[r] = 1 THEN [job EXCEPT ![t] = d] ELSE job
      /\ UNCHANGED <<entries, bufref, own, lock>>
  BY DEF iobref_unref
<1>2. TypeOK /\ \A b \in Iobufs : bufref[b] = own[b] + Cardinality(SlotsOf(entries, b))
  BY Accounting DEF IInv
<1>3. d \in Job /\ d.op = "destroy" /\ d.from = r /\ d.i = 1 /\ 1 \in Index
  <2>1. 1 \in Index /\ 1 \in 0 .. Slots + 1
    BY SlotsAssumption DEF Index
  <2> QED  BY <2>1 DEF Job
<1> HIDE DEF d
<1>4. Pinned(r) \in Nat /\ ref[r] \in Nat /\ ref[r] > 0
  BY <1>1, <1>2, PinSetLemma DEF TypeOK
<1>5. /\ ref' \in [Iobrefs -> Nat] /\ ref'[r] = ref[r] - 1
      /\ \A s \in Iobrefs : s # r => ref'[s] = ref[s]
  BY <1>1, <1>2, <1>4 DEF TypeOK
<1>6. job' \in [Threads -> Job]
  BY <1>1, <1>2, <1>3 DEF TypeOK
<1>7. BufrefsAccounted'
  <2>1. TypeOK'
    BY <1>1, <1>2, <1>5, <1>6 DEF TypeOK
  <2> QED  BY <1>1, <1>2, <2>1, Accounting
<1>8. /\ \A u \in Threads : u # t => job'[u] = job[u]
      /\ job'[t] = IF ref[r] = 1 THEN d ELSE Idle
  BY <1>1, <1>2 DEF TypeOK
<1>9. DestroyInv'
  <2>1. \A u \in Threads : job[u].op = "destroy" => u # t /\ job[u].from \in Iobrefs /\ job[u].from # r
    BY <1>1, <1>4, IdleLemma DEF IInv, DestroyInv
  <2>2. \A u \in Threads : job'[u].op = "destroy" =>
          \/ u # t /\ job[u].op = "destroy" /\ job'[u] = job[u]
          \/ u = t /\ job'[u] = d /\ ref[r] = 1
    BY <1>8, IdleLemma
  <2>3. ASSUME NEW u \in Threads, job'[u].op = "destroy"
        PROVE  /\ job'[u].from \in Iobrefs /\ ref'[job'[u].from] = 0 /\ job'[u].i \in Index
               /\ \A k \in 1 .. job'[u].i - 1 : entries'[job'[u].from][k] = NULL
    <3>1. CASE u # t
      BY <3>1, <2>1, <2>2, <2>3, <1>1, <1>5 DEF IInv, DestroyInv
    <3>2. CASE u = t
      BY <3>2, <2>2, <2>3, <1>3, <1>5
    <3> QED  BY <3>1, <3>2
  <2>4. ASSUME NEW u \in Threads, NEW v \in Threads, job'[u].op = "destroy", job'[v].op = "destroy",
               job'[u].from = job'[v].from
        PROVE  u = v
    BY <2>1, <2>2, <2>4, <1>3 DEF IInv, DestroyInv
  <2>5. ASSUME NEW s \in Iobrefs, ref'[s] = 0,
               \A u \in Threads : job'[u].op = "destroy" => job'[u].from # s,
               NEW k \in Index
        PROVE  entries'[s][k] = NULL
    <3>1. CASE s = r
      <4>1. ref[r] = 1
        BY <3>1, <2>5, <1>4, <1>5
      <4> QED  BY <4>1, <3>1, <2>5, <1>3, <1>8
    <3>2. CASE s # r
      <4>1. ref[s] = 0
        BY <3>2, <2>5, <1>5
      <4>2. \A u \in Threads : job[u].op = "destroy" => job[u].from # s
        BY <2>1, <2>5, <1>8
      <4> QED  BY <4>1, <4>2, <1>1 DEF IInv, DestroyInv
    <3> QED  BY <3>1, <3>2
  <2> QED  BY <2>3, <2>4, <2>5 DEF DestroyInv
<1>10. \A u \in Threads : job'[u].op = "merge" <=> job[u].op = "merge" /\ u # t
  BY <1>1, <1>3, <1>8, IdleLemma
<1>11. PinInv'
  <2> SUFFICES ASSUME NEW s \in Iobrefs PROVE Pinned(s)' <= ref'[s]
    BY DEF PinInv
  <2>1. PinSet(job', s) = PinSet(job, s)
    BY <1>1, <1>8, <1>10, IdleLemma DEF PinSet
  <2>2. Pinned(s)' = Pinned(s) /\ Pinned(s) \in Nat /\ Pinned(s) <= ref[s]
    BY <2>1, PinSetLemma DEF IInv, PinInv
  <2>3. CASE s = r
    BY <2>2, <2>3, <1>1, <1>4, <1>5
  <2>4. CASE s # r
    BY <2>2, <2>4, <1>5
  <2> QED  BY <2>3, <2>4
<1>12. PackedInv'
  <2>1. \A s \in Iobrefs : ref'[s] > 0 => ref[s] > 0
    BY <1>4, <1>5
  <2> QED  BY <2>1, <1>1 DEF IInv, PackedInv
<1>13. MergeInv'
  BY <1>1, <1>8, <1>10 DEF IInv, MergeInv
<1> QED  BY <1>7, <1>9, <1>11, <1>12, <1>13 DEF IInv

LEMMA DestroySlotInv ==
    ASSUME IInv, NEW t \in Threads, DestroySlot(t)
    PROVE  IInv'
<1> DEFINE r == job[t].from
           i == job[t].i
           b == entries[r][i]
<1>1. /\ job[t].op = "destroy"
      /\ entries' = [entries EXCEPT ![r][i] = NULL]
      /\ bufref' = IF b = NULL THEN bufref ELSE [bufref EXCEPT ![b] = @ - 1]
      /\ job' = [job EXCEPT ![t] = IF i = Slots THEN Idle ELSE [job[t] EXCEPT !.i = i + 1]]
      /\ UNCHANGED <<ref, own, lock>>
  BY DEF DestroySlot
<1>2. TypeOK /\ \A x \in Iobufs : bufref[x] = own[x] + Cardinality(SlotsOf(entries, x))
  BY Accounting DEF IInv
<1>3. /\ r \in Iobrefs /\ ref[r] = 0 /\ i \in Index
      /\ \A k \in 1 .. i - 1 : entries[r][k] = NULL
  BY <1>1 DEF IInv, DestroyInv
<1>4. entries \in Entries /\ b \in Iobufs \cup {NULL}
  BY <1>2, <1>3 DEF TypeOK, Entries
<1>5. /\ job[t] \in Job /\ job'[t] = IF i = Slots THEN Idle ELSE [job[t] EXCEPT !.i = i + 1]
      /\ \A u \in Threads : u # t => job'[u] = job[u]
      /\ job' = [job EXCEPT ![t] = job'[t]]
  <2> DEFINE n == IF i = Slots THEN Idle ELSE [job[t] EXCEPT !.i = i + 1]
  <2>1. job' = [job EXCEPT ![t] = n]
    BY <1>1
  <2> HIDE DEF n
  <2>2. job[t] \in Job /\ job'[t] = n /\ \A u \in Threads : u # t => job'[u] = job[u]
    BY <2>1, <1>2 DEF TypeOK
  <2> QED  BY <2>1, <2>2 DEF n
<1>6. i # Slots => /\ i + 1 \in Index /\ job'[t] \in Job /\ job'[t].op = "destroy"
                   /\ job'[t].from = r /\ job'[t].i = i + 1
  <2> SUFFICES ASSUME i # Slots
               PROVE  /\ i + 1 \in Index /\ job'[t] \in Job /\ job'[t].op = "destroy"
                      /\ job'[t].from = r /\ job'[t].i = i + 1
    OBVIOUS
  <2>1. i + 1 \in Index /\ i + 1 \in 0 .. Slots + 1
    BY <1>3, SlotsAssumption DEF Index
  <2>2. job'[t] = [job[t] EXCEPT !.i = i + 1]
    BY <1>5
  <2>3. job'[t] \in Job
    BY <2>1, <2>2, <1>5 DEF Job
  <2>4. job'[t].op = job[t].op /\ job'[t].from = job[t].from /\ job'[t].i = i + 1
    BY <2>2, <1>5 DEF Job
  <2> QED  BY <2>1, <2>3, <2>4, <1>1
<1>7. i = Slots => job'[t] = Idle /\ job'[t] \in Job /\ job'[t].op = "idle"
  BY <1>5, IdleLemma
<1>8. job' \in [Threads -> Job]
  BY <1>2, <1>5, <1>6, <1>7 DEF TypeOK
<1> HIDE DEF r, i, b
<1>9. /\ entries' \in Entries
      /\ \A s \in Iobrefs : s # r => entries'[s] = entries[s]
      /\ \A k \in Index : entries'[r][k] = IF k = i THEN NULL ELSE entries[r][k]
  BY <1>1, <1>3, <1>4 DEF Entries
<1>10. ASSUME NEW x \in Iobufs
       PROVE  /\ bufref'[x] = own'[x] + Cardinality(SlotsOf(entries', x))
              /\ bufref'[x] \in Nat
  <2> DEFINE C == Cardinality(SlotsOf(entries, x))
             D == Cardinality(SlotsOf(entries', x))
             o == IF x = b THEN 1 ELSE 0
  <2>1. C \in Nat /\ D \in Nat /\ own[x] \in Nat /\ bufref[x] \in Nat /\ o \in {0, 1}
    BY <1>2, SlotsFinite DEF TypeOK
  <2>2. D = C - o
    <3> DEFINE n == [entries EXCEPT ![r][i] = NULL]
    <3>1. Cardinality(SlotsOf(n, x)) = Cardinality(SlotsOf(entries, x)) - (IF x = entries[r][i] THEN 1 ELSE 0)
      BY <1>3, <1>4, ClearSlot
    <3>2. entries' = n /\ b = entries[r][i]
      BY <1>1 DEF b, r, i
    <3> HIDE DEF n
    <3> QED  BY <3>1, <3>2
  <2>3. bufref'[x] = bufref[x] - o
    <3>1. x # NULL
      BY NullAssumption
    <3>2. CASE x = b
      BY <3>1, <3>2, <1>1, <1>2 DEF TypeOK
    <3>3. CASE x # b
      BY <3>3, <1>1, <1>2, <1>4, <2>1 DEF TypeOK
    <3> QED  BY <3>2, <3>3
  <2>4. bufref[x] = own[x] + C
    BY <1>2
  <2> HIDE DEF C, D, o
  <2>5. bufref'[x] = own[x] + D /\ bufref'[x] \in Nat
    BY <2>1, <2>2, <2>3, <2>4
  <2> QED  BY <2>5, <1>1 DEF D
<1>11. BufrefsAccounted'
  <2>1. bufref' \in [Iobufs -> Nat]
    <3>1. DOMAIN bufref' = Iobufs /\ bufref' = [x \in Iobufs |-> bufref'[x]]
      BY <1>1, <1>2 DEF TypeOK
    <3> QED  BY <3>1, <1>10
  <2>2. TypeOK'
    BY <2>1, <1>1, <1>2, <1>8, <1>9 DEF TypeOK, Entries
  <2> QED  BY <2>2, <1>10, Accounting
<1>12. DestroyInv'
  <2>1. \A u \in Threads : job'[u].op = "destroy" => job[u].op = "destroy" /\ job'[u].from = job[u].from
    BY <1>1, <1>5, <1>6, <1>7 DEF r
  <2>2. ASSUME NEW u \in Threads, job'[u].op = "destroy"
        PROVE  /\ job'[u].from \in Iobrefs /\ ref'[job'[u].from] = 0 /\ job'[u].i \in Index
               /\ \A k \in 1 .. job'[u].i - 1 : entries'[job'[u].from][k] = NULL
    <3>1. CASE u = t
      <4>1. i # Slots /\ job'[t].from = r /\ job'[t].i = i + 1 /\ i + 1 \in Index
        BY <3>1, <2>2, <1>6, <1>7
      <4>2. \A k \in 1 .. i : k \in Index /\ (k = i \/ k \in 1 .. i - 1)
        BY <1>3, SlotsAssumption DEF Index
      <4>3. \A k \in 1 .. i : entries'[r][k] = NULL
        BY <4>2, <1>3, <1>9
      <4>4. (i + 1) - 1 = i
        BY <1>3 DEF Index
      <4> QED  BY <3>1, <4>1, <4>3, <4>4, <1>1, <1>3
    <3>2. CASE u # t
      <4>1. job'[u] = job[u] /\ job[u].op = "destroy" /\ job[u].from # r
        BY <3>2, <2>2, <1>1, <1>5 DEF IInv, DestroyInv, r
      <4>2. job[u].from \in Iobrefs /\ entries'[job[u].from] = entries[job[u].from]
        BY <4>1, <1>9 DEF IInv, DestroyInv
      <4> QED  BY <4>1, <4>2, <1>1 DEF IInv, DestroyInv
    <3> QED  BY <3>1, <3>2
  <2>3. \A u, v \in Threads :
           job'[u].op = "destroy" /\ job'[v].op = "destroy" /\ job'[u].from = job'[v].from => u = v
    BY <2>1 DEF IInv, DestroyInv
  <2>4. ASSUME NEW s \in Iobrefs, ref'[s] = 0,
               \A u \in Threads : job'[u].op = "destroy" => job'[u].from # s,
               NEW k \in Index
        PROVE  entries'[s][k] = NULL
    <3>1. CASE s = r
      <4>1. i = Slots
        BY <3>1, <2>4, <1>6
      <4>2. k = i \/ k \in 1 .. i - 1
        BY <4>1, SlotsAssumption DEF Index
      <4> QED  BY <3>1, <4>2, <1>3, <1>9
    <3>2. CASE s # r
      <4>1. \A u \in Threads : job[u].op = "destroy" => job[u].from # s
        BY <3>2, <2>4, <1>5 DEF r
      <4> QED  BY <3>2, <4>1, <2>4, <1>1, <1>9 DEF IInv, DestroyInv
    <3> QED  BY <3>1, <3>2
  <2> QED  BY <2>2, <2>3, <2>4 DEF DestroyInv
<1>13. \A u \in Threads : job'[u].op = "merge" => u # t /\ job[u].op = "merge" /\ job'[u] = job[u]
  BY <1>5, <1>6, <1>7
<1>14. PinInv'
  <2> SUFFICES ASSUME NEW s \in Iobrefs PROVE Pinned(s)' <= ref'[s]
    BY DEF PinInv
  <2>1. PinSet(job', s) = PinSet(job, s)
    BY <1>1, <1>5, <1>13 DEF PinSet
  <2>2. Pinned(s)' = Pinned(s) /\ Pinned(s) <= ref[s]
    BY <2>1, PinSetLemma DEF IInv, PinInv
  <2> QED  BY <2>2, <1>1
<1>15. PackedInv'
  <2>1. \A s \in Iobrefs : ref'[s] > 0 => s # r /\ ref[s] > 0
    BY <1>1, <1>3
  <2> QED  BY <2>1, <1>9 DEF IInv, PackedInv
<1>16. MergeInv'
  <2> SUFFICES ASSUME NEW u \in Threads, job'[u].op = "merge"
               PROVE  /\ job[u].to \in Iobrefs /\ job[u].from \in Iobrefs
                      /\ lock[job[u].from] = u
                      /\ job[u].i \in 1 .. Slots + 1
                      /\ \A k \in 1 .. job[u].i - 1 : \E m \in Index :
                            /\ entries'[job[u].from][k] # NULL
                            /\ entries'[job[u].to][m] = entries'[job[u].from][k]
    BY <1>1, <1>13 DEF MergeInv
  <2>1. job[u].op = "merge"
    BY <1>13
  <2>2. job[u].to # r /\ job[u].from # r
    BY <2>1, <1>3, MergePins
  <2>3. job[u].to \in Iobrefs /\ job[u].from \in Iobrefs
    BY <2>1 DEF IInv, MergeInv
  <2>4. entries'[job[u].to] = entries[job[u].to] /\ entries'[job[u].from] = entries[job[u].from]
    BY <2>2, <2>3, <1>9
  <2> QED  BY <2>1, <2>4 DEF IInv, MergeInv
<1> QED  BY <1>11, <1>12, <1>14, <1>15, <1>16 DEF IInv

LEMMA AddInv ==
    ASSUME IInv, NEW t \in Threads, NEW r \in Iobrefs, NEW b \in Iobufs, iobref_add(t, r, b)
    PROVE  IInv'
<1>1. ref[r] > 0 /\ lock[r] = NULL /\ Add(r, b) /\ UNCHANGED <<ref, own, lock, job>>
  BY DEF iobref_add, Free
<1>2. TypeOK
  BY Accounting DEF IInv
<1>3. /\ entries' \in Entries /\ bufref' \in [Iobufs -> Nat]
      /\ \A x \in Iobufs : bufref'[x] = own'[x] + Cardinality(SlotsOf(entries', x))
  BY <1>1, AddLemma
<1>4. BufrefsAccounted'
  <2>1. TypeOK'
    BY <1>1, <1>2, <1>3 DEF TypeOK, Entries
  <2> QED  BY <2>1, <1>3, Accounting
<1>5. /\ \A u \in Threads : job[u].op = "merge" =>
            /\ entries'[job[u].from] = entries[job[u].from]
            /\ \A k \in 1 .. job[u].i - 1 : \E m \in Index :
                  /\ entries'[job[u].from][k] # NULL
                  /\ entries'[job[u].to][m] = entries'[job[u].from][k]
      /\ \A u \in Threads : job[u].op = "destroy" => entries'[job[u].from] = entries[job[u].from]
      /\ \A s \in Iobrefs : ref[s] = 0 => entries'[s] = entries[s]
      /\ \A s \in Iobrefs : ref[s] > 0 =>
            \A k, l \in Index : k < l /\ entries'[s][k] = NULL => entries'[s][l] = NULL
  BY <1>1, AddKeeps
<1>6. DestroyInv'
  BY <1>1, <1>5 DEF IInv, DestroyInv
<1>7. PinInv'
  BY <1>1, PinSetLemma DEF IInv, PinInv
<1>8. PackedInv'
  BY <1>1, <1>5 DEF PackedInv
<1>9. MergeInv'
  BY <1>1, <1>5 DEF IInv, MergeInv
<1> QED  BY <1>4, <1>6, <1>7, <1>8, <1>9 DEF IInv

LEMMA MergeStartInv ==
    ASSUME IInv, NEW t \in Threads, NEW to \in Iobrefs, NEW from \in Iobrefs, MergeStart(t, to, from)
    PROVE  IInv'
<1> DEFINE j == [op |-> "merge", to |-> to, from |-> from, i |-> 1, ret |-> 0]
<1>1. /\ job[t] = Idle /\ ref[to] > Pinned(to) /\ ref[from] > Pinned(from) /\ lock[from] = NULL
      /\ lock' = [lock EXCEPT ![from] = t] /\ job' = [job EXCEPT ![t] = j]
      /\ UNCHANGED <<ref, entries, bufref, own>>
  BY DEF MergeStart, Free
<1>2. TypeOK /\ \A b \in Iobufs : bufref[b] = own[b] + Cardinality(SlotsOf(entries, b))
  BY Accounting DEF IInv
<1>3. /\ j \in Job /\ j.op = "merge" /\ j.to = to /\ j.from = from /\ j.i = 1
      /\ 1 \in 1 .. Slots + 1
  <2>1. 1 \in 0 .. Slots + 1 /\ 1 \in 1 .. Slots + 1
    BY SlotsAssumption
  <2> QED  BY <2>1 DEF Job
<1> HIDE DEF j
<1>4. job'[t] = j /\ \A u \in Threads : u # t => job'[u] = job[u]
  BY <1>1, <1>2 DEF TypeOK
<1>5. lock'[from] = t /\ \A s \in Iobrefs : s # from => lock'[s] = lock[s]
  BY <1>1, <1>2 DEF TypeOK
<1>6. BufrefsAccounted'
  <2>1. job' \in [Threads -> Job] /\ lock' \in [Iobrefs -> Threads \cup {NULL}]
    BY <1>1, <1>2, <1>3 DEF TypeOK
  <2>2. TypeOK'
    BY <2>1, <1>1, <1>2 DEF TypeOK
  <2> QED  BY <2>2, <1>1, <1>2, Accounting
<1>7. DestroyInv'
  <2>1. \A u \in Threads : job'[u].op = "destroy" <=> job[u].op = "destroy"
    BY <1>1, <1>3, <1>4, IdleLemma
  <2>2. \A u \in Threads : job[u].op = "destroy" => job'[u] = job[u]
    BY <1>1, <1>4, IdleLemma
  <2> QED  BY <2>1, <2>2, <1>1 DEF IInv, DestroyInv
<1>8. PinInv'
  <2> SUFFICES ASSUME NEW s \in Iobrefs PROVE Pinned(s)' <= ref'[s]
    BY DEF PinInv
  <2>1. /\ Pinned(s) = Cardinality(PinSet(job, s)) /\ Pinned(s)' = Cardinality(PinSet(job', s))
        /\ IsFiniteSet(PinSet(job, s)) /\ Pinned(s) \in Nat /\ Pinned(s)' \in Nat
        /\ ref[s] \in Nat /\ Pinned(s) <= ref[s]
    BY <1>2, PinSetLemma DEF IInv, PinInv, TypeOK
  <2>2. CASE s \in {to, from}
    <3>1. PinSet(job', s) = PinSet(job, s) \cup {t}
      BY <2>2, <1>3, <1>4 DEF PinSet
    <3>2. t \notin PinSet(job, s)
      BY <1>1, IdleLemma DEF PinSet
    <3>3. Pinned(s)' = Pinned(s) + 1
      BY <2>1, <3>1, <3>2, FS_AddElement
    <3>4. ref[s] > Pinned(s) /\ ref'[s] = ref[s]
      BY <2>2, <1>1
    <3> QED  BY <2>1, <3>3, <3>4
  <2>3. CASE s \notin {to, from}
    <3>1. PinSet(job', s) = PinSet(job, s)
      BY <2>3, <1>1, <1>3, <1>4, IdleLemma DEF PinSet
    <3> QED  BY <2>1, <3>1, <1>1
  <2> QED  BY <2>2, <2>3
<1>9. PackedInv'
  BY <1>1 DEF IInv, PackedInv
<1>10. MergeInv'
  <2> SUFFICES ASSUME NEW u \in Threads, job'[u].op = "merge"
               PROVE  /\ job'[u].to \in Iobrefs /\ job'[u].from \in Iobrefs
                      /\ lock'[job'[u].from] = u
                      /\ job'[u].i \in 1 .. Slots + 1
                      /\ \A k \in 1 .. job'[u].i - 1 : \E m \in Index :
                            /\ entries[job'[u].from][k] # NULL
                            /\ entries[job'[u].to][m] = entries[job'[u].from][k]
    BY <1>1 DEF MergeInv
  <2>1. CASE u = t
    <3>1. 1 .. job'[u].i - 1 = {}
      BY <2>1, <1>3, <1>4
    <3> QED  BY <2>1, <3>1, <1>3, <1>4, <1>5
  <2>2. CASE u # t
    <3>1. job'[u] = job[u] /\ job[u].op = "merge"
      BY <2>2, <1>4
    <3>2. job[u].from \in Iobrefs /\ lock[job[u].from] = u
      BY <3>1 DEF IInv, MergeInv
    <3>3. job[u].from # from
      BY <3>2, <1>1, NullAssumption
    <3>4. lock'[job[u].from] = u
      BY <3>2, <3>3, <1>5
    <3> QED  BY <3>1, <3>4 DEF IInv, MergeInv
  <2> QED  BY <2>1, <2>2
<1> QED  BY <1>6, <1>7, <1>8, <1>9, <1>10 DEF IInv

LEMMA MergeStepInv ==
    ASSUME IInv, NEW t \in Threads, MergeStep(t)
    PROVE  IInv'
<1> DEFINE j == job[t]
           b == entries[j.from][j.i]
           n == IF Empty(j.to) = {} THEN [j EXCEPT !.ret = -1] ELSE [j EXCEPT !.i = j.i + 1]
<1>1. /\ j.op = "merge" /\ j.i <= Slots /\ b # NULL /\ lock[j.to] = NULL
      /\ Add(j.to, b) /\ job' = [job EXCEPT ![t] = n]
      /\ UNCHANGED <<ref, own, lock>>
  BY DEF MergeStep, More, Free
<1>2. TypeOK
  BY Accounting DEF IInv
<1>3. /\ j.to \in Iobrefs /\ j.from \in Iobrefs /\ lock[j.from] = t /\ j.i \in 1 .. Slots + 1
      /\ \A k \in 1 .. j.i - 1 : \E m \in Index :
            entries[j.from][k] # NULL /\ entries[j.to][m] = entries[j.from][k]
  BY <1>1 DEF IInv, MergeInv
<1>4. j.i \in Index /\ b \in Iobufs /\ ref[j.to] > 0 /\ ref[j.from] > 0 /\ j \in Job
  <2>1. j.i \in Index
    BY <1>1, <1>3, SlotsAssumption DEF Index
  <2>2. b \in Iobufs
    BY <2>1, <1>1, <1>2, <1>3 DEF TypeOK
  <2>3. ref[j.to] > 0 /\ ref[j.from] > 0
    BY <1>1, MergePins
  <2>4. j \in Job
    BY <1>2 DEF TypeOK
  <2> QED  BY <2>1, <2>2, <2>3, <2>4
<1>5. /\ n \in Job /\ n.op = "merge" /\ n.to = j.to /\ n.from = j.from
      /\ n.i = IF Empty(j.to) = {} THEN j.i ELSE j.i + 1
      /\ n.i \in 1 .. Slots + 1
  <2>1. j.i + 1 \in 0 .. Slots + 1 /\ j.i + 1 \in 1 .. Slots + 1
    BY <1>1, <1>3, SlotsAssumption
  <2>2. CASE Empty(j.to) = {}
    <3>1. n = [j EXCEPT !.ret = -1]
      BY <2>2
    <3> HIDE DEF n
    <3>2. n \in Job /\ n.op = j.op /\ n.to = j.to /\ n.from = j.from /\ n.i = j.i
      BY <3>1, <1>4 DEF Job
    <3> QED  BY <3>2, <2>2, <1>1, <1>3
  <2>3. CASE Empty(j.to) # {}
    <3>1. n = [j EXCEPT !.i = j.i + 1]
      BY <2>3
    <3> HIDE DEF n
    <3>2. n \in Job /\ n.op = j.op /\ n.to = j.to /\ n.from = j.from /\ n.i = j.i + 1
      BY <3>1, <2>1, <1>4 DEF Job
    <3> QED  BY <3>2, <2>1, <2>3, <1>1, <1>3
  <2> QED  BY <2>2, <2>3
<1> HIDE DEF n, b
<1>6. job'[t] = n /\ (\A u \in Threads : u # t => job'[u] = job[u]) /\ job' \in [Threads -> Job]
  BY <1>1, <1>2, <1>5 DEF TypeOK
<1>7. /\ entries' \in Entries /\ bufref' \in [Iobufs -> Nat]
      /\ \A x \in Iobufs : bufref'[x] = own'[x] + Cardinality(SlotsOf(entries', x))
      /\ Empty(j.to) # {} => \E m \in Index : entries'[j.to][m] = b
  BY <1>1, <1>3, <1>4, AddLemma
<1>8. BufrefsAccounted'
  <2>1. TypeOK'
    BY <1>1, <1>2, <1>6, <1>7 DEF TypeOK, Entries
  <2> QED  BY <2>1, <1>7, Accounting
<1>9. /\ \A u \in Threads : job[u].op = "merge" =>
            /\ entries'[job[u].from] = entries[job[u].from]
            /\ \A k \in 1 .. job[u].i - 1 : \E m \in Index :
                  /\ entries'[job[u].from][k] # NULL
                  /\ entries'[job[u].to][m] = entries'[job[u].from][k]
      /\ \A u \in Threads : job[u].op = "destroy" => entries'[job[u].from] = entries[job[u].from]
      /\ \A s \in Iobrefs : ref[s] = 0 => entries'[s] = entries[s]
      /\ \A s \in Iobrefs : ref[s] > 0 =>
            \A k, l \in Index : k < l /\ entries'[s][k] = NULL => entries'[s][l] = NULL
  BY <1>1, <1>3, <1>4, AddKeeps
<1>10. DestroyInv'
  <2>1. \A u \in Threads : job'[u].op = "destroy" <=> job[u].op = "destroy"
    BY <1>1, <1>5, <1>6
  <2>2. \A u \in Threads : job[u].op = "destroy" => job'[u] = job[u]
    BY <1>1, <1>6
  <2> QED  BY <2>1, <2>2, <1>1, <1>9 DEF IInv, DestroyInv
<1>11. PinInv'
  <2> SUFFICES ASSUME NEW s \in Iobrefs PROVE Pinned(s)' <= ref'[s]
    BY DEF PinInv
  <2>1. PinSet(job', s) = PinSet(job, s)
    BY <1>1, <1>5, <1>6 DEF PinSet
  <2>2. Pinned(s)' = Pinned(s) /\ Pinned(s) <= ref[s]
    BY <2>1, PinSetLemma DEF IInv, PinInv
  <2> QED  BY <2>2, <1>1
<1>12. PackedInv'
  BY <1>1, <1>9 DEF PackedInv
<1>13. MergeInv'
  <2> SUFFICES ASSUME NEW u \in Threads, job'[u].op = "merge"
               PROVE  /\ job'[u].to \in Iobrefs /\ job'[u].from \in Iobrefs
                      /\ lock[job'[u].from] = u
                      /\ job'[u].i \in 1 .. Slots + 1
                      /\ \A k \in 1 .. job'[u].i - 1 : \E m \in Index :
                            /\ entries'[job'[u].from][k] # NULL
                            /\ entries'[job'[u].to][m] = entries'[job'[u].from][k]
    BY <1>1 DEF MergeInv
  <2>1. CASE u # t
    <3>1. job'[u] = job[u] /\ job[u].op = "merge"
      BY <2>1, <1>6
    <3> QED  BY <3>1, <1>9 DEF IInv, MergeInv
  <2>2. CASE u = t
    <3>1. job'[u].to = j.to /\ job'[u].from = j.from /\ job'[u].i = n.i /\ n.i \in 1 .. Slots + 1
      BY <2>2, <1>5, <1>6
    <3>2. entries'[j.from] = entries[j.from]
      BY <1>1, <1>9
    <3>3. ASSUME NEW k \in 1 .. n.i - 1
          PROVE  \E m \in Index : entries'[j.from][k] # NULL /\ entries'[j.to][m] = entries'[j.from][k]
      <4>1. k \in 1 .. j.i - 1 \/ (k = j.i /\ Empty(j.to) # {})
        BY <1>3, <1>5
      <4>2. CASE k \in 1 .. j.i - 1
        BY <4>2, <1>1, <1>9
      <4>3. CASE k = j.i /\ Empty(j.to) # {}
        <5>1. entries'[j.from][k] = b /\ b # NULL
          BY <4>3, <3>2, <1>1 DEF b
        <5> QED  BY <5>1, <4>3, <1>7
      <4> QED  BY <4>1, <4>2, <4>3
    <3> QED  BY <2>2, <3>1, <3>3, <1>3
  <2> QED  BY <2>1, <2>2
<1> QED  BY <1>8, <1>10, <1>11, <1>12, <1>13 DEF IInv

LEMMA MergeEndInv ==
    ASSUME IInv, NEW t \in Threads, MergeEnd(t)
    PROVE  IInv'
<1> DEFINE from == job[t].from
<1>1. /\ job[t].op = "merge"
      /\ lock' = [lock EXCEPT ![from] = NULL] /\ job' = [job EXCEPT ![t] = Idle]
      /\ UNCHANGED <<ref, entries, bufref, own>>
  BY DEF MergeEnd
<1>2. TypeOK /\ \A b \in Iobufs : bufref[b] = own[b] + Cardinality(SlotsOf(entries, b))
  BY Accounting DEF IInv
<1>3. from \in Iobrefs /\ lock[from] = t
  BY <1>1 DEF IInv, MergeInv
<1> HIDE DEF from
<1>4. job'[t] = Idle /\ \A u \in Threads : u # t => job'[u] = job[u]
  BY <1>1, <1>2 DEF TypeOK
<1>5. \A s \in Iobrefs : s # from => lock'[s] = lock[s]
  BY <1>1, <1>2 DEF TypeOK
<1>6. BufrefsAccounted'
  <2>1. job' \in [Threads -> Job] /\ lock' \in [Iobrefs -> Threads \cup {NULL}]
    BY <1>1, <1>2, IdleLemma DEF TypeOK
  <2>2. TypeOK'
    BY <2>1, <1>1, <1>2 DEF TypeOK
  <2> QED  BY <2>2, <1>1, <1>2, Accounting
<1>7. DestroyInv'
  <2>1. \A u \in Threads : job'[u].op = "destroy" <=> job[u].op = "destroy"
    BY <1>1, <1>4, IdleLemma
  <2>2. \A u \in Threads : job[u].op = "destroy" => job'[u] = job[u]
    BY <1>1, <1>4
  <2> QED  BY <2>1, <2>2, <1>1 DEF IInv, DestroyInv
<1>8. PinInv'
  <2> SUFFICES ASSUME NEW s \in Iobrefs PROVE Pinned(s)' <= ref'[s]
    BY DEF PinInv
  <2>1. PinSet(job', s) \in SUBSET PinSet(job, s)
    BY <1>4, IdleLemma DEF PinSet
  <2>2. /\ Pinned(s) = Cardinality(PinSet(job, s)) /\ Pinned(s)' = Cardinality(PinSet(job', s))
        /\ IsFiniteSet(PinSet(job, s)) /\ Pinned(s) \in Nat /\ Pinned(s)' \in Nat
        /\ ref[s] \in Nat /\ Pinned(s) <= ref[s]
    BY <1>2, PinSetLemma DEF IInv, PinInv, TypeOK
  <2>3. Pinned(s)' <= Pinned(s)
    BY <2>1, <2>2, FS_Subset
  <2> QED  BY <2>2, <2>3, <1>1
<1>9. PackedInv'
  BY <1>1 DEF IInv, PackedInv
<1>10. MergeInv'
  <2>1. ASSUME NEW u \in Threads, job'[u].op = "merge"
        PROVE  job'[u] = job[u] /\ job[u].op = "merge" /\ lock'[job[u].from] = u
    <3>1. u # t /\ job'[u] = job[u] /\ job[u].op = "merge"
      BY <2>1, <1>4, IdleLemma
    <3>2. job[u].from \in Iobrefs /\ lock[job[u].from] = u
      BY <3>1 DEF IInv, MergeInv
    <3> QED  BY <3>1, <3>2, <1>3, <1>5
  <2> QED  BY <2>1, <1>1 DEF IInv, MergeInv
<1> QED  BY <1>6, <1>7, <1>8, <1>9, <1>10 DEF IInv

\* The clients' own references.
LEMMA ClientInv ==
    ASSUME IInv, NEW b \in Iobufs, Acquire(b) \/ Release(b)
    PROVE  IInv'
<1>1. UNCHANGED <<ref, entries, lock, job>>
  BY DEF Acquire, Release
<1>2. TypeOK /\ \A x \in Iobufs : bufref[x] = own[x] + Cardinality(SlotsOf(entries, x))
  BY Accounting DEF IInv
<1>3. ASSUME NEW x \in Iobufs
      PROVE  /\ bufref'[x] \in Nat /\ own'[x] \in Nat
             /\ bufref'[x] = own'[x] + Cardinality(SlotsOf(entries', x))
  <2> DEFINE C == Cardinality(SlotsOf(entries, x))
  <2>1. C \in Nat /\ own[x] \in Nat /\ bufref[x] \in Nat /\ bufref[x] = own[x] + C
    BY <1>2, SlotsFinite DEF TypeOK
  <2>2. C = Cardinality(SlotsOf(entries', x))
    BY <1>1
  <2>3. CASE x # b
    <3>1. bufref'[x] = bufref[x] /\ own'[x] = own[x]
      BY <2>3, <1>2 DEF Acquire, Release, TypeOK
    <3> QED  BY <3>1, <2>1, <2>2
  <2>4. CASE x = b
    <3>1. \/ bufref'[x] = bufref[x] + 1 /\ own'[x] = own[x] + 1
          \/ bufref'[x] = bufref[x] - 1 /\ own'[x] = own[x] - 1 /\ own[x] > 0
      BY <2>4, <1>2 DEF Acquire, Release, TypeOK
    <3> HIDE DEF C
    <3>2. bufref'[x] \in Nat /\ own'[x] \in Nat /\ bufref'[x] = own'[x] + C
      BY <3>1, <2>1
    <3> QED  BY <3>2, <2>2
  <2> QED  BY <2>3, <2>4
<1>4. TypeOK'
  <2>1. /\ bufref' = [x \in Iobufs |-> bufref'[x]] /\ own' = [x \in Iobufs |-> own'[x]]
    BY <1>2 DEF Acquire, Release, TypeOK
  <2>2. bufref' \in [Iobufs -> Nat] /\ own' \in [Iobufs -> Nat]
    BY <2>1, <1>3
  <2> QED  BY <2>2, <1>1, <1>2 DEF TypeOK
<1>5. BufrefsAccounted'
  BY <1>3, <1>4, Accounting
<1>6. DestroyInv' /\ PackedInv' /\ MergeInv'
  BY <1>1 DEF IInv, DestroyInv, PackedInv, MergeInv
<1>7. PinInv'
  BY <1>1, PinSetLemma DEF IInv, PinInv
<1> QED  BY <1>5, <1>6, <1>7 DEF IInv

-----------------------------------------------------------------------------
(* The theorems *)

LEMMA InitInv == Init => IInv
<1> SUFFICES ASSUME Init PROVE IInv
  OBVIOUS
<1>1. /\ ref = [r \in Iobrefs |-> 0] /\ entries = [r \in Iobrefs |-> [i \in Index |-> NULL]]
      /\ bufref = [b \in Iobufs |-> 0] /\ own = [b \in Iobufs |-> 0]
      /\ lock = [r \in Iobrefs |-> NULL] /\ job = [t \in Threads |-> Idle]
  BY DEF Init
<1>2. TypeOK
  BY <1>1, IdleLemma DEF TypeOK
<1>3. ASSUME NEW b \in Iobufs PROVE bufref[b] = own[b] + Cardinality(SlotsOf(entries, b))
  <2>1. SlotsOf(entries, b) = {}
    BY <1>1, NullAssumption DEF SlotsOf
  <2>2. Cardinality(SlotsOf(entries, b)) = 0
    BY <2>1, FS_EmptySet
  <2> QED  BY <2>2, <1>1
<1>4. \A t \in Threads : job[t].op = "idle"
  BY <1>1, IdleLemma
<1>5. DestroyInv /\ MergeInv /\ PackedInv
  BY <1>1, <1>4 DEF DestroyInv, MergeInv, PackedInv
<1>6. ASSUME NEW r \in Iobrefs PROVE Pinned(r) <= ref[r]
  <2>1. PinSet(job, r) = {}
    BY <1>4 DEF PinSet
  <2>2. Pinned(r) = 0
    BY <2>1, PinSetLemma, FS_EmptySet
  <2> QED  BY <2>2, <1>1
<1> QED  BY <1>2, <1>3, <1>5, <1>6, Accounting DEF IInv, PinInv

LEMMA NextInv == IInv /\ [Next]_vars => IInv'
<1> SUFFICES ASSUME IInv, [Next]_vars PROVE IInv'
  OBVIOUS
<1>1. ASSUME NEW t \in Threads, NEW r \in Iobrefs, iobref_new(t, r) \/ iobref_ref(t, r) \/ iobref_unref(t, r)
      PROVE  IInv'
  BY <1>1, NewInv, RefInv, UnrefInv
<1>2. ASSUME NEW t \in Threads, NEW r \in Iobrefs, NEW b \in Iobufs, iobref_add(t, r, b) PROVE IInv'
  BY <1>2, AddInv
<1>3. ASSUME NEW t \in Threads, NEW to \in Iobrefs, NEW from \in Iobrefs, MergeStart(t, to, from)
      PROVE  IInv'
  BY <1>3, MergeStartInv
<1>4. ASSUME NEW t \in Threads, MergeStep(t) \/ MergeEnd(t) \/ DestroySlot(t) PROVE IInv'
  BY <1>4, MergeStepInv, MergeEndInv, DestroySlotInv
<1>5. ASSUME NEW b \in Iobufs, Acquire(b) \/ Release(b) PROVE IInv'
  BY <1>5, ClientInv
<1>6. CASE UNCHANGED vars
  <2>1. UNCHANGED <<ref, entries, bufref, own, lock, job>>
    BY <1>6 DEF vars
  <2>2. BufrefsAccounted'
    <3>1. TypeOK /\ \A x \in Iobufs : bufref[x] = own[x] + Cardinality(SlotsOf(entries, x))
      BY Accounting DEF IInv
    <3>2. TypeOK'
      BY <2>1, <3>1 DEF TypeOK
    <3> QED  BY <2>1, <3>1, <3>2, Accounting
  <2>3. DestroyInv' /\ PackedInv' /\ MergeInv'
    BY <2>1 DEF IInv, DestroyInv, PackedInv, MergeInv
  <2>4. PinInv'
    BY <2>1, PinSetLemma DEF IInv, PinInv
  <2> QED  BY <2>2, <2>3, <2>4 DEF IInv
<1> QED  BY <1>1, <1>2, <1>3, <1>4, <1>5, <1>6, Zenon DEF Next, Thread

\* The invariant holds through partial merges and half-done destroys (iobuf.c, the
\* functions of iobref).
THEOREM Invariance == Spec => []IInv
BY InitInv, NextInv, PTL DEF Spec

\* The count of every iobuf is the number of its holders (iobuf.c, __iobref_add,
\* iobref_destroy and iobref_merge).
THEOREM HoldersCounted == Spec => []BufrefsAccounted
<1>1. IInv => BufrefsAccounted
  BY DEF IInv
<1> QED  BY <1>1, Invariance, PTL

\* A merge that ends without an error has copied every slot, because the filled
\* slots of `from' come first and nobody changed them meanwhile.
LEMMA MergeEndCopies ==
    ASSUME IInv, NEW t \in Threads, MergeEnd(t), job[t].ret = 0,
           NEW i \in Index, entries[job[t].from][i] # NULL
    PROVE  \E k \in Index : entries[job[t].to][k] = entries[job[t].from][i]
<1> DEFINE j == job[t]
<1>1. j.op = "merge" /\ (j.i <= Slots => entries[j.from][j.i] = NULL)
  BY DEF MergeEnd, More
<1>2. /\ j.from \in Iobrefs /\ j.i \in 1 .. Slots + 1
      /\ \A k \in 1 .. j.i - 1 : \E m \in Index : entries[j.to][m] = entries[j.from][k]
  BY <1>1 DEF IInv, MergeInv
<1>3. ref[j.from] > 0
  BY <1>1, MergePins
<1>4. i \in 1 .. Slots /\ Slots \in Nat
  BY SlotsAssumption DEF Index
<1>5. i < j.i
  <2> SUFFICES ASSUME ~(i < j.i) PROVE FALSE
    OBVIOUS
  <2>1. j.i \in Index /\ j.i <= Slots /\ (j.i < i \/ j.i = i)
    BY <1>2, <1>4 DEF Index
  <2>2. entries[j.from][j.i] = NULL
    BY <1>1, <2>1
  <2>3. CASE j.i < i
    BY <2>1, <2>2, <2>3, <1>2, <1>3 DEF IInv, PackedInv
  <2> QED  BY <2>1, <2>2, <2>3
<1>6. i \in 1 .. j.i - 1
  BY <1>2, <1>4, <1>5
<1> QED  BY <1>2, <1>6

\* iobref_merge returns 0 only when every iobuf of `from' is in `to' (iobuf.c,
\* iobref_merge).
THEOREM MergeComplete == Spec => MergeCopiesAll
<1> DEFINE A == \A t \in Threads :
                  (job[t].op = "merge" /\ job'[t] = Idle /\ job[t].ret = 0) =>
                      \A i \in Index : entries[job[t].from][i] # NULL =>
                          \E k \in Index : entries[job[t].to][k] = entries[job[t].from][i]
<1>1. IInv /\ [Next]_vars => [A]_vars
  <2> SUFFICES ASSUME IInv, Next, NEW t \in Threads,
                      job[t].op = "merge", job'[t] = Idle, job[t].ret = 0
               PROVE  \A i \in Index : entries[job[t].from][i] # NULL =>
                          \E k \in Index : entries[job[t].to][k] = entries[job[t].from][i]
    OBVIOUS
  <2>1. job \in [Threads -> Job]
    BY DEF IInv, BufrefsAccounted, TypeOK
  <2>2. job'[t] # job[t] /\ job[t] # Idle
    BY IdleLemma
  <2>3. CASE MergeEnd(t)
    BY <2>3, MergeEndCopies
  <2>4. CASE \E b \in Iobufs : Acquire(b) \/ Release(b)
    BY <2>4, <2>2 DEF Acquire, Release
  <2>5. ASSUME NEW u \in Threads, u # t, Thread(u) PROVE FALSE
    <3>1. \E n : job' = [job EXCEPT ![u] = n] \/ job' = job
      BY <2>5, Zenon DEF Thread, iobref_new, iobref_ref, iobref_unref, iobref_add, MergeStart,
                         MergeStep, MergeEnd, DestroySlot
    <3> QED  BY <3>1, <2>1, <2>2, <2>5
  <2>6. CASE MergeStep(t)
    <3>1. PICK n : job' = [job EXCEPT ![t] = n] /\ n \in {[job[t] EXCEPT !.ret = -1],
                                                          [job[t] EXCEPT !.i = job[t].i + 1]}
      BY <2>6 DEF MergeStep
    <3>2. n.op = "merge"
      BY <3>1, <2>1 DEF Job
    <3> QED  BY <3>1, <3>2, <2>1, IdleLemma
  <2>7. ASSUME Thread(t), ~MergeEnd(t), ~MergeStep(t) PROVE FALSE
    BY <2>2, <2>7 DEF Thread, iobref_new, iobref_ref, iobref_unref, iobref_add, MergeStart, DestroySlot
  <2> QED  BY <2>3, <2>4, <2>5, <2>6, <2>7, Zenon DEF Next
<1>2. [][A]_vars => MergeCopiesAll
  BY PTL DEF MergeCopiesAll
<1> QED  BY <1>1, <1>2, Invariance, PTL DEF Spec
=============================================================================
