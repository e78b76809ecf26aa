------------------------------- MODULE Iobref -------------------------------
(***************************************************************************)
(* The iobrefs of iobuf.c: reference-counted sets of up to Slots iobufs,   *)
(* each slot holding one reference on its iobuf.  The pool of IobufPool is *)
(* seen through what it promises (IobufAbs): an iobuf is alive while its   *)
(* reference count is not zero.                                            *)
(*                                                                         *)
(* iobref_merge keeps from->lock while it takes to->lock for every entry,  *)
(* and iobref_destroy gives one slot back after the other, so these two    *)
(* take several steps; the other operations are one critical section.      *)
(***************************************************************************)
EXTENDS Integers, FiniteSets

CONSTANTS
    Iobrefs,     \* iobrefs that CALLOC can return
    Iobufs,      \* iobufs
    Slots,       \* entries of iobref->iobrefs: 8 in the code
    Threads,
    MergePairs,  \* the pairs <<to, from>> that clients merge
    MaxRef,      \* bound: references on one iobref, and own references on one iobuf
    NULL

ASSUME SlotsAssumption == Slots \in Nat \ {0}
ASSUME MaxRefAssumption == MaxRef \in Nat \ {0}
ASSUME NullAssumption == NULL \notin Iobufs /\ NULL \notin Iobrefs /\ NULL \notin Threads
ASSUME FiniteAssumption == IsFiniteSet(Iobrefs) /\ IsFiniteSet(Threads)

Index == 1 .. Slots

VARIABLES
    ref,      \* iobref->ref; 0 when the iobref is not allocated
    entries,  \* iobref->iobrefs
    bufref,   \* iobuf->ref
    own,      \* references on an iobuf that clients hold themselves
    lock,     \* the thread that holds iobref->lock across steps
    job       \* the iobref_merge or iobref_destroy each thread is in

vars == <<ref, entries, bufref, own, lock, job>>

Idle == [op |-> "idle", to |-> NULL, from |-> NULL, i |-> 0, ret |-> 0]

Free(r) == lock[r] = NULL

-----------------------------------------------------------------------------
(* iobref_new, iobref_ref, iobref_unref *)

iobref_new(t, r) ==
    /\ job[t] = Idle
    /\ ref[r] = 0
    /\ \A u \in Threads : job[u].from # r
    /\ ref' = [ref EXCEPT ![r] = 1]
    /\ entries' = [entries EXCEPT ![r] = [i \in Index |-> NULL]]
    /\ UNCHANGED <<bufref, own, lock, job>>

iobref_ref(t, r) ==
    /\ job[t] = Idle
    /\ ref[r] \in 1 .. MaxRef - 1
    /\ Free(r)
    /\ ref' = [ref EXCEPT ![r] = @ + 1]
    /\ UNCHANGED <<entries, bufref, own, lock, job>>

\* A client gives its reference up; a thread inside iobref_merge keeps the
\* references on both iobrefs that it was called with.
Pinned(r) == Cardinality({u \in Threads : job[u].op = "merge" /\ r \in {job[u].to, job[u].from}})

iobref_unref(t, r) ==
    /\ job[t] = Idle
    /\ ref[r] > Pinned(r)
    /\ Free(r)
    /\ ref' = [ref EXCEPT ![r] = @ - 1]
    /\ job' = IF ref[r] = 1
              THEN [job EXCEPT ![t] = [op |-> "destroy", to |-> NULL, from |-> r, i |-> 1, ret |-> 0]]
              ELSE job
    /\ UNCHANGED <<entries, bufref, own, lock>>

\* iobref_destroy: one slot is cleared and its iobuf unreferenced.
DestroySlot(t) ==
    LET r == job[t].from
        i == job[t].i
        b == entries[r][i]
    IN  /\ job[t].op = "destroy"
        /\ entries' = [entries EXCEPT ![r][i] = NULL]
        /\ bufref' = IF b = NULL THEN bufref ELSE [bufref EXCEPT ![b] = @ - 1]
        /\ job' = [job EXCEPT ![t] = IF i = Slots THEN Idle ELSE [job[t] EXCEPT !.i = i + 1]]
        /\ UNCHANGED <<ref, own, lock>>

-----------------------------------------------------------------------------
(* iobref_add and iobref_merge *)

Empty(r) == {i \in Index : entries[r][i] = NULL}

\* Mutant of Add: the slot is filled without a reference.
AddWithoutRef(r, b) ==
    /\ entries' = IF Empty(r) = {} THEN entries
                  ELSE [entries EXCEPT ![r][CHOOSE i \in Empty(r) : \A j \in Empty(r) : i <= j] = b]
    /\ UNCHANGED bufref

\* Mutant of Add: the last empty slot is taken.
AddFillsLast(r, b) ==
    /\ entries' = IF Empty(r) = {} THEN entries
                  ELSE [entries EXCEPT ![r][CHOOSE i \in Empty(r) : \A j \in Empty(r) : i >= j] = b]
    /\ bufref' = IF Empty(r) = {} THEN bufref ELSE [bufref EXCEPT ![b] = @ + 1]

\* __iobref_add: the first empty slot gets the iobuf and a reference of its own;
\* -ENOMEM when there is none.
Add(r, b) ==
    /\ entries' = IF Empty(r) = {} THEN entries
                  ELSE [entries EXCEPT ![r][CHOOSE i \in Empty(r) : \A j \in Empty(r) : i <= j] = b]
    /\ bufref' = IF Empty(r) = {} THEN bufref ELSE [bufref EXCEPT ![b] = @ + 1]

\* iobref_add, by a client that holds the iobuf and the iobref.
iobref_add(t, r, b) ==
    /\ job[t] = Idle
    /\ ref[r] > 0
    /\ own[b] > 0
    /\ Free(r)
    /\ Add(r, b)
    /\ UNCHANGED <<ref, own, lock, job>>

\* iobref_merge takes from->lock.  The caller has a reference on both.
MergeStart(t, to, from) ==
    /\ job[t] = Idle
    /\ <<to, from>> \in MergePairs
    /\ ref[to] > Pinned(to) /\ ref[from] > Pinned(from)
    /\ Free(from)
    /\ lock' = [lock EXCEPT ![from] = t]
    /\ job' = [job EXCEPT ![t] = [op |-> "merge", to |-> to, from |-> from, i |-> 1, ret |-> 0]]
    /\ UNCHANGED <<ref, entries, bufref, own>>

\* The loop goes on: not after the last slot, an empty slot of `from' or -ENOMEM.
More(j) == j.i <= Slots /\ entries[j.from][j.i] # NULL /\ j.ret = 0

\* One turn of the loop: iobref_add (to, from->iobrefs[i]) takes and releases
\* to->lock.  A full `to' ends the loop with what was added so far left there.
MergeStep(t) ==
    LET j == job[t]
        full == Empty(j.to) = {}
    IN  /\ j.op = "merge"
        /\ More(j)
        /\ Free(j.to)
        /\ Add(j.to, entries[j.from][j.i])
        /\ job' = [job EXCEPT ![t] = IF full THEN [j EXCEPT !.ret = -1] ELSE [j EXCEPT !.i = j.i + 1]]
        /\ UNCHANGED <<ref, own, lock>>

\* The loop ends and from->lock is released.
MergeEnd(t) ==
    LET j == job[t] IN
    /\ j.op = "merge"
    /\ ~More(j)
    /\ lock' = [lock EXCEPT ![j.from] = NULL]
    /\ job' = [job EXCEPT ![t] = Idle]
    /\ UNCHANGED <<ref, entries, bufref, own>>

-----------------------------------------------------------------------------
(* The clients' own references on iobufs: iobuf_get, iobuf_ref, iobuf_unref *)

Acquire(b) ==
    /\ own[b] < MaxRef
    /\ own[b] > 0 \/ bufref[b] = 0
    /\ own' = [own EXCEPT ![b] = @ + 1]
    /\ bufref' = [bufref EXCEPT ![b] = @ + 1]
    /\ UNCHANGED <<ref, entries, lock, job>>

Release(b) ==
    /\ own[b] > 0
    /\ own' = [own EXCEPT ![b] = @ - 1]
    /\ bufref' = [bufref EXCEPT ![b] = @ - 1]
    /\ UNCHANGED <<ref, entries, lock, job>>

Init ==
    /\ ref = [r \in Iobrefs |-> 0]
    /\ entries = [r \in Iobrefs |-> [i \in Index |-> NULL]]
    /\ bufref = [b \in Iobufs |-> 0]
    /\ own = [b \in Iobufs |-> 0]
    /\ lock = [r \in Iobrefs |-> NULL]
    /\ job = [t \in Threads |-> Idle]

Thread(t) ==
    \/ \E r \in Iobrefs : iobref_new(t, r) \/ iobref_ref(t, r) \/ iobref_unref(t, r)
    \/ \E r \in Iobrefs, b \in Iobufs : iobref_add(t, r, b)
    \/ \E to, from \in Iobrefs : MergeStart(t, to, from)
    \/ MergeStep(t)
    \/ MergeEnd(t)
    \/ DestroySlot(t)

Next ==
    \/ \E t \in Threads : Thread(t)
    \/ \E b \in Iobufs : Acquire(b) \/ Release(b)

Spec == Init /\ [][Next]_vars

-----------------------------------------------------------------------------
(* Properties *)

Job == [op : {"idle", "merge", "destroy"}, to : Iobrefs \cup {NULL},
        from : Iobrefs \cup {NULL}, i : 0 .. Slots + 1, ret : {0, -1}]

\* Types; no count of iobref_unref or iobuf_unref goes below zero.
TypeOK ==
    /\ ref \in [Iobrefs -> Nat]
    /\ entries \in [Iobrefs -> [Index -> Iobufs \cup {NULL}]]
    /\ bufref \in [Iobufs -> Nat]
    /\ own \in [Iobufs -> Nat]
    /\ lock \in [Iobrefs -> Threads \cup {NULL}]
    /\ job \in [Threads -> Job]

Holding(b) == {x \in Iobrefs \X Index : entries[x[1]][x[2]] = b}

\* The count of an iobuf is the number of its holders: the clients and the slots
\* of all iobrefs, through partial merges and half-done destroys.  A slot never
\* holds an iobuf that is back in its pool, and none stays out for ever.
BufrefsAccounted ==
    /\ TypeOK
    /\ \A b \in Iobufs : bufref[b] = own[b] + Cardinality(Holding(b))

\* iobref_merge returns 0 only when every iobuf of `from' is also in `to', although
\* its loop stops at the first empty slot and other threads add to both meanwhile.
MergeCopiesAll ==
    [][\A t \in Threads :
          (job[t].op = "merge" /\ job'[t] = Idle /\ job[t].ret = 0) =>
              \A i \in Index : entries[job[t].from][i] # NULL =>
                  \E k \in Index : entries[job[t].to][k] = entries[job[t].from][i]]_vars
=============================================================================
