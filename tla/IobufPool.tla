----------------------------- MODULE IobufPool -----------------------------
(***************************************************************************)
(* The pool of reference-counted I/O buffers of iobuf.c.                   *)
(*                                                                         *)
(* A pool owns arenas; an arena is one mmapped region split into IobufCnt  *)
(* iobufs.  Every arena is on one of three lists of the pool: `arenas'     *)
(* (some iobuf is passive), `filled' (none is) and `purge' (none is        *)
(* active).  Threads get, reference and unreference iobufs.                *)
(*                                                                         *)
(* A critical section under iobuf_pool->mutex or iobuf->lock never blocks  *)
(* inside, so each is one atomic step.  The last iobuf_unref takes three   *)
(* of them: the decrement under iobuf->lock, __iobuf_put under the mutex   *)
(* and __iobuf_pool_prune under the mutex taken again; other threads run   *)
(* in between.                                                             *)
(***************************************************************************)
EXTENDS LinkedList, Integers

CONSTANTS
    Arenas,    \* addresses CALLOC can return for a struct iobuf_arena
    IobufCnt,  \* arena_size / page_size
    Threads,   \* threads that use the pool
    MaxRef,    \* bound: references taken on one iobuf
    NoBuf      \* no iobuf

ASSUME IobufCntAssumption == IobufCnt \in Nat \ {0}
ASSUME MaxRefAssumption == MaxRef \in Nat \ {0}
ASSUME NoBufAssumption == NoBuf \notin Arenas \X (1 .. IobufCnt)

Slots == 1 .. IobufCnt
Iobufs == Arenas \X Slots
ListNames == {"arenas", "filled", "purge"}

VARIABLES
    lists,      \* iobuf_pool->arenas, ->filled and ->purge
    arena_cnt,  \* iobuf_pool->arena_cnt
    live,       \* the arenas that are allocated and mapped
    arena,      \* the contents of each struct iobuf_arena and its iobufs
    owned,      \* references that client code owns on each iobuf
    pc,         \* where each thread is inside iobuf_unref
    buf,        \* the iobuf a thread is about to put
    aborted     \* an assert of __iobuf_arena_destroy_iobufs has failed

vars == <<lists, arena_cnt, live, arena, owned, pc, buf, aborted>>

-----------------------------------------------------------------------------
(* One arena *)

ArenaType == [active : Seq(Slots), active_cnt : 0 .. IobufCnt, passive : Seq(Slots),
              passive_cnt : 0 .. IobufCnt, ref : [Slots -> Nat]]

\* __iobuf_arena_alloc and __iobuf_arena_init_iobufs: all iobufs passive, each
\* added at the head of the passive list.
FreshArena == [active      |-> <<>>,
               active_cnt  |-> 0,
               passive     |-> [i \in 1 .. IobufCnt |-> IobufCnt + 1 - i],
               passive_cnt |-> IobufCnt,
               ref         |-> [i \in Slots |-> 0]]

\* Mutant of ArenaGet: the iobuf is linked to `active' without being unlinked.
ArenaGetKeepsPassive(r) ==
    LET i == Head(r.passive) IN
    [active      |-> list_add(i, list_del(i, r.active)),
     active_cnt  |-> r.active_cnt + 1,
     passive     |-> r.passive,
     passive_cnt |-> r.passive_cnt - 1,
     ref         |-> [r.ref EXCEPT ![i] = @ + 1]]

\* __iobuf_get on the arena, followed by the __iobuf_ref of iobuf_get.
ArenaGet(r) ==
    LET i == Head(r.passive) IN
    [active      |-> list_add(i, r.active),
     active_cnt  |-> r.active_cnt + 1,
     passive     |-> list_del(i, r.passive),
     passive_cnt |-> r.passive_cnt - 1,
     ref         |-> [r.ref EXCEPT ![i] = @ + 1]]

\* The part of __iobuf_put that moves an iobuf to the passive list.
ArenaPut(r, i) ==
    [active      |-> list_del(i, r.active),
     active_cnt  |-> r.active_cnt - 1,
     passive     |-> list_add(i, list_del(i, r.passive)),
     passive_cnt |-> r.passive_cnt + 1,
     ref         |-> r.ref]

\* iobuf->ref changes by d.
ArenaRef(r, i, d) == [r EXCEPT !.ref[i] = @ + d]

-----------------------------------------------------------------------------
(* The lists of the pool *)

\* list_del of the arena, then list_add or list_add_tail to list k.
MoveHead(a, k, L) ==
    [j \in ListNames |-> IF j = k THEN list_add(a, list_del(a, L[j])) ELSE list_del(a, L[j])]

MoveTail(a, k, L) ==
    [j \in ListNames |-> IF j = k THEN list_add_tail(a, list_del(a, L[j]))
                                  ELSE list_del(a, L[j])]

\* __iobuf_select_arena: the head-most arena with a passive iobuf.
Selectable == {i \in DOMAIN lists["arenas"] : arena[lists["arenas"][i]].passive_cnt # 0}
HeadMost(i) == i \in Selectable /\ \A j \in Selectable : i <= j

-----------------------------------------------------------------------------
(* iobuf_get *)

\* __iobuf_get on arena a, whose contents are r, when the lists are L.
TakeFrom(a, r, L) ==
    LET i == Head(r.passive)
        r2 == ArenaGet(r)
    IN  /\ arena' = [arena EXCEPT ![a] = r2]
        /\ lists' = IF r2.passive_cnt = 0 THEN MoveHead(a, "filled", L) ELSE L
        /\ owned' = [owned EXCEPT ![<<a, i>>] = @ + 1]
        /\ UNCHANGED <<pc, buf, aborted>>

\* iobuf_get finds an arena with a passive iobuf.
GetSelected(t) ==
    /\ pc[t] = "idle"
    /\ \E i \in Selectable :
          /\ HeadMost(i)
          /\ TakeFrom(lists["arenas"][i], arena[lists["arenas"][i]], lists)
    /\ UNCHANGED <<arena_cnt, live>>

\* All arenas are full: __iobuf_pool_add_arena takes the first purgeable arena
\* back (__iobuf_arena_unprune).
GetUnpruned(t) ==
    /\ pc[t] = "idle"
    /\ Selectable = {}
    /\ ~list_empty(lists["purge"])
    /\ LET a == Head(lists["purge"])
       IN  TakeFrom(a, arena[a], MoveTail(a, "arenas", lists))
    /\ UNCHANGED <<arena_cnt, live>>

\* All arenas are full and none is purgeable: __iobuf_arena_alloc maps a new one.
GetAllocated(t) ==
    /\ pc[t] = "idle"
    /\ Selectable = {}
    /\ list_empty(lists["purge"])
    /\ \E a \in Arenas \ live :
          /\ TakeFrom(a, FreshArena, MoveTail(a, "arenas", lists))
          /\ live' = live \cup {a}
    /\ arena_cnt' = arena_cnt + 1

\* The allocation fails (CALLOC or mmap): __iobuf_arena_alloc undoes what it did
\* and iobuf_get returns NULL.
GetFails(t) ==
    /\ pc[t] = "idle"
    /\ Selectable = {}
    /\ list_empty(lists["purge"])
    /\ UNCHANGED vars

-----------------------------------------------------------------------------
(* References *)

\* iobuf_ref, by a thread that already owns a reference.
iobuf_ref(t, b) ==
    /\ pc[t] = "idle"
    /\ owned[b] \in 1 .. MaxRef - 1
    /\ arena' = [arena EXCEPT ![b[1]] = ArenaRef(@, b[2], 1)]
    /\ owned' = [owned EXCEPT ![b] = @ + 1]
    /\ UNCHANGED <<lists, arena_cnt, live, pc, buf, aborted>>

\* Mutants of iobuf_unref: it puts the iobuf while one reference is left; it
\* tests a value read after a second decrement and never puts.
UnrefPutsEarly(t, b) ==
    LET ref == arena[b[1]].ref[b[2]] - 1 IN
    /\ pc[t] = "idle"
    /\ owned[b] > 0
    /\ arena' = [arena EXCEPT ![b[1]] = ArenaRef(@, b[2], -1)]
    /\ owned' = [owned EXCEPT ![b] = @ - 1]
    /\ pc' = [pc EXCEPT ![t] = IF ref <= 1 THEN "put" ELSE "idle"]
    /\ buf' = [buf EXCEPT ![t] = IF ref <= 1 THEN b ELSE NoBuf]
    /\ UNCHANGED <<lists, arena_cnt, live, aborted>>

UnrefNeverPuts(t, b) ==
    /\ pc[t] = "idle"
    /\ owned[b] > 0
    /\ arena' = [arena EXCEPT ![b[1]] = ArenaRef(@, b[2], -1)]
    /\ owned' = [owned EXCEPT ![b] = @ - 1]
    /\ UNCHANGED <<lists, arena_cnt, live, pc, buf, aborted>>

\* The first critical section of iobuf_unref.  `ref' is the value the thread
\* saw under the lock; only the thread that saw 0 goes on to iobuf_put.
iobuf_unref(t, b) ==
    LET ref == arena[b[1]].ref[b[2]] - 1 IN
    /\ pc[t] = "idle"
    /\ owned[b] > 0
    /\ arena' = [arena EXCEPT ![b[1]] = ArenaRef(@, b[2], -1)]
    /\ owned' = [owned EXCEPT ![b] = @ - 1]
    /\ pc' = [pc EXCEPT ![t] = IF ref = 0 THEN "put" ELSE "idle"]
    /\ buf' = [buf EXCEPT ![t] = IF ref = 0 THEN b ELSE NoBuf]
    /\ UNCHANGED <<lists, arena_cnt, live, aborted>>

\* Mutant of iobuf_put: an arena stays on `filled' when it gets an iobuf back.
PutKeepsFilled(t) ==
    LET a  == buf[t][1]
        r2 == ArenaPut(arena[a], buf[t][2])
    IN  /\ pc[t] = "put"
        /\ arena' = [arena EXCEPT ![a] = r2]
        /\ lists' = IF r2.active_cnt = 0 THEN MoveTail(a, "purge", lists) ELSE lists
        /\ pc' = [pc EXCEPT ![t] = "prune"]
        /\ buf' = [buf EXCEPT ![t] = NoBuf]
        /\ UNCHANGED <<arena_cnt, live, owned, aborted>>

\* iobuf_put: __iobuf_put under the pool's mutex.
iobuf_put(t) ==
    LET a  == buf[t][1]
        r  == arena[a]
        r2 == ArenaPut(r, buf[t][2])
        L  == IF r.passive_cnt = 0 THEN MoveTail(a, "arenas", lists) ELSE lists
    IN  /\ pc[t] = "put"
        /\ arena' = [arena EXCEPT ![a] = r2]
        /\ lists' = IF r2.active_cnt = 0 THEN MoveTail(a, "purge", L) ELSE L
        /\ pc' = [pc EXCEPT ![t] = "prune"]
        /\ buf' = [buf EXCEPT ![t] = NoBuf]
        /\ UNCHANGED <<arena_cnt, live, owned, aborted>>

-----------------------------------------------------------------------------
(* Giving arenas back to the operating system *)

\* __iobuf_arena_destroy of the arenas D, with the assert on every iobuf's ref.
Destroy(D) ==
    /\ live' = live \ D
    /\ aborted' = (aborted \/ \E a \in D : \E i \in Slots : arena[a].ref[i] # 0)

\* The purgeable arenas that are idle.
Idle == {a \in Entries(lists["purge"]) : arena[a].active_cnt = 0}

\* iobuf_pool_prune: unmap the idle arenas of the purge list, unless `arenas'
\* is empty.
iobuf_pool_prune(t) ==
    /\ pc[t] = "prune"
    /\ IF list_empty(lists["arenas"])
       THEN UNCHANGED <<lists, arena_cnt, live, aborted>>
       ELSE /\ lists' = [lists EXCEPT !["purge"] = list_keep(@, Entries(@) \ Idle)]
            /\ arena_cnt' = arena_cnt - (Len(lists["purge"]) - Len(lists'["purge"]))
            /\ Destroy(Idle)
    /\ pc' = [pc EXCEPT ![t] = "idle"]
    /\ UNCHANGED <<arena, owned, buf>>

\* iobuf_pool_destroy, called when no thread uses the pool and every reference
\* has been given back.  It walks `arenas' only.
iobuf_pool_destroy ==
    /\ \A t \in Threads : pc[t] = "idle"
    /\ \A b \in Iobufs : owned[b] = 0
    /\ lists' = [lists EXCEPT !["arenas"] = <<>>]
    /\ arena_cnt' = arena_cnt - Len(lists["arenas"])
    /\ Destroy(Entries(lists["arenas"]))
    /\ UNCHANGED <<arena, owned, pc, buf>>

-----------------------------------------------------------------------------

\* iobuf_pool_new: iobuf_pool_add_arena maps a first arena, or fails to.
Init ==
    /\ \/ \E a \in Arenas :
             /\ live = {a}
             /\ lists = [k \in ListNames |-> IF k = "arenas" THEN <<a>> ELSE <<>>]
             /\ arena_cnt = 1
       \/ /\ live = {}
          /\ lists = [k \in ListNames |-> <<>>]
          /\ arena_cnt = 0
    /\ arena = [a \in Arenas |-> FreshArena]
    /\ owned = [b \in Iobufs |-> 0]
    /\ pc = [t \in Threads |-> "idle"]
    /\ buf = [t \in Threads |-> NoBuf]
    /\ aborted = FALSE

Thread(t) ==
    \/ GetSelected(t)
    \/ GetUnpruned(t)
    \/ GetAllocated(t)
    \/ GetFails(t)
    \/ \E b \in Iobufs : iobuf_ref(t, b)
    \/ \E b \in Iobufs : iobuf_unref(t, b)
    \/ iobuf_put(t)
    \/ iobuf_pool_prune(t)

Next == (\E t \in Threads : Thread(t)) \/ iobuf_pool_destroy

Spec == Init /\ [][Next]_vars

\* A thread inside iobuf_unref goes on to its next critical section: the
\* operating system runs it and the mutex is always released.
Fairness == \A t \in Threads : WF_vars(iobuf_put(t)) /\ WF_vars(iobuf_pool_prune(t))

FairSpec == Spec /\ Fairness

-----------------------------------------------------------------------------
(* Properties *)

Putting == {buf[t] : t \in {u \in Threads : pc[u] = "put"}}

\* Types; the counts of __iobuf_get, __iobuf_put and iobuf_unref never go below
\* zero, and an arena never counts more iobufs than it has.
TypeOK ==
    /\ lists \in [ListNames -> Seq(Arenas)]
    /\ arena_cnt \in Nat
    /\ live \in SUBSET Arenas
    /\ arena \in [Arenas -> ArenaType]
    /\ owned \in [Iobufs -> Nat]
    /\ pc \in [Threads -> {"idle", "put", "prune"}]
    /\ buf \in [Threads -> Iobufs \cup {NoBuf}]
    /\ aborted \in BOOLEAN

\* The comments of struct iobuf_pool on its lists, as __iobuf_get, __iobuf_put,
\* unprune and prune leave them at every unlock: each mapped arena is on exactly
\* one list, once; an arena on `arenas' can serve a get; one on `filled' is
\* exhausted; one on `purge' has no iobuf in use; arena_cnt counts them all.
ListsDescribeArenas ==
    /\ \A k \in ListNames : IsInjective(lists[k])
    /\ \A j, k \in ListNames : j # k => Entries(lists[j]) \cap Entries(lists[k]) = {}
    /\ live = UNION {Entries(lists[k]) : k \in ListNames}
    /\ \A a \in Entries(lists["arenas"]) : arena[a].passive_cnt > 0
    /\ \A a \in Entries(lists["filled"]) : arena[a].passive_cnt = 0
    /\ \A a \in Entries(lists["purge"])  : arena[a].active_cnt = 0
    /\ arena_cnt = Len(lists["arenas"]) + Len(lists["filled"]) + Len(lists["purge"])

\* An iobuf with a holder, or whose last holder has not reached __iobuf_put yet,
\* lies in a mapped arena and is on that arena's active list: the prune that runs
\* between the critical sections of iobuf_unref never takes its memory away.
HeldBuffersMapped ==
    \A b \in Iobufs :
        (owned[b] > 0 \/ b \in Putting) =>
            b[1] \in live /\ b[2] \in Entries(arena[b[1]].active)

\* assert (iobuf->ref == 0) in __iobuf_arena_destroy_iobufs never fails.
NoAbort == ~aborted

\* The pool keeps the promises of IobufAbs to its clients: in particular iobuf_get
\* never hands out an iobuf that has a holder or that a thread is still putting.
Abs == INSTANCE IobufAbs WITH mapped <- live, refs <- owned, returning <- Putting

ImplementsAbs == Abs!Spec

\* An iobuf whose references are all gone does not stay on the active list: it
\* becomes available again (or is unmapped with its arena, or handed out again).
DroppedBufferReturns ==
    \A b \in Iobufs :
        (b[1] \in live /\ owned[b] = 0 /\ b[2] \in Entries(arena[b[1]].active))
            ~> (b[1] \notin live \/ owned[b] > 0 \/ b[2] \in Entries(arena[b[1]].passive))

\* "buffering - preserve this one arena (if at all) for __iobuf_arena_unprune":
\* once every pending prune has run, at most one idle arena is kept back.
PreservesAtMostOne ==
    (\A t \in Threads : pc[t] = "idle") => Len(lists["purge"]) <= 1
=============================================================================
