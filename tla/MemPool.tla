------------------------------ MODULE MemPool ------------------------------
(***************************************************************************)
(* The slab allocator of mem-pool.c.  A pool is one region of Count        *)
(* chunks; a chunk is a list header of Pad bytes followed by the           *)
(* SizeofType bytes that mem_get hands out.  When the chunks run out,      *)
(* mem_get falls back to malloc, and mem_put tells the two kinds of        *)
(* pointer apart by address arithmetic alone (__is_member).                *)
(*                                                                         *)
(* Addresses are numbers.  mem_get and mem_put run entirely under the      *)
(* pool's lock: each is one step, whichever thread calls it.               *)
(***************************************************************************)
EXTENDS LinkedList, Integers, FiniteSets

CONSTANTS
    SizeofType,  \* sizeof_type, not 0
    Count,       \* number of chunks, not 0
    Pad,         \* sizeof (struct list_head)
    Base,        \* address of the region
    HeapAddrs,   \* addresses that malloc can return
    AddrBits,    \* width of unsigned long
    NULL

ASSUME SizeAssumption == SizeofType \in Nat \ {0} /\ Count \in Nat \ {0} /\ Pad \in Nat
ASSUME AddrAssumption == AddrBits \in Nat /\ Base \in Nat /\ HeapAddrs \subseteq Nat

\* unsigned long arithmetic is modulo this number.
AddrSpace == 2^AddrBits

\* Mutant of PaddedSize: no room for the list header of the next chunk.
PaddedSizeNoPad == SizeofType

\* padded_sizeof_type.
PaddedSize == SizeofType + Pad

PoolEnd == Base + Count * PaddedSize

ASSUME RegionAssumption == AddrSpace \in Nat /\ PoolEnd <= AddrSpace

\* The bytes [from, to).
Bytes(from, to) == from .. to - 1
Block(ptr) == Bytes(ptr, ptr + SizeofType)

\* malloc never returns memory that overlaps the region.
ASSUME HeapAssumption == \A h \in HeapAddrs : Block(h) \cap Bytes(Base, PoolEnd) = {}

VARIABLES
    list,        \* mem_pool->list: the heads of the free chunks
    hot_count,
    cold_count,
    heap,        \* blocks that malloc handed to mem_get and that are not freed
    held,        \* pointers that callers got from mem_get
    aborted,     \* mem_put has called abort
    alive        \* between mem_pool_new and mem_pool_destroy

vars == <<list, hot_count, cold_count, heap, held, aborted, alive>>

-----------------------------------------------------------------------------

chunkhead2ptr(head) == head + Pad
ptr2chunkhead(ptr) == ptr - Pad

Heads == {Base + i * PaddedSize : i \in 0 .. Count - 1}

\* __is_member: 0 outside the region, -1 inside it but not where a chunk's data
\* starts, 1 for a chunk.  The difference is reduced as an unsigned long.
is_member(ptr) ==
    CASE ptr < Base \/ ptr >= PoolEnd -> 0
      [] ptr >= Base /\ ptr < PoolEnd ->
            IF ((ptr2chunkhead(ptr) - Base) % AddrSpace) % PaddedSize # 0 THEN -1 ELSE 1

\* mem_pool_new_fn: the chunks are linked in the order of their addresses.
Init ==
    /\ list = [i \in 1 .. Count |-> Base + (i - 1) * PaddedSize]
    /\ hot_count = 0
    /\ cold_count = Count
    /\ heap = {}
    /\ held = {}
    /\ aborted = FALSE
    /\ alive = TRUE

\* Mutant of GetChunk: the chunk stays on the list.
GetChunkKeepsLink(ptr) ==
    /\ alive /\ ~aborted
    /\ cold_count # 0
    /\ ptr = chunkhead2ptr(Head(list))
    /\ hot_count' = hot_count + 1
    /\ cold_count' = cold_count - 1
    /\ held' = held \cup {ptr}
    /\ UNCHANGED <<list, heap, aborted, alive>>

\* mem_get with chunks left.
GetChunk(ptr) ==
    /\ alive /\ ~aborted
    /\ cold_count # 0
    /\ ptr = chunkhead2ptr(Head(list))
    /\ list' = list_del(Head(list), list)
    /\ hot_count' = hot_count + 1
    /\ cold_count' = cold_count - 1
    /\ held' = held \cup {ptr}
    /\ UNCHANGED <<heap, aborted, alive>>

\* mem_get without: the block is malloc's, NULL included.
GetHeap(ptr) ==
    /\ alive /\ ~aborted
    /\ cold_count = 0
    /\ ptr \in HeapAddrs \cup {NULL}
    /\ ptr # NULL => \A h \in heap : Block(ptr) \cap Block(h) = {}
    /\ heap' = heap \cup ({ptr} \ {NULL})
    /\ held' = held \cup ({ptr} \ {NULL})
    /\ UNCHANGED <<list, hot_count, cold_count, aborted, alive>>

\* mem_get returns ptr.
mem_get(ptr) == GetChunk(ptr) \/ GetHeap(ptr)

\* mem_put of a pointer the caller got from mem_get: back to the list, to free,
\* or abort.
mem_put(ptr) ==
    LET member == is_member(ptr) IN
    /\ alive /\ ~aborted
    /\ ptr \in held
    /\ held' = held \ {ptr}
    /\ list' = IF member = 1 THEN list_add(ptr2chunkhead(ptr), list) ELSE list
    /\ hot_count' = IF member = 1 THEN hot_count - 1 ELSE hot_count
    /\ cold_count' = IF member = 1 THEN cold_count + 1 ELSE cold_count
    /\ heap' = IF member = 0 THEN heap \ {ptr} ELSE heap
    /\ aborted' = (member = -1)
    /\ UNCHANGED alive

\* mem_pool_destroy: whatever the callers still hold.
mem_pool_destroy ==
    /\ alive /\ ~aborted
    /\ alive' = FALSE
    /\ list' = <<>>
    /\ UNCHANGED <<hot_count, cold_count, heap, held, aborted>>

\* What mem_get may return.
Ptrs == {chunkhead2ptr(h) : h \in Heads} \cup HeapAddrs

\* No memory is at NULL.
ASSUME NullAssumption == NULL \notin Ptrs

Next ==
    \/ \E ptr \in Ptrs \cup {NULL} : mem_get(ptr)
    \/ \E ptr \in held : mem_put(ptr)
    \/ mem_pool_destroy

Spec == Init /\ [][Next]_vars

-----------------------------------------------------------------------------
(* Properties *)

\* Types; hot_count and cold_count of mem_get and mem_put stay within the pool.
TypeOK ==
    /\ list \in Seq(Heads)
    /\ hot_count \in 0 .. Count
    /\ cold_count \in 0 .. Count
    /\ heap \subseteq HeapAddrs
    /\ held \subseteq Nat
    /\ aborted \in BOOLEAN
    /\ alive \in BOOLEAN

\* The memory of a caller overlaps neither the memory of another caller nor the
\* list header of a free chunk, whatever mix of chunks and malloc blocks is out.
BlocksDisjoint ==
    /\ \A p, q \in held : p # q => Block(p) \cap Block(q) = {}
    /\ \A p \in held : \A i \in DOMAIN list :
          Block(p) \cap Bytes(list[i], list[i] + Pad) = {}

\* No chunk is lost or counted twice: the free list has cold_count chunks, callers
\* hold hot_count, and together they are all of them.
ChunksAccounted ==
    alive => /\ IsInjective(list)
             /\ Len(list) = cold_count
             /\ Cardinality(held \ heap) = hot_count
             /\ Entries(list) \cup {ptr2chunkhead(p) : p \in held \ heap} = Heads

\* mem_put gives a malloc block to free and a chunk to the list, never the other
\* way round, and does not abort on a pointer that mem_get returned.
PutMatchesGet == ~aborted /\ heap \subseteq held /\ \A p \in held \ heap : is_member(p) = 1

\* Chunks and malloc blocks go back where they came from, and none is lost.
PoolAccounted == TypeOK /\ ChunksAccounted /\ PutMatchesGet
=============================================================================
