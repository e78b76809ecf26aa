------------------------------ MODULE RbtHash ------------------------------
(***************************************************************************)
(* The hash table of rbthash.c on the memory pool of MemPool: buckets with *)
(* a lock and a red-black tree each, entries from a pool that belongs to   *)
(* the table or is shared with others (`entrypool').                       *)
(*                                                                         *)
(* A call is a sequence of steps: what it does under a bucket's lock is    *)
(* one, what it does under the pool's lock is one, and other threads run   *)
(* in between.  A bucket's tree is the set of its entries: that a tree     *)
(* holds and finds what was put into it is what module RbTree checks.      *)
(***************************************************************************)
EXTENDS MemPool

CONSTANTS
    Threads,
    Keys,        \* key and keylen
    Data,        \* the caller's objects
    numbuckets,
    Hash         \* hashfunc

ASSUME ThreadsAssumption == IsFiniteSet(Threads)
ASSUME HashAssumption == numbuckets \in Nat \ {0} /\ Hash \in [Keys -> Nat]

VARIABLES
    table,         \* "none", "up" or "gone" (with its pool)
    pool_alloced,
    buckets,       \* entries in each bucket's tree
    entry,         \* the rbthash_entry_t at a pointer, until it is put back
    call,          \* where each thread is
    leaked,        \* ghost: entries that found a duplicate
    others,        \* ghost: memory of the pool's other users
    mine,          \* ghost: objects that the caller owns
    dfuncs         \* ghost: how often dfunc was called for an object

tableVars == <<table, pool_alloced, buckets, entry, call, leaked, others, mine, dfuncs>>
allVars == <<vars, tableVars>>

Idle == [at |-> "idle"]
NoEntry == [key |-> NULL, data |-> NULL]

\* rbthash_key_bucket, rbthash_entry_bucket.
Bucket(key) == Hash[key] % numbuckets

\* rbthash_comparator gives 0 for entries of the same key only.
InBucket(key) == {e \in buckets[Bucket(key)] : entry[e].key = key}

AllEntries == UNION {buckets[b] : b \in DOMAIN buckets}

\* Pointers in a step between two locks.
InFlight == {call[t].entry : t \in {u \in Threads : call[u].at \in {"put", "probe", "deinit", "drop"}}}

HashInit ==
    /\ Init
    /\ table = "none"
    /\ pool_alloced \in BOOLEAN
    /\ buckets = [b \in 0 .. numbuckets - 1 |-> {}]
    /\ entry = [p \in Ptrs |-> NoEntry]
    /\ call = [t \in Threads |-> Idle]
    /\ leaked = {}
    /\ others = {}
    /\ mine = Data
    /\ dfuncs = [d \in Data |-> 0]

\* rbthash_table_init: the pool is the caller's, or made for the table (in which case
\* a failure of __rbthash_init_buckets destroys it again).
rbthash_table_init ==
    /\ table = "none"
    /\ alive
    /\ \/ table' = "up" /\ UNCHANGED vars
       \/ /\ pool_alloced
          /\ table' = "gone"
          /\ mem_pool_destroy
    /\ UNCHANGED <<pool_alloced, buckets, entry, call, leaked, others, mine, dfuncs>>

\* Mutant of init_entry: without memory for the key the entry is not given back.
InitEntryLeaks(t, key, data) ==
    \E ptr \in Ptrs \cup {NULL} :
       /\ mem_get(ptr)
       /\ IF ptr = NULL
          THEN UNCHANGED <<entry, call, mine>>
          ELSE \E memory \in BOOLEAN :
                  /\ entry' = [entry EXCEPT ![ptr] = [key |-> key, data |-> data]]
                  /\ mine' = mine \ {data}
                  /\ call' = [call EXCEPT ![t] = IF memory THEN [at |-> "probe", entry |-> ptr]
                                                 ELSE Idle]

\* rbthash_init_entry: mem_get, then the key is copied.
init_entry(t, key, data) ==
    \E ptr \in Ptrs \cup {NULL} :
       /\ mem_get(ptr)
       /\ IF ptr = NULL
          THEN UNCHANGED <<entry, call, mine>>
          ELSE \E memory \in BOOLEAN :
                  /\ entry' = [entry EXCEPT ![ptr] = [key |-> key, data |-> data]]
                  /\ mine' = mine \ {data}
                  /\ call' = [call EXCEPT ![t] = [at |-> IF memory THEN "probe" ELSE "put",
                                                  entry |-> ptr]]

\* rbthash_insert, up to the lock of the bucket.
rbthash_insert(t, key, data) ==
    /\ table = "up"
    /\ call[t] = Idle
    /\ data \in mine
    /\ init_entry(t, key, data)
    /\ UNCHANGED <<table, pool_alloced, buckets, leaked, others, dfuncs>>

\* mem_put of an entry.
PutEntry(e) == mem_put(e) /\ entry' = [entry EXCEPT ![e] = NoEntry]

\* mem_put at the end of a failed rbthash_init_entry.
PutBack(t) ==
    /\ call[t].at = "put"
    /\ mine' = mine \cup {entry[call[t].entry].data}
    /\ PutEntry(call[t].entry)
    /\ call' = [call EXCEPT ![t] = Idle]
    /\ UNCHANGED <<table, pool_alloced, buckets, leaked, others, dfuncs>>

\* rbthash_insert_entry: rb_probe under the bucket's lock.  A duplicate counts as
\* success, and nobody has the new entry any more.
insert_entry(t) ==
    LET e == call[t].entry
        key == entry[e].key
    IN  /\ call[t].at = "probe"
        /\ \/ /\ InBucket(key) = {}
              /\ buckets' = [buckets EXCEPT ![Bucket(key)] = @ \cup {e}]
              /\ call' = [call EXCEPT ![t] = Idle]
              /\ UNCHANGED leaked
           \/ /\ InBucket(key) # {}
              /\ leaked' = leaked \cup {e}
              /\ call' = [call EXCEPT ![t] = Idle]
              /\ UNCHANGED buckets
           \/ \* rb_probe finds no memory for a node.
              /\ InBucket(key) = {}
              /\ call' = [call EXCEPT ![t].at = "deinit"]
              /\ UNCHANGED <<buckets, leaked>>
        /\ UNCHANGED <<vars, table, pool_alloced, entry, others, mine, dfuncs>>

\* rbthash_deinit_entry after a failed insertion: dfunc takes the caller's object.
deinit_entry(t) ==
    LET e == call[t].entry IN
    /\ call[t].at = "deinit"
    /\ dfuncs' = [dfuncs EXCEPT ![entry[e].data] = @ + 1]
    /\ PutEntry(e)
    /\ call' = [call EXCEPT ![t] = Idle]
    /\ UNCHANGED <<table, pool_alloced, buckets, leaked, others, mine>>

\* rbthash_get: rb_find under the bucket's lock.  `gone' is a ghost: the entry was
\* removed since.
rbthash_get(t, key) ==
    /\ table = "up"
    /\ call[t] = Idle
    /\ \E e \in InBucket(key) :
          call' = [call EXCEPT ![t] = [at |-> "read", entry |-> e, key |-> key, gone |-> FALSE]]
    /\ UNCHANGED <<vars, table, pool_alloced, buckets, entry, leaked, others, mine, dfuncs>>

\* The end of rbthash_get: entry->data is read without the lock.
ReadData(t) ==
    /\ call[t].at = "read"
    /\ call' = [call EXCEPT ![t] = Idle]
    /\ UNCHANGED <<vars, table, pool_alloced, buckets, entry, leaked, others, mine, dfuncs>>

\* Mutant of rbthash_remove: the entry is found but stays in the tree.
RemoveKeepsEntry(t, key) ==
    /\ table = "up"
    /\ call[t] = Idle
    /\ \E e \in InBucket(key) :
          call' = [call EXCEPT ![t] = [at |-> "drop", entry |-> e]]
    /\ UNCHANGED <<vars, table, pool_alloced, buckets, entry, leaked, others, mine, dfuncs>>

\* rbthash_remove: rb_delete under the bucket's lock.
rbthash_remove(t, key) ==
    /\ table = "up"
    /\ call[t] = Idle
    /\ \E e \in InBucket(key) :
          /\ buckets' = [buckets EXCEPT ![Bucket(key)] = @ \ {e}]
          /\ call' = [u \in Threads |->
                         IF u = t THEN [at |-> "drop", entry |-> e]
                         ELSE IF call[u].at = "read" /\ call[u].entry = e
                         THEN [call[u] EXCEPT !.gone = TRUE]
                         ELSE call[u]]
    /\ UNCHANGED <<vars, table, pool_alloced, entry, leaked, others, mine, dfuncs>>

\* Mutant of DropEntry: rbthash_deinit_entry is used to put the entry back.
DropDestroys(t) ==
    LET e == call[t].entry IN
    /\ call[t].at = "drop"
    /\ mine' = mine \cup {entry[e].data}
    /\ dfuncs' = [dfuncs EXCEPT ![entry[e].data] = @ + 1]
    /\ PutEntry(e)
    /\ call' = [call EXCEPT ![t] = Idle]
    /\ UNCHANGED <<table, pool_alloced, buckets, leaked, others>>

\* The end of rbthash_remove: the entry goes back to the pool, the object to the caller.
DropEntry(t) ==
    /\ call[t].at = "drop"
    /\ mine' = mine \cup {entry[call[t].entry].data}
    /\ PutEntry(call[t].entry)
    /\ call' = [call EXCEPT ![t] = Idle]
    /\ UNCHANGED <<table, pool_alloced, buckets, leaked, others, dfuncs>>

\* rbthash_table_destroy, when no call is under way: rb_destroy hands the entries of
\* bucket after bucket to rbthash_entry_deiniter.  Other users of a shared pool run
\* between two entries.
DestroyEntry ==
    /\ table \in {"up", "dying"}
    /\ \A t \in Threads : call[t] = Idle
    /\ table' = "dying"
    /\ \E b \in DOMAIN buckets :
          /\ \A c \in 0 .. b - 1 : buckets[c] = {}
          /\ \E e \in buckets[b] :
                /\ buckets' = [buckets EXCEPT ![b] = @ \ {e}]
                /\ dfuncs' = [dfuncs EXCEPT ![entry[e].data] = @ + 1]
                /\ PutEntry(e)
    /\ UNCHANGED <<pool_alloced, call, leaked, others, mine>>

rbthash_table_destroy ==
    /\ table \in {"up", "dying"}
    /\ \A t \in Threads : call[t] = Idle
    /\ AllEntries = {}
    /\ IF pool_alloced
       THEN table' = "gone" /\ mem_pool_destroy
       ELSE table' = "none" /\ UNCHANGED vars
    /\ UNCHANGED <<pool_alloced, buckets, entry, call, leaked, others, mine, dfuncs>>

\* Another user of a pool that the table was given.
OtherGets ==
    /\ ~pool_alloced
    /\ \E ptr \in Ptrs : mem_get(ptr) /\ others' = others \cup {ptr}
    /\ UNCHANGED <<table, pool_alloced, buckets, entry, call, leaked, mine, dfuncs>>

OtherPuts ==
    /\ ~pool_alloced
    /\ \E ptr \in others : mem_put(ptr) /\ others' = others \ {ptr}
    /\ UNCHANGED <<table, pool_alloced, buckets, entry, call, leaked, mine, dfuncs>>

HashNext ==
    \/ rbthash_table_init
    \/ \E t \in Threads :
          \/ \E key \in Keys :
                \/ \E data \in Data : rbthash_insert(t, key, data)
                \/ rbthash_get(t, key)
                \/ rbthash_remove(t, key)
          \/ PutBack(t) \/ insert_entry(t) \/ deinit_entry(t) \/ ReadData(t) \/ DropEntry(t)
    \/ DestroyEntry
    \/ rbthash_table_destroy
    \/ OtherGets
    \/ OtherPuts

HashSpec == HashInit /\ [][HashNext]_allVars

-----------------------------------------------------------------------------
(* Properties *)

\* Every entry taken from the pool is in exactly one place: in the bucket of its key,
\* in the hands of one call, lost to a duplicate, or another user's; and a key has one
\* entry.  No failure path of rbthash_insert puts an entry back twice or not at all.
EntriesAccounted ==
    LET busy == {t \in Threads : call[t].at \in {"put", "probe", "deinit", "drop"}} IN
    /\ alive => held = AllEntries \cup InFlight \cup leaked \cup others
    /\ Cardinality(InFlight) = Cardinality(busy)
    /\ \A S, T \in {AllEntries, InFlight, leaked, others} : S = T \/ S \cap T = {}
    /\ \A b \in DOMAIN buckets : \A e \in buckets[b] :
          Bucket(entry[e].key) = b /\ InBucket(entry[e].key) = {e}

\* dfunc is called at most once for an object, never for one that the caller still has
\* or got back, and never for one that rbthash_get can return.
DestroyedOnce ==
    \A d \in Data :
       /\ dfuncs[d] <= 1
       /\ dfuncs[d] = 1 => d \notin mine /\ \A e \in AllEntries \cup InFlight : entry[e].data # d

\* Between the unlock and the read of entry->data in rbthash_get, an entry that nobody
\* removed still is the entry of the key that was looked up.
GetReadsOwn ==
    \A t \in Threads :
       call[t].at = "read" /\ ~call[t].gone => call[t].entry \in InBucket(call[t].key)
=============================================================================
