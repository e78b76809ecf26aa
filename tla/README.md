# A verification project for lz_lib

lz_lib (`src/src/`) is a C library of the building blocks of a network file
service: event-driven sockets, timers, reference-counted I/O buffers, memory
pools, dictionaries and trees. Its parts are used by several threads at once and
share state through short critical sections; most of what can go wrong happens
between two of them. This directory models those parts in TLA+ and checks the models
with TLC on small instances. With TLAPS it proves, for every instance, the safety
of the buffer pool and that it implements its abstract specification, the safety of
the event registry, the timers, iobrefs, the memory pool, the hash table, the
socket and the dictionaries, and that options become the numbers and addresses that
they stand for.

## Inventory

| component | state | operations | interacts with |
|---|---|---|---|
| iobuf pool (`iobuf.c`) | three lists of arenas, per arena an active and a passive list with counts, a count per buffer | `iobuf_pool_new/destroy`, `iobuf_get`, `iobuf_ref`, `iobuf_unref` → `iobuf_put` → `iobuf_pool_prune` | the socket's incoming messages, iobrefs |
| iobref (`iobuf.c`) | a count and eight slots | `iobref_new/ref/unref/add/merge` | holds references on iobufs; held by queued output |
| lists (`list.h`) | links inside the entries | `list_add(_tail)`, `list_del(_init)`, walks | all of the above |
| event pool (`event.c`) | array of registrations, the kernel's epoll set, cache of events | `event_register`, `event_unregister`, `event_select_on`, `event_dispatch` | calls the handlers of the socket transport |
| timer (`timer.c`) | sorted active list, stale list, `fin` | `lz_timer_call_after`, `lz_timer_call_cancel`, the thread `lz_timer_proc` | calls back into its clients |
| memory pool (`mem-pool.c`) | region of chunks, free list, two counts | `mem_get`, `mem_put`, `mem_pool_new/destroy` | rbthash |
| socket transport (`socket.c`) | descriptor, connection state, output queue, incoming message | `connect`, `submit`, `receive`, `disconnect`, `listen`, two event handlers | event pool, iobufs, transport |
| transport (`transport.c`) | reference count | `transport_ref/unref`, dispatch to the socket | socket |
| dict (`dict.c`) | hash chains, members list, counts of dict and values | set, get, delete, iterate, serialize | options of every component |
| red-black tree (`rb.c`) | nodes with two links and a colour, a count, a generation; traversers with a stack of parents | insert, replace, delete, find, traverse, copy, destroy | rbthash |
| rbthash (`rbthash.c`) | buckets with a lock and a tree each, a pool of entries that it owns or shares | `table_init`, `insert`, `get`, `remove`, `table_destroy` | memory pool, red-black tree |
| names (`name.c`, `lz_resolve_ip6`) | options, a cache of addresses for each transport, the transports' addresses and identifiers | choice of the family, remote and local addresses, binds, identifiers | socket |
| numbers (`common-utils.c`, `dict.c`) | the text of an option | `lz_string2...`, `data_from_...`, `data_to_...` | options of every component |
| logging, string utilities, hashes, protocol structures | log file | formatting, rotation | everything |

Hard behaviours: several critical sections for one operation (the last
`iobuf_unref`, `socket_connect`, `iobref_merge`, `socket_event_handler`); indices
and events that are stale when they are used (event pool); callbacks after the
unlock (event pool, timer); partial reads and writes, lost connections and
reconnects (socket); registrations and allocations that fail half way.

## Modules

Every critical section that cannot block inside is one atomic step. Where the
code unlocks and locks again, the model has a step for each section and the
other threads run in between.

* **LinkedList** – the lists of `list.h` as duplicate-free sequences.
* **IobufPool** – `lists`, `arena_cnt`, `live` (what is mapped) and `arena` are the
  structures of `iobuf.h`; `owned` counts the references of clients; `pc` and
  `buf` say where a thread is inside `iobuf_unref`. `GetSelected`, `GetUnpruned`,
  `GetAllocated` and `GetFails` are the paths of `iobuf_get`; `iobuf_unref`,
  `iobuf_put` and `iobuf_pool_prune` are the three critical sections of dropping
  the last reference. `aborted` records a failed assert.
* **IobufAbs** – what the pool promises its clients: a buffer is given to one
  caller at a time and stays mapped until it is back. IobufPool implements it
  (`ImplementsAbs`, with `mapped`, `refs`, `returning` defined from its state).
* **Iobref** – iobrefs on top of the abstract pool; `iobref_merge` and
  `iobref_destroy` take one step for each slot, with the locks they keep.
* **EventPool** – the registry with the kernel's view of it (`interest`, `kidx`,
  `kev`), the owners of descriptors (`stage`, `owner`, and `hint`, the index they
  remember) and the dispatcher (`batch`, `call`). Indices start at 1. The quirk
  that `event_register` and `event_select_on` return 0 and not an index, which
  `socket.c` then keeps as its hint, is modelled (`hint' = 1`). A descriptor is closed
  after it was unregistered, or after its registration failed without leaving a slot,
  or, as `socket_listen` does, after its registration failed although a slot has its
  number. The numbers of the last kind are in `abandoned`: from then on such a slot is
  nobody's, the kernel may give the number to another transport, and a lookup may find
  the stale handler. The correctness properties speak of the other numbers.
* **Timer** – time stamps as `struct timeval` with the code's arithmetic; `Stamp`
  (before the lock) and `Insert` (under it) make up `lz_timer_call_after`.
* **MemPool** – addresses are numbers, and `__is_member` computes with the width of
  `unsigned long`.
* **RbtHash** – the hash table on MemPool. What a call does under a bucket's lock is a
  step, what it does under the pool's lock is one, and `call` says where a thread is
  in between. A bucket's tree is the set of its entries: that a tree finds what was
  put into it is RbTree's matter. The pool is the table's own or shared with other
  users (`others`), who run at any time. `rbthash_get` reads `entry->data` after the
  unlock; a concurrent `rbthash_remove` of the same key makes that a use after free,
  which `gone` marks, and `GetReadsOwn` is about the entries that nobody removed.
* **RbTree** – `rb.c` as functions on a record of nodes; the two mirrored halves of its
  loops are one definition over a direction. The address of a node is the key it
  was allocated for (the code only compares addresses for equality). A traverser
  has its node, its stack and whether its generation is the tree's; the stack of an
  outdated one is forgotten, since `trav_refresh` rebuilds it. Traversers rest
  while the tree is copied, and nobody deletes the node under a traverser: the
  code leaves it a dangling pointer. `Junk` is what a `malloc`ed field holds before
  it is assigned. A second part of the runs (`ranked`) is about rebalancing alone: keys
  are ranks (`InsertRank` and `DeleteRank` call `rb_probe` and `rb_delete`, `Renumber`
  makes ranks of the keys that are left), so that TLC meets each red-black tree of up
  to `MaxNodes` nodes once.
* **Numbers** – the conversions of options. A text is a sign, the number that
  `strtol` reads in base 0 and in base 10, and what follows it: `tail`, and `lead`, the
  unit that its first two characters are, which is all that `lz_str_to_long_long` looks
  at. `Half[w]` is half of the number of values of a `w`-bit integer, so that TLC can
  use small ones. `StringConverted` and `DictConverted` say of every reader whether it
  returns the number, refuses it, or cuts it down.
* **Name** – first the program sets and reads options through Numbers; then a client and
  a server with these options connect and listen. `cache` is `dnscache`, `client`,
  `server` and `accepted` are transports. The C library and the kernel have every
  outcome they document. `name.c` calls `gf_resolve_ip6`, which nothing defines; the
  model takes it for `lz_resolve_ip6`. One thread at a time connects a transport.
* **Socket** – one transport: client threads (`ConnectCheck`, the unlocked name
  lookup, `ConnectDo`, `socket_submit`, `socket_receive`, `socket_disconnect`,
  `transport_unref`), the dispatcher's `socket_event_handler` in its phases
  (`ConnectFinish`, `PollOut`, `PollIn`, `PollErr`, `HandlerUnref`), and the peer
  and the network as environment. Bytes are units labelled with connection,
  message and position, so a unit that goes to the wrong place is visible. The
  event pool appears as EventPool shows it: the handler of a registered descriptor
  is called with a snapshot of its readiness.
* **Dict** – `state`, `refcount`, `list`, `chain`, `count` are a `dict_t`, `content`
  and `refs` a `data_t`; `held` and `maker` are the references and handles of the
  threads. `Store` is what setting a pair changes, so `_dict_set`, `data_ref` and
  `data_unref` are functions on it, shared by `dict_set`, `dict_copy` and
  `dict_unserialize`. A call of several critical sections leaves its rest in
  `todo`: the getters reference a value after the unlock (`DataRef`), `dict_copy`
  sets one pair after the other, `dict_destroy` drops one value after the other,
  and a value is destroyed after the unlock of its last `data_unref`. Lengths in
  the serialized form are counted in bytes; `Parse` makes the bounds tests of
  `dict_unserialize` in their order. `Exclusive` is an assumption about clients:
  they change a dict only while they have the only reference on it. The code does
  not enforce it, and without it `dict_get` and `dict_get_with_ref` may use a pair
  that another thread freed (`dict.c` 1248). What is checked and proved of the
  dictionaries is about clients that keep to it. The walks over a chain or a buffer (`Only`, `Parse`,
  `Fill`) are recursive functions of how far they have come, so that proofs can follow
  them. The owners of a value are counted as the elements of a set of pairs and of
  pending unreferences, each with the dict or thread it belongs to (`Tagged`).
* **MC...** – the instances for TLC.
* **IobufPoolProofs**, **IobrefProofs**, **EventPoolProofs**, **TimerProofs**,
  **MemPoolProofs** (with the hash table), **SocketProofs**, **NameProofs**,
  **DictProofs** – the proofs. The lemmas about the operators of LinkedList stand at the
  head of the three that use them.

Definitions whose comment begins with "Mutant" are plausible bugs. Replacing the
named definition by one of them makes TLC report a violation, which shows that
the property can fail; `PROJECT.json` lists the pairs.

## Runs

| run | instance | shows |
|---|---|---|
| `iobuf_pool` | 2 arenas of 2 buffers, 2 threads, 2 references each, no symmetry | `ListsDescribeArenas`, `HeldBuffersMapped`, `NoAbort`, `ImplementsAbs`; a dropped buffer comes back |
| `iobuf_pool_prune` | 3 arenas, 2 threads | *violated*: more than one idle arena is kept back |
| `event_pool` | 2 descriptors, 2 transports, 2 slots, initial array of 1, event cache without spare entries | `RegistryConsistent`: slots, kernel indices and owners agree; `HandlerTargetsOwner`; `NoLostWakeup`; a hangup is handled |
| `event_pool_dead` | 3 descriptors | *violated*: a dead slot is read again (through the interface; no caller of the repository does it) |
| `timer` | 3 events, seconds of 2 microseconds, clock up to 3 | `ListsConsistent`, `CallbackIsDue`, `WithinASecond` (the error of the carry); due events leave the active list; an empty registry ends |
| `iobref` | 2 iobrefs of 3 slots, 2 iobufs, 2 threads, merges in one direction | references are accounted for; a successful merge copied everything |
| `socket` | 2 clients, 2 connections, 2 messages each way, headers of 2 units | framing both ways, POLLOUT while output waits, reference counts |
| `socket_live` | 1 client, 1 connection | ended connections are torn down; queued output leaves the queue |
| `dict` | 2 dicts of 2 pairs, 2 shared values, 2 threads, cut buffers | counts of dicts and values, no use of what is freed, chains and list agree and bound the count, serialization is exact and comes back |
| `rbthash` | 3 keys in 2 buckets, 3 objects, 2 threads, a pool of 2 chunks with malloc blocks at both ends | pool blocks are disjoint, chunks and entries are accounted for, an object is destroyed at most once, a look-up reads its own entry |
| `rb_tree` | 6 keys, one of them with two items, 2 traversers; every red-black tree of up to 14 nodes | the tree stays a red-black tree and holds what was put in; a copy is complete, or what it allocated is freed and `destroy` is called for each copied item once and for each item not yet assigned; a traverser goes on in order over a tree that changed |
| `name` | integers of 2 to 5 bits, about 190 texts, hosts of up to 3 addresses, every combination of families and paths | numbers are read as written, refused, or cut down as listed for the reader; an address fits its socket's family; client and server agree on the port; identifiers name the peer; addresses of a host are tried in turn |

Why the bounds are enough: two threads make every pair of critical sections
overlap; two arenas are enough for every pair of lists; two slots give a hole and a
last slot that moves, a slot that is dead or abandoned takes the place of one of them,
and a registry and an event cache that start with one entry have to grow and return
batches that are cut short (with three slots the safety properties hold too, in 1.6
million states, more than a run of some minutes can search for liveness); a second of two microseconds has both errors of
the carry; two units of header and a body are split at every place; a second
connection meets what the first one left; six keys give traversers and copies a tree
of three levels with every rotation; a rebalancing that first recolours and moves up
takes 8 nodes for an insertion and 7 for a deletion, and the trees of up to 14 nodes
have all of these, ending in each case of the next iteration; a pool of two
chunks runs out while three objects are in use. For the pool, the event registry,
the timers, iobrefs, the hash table, the socket and names the proofs remove the
bounds from the safety properties; for the dictionaries they do so from all but
serialization.

Deadlock checking is off for the timer (a thread that locks the registry twice
stops it: this is what the code does), for rbthash (a table that is destroyed with
its pool is not used any more) and for the socket (a destroyed transport, or one
that has used up its connections, does nothing more).

Fairness. IobufPool: a thread inside `iobuf_unref` takes its next section.
EventPool: the dispatcher and its handlers run, signals do not interrupt every
`epoll_wait` (`Progress`), and a descriptor that is ready again and again is reported
at some time although the cache may be smaller than the number of ready descriptors
(strong fairness of `EpollReports(fd)`: the kernel queues ready descriptors and puts
those it has reported at the end). Timer: the timer thread runs, callbacks and
`usleep` return. Socket: the dispatcher runs; a peer that stays connected keeps
reading, so the kernel has room infinitely often and takes something whenever it
has (strong fairness of POLLOUT and of a write that moves something). No client
has to do anything. `QueueDrains` depends on the bound on submits: clients who
never stop submitting may keep the queue from ever being empty.

## What the checks found

* `iobuf_pool_prune`: the comment in `__iobuf_pool_prune` speaks of preserving
  "this one arena"; two puts that both finish before either prune leave two idle
  arenas on `purge` and none on `arenas`, and both prunes keep them.
* `event_pool_dead`: after a failed `EPOLL_CTL_DEL` the slot "should never be
  accessed", but it stays counted, and a later `event_unregister` reads it as the
  last slot and passes its descriptor -1 to `epoll_ctl`. The registry survives:
  the other slot is then dead too, and `KernelSlotHasFd` still holds. This is about the
  interface of `event.c`: no caller of the repository unregisters a descriptor whose
  registration failed.

Seen while modelling, stated in the models as the code has them:

* `lz_timer_call_after` computes the carry from microseconds that are reduced
  already (`timer.c` 35-37): an event may be due a second early or late.
  `WithinASecond` bounds the error.
* `lz_timer_call_cancel` can free an event between its unlinking and its callback
  (`raced` in Timer), and the shutdown of `lz_timer_proc` locks its mutex twice
  when an event is left.
* A message that arrives before the previous one was received resets the
  connection, because the notification of the receiver is commented out
  (`StateMachine` returns -1 in state COMPLETE).
* A failed `event_register` in `socket_connect` leaves the socket open and its
  reference counted for ever; `socket_submit` reports 0 for a write that failed.
* `iobuf_pool_destroy` walks `arenas` only.
* `dict_unserialize` sets the count of a dict to 0 and keeps its members. A dict that
  had some then counts too few, serializes to less than it holds, and after deletes
  has a negative count. What remains true is in `ChainsMatchList`.
* A `dict_set` that fails for lack of memory leaves the value of its caller
  (`dict_set_str` and the like) behind.
* An `rbthash_insert` of a key that is there returns 0 and forgets the new entry, which
  stays out of the pool (`leaked`); one that finds no memory for a tree node destroys
  the object of its caller and reports failure.
* After a failure inside `rb_copy`, the nodes whose item was not copied yet have an
  `rb_data` that was never assigned, and `rb_destroy` passes it to the destructor
  unless it happens to be NULL (`Junk` in RbTree). The comments at `rb.c` 742-744 ("to
  avoid touching uninitialized data") and 760-762 intend the opposite. `CopyOutcome`
  states what happens: one such call for each of these nodes.
* Many conversions silently cut a number down: `data_to_uint16` and its kin and the
  checked getters of a dict truncate what does not fit, `data_to_uint64` saturates at the
  largest signed number, `lz_string2uint`, `lz_string2time` and `lz_string2percent`
  truncate, negative texts in a dict wrap into unsigned types, the products of
  `lz_string2bytesize` and `lz_str_to_long_long` wrap, and the latter takes "KBx" for
  "KB". `NumbersConverted` lists for each reader the
  numbers that arrive, those refused and what the others become.
* `lz_string2int` writes a `long` through an `int *` (`common-utils.c` 705): the `int` is
  the number cut down, and the four bytes behind it are overwritten.
* The resolver throws away the rest of a host's addresses when `getnameinfo` fails for
  the next one, and starts again with a new look-up; `AddressesInTurn` excuses that.
* `socket_listen` closes its socket when `event_register` fails and leaves the slot in
  the registry (`CloseFailed`). When the kernel reuses the number, a lookup without a
  good hint takes the first slot with that number, the stale one: without the condition
  on `abandoned`, `HandlerTargetsOwner` is violated in ten steps.
* Log rotation closes and reopens the log file before it takes `logfile_mutex`.
* `transport_load` and the accept path leave `globals_ctx` and the buffer pool of
  a transport unset. The models start from transports that have both.

## Proofs

Every proof is for all values of the constants; what it assumes of them is in named
`ASSUME`s of the module that declares them, which TLC evaluates in every run.

**The buffer pool** (`IobufPoolProofs`): TypeOK, ListsDescribeArenas,
HeldBuffersMapped and NoAbort are invariants of `IobufPool!Spec`, for any arenas and
threads and any positive number of buffers in an arena (`IobufCntAssumption`,
`MaxRefAssumption`, `NoBufAssumption`). None of them is inductive. `NoAbort`
needs to know that an arena without active buffers has no references; that needs
each arena's lists and counts to agree; and that an unmapped buffer is not about
to be put needs the threads' program counters. The inductive invariant `IInv` is

* `PoolLists`: each arena is on at most one list, the one its counts ask for;
* `ArenasWellFormed`: each buffer is on one list of its arena and the counts are
  the lengths;
* `RefsOwned`: a buffer's count is the number of references of clients;
* `ActiveInUse`: a buffer is on the active list exactly while it has a holder or
  a thread that is putting it;
* `OnePutter`: no two threads put the same buffer, and nobody holds it meanwhile;
* `UnmappedUnused`: the memory of an arena that is not mapped is not in use.

There is one lemma for each action (`GetSelectedInv` ... `PoolDestroyInv`) on top
of lemmas about one arena (`ArenaGetLemma`, `ArenaPutLemma`), about moving an
arena between lists (`MoveLemma`, `GetListsLemma`, `PutListsLemma`) and about the
list operators (`ListAddLemma`, `ListDelLemma`).

**The pool implements IobufAbs** (`IobufPoolProofs`): from `IInv`, every step of
IobufPool is a step of IobufAbs or leaves its variables alone (`AbsStep`, with one
lemma for each action). What carries it is that a passive buffer is free
(`InactiveFree`) and that an arena without active buffers has free ones only
(`IdleFree`), so that what the pool hands out or unmaps is in nobody's hands.

**Iobrefs** (`IobrefProofs`): see the theorems `HoldersCounted` (BufrefsAccounted) and
`MergeComplete` (MergeCopiesAll), for any iobrefs, threads and number of slots
(`FiniteAssumption`: these are finite sets). The invariant says that counts of iobufs
are the sizes of the sets of their slots; that an iobref without references is empty
but for the slots that its one destroyer has not reached; that a reference count
covers the merges under way; that the filled slots of an iobref that is in use come
first; and that a merge holds its lock and has copied the slots it has passed.

**The event registry** (`EventPoolProofs`): RegistryConsistent, HandlerTargetsOwner and
NoLostWakeup, for any descriptors, transports, initial size and event cache. The
invariant adds to them that the kernel watches exactly the descriptors whose
registration succeeded (`InterestRegistered`), that a number outside of `abandoned`
(`Clean`) has at most one slot and that its owner's, so that a stale hint finds the
right one or none (`GetindexLemma`), and that the descriptor a handler is about to
close has been unregistered (`CallInv`). An abandoned number may have several slots;
a lookup takes one of them (`FirstSlot`), which is why nothing is said of its handler.

**Timers** (`TimerProofs`): ListsConsistent, CallbackIsDue and WithinASecond, for any
events, delays, length of a second and clock. The insertion keeps the list sorted
because all events before the place it finds are earlier and none behind it is
(`SpliceLemma`, `InsertInv`); a callback is due because the time of the scan is never
ahead of the clock (`ScanInv`); a cancelled event that was already taken is in `raced`
and stays freed. `AddDeltaLemma` is the arithmetic of the carry.

**The socket** (`SocketProofs`): WireFramed, ReceiveFramed, WritesWatched and
RefsAccounted, for any number of clients, messages of any lengths in vectors of any
shape, reads and writes that the kernel splits anywhere, and any number of
connections (`MessagesAssumption`, `ThreadsAssumption`, `BoundsAssumption`,
`HdrLenAssumption`). The invariant `SocketInv` has three parts. `Control`: a closed
socket has nothing left of its connection, a registered one is open, a connected one
with output waiting asks for POLLOUT or has lost its peer, and each reference has an
owner. `Output`: what is on the wire and what is left of each queued vector, one
behind the other, are the messages that were submitted (`Rest`, `Submitted`), so a
`writev` that stops in the middle of a vector (`ChurnedLemma`) moves a prefix from
one side to the other. `Input`: header and body read so far, what waits in the
kernel and what is in flight are the stream of the peer behind the messages that
were received; each phase of `__socket_proto_state_machine` keeps that
(`StateMachineLemma`) and COMPLETE means that the body has the length the header
announces. A stream is `FlattenSeq` of messages and a length is a recursive sum:
their laws are proved by induction from the well-foundedness of `<` (`Induction`,
`UptoSum`), written with sets of numbers because the library's induction rule has an
operator for a parameter.

**Numbers** (`NameProofs`): NumbersConverted, for integers of any widths of which the
widest is a multiple of twice the others (`HalfAssumption`), any units and any texts. A
number in the range of its type survives the cast (`CastIdentity`), and one that is cut
down twice is cut down once to the narrower type (`CastTwice`). The text of a setter is
in its range (`StoredText`) and comes back (`CheckedReadsStored`,
`UncheckedReadsStored`). Of the functions on strings, the sized ones and the longs are
exact or refuse (`ExactConverted`), `lz_string2int`, `lz_string2uint`, times,
percentages and sizes refuse what no `long` holds and cut down the rest
(`CutConverted`, with `ProductFits` for the product of a number and a unit), and
`lz_str_to_long_long` never refuses (`LenientConverted`);
`GettersConverted` is the same for a dict, whatever text it has.

**The memory pool** (`MemPoolProofs`): PoolAccounted and BlocksDisjoint of `HashSpec`, for
objects of any size, any number of chunks and any list header, if the region fits into
the address space (`RegionAssumption`) and malloc stays out of it (`HeapAssumption`).
Every step of the hash table and of other users is a step of the pool or none
(`HashStepIsPoolStep`). The chunks lie a multiple of `PaddedSize` apart and end before
the next begins (`HeadsLemma`), so `__is_member` recognises them and no block of malloc
(`ChunkIsMember`, `HeapIsNotMember`). The invariant adds that a chunk is either on the
list or with a caller, never both, and that the two counts add up to the pool
(`HeldInv`, `ChunksInv`).

**The hash table** (`MemPoolProofs`): EntriesAccounted, DestroyedOnce and GetReadsOwn, for
any threads, keys, buckets and objects (`ThreadsAssumption`, `NullAssumption`). The
invariant `TableInv` says of an entry that it is in one place: a bucket, the hands of
one call between two of its critical sections (`InFlight`, `OneCall`), `leaked`, or
another user (`Places`); that a bucket has only entries of its keys and one for each
(`Trees`); and that the objects in these places are different, alive and not the
caller's (`Objects`). The last part is what makes `dfunc` run once: an object leaves
`Owned` in the step that destroys it.

**Addresses** (`NameProofs`): AddressFitsSocket, SamePort, IdentifiersMatch and the action
property AddressesInTurn, for any hosts, options and lengths of the resolver's lists
(`AddrsAssumption`). `NameInv` says that the cache is a list without duplicates of
which exactly the addresses before `next` were offered (`CacheInv`); that a socket's
addresses are those of its family, or the same under the name SDP (`Named`,
`NamesOf`); and that the client's identifiers are its addresses without that name
(`ClientInv`). Then what the server prints is the client's address whether the
kernel shows it inside an IPv6 address, as SDP, or as it is (`PrintedName`).
`ResolvedInTurn` is the step of the resolver.

**The dictionaries** (`DictProofs`): RefsAccounted, NoDanglingUse and ChainsMatchList, for
clients that keep to `Exclusive` (a guard of the actions that change a dict), any finite sets of dicts, values and threads, any keys, hash function and buffers, and
lists of any length (`FiniteAssumption`, `NullAssumption`, `HashAssumption`,
`LenAssumption`, `DatasAssumption`; `ClientsAssumption` says that the settings and
buffers of the instance have the types of keys and contents). The bounds `MaxRef` and
`MaxPairs` are not used. None of the three is inductive. A count is right only if the
pending unreferences are; whether a getter finds its pair after the unlock depends on who
else may change the dict meanwhile; and removing a pair by its key is removing it from the
right chain only if the keys are different. The invariant `DictInv` is

* `Keyed`: the keys of a dict are different, the chain of a hash value has the keys of
  the list with that value, in that order, and `count` is at most the length;
* `Lifecycle`: a dict's count is the number of references that threads have; a dict
  that is not live has no references, no pairs and no maker, and a maker goes when the
  first reference is taken, so that `Exclusive` really means alone (`Alone`);
* `Values`: a value in use has as many references as owners, one that is free or
  about to be freed has none (the latter makes `data_destroy` harmless after the
  unlock);
* `Work`: whatever a call has left to do can be done: a getter's thread has the dict and
  the pair is there, a copy's thread has the one dict and owns the other, a dict to
  destroy is live without references, one to free is empty;
* `Once`: no value is about to be freed twice, no dict about to be ended twice;
* `Rest`: the operations left by one call are of one kind, and the freeing of the
  `dict_t` is the last of them.

Setting and deleting pairs is proved on a store alone (`StoreInv`: the chains, the
counts with the owners outside of the dict, the list of the dead), for one set
(`SetStore`), one delete (`UnlinkStore`) and, by induction over the pairs of a buffer,
for `dict_unserialize` (`FillStore`); `CommitInv` carries the result back. A set over the
same value is the delicate case: the new reference is taken before the old one is
dropped, so the value does not die in between. The laws of `Only` (`OnlyConcat`,
`OnlyTwice`, `OnlyRemove`) say that chains follow the list, and `TaggedChange` and
`SameNumber` that the owners follow it. `OthersWork` says that the other threads can go
on after a step that does not disturb the dicts they have, and each action has a lemma
(`DictNewInv` ... `DestroyInv`).

Only model-checked: `SerializesExactly`, which equates folds over the list of a dict with
folds over its buffer (an induction over data that would need the laws of `FoldLeft`, and
`RoundTrip` quantifies over every cut); the red-black tree, whose definitions are
recursive operators; and all liveness and ENABLED (`QueueDrains` and its like), which are
out of the prover's reach.

## Not modelled

* The poll back end of the event pool: dead code, its selection in `event_pool_new`
  (`event.c` 864-886) is commented out.
* Logging: formatting and output. Its rotation races with other writers, with an
  undefined outcome.
* Hash functions, whose only specification is their code; the protocol header and
  byte swapping, which nothing uses; stubs and locking macros.
* Common utilities: trimming and splitting of strings, doubles and booleans, file
  locks, checksums; calls with NULL strings.
* dict: doubles, the old text format (`dict.c` 488-697), `dict_to_iovec`; a client that
  sets a dict while others read it (`dict.c` 1248); a count or a length of a key or
  value that a buffer gives as negative (`dict.c` 2375, 2397, 2409).
* Memory pool: the narrowing of sizes to `int` (`mem-pool.c` 22, 39-40, 48). The model's
  numbers fit.
* Timer: what a callback does with an event that was cancelled and freed after the timer
  thread took it; the model only marks the event (`raced`).
* The four bytes that `lz_string2int` overwrites.
* socket: blocking sockets (`non-blocking-io` off), the reading of options other than
  addresses and ports, `transport_load`. A `writev` that fails while the connection
  lives (ENOBUFS) is assumed not to happen.
* Two threads that connect the same transport at once: both use and free its
  `dnscache` without a lock.
* Memory exhaustion in `event_register` (`realloc` fails), where the code dereferences
  NULL.

## Plan

What is left, in order of use:

1. A proof of `SerializesExactly`, with `_dict_serialize` and the lengths as recursive
   functions too.
2. A composition of EventPool and Socket, in place of the dispatcher that Socket
   assumes from EventPool's properties.
3. Several listening transports in Name, and the blocking mode of the socket.
