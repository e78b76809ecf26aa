----------------------------- MODULE EventPool -----------------------------
(***************************************************************************)
(* The event pool of event.c with its epoll back end.                      *)
(*                                                                         *)
(* The registry event_pool->reg is an array of registrations; the kernel   *)
(* keeps, for every descriptor of the epoll set, the index of its slot.    *)
(* Unregistering a descriptor moves the last slot into the hole, so an     *)
(* index that a caller or an event of the current batch remembers may be   *)
(* stale: every lookup treats it as a hint.                                *)
(*                                                                         *)
(* Every critical section under event_pool->mutex is one step.  One thread *)
(* runs event_dispatch; handlers run in it, without the mutex.  Any thread *)
(* may register a descriptor or change its interest at any time; a         *)
(* registered descriptor is unregistered and closed by the handler of the  *)
(* transport that owns it (__socket_reset).                                *)
(*                                                                         *)
(* socket_listen closes a descriptor whose registration failed and leaves  *)
(* its slot behind: from then on the number is in `abandoned'.             *)
(*                                                                         *)
(* Indices start at 1 here, at 0 in the code; 0 stands for the code's -1.  *)
(***************************************************************************)
EXTENDS Integers, Sequences, FiniteSets

CONSTANTS
    Fds,         \* descriptor numbers
    Datas,       \* handler and data pairs (transports)
    InitCount,   \* the count given to event_pool_new
    EvSlack,     \* 256 in event_dispatch_epoll
    MaxSlots,    \* bound: slots of the registry in use
    Dead,        \* the fd -1 of an abandoned slot
    NoData       \* owner of a closed descriptor

ASSUME InitCountAssumption == InitCount \in Nat \ {0}
ASSUME EvSlackAssumption == EvSlack \in Nat
ASSUME DeadAssumption == Dead \notin Fds
ASSUME NoDataAssumption == NoData \notin Datas

Interest == {"in", "out"}
Stages == {"closed", "open", "registered", "failed", "unregistered"}
Slot == [fd : Fds \cup {Dead}, events : SUBSET Interest, data : Datas]
NoCall == [fd |-> Dead, data |-> NoData, err |-> FALSE]
Event == [fd : Fds, idx : Nat, err : BOOLEAN]

VARIABLES
    reg,           \* event_pool->reg; its length is event_pool->used
    count,         \* event_pool->count
    evcache_size,  \* event_pool->evcache_size
    interest,      \* kernel: the descriptors of the epoll set
    kidx,          \* kernel: the idx of their epoll data
    kev,           \* kernel: the events they were added or modified with
    hup,           \* kernel: descriptors with an error or hangup pending
    stage,         \* life of each descriptor, as its owner knows it
    abandoned,     \* ghost: numbers that were closed while a slot had them
    owner,         \* the handler data that owns each open descriptor
    hint,          \* the index its owner remembers (priv->idx)
    pc,            \* where the dispatcher is
    batch,         \* the events of evcache it has not dispatched yet
    call           \* the event and the data of the handler it runs

client == <<stage, owner, hint, abandoned>>
kernel == <<interest, kidx, kev>>
dispatcher == <<pc, batch, call, evcache_size>>
vars == <<reg, count, kernel, hup, client, dispatcher>>

-----------------------------------------------------------------------------
(* The registry *)

used == Len(reg)

SlotsOf(fd) == {i \in DOMAIN reg : reg[i].fd = fd}

\* Mutant of __event_getindex: a hint inside the array is believed.
GetindexTrustsHint(fd, idx) ==
    IF idx \in DOMAIN reg THEN idx
    ELSE IF SlotsOf(fd) = {} THEN 0
    ELSE CHOOSE i \in SlotsOf(fd) : \A j \in SlotsOf(fd) : i <= j

\* __event_getindex: the hint if its slot has the descriptor, else the first
\* slot that has it.
event_getindex(fd, idx) ==
    IF idx \in SlotsOf(fd) THEN idx
    ELSE IF SlotsOf(fd) = {} THEN 0
    ELSE CHOOSE i \in SlotsOf(fd) : \A j \in SlotsOf(fd) : i <= j

\* The switch on poll_in or poll_out: set, clear or keep one event.
Switch(events, e, poll) ==
    CASE poll = 1 -> events \cup {e}
      [] poll = 0 -> events \ {e}
      [] poll = -1 -> events

Adjust(events, poll_in, poll_out) == Switch(Switch(events, "in", poll_in), "out", poll_out)

\* epoll_ctl with EPOLL_CTL_DEL: the kernel forgets the descriptor, if it knows it.
Forget(fd) ==
    /\ interest' = interest \ {fd}
    /\ kidx' = [kidx EXCEPT ![fd] = 0]
    /\ kev' = [kev EXCEPT ![fd] = {}]

\* epoll_ctl with EPOLL_CTL_MOD on a descriptor of the epoll set.
CtlMod(fd, idx, events) ==
    /\ kidx' = [kidx EXCEPT ![fd] = idx]
    /\ kev' = [kev EXCEPT ![fd] = events]
    /\ UNCHANGED interest

-----------------------------------------------------------------------------
(* event_register *)

\* The array doubles when it is full and the new slot is the one after the last.
AddSlot(fd, poll_in, poll_out) ==
    /\ stage[fd] = "open"
    /\ used < MaxSlots
    /\ count' = IF count = used THEN 2 * count ELSE count
    /\ reg' = Append(reg, [fd |-> fd, events |-> Adjust({}, poll_in, poll_out),
                           data |-> owner[fd]])

\* Mutant of Wake: the dispatcher is not told of a new descriptor.
WakeNobody == UNCHANGED pc

\* pthread_cond_broadcast.
Wake == pc' = IF pc = "asleep" THEN "top" ELSE pc

\* epoll_ctl succeeds; event_register returns its 0, which the owner keeps as
\* the index of its slot.
event_register(fd, poll_in, poll_out) ==
    /\ AddSlot(fd, poll_in, poll_out)
    /\ interest' = interest \cup {fd}
    /\ kidx' = [kidx EXCEPT ![fd] = used + 1]
    /\ kev' = [kev EXCEPT ![fd] = Adjust({}, poll_in, poll_out)]
    /\ stage' = [stage EXCEPT ![fd] = "registered"]
    /\ hint' = [hint EXCEPT ![fd] = 1]
    /\ Wake
    /\ UNCHANGED <<hup, owner, abandoned, batch, call, evcache_size>>

\* epoll_ctl fails: the new slot stays in use and nobody is woken.
RegisterFails(fd, poll_in, poll_out) ==
    /\ AddSlot(fd, poll_in, poll_out)
    /\ stage' = [stage EXCEPT ![fd] = "failed"]
    /\ hint' = [hint EXCEPT ![fd] = 0]
    /\ UNCHANGED <<kernel, hup, owner, abandoned, dispatcher>>

-----------------------------------------------------------------------------
(* event_unregister *)

\* Mutant of Unregister: the kernel keeps the old index of the moved slot.
UnregisterWithoutMod(fd) ==
    LET idx  == event_getindex(fd, hint[fd])
        last == reg[used]
    IN  /\ idx # 0
        /\ Forget(fd)
        /\ reg' = [i \in 1 .. used - 1 |-> IF i = idx THEN last ELSE reg[i]]

\* event_unregister_epoll.  A descriptor that is not in the epoll set (its
\* registration failed) leaves its slot dead; so does one that cannot be
\* replaced by the last slot because the kernel does not know that one.  The
\* callers of this model have a slot, so the lookup does not fail.
Unregister(fd) ==
    LET idx  == event_getindex(fd, hint[fd])
        dead == [reg EXCEPT ![idx].fd = Dead]
        last == reg[used]
    IN  /\ idx # 0
        /\ \/ /\ fd \notin interest
              /\ reg' = dead
              /\ Forget(fd)
           \/ /\ fd \in interest
              /\ idx = used
              /\ reg' = SubSeq(reg, 1, used - 1)
              /\ Forget(fd)
           \/ /\ fd \in interest
              /\ idx # used
              /\ last.fd \notin interest \ {fd}
              /\ reg' = dead
              /\ Forget(fd)
           \/ /\ fd \in interest
              /\ idx # used
              /\ last.fd \in interest \ {fd}
              /\ reg' = [SubSeq(reg, 1, used - 1) EXCEPT ![idx] = last]
              /\ interest' = interest \ {fd}
              /\ kidx' = [kidx EXCEPT ![fd] = 0, ![last.fd] = idx]
              /\ kev' = [kev EXCEPT ![fd] = {}, ![last.fd] = last.events]

-----------------------------------------------------------------------------
(* event_select_on *)

\* event_select_on_epoll, by the owner of a registered descriptor; the return
\* value 0 becomes the owner's index.
SelectOn(fd, poll_in, poll_out) ==
    LET idx    == event_getindex(fd, hint[fd])
        events == Adjust(reg[idx].events, poll_in, poll_out)
    IN  /\ stage[fd] = "registered"
        /\ idx # 0
        /\ reg' = [reg EXCEPT ![idx].events = events]
        /\ CtlMod(fd, idx, events)
        /\ hint' = [hint EXCEPT ![fd] = 1]
        /\ UNCHANGED <<count, hup, stage, owner, abandoned, dispatcher>>

-----------------------------------------------------------------------------
(* The owners of descriptors *)

\* socket, accept: a transport gets a descriptor number that is free.
Open(fd, d) ==
    /\ stage[fd] = "closed"
    /\ \A f \in Fds : owner[f] # d
    /\ stage' = [stage EXCEPT ![fd] = "open"]
    /\ owner' = [owner EXCEPT ![fd] = d]
    /\ UNCHANGED <<reg, count, kernel, hup, hint, abandoned, dispatcher>>

\* close: the number can be used again.
Close(fd) ==
    /\ stage' = [stage EXCEPT ![fd] = "closed"]
    /\ owner' = [owner EXCEPT ![fd] = NoData]
    /\ hint' = [hint EXCEPT ![fd] = 0]
    /\ hup' = hup \ {fd}

\* socket_connect fails before it registers the descriptor.
CloseUnused(fd) ==
    /\ stage[fd] = "open"
    /\ Close(fd)
    /\ UNCHANGED <<reg, count, kernel, abandoned, dispatcher>>

\* event_register returned -1.  The caller leaves the descriptor open, as
\* socket_connect does; or unregisters and closes it; or, as socket_listen
\* does, closes it and leaves the slot in use.
UnregisterFailed(fd) ==
    /\ stage[fd] = "failed"
    /\ Unregister(fd)
    /\ stage' = [stage EXCEPT ![fd] = "unregistered"]
    /\ UNCHANGED <<count, hup, owner, hint, abandoned, dispatcher>>

CloseFailed(fd) ==
    /\ \/ stage[fd] = "unregistered" /\ ~(pc = "closing" /\ call.fd = fd)
          /\ UNCHANGED abandoned
       \/ stage[fd] = "failed" /\ abandoned' = abandoned \cup {fd}
    /\ Close(fd)
    /\ UNCHANGED <<reg, count, kernel, dispatcher>>

\* The peer hangs up, or __socket_disconnect shuts the connection down.
Hangup(fd) ==
    /\ stage[fd] = "registered"
    /\ hup' = hup \cup {fd}
    /\ UNCHANGED <<reg, count, kernel, client, dispatcher>>

-----------------------------------------------------------------------------
(* event_dispatch *)

\* Loop head: sleep while nothing is registered; make the event cache as large
\* as the registry.
Sleep ==
    /\ pc = "top"
    /\ used = 0
    /\ pc' = "asleep"
    /\ UNCHANGED <<reg, count, kernel, hup, client, batch, call, evcache_size>>

\* pthread_cond_wait may return without a broadcast; the while loop tests again.
SpuriousWakeup ==
    /\ pc = "asleep"
    /\ pc' = "top"
    /\ UNCHANGED <<reg, count, kernel, hup, client, batch, call, evcache_size>>

PreparePoll ==
    /\ pc = "top"
    /\ used # 0
    /\ evcache_size' = IF used > evcache_size THEN used + EvSlack ELSE evcache_size
    /\ pc' = "poll"
    /\ UNCHANGED <<reg, count, kernel, hup, client, batch, call>>

\* epoll_wait: descriptors with an error or hangup, and any others that are
\* ready for what they are interested in, as many as the cache holds.
EpollWait ==
    /\ pc = "poll"
    /\ \E R \in SUBSET interest :
          /\ interest \cap hup \subseteq R
          /\ R # {}
          /\ \E B \in SUBSET R :
                /\ Cardinality(B) = IF Cardinality(R) <= evcache_size
                                    THEN Cardinality(R) ELSE evcache_size
                /\ batch' = {[fd |-> f, idx |-> kidx[f], err |-> f \in hup] : f \in B}
    /\ pc' = "batch"
    /\ UNCHANGED <<reg, count, kernel, hup, client, call, evcache_size>>

\* epoll_wait returns 0 or EINTR.
Interrupted ==
    /\ pc = "poll"
    /\ pc' = "top"
    /\ UNCHANGED <<reg, count, kernel, hup, client, batch, call, evcache_size>>

\* event_dispatch_epoll_handler: look the handler up under the mutex; the call
\* happens after the unlock.  An event whose descriptor is gone is dropped.  The
\* handler first stores the event's index (priv->idx = idx) in its transport.
Lookup ==
    /\ pc = "batch"
    /\ \E e \in batch :
          LET idx == event_getindex(e.fd, e.idx) IN
          /\ batch' = batch \ {e}
          /\ pc' = IF idx = 0 THEN "batch" ELSE "called"
          /\ call' = IF idx = 0 THEN NoCall
                     ELSE [fd |-> e.fd, data |-> reg[idx].data, err |-> e.err]
          /\ hint' = IF idx = 0 THEN hint
                     ELSE [f \in Fds |-> IF owner[f] = reg[idx].data THEN e.idx ELSE hint[f]]
    /\ UNCHANGED <<reg, count, kernel, hup, stage, owner, abandoned, evcache_size>>

BatchDone ==
    /\ pc = "batch"
    /\ batch = {}
    /\ pc' = "top"
    /\ UNCHANGED <<reg, count, kernel, hup, client, batch, call, evcache_size>>

\* The handler returns and leaves its descriptor registered.  It has to act on an
\* error only if it is the owner's: the handler of another transport finds its own
\* descriptor in order, or has none.
HandlerReturns ==
    /\ pc = "called"
    /\ call.err => owner[call.fd] # call.data
    /\ pc' = "batch"
    /\ call' = NoCall
    /\ UNCHANGED <<reg, count, kernel, hup, client, batch, evcache_size>>

\* The handler failed or the event reports an error: __socket_reset unregisters
\* the descriptor of the handler's transport, priv->sock, and then closes it.
HandlerUnregisters ==
    /\ pc = "called"
    /\ \E fd \in Fds :
          /\ owner[fd] = call.data
          /\ stage[fd] \in {"registered", "failed"}
          /\ Unregister(fd)
          /\ stage' = [stage EXCEPT ![fd] = "unregistered"]
          /\ call' = [call EXCEPT !.fd = fd]
    /\ pc' = "closing"
    /\ UNCHANGED <<count, hup, owner, hint, abandoned, batch, evcache_size>>

HandlerCloses ==
    /\ pc = "closing"
    /\ Close(call.fd)
    /\ pc' = "batch"
    /\ call' = NoCall
    /\ UNCHANGED <<reg, count, kernel, abandoned, batch, evcache_size>>

-----------------------------------------------------------------------------

\* event_pool_new_epoll.
Init ==
    /\ reg = <<>>
    /\ count = InitCount
    /\ evcache_size = 0
    /\ interest = {}
    /\ kidx = [f \in Fds |-> 0]
    /\ kev = [f \in Fds |-> {}]
    /\ hup = {}
    /\ stage = [f \in Fds |-> "closed"]
    /\ owner = [f \in Fds |-> NoData]
    /\ hint = [f \in Fds |-> 0]
    /\ abandoned = {}
    /\ pc = "top"
    /\ batch = {}
    /\ call = NoCall

\* The calls of socket.c: register with (1, 0) or (1, 1), select_on with (-1, 0)
\* or (-1, 1).
Owner(fd) ==
    \/ \E d \in Datas : Open(fd, d)
    \/ \E out \in {0, 1} : event_register(fd, 1, out)
    \/ \E out \in {0, 1} : RegisterFails(fd, 1, out)
    \/ \E out \in {0, 1} : SelectOn(fd, -1, out)
    \/ CloseUnused(fd)
    \/ UnregisterFailed(fd)
    \/ CloseFailed(fd)
    \/ Hangup(fd)

Dispatcher ==
    \/ Sleep
    \/ SpuriousWakeup
    \/ PreparePoll
    \/ EpollWait
    \/ Interrupted
    \/ Lookup
    \/ BatchDone
    \/ HandlerReturns
    \/ HandlerUnregisters
    \/ HandlerCloses

Next == Dispatcher \/ \E fd \in Fds : Owner(fd)

Spec == Init /\ [][Next]_vars

\* epoll_wait reports the error or hangup of a descriptor.
EpollReports(fd) == EpollWait /\ \E e \in batch' : e.fd = fd /\ e.err

\* The dispatcher thread keeps running.  A signal may interrupt epoll_wait, but not
\* every one of its calls; and the kernel queues the descriptors that are ready, so
\* that one a full cache leaves out is not left out for ever.
Progress ==
    PreparePoll \/ Lookup \/ BatchDone \/ HandlerReturns \/ HandlerUnregisters \/ HandlerCloses

Fairness == WF_vars(Progress) /\ \A fd \in Fds : SF_vars(EpollReports(fd))

FairSpec == Spec /\ Fairness

-----------------------------------------------------------------------------
(* Properties *)

\* Types; the registry never outgrows the allocation that event_register grows.
TypeOK ==
    /\ reg \in Seq(Slot)
    /\ count \in Nat /\ used <= count
    /\ evcache_size \in Nat
    /\ interest \subseteq Fds
    /\ kidx \in [Fds -> Nat]
    /\ kev \in [Fds -> SUBSET Interest]
    /\ hup \subseteq Fds
    /\ stage \in [Fds -> Stages]
    /\ owner \in [Fds -> Datas \cup {NoData}]
    /\ hint \in [Fds -> Nat]
    /\ abandoned \subseteq Fds
    /\ pc \in {"top", "asleep", "poll", "batch", "called", "closing"}
    /\ batch \subseteq Event
    /\ call \in [fd : Fds \cup {Dead}, data : Datas \cup {NoData}, err : BOOLEAN]

\* Whatever registrations fail and whatever slots are left behind, the index the
\* kernel keeps for a descriptor is that of a slot with this number and with the
\* events it polls for: the move of the last slot in event_unregister never leaves
\* the kernel pointing at a hole or at another descriptor's slot.
KernelSlotHasFd ==
    \A fd \in interest :
        /\ kidx[fd] \in DOMAIN reg
        /\ reg[kidx[fd]].fd = fd
        /\ reg[kidx[fd]].events = kev[fd]

\* A number that nobody abandoned has one slot while its descriptor is registered or
\* its registration has failed, and none otherwise; the slot carries the data of the
\* descriptor's owner.  A slot that socket_listen leaves behind upsets lookups of
\* its own number only.
SlotsBelongToOwners ==
    \A i \in DOMAIN reg : reg[i].fd \in Fds \ abandoned =>
        /\ stage[reg[i].fd] \in {"registered", "failed"}
        /\ reg[i].data = owner[reg[i].fd]
        /\ \A j \in DOMAIN reg : reg[j].fd = reg[i].fd => j = i

\* The registry and the kernel's epoll set agree on every descriptor, and the
\* registry and the transports on every one whose number was never abandoned,
\* through every order of registrations, failures, hole filling moves, closes and
\* reuse of numbers.
RegistryConsistent == TypeOK /\ KernelSlotHasFd /\ SlotsBelongToOwners

\* The handler that event_dispatch_epoll_handler looks up is the one of the transport
\* that owns the descriptor at that moment, whatever was registered, moved or
\* unregistered since epoll_wait filled the batch, unless the number was abandoned:
\* then it may be the handler of whoever left the slot behind.
HandlerTargetsOwner ==
    [][pc = "batch" /\ pc' = "called" /\ call'.fd \notin abandoned =>
          /\ stage[call'.fd] \in {"registered", "failed"}
          /\ owner[call'.fd] = call'.data]_vars

\* The dispatcher never sleeps on the condition variable while the epoll set has
\* a descriptor: no wakeup of event_register is lost.
NoLostWakeup == pc = "asleep" => interest = {}

\* A connection that hangs up (or that __socket_disconnect shuts down) is reset
\* and its descriptor closed, if nobody abandoned its number before.
HangupHandled == \A fd \in Fds : fd \in hup \ abandoned ~> stage[fd] = "closed"

\* "if ret is -1, this array member should never be accessed": a slot whose
\* EPOLL_CTL_DEL failed is never read again.  event_unregister reads the last
\* slot, reg[lastidx], when it fills a hole.
DeadMemberNeverAccessed ==
    [][\A fd \in Fds :
          (fd \in interest /\ fd \notin interest' /\ event_getindex(fd, hint[fd]) # used)
              => reg[used].fd # Dead]_vars
=============================================================================
