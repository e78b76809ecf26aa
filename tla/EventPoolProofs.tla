-------------------------- MODULE EventPoolProofs --------------------------
(***************************************************************************)
(* The safety of the event registry for every number of descriptors and    *)
(* transports, every initial size of the array and every slack of the      *)
(* event cache.                                                            *)
(*                                                                         *)
(* The invariant ties together the array, the kernel's epoll set, what the *)
(* owners of descriptors did last and the handler that runs.  A number     *)
(* that socket_listen abandoned may have several slots, so that a lookup   *)
(* of it may find any of them; what is proved of the other numbers does    *)
(* not rest on those.                                                      *)
(***************************************************************************)
EXTENDS EventPool, WellFoundedInduction, TLAPS

-----------------------------------------------------------------------------
(* The inductive invariant *)

\* The numbers that were never closed while a slot had them.
Clean == Fds \ abandoned

\* The kernel watches the descriptors whose registration succeeded.
InterestRegistered == \A fd \in Fds : fd \in interest <=> stage[fd] = "registered"

\* A descriptor that is not closed belongs to a transport.
OwnersHaveData == \A fd \in Fds : stage[fd] # "closed" => owner[fd] \in Datas

\* The registry, the kernel and the owners.
RegistryTypes ==
    /\ reg \in Seq(Slot)
    /\ interest \subseteq Fds
    /\ kidx \in [Fds -> Nat]
    /\ kev \in [Fds -> SUBSET Interest]
    /\ stage \in [Fds -> Stages]
    /\ owner \in [Fds -> Datas \cup {NoData}]

RegistryInv ==
    /\ RegistryTypes
    /\ KernelSlotHasFd
    /\ SlotsBelongToOwners
    /\ InterestRegistered
    /\ OwnersHaveData

\* event_register doubles the array before it is full.
CountInv == count \in Nat \ {0} /\ used <= count

\* A descriptor that a handler closes has been unregistered.
CallInv ==
    /\ pc = "called" => call.fd \in Fds
    /\ pc = "closing" => call.fd \in Fds /\ stage[call.fd] = "unregistered"

DispatchTypes ==
    /\ evcache_size \in Nat
    /\ hup \subseteq Fds
    /\ hint \in [Fds -> Nat]
    /\ abandoned \subseteq Fds
    /\ pc \in {"top", "asleep", "poll", "batch", "called", "closing"}
    /\ batch \subseteq Event
    /\ call \in [fd : Fds \cup {Dead}, data : Datas \cup {NoData}, err : BOOLEAN]

IInv ==
    /\ RegistryInv
    /\ CountInv
    /\ DispatchTypes
    /\ CallInv
    /\ NoLostWakeup

-----------------------------------------------------------------------------
(* The registry *)

\* A set of slots has a first one.
LEMMA FirstSlot ==
    ASSUME NEW T \in SUBSET Nat, T # {}
    PROVE  \E i \in T : \A j \in T : i <= j
<1> DEFINE R == OpToRel(<, Nat)
<1>1. IsWellFoundedOn(R, Nat)
  BY NatLessThanWellFounded
<1>2. \A m, n \in Nat : m < n => <<m, n>> \in R
  BY DEF OpToRel
<1> HIDE DEF R
<1>3. PICK i \in T : \A j \in T : ~(<<j, i>> \in R)
  BY <1>1, WFMin
<1>4. \A j \in T : i \in Nat /\ j \in Nat /\ ~(j < i)
  BY <1>2, <1>3, Zenon
<1> QED  BY <1>4

\* __event_getindex returns a slot of the descriptor whatever the hint is, unless it
\* has none.
LEMMA GetindexLemma ==
    ASSUME RegistryInv, NEW fd \in Fds, NEW h
    PROVE  /\ event_getindex(fd, h) # 0 =>
                 event_getindex(fd, h) \in DOMAIN reg /\ reg[event_getindex(fd, h)].fd = fd
           /\ event_getindex(fd, h) = 0 => \A i \in DOMAIN reg : reg[i].fd # fd
<1> DEFINE S == SlotsOf(fd)
           First(i) == i \in S /\ \A j \in S : i <= j
<1>1. S \subseteq Nat \ {0}
  BY DEF RegistryInv, RegistryTypes, SlotsOf
<1>2. ASSUME S # {} PROVE First(CHOOSE i : First(i))
  <2>1. \E i \in S : \A j \in S : i <= j
    BY <1>1, <1>2, FirstSlot
  <2> QED  BY <2>1
<1>3. event_getindex(fd, h) = IF h \in S THEN h
                              ELSE IF S = {} THEN 0
                              ELSE CHOOSE i : First(i)
  BY DEF event_getindex
<1>4. S # {} => event_getindex(fd, h) \in S
  BY <1>2, <1>3
<1>5. S = {} => event_getindex(fd, h) = 0
  BY <1>3
<1>6. \A i : i \in S <=> i \in DOMAIN reg /\ reg[i].fd = fd
  BY DEF SlotsOf
<1> HIDE DEF S
<1> QED  BY <1>1, <1>4, <1>5, <1>6

\* What a step that leaves the registry, the kernel and the owners alone keeps.
LEMMA RegistryFrame ==
    ASSUME RegistryInv, CountInv,
           reg' = reg, count' = count, interest' = interest, kidx' = kidx, kev' = kev,
           stage' = stage, owner' = owner, abandoned' = abandoned
    PROVE  RegistryInv' /\ CountInv'
BY DEF RegistryInv, RegistryTypes, KernelSlotHasFd, SlotsBelongToOwners,
       InterestRegistered, OwnersHaveData, CountInv, used

\* Adjust computes a set of events.
LEMMA AdjustLemma ==
    ASSUME NEW E \in SUBSET Interest, NEW i \in {-1, 0, 1}, NEW o \in {-1, 0, 1}
    PROVE  Adjust(E, i, o) \in SUBSET Interest
<1>1. ASSUME NEW F \in SUBSET Interest, NEW e \in Interest, NEW p \in {-1, 0, 1}
      PROVE  Switch(F, e, p) \in SUBSET Interest
  <2>1. CASE p = 1
    BY <2>1 DEF Switch
  <2>2. CASE p = 0
    BY <2>2 DEF Switch
  <2>3. CASE p = -1
    BY <2>3 DEF Switch
  <2> QED  BY <2>1, <2>2, <2>3
<1>2. "in" \in Interest /\ "out" \in Interest
  BY DEF Interest
<1> QED  BY <1>1, <1>2 DEF Adjust

\* The new slot is the last one, and the only one of a descriptor whose number was
\* never abandoned.
LEMMA AddSlotLemma ==
    ASSUME RegistryInv, CountInv, NEW fd \in Fds, NEW o \in {0, 1}, AddSlot(fd, 1, o)
    PROVE  /\ reg' \in Seq(Slot)
           /\ Len(reg') = used + 1
           /\ CountInv'
           /\ stage[fd] = "open"
           /\ \A i \in DOMAIN reg : i \in DOMAIN reg' /\ reg'[i] = reg[i]
           /\ used + 1 \in DOMAIN reg'
           /\ reg'[used + 1].fd = fd
           /\ reg'[used + 1].events = Adjust({}, 1, o)
           /\ reg'[used + 1].data = owner[fd]
           /\ \A i \in DOMAIN reg' : i \in DOMAIN reg \/ i = used + 1
           /\ \A i \in DOMAIN reg : reg[i].fd \in Clean => reg[i].fd # fd
           /\ Adjust({}, 1, o) \in SUBSET Interest
<1> DEFINE E == Adjust({}, 1, o)
           s == [fd |-> fd, events |-> E, data |-> owner[fd]]
<1>1. /\ stage[fd] = "open"
      /\ count' = IF count = used THEN 2 * count ELSE count
      /\ reg' = Append(reg, s)
  BY DEF AddSlot
<1>2. E \in SUBSET Interest
  BY AdjustLemma
<1>3. s.fd = fd /\ s.events = E /\ s.data = owner[fd]
  OBVIOUS
<1>4. s \in Slot
  BY <1>1, <1>2 DEF Slot, RegistryInv, OwnersHaveData
<1>5. reg \in Seq(Slot)
  BY DEF RegistryInv, RegistryTypes
<1>6. \A i \in DOMAIN reg : reg[i].fd \in Clean => reg[i].fd # fd
  <2> SUFFICES ASSUME NEW i \in DOMAIN reg, reg[i].fd \in Clean, reg[i].fd = fd PROVE FALSE
    OBVIOUS
  <2>1. stage[fd] \in {"registered", "failed"}
    BY DEF RegistryInv, SlotsBelongToOwners, Clean
  <2> QED  BY <2>1, <1>1
<1> HIDE DEF s, E
<1>7. /\ reg' \in Seq(Slot) /\ Len(reg') = Len(reg) + 1 /\ Len(reg) \in Nat
      /\ DOMAIN reg = 1 .. Len(reg) /\ DOMAIN reg' = 1 .. Len(reg) + 1
      /\ \A i \in 1 .. Len(reg) : reg'[i] = reg[i]
      /\ reg'[Len(reg) + 1] = s
  BY <1>1, <1>4, <1>5
<1>8. CountInv'
  <2>1. count \in Nat \ {0} /\ Len(reg) <= count
    BY DEF CountInv, used
  <2>2. count' = IF count = Len(reg) THEN 2 * count ELSE count
    BY <1>1 DEF used
  <2>0. Len(reg) \in Nat
    BY <1>5
  <2>3. count' \in Nat \ {0} /\ Len(reg) + 1 <= count'
    BY <2>0, <2>1, <2>2
  <2>4. used' = Len(reg) + 1
    BY <1>7 DEF used
  <2> QED  BY <2>3, <2>4 DEF CountInv
<1> QED  BY <1>1, <1>2, <1>3, <1>6, <1>7, <1>8 DEF used, E

\* event_register keeps the registry consistent, if epoll_ctl succeeds.
LEMMA RegisterRegistry ==
    ASSUME RegistryInv, CountInv, NEW fd \in Fds, NEW o \in {0, 1},
           event_register(fd, 1, o)
    PROVE  RegistryInv' /\ CountInv'
<1> DEFINE n == used + 1
           E == Adjust({}, 1, o)
<1>1. /\ AddSlot(fd, 1, o)
      /\ interest' = interest \cup {fd}
      /\ kidx' = [kidx EXCEPT ![fd] = n]
      /\ kev' = [kev EXCEPT ![fd] = E]
      /\ stage' = [stage EXCEPT ![fd] = "registered"]
      /\ owner' = owner /\ abandoned' = abandoned
  BY DEF event_register
<1>2. /\ reg' \in Seq(Slot)
      /\ CountInv'
      /\ stage[fd] = "open"
      /\ \A i \in DOMAIN reg : i \in DOMAIN reg' /\ reg'[i] = reg[i]
      /\ n \in DOMAIN reg'
      /\ reg'[n].fd = fd
      /\ reg'[n].events = E
      /\ reg'[n].data = owner[fd]
      /\ \A i \in DOMAIN reg' : i \in DOMAIN reg \/ i = n
      /\ \A i \in DOMAIN reg : reg[i].fd \in Clean => reg[i].fd # fd
      /\ E \in SUBSET Interest
  BY <1>1, AddSlotLemma
<1>3. n \in Nat
  BY DEF used, RegistryInv, RegistryTypes
<1> HIDE DEF n, E
<1>4. /\ interest \subseteq Fds /\ kidx \in [Fds -> Nat] /\ kev \in [Fds -> SUBSET Interest]
      /\ stage \in [Fds -> Stages] /\ owner \in [Fds -> Datas \cup {NoData}]
  BY DEF RegistryInv, RegistryTypes
<1>5. RegistryTypes'
  <2>1. interest' \subseteq Fds /\ kidx' \in [Fds -> Nat] /\ kev' \in [Fds -> SUBSET Interest]
    BY <1>1, <1>2, <1>3, <1>4
  <2>2. stage' \in [Fds -> Stages] /\ owner' \in [Fds -> Datas \cup {NoData}]
    BY <1>1, <1>4 DEF Stages
  <2> QED  BY <2>1, <2>2, <1>2 DEF RegistryTypes
<1>6. KernelSlotHasFd'
  <2> SUFFICES ASSUME NEW f \in interest'
               PROVE  kidx'[f] \in DOMAIN reg' /\ reg'[kidx'[f]].fd = f /\ reg'[kidx'[f]].events = kev'[f]
    BY DEF KernelSlotHasFd
  <2>1. CASE f = fd
    BY <2>1, <1>1, <1>2, <1>4
  <2>2. CASE f # fd
    <3>1. f \in interest /\ kidx'[f] = kidx[f] /\ kev'[f] = kev[f]
      BY <2>2, <1>1, <1>4
    <3>2. kidx[f] \in DOMAIN reg /\ reg[kidx[f]].fd = f /\ reg[kidx[f]].events = kev[f]
      BY <3>1 DEF RegistryInv, KernelSlotHasFd
    <3> QED  BY <3>1, <3>2, <1>2
  <2> QED  BY <2>1, <2>2
<1>7. SlotsBelongToOwners'
  <2>1. ASSUME NEW i \in DOMAIN reg', reg'[i].fd \in Clean
        PROVE  stage'[reg'[i].fd] \in {"registered", "failed"} /\ reg'[i].data = owner'[reg'[i].fd]
    <3>1. CASE i = n
      BY <3>1, <1>1, <1>2, <1>4
    <3>2. CASE i # n
      <4>1. i \in DOMAIN reg /\ reg'[i] = reg[i] /\ reg[i].fd \in Fds /\ reg[i].fd # fd
        BY <3>2, <2>1, <1>2 DEF Clean
      <4>2. stage[reg[i].fd] \in {"registered", "failed"} /\ reg[i].data = owner[reg[i].fd]
        BY <4>1, <2>1 DEF RegistryInv, SlotsBelongToOwners, Clean
      <4>3. stage'[reg[i].fd] = stage[reg[i].fd]
        BY <4>1, <1>1, <1>4
      <4> QED  BY <4>1, <4>2, <4>3, <1>1
    <3> QED  BY <3>1, <3>2
  <2>2. ASSUME NEW i \in DOMAIN reg', NEW j \in DOMAIN reg', reg'[i].fd = reg'[j].fd, reg'[i].fd \in Clean
        PROVE  i = j
    BY <2>2, <1>2 DEF RegistryInv, SlotsBelongToOwners, Clean
  <2>3. Clean' = Clean
    BY <1>1 DEF Clean
  <2> QED  BY <2>1, <2>2, <2>3, Zenon DEF SlotsBelongToOwners, Clean
<1>8. InterestRegistered' /\ OwnersHaveData'
  <2>1. \A f \in Fds : stage'[f] = IF f = fd THEN "registered" ELSE stage[f]
    BY <1>1, <1>4
  <2>2. InterestRegistered'
    BY <2>1, <1>1 DEF RegistryInv, InterestRegistered
  <2>3. OwnersHaveData'
    BY <2>1, <1>1, <1>2 DEF RegistryInv, OwnersHaveData
  <2> QED  BY <2>2, <2>3
<1> QED  BY <1>2, <1>5, <1>6, <1>7, <1>8 DEF RegistryInv

\* A registration that fails leaves a slot the kernel does not know.
LEMMA RegisterFailsRegistry ==
    ASSUME RegistryInv, CountInv, NEW fd \in Fds, NEW o \in {0, 1},
           RegisterFails(fd, 1, o)
    PROVE  RegistryInv' /\ CountInv'
<1> DEFINE n == used + 1
<1>1. /\ AddSlot(fd, 1, o)
      /\ interest' = interest /\ kidx' = kidx /\ kev' = kev /\ owner' = owner
      /\ stage' = [stage EXCEPT ![fd] = "failed"] /\ abandoned' = abandoned
  BY DEF RegisterFails, kernel
<1>2. /\ reg' \in Seq(Slot)
      /\ CountInv'
      /\ stage[fd] = "open"
      /\ \A i \in DOMAIN reg : i \in DOMAIN reg' /\ reg'[i] = reg[i]
      /\ n \in DOMAIN reg'
      /\ reg'[n].fd = fd
      /\ reg'[n].data = owner[fd]
      /\ \A i \in DOMAIN reg' : i \in DOMAIN reg \/ i = n
      /\ \A i \in DOMAIN reg : reg[i].fd \in Clean => reg[i].fd # fd
  BY <1>1, AddSlotLemma
<1> HIDE DEF n
<1>3. stage \in [Fds -> Stages]
  BY DEF RegistryInv, RegistryTypes
<1>4. \A f \in Fds : stage'[f] = IF f = fd THEN "failed" ELSE stage[f]
  BY <1>1, <1>3
<1>5. RegistryTypes'
  <2>1. stage' \in [Fds -> Stages]
    BY <1>1, <1>3 DEF Stages
  <2> QED  BY <2>1, <1>1, <1>2 DEF RegistryInv, RegistryTypes
<1>6. KernelSlotHasFd'
  BY <1>1, <1>2 DEF RegistryInv, KernelSlotHasFd
<1>7. SlotsBelongToOwners'
  <2>1. ASSUME NEW i \in DOMAIN reg', reg'[i].fd \in Clean
        PROVE  stage'[reg'[i].fd] \in {"registered", "failed"} /\ reg'[i].data = owner'[reg'[i].fd]
    <3>1. CASE i = n
      BY <3>1, <1>1, <1>2, <1>4
    <3>2. CASE i # n
      <4>1. i \in DOMAIN reg /\ reg'[i] = reg[i] /\ reg[i].fd \in Fds /\ reg[i].fd # fd
        BY <3>2, <2>1, <1>2 DEF Clean
      <4>2. stage[reg[i].fd] \in {"registered", "failed"} /\ reg[i].data = owner[reg[i].fd]
        BY <4>1, <2>1 DEF RegistryInv, SlotsBelongToOwners, Clean
      <4>3. stage'[reg[i].fd] = stage[reg[i].fd]
        BY <4>1, <1>1, <1>3
      <4> QED  BY <4>1, <4>2, <4>3, <1>1
    <3> QED  BY <3>1, <3>2
  <2>2. ASSUME NEW i \in DOMAIN reg', NEW j \in DOMAIN reg', reg'[i].fd = reg'[j].fd, reg'[i].fd \in Clean
        PROVE  i = j
    BY <2>2, <1>2 DEF RegistryInv, SlotsBelongToOwners, Clean
  <2>3. Clean' = Clean
    BY <1>1 DEF Clean
  <2> QED  BY <2>1, <2>2, <2>3, Zenon DEF SlotsBelongToOwners, Clean
<1>8. InterestRegistered' /\ OwnersHaveData'
  <2>1. InterestRegistered'
    BY <1>1, <1>2, <1>4 DEF RegistryInv, InterestRegistered
  <2>2. OwnersHaveData'
    BY <1>1, <1>2, <1>4 DEF RegistryInv, OwnersHaveData
  <2> QED  BY <2>1, <2>2
<1> QED  BY <1>2, <1>5, <1>6, <1>7, <1>8 DEF RegistryInv

\* event_unregister keeps the registry consistent: the slot of the descriptor goes
\* or dies, and the last slot that moves into the hole takes its kernel index with it.
LEMMA UnregisterLemma ==
    ASSUME RegistryInv, NEW fd \in Fds, Unregister(fd)
    PROVE  /\ reg' \in Seq(Slot) /\ Len(reg') <= Len(reg)
           /\ interest' = interest \ {fd}
           /\ kidx' \in [Fds -> Nat] /\ kev' \in [Fds -> SUBSET Interest]
           /\ KernelSlotHasFd'
           /\ \A i \in DOMAIN reg' : reg'[i].fd \in Clean =>
                 \E j \in DOMAIN reg : reg'[i] = reg[j] /\ reg[j].fd # fd
           /\ \A i, j \in DOMAIN reg' : reg'[i].fd = reg'[j].fd /\ reg'[i].fd \in Clean => i = j
<1> DEFINE idx == event_getindex(fd, hint[fd])
           last == reg[used]
<1>1. idx \in DOMAIN reg /\ reg[idx].fd = fd
  BY GetindexLemma DEF Unregister
<1>2. /\ reg \in Seq(Slot) /\ Len(reg) \in Nat /\ DOMAIN reg = 1 .. Len(reg)
      /\ interest \subseteq Fds /\ kidx \in [Fds -> Nat] /\ kev \in [Fds -> SUBSET Interest]
  BY DEF RegistryInv, RegistryTypes
<1>3. \A f \in interest : /\ kidx[f] \in DOMAIN reg
                           /\ reg[kidx[f]].fd = f
                           /\ reg[kidx[f]].events = kev[f]
  BY DEF RegistryInv, KernelSlotHasFd
<1>4. \A i, j \in DOMAIN reg : reg[i].fd = reg[j].fd /\ reg[i].fd \in Clean => i = j
  BY DEF RegistryInv, SlotsBelongToOwners, Clean
<1>5. fd # Dead /\ Dead \notin Clean /\ used = Len(reg)
  BY DeadAssumption DEF used, Clean
<1>6. \/ /\ reg' = [reg EXCEPT ![idx].fd = Dead]
         /\ Forget(fd)
      \/ /\ idx = used
         /\ reg' = SubSeq(reg, 1, used - 1)
         /\ Forget(fd)
      \/ /\ idx # used
         /\ last.fd \in interest \ {fd}
         /\ reg' = [SubSeq(reg, 1, used - 1) EXCEPT ![idx] = last]
         /\ interest' = interest \ {fd}
         /\ kidx' = [kidx EXCEPT ![fd] = 0, ![last.fd] = idx]
         /\ kev' = [kev EXCEPT ![fd] = {}, ![last.fd] = last.events]
  BY DEF Unregister
<1> HIDE DEF idx
<1>7. ASSUME Forget(fd)
      PROVE  /\ interest' = interest \ {fd}
             /\ kidx' \in [Fds -> Nat] /\ kev' \in [Fds -> SUBSET Interest]
             /\ \A f \in interest' : kidx'[f] = kidx[f] /\ kev'[f] = kev[f] /\ f \in interest /\ f # fd
  BY <1>2, <1>7 DEF Forget
<1>8. CASE reg' = [reg EXCEPT ![idx].fd = Dead] /\ Forget(fd)
  <2>1. \A s \in Slot : [s EXCEPT !.fd = Dead] \in Slot /\ [s EXCEPT !.fd = Dead].fd = Dead
    BY DEF Slot
  <2>2. reg[idx] \in Slot
    BY <1>1, <1>2
  <2>3. /\ reg' = [reg EXCEPT ![idx] = [reg[idx] EXCEPT !.fd = Dead]]
        /\ [reg[idx] EXCEPT !.fd = Dead] \in Slot
        /\ [reg[idx] EXCEPT !.fd = Dead].fd = Dead
    BY <1>8, <2>1, <2>2
  <2>4. reg' \in Seq(Slot) /\ Len(reg') = Len(reg) /\ DOMAIN reg' = DOMAIN reg
    BY <1>1, <1>2, <2>3
  <2>5. \A i \in DOMAIN reg : IF i = idx THEN reg'[i].fd = Dead ELSE reg'[i] = reg[i]
    BY <1>1, <1>2, <2>3
  <2>6. \A i \in DOMAIN reg' : reg'[i].fd \in Clean => reg'[i] = reg[i] /\ i \in DOMAIN reg /\ i # idx
    BY <2>4, <2>5, <1>5
  <2>7. \A i \in DOMAIN reg' : reg'[i].fd \in Clean => reg[i].fd # fd
    BY <2>6, <1>1, <1>4, <1>5
  <2>8. KernelSlotHasFd'
    <3> SUFFICES ASSUME NEW f \in interest'
                 PROVE  kidx'[f] \in DOMAIN reg' /\ reg'[kidx'[f]].fd = f /\ reg'[kidx'[f]].events = kev'[f]
      BY DEF KernelSlotHasFd
    <3>1. kidx'[f] = kidx[f] /\ kev'[f] = kev[f] /\ f \in interest /\ f # fd
      BY <1>7, <1>8
    <3>2. kidx[f] # idx
      BY <3>1, <1>1, <1>3
    <3> QED  BY <3>1, <3>2, <1>3, <2>4, <2>5
  <2>9. \A i, j \in DOMAIN reg' : reg'[i].fd = reg'[j].fd /\ reg'[i].fd \in Clean => i = j
    BY <2>6, <1>4
  <2> QED  BY <1>2, <1>7, <1>8, <2>4, <2>6, <2>7, <2>8, <2>9
<1>9. CASE idx = used /\ reg' = SubSeq(reg, 1, used - 1) /\ Forget(fd)
  <2>1. /\ reg' \in Seq(Slot) /\ Len(reg') = Len(reg) - 1 /\ DOMAIN reg' = 1 .. Len(reg) - 1
        /\ \A i \in 1 .. Len(reg) - 1 : reg'[i] = reg[i]
    BY <1>1, <1>2, <1>5, <1>9
  <2>2. \A i \in DOMAIN reg' : i \in DOMAIN reg /\ i # idx /\ reg'[i] = reg[i]
    BY <2>1, <1>2, <1>5, <1>9
  <2>3. \A i \in DOMAIN reg : i # idx => i \in DOMAIN reg'
    BY <2>1, <1>2, <1>5, <1>9
  <2>4. KernelSlotHasFd'
    <3> SUFFICES ASSUME NEW f \in interest'
                 PROVE  kidx'[f] \in DOMAIN reg' /\ reg'[kidx'[f]].fd = f /\ reg'[kidx'[f]].events = kev'[f]
      BY DEF KernelSlotHasFd
    <3>1. kidx'[f] = kidx[f] /\ kev'[f] = kev[f] /\ f \in interest /\ f # fd
      BY <1>7, <1>9
    <3>2. kidx[f] # idx
      BY <3>1, <1>1, <1>3
    <3> QED  BY <3>1, <3>2, <1>3, <2>2, <2>3
  <2>5. \A i \in DOMAIN reg' : reg'[i].fd \in Clean => reg[i].fd # fd
    BY <2>2, <1>1, <1>4, <1>5
  <2>6. \A i, j \in DOMAIN reg' : reg'[i].fd = reg'[j].fd /\ reg'[i].fd \in Clean => i = j
    BY <2>2, <1>4
  <2>7. Len(reg') <= Len(reg)
    BY <2>1, <1>2
  <2> QED  BY <1>7, <1>9, <2>1, <2>2, <2>4, <2>5, <2>6, <2>7
<1>10. CASE /\ idx # used
            /\ last.fd \in interest \ {fd}
            /\ reg' = [SubSeq(reg, 1, used - 1) EXCEPT ![idx] = last]
            /\ interest' = interest \ {fd}
            /\ kidx' = [kidx EXCEPT ![fd] = 0, ![last.fd] = idx]
            /\ kev' = [kev EXCEPT ![fd] = {}, ![last.fd] = last.events]
  <2> DEFINE q == SubSeq(reg, 1, used - 1)
             n == Len(reg)
  <2>1. n \in Nat /\ n \in 1 .. n /\ idx \in 1 .. n - 1
    BY <1>1, <1>2, <1>5, <1>10
  <2>2. last = reg[n] /\ last \in Slot /\ last.events \in SUBSET Interest
    <3>1. last = reg[n] /\ last \in Slot
      BY <1>2, <1>5, <2>1
    <3> QED  BY <3>1 DEF Slot
  <2>3. q \in Seq(Slot) /\ Len(q) = n - 1 /\ \A i \in 1 .. n - 1 : q[i] = reg[i]
    BY <1>2, <1>5, <2>1
  <2> HIDE DEF q
  <2>4. reg' = [q EXCEPT ![idx] = last]
    BY <1>10 DEF q
  <2> HIDE DEF last
  <2>5. /\ reg' \in Seq(Slot) /\ Len(reg') = n - 1 /\ DOMAIN reg' = 1 .. n - 1
        /\ \A i \in 1 .. n - 1 : reg'[i] = IF i = idx THEN last ELSE q[i]
    BY <2>1, <2>2, <2>3, <2>4
  <2>6. \A i \in 1 .. n - 1 : reg'[i] = IF i = idx THEN reg[n] ELSE reg[i]
    BY <2>2, <2>3, <2>5
  <2>0. DOMAIN reg = 1 .. n
    BY <1>2
  <2> HIDE DEF n
  <2>7. \A i \in 1 .. n - 1 : i \in DOMAIN reg /\ i # n
    BY <2>0, <2>1
  <2>8. n \in DOMAIN reg /\ n # idx
    BY <2>0, <2>1
  <2>9. \A i \in DOMAIN reg' : reg'[i].fd \in Clean =>
           \E j \in DOMAIN reg : reg'[i] = reg[j] /\ reg[j].fd # fd
    <3> SUFFICES ASSUME NEW i \in 1 .. n - 1, reg'[i].fd \in Clean
                 PROVE  \E j \in DOMAIN reg : reg'[i] = reg[j] /\ reg[j].fd # fd
      BY <2>5
    <3>1. \A j \in DOMAIN reg : j # idx /\ reg[j].fd \in Clean => reg[j].fd # fd
      BY <1>1, <1>4
    <3>2. CASE i = idx
      BY <3>1, <3>2, <2>6, <2>8
    <3>3. CASE i # idx
      BY <3>1, <3>3, <2>6, <2>7
    <3> QED  BY <3>2, <3>3
  <2>10. \A i, j \in DOMAIN reg' : reg'[i].fd = reg'[j].fd /\ reg'[i].fd \in Clean => i = j
    <3> SUFFICES ASSUME NEW i \in 1 .. n - 1, NEW j \in 1 .. n - 1,
                        reg'[i].fd = reg'[j].fd, reg'[i].fd \in Clean
                 PROVE  i = j
      BY <2>5
    <3>1. CASE i = idx /\ j # idx
      BY <3>1, <2>6, <2>7, <2>8, <1>4
    <3>2. CASE i # idx /\ j = idx
      BY <3>2, <2>6, <2>7, <2>8, <1>4
    <3>3. CASE i # idx /\ j # idx
      BY <3>3, <2>6, <2>7, <1>4
    <3> QED  BY <3>1, <3>2, <3>3
  <2>11. idx \in Nat /\ fd # last.fd /\ last.fd \in Fds
    BY <1>10, <1>2, <2>1
  <2>12. /\ kidx' \in [Fds -> Nat] /\ kev' \in [Fds -> SUBSET Interest]
         /\ kidx'[last.fd] = idx /\ kev'[last.fd] = last.events
         /\ \A f \in Fds : f # fd /\ f # last.fd => kidx'[f] = kidx[f] /\ kev'[f] = kev[f]
    BY <1>10, <1>2, <2>2, <2>11
  <2>13. KernelSlotHasFd'
    <3> SUFFICES ASSUME NEW f \in interest'
                 PROVE  kidx'[f] \in DOMAIN reg' /\ reg'[kidx'[f]].fd = f /\ reg'[kidx'[f]].events = kev'[f]
      BY DEF KernelSlotHasFd
    <3>1. f \in interest /\ f \in Fds /\ f # fd
      BY <1>10, <1>2
    <3>2. CASE f = last.fd
      BY <3>2, <2>1, <2>2, <2>5, <2>12
    <3>3. CASE f # last.fd
      <4>0. kidx[f] \in DOMAIN reg /\ reg[kidx[f]].fd = f /\ reg[kidx[f]].events = kev[f]
        BY <3>1, <1>3
      <4>1. /\ kidx[f] \in 1 .. n /\ reg[kidx[f]].fd = f /\ reg[kidx[f]].events = kev[f]
            /\ kidx'[f] = kidx[f] /\ kev'[f] = kev[f]
        BY <3>1, <3>3, <4>0, <2>0, <2>12
      <4>2. kidx[f] # n /\ kidx[f] # idx
        BY <4>1, <3>1, <3>3, <1>1, <2>2
      <4>3. kidx[f] \in 1 .. n - 1
        BY <4>1, <4>2, <2>1
      <4> QED  BY <4>1, <4>2, <4>3, <2>5, <2>6
    <3> QED  BY <3>2, <3>3
  <2>14. Len(reg') <= Len(reg)
    BY <2>1, <2>5 DEF n
  <2> QED  BY <1>10, <2>5, <2>9, <2>10, <2>12, <2>13, <2>14
<1> QED  BY <1>6, <1>8, <1>9, <1>10

\* What a descriptor's owner does to stage and owner when its slot is gone or was
\* never made keeps the registry consistent.
LEMMA LeaveLemma ==
    ASSUME RegistryInv, NEW fd \in Fds, Unregister(fd),
           stage' = [stage EXCEPT ![fd] = "unregistered"], owner' = owner,
           stage[fd] # "closed", count' = count, CountInv, abandoned' = abandoned
    PROVE  RegistryInv' /\ CountInv'
<1>1. /\ reg' \in Seq(Slot) /\ Len(reg') <= Len(reg)
      /\ interest' = interest \ {fd}
      /\ kidx' \in [Fds -> Nat] /\ kev' \in [Fds -> SUBSET Interest]
      /\ KernelSlotHasFd'
      /\ \A i \in DOMAIN reg' : reg'[i].fd \in Clean =>
            \E j \in DOMAIN reg : reg'[i] = reg[j] /\ reg[j].fd # fd
      /\ \A i, j \in DOMAIN reg' : reg'[i].fd = reg'[j].fd /\ reg'[i].fd \in Clean => i = j
  BY UnregisterLemma
<1>2. stage \in [Fds -> Stages] /\ \A f \in Fds : stage'[f] = IF f = fd THEN "unregistered" ELSE stage[f]
  BY DEF RegistryInv, RegistryTypes
<1>3. RegistryTypes'
  <2>1. stage' \in [Fds -> Stages]
    BY <1>2 DEF Stages
  <2> QED  BY <2>1, <1>1 DEF RegistryInv, RegistryTypes
<1>4. SlotsBelongToOwners'
  <2>1. ASSUME NEW i \in DOMAIN reg', reg'[i].fd \in Clean
        PROVE  stage'[reg'[i].fd] \in {"registered", "failed"} /\ reg'[i].data = owner'[reg'[i].fd]
    <3>1. PICK j \in DOMAIN reg : reg'[i] = reg[j] /\ reg[j].fd # fd
      BY <1>1, <2>1
    <3>2. /\ stage[reg[j].fd] \in {"registered", "failed"} /\ reg[j].data = owner[reg[j].fd]
          /\ reg[j].fd \in Fds
      BY <3>1, <2>1 DEF RegistryInv, SlotsBelongToOwners, Clean
    <3>3. stage'[reg[j].fd] = stage[reg[j].fd]
      BY <3>1, <3>2, <1>2
    <3> QED  BY <3>1, <3>2, <3>3
  <2>2. Clean' = Clean
    BY DEF Clean
  <2> QED  BY <2>1, <2>2, <1>1, Zenon DEF SlotsBelongToOwners, Clean
<1>5. InterestRegistered'
  BY <1>1, <1>2 DEF RegistryInv, InterestRegistered
<1>6. OwnersHaveData'
  BY <1>2 DEF RegistryInv, OwnersHaveData
<1>7. CountInv'
  <2>1. Len(reg) \in Nat /\ Len(reg') \in Nat
    BY <1>1 DEF RegistryInv, RegistryTypes
  <2>2. count \in Nat \ {0} /\ Len(reg) <= count
    BY DEF CountInv, used
  <2>3. Len(reg') <= Len(reg)
    BY <1>1
  <2>4. Len(reg') <= count
    BY <2>1, <2>2, <2>3
  <2> QED  BY <2>2, <2>4 DEF CountInv, used
<1> QED  BY <1>1, <1>3, <1>4, <1>5, <1>6, <1>7 DEF RegistryInv

\* A descriptor that the kernel does not watch opens or closes; if it has a slot, its
\* number is abandoned.
LEMMA StageLemma ==
    ASSUME RegistryInv, CountInv, NEW fd \in Fds,
           stage[fd] # "registered", stage[fd] \in {"closed", "open", "unregistered"} \/ fd \in abandoned',
           abandoned \subseteq abandoned',
           NEW s \in {"closed", "open"}, NEW d \in Datas \cup {NoData},
           s = "open" => d \in Datas,
           stage' = [stage EXCEPT ![fd] = s], owner' = [owner EXCEPT ![fd] = d],
           reg' = reg, count' = count, interest' = interest, kidx' = kidx, kev' = kev
    PROVE  RegistryInv' /\ CountInv'
<1>1. stage \in [Fds -> Stages] /\ owner \in [Fds -> Datas \cup {NoData}]
  BY DEF RegistryInv, RegistryTypes
<1>2. \A f \in Fds : stage'[f] = IF f = fd THEN s ELSE stage[f]
  BY <1>1
<1>3. \A f \in Fds : owner'[f] = IF f = fd THEN d ELSE owner[f]
  BY <1>1
<1>4. RegistryTypes'
  <2>1. stage' \in [Fds -> Stages] /\ owner' \in [Fds -> Datas \cup {NoData}]
    BY <1>1 DEF Stages
  <2> QED  BY <2>1 DEF RegistryInv, RegistryTypes
<1>5. SlotsBelongToOwners'
  <2>1. ASSUME NEW i \in DOMAIN reg, reg[i].fd \in Fds \ abandoned'
        PROVE  /\ stage'[reg[i].fd] \in {"registered", "failed"} /\ reg[i].data = owner'[reg[i].fd]
               /\ \A j \in DOMAIN reg : reg[j].fd = reg[i].fd => j = i
    <3>1. /\ stage[reg[i].fd] \in {"registered", "failed"} /\ reg[i].data = owner[reg[i].fd]
          /\ \A j \in DOMAIN reg : reg[j].fd = reg[i].fd => j = i
      BY <2>1 DEF RegistryInv, SlotsBelongToOwners
    <3>2. reg[i].fd \in Fds /\ reg[i].fd # fd
      BY <2>1, <3>1
    <3> QED  BY <3>1, <3>2, <1>2, <1>3
  <2> QED  BY <2>1, Zenon DEF SlotsBelongToOwners
<1>6. InterestRegistered' /\ OwnersHaveData'
  <2>1. InterestRegistered'
    BY <1>2 DEF RegistryInv, InterestRegistered
  <2>2. OwnersHaveData'
    BY <1>2, <1>3 DEF RegistryInv, OwnersHaveData
  <2> QED  BY <2>1, <2>2
<1>7. KernelSlotHasFd' /\ CountInv'
  BY DEF RegistryInv, KernelSlotHasFd, CountInv, used
<1> QED  BY <1>4, <1>5, <1>6, <1>7 DEF RegistryInv

\* event_select_on keeps the registry and the kernel in step.
LEMMA SelectOnRegistry ==
    ASSUME RegistryInv, CountInv, NEW fd \in Fds, NEW o \in {0, 1}, SelectOn(fd, -1, o)
    PROVE  RegistryInv' /\ CountInv'
<1> DEFINE idx == event_getindex(fd, hint[fd])
           E == Adjust(reg[idx].events, -1, o)
<1>1. /\ reg' = [reg EXCEPT ![idx].events = E]
      /\ kidx' = [kidx EXCEPT ![fd] = idx]
      /\ kev' = [kev EXCEPT ![fd] = E]
      /\ interest' = interest /\ stage' = stage /\ owner' = owner /\ count' = count
      /\ abandoned' = abandoned
  BY DEF SelectOn, CtlMod
<1>2. idx \in DOMAIN reg /\ reg[idx].fd = fd
  BY GetindexLemma DEF SelectOn
<1>3. reg \in Seq(Slot) /\ kidx \in [Fds -> Nat] /\ kev \in [Fds -> SUBSET Interest]
  BY DEF RegistryInv, RegistryTypes
<1>4. reg[idx] \in Slot /\ idx \in Nat
  BY <1>2, <1>3
<1>5. E \in SUBSET Interest
  <2>1. reg[idx].events \in SUBSET Interest
    BY <1>4 DEF Slot
  <2>2. -1 \in {-1, 0, 1} /\ o \in {-1, 0, 1}
    OBVIOUS
  <2> QED  BY <2>1, <2>2, AdjustLemma
<1> HIDE DEF idx, E
<1> DEFINE s == [reg[idx] EXCEPT !.events = E]
<1>6. s \in Slot /\ s.fd = fd /\ s.events = E /\ s.data = reg[idx].data
  BY <1>2, <1>4, <1>5 DEF Slot
<1>7. reg' = [reg EXCEPT ![idx] = s]
  BY <1>1
<1> HIDE DEF s
<1>8. /\ reg' \in Seq(Slot) /\ DOMAIN reg' = DOMAIN reg /\ Len(reg') = Len(reg)
      /\ \A i \in DOMAIN reg : reg'[i] = IF i = idx THEN s ELSE reg[i]
  BY <1>2, <1>3, <1>6, <1>7
<1>9. \A i \in DOMAIN reg : reg'[i].fd = reg[i].fd /\ reg'[i].data = reg[i].data
  BY <1>2, <1>6, <1>8
<1>10. RegistryTypes'
  <2>1. kidx' \in [Fds -> Nat] /\ kev' \in [Fds -> SUBSET Interest]
    BY <1>1, <1>3, <1>4, <1>5
  <2> QED  BY <2>1, <1>1, <1>8 DEF RegistryInv, RegistryTypes
<1>11. KernelSlotHasFd'
  <2> SUFFICES ASSUME NEW f \in interest
               PROVE  kidx'[f] \in DOMAIN reg' /\ reg'[kidx'[f]].fd = f /\ reg'[kidx'[f]].events = kev'[f]
    BY <1>1 DEF KernelSlotHasFd
  <2>1. f \in Fds
    BY DEF RegistryInv, RegistryTypes
  <2>2. CASE f = fd
    BY <2>1, <2>2, <1>1, <1>2, <1>3, <1>6, <1>8
  <2>3. CASE f # fd
    <3>1. kidx[f] \in DOMAIN reg /\ reg[kidx[f]].fd = f /\ reg[kidx[f]].events = kev[f]
      BY DEF RegistryInv, KernelSlotHasFd
    <3>2. kidx[f] # idx
      BY <3>1, <2>3, <1>2
    <3>3. kidx'[f] = kidx[f] /\ kev'[f] = kev[f]
      BY <2>1, <2>3, <1>1, <1>3
    <3> QED  BY <3>1, <3>2, <3>3, <1>8
  <2> QED  BY <2>2, <2>3
<1>12. SlotsBelongToOwners'
  <2>1. ASSUME NEW i \in DOMAIN reg, reg[i].fd \in Clean
        PROVE  /\ stage[reg[i].fd] \in {"registered", "failed"} /\ reg[i].data = owner[reg[i].fd]
               /\ \A j \in DOMAIN reg : reg[j].fd = reg[i].fd => j = i
    BY <2>1 DEF RegistryInv, SlotsBelongToOwners, Clean
  <2>2. Clean' = Clean
    BY <1>1 DEF Clean
  <2>3. ASSUME NEW i \in DOMAIN reg', reg'[i].fd \in Clean
        PROVE  /\ stage'[reg'[i].fd] \in {"registered", "failed"} /\ reg'[i].data = owner'[reg'[i].fd]
               /\ \A j \in DOMAIN reg' : reg'[j].fd = reg'[i].fd => j = i
    <3>1. i \in DOMAIN reg /\ reg[i].fd \in Clean
      BY <2>3, <1>8, <1>9
    <3>2. reg'[i].fd = reg[i].fd /\ reg'[i].data = reg[i].data
      BY <3>1, <1>9
    <3>3. /\ stage[reg[i].fd] \in {"registered", "failed"} /\ reg[i].data = owner[reg[i].fd]
          /\ \A j \in DOMAIN reg : reg[j].fd = reg[i].fd => j = i
      BY <3>1, <2>1
    <3>4. \A j \in DOMAIN reg' : reg'[j].fd = reg'[i].fd => j = i
      BY <3>2, <3>3, <1>8, <1>9
    <3>5. stage' = stage /\ owner' = owner
      BY <1>1
    <3> QED  BY <3>2, <3>3, <3>4, <3>5, Zenon
  <2> QED  BY <2>2, <2>3, Zenon DEF SlotsBelongToOwners, Clean
<1>13. InterestRegistered' /\ OwnersHaveData'
  BY <1>1 DEF RegistryInv, InterestRegistered, OwnersHaveData
<1>14. CountInv'
  BY <1>1, <1>8 DEF CountInv, used
<1> QED  BY <1>10, <1>11, <1>12, <1>13, <1>14 DEF RegistryInv

-----------------------------------------------------------------------------
(* The dispatcher *)

\* A step of the owner of a descriptor that no handler is closing leaves the batch
\* and the running handler alone.
LEMMA OwnerLemma ==
    ASSUME IInv, NEW fd \in Fds,
           ~(pc = "closing" /\ call.fd = fd),
           batch' = batch, call' = call, evcache_size' = evcache_size,
           pc' = pc \/ (pc = "asleep" /\ pc' = "top"),
           hup' \subseteq Fds, hint' \in [Fds -> Nat], abandoned' \subseteq Fds,
           \A f \in Fds : f # fd => stage'[f] = stage[f] /\ owner'[f] = owner[f]
    PROVE  DispatchTypes' /\ CallInv'
<1>1. DispatchTypes'
  <2>1. pc' \in {"top", "asleep", "poll", "batch", "called", "closing"}
    BY DEF IInv, DispatchTypes
  <2>2. evcache_size' \in Nat /\ batch' \subseteq Event
    BY DEF IInv, DispatchTypes
  <2>3. call' \in [fd : Fds \cup {Dead}, data : Datas \cup {NoData}, err : BOOLEAN]
    BY Zenon DEF IInv, DispatchTypes
  <2> QED  BY <2>1, <2>2, <2>3, Zenon DEF DispatchTypes
<1>2. pc' \in {"called", "closing"} => pc' = pc
  OBVIOUS
<1>3. CallInv'
  BY <1>2 DEF IInv, CallInv
<1> QED  BY <1>1, <1>3

\* What a step that leaves the dispatcher and the owners alone keeps.
LEMMA DispatchFrame ==
    ASSUME IInv, batch' = batch, call' = call, evcache_size' = evcache_size, pc' = pc,
           stage' = stage, owner' = owner, hup' \subseteq Fds, hint' \in [Fds -> Nat],
           abandoned' \subseteq Fds
    PROVE  DispatchTypes' /\ CallInv'
<1>1. DispatchTypes'
  <2>1. /\ pc' \in {"top", "asleep", "poll", "batch", "called", "closing"}
        /\ evcache_size' \in Nat /\ batch' \subseteq Event
    BY DEF IInv, DispatchTypes
  <2>2. call' \in [fd : Fds \cup {Dead}, data : Datas \cup {NoData}, err : BOOLEAN]
    BY Zenon DEF IInv, DispatchTypes
  <2> QED  BY <2>1, <2>2, Zenon DEF DispatchTypes
<1>2. CallInv'
  BY DEF IInv, CallInv
<1> QED  BY <1>1, <1>2

-----------------------------------------------------------------------------
(* The steps of the owners *)

\* socket or accept gives a transport a descriptor.
LEMMA OpenInv ==
    ASSUME IInv, NEW fd \in Fds, NEW d \in Datas, Open(fd, d)
    PROVE  IInv'
<1>1. /\ stage[fd] = "closed"
      /\ stage' = [stage EXCEPT ![fd] = "open"] /\ owner' = [owner EXCEPT ![fd] = d]
      /\ reg' = reg /\ count' = count /\ interest' = interest /\ kidx' = kidx /\ kev' = kev
      /\ hup' = hup /\ hint' = hint
      /\ pc' = pc /\ batch' = batch /\ call' = call /\ evcache_size' = evcache_size
      /\ abandoned' = abandoned
  BY DEF Open, kernel, dispatcher
<1>2. RegistryInv' /\ CountInv'
  BY <1>1, StageLemma DEF IInv
<1>3. \A f \in Fds : f # fd => stage'[f] = stage[f] /\ owner'[f] = owner[f]
  BY <1>1 DEF IInv, RegistryInv, RegistryTypes
<1>4. ~(pc = "closing" /\ call.fd = fd)
  BY <1>1 DEF IInv, CallInv
<1>5. hup' \subseteq Fds /\ hint' \in [Fds -> Nat] /\ abandoned' \subseteq Fds
  BY <1>1 DEF IInv, DispatchTypes
<1>6. DispatchTypes' /\ CallInv'
  BY <1>1, <1>3, <1>4, <1>5, OwnerLemma
<1>7. NoLostWakeup'
  BY <1>1 DEF IInv, NoLostWakeup
<1> QED  BY <1>2, <1>6, <1>7 DEF IInv

\* close, of a descriptor that the kernel does not watch; if it has a slot its number
\* is abandoned.
LEMMA CloseInv ==
    ASSUME IInv, NEW fd \in Fds, Close(fd),
           \/ stage[fd] \in {"open", "unregistered"} /\ abandoned' = abandoned
           \/ stage[fd] = "failed" /\ abandoned' = abandoned \cup {fd},
           ~(pc = "closing" /\ call.fd = fd),
           UNCHANGED <<reg, count, kernel, dispatcher>>
    PROVE  IInv'
<1>1. /\ stage' = [stage EXCEPT ![fd] = "closed"] /\ owner' = [owner EXCEPT ![fd] = NoData]
      /\ hint' = [hint EXCEPT ![fd] = 0] /\ hup' = hup \ {fd}
      /\ reg' = reg /\ count' = count /\ interest' = interest /\ kidx' = kidx /\ kev' = kev
      /\ pc' = pc /\ batch' = batch /\ call' = call /\ evcache_size' = evcache_size
  BY DEF Close, kernel, dispatcher
<1>2. RegistryInv' /\ CountInv'
  <2>1. stage[fd] # "registered" /\ abandoned \subseteq abandoned'
    OBVIOUS
  <2>2. stage[fd] \in {"closed", "open", "unregistered"} \/ fd \in abandoned'
    OBVIOUS
  <2> QED  BY <1>1, <2>1, <2>2, StageLemma DEF IInv
<1>3. \A f \in Fds : f # fd => stage'[f] = stage[f] /\ owner'[f] = owner[f]
  BY <1>1 DEF IInv, RegistryInv, RegistryTypes
<1>4. hup' \subseteq Fds /\ hint' \in [Fds -> Nat] /\ abandoned' \subseteq Fds
  BY <1>1 DEF IInv, DispatchTypes
<1>5. DispatchTypes' /\ CallInv'
  BY <1>1, <1>3, <1>4, OwnerLemma
<1>6. NoLostWakeup'
  BY <1>1 DEF IInv, NoLostWakeup
<1> QED  BY <1>2, <1>5, <1>6 DEF IInv

\* event_register wakes the dispatcher when it gives the kernel something to watch.
LEMMA RegisterInv ==
    ASSUME IInv, NEW fd \in Fds, NEW o \in {0, 1}, event_register(fd, 1, o)
    PROVE  IInv'
<1>1. /\ stage[fd] = "open"
      /\ stage' = [stage EXCEPT ![fd] = "registered"] /\ owner' = owner
      /\ hint' = [hint EXCEPT ![fd] = 1] /\ hup' = hup
      /\ pc' = IF pc = "asleep" THEN "top" ELSE pc
      /\ batch' = batch /\ call' = call /\ evcache_size' = evcache_size
      /\ abandoned' = abandoned
  BY DEF event_register, AddSlot, Wake
<1>2. RegistryInv' /\ CountInv'
  BY RegisterRegistry DEF IInv
<1>3. \A f \in Fds : f # fd => stage'[f] = stage[f] /\ owner'[f] = owner[f]
  BY <1>1 DEF IInv, RegistryInv, RegistryTypes
<1>4. ~(pc = "closing" /\ call.fd = fd)
  BY <1>1 DEF IInv, CallInv
<1>5. hup' \subseteq Fds /\ hint' \in [Fds -> Nat] /\ abandoned' \subseteq Fds
  BY <1>1 DEF IInv, DispatchTypes
<1>6. DispatchTypes' /\ CallInv'
  BY <1>1, <1>3, <1>4, <1>5, OwnerLemma
<1>7. NoLostWakeup'
  BY <1>1 DEF NoLostWakeup
<1> QED  BY <1>2, <1>6, <1>7 DEF IInv

\* A registration that fails wakes nobody, and leaves nothing to wake for.
LEMMA RegisterFailsInv ==
    ASSUME IInv, NEW fd \in Fds, NEW o \in {0, 1}, RegisterFails(fd, 1, o)
    PROVE  IInv'
<1>1. /\ stage[fd] = "open"
      /\ stage' = [stage EXCEPT ![fd] = "failed"] /\ owner' = owner
      /\ hint' = [hint EXCEPT ![fd] = 0] /\ hup' = hup /\ interest' = interest
      /\ pc' = pc /\ batch' = batch /\ call' = call /\ evcache_size' = evcache_size
      /\ abandoned' = abandoned
  BY DEF RegisterFails, AddSlot, kernel, dispatcher
<1>2. RegistryInv' /\ CountInv'
  BY RegisterFailsRegistry DEF IInv
<1>3. \A f \in Fds : f # fd => stage'[f] = stage[f] /\ owner'[f] = owner[f]
  BY <1>1 DEF IInv, RegistryInv, RegistryTypes
<1>4. ~(pc = "closing" /\ call.fd = fd)
  BY <1>1 DEF IInv, CallInv
<1>5. hup' \subseteq Fds /\ hint' \in [Fds -> Nat] /\ abandoned' \subseteq Fds
  BY <1>1 DEF IInv, DispatchTypes
<1>6. DispatchTypes' /\ CallInv'
  BY <1>1, <1>3, <1>4, <1>5, OwnerLemma
<1>7. NoLostWakeup'
  BY <1>1 DEF IInv, NoLostWakeup
<1> QED  BY <1>2, <1>6, <1>7 DEF IInv

\* event_select_on leaves the dispatcher alone.
LEMMA SelectOnInv ==
    ASSUME IInv, NEW fd \in Fds, NEW o \in {0, 1}, SelectOn(fd, -1, o)
    PROVE  IInv'
<1>1. /\ hint' = [hint EXCEPT ![fd] = 1] /\ hup' = hup /\ interest' = interest
      /\ stage' = stage /\ owner' = owner
      /\ pc' = pc /\ batch' = batch /\ call' = call /\ evcache_size' = evcache_size
      /\ abandoned' = abandoned
  BY DEF SelectOn, CtlMod, dispatcher
<1>2. RegistryInv' /\ CountInv'
  BY SelectOnRegistry DEF IInv
<1>3. hup' \subseteq Fds /\ hint' \in [Fds -> Nat] /\ abandoned' \subseteq Fds
  BY <1>1 DEF IInv, DispatchTypes
<1>4. DispatchTypes' /\ CallInv'
  BY <1>1, <1>3, DispatchFrame
<1>5. NoLostWakeup'
  BY <1>1 DEF IInv, NoLostWakeup
<1> QED  BY <1>2, <1>4, <1>5 DEF IInv

\* event_unregister after a failed registration.
LEMMA UnregisterFailedInv ==
    ASSUME IInv, NEW fd \in Fds, UnregisterFailed(fd)
    PROVE  IInv'
<1>1. /\ stage[fd] = "failed" /\ Unregister(fd)
      /\ stage' = [stage EXCEPT ![fd] = "unregistered"] /\ owner' = owner
      /\ count' = count /\ hint' = hint /\ hup' = hup
      /\ pc' = pc /\ batch' = batch /\ call' = call /\ evcache_size' = evcache_size
      /\ abandoned' = abandoned
  BY DEF UnregisterFailed, dispatcher
<1>2. RegistryInv' /\ CountInv'
  BY <1>1, LeaveLemma DEF IInv
<1>3. \A f \in Fds : f # fd => stage'[f] = stage[f] /\ owner'[f] = owner[f]
  BY <1>1 DEF IInv, RegistryInv, RegistryTypes
<1>4. ~(pc = "closing" /\ call.fd = fd)
  BY <1>1 DEF IInv, CallInv
<1>5. hup' \subseteq Fds /\ hint' \in [Fds -> Nat] /\ abandoned' \subseteq Fds
  BY <1>1 DEF IInv, DispatchTypes
<1>6. DispatchTypes' /\ CallInv'
  BY <1>1, <1>3, <1>4, <1>5, OwnerLemma
<1>7. interest' = interest \ {fd}
  BY <1>1, UnregisterLemma DEF IInv
<1>8. NoLostWakeup'
  BY <1>1, <1>7 DEF IInv, NoLostWakeup
<1> QED  BY <1>2, <1>6, <1>8 DEF IInv

\* A connection breaks.
LEMMA HangupInv ==
    ASSUME IInv, NEW fd \in Fds, Hangup(fd)
    PROVE  IInv'
<1>1. /\ hup' = hup \cup {fd} /\ hint' = hint
      /\ reg' = reg /\ count' = count /\ interest' = interest /\ kidx' = kidx /\ kev' = kev
      /\ stage' = stage /\ owner' = owner
      /\ pc' = pc /\ batch' = batch /\ call' = call /\ evcache_size' = evcache_size
      /\ abandoned' = abandoned
  BY DEF Hangup, kernel, client, dispatcher
<1>2. RegistryInv' /\ CountInv'
  BY <1>1, RegistryFrame DEF IInv
<1>3. hup' \subseteq Fds /\ hint' \in [Fds -> Nat] /\ abandoned' \subseteq Fds
  BY <1>1 DEF IInv, DispatchTypes
<1>4. DispatchTypes' /\ CallInv'
  BY <1>1, <1>3, DispatchFrame
<1>5. NoLostWakeup'
  BY <1>1 DEF IInv, NoLostWakeup
<1> QED  BY <1>2, <1>4, <1>5 DEF IInv

\* Every step of an owner preserves the invariant.
LEMMA OwnerInv ==
    ASSUME IInv, NEW fd \in Fds, Owner(fd)
    PROVE  IInv'
<1>1. ASSUME NEW d \in Datas, Open(fd, d) PROVE IInv'
  BY <1>1, OpenInv
<1>2. ASSUME NEW o \in {0, 1}, event_register(fd, 1, o) PROVE IInv'
  BY <1>2, RegisterInv
<1>3. ASSUME NEW o \in {0, 1}, RegisterFails(fd, 1, o) PROVE IInv'
  BY <1>3, RegisterFailsInv
<1>4. ASSUME NEW o \in {0, 1}, SelectOn(fd, -1, o) PROVE IInv'
  BY <1>4, SelectOnInv
<1>5. CASE CloseUnused(fd)
  <2>1. /\ stage[fd] = "open" /\ Close(fd) /\ UNCHANGED <<reg, count, kernel, dispatcher>>
        /\ abandoned' = abandoned
    BY <1>5 DEF CloseUnused
  <2>2. ~(pc = "closing" /\ call.fd = fd)
    BY <2>1 DEF IInv, CallInv
  <2> QED  BY <2>1, <2>2, CloseInv
<1>6. CASE UnregisterFailed(fd)
  BY <1>6, UnregisterFailedInv
<1>7. CASE CloseFailed(fd)
  <2>1. /\ \/ stage[fd] \in {"open", "unregistered"} /\ abandoned' = abandoned
           \/ stage[fd] = "failed" /\ abandoned' = abandoned \cup {fd}
        /\ Close(fd) /\ UNCHANGED <<reg, count, kernel, dispatcher>>
    BY <1>7 DEF CloseFailed
  <2>2. ~(pc = "closing" /\ call.fd = fd)
    BY <1>7 DEF CloseFailed, IInv, CallInv
  <2> QED  BY <2>1, <2>2, CloseInv
<1>8. CASE Hangup(fd)
  BY <1>8, HangupInv
<1> QED  BY <1>1, <1>2, <1>3, <1>4, <1>5, <1>6, <1>7, <1>8 DEF Owner

-----------------------------------------------------------------------------
(* The steps of the dispatcher *)

\* What a step of the dispatcher that touches nothing outside keeps.
LEMMA DispatcherLemma ==
    ASSUME IInv, UNCHANGED <<reg, count, kernel, hup, stage, owner, abandoned>>
    PROVE  /\ RegistryInv' /\ CountInv' /\ hup' \subseteq Fds
           /\ interest' = interest /\ stage' = stage /\ owner' = owner /\ abandoned' = abandoned
<1>1. /\ reg' = reg /\ count' = count /\ interest' = interest /\ kidx' = kidx /\ kev' = kev
      /\ hup' = hup /\ stage' = stage /\ owner' = owner
  BY DEF kernel
<1>2. RegistryInv' /\ CountInv'
  BY <1>1, RegistryFrame DEF IInv
<1> QED  BY <1>1, <1>2 DEF IInv, DispatchTypes

\* No call is a call record.
LEMMA NoCallType ==
    NoCall \in [fd : Fds \cup {Dead}, data : Datas \cup {NoData}, err : BOOLEAN]
<1>1. FALSE \in BOOLEAN /\ Dead \in Fds \cup {Dead} /\ NoData \in Datas \cup {NoData}
  OBVIOUS
<1> QED  BY <1>1, Zenon DEF NoCall

\* The moves of the dispatcher between its loop head, its sleep and epoll_wait.
LEMMA LoopInv ==
    ASSUME IInv, Sleep \/ SpuriousWakeup \/ PreparePoll \/ Interrupted \/ BatchDone
    PROVE  IInv'
<1>1. /\ UNCHANGED <<reg, count, kernel, hup, stage, owner, abandoned>>
      /\ hint' = hint /\ batch' = batch /\ call' = call
      /\ pc' \in {"top", "asleep", "poll"}
  BY DEF Sleep, SpuriousWakeup, PreparePoll, Interrupted, BatchDone, client
<1>2. RegistryInv' /\ CountInv' /\ hup' \subseteq Fds
      /\ interest' = interest /\ stage' = stage /\ owner' = owner /\ abandoned' = abandoned
  BY <1>1, DispatcherLemma
<1>3. evcache_size' \in Nat
  <2>1. evcache_size \in Nat /\ used \in Nat
    BY DEF IInv, DispatchTypes, RegistryInv, RegistryTypes, used
  <2>2. evcache_size' \in {evcache_size, used + EvSlack}
    BY DEF Sleep, SpuriousWakeup, PreparePoll, Interrupted, BatchDone
  <2> QED  BY <2>1, <2>2, EvSlackAssumption
<1>4. DispatchTypes'
  <2>1. call' \in [fd : Fds \cup {Dead}, data : Datas \cup {NoData}, err : BOOLEAN]
    BY <1>1, Zenon DEF IInv, DispatchTypes
  <2>2. hint' \in [Fds -> Nat] /\ batch' \subseteq Event /\ abandoned' \subseteq Fds
    BY <1>1 DEF IInv, DispatchTypes
  <2> QED  BY <2>1, <2>2, <1>1, <1>2, <1>3, Zenon DEF DispatchTypes
<1>5. CallInv'
  BY <1>1 DEF CallInv
<1>6. NoLostWakeup'
  <2> SUFFICES ASSUME pc' = "asleep" PROVE interest' = {}
    BY DEF NoLostWakeup
  <2>1. Sleep
    BY DEF Sleep, SpuriousWakeup, PreparePoll, Interrupted, BatchDone
  <2>2. Len(reg) = 0
    BY <2>1 DEF Sleep, used
  <2>3. DOMAIN reg = {}
    BY <2>2 DEF IInv, RegistryInv, RegistryTypes
  <2>4. interest = {}
    BY <2>3 DEF IInv, RegistryInv, KernelSlotHasFd
  <2> QED  BY <2>4, <1>2
<1> QED  BY <1>2, <1>4, <1>5, <1>6 DEF IInv

\* epoll_wait fills the batch.
LEMMA EpollWaitInv ==
    ASSUME IInv, EpollWait
    PROVE  IInv'
<1>1. /\ UNCHANGED <<reg, count, kernel, hup, stage, owner, abandoned>>
      /\ hint' = hint /\ call' = call /\ evcache_size' = evcache_size
      /\ pc' = "batch"
  BY DEF EpollWait, client
<1>2. PICK B \in SUBSET interest :
         batch' = {[fd |-> f, idx |-> kidx[f], err |-> f \in hup] : f \in B}
  BY DEF EpollWait
<1>3. RegistryInv' /\ CountInv' /\ hup' \subseteq Fds
      /\ interest' = interest /\ stage' = stage /\ owner' = owner /\ abandoned' = abandoned
  BY <1>1, DispatcherLemma
<1>4. B \subseteq Fds /\ kidx \in [Fds -> Nat]
  BY DEF IInv, RegistryInv, RegistryTypes
<1>5. batch' \subseteq Event
  <2> SUFFICES ASSUME NEW f \in B
               PROVE  [fd |-> f, idx |-> kidx[f], err |-> f \in hup] \in Event
    BY <1>2, Zenon
  <2>1. f \in Fds /\ kidx[f] \in Nat
    BY <1>4
  <2>2. (f \in hup) \in BOOLEAN
    OBVIOUS
  <2> QED  BY <2>1, <2>2, Zenon DEF Event
<1>6. DispatchTypes'
  <2>1. call' \in [fd : Fds \cup {Dead}, data : Datas \cup {NoData}, err : BOOLEAN]
    BY <1>1, Zenon DEF IInv, DispatchTypes
  <2>2. hint' \in [Fds -> Nat] /\ evcache_size' \in Nat /\ abandoned' \subseteq Fds
    BY <1>1 DEF IInv, DispatchTypes
  <2> QED  BY <2>1, <2>2, <1>1, <1>3, <1>5, Zenon DEF DispatchTypes
<1>7. CallInv' /\ NoLostWakeup'
  BY <1>1 DEF CallInv, NoLostWakeup
<1> QED  BY <1>3, <1>6, <1>7 DEF IInv

\* The lookup finds a slot of the event's descriptor, whatever moved since epoll_wait,
\* or drops the event.
LEMMA LookupInv ==
    ASSUME IInv, Lookup
    PROVE  IInv'
<1>1. UNCHANGED <<reg, count, kernel, hup, stage, owner, abandoned>> /\ evcache_size' = evcache_size
  BY DEF Lookup
<1>2. PICK e, i :
         /\ e \in batch
         /\ i = event_getindex(e.fd, e.idx)
         /\ batch' = batch \ {e}
         /\ pc' = IF i = 0 THEN "batch" ELSE "called"
         /\ call' = IF i = 0 THEN NoCall ELSE [fd |-> e.fd, data |-> reg[i].data, err |-> e.err]
         /\ hint' = IF i = 0 THEN hint
                    ELSE [f \in Fds |-> IF owner[f] = reg[i].data THEN e.idx ELSE hint[f]]
  BY ZenonT(60) DEF Lookup
<1>3. /\ RegistryInv' /\ CountInv' /\ hup' \subseteq Fds
      /\ interest' = interest /\ stage' = stage /\ owner' = owner /\ abandoned' = abandoned
  BY <1>1, DispatcherLemma
<1>4. e \in Event /\ e.fd \in Fds /\ e.idx \in Nat
  BY <1>2 DEF IInv, DispatchTypes, Event
<1>5. i # 0 => i \in DOMAIN reg
  BY <1>2, <1>4, GetindexLemma DEF IInv
<1>6. i # 0 => reg[i].data \in Datas
  <2>1. reg \in Seq(Slot)
    BY DEF IInv, RegistryInv, RegistryTypes
  <2>2. i # 0 => reg[i] \in Slot
    BY <2>1, <1>5
  <2> QED  BY <2>2 DEF Slot
<1>7. DispatchTypes'
  <2>1. e.err \in BOOLEAN
    BY <1>4, Zenon DEF Event
  <2>2. call' \in [fd : Fds \cup {Dead}, data : Datas \cup {NoData}, err : BOOLEAN]
    <3>1. CASE i = 0
      BY <3>1, <1>2, NoCallType
    <3>2. CASE i # 0
      <4>1. e.fd \in Fds \cup {Dead} /\ reg[i].data \in Datas \cup {NoData}
        BY <3>2, <1>4, <1>6
      <4> QED  BY <4>1, <2>1, <3>2, <1>2, Zenon
    <3> QED  BY <3>1, <3>2
  <2>3. hint' \in [Fds -> Nat] /\ batch' \subseteq Event /\ evcache_size' \in Nat /\ abandoned' \subseteq Fds
    BY <1>1, <1>2, <1>4 DEF IInv, DispatchTypes
  <2>4. pc' \in {"top", "asleep", "poll", "batch", "called", "closing"}
    BY <1>2
  <2> QED  BY <2>2, <2>3, <2>4, <1>3, Zenon DEF DispatchTypes
<1>8. CallInv'
  <2>1. pc' # "closing" /\ (pc' = "called" => i # 0)
    BY <1>2
  <2>2. i # 0 => call'.fd = e.fd
    BY <1>2
  <2> QED  BY <2>1, <2>2, <1>4 DEF CallInv
<1>9. NoLostWakeup'
  BY <1>2 DEF NoLostWakeup
<1> QED  BY <1>3, <1>7, <1>8, <1>9 DEF IInv

\* A handler that leaves its descriptor registered.
LEMMA HandlerReturnsInv ==
    ASSUME IInv, HandlerReturns
    PROVE  IInv'
<1>1. /\ UNCHANGED <<reg, count, kernel, hup, stage, owner, abandoned>>
      /\ hint' = hint /\ batch' = batch /\ evcache_size' = evcache_size
      /\ pc' = "batch" /\ call' = NoCall
  BY DEF HandlerReturns, client
<1>2. RegistryInv' /\ CountInv' /\ hup' \subseteq Fds
      /\ interest' = interest /\ stage' = stage /\ owner' = owner /\ abandoned' = abandoned
  BY <1>1, DispatcherLemma
<1>3. DispatchTypes'
  <2>1. call' \in [fd : Fds \cup {Dead}, data : Datas \cup {NoData}, err : BOOLEAN]
    BY <1>1, NoCallType
  <2>2. hint' \in [Fds -> Nat] /\ evcache_size' \in Nat /\ batch' \subseteq Event
        /\ abandoned' \subseteq Fds
    BY <1>1 DEF IInv, DispatchTypes
  <2> QED  BY <2>1, <2>2, <1>1, <1>2, Zenon DEF DispatchTypes
<1>4. CallInv' /\ NoLostWakeup'
  BY <1>1 DEF CallInv, NoLostWakeup
<1> QED  BY <1>2, <1>3, <1>4 DEF IInv

\* __socket_reset unregisters the descriptor of the handler's transport.
LEMMA HandlerUnregistersInv ==
    ASSUME IInv, HandlerUnregisters
    PROVE  IInv'
<1>1. /\ pc' = "closing" /\ owner' = owner /\ abandoned' = abandoned
      /\ count' = count /\ hint' = hint /\ hup' = hup
      /\ batch' = batch /\ evcache_size' = evcache_size
  BY DEF HandlerUnregisters
<1>2. PICK fd \in Fds : /\ stage[fd] \in {"registered", "failed"}
                        /\ Unregister(fd)
                        /\ stage' = [stage EXCEPT ![fd] = "unregistered"]
                        /\ call' = [call EXCEPT !.fd = fd]
  BY DEF HandlerUnregisters
<1>3. RegistryInv' /\ CountInv'
  BY <1>1, <1>2, LeaveLemma DEF IInv
<1>4. /\ call' \in [fd : Fds \cup {Dead}, data : Datas \cup {NoData}, err : BOOLEAN]
      /\ call'.fd = fd
  <2>1. call \in [fd : Fds \cup {Dead}, data : Datas \cup {NoData}, err : BOOLEAN]
    BY Zenon DEF IInv, DispatchTypes
  <2>2. call' = [fd |-> fd, data |-> call.data, err |-> call.err]
    BY <1>2, <2>1, Zenon
  <2>3. call.data \in Datas \cup {NoData} /\ call.err \in BOOLEAN /\ fd \in Fds \cup {Dead}
    BY <2>1, Zenon
  <2> QED  BY <2>2, <2>3, Zenon
<1>5. DispatchTypes'
  <2>1. /\ hint' \in [Fds -> Nat] /\ evcache_size' \in Nat /\ batch' \subseteq Event
        /\ hup' \subseteq Fds /\ abandoned' \subseteq Fds
    BY <1>1 DEF IInv, DispatchTypes
  <2> QED  BY <2>1, <1>1, <1>4, Zenon DEF DispatchTypes
<1>6. stage'[fd] = "unregistered"
  BY <1>2 DEF IInv, RegistryInv, RegistryTypes
<1>7. CallInv' /\ NoLostWakeup'
  BY <1>1, <1>4, <1>6 DEF CallInv, NoLostWakeup
<1> QED  BY <1>3, <1>5, <1>7 DEF IInv

\* __socket_reset closes it.
LEMMA HandlerClosesInv ==
    ASSUME IInv, HandlerCloses
    PROVE  IInv'
<1> DEFINE fd == call.fd
<1>1. /\ pc = "closing"
      /\ stage' = [stage EXCEPT ![fd] = "closed"] /\ owner' = [owner EXCEPT ![fd] = NoData]
      /\ hint' = [hint EXCEPT ![fd] = 0] /\ hup' = hup \ {fd} /\ abandoned' = abandoned
      /\ reg' = reg /\ count' = count /\ interest' = interest /\ kidx' = kidx /\ kev' = kev
      /\ pc' = "batch" /\ batch' = batch /\ call' = NoCall /\ evcache_size' = evcache_size
  BY DEF HandlerCloses, Close, kernel
<1>2. fd \in Fds /\ stage[fd] = "unregistered"
  BY <1>1 DEF IInv, CallInv
<1> HIDE DEF fd
<1>3. RegistryInv' /\ CountInv'
  <2>1. stage[fd] # "registered" /\ stage[fd] \in {"closed", "open", "unregistered"}
    BY <1>2
  <2> QED  BY <1>1, <1>2, <2>1, StageLemma DEF IInv
<1>4. DispatchTypes'
  <2>1. call' \in [fd : Fds \cup {Dead}, data : Datas \cup {NoData}, err : BOOLEAN]
    BY <1>1, NoCallType
  <2>2. /\ hint' \in [Fds -> Nat] /\ evcache_size' \in Nat /\ batch' \subseteq Event
        /\ hup' \subseteq Fds /\ abandoned' \subseteq Fds
    BY <1>1 DEF IInv, DispatchTypes
  <2> QED  BY <2>1, <2>2, <1>1, Zenon DEF DispatchTypes
<1>5. CallInv' /\ NoLostWakeup'
  BY <1>1 DEF CallInv, NoLostWakeup
<1> QED  BY <1>3, <1>4, <1>5 DEF IInv

\* Every step of the dispatcher preserves the invariant.
LEMMA DispatcherInv ==
    ASSUME IInv, Dispatcher
    PROVE  IInv'
<1>1. CASE Sleep \/ SpuriousWakeup \/ PreparePoll \/ Interrupted \/ BatchDone
  BY <1>1, LoopInv
<1>2. CASE EpollWait
  BY <1>2, EpollWaitInv
<1>3. CASE Lookup
  BY <1>3, LookupInv
<1>4. CASE HandlerReturns
  BY <1>4, HandlerReturnsInv
<1>5. CASE HandlerUnregisters
  BY <1>5, HandlerUnregistersInv
<1>6. CASE HandlerCloses
  BY <1>6, HandlerClosesInv
<1> QED  BY <1>1, <1>2, <1>3, <1>4, <1>5, <1>6 DEF Dispatcher

-----------------------------------------------------------------------------
(* The theorems *)

\* event_pool_new establishes the invariant.
LEMMA InitInv == Init => IInv
<1> SUFFICES ASSUME Init PROVE IInv
  OBVIOUS
<1>1. /\ reg = <<>> /\ count = InitCount /\ evcache_size = 0
      /\ interest = {} /\ kidx = [f \in Fds |-> 0] /\ kev = [f \in Fds |-> {}]
      /\ hup = {} /\ stage = [f \in Fds |-> "closed"] /\ owner = [f \in Fds |-> NoData]
      /\ hint = [f \in Fds |-> 0] /\ abandoned = {} /\ pc = "top" /\ batch = {} /\ call = NoCall
  BY DEF Init
<1>2. <<>> \in Seq(Slot) /\ Len(<<>>) = 0 /\ DOMAIN <<>> = {}
  OBVIOUS
<1>3. RegistryTypes
  BY <1>1, <1>2 DEF RegistryTypes, Stages
<1>4. KernelSlotHasFd /\ SlotsBelongToOwners
  BY <1>1, <1>2 DEF KernelSlotHasFd, SlotsBelongToOwners
<1>5. InterestRegistered /\ OwnersHaveData
  BY <1>1 DEF InterestRegistered, OwnersHaveData
<1>6. CountInv
  BY <1>1, <1>2, InitCountAssumption DEF CountInv, used
<1>7. DispatchTypes
  <2>1. call \in [fd : Fds \cup {Dead}, data : Datas \cup {NoData}, err : BOOLEAN]
    BY <1>1, NoCallType
  <2>2. /\ evcache_size \in Nat /\ hup \subseteq Fds /\ hint \in [Fds -> Nat] /\ batch \subseteq Event
        /\ abandoned \subseteq Fds
        /\ pc \in {"top", "asleep", "poll", "batch", "called", "closing"}
    BY <1>1
  <2> QED  BY <2>1, <2>2, Zenon DEF DispatchTypes
<1>8. CallInv /\ NoLostWakeup
  BY <1>1 DEF CallInv, NoLostWakeup
<1> QED  BY <1>3, <1>4, <1>5, <1>6, <1>7, <1>8 DEF IInv, RegistryInv

\* A step that changes nothing preserves the invariant.
LEMMA StutterInv == IInv /\ UNCHANGED vars => IInv'
<1> SUFFICES ASSUME IInv, UNCHANGED vars PROVE IInv'
  OBVIOUS
<1>1. /\ UNCHANGED <<reg, count, kernel, hup, stage, owner, abandoned>>
      /\ hint' = hint /\ batch' = batch /\ call' = call /\ evcache_size' = evcache_size
      /\ pc' = pc
  BY DEF vars, client, dispatcher
<1>2. RegistryInv' /\ CountInv' /\ hup' \subseteq Fds
      /\ interest' = interest /\ stage' = stage /\ owner' = owner /\ abandoned' = abandoned
  BY <1>1, DispatcherLemma
<1>3. hint' \in [Fds -> Nat] /\ abandoned' \subseteq Fds
  BY <1>1 DEF IInv, DispatchTypes
<1>4. DispatchTypes' /\ CallInv'
  BY <1>1, <1>2, <1>3, DispatchFrame
<1>5. NoLostWakeup'
  BY <1>1, <1>2 DEF IInv, NoLostWakeup
<1> QED  BY <1>2, <1>4, <1>5 DEF IInv

\* The invariant holds in every reachable state of the event pool.
THEOREM Invariance == Spec => []IInv
<1>1. IInv /\ [Next]_vars => IInv'
  BY StutterInv, DispatcherInv, OwnerInv DEF Next
<1> QED  BY <1>1, InitInv, PTL DEF Spec

\* Whatever registrations fail and whoever closes a descriptor after that: the index
\* the kernel keeps for any descriptor is that of a slot of this number, with the events
\* it polls for; and a number that nobody closed while a slot had it has one slot, its
\* owner's, while its descriptor is registered or failed to be, and none otherwise.
THEOREM RegistryCorrect == Spec => []RegistryConsistent
<1>1. IInv => TypeOK
  BY Zenon DEF IInv, RegistryInv, RegistryTypes, CountInv, DispatchTypes, TypeOK
<1>2. IInv => RegistryConsistent
  BY <1>1 DEF IInv, RegistryInv, RegistryConsistent
<1> QED  BY <1>2, Invariance, PTL

\* The handler that event_dispatch_epoll_handler looks up is the one of the transport
\* that owns the descriptor, also while slots that socket_listen left behind for other
\* numbers are in the array and move in it.
THEOREM HandlersCorrect == Spec => HandlerTargetsOwner
<1> DEFINE Targets ==
      pc = "batch" /\ pc' = "called" /\ call'.fd \notin abandoned =>
          stage[call'.fd] \in {"registered", "failed"} /\ owner[call'.fd] = call'.data
<1>1. ASSUME IInv, [Next]_vars PROVE Targets
  <2> SUFFICES ASSUME pc = "batch", pc' = "called", call'.fd \notin abandoned
               PROVE  stage[call'.fd] \in {"registered", "failed"} /\ owner[call'.fd] = call'.data
    OBVIOUS
  <2>1. Lookup
    <3>1. ~UNCHANGED vars
      BY DEF vars, dispatcher
    <3>2. ASSUME NEW fd \in Fds, Owner(fd) PROVE FALSE
      BY <3>2 DEF Owner, Open, event_register, RegisterFails, SelectOn, CloseUnused,
                  UnregisterFailed, CloseFailed, Hangup, Wake, dispatcher
    <3>3. Dispatcher
      BY <1>1, <3>1, <3>2 DEF Next
    <3> QED  BY <3>3 DEF Dispatcher, Sleep, SpuriousWakeup, PreparePoll, EpollWait, Interrupted,
                         BatchDone, HandlerReturns, HandlerUnregisters, HandlerCloses
  <2>2. PICK e, i :
           /\ e \in batch
           /\ i = event_getindex(e.fd, e.idx)
           /\ pc' = IF i = 0 THEN "batch" ELSE "called"
           /\ call' = IF i = 0 THEN NoCall ELSE [fd |-> e.fd, data |-> reg[i].data, err |-> e.err]
    BY <2>1 DEF Lookup
  <2>3. i # 0 /\ call'.fd = e.fd /\ call'.data = reg[i].data
    BY <2>2
  <2>4. e.fd \in Fds
    BY <1>1, <2>2 DEF IInv, DispatchTypes, Event
  <2>5. i \in DOMAIN reg /\ reg[i].fd = e.fd
    BY <1>1, <2>2, <2>3, <2>4, GetindexLemma DEF IInv
  <2>6. stage[e.fd] \in {"registered", "failed"} /\ reg[i].data = owner[e.fd]
    BY <1>1, <2>3, <2>4, <2>5 DEF IInv, RegistryInv, SlotsBelongToOwners
  <2> QED  BY <2>3, <2>6
<1>2. IInv /\ [Next]_vars => [Targets]_vars
  BY <1>1
<1> QED  BY <1>2, Invariance, PTL DEF Spec, HandlerTargetsOwner

\* The dispatcher never sleeps while the kernel watches a descriptor.
THEOREM WakeupsCorrect == Spec => []NoLostWakeup
<1>1. IInv => NoLostWakeup
  BY DEF IInv
<1> QED  BY <1>1, Invariance, PTL
=============================================================================
