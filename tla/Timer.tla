------------------------------- MODULE Timer -------------------------------
(***************************************************************************)
(* The timer registry of timer.c: threads register events with             *)
(* lz_timer_call_after and cancel them; the thread lz_timer_proc moves     *)
(* each event that is due from the sorted `active' list to `stale' under   *)
(* the registry's lock and calls its callback after the unlock.            *)
(*                                                                         *)
(* gettimeofday is read before the lock is taken, so registrations reach   *)
(* the list in another order than they were stamped in.                    *)
(***************************************************************************)
EXTENDS LinkedList, Integers

CONSTANTS
    Events,   \* the events CALLOC returns, each once
    Usec,     \* microseconds in a second: 1000000 in the code
    Deltas,   \* the delays that callers ask for, as struct timeval
    MaxTime,  \* bound: the clock, in microseconds
    NoEvent   \* lz_timer_proc has no event to call back

ASSUME UsecAssumption == Usec \in Nat \ {0}
ASSUME NoEventAssumption == NoEvent \notin Events
ASSUME MaxTimeAssumption == MaxTime \in Nat
ASSUME DeltasAssumption == Deltas \subseteq [tv_sec : Nat, tv_usec : 0 .. Usec - 1]

VARIABLES
    now,      \* the clock that gettimeofday reads
    at,       \* event->at of each stamped event
    delta,    \* what its caller asked for, and when
    loc,      \* where each event is
    active,   \* reg->active, walked from the head
    stale,    \* reg->stale
    fin,      \* reg->fin
    pc,       \* where lz_timer_proc is
    snap,     \* its local `now'
    event,    \* its local `event'
    raced     \* events freed between their unlinking and their callback

vars == <<now, at, delta, loc, active, stale, fin, pc, snap, event, raced>>

-----------------------------------------------------------------------------
(* struct timeval *)

tv(t) == [tv_sec |-> t \div Usec, tv_usec |-> t % Usec]

TS(v) == v.tv_sec * Usec + v.tv_usec

NoDelta == [from |-> 0, by |-> tv(0)]

\* Mutant of AddDelta: the seconds of the delay are forgotten.
AddDeltaUsecOnly(v, d) ==
    LET usec == (v.tv_usec + d.tv_usec) % Usec
    IN  [tv_sec |-> v.tv_sec + (usec + d.tv_usec) \div Usec, tv_usec |-> usec]

\* event->at: the current time plus the delay.  The carry into the seconds is
\* computed from the microseconds that have been reduced already.
AddDelta(v, d) ==
    LET usec == (v.tv_usec + d.tv_usec) % Usec
    IN  [tv_sec  |-> v.tv_sec + (usec + d.tv_usec) \div Usec + d.tv_sec,
         tv_usec |-> usec]

-----------------------------------------------------------------------------
(* lz_timer_call_after *)

\* The lock is held for good once lz_timer_proc has locked it twice, and is
\* destroyed when it has finished.
Usable == pc \notin {"deadlocked", "done"}

\* CALLOC and gettimeofday, before the lock.
Stamp(e, d) ==
    /\ loc[e] = "new"
    /\ at' = [at EXCEPT ![e] = AddDelta(tv(now), d)]
    /\ delta' = [delta EXCEPT ![e] = [from |-> now, by |-> d]]
    /\ loc' = [loc EXCEPT ![e] = "stamped"]
    /\ UNCHANGED <<now, active, stale, fin, pc, snap, event, raced>>

\* The walk from the tail stops at the first event that is earlier.
Before(e) == {i \in DOMAIN active : TS(at[active[i]]) < TS(at[e])}

Insert(e) ==
    /\ Usable
    /\ loc[e] = "stamped"
    /\ \E k \in Before(e) \cup {0} :
          /\ \A i \in Before(e) : i <= k
          /\ active' = SubSeq(active, 1, k) \o <<e>> \o SubSeq(active, k + 1, Len(active))
    /\ loc' = [loc EXCEPT ![e] = "active"]
    /\ UNCHANGED <<now, at, delta, stale, fin, pc, snap, event, raced>>

-----------------------------------------------------------------------------
(* lz_timer_call_cancel *)

\* Mutant of lz_timer_call_cancel: an event is freed but not unlinked.
CancelKeepsLink(e) ==
    /\ Usable
    /\ loc[e] \in {"active", "stale"}
    /\ loc' = [loc EXCEPT ![e] = "freed"]
    /\ UNCHANGED <<now, at, delta, active, stale, fin, pc, snap, event, raced>>

\* The holder of the event unlinks it from the list it is on and frees it.  In
\* the window between the unlock of lz_timer_proc and its use of event->cbk
\* this takes the event away under the timer thread.
lz_timer_call_cancel(e) ==
    /\ Usable
    /\ loc[e] \in {"active", "stale"}
    /\ active' = list_del(e, active)
    /\ stale' = list_del(e, stale)
    /\ loc' = [loc EXCEPT ![e] = "freed"]
    /\ at' = [at EXCEPT ![e] = tv(0)]
    /\ delta' = [delta EXCEPT ![e] = NoDelta]
    /\ raced' = IF pc = "callback" /\ event = e THEN raced \cup {e} ELSE raced
    /\ UNCHANGED <<now, fin, pc, snap, event>>

-----------------------------------------------------------------------------
(* lz_timer_proc *)

\* Mutant of StartScan: fin is not looked at.
StartScanIgnoresFin ==
    /\ pc = "loop"
    /\ snap' = now
    /\ pc' = "scan"
    /\ UNCHANGED <<now, at, delta, loc, active, stale, fin, event, raced>>

\* while (!reg->fin), and the clock is read once for a whole scan.
StartScan ==
    /\ pc = "loop"
    /\ ~fin
    /\ snap' = now
    /\ pc' = "scan"
    /\ UNCHANGED <<now, at, delta, loc, active, stale, fin, event, raced>>

Due == ~list_empty(active) /\ snap >= TS(at[Head(active)])

\* Mutant of TakeDue: the event stays on the active list (no lz_timer_call_stale).
TakeDueKeepsActive ==
    /\ pc = "scan"
    /\ Due
    /\ event' = Head(active)
    /\ pc' = "callback"
    /\ UNCHANGED <<now, at, delta, loc, active, stale, fin, snap, raced>>

\* The critical section: the head is due and lz_timer_call_stale moves it.
TakeDue ==
    /\ pc = "scan"
    /\ Due
    /\ event' = Head(active)
    /\ active' = list_del(Head(active), active)
    /\ stale' = list_add_tail(Head(active), stale)
    /\ loc' = [loc EXCEPT ![Head(active)] = "stale"]
    /\ pc' = "callback"
    /\ UNCHANGED <<now, at, delta, fin, snap, raced>>

\* The critical section: nothing is due and the thread goes to usleep.
ScanDone ==
    /\ pc = "scan"
    /\ ~Due
    /\ pc' = "usleep"
    /\ snap' = 0
    /\ UNCHANGED <<now, at, delta, loc, active, stale, fin, event, raced>>

\* event->cbk (event->data), and back to the head of the list.
Callback ==
    /\ pc = "callback"
    /\ pc' = "scan"
    /\ event' = NoEvent
    /\ UNCHANGED <<now, at, delta, loc, active, stale, fin, snap, raced>>

Usleep ==
    /\ pc = "usleep"
    /\ pc' = "loop"
    /\ UNCHANGED <<now, at, delta, loc, active, stale, fin, snap, event, raced>>

\* The loop ends and the lock is taken.  With an event on a list,
\* lz_timer_call_cancel takes the same lock again and the thread never returns.
Shutdown ==
    /\ pc = "loop"
    /\ fin
    /\ pc' = IF list_empty(active) /\ list_empty(stale) THEN "done" ELSE "deadlocked"
    /\ UNCHANGED <<now, at, delta, loc, active, stale, fin, snap, event, raced>>

-----------------------------------------------------------------------------
(* The environment *)

Tick ==
    /\ now < MaxTime
    /\ now' = now + 1
    /\ UNCHANGED <<at, delta, loc, active, stale, fin, pc, snap, event, raced>>

\* The owner of the registry asks the thread to finish.
SetFin ==
    /\ ~fin
    /\ fin' = TRUE
    /\ UNCHANGED <<now, at, delta, loc, active, stale, pc, snap, event, raced>>

\* lz_timer_registry_init.
Init ==
    /\ now = 0
    /\ at = [e \in Events |-> tv(0)]
    /\ delta = [e \in Events |-> NoDelta]
    /\ loc = [e \in Events |-> "new"]
    /\ active = <<>>
    /\ stale = <<>>
    /\ fin = FALSE
    /\ pc = "loop"
    /\ snap = 0
    /\ event = NoEvent
    /\ raced = {}

lz_timer_proc == StartScan \/ TakeDue \/ ScanDone \/ Callback \/ Usleep \/ Shutdown

Next ==
    \/ lz_timer_proc
    \/ \E e \in Events : \E d \in Deltas : Stamp(e, d)
    \/ \E e \in Events : Insert(e)
    \/ \E e \in Events : lz_timer_call_cancel(e)
    \/ Tick
    \/ SetFin

Spec == Init /\ [][Next]_vars

\* The timer thread keeps running: callbacks and usleep return.
FairSpec == Spec /\ WF_vars(lz_timer_proc)

-----------------------------------------------------------------------------
(* Properties *)

Requested(e) == delta[e].from + TS(delta[e].by)

Timeval == [tv_sec : Nat, tv_usec : 0 .. Usec - 1]

\* Types; event->at is always a normalised struct timeval.
TypeOK ==
    /\ now \in 0 .. MaxTime
    /\ at \in [Events -> Timeval]
    /\ delta \in [Events -> [from : Nat, by : Timeval]]
    /\ loc \in [Events -> {"new", "stamped", "active", "stale", "freed"}]
    /\ active \in Seq(Events)
    /\ stale \in Seq(Events)
    /\ fin \in BOOLEAN
    /\ pc \in {"loop", "scan", "callback", "usleep", "done", "deadlocked"}
    /\ snap \in Nat
    /\ event \in Events \cup {NoEvent}
    /\ raced \subseteq Events

\* The active list is ordered by time, whatever the order in which the threads
\* reach it, so that lz_timer_proc need only look at its head.
ActiveSorted ==
    \A i, j \in DOMAIN active : i < j => TS(at[active[i]]) <= TS(at[active[j]])

\* An event is on the list its state says, and on no other: one that was
\* cancelled is on none, so its callback cannot start any more.
ListsMatchEvents ==
    /\ IsInjective(active) /\ IsInjective(stale)
    /\ Entries(active) = {e \in Events : loc[e] = "active"}
    /\ Entries(stale) = {e \in Events : loc[e] = "stale"}

\* lz_timer_proc may rely on its lists: the head of active is the next event to
\* fire, and what lies on a list is allocated and waits there.
ListsConsistent == TypeOK /\ ActiveSorted /\ ListsMatchEvents

\* The callback that is about to run belongs to an event whose time has come and
\* that is still allocated, unless its holder cancelled it after it was unlinked.
CallbackIsDue ==
    pc = "callback" => /\ TS(at[event]) <= now
                       /\ loc[event] = "stale" \/ event \in raced

\* What lz_timer_call_after makes of a delay: the time asked for, or one second
\* less, or one second more; exactly the time asked for when the delay is a whole
\* number of seconds.
WithinASecond ==
    \A e \in Events :
        /\ TS(at[e]) - Requested(e) \in {-Usec, 0, Usec}
        /\ delta[e].by.tv_usec = 0 => TS(at[e]) = Requested(e)

\* An event whose time has come does not stay on the active list, unless the
\* registry is shut down first.
DueEventsFire ==
    \A e \in Events :
        (loc[e] = "active" /\ TS(at[e]) <= now) ~> (loc[e] # "active" \/ fin)

\* Asked to finish, the timer thread ends if no event is left on a list.
EmptyRegistryFinishes ==
    (fin /\ \A e \in Events : loc[e] \in {"new", "freed"})
        ~> (pc = "done" \/ \E e \in Events : loc[e] \notin {"new", "freed"})
=============================================================================
