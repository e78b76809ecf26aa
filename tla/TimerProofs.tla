---------------------------- MODULE TimerProofs ----------------------------
(***************************************************************************)
(* The safety of the timer registry for any number of events, any delays   *)
(* and any length of a second.                                             *)
(*                                                                         *)
(* The lists are right because every event knows the list it is on, and a  *)
(* callback is due because the clock never runs backwards between the scan *)
(* that takes the event and the call.                                      *)
(***************************************************************************)
EXTENDS Timer, TLAPS

-----------------------------------------------------------------------------
(* The lists: what the operations of LinkedList do to the entries. *)

\* list_add_tail does the same at the other end (list.h, list_add_tail).
LEMMA ListAddTailLemma ==
    ASSUME NEW S, NEW s \in Seq(S), IsInjective(s), NEW x \in S, x \notin Entries(s)
    PROVE  /\ list_add_tail(x, s) \in Seq(S)
           /\ Len(list_add_tail(x, s)) = Len(s) + 1
           /\ Entries(list_add_tail(x, s)) = Entries(s) \cup {x}
           /\ IsInjective(list_add_tail(x, s))
<1> DEFINE n == list_add_tail(x, s)
<1>1. /\ n \in Seq(S)
      /\ Len(n) = Len(s) + 1
      /\ n[Len(s) + 1] = x
      /\ \A i \in 1 .. Len(s) : n[i] = s[i]
      /\ DOMAIN n = 1 .. Len(s) + 1
      /\ DOMAIN s = 1 .. Len(s)
      /\ Len(s) \in Nat
  BY DEF list_add_tail
<1>3. Entries(n) = Entries(s) \cup {x}
  <2>1. ASSUME NEW y \in Entries(n) PROVE y \in Entries(s) \cup {x}
    BY <1>1 DEF Entries, Range
  <2>2. ASSUME NEW y \in Entries(s) \cup {x} PROVE y \in Entries(n)
    <3>1. CASE y = x
      <4>1. Len(s) + 1 \in DOMAIN n
        BY <1>1
      <4> QED  BY <4>1, <3>1, <1>1 DEF Entries, Range
    <3>2. CASE y \in Entries(s)
      <4>1. PICK i \in 1 .. Len(s) : y = s[i]
        BY <3>2, <1>1 DEF Entries, Range
      <4>2. i \in DOMAIN n /\ n[i] = y
        BY <4>1, <1>1
      <4> QED  BY <4>2 DEF Entries, Range
    <3> QED  BY <3>1, <3>2, <2>2
  <2> QED  BY <2>1, <2>2
<1>4. IsInjective(n)
  <2>1. \A i \in 1 .. Len(s) : s[i] # x
    BY <1>1 DEF Entries, Range
  <2> QED  BY <2>1, <1>1 DEF IsInjective
<1> QED  BY <1>1, <1>3, <1>4

\* list_del takes exactly one entry off the list that holds it (list.h, list_del).
LEMMA ListDelLemma ==
    ASSUME NEW S, NEW s \in Seq(S), IsInjective(s), NEW x \in Entries(s)
    PROVE  /\ list_del(x, s) \in Seq(S)
           /\ Len(list_del(x, s)) = Len(s) - 1
           /\ Entries(list_del(x, s)) = Entries(s) \ {x}
           /\ IsInjective(list_del(x, s))
<1> DEFINE p == Place(x, s)
           n == list_del(x, s)
<1>1. DOMAIN s = 1 .. Len(s) /\ Len(s) \in Nat
  OBVIOUS
<1>2. p \in 1 .. Len(s) /\ s[p] = x
  BY <1>1 DEF Place, Entries, Range
<1>3. n = [i \in 1 .. Len(s) - 1 |-> IF i < p THEN s[i] ELSE s[i + 1]]
  BY DEF list_del
<1> HIDE DEF p, n
<1>4. n \in Seq(S) /\ Len(n) = Len(s) - 1 /\ DOMAIN n = 1 .. Len(s) - 1
  <2>1. \A i \in 1 .. Len(s) - 1 : n[i] \in S
    BY <1>1, <1>3
  <2> QED  BY <2>1, <1>1, <1>2, <1>3
<1>5. Entries(n) = Entries(s) \ {x}
  <2>1. ASSUME NEW y \in Entries(n) PROVE y \in Entries(s) \ {x}
    <3>1. PICK i \in 1 .. Len(s) - 1 : y = n[i]
      BY <1>4 DEF Entries, Range
    <3>2. CASE i < p
      <4>1. i \in 1 .. Len(s) /\ i # p /\ y = s[i]
        BY <3>1, <3>2, <1>1, <1>3
      <4> QED  BY <4>1, <1>1, <1>2 DEF Entries, Range, IsInjective
    <3>3. CASE ~(i < p)
      <4>1. i + 1 \in 1 .. Len(s) /\ i + 1 # p /\ y = s[i + 1]
        BY <3>1, <3>3, <1>1, <1>2, <1>3
      <4> QED  BY <4>1, <1>1, <1>2 DEF Entries, Range, IsInjective
    <3> QED  BY <3>2, <3>3
  <2>2. ASSUME NEW y \in Entries(s), y # x PROVE y \in Entries(n)
    <3>1. PICK i \in 1 .. Len(s) : y = s[i]
      BY <1>1 DEF Entries, Range
    <3>2. i # p
      BY <3>1, <2>2, <1>2
    <3>3. CASE i < p
      <4>1. i \in 1 .. Len(s) - 1 /\ n[i] = y
        BY <3>1, <3>3, <1>1, <1>2, <1>3
      <4> QED  BY <4>1, <1>4 DEF Entries, Range
    <3>4. CASE i > p
      <4>1. i - 1 \in 1 .. Len(s) - 1 /\ ~(i - 1 < p) /\ (i - 1) + 1 = i
        BY <3>1, <3>4, <1>1, <1>2
      <4>2. n[i - 1] = y
        BY <4>1, <3>1, <1>3
      <4> QED  BY <4>1, <4>2, <1>4 DEF Entries, Range
    <3> QED  BY <3>2, <3>3, <3>4, <1>1, <1>2
  <2> QED  BY <2>1, <2>2
<1>6. IsInjective(n)
  <2>1. SUFFICES ASSUME NEW i \in 1 .. Len(s) - 1, NEW j \in 1 .. Len(s) - 1, n[i] = n[j]
                 PROVE i = j
    BY <1>4 DEF IsInjective
  <2> DEFINE Old(k) == IF k < p THEN k ELSE k + 1
  <2>2. \A k \in 1 .. Len(s) - 1 : Old(k) \in 1 .. Len(s) /\ n[k] = s[Old(k)]
    BY <1>1, <1>2, <1>3
  <2>3. Old(i) = Old(j)
    BY <2>1, <2>2, <1>1 DEF IsInjective
  <2> QED  BY <2>3, <1>1, <1>2
<1> QED  BY <1>4, <1>5, <1>6 DEF n

\* A list that does not hold the entry is not changed (list.h, list_del).
LEMMA ListDelAbsent ==
    ASSUME NEW s, NEW x, x \notin Entries(s)
    PROVE  list_del(x, s) = s
BY DEF list_del

\* list_del keeps the order of the other entries (list.h, list_del).
LEMMA ListDelOrder ==
    ASSUME NEW S, NEW s \in Seq(S), NEW x \in Entries(s),
           NEW i \in DOMAIN list_del(x, s), NEW j \in DOMAIN list_del(x, s), i < j
    PROVE  \E k, l \in DOMAIN s : k < l /\ list_del(x, s)[i] = s[k] /\ list_del(x, s)[j] = s[l]
<1> DEFINE p == Place(x, s)
           n == list_del(x, s)
           Old(m) == IF m < p THEN m ELSE m + 1
<1>1. DOMAIN s = 1 .. Len(s) /\ Len(s) \in Nat
  OBVIOUS
<1>2. p \in 1 .. Len(s)
  BY <1>1 DEF Place, Entries, Range
<1>3. n = [m \in 1 .. Len(s) - 1 |-> IF m < p THEN s[m] ELSE s[m + 1]]
  BY DEF list_del
<1> HIDE DEF p, n
<1>4. i \in 1 .. Len(s) - 1 /\ j \in 1 .. Len(s) - 1
  BY <1>3 DEF n
<1>5. n[i] = s[Old(i)] /\ n[j] = s[Old(j)]
  BY <1>3, <1>4
<1>6. Old(i) \in 1 .. Len(s) /\ Old(j) \in 1 .. Len(s) /\ Old(i) < Old(j)
  BY <1>1, <1>2, <1>4
<1> HIDE DEF Old
<1> QED  BY <1>1, <1>5, <1>6 DEF n

-----------------------------------------------------------------------------
(* struct timeval *)

\* Division by the microseconds of a second.
LEMMA DivModLemma ==
    ASSUME NEW t \in Nat
    PROVE  /\ t \div Usec \in Nat
           /\ t % Usec \in 0 .. Usec - 1
           /\ t = (t \div Usec) * Usec + (t % Usec)
<1>1. Usec \in Nat \ {0}
  BY UsecAssumption
<1>2. t \div Usec \in Nat /\ t % Usec \in 0 .. Usec - 1
  BY <1>1
<1>3. t = (t \div Usec) * Usec + (t % Usec)
  BY <1>1
<1> QED  BY <1>2, <1>3

\* The carry of two numbers of microseconds is 0 or 1.
LEMMA CarryLemma ==
    ASSUME NEW t \in Nat, t < 2 * Usec
    PROVE  /\ t \div Usec \in {0, 1}
           /\ t % Usec = t - (IF t < Usec THEN 0 ELSE Usec)
<1>1. Usec \in Nat \ {0}
  BY UsecAssumption
<1>2. CASE t < Usec
  BY <1>1, <1>2
<1>3. CASE ~(t < Usec)
  BY <1>1, <1>3
<1> QED  BY <1>2, <1>3

\* A time stamp keeps the clock.
LEMMA StampLemma ==
    ASSUME NEW t \in Nat
    PROVE  tv(t) \in Timeval /\ TS(tv(t)) = t
<1>1. tv(t).tv_sec = t \div Usec /\ tv(t).tv_usec = t % Usec /\ tv(t) \in Timeval
  BY DivModLemma DEF tv, Timeval
<1> QED  BY <1>1, DivModLemma DEF TS

\* Seconds and a carry become microseconds one by one.
LEMMA DistributeLemma ==
    ASSUME NEW a \in Nat, NEW b \in Nat, NEW c \in {0, 1}, NEW u \in Nat
    PROVE  (a + c + b) * u = a * u + b * u + (IF c = 0 THEN 0 ELSE u)
<1>1. CASE c = 0
  <2>1. a + c + b = a + b
    BY <1>1
  <2>2. (a + b) * u = a * u + b * u
    OBVIOUS
  <2> QED  BY <1>1, <2>1, <2>2
<1>2. CASE c = 1
  <2>1. a + c + b = (a + b) + 1
    BY <1>2
  <2>2. ((a + b) + 1) * u = a * u + b * u + u
    OBVIOUS
  <2> QED  BY <1>2, <2>1, <2>2
<1> QED  BY <1>1, <1>2

\* lz_timer_call_after adds a delay to a time stamp up to a second.
LEMMA AddDeltaLemma ==
    ASSUME NEW v \in Timeval, NEW d \in Timeval
    PROVE  /\ AddDelta(v, d) \in Timeval
           /\ TS(AddDelta(v, d)) - (TS(v) + TS(d)) \in {-Usec, 0, Usec}
           /\ d.tv_usec = 0 => TS(AddDelta(v, d)) = TS(v) + TS(d)
<1> DEFINE x == v.tv_usec + d.tv_usec
           usec == x % Usec
           y == usec + d.tv_usec
           c == y \div Usec
           n == AddDelta(v, d)
<1>1. /\ v.tv_sec \in Nat /\ d.tv_sec \in Nat /\ Usec \in Nat \ {0}
      /\ v.tv_usec \in 0 .. Usec - 1 /\ d.tv_usec \in 0 .. Usec - 1
  BY UsecAssumption DEF Timeval
<1>2. x \in Nat /\ x < 2 * Usec
  BY <1>1
<1>3. usec = x - (IF x < Usec THEN 0 ELSE Usec)
  BY <1>2, CarryLemma
<1>4. usec \in 0 .. Usec - 1
  BY <1>1, <1>2, <1>3
<1>5. y \in Nat /\ y < 2 * Usec
  BY <1>1, <1>4
<1>6. c \in {0, 1}
  BY <1>5, CarryLemma
<1>7. d.tv_usec = 0 => c = 0 /\ usec = v.tv_usec
  <2> SUFFICES ASSUME d.tv_usec = 0 PROVE c = 0 /\ usec = v.tv_usec
    OBVIOUS
  <2>1. x = v.tv_usec /\ x < Usec
    BY <1>1
  <2>2. usec = v.tv_usec
    BY <1>1, <1>3, <2>1
  <2>3. y \in Nat /\ y < Usec
    BY <1>1, <2>2
  <2> HIDE DEF y
  <2>4. c = 0
    BY <2>3, <1>1
  <2> QED  BY <2>2, <2>4
<1>8. n = [tv_sec |-> v.tv_sec + c + d.tv_sec, tv_usec |-> usec]
  BY DEF AddDelta
<1> HIDE DEF usec, c, y, n
<1>9. n \in Timeval /\ n.tv_sec = v.tv_sec + c + d.tv_sec /\ n.tv_usec = usec
  BY <1>1, <1>4, <1>6, <1>8 DEF Timeval
<1>10. /\ TS(n) = (v.tv_sec + c + d.tv_sec) * Usec + usec
       /\ TS(v) = v.tv_sec * Usec + v.tv_usec
       /\ TS(d) = d.tv_sec * Usec + d.tv_usec
  BY <1>9 DEF TS
<1> HIDE DEF x
<1>11. (v.tv_sec + c + d.tv_sec) * Usec
          = v.tv_sec * Usec + d.tv_sec * Usec + (IF c = 0 THEN 0 ELSE Usec)
  BY <1>1, <1>6, DistributeLemma, ZenonT(60)
<1> DEFINE A == v.tv_sec * Usec
           B == d.tv_sec * Usec
           C == IF c = 0 THEN 0 ELSE Usec
<1>13. A \in Int /\ B \in Int
  BY <1>1
<1>14. /\ TS(n) = A + B + C + usec /\ TS(v) = A + v.tv_usec /\ TS(d) = B + d.tv_usec
       /\ C \in {0, Usec} /\ (c = 0 => C = 0)
  BY <1>10, <1>11
<1> HIDE DEF A, B, C
<1>15. TS(n) - (TS(v) + TS(d)) \in {-Usec, 0, Usec}
  <2>1. usec = v.tv_usec + d.tv_usec \/ usec = v.tv_usec + d.tv_usec - Usec
    BY <1>1, <1>3 DEF x
  <2> QED  BY <2>1, <1>1, <1>13, <1>14
<1>16. d.tv_usec = 0 => TS(n) = TS(v) + TS(d)
  BY <1>1, <1>4, <1>7, <1>13, <1>14
<1> QED  BY <1>9, <1>15, <1>16 DEF n

-----------------------------------------------------------------------------
(* The inductive invariant *)

\* The time stamps and what their callers asked for.
TimesInv ==
    /\ at \in [Events -> Timeval]
    /\ delta \in [Events -> [from : Nat, by : Timeval]]
    /\ WithinASecond

\* The two lists and the events on them.
ListsInv ==
    /\ loc \in [Events -> {"new", "stamped", "active", "stale", "freed"}]
    /\ active \in Seq(Events)
    /\ stale \in Seq(Events)
    /\ ActiveSorted
    /\ ListsMatchEvents

\* The clock, the scan and the event that was taken off the active list.
ScanInv ==
    /\ now \in 0 .. MaxTime
    /\ snap \in Nat
    /\ snap <= now
    /\ pc \in {"loop", "scan", "callback", "usleep", "done", "deadlocked"}
    /\ event \in Events \cup {NoEvent}
    /\ pc = "callback" => event \in Events
    /\ raced \in SUBSET {e \in Events : loc[e] = "freed"}
    /\ CallbackIsDue

IInv == TimesInv /\ ListsInv /\ ScanInv /\ fin \in BOOLEAN

-----------------------------------------------------------------------------
(* The operations *)

\* A time of zero, as in an event that CALLOC returned or that was cancelled.
LEMMA ZeroLemma ==
    /\ tv(0) \in Timeval /\ TS(tv(0)) = 0
    /\ NoDelta \in [from : Nat, by : Timeval]
    /\ NoDelta.from + TS(NoDelta.by) = 0
BY StampLemma DEF NoDelta

\* Times do not change, or one event gets new ones.
LEMMA TimesStep ==
    ASSUME TimesInv, NEW e \in Events, NEW v \in Timeval,
           NEW r \in [from : Nat, by : Timeval],
           at' = [at EXCEPT ![e] = v], delta' = [delta EXCEPT ![e] = r],
           TS(v) - (r.from + TS(r.by)) \in {-Usec, 0, Usec},
           r.by.tv_usec = 0 => TS(v) = r.from + TS(r.by)
    PROVE  TimesInv'
<1>1. at' \in [Events -> Timeval] /\ delta' \in [Events -> [from : Nat, by : Timeval]]
  BY DEF TimesInv
<1>2. ASSUME NEW f \in Events
      PROVE  /\ TS(at'[f]) - (delta'[f].from + TS(delta'[f].by)) \in {-Usec, 0, Usec}
             /\ delta'[f].by.tv_usec = 0 => TS(at'[f]) = delta'[f].from + TS(delta'[f].by)
  <2>1. CASE f = e
    <3>1. at'[f] = v /\ delta'[f] = r
      BY <2>1 DEF TimesInv
    <3> QED  BY <3>1
  <2>2. CASE f # e
    <3>1. at'[f] = at[f] /\ delta'[f] = delta[f]
      BY <2>2 DEF TimesInv
    <3> QED  BY <3>1 DEF TimesInv, WithinASecond, Requested
  <2> QED  BY <2>1, <2>2
<1>3. WithinASecond'
  BY <1>2 DEF WithinASecond, Requested, TS
<1> QED  BY <1>1, <1>3 DEF TimesInv

LEMMA TimesFrame ==
    ASSUME TimesInv, at' = at, delta' = delta
    PROVE  TimesInv'
BY DEF TimesInv, WithinASecond, Requested, TS

LEMMA ListsFrame ==
    ASSUME ListsInv, at' = at, loc' = loc, active' = active, stale' = stale
    PROVE  ListsInv'
BY DEF ListsInv, ActiveSorted, ListsMatchEvents, TS

LEMMA StampInv ==
    ASSUME IInv, NEW e \in Events, NEW d \in Deltas, Stamp(e, d)
    PROVE  IInv'
<1>1. d \in Timeval /\ now \in Nat
  BY DeltasAssumption DEF IInv, ScanInv, Timeval
<1> DEFINE v == AddDelta(tv(now), d)
           r == [from |-> now, by |-> d]
<1>2. /\ v \in Timeval
      /\ TS(v) - (now + TS(d)) \in {-Usec, 0, Usec}
      /\ d.tv_usec = 0 => TS(v) = now + TS(d)
  BY <1>1, StampLemma, AddDeltaLemma
<1>3. r \in [from : Nat, by : Timeval] /\ r.from = now /\ r.by = d
  BY <1>1
<1>4. at' = [at EXCEPT ![e] = v] /\ delta' = [delta EXCEPT ![e] = r]
  BY DEF Stamp
<1> HIDE DEF v, r
<1>5. TimesInv'
  BY <1>2, <1>3, <1>4, TimesStep DEF IInv
<1>6. /\ loc[e] = "new" /\ loc' = [loc EXCEPT ![e] = "stamped"]
      /\ active' = active /\ stale' = stale
      /\ UNCHANGED <<now, fin, pc, snap, event, raced>>
  BY DEF Stamp
<1>7. ListsInv'
  <2>1. loc' \in [Events -> {"new", "stamped", "active", "stale", "freed"}]
    BY <1>6 DEF IInv, ListsInv
  <2>2. ListsMatchEvents'
    BY <1>6 DEF IInv, ListsInv, ListsMatchEvents
  <2>3. \A i \in DOMAIN active : active[i] \in Events /\ loc[active[i]] = "active"
    BY DEF IInv, ListsInv, ListsMatchEvents, Entries, Range
  <2>4. \A i \in DOMAIN active : at'[active[i]] = at[active[i]]
    BY <2>3, <1>4, <1>6 DEF IInv, TimesInv
  <2>5. ActiveSorted'
    BY <2>4, <1>6 DEF IInv, ListsInv, ActiveSorted, TS
  <2> QED  BY <2>1, <2>2, <2>5, <1>6 DEF IInv, ListsInv
<1>8. ScanInv'
  <2>1. raced' \in SUBSET {f \in Events : loc'[f] = "freed"}
    BY <1>6 DEF IInv, ScanInv, ListsInv
  <2>2. CallbackIsDue'
    <3> SUFFICES ASSUME pc = "callback" PROVE TS(at[event])' <= now /\ (loc'[event] = "stale" \/ event \in raced)
      BY <1>6 DEF CallbackIsDue
    <3>1. event \in Events /\ TS(at[event]) <= now /\ (loc[event] = "stale" \/ event \in raced)
      BY DEF IInv, ScanInv, CallbackIsDue
    <3>2. event # e
      BY <3>1, <1>6 DEF IInv, ScanInv
    <3>3. at'[event] = at[event] /\ loc'[event] = loc[event]
      BY <3>1, <3>2, <1>4, <1>6 DEF IInv, TimesInv, ListsInv
    <3> QED  BY <3>1, <3>3, <1>6 DEF TS
  <2> QED  BY <2>1, <2>2, <1>6 DEF IInv, ScanInv
<1>9. fin' \in BOOLEAN
  BY <1>6, Zenon DEF IInv
<1> QED  BY <1>5, <1>7, <1>8, <1>9 DEF IInv

\* s with x after its first k elements, where Insert puts an event.
Splice(s, k, x) == SubSeq(s, 1, k) \o <<x>> \o SubSeq(s, k + 1, Len(s))

\* What that does: the elements after the first k move up by one.
Spliced(n, S, s, k, x) ==
    /\ n \in Seq(S)
    /\ Len(n) = Len(s) + 1
    /\ \A i \in 1 .. k : n[i] = s[i]
    /\ n[k + 1] = x
    /\ \A i \in k + 2 .. Len(s) + 1 : n[i] = s[i - 1]

LEMMA SpliceLemma ==
    ASSUME NEW S, NEW s \in Seq(S), NEW k \in 0 .. Len(s), NEW x \in S
    PROVE  Spliced(Splice(s, k, x), S, s, k, x)
<1> DEFINE a == SubSeq(s, 1, k)
           b == a \o <<x>>
           c == SubSeq(s, k + 1, Len(s))
           n == b \o c
<1>1. k \in Nat /\ Len(s) \in Nat /\ k <= Len(s)
  OBVIOUS
<1>2. a \in Seq(S) /\ Len(a) = k /\ \A i \in 1 .. k : a[i] = s[i]
  BY <1>1
<1>3. /\ c \in Seq(S) /\ Len(c) = Len(s) - k
      /\ \A i \in 1 .. Len(s) - k : c[i] = s[k + i]
  BY <1>1
<1> HIDE DEF a, c
<1>4. b \in Seq(S) /\ Len(b) = k + 1 /\ b[k + 1] = x /\ \A i \in 1 .. k : b[i] = a[i]
  BY <1>1, <1>2
<1> HIDE DEF b
<1>5. /\ n \in Seq(S) /\ Len(n) = Len(s) + 1
      /\ \A i \in 1 .. k + 1 : n[i] = b[i]
      /\ \A i \in k + 2 .. Len(s) + 1 : n[i] = c[i - (k + 1)]
  BY <1>1, <1>3, <1>4
<1> HIDE DEF n
<1>6. \A i \in 1 .. k : n[i] = s[i]
  BY <1>1, <1>2, <1>4, <1>5
<1>7. n[k + 1] = x
  BY <1>1, <1>4, <1>5
<1>8. ASSUME NEW i \in k + 2 .. Len(s) + 1 PROVE n[i] = s[i - 1]
  <2>1. i - (k + 1) \in 1 .. Len(s) - k /\ k + (i - (k + 1)) = i - 1
    BY <1>1
  <2> QED  BY <2>1, <1>3, <1>5
<1> QED  BY <1>5, <1>6, <1>7, <1>8 DEF n, b, a, c, Splice, Spliced

LEMMA InsertInv ==
    ASSUME IInv, NEW e \in Events, Insert(e)
    PROVE  IInv'
<1>1. PICK k \in Before(e) \cup {0} :
        /\ \A i \in Before(e) : i <= k
        /\ active' = SubSeq(active, 1, k) \o <<e>> \o SubSeq(active, k + 1, Len(active))
  BY DEF Insert
<1>2. /\ loc[e] = "stamped" /\ loc' = [loc EXCEPT ![e] = "active"]
      /\ UNCHANGED <<now, at, delta, stale, fin, pc, snap, event, raced>>
  BY DEF Insert
<1>3. /\ active \in Seq(Events) /\ stale \in Seq(Events) /\ Len(active) \in Nat
      /\ DOMAIN active = 1 .. Len(active)
      /\ loc \in [Events -> {"new", "stamped", "active", "stale", "freed"}]
      /\ at \in [Events -> Timeval]
  BY DEF IInv, ListsInv, TimesInv
<1>4. k \in 0 .. Len(active)
  BY <1>1, <1>3 DEF Before
<1>5. /\ active' \in Seq(Events)
      /\ Len(active') = Len(active) + 1
      /\ \A i \in 1 .. k : active'[i] = active[i]
      /\ active'[k + 1] = e
      /\ \A i \in k + 2 .. Len(active) + 1 : active'[i] = active[i - 1]
  <2>1. active' = Splice(active, k, e)
    BY <1>1 DEF Splice
  <2>2. k \in 0 .. Len(active) /\ active \in Seq(Events) /\ e \in Events
    BY <1>3, <1>4
  <2>3. Spliced(Splice(active, k, e), Events, active, k, e)
    BY <2>2, SpliceLemma
  <2> QED  BY <2>1, <2>3 DEF Spliced
<1>6. DOMAIN active' = 1 .. Len(active) + 1
  BY <1>5
<1> DEFINE T(i) == TS(at[active[i]])
<1>19. ASSUME NEW f \in Events PROVE TS(at[f]) \in Nat
  <2>1. at[f].tv_sec \in Nat /\ at[f].tv_usec \in Nat /\ Usec \in Nat
    BY <1>3, UsecAssumption DEF Timeval
  <2> QED  BY <2>1 DEF TS
<1>7. \A i \in 1 .. Len(active) : active[i] \in Events /\ active[i] # e /\ T(i) \in Nat
  <2>2. \A i \in 1 .. Len(active) : active[i] \in Events /\ loc[active[i]] = "active"
    BY <1>3 DEF IInv, ListsInv, ListsMatchEvents, Entries, Range
  <2> QED  BY <1>19, <2>2, <1>2
<1>8. TS(at[e]) \in Nat
  BY <1>19
<1>9. \A i, j \in 1 .. Len(active) : i < j => T(i) <= T(j)
  BY <1>3 DEF IInv, ListsInv, ActiveSorted
<1>20. \A i : i \in Before(e) <=> i \in 1 .. Len(active) /\ T(i) < TS(at[e])
  BY <1>3 DEF Before
<1>10. \A i \in 1 .. Len(active) : i > k => ~(T(i) < TS(at[e]))
  <2> HIDE DEF T
  <2> SUFFICES ASSUME NEW i \in 1 .. Len(active), i > k, T(i) < TS(at[e]) PROVE FALSE
    OBVIOUS
  <2>1. i \in Before(e)
    BY <1>20
  <2>2. i <= k
    BY <2>1, <1>1
  <2> QED  BY <2>2, <1>4
<1>11. \A i \in 1 .. Len(active) : i <= k => T(i) < TS(at[e])
  <2> SUFFICES ASSUME NEW i \in 1 .. Len(active), i <= k PROVE T(i) < TS(at[e])
    OBVIOUS
  <2>1. k \in 1 .. Len(active) /\ T(k) < TS(at[e])
    BY <1>1, <1>3, <1>4 DEF Before
  <2>2. i = k \/ T(i) <= T(k)
    BY <2>1, <1>9, <1>4
  <2> HIDE DEF T
  <2> QED  BY <2>1, <2>2, <1>7, <1>8
<1>12. ActiveSorted'
  <2> SUFFICES ASSUME NEW i \in 1 .. Len(active) + 1, NEW j \in 1 .. Len(active) + 1, i < j
               PROVE  TS(at[active'[i]]) <= TS(at[active'[j]])
    BY <1>2, <1>6 DEF ActiveSorted, TS
  <2> DEFINE U(m) == TS(at[active'[m]])
  <2>1. \A m \in 1 .. k : m \in 1 .. Len(active) /\ U(m) = T(m)
    BY <1>4, <1>5
  <2>2. U(k + 1) = TS(at[e])
    BY <1>5
  <2>3. \A m \in k + 2 .. Len(active) + 1 : m - 1 \in 1 .. Len(active) /\ m - 1 > k /\ U(m) = T(m - 1)
    BY <1>3, <1>4, <1>5
  <2> DEFINE t == TS(at[e])
  <2> HIDE DEF T, U, t
  <2>4. t \in Nat
    BY <1>8 DEF t
  <2>5. (\A m \in 1 .. Len(active) : m > k => ~(T(m) < t)) /\ (\A m \in 1 .. Len(active) : m <= k => T(m) < t)
    BY <1>10, <1>11 DEF t
  <2>6. U(k + 1) = t
    BY <2>2 DEF t
  <2>7. CASE i <= k /\ j <= k
    BY <2>1, <2>7, <1>4, <1>9 DEF U
  <2>8. CASE i <= k /\ j = k + 1
    <3>1. U(i) < t
      BY <2>1, <2>5, <2>8, <1>4
    <3>2. U(i) \in Nat
      BY <2>1, <2>8, <1>4, <1>7
    <3> QED  BY <3>1, <3>2, <2>4, <2>6, <2>8 DEF U
  <2>9. CASE i <= k /\ j > k + 1
    <3>1. i \in 1 .. k /\ j \in k + 2 .. Len(active) + 1
      BY <2>9, <1>3, <1>4
    <3>2. i < j - 1 /\ i \in 1 .. Len(active) /\ j - 1 \in 1 .. Len(active)
      BY <3>1, <2>1, <2>3, <1>4
    <3>3. T(i) <= T(j - 1)
      BY <3>2, <1>9
    <3> QED  BY <3>1, <3>3, <2>1, <2>3 DEF U
  <2>10. CASE i = k + 1 /\ j > k + 1
    <3>1. j \in k + 2 .. Len(active) + 1
      BY <2>10, <1>3, <1>4
    <3>2. ~(T(j - 1) < t) /\ T(j - 1) \in Nat
      BY <3>1, <2>3, <2>5, <1>7
    <3>3. U(j) = T(j - 1)
      BY <3>1, <2>3
    <3> QED  BY <3>2, <3>3, <2>4, <2>6, <2>10 DEF U
  <2>11. CASE i > k + 1 /\ j > k + 1
    <3>1. i \in k + 2 .. Len(active) + 1 /\ j \in k + 2 .. Len(active) + 1
      BY <2>11, <1>3, <1>4
    <3>2. i - 1 < j - 1 /\ i - 1 \in 1 .. Len(active) /\ j - 1 \in 1 .. Len(active)
      BY <3>1, <2>3, <1>3, <1>4
    <3>3. T(i - 1) <= T(j - 1)
      BY <3>2, <1>9
    <3> QED  BY <3>1, <3>3, <2>3 DEF U
  <2> QED  BY <2>7, <2>8, <2>9, <2>10, <2>11, <1>3, <1>4
<1>13. ListsMatchEvents'
  <2>1. Entries(active') = Entries(active) \cup {e}
    <3>1. ASSUME NEW y \in Entries(active') PROVE y \in Entries(active) \cup {e}
      <4>1. PICK i \in 1 .. Len(active) + 1 : y = active'[i]
        BY <1>6 DEF Entries, Range
      <4>2. i \in 1 .. k \/ i = k + 1 \/ i \in k + 2 .. Len(active) + 1
        BY <1>3, <1>4
      <4>3. i \in 1 .. k => i \in 1 .. Len(active)
        BY <1>4
      <4>4. i \in k + 2 .. Len(active) + 1 => i - 1 \in 1 .. Len(active)
        BY <1>3, <1>4
      <4> QED  BY <4>1, <4>2, <4>3, <4>4, <1>3, <1>5 DEF Entries, Range
    <3>2. e \in Entries(active')
      <4>1. k + 1 \in DOMAIN active'
        BY <1>3, <1>4, <1>6
      <4> QED  BY <4>1, <1>5 DEF Entries, Range
    <3>3. ASSUME NEW y \in Entries(active) PROVE y \in Entries(active')
      <4>1. PICK i \in 1 .. Len(active) : y = active[i]
        BY <1>3 DEF Entries, Range
      <4>2. CASE i <= k
        <5>1. i \in 1 .. k /\ i \in DOMAIN active'
          BY <4>2, <1>3, <1>4, <1>6
        <5> QED  BY <5>1, <4>1, <1>5 DEF Entries, Range
      <4>3. CASE i > k
        <5>1. i + 1 \in k + 2 .. Len(active) + 1 /\ i + 1 \in DOMAIN active' /\ (i + 1) - 1 = i
          BY <4>3, <1>3, <1>4, <1>6
        <5>2. active'[i + 1] = y
          BY <5>1, <4>1, <1>5
        <5> QED  BY <5>1, <5>2 DEF Entries, Range
      <4> QED  BY <4>2, <4>3, <1>4
    <3> QED  BY <3>1, <3>2, <3>3
  <2>2. IsInjective(active')
    <3> DEFINE Old(m) == IF m <= k THEN m ELSE m - 1
    <3>1. SUFFICES ASSUME NEW i \in 1 .. Len(active) + 1, NEW j \in 1 .. Len(active) + 1,
                          active'[i] = active'[j]
                   PROVE  i = j
      BY <1>6 DEF IsInjective
    <3>2. \A m \in 1 .. Len(active) + 1 :
            m # k + 1 => Old(m) \in 1 .. Len(active) /\ active'[m] = active[Old(m)]
      <4> SUFFICES ASSUME NEW m \in 1 .. Len(active) + 1, m # k + 1
                   PROVE  Old(m) \in 1 .. Len(active) /\ active'[m] = active[Old(m)]
        OBVIOUS
      <4>1. CASE m <= k
        BY <4>1, <1>3, <1>4, <1>5
      <4>2. CASE m > k
        <5>1. m \in k + 2 .. Len(active) + 1 /\ Old(m) = m - 1
          BY <4>2, <1>3, <1>4
        <5> QED  BY <5>1, <1>3, <1>4, <1>5
      <4> QED  BY <4>1, <4>2, <1>4
    <3>3. \A m \in 1 .. Len(active) + 1 : m # k + 1 => active'[m] # e
      BY <3>2, <1>7
    <3>4. CASE i = k + 1 \/ j = k + 1
      BY <3>1, <3>3, <3>4, <1>5
    <3>5. CASE i # k + 1 /\ j # k + 1
      <4>1. Old(i) = Old(j)
        BY <3>1, <3>2, <3>5, <1>3 DEF IInv, ListsInv, ListsMatchEvents, IsInjective
      <4> QED  BY <4>1, <3>5, <1>4
    <3> QED  BY <3>4, <3>5
  <2>3. /\ {f \in Events : loc'[f] = "active"} = {f \in Events : loc[f] = "active"} \cup {e}
        /\ {f \in Events : loc'[f] = "stale"} = {f \in Events : loc[f] = "stale"}
    BY <1>2, <1>3
  <2> QED  BY <2>1, <2>2, <2>3, <1>2 DEF IInv, ListsInv, ListsMatchEvents
<1>14. loc' \in [Events -> {"new", "stamped", "active", "stale", "freed"}]
  BY <1>2, <1>3
<1>15. ListsInv'
  BY <1>2, <1>3, <1>5, <1>12, <1>13, <1>14 DEF ListsInv
<1>16. ScanInv'
  <2>1. raced' \in SUBSET {f \in Events : loc'[f] = "freed"}
    BY <1>2, <1>3 DEF IInv, ScanInv
  <2>2. CallbackIsDue'
    BY <1>2, <1>3 DEF IInv, ScanInv, CallbackIsDue, TS
  <2> QED  BY <2>1, <2>2, <1>2 DEF IInv, ScanInv
<1>17. TimesInv'
  BY <1>2, TimesFrame DEF IInv
<1>18. fin' \in BOOLEAN
  BY <1>2, Zenon DEF IInv
<1> QED  BY <1>15, <1>16, <1>17, <1>18 DEF IInv

\* list_del keeps the active list in order.
LEMMA SortedDel ==
    ASSUME ListsInv, NEW e \in Entries(active)
    PROVE  \A i, j \in DOMAIN list_del(e, active) :
              i < j => TS(at[list_del(e, active)[i]]) <= TS(at[list_del(e, active)[j]])
<1> DEFINE n == list_del(e, active)
<1>1. SUFFICES ASSUME NEW i \in DOMAIN n, NEW j \in DOMAIN n, i < j
               PROVE  TS(at[n[i]]) <= TS(at[n[j]])
  OBVIOUS
<1>2. active \in Seq(Events)
  BY DEF ListsInv
<1>3. PICK k, l \in DOMAIN active : k < l /\ n[i] = active[k] /\ n[j] = active[l]
  BY <1>1, <1>2, ListDelOrder
<1> HIDE DEF n
<1>4. TS(at[active[k]]) <= TS(at[active[l]])
  BY <1>3 DEF ListsInv, ActiveSorted
<1> QED  BY <1>3, <1>4

LEMMA CancelInv ==
    ASSUME IInv, NEW e \in Events, lz_timer_call_cancel(e)
    PROVE  IInv'
<1>1. /\ loc[e] \in {"active", "stale"} /\ loc' = [loc EXCEPT ![e] = "freed"]
      /\ active' = list_del(e, active) /\ stale' = list_del(e, stale)
      /\ at' = [at EXCEPT ![e] = tv(0)] /\ delta' = [delta EXCEPT ![e] = NoDelta]
      /\ raced' = IF pc = "callback" /\ event = e THEN raced \cup {e} ELSE raced
      /\ UNCHANGED <<now, fin, pc, snap, event>>
  BY DEF lz_timer_call_cancel
<1>2. /\ active \in Seq(Events) /\ stale \in Seq(Events)
      /\ IsInjective(active) /\ IsInjective(stale)
      /\ Entries(active) = {f \in Events : loc[f] = "active"}
      /\ Entries(stale) = {f \in Events : loc[f] = "stale"}
      /\ loc \in [Events -> {"new", "stamped", "active", "stale", "freed"}]
      /\ at \in [Events -> Timeval]
  BY DEF IInv, TimesInv, ListsInv, ListsMatchEvents
<1>3. TimesInv'
  <2>1. /\ tv(0) \in Timeval /\ NoDelta \in [from : Nat, by : Timeval]
        /\ TS(tv(0)) = 0 /\ NoDelta.from + TS(NoDelta.by) = 0
    BY ZeroLemma
  <2>2. TS(tv(0)) - (NoDelta.from + TS(NoDelta.by)) \in {-Usec, 0, Usec}
    BY <2>1
  <2>3. TS(tv(0)) = NoDelta.from + TS(NoDelta.by)
    BY <2>1
  <2> QED  BY <1>1, <2>1, <2>2, <2>3, TimesStep DEF IInv
<1>4. /\ active' \in Seq(Events) /\ IsInjective(active') /\ Entries(active') = Entries(active) \ {e}
  <2>1. CASE e \in Entries(active)
    BY <2>1, <1>1, <1>2, ListDelLemma
  <2>2. CASE e \notin Entries(active)
    <3>1. active' = active
      BY <2>2, <1>1, ListDelAbsent
    <3> QED  BY <2>2, <3>1, <1>2
  <2> QED  BY <2>1, <2>2
<1>5. /\ stale' \in Seq(Events) /\ IsInjective(stale') /\ Entries(stale') = Entries(stale) \ {e}
  <2>1. CASE e \in Entries(stale)
    BY <2>1, <1>1, <1>2, ListDelLemma
  <2>2. CASE e \notin Entries(stale)
    <3>1. stale' = stale
      BY <2>2, <1>1, ListDelAbsent
    <3> QED  BY <2>2, <3>1, <1>2
  <2> QED  BY <2>1, <2>2
<1>6. ListsMatchEvents'
  <2>1. /\ {f \in Events : loc'[f] = "active"} = {f \in Events : loc[f] = "active"} \ {e}
        /\ {f \in Events : loc'[f] = "stale"} = {f \in Events : loc[f] = "stale"} \ {e}
    BY <1>1, <1>2
  <2> QED  BY <2>1, <1>2, <1>4, <1>5 DEF ListsMatchEvents
<1>7. ActiveSorted'
  <2>1. \A i, j \in DOMAIN active' : i < j => TS(at[active'[i]]) <= TS(at[active'[j]])
    <3>1. CASE e \in Entries(active)
      BY <3>1, <1>1, SortedDel DEF IInv
    <3>2. CASE e \notin Entries(active)
      <4>1. active' = active
        BY <3>2, <1>1, ListDelAbsent
      <4> QED  BY <4>1 DEF IInv, ListsInv, ActiveSorted
    <3> QED  BY <3>1, <3>2
  <2>2. \A i \in DOMAIN active' : active'[i] \in Events \ {e}
    BY <1>2, <1>4 DEF Entries, Range
  <2>3. \A i \in DOMAIN active' : at'[active'[i]] = at[active'[i]]
    BY <2>2, <1>1, <1>2
  <2> QED  BY <2>1, <2>3 DEF ActiveSorted, TS
<1>8. ListsInv'
  <2>1. loc' \in [Events -> {"new", "stamped", "active", "stale", "freed"}]
    BY <1>1, <1>2
  <2> QED  BY <2>1, <1>4, <1>5, <1>6, <1>7 DEF ListsInv
<1>9. ScanInv'
  <2>1. raced' \in SUBSET {f \in Events : loc'[f] = "freed"}
    <3>1. raced \in SUBSET {f \in Events : loc[f] = "freed"}
      BY DEF IInv, ScanInv
    <3> QED  BY <3>1, <1>1, <1>2
  <2>2. CallbackIsDue'
    <3> SUFFICES ASSUME pc = "callback"
                 PROVE  TS(at'[event]) <= now /\ (loc'[event] = "stale" \/ event \in raced')
      BY <1>1 DEF CallbackIsDue, TS
    <3>1. /\ event \in Events /\ TS(at[event]) <= now /\ now \in Nat
          /\ loc[event] = "stale" \/ event \in raced
      BY DEF IInv, ScanInv, CallbackIsDue
    <3>2. CASE event = e
      <4>1. TS(at'[event]) = 0
        BY <3>2, <1>1, <1>2, ZeroLemma
      <4>2. event \in raced'
        BY <3>2, <1>1
      <4> QED  BY <4>1, <4>2, <3>1
    <3>3. CASE event # e
      <4>1. at'[event] = at[event] /\ loc'[event] = loc[event] /\ raced' = raced
        BY <3>1, <3>3, <1>1, <1>2
      <4> QED  BY <4>1, <3>1
    <3> QED  BY <3>2, <3>3
  <2> QED  BY <2>1, <2>2, <1>1 DEF IInv, ScanInv
<1>10. fin' \in BOOLEAN
  BY <1>1, Zenon DEF IInv
<1> QED  BY <1>3, <1>8, <1>9, <1>10 DEF IInv

\* The event at the head of the active list is the one that is called back.
LEMMA TakeDueInv ==
    ASSUME IInv, TakeDue
    PROVE  IInv'
<1> DEFINE e == Head(active)
<1>1. /\ active # <<>> /\ snap >= TS(at[e])
      /\ event' = e /\ active' = list_del(e, active) /\ stale' = list_add_tail(e, stale)
      /\ loc' = [loc EXCEPT ![e] = "stale"] /\ pc' = "callback"
      /\ UNCHANGED <<now, at, delta, fin, snap, raced>>
  BY DEF TakeDue, Due, list_empty
<1>2. /\ active \in Seq(Events) /\ stale \in Seq(Events)
      /\ IsInjective(active) /\ IsInjective(stale)
      /\ Entries(active) = {f \in Events : loc[f] = "active"}
      /\ Entries(stale) = {f \in Events : loc[f] = "stale"}
      /\ loc \in [Events -> {"new", "stamped", "active", "stale", "freed"}]
      /\ at \in [Events -> Timeval]
  BY DEF IInv, TimesInv, ListsInv, ListsMatchEvents
<1>3. e \in Entries(active) /\ e \in Events /\ loc[e] = "active" /\ e \notin Entries(stale)
  <2>1. 1 \in DOMAIN active /\ e = active[1]
    BY <1>1, <1>2
  <2>2. e \in Entries(active)
    BY <2>1 DEF Entries, Range
  <2> QED  BY <2>2, <1>2
<1> HIDE DEF e
<1>4. /\ active' \in Seq(Events) /\ IsInjective(active') /\ Entries(active') = Entries(active) \ {e}
  BY <1>1, <1>2, <1>3, ListDelLemma
<1>5. /\ stale' \in Seq(Events) /\ IsInjective(stale') /\ Entries(stale') = Entries(stale) \cup {e}
  BY <1>1, <1>2, <1>3, ListAddTailLemma
<1>6. ListsMatchEvents'
  <2>1. /\ {f \in Events : loc'[f] = "active"} = {f \in Events : loc[f] = "active"} \ {e}
        /\ {f \in Events : loc'[f] = "stale"} = {f \in Events : loc[f] = "stale"} \cup {e}
    BY <1>1, <1>2, <1>3
  <2> QED  BY <2>1, <1>2, <1>4, <1>5 DEF ListsMatchEvents
<1>7. ActiveSorted'
  <2>1. \A i, j \in DOMAIN active' : i < j => TS(at[active'[i]]) <= TS(at[active'[j]])
    BY <1>1, <1>3, SortedDel DEF IInv
  <2> QED  BY <2>1, <1>1 DEF ActiveSorted, TS
<1>8. ListsInv'
  <2>1. loc' \in [Events -> {"new", "stamped", "active", "stale", "freed"}]
    BY <1>1, <1>2
  <2> QED  BY <2>1, <1>4, <1>5, <1>6, <1>7 DEF ListsInv
<1>9. ScanInv'
  <2>1. raced' \in SUBSET {f \in Events : loc'[f] = "freed"}
    <3>1. raced \in SUBSET {f \in Events : loc[f] = "freed"}
      BY DEF IInv, ScanInv
    <3> QED  BY <3>1, <1>1, <1>2, <1>3
  <2>2. CallbackIsDue'
    <3>1. at[e].tv_sec \in Nat /\ at[e].tv_usec \in Nat /\ Usec \in Nat
      BY <1>2, <1>3, UsecAssumption DEF Timeval
    <3>2. TS(at[e]) \in Nat
      BY <3>1 DEF TS
    <3>3. snap \in Nat /\ now \in Nat /\ snap <= now
      BY DEF IInv, ScanInv
    <3>4. TS(at[e]) <= now
      BY <3>2, <3>3, <1>1
    <3>5. loc'[e] = "stale"
      BY <1>1, <1>2, <1>3
    <3> QED  BY <3>4, <3>5, <1>1 DEF CallbackIsDue, TS
  <2> QED  BY <2>1, <2>2, <1>1, <1>3 DEF IInv, ScanInv
<1>10. fin' \in BOOLEAN
  BY <1>1, Zenon DEF IInv
<1>11. TimesInv'
  BY <1>1, TimesFrame DEF IInv
<1> QED  BY <1>8, <1>9, <1>10, <1>11 DEF IInv

\* The other steps of the timer thread, the clock and the owner of the registry
\* leave the events alone.
LEMMA OthersInv ==
    ASSUME IInv,
           StartScan \/ ScanDone \/ Callback \/ Usleep \/ Shutdown \/ Tick \/ SetFin
    PROVE  IInv'
<1>1. UNCHANGED <<at, delta, loc, active, stale, raced>>
  BY DEF StartScan, ScanDone, Callback, Usleep, Shutdown, Tick, SetFin
<1>2. TimesInv' /\ ListsInv'
  BY <1>1, TimesFrame, ListsFrame DEF IInv
<1>3. fin' \in BOOLEAN
  BY Zenon DEF IInv, StartScan, ScanDone, Callback, Usleep, Shutdown, Tick, SetFin
<1>4. /\ now \in 0 .. MaxTime /\ snap \in Nat /\ snap <= now /\ MaxTime \in Nat
      /\ event \in Events \cup {NoEvent}
      /\ pc \in {"loop", "scan", "callback", "usleep", "done", "deadlocked"}
      /\ pc = "callback" => event \in Events
      /\ raced' \in SUBSET {e \in Events : loc'[e] = "freed"}
  BY <1>1, MaxTimeAssumption DEF IInv, ScanInv
<1>5. CASE StartScan \/ ScanDone \/ Callback \/ Usleep \/ Shutdown
  <2>1. pc' \in {"loop", "scan", "usleep", "done", "deadlocked"}
    BY <1>5 DEF StartScan, ScanDone, Callback, Usleep, Shutdown
  <2>2. snap' \in Nat /\ snap' <= now /\ now' = now /\ event' \in Events \cup {NoEvent}
    BY <1>5, <1>4 DEF StartScan, ScanDone, Callback, Usleep, Shutdown
  <2>3. CallbackIsDue'
    BY <2>1 DEF CallbackIsDue
  <2>4. ScanInv'
    BY <1>4, <2>1, <2>2, <2>3 DEF ScanInv
  <2> QED  BY <1>2, <1>3, <2>4 DEF IInv
<1>6. CASE Tick
  <2>1. now' = now + 1 /\ now < MaxTime /\ UNCHANGED <<pc, snap, event>>
    BY <1>6 DEF Tick
  <2>2. now' \in 0 .. MaxTime /\ snap <= now'
    BY <2>1, <1>4
  <2>3. CallbackIsDue'
    <3> SUFFICES ASSUME pc = "callback"
                 PROVE  TS(at[event]) <= now' /\ (loc[event] = "stale" \/ event \in raced)
      BY <1>1, <2>1 DEF CallbackIsDue, TS
    <3>1. /\ event \in Events /\ TS(at[event]) <= now
          /\ loc[event] = "stale" \/ event \in raced
      BY DEF IInv, ScanInv, CallbackIsDue
    <3>2. at[event].tv_sec \in Nat /\ at[event].tv_usec \in Nat /\ Usec \in Nat
      BY <3>1, UsecAssumption DEF IInv, TimesInv, Timeval
    <3>3. TS(at[event]) \in Nat
      BY <3>2 DEF TS
    <3>4. TS(at[event]) <= now'
      BY <3>1, <3>3, <2>1, <1>4
    <3> QED  BY <3>1, <3>4
  <2>4. ScanInv'
    BY <1>4, <2>1, <2>2, <2>3 DEF ScanInv
  <2> QED  BY <1>2, <1>3, <2>4 DEF IInv
<1>7. CASE SetFin
  <2>1. UNCHANGED <<now, pc, snap, event>>
    BY <1>7 DEF SetFin
  <2>2. CallbackIsDue'
    BY <1>1, <2>1 DEF IInv, ScanInv, CallbackIsDue, TS
  <2>3. ScanInv'
    BY <1>4, <2>1, <2>2 DEF ScanInv
  <2> QED  BY <1>2, <1>3, <2>3 DEF IInv
<1> QED  BY <1>5, <1>6, <1>7

-----------------------------------------------------------------------------
(* The theorems *)

LEMMA InitInv == Init => IInv
<1> SUFFICES ASSUME Init PROVE IInv
  OBVIOUS
<1>1. /\ at = [e \in Events |-> tv(0)] /\ delta = [e \in Events |-> NoDelta]
      /\ loc = [e \in Events |-> "new"] /\ active = <<>> /\ stale = <<>>
      /\ now = 0 /\ pc = "loop" /\ snap = 0 /\ event = NoEvent /\ raced = {}
  BY DEF Init
<1>2. fin \in BOOLEAN
  BY Zenon DEF Init
<1>3. TimesInv
  <2>1. at \in [Events -> Timeval] /\ delta \in [Events -> [from : Nat, by : Timeval]]
    BY <1>1, ZeroLemma
  <2>2. \A e \in Events : TS(at[e]) = 0 /\ Requested(e) = 0
    BY <1>1, ZeroLemma DEF Requested
  <2>3. WithinASecond
    BY <2>2 DEF WithinASecond
  <2> QED  BY <2>1, <2>3 DEF TimesInv
<1>4. ListsInv
  <2>1. DOMAIN active = {} /\ DOMAIN stale = {} /\ active \in Seq(Events) /\ stale \in Seq(Events)
    BY <1>1
  <2>2. loc \in [Events -> {"new", "stamped", "active", "stale", "freed"}]
    BY <1>1
  <2>3. ActiveSorted
    BY <2>1 DEF ActiveSorted
  <2>4. ListsMatchEvents
    BY <2>1, <1>1 DEF ListsMatchEvents, Entries, Range, IsInjective
  <2> QED  BY <2>1, <2>2, <2>3, <2>4 DEF ListsInv
<1>5. ScanInv
  BY <1>1, MaxTimeAssumption DEF ScanInv, CallbackIsDue
<1> QED  BY <1>2, <1>3, <1>4, <1>5 DEF IInv

LEMMA NextInv == IInv /\ [Next]_vars => IInv'
<1> SUFFICES ASSUME IInv, [Next]_vars PROVE IInv'
  OBVIOUS
<1>1. ASSUME NEW e \in Events, NEW d \in Deltas, Stamp(e, d) PROVE IInv'
  BY <1>1, StampInv
<1>2. ASSUME NEW e \in Events, Insert(e) PROVE IInv'
  BY <1>2, InsertInv
<1>3. ASSUME NEW e \in Events, lz_timer_call_cancel(e) PROVE IInv'
  BY <1>3, CancelInv
<1>4. CASE TakeDue
  BY <1>4, TakeDueInv
<1>5. CASE StartScan \/ ScanDone \/ Callback \/ Usleep \/ Shutdown \/ Tick \/ SetFin
  BY <1>5, OthersInv
<1>6. CASE UNCHANGED vars
  <2>1. UNCHANGED <<now, at, delta, loc, active, stale, pc, snap, event, raced>>
    BY <1>6 DEF vars
  <2>2. fin' \in BOOLEAN
    BY <1>6, Zenon DEF IInv, vars
  <2>3. TimesInv' /\ ListsInv'
    BY <2>1, TimesFrame, ListsFrame DEF IInv
  <2>4. ScanInv'
    BY <2>1 DEF IInv, ScanInv, CallbackIsDue, TS
  <2> QED  BY <2>2, <2>3, <2>4 DEF IInv
<1> QED  BY <1>1, <1>2, <1>3, <1>4, <1>5, <1>6, Zenon DEF Next, lz_timer_proc

\* The registry's invariant holds whatever the delays, the number of events and
\* the order in which threads reach the lock (timer.c, all functions).
THEOREM Invariance == Spec => []IInv
BY InitInv, NextInv, PTL DEF Spec

\* The lists are sorted and hold the events that wait on them (timer.c,
\* lz_timer_call_after, lz_timer_call_stale and lz_timer_call_cancel).
THEOREM ListsCorrect == Spec => []ListsConsistent
<1>1. IInv => ListsConsistent
  <2> SUFFICES ASSUME IInv PROVE ListsConsistent
    OBVIOUS
  <2>1. /\ now \in 0 .. MaxTime /\ snap \in Nat /\ event \in Events \cup {NoEvent}
        /\ pc \in {"loop", "scan", "callback", "usleep", "done", "deadlocked"}
        /\ raced \subseteq Events
    BY DEF IInv, ScanInv
  <2>2. /\ at \in [Events -> Timeval] /\ delta \in [Events -> [from : Nat, by : Timeval]]
    BY DEF IInv, TimesInv
  <2>3. /\ loc \in [Events -> {"new", "stamped", "active", "stale", "freed"}]
        /\ active \in Seq(Events) /\ stale \in Seq(Events)
        /\ ActiveSorted /\ ListsMatchEvents
    BY DEF IInv, ListsInv
  <2>4. fin \in BOOLEAN
    BY Zenon DEF IInv
  <2> QED  BY <2>1, <2>2, <2>3, <2>4, Zenon DEF ListsConsistent, TypeOK
<1> QED  BY <1>1, Invariance, PTL

\* A callback runs for an event whose time has come (timer.c, lz_timer_proc).
THEOREM CallbacksCorrect == Spec => []CallbackIsDue
<1>1. IInv => CallbackIsDue
  BY DEF IInv, ScanInv
<1> QED  BY <1>1, Invariance, PTL

\* The carry of lz_timer_call_after is wrong by at most a second (timer.c,
\* lz_timer_call_after).
THEOREM DelaysWithinASecond == Spec => []WithinASecond
<1>1. IInv => WithinASecond
  BY DEF IInv, TimesInv
<1> QED  BY <1>1, Invariance, PTL
=============================================================================
