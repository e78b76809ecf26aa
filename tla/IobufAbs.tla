------------------------------ MODULE IobufAbs ------------------------------
(***************************************************************************)
(* What the iobuf pool promises its clients, without arenas lists, counts  *)
(* and locks: a buffer is handed out to one caller at a time, it stays     *)
(* mapped while a reference is held or its last holder is still giving it  *)
(* back, and memory is unmapped one whole arena at a time.                 *)
(***************************************************************************)
EXTENDS Naturals

CONSTANTS Arenas, Slots

Iobufs == Arenas \X Slots

VARIABLES
    mapped,    \* arenas whose memory is mapped
    refs,      \* references the clients hold on each buffer
    returning  \* buffers without a holder that are not back in the pool yet

vars == <<mapped, refs, returning>>

Free(b) == refs[b] = 0 /\ b \notin returning

Init ==
    /\ mapped \in SUBSET Arenas
    /\ refs = [b \in Iobufs |-> 0]
    /\ returning = {}

\* A buffer that nobody uses is handed out; its arena may be mapped for it.
Get(b) ==
    /\ Free(b)
    /\ mapped' = mapped \cup {b[1]}
    /\ refs' = [refs EXCEPT ![b] = 1]
    /\ UNCHANGED returning

Ref(b) ==
    /\ refs[b] > 0
    /\ refs' = [refs EXCEPT ![b] = @ + 1]
    /\ UNCHANGED <<mapped, returning>>

\* A holder gives its reference up; the last one has to return the buffer.
Unref(b) ==
    /\ refs[b] > 0
    /\ refs' = [refs EXCEPT ![b] = @ - 1]
    /\ returning' = IF refs[b] = 1 THEN returning \cup {b} ELSE returning
    /\ UNCHANGED mapped

Return(b) ==
    /\ b \in returning
    /\ returning' = returning \ {b}
    /\ UNCHANGED <<mapped, refs>>

\* Arenas are unmapped when all of their buffers are free.
Unmap(D) ==
    /\ \A a \in D : \A i \in Slots : Free(<<a, i>>)
    /\ mapped' = mapped \ D
    /\ UNCHANGED <<refs, returning>>

Next ==
    \/ \E b \in Iobufs : Get(b) \/ Ref(b) \/ Unref(b) \/ Return(b)
    \/ \E D \in SUBSET Arenas : Unmap(D)

Spec == Init /\ [][Next]_vars
=============================================================================
