------------------------------ MODULE MCTimer ------------------------------
(* Timer with a second of two microseconds. *)
EXTENDS Timer

CONSTANTS e1, e2, e3

MCEvents3 == {e1, e2, e3}

\* Half a second, whose carry goes wrong, and a whole second.
MCDeltas == {[tv_sec |-> 0, tv_usec |-> 1], [tv_sec |-> 1, tv_usec |-> 0]}
=============================================================================
