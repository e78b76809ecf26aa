---------------------------- MODULE MCEventPool ----------------------------
(* EventPool with a few descriptors and transports. *)
EXTENDS EventPool, TLC

CONSTANTS f1, f2, f3, d1, d2, d3

MCFds2 == {f1, f2}
MCFds3 == {f1, f2, f3}
MCDatas2 == {d1, d2}
MCDatas3 == {d1, d2, d3}

\* Descriptor numbers and transports are interchangeable.
Symmetry == Permutations(MCFds3) \cup Permutations(MCDatas3)
=============================================================================
