---------------------------- MODULE MCIobufPool ----------------------------
(* IobufPool with small sets of arenas and threads. *)
EXTENDS IobufPool, TLC

CONSTANTS a1, a2, a3, t1, t2

MCArenas2 == {a1, a2}
MCArenas3 == {a1, a2, a3}
MCThreads == {t1, t2}

\* Arenas are interchangeable addresses and threads interchangeable callers.
Symmetry3 == Permutations(MCArenas3) \cup Permutations(MCThreads)
=============================================================================
