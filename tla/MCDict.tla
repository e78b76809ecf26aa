------------------------------- MODULE MCDict -------------------------------
(* Dict with two dicts that share values, two keys and two threads. *)
EXTENDS Dict, TLC

CONSTANTS d1, d2, k1, k2, t1, t2, c1, c2

MCDicts == {d1, d2}
MCKeys == {k1, k2}
MCThreads == {t1, t2}
MCDatas == 1 .. 2
MCContents == {c1, c2}

\* One chain, as in every dict that dict_new makes; an empty key, an empty value.
MCHash(k) == 0
MCKeyLen(k) == IF k = k1 THEN 0 ELSE 1
MCValLen(c) == IF c = c1 THEN 0 ELSE 2

MCSettings == {[key |-> k1, content |-> c1], [key |-> k2, content |-> c2],
               [key |-> k2, content |-> NULL]}

MCBuffers == {<<>>, <<[key |-> k1, content |-> c1], [key |-> k2, content |-> c2]>>}

\* Whole, without the end of the last value, and without most of the header.
MCCuts == {0, 1, 3}

Symmetry == Permutations(MCDicts) \cup Permutations(MCThreads)
=============================================================================
