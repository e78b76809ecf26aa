----------------------------- MODULE MCRbtHash -----------------------------
(* RbtHash with three keys of which two meet in a bucket, on a pool of two   *)
(* chunks.  The heap has blocks that touch the region on both sides.         *)
EXTENDS RbtHash, TLC

CONSTANTS k1, k2, k3, d1, d2, d3, t1, t2

MCHeapAddrs == {7, 20}
MCKeys == {k1, k2, k3}
MCHash == k1 :> 0 @@ k2 :> 2 @@ k3 :> 3
MCData == {d1, d2, d3}
MCThreads == {t1, t2}
Symmetry == Permutations(MCData) \cup Permutations(MCThreads)
=============================================================================
