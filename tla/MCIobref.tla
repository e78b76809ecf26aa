------------------------------ MODULE MCIobref ------------------------------
(* Iobref with two iobrefs of three slots. *)
EXTENDS Iobref, TLC

CONSTANTS r1, r2, b1, b2, t1, t2

MCIobrefs == {r1, r2}
MCIobufs == {b1, b2}
MCThreads == {t1, t2}

\* Clients merge in one direction only.
MCMergePairs == {<<r1, r2>>}

Symmetry == Permutations(MCIobufs) \cup Permutations(MCThreads)
=============================================================================
