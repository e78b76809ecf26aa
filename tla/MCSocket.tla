------------------------------ MODULE MCSocket ------------------------------
(* Socket with two clients and messages of a few units. *)
EXTENDS Socket, TLC

CONSTANTS t1, t2

MCThreads1 == {t1}
MCThreads2 == {t1, t2}

\* A message whose vector has an empty element.
MCOutVectors == {<<1, 0, 1>>}
MCInKinds == {[valid |-> TRUE, size1 |-> 1, size2 |-> 1],
              [valid |-> FALSE, size1 |-> 1, size2 |-> 0]}

\* Clients are interchangeable.
Symmetry == Permutations(MCThreads2)
=============================================================================
