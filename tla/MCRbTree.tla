----------------------------- MODULE MCRbTree ------------------------------
(* RbTree with six keys; two different items share the middle one. *)
EXTENDS RbTree

MCItems == {[key |-> k, id |-> 1] : k \in 1 .. 6} \cup {[key |-> 3, id |-> 2]}
=============================================================================
