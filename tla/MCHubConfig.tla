------------------------------ MODULE MCHubConfig ------------------------------
(* HubConfig on small instances. *)
EXTENDS HubConfig, TLC

\* A /24, and the /23 that holds it and its neighbour.
TypedNets == {[at |-> 0, size |-> 1], [at |-> 0, size |-> 2]}

\* The neighbour.
TypedLists == {{[at |-> 1, size |-> 1]}}

Symmetry == Permutations(Hub) \cup Permutations(Slug) \cup Permutations(Proc)
===============================================================================
