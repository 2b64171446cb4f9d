------------------------------ MODULE MCRouting ------------------------------
(* Routing on small instances. *)
EXTENDS Routing, TLC

Symmetry == Permutations(Hub) \cup Permutations(Dev)
              \cup Permutations(Host) \cup Permutations(Subnet)

=============================================================================
