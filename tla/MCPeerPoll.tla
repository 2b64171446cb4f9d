------------------------------ MODULE MCPeerPoll ------------------------------
(* PeerPoll on small instances. *)
EXTENDS PeerPoll, TLC

Symmetry == Permutations(Hub) \cup Permutations(Dev)
              \cup Permutations(Host) \cup Permutations(Subnet)

=============================================================================
