------------------------------ MODULE MCBoxAgent ------------------------------
(* BoxAgent on small instances. *)
EXTENDS BoxAgent, TLC

Symmetry == Permutations(Token) \cup Permutations(Key)

===============================================================================
