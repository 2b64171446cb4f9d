---------------------------- MODULE MCEnrollment ----------------------------
(* Enrollment on small instances. *)
EXTENDS Enrollment, TLC

Symmetry == Permutations(Token) \cup Permutations(Dev)
              \cup Permutations(Key) \cup Permutations(Proc)

=============================================================================
