-------------------------------- MODULE MCZone ---------------------------------
(* Zone on small instances. *)
EXTENDS Zone, TLC

\* A name, and one of which nothing is left.
Texts == {<<"a">>, <<>>}

\* Two boxes of one LAN, one of another, and one that reports none, all behind the
\* hub's address: with the site asked for by name, more sites than s_index.
Places == {[pub |-> "n", lan |-> "l", at |-> 1], [pub |-> "n", lan |-> "l", at |-> 2],
           [pub |-> "n", lan |-> "m", at |-> 1], [pub |-> "n", lan |-> "", at |-> 1]}

Slugs == {<<"site", 2>>}

Symmetry == Permutations(Proc)
===============================================================================
