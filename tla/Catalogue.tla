------------------------------ MODULE Catalogue ------------------------------
(***************************************************************************)
(* What the table of install bundles promises, without uploads, statements *)
(* or transactions.                                                        *)
(*                                                                         *)
(* A bundle is offered for one platform, until it is withdrawn for good.   *)
(* At any time one of a platform's bundles may be its latest.  Promoting   *)
(* another one puts it in the place of the former in a single step, and    *)
(* touches no other platform; only withdrawing the latest bundle leaves a  *)
(* platform without one.                                                   *)
(*                                                                         *)
(* Bundles implements this specification (property ImplementsCatalogue).   *)
(***************************************************************************)
CONSTANTS Bundle, Arch, None

VARIABLES
  platform,   \* platform[b]: what bundle b is offered for, or None
  latest,     \* the bundles that are the latest of their platform
  withdrawn   \* the bundles that were offered once

vars == <<platform, latest, withdrawn>>

Offered == {b \in Bundle : platform[b] # None}

Init == /\ platform = [b \in Bundle |-> None]
        /\ latest = {}
        /\ withdrawn = {}

Offer(b, a) ==
  /\ b \notin Offered \cup withdrawn
  /\ platform' = [platform EXCEPT ![b] = a]
  /\ UNCHANGED <<latest, withdrawn>>

Promote(b) ==
  /\ b \in Offered
  /\ latest' = {c \in latest : platform[c] # platform[b]} \cup {b}
  /\ UNCHANGED <<platform, withdrawn>>

Withdraw(b) ==
  /\ b \in Offered
  /\ platform' = [platform EXCEPT ![b] = None]
  /\ latest' = latest \ {b}
  /\ withdrawn' = withdrawn \cup {b}

Next == \E b \in Bundle : \/ \E a \in Arch : Offer(b, a)
                          \/ Promote(b) \/ Withdraw(b)

Spec == Init /\ [][Next]_vars
===============================================================================
