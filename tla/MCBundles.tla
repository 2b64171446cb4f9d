------------------------------- MODULE MCBundles -------------------------------
(* Bundles on small instances. *)
EXTENDS Bundles, TLC
===============================================================================
