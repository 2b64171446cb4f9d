------------------------------ MODULE MCHubStatus ------------------------------
(* HubStatus on small instances. *)
EXTENDS HubStatus, TLC
===============================================================================
