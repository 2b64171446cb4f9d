------------------------------ MODULE Admission ------------------------------
(***************************************************************************)
(* What enrolment promises, without tables, transactions or handlers.      *)
(*                                                                         *)
(* A token admits at most one device, ever, and none once it is closed.    *)
(* An admitted device takes a seat: a place in a hub's mesh (its tunnel    *)
(* address) under a public key.  No two seated devices share a place or a  *)
(* key, a vacated device never sits down again, and the ownership of a hub *)
(* passes from one device to another only through "nobody".                *)
(*                                                                         *)
(* Enrollment implements this specification (property ImplementsAdmission).*)
(***************************************************************************)
EXTENDS Naturals

CONSTANTS Token, Dev, Hub, Key, MaxIndex, None

VARIABLES
  admitted,   \* admitted[t]: the device token t let in, or None
  closed,     \* the tokens that were revoked
  seat,       \* seat[d]: where device d sits, or None
  owner       \* owner[h]: the device that acts as hub h, or None

vars == <<admitted, closed, seat, owner>>

HubIndex == 1
Seat == [hub : Hub, idx : 1..MaxIndex, key : Key]

Clash(s, u) == \/ s.hub = u.hub /\ s.idx = u.idx
               \/ s.key = u.key

Init == /\ admitted = [t \in Token |-> None]
        /\ closed = {}
        /\ seat = [d \in Dev |-> None]
        /\ owner = [h \in Hub |-> None]

\* A token that is still good lets a device in that was never here before.
Admit(t, d, s) ==
  /\ t \notin closed
  /\ admitted[t] = None
  /\ \A u \in Token : admitted[u] # d
  /\ \A e \in Dev : seat[e] # None => ~Clash(seat[e], s)
  /\ s.idx = HubIndex => owner[s.hub] = None
  /\ admitted' = [admitted EXCEPT ![t] = d]
  /\ seat' = [seat EXCEPT ![d] = s]
  /\ owner' = IF s.idx = HubIndex THEN [owner EXCEPT ![s.hub] = d] ELSE owner
  /\ UNCHANGED closed

\* The devices of S stand up and the hubs of H lose their owner; a sweep or
\* the deletion of a hub does both at once, a leaving hub in two steps.
Vacate(S, H) ==
  /\ seat' = [d \in Dev |-> IF d \in S THEN None ELSE seat[d]]
  /\ owner' = [h \in Hub |-> IF h \in H THEN None ELSE owner[h]]
  /\ UNCHANGED <<admitted, closed>>

Close(t) ==
  /\ closed' = closed \cup {t}
  /\ UNCHANGED <<admitted, seat, owner>>

Next ==
  \/ \E t \in Token, d \in Dev, s \in Seat : Admit(t, d, s)
  \/ \E S \in SUBSET Dev, H \in SUBSET Hub : Vacate(S, H)
  \/ \E t \in Token : Close(t)

Spec == Init /\ [][Next]_vars
=============================================================================
