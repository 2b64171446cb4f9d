------------------------------- MODULE HubConfig -------------------------------
(***************************************************************************)
(* The configuration of hubs: minting a hub token, which creates the hub   *)
(* (createWGTokenForHub), and the admin's update (handleAdminWGHubUpdate). *)
(* Each is a sequence of statements that commit one by one; nothing in the *)
(* schema keeps two meshes apart.                                          *)
(*                                                                         *)
(* A network is a run of /24s, [at |-> first, size |-> how many].          *)
(***************************************************************************)
EXTENDS Naturals, FiniteSets

CONSTANTS
  Hub,        \* ids of wg_hubs rows; an id is given out once
  Slug,       \* hub slugs
  Endpoint,   \* public endpoints
  Proc,       \* admin requests in flight
  Blocks,     \* number of /24s in 100.64.0.0/10 (a bound)
  Typed,      \* the meshes an admin types
  Edited,     \* the endpoints an admin types in an edit, None for a blank
  RouteLists, \* the lists of advertised routes an admin types
  None        \* SQL NULL, an absent field, no row

Net == [at : 0..Blocks - 1, size : 1..Blocks]

ASSUME BlocksAssumption == Blocks \in Nat \ {0}
ASSUME TypedAssumption == Typed \subseteq Net /\ RouteLists \subseteq SUBSET Net
                        /\ Edited \subseteq Endpoint \cup {None}
ASSUME ConfigNoneAssumption == None \notin Hub \cup Slug \cup Endpoint \cup Net

Covers(n) == n.at .. n.at + n.size - 1

Meet(a, b) == Covers(a) \cap Covers(b) # {}

\* Mutant: one direction of the comparison is missing.
OverlapsOneWay(a, b) == b.at \in Covers(a)

\* cidrOverlaps: one of the networks holds the other's first address.
Overlaps(a, b) == b.at \in Covers(a) \/ a.at \in Covers(b)

VARIABLES
  hubs,       \* wg_hubs
  minted,     \* the hubs that have a hub token
  req,        \* the requests
  behind,     \* history: requests that read hubs before a hub changed its mesh
  raced,      \* history: hubs that were written by such a request
  overtaken   \* history: updates whose hub another update changed since they read it

vars == <<hubs, minted, req, behind, raced, overtaken>>

HubRow == [st : {"none", "up", "gone"}, slug : Slug \cup {None},
           endpoint : Endpoint \cup {None}, mesh : Net \cup {None},
           routes : SUBSET Net, bound : BOOLEAN]
NoHub == [st |-> "none", slug |-> None, endpoint |-> None, mesh |-> None,
          routes |-> {}, bound |-> FALSE]

PC == {"idle", "suggest", "lookup", "validate", "insert", "token", "list", "update"}

\* slug, endpoint, mesh and routes are the fields of the request, hub the row
\* it is about and read what the update read there and may write back.
Kept == [mesh : Net \cup {None}, routes : SUBSET Net]
Request == [pc : PC, slug : Slug \cup {None}, endpoint : Endpoint \cup {None},
            mesh : Net \cup {None}, routes : (SUBSET Net) \cup {None},
            hub : Hub \cup {None}, read : Kept]
Idle == [pc |-> "idle", slug |-> None, endpoint |-> None, mesh |-> None,
         routes |-> None, hub |-> None, read |-> [mesh |-> None, routes |-> {}]]

TypeOK ==
  /\ hubs \in [Hub -> HubRow]
  /\ minted \subseteq Hub
  /\ req \in [Proc -> Request]
  /\ behind \subseteq Proc
  /\ raced \subseteq Hub
  /\ overtaken \subseteq Proc

Init ==
  /\ hubs = [h \in Hub |-> NoHub]
  /\ minted = {}
  /\ req = [p \in Proc |-> Idle]
  /\ behind = {}
  /\ raced = {}
  /\ overtaken = {}

Up == {h \in Hub : hubs[h].st = "up"}
Named(s) == {h \in Up : hubs[h].slug = s}

At(p, pc) == req[p].pc = pc
Becomes(p, r) == req' = [req EXCEPT ![p] = r]
GoTo(p, pc) == req' = [req EXCEPT ![p].pc = pc]

\* A request that ends is forgotten.
Answer(p) ==
  /\ Becomes(p, Idle)
  /\ behind' = behind \ {p}
  /\ overtaken' = overtaken \ {p}

\* Whoever has read the hubs has read an old mesh.
HasRead == {p \in Proc : req[p].pc \in {"insert", "list", "update"}}
MeshWritten(p, h) ==
  /\ behind' = (IF hubs'[h].mesh = hubs[h].mesh THEN behind
                                                ELSE behind \cup HasRead) \ {p}
  /\ raced' = IF p \in behind THEN raced \cup {h} ELSE raced

\* An update that has read the row of h, and its write of other values there.
Editing(h) == {p \in Proc : req[p].pc \in {"list", "update"} /\ req[p].hub = h}
RowWritten(p, h) ==
  overtaken' =
    (IF hubs'[h].mesh = hubs[h].mesh /\ hubs'[h].routes = hubs[h].routes
       THEN overtaken ELSE overtaken \cup Editing(h)) \ {p}

-------------------------------------------------------------------------------
(* Minting a hub token.                                                      *)

\* mesh_cidr may be left out.
StartMint(p, s, e, m) ==
  /\ At(p, "idle")
  /\ Becomes(p, [Idle EXCEPT !.pc = IF m = None THEN "suggest" ELSE "lookup",
                             !.slug = s, !.endpoint = e, !.mesh = m])
  /\ UNCHANGED <<hubs, minted, behind, raced, overtaken>>

\* suggestFreeMeshCIDR: the first /24 whose text no hub has.
Block(b) == [at |-> b, size |-> 1]
UnusedTexts == {b \in 0..Blocks - 1 : \A g \in Up : hubs[g].mesh # Block(b)}

Suggest(p) ==
  /\ At(p, "suggest")
  /\ \/ \E b \in UnusedTexts :
          /\ \A c \in UnusedTexts : b <= c
          /\ Becomes(p, [req[p] EXCEPT !.pc = "lookup", !.mesh = Block(b)])
          /\ UNCHANGED <<behind, overtaken>>
     \/ UnusedTexts = {} /\ Answer(p)
  /\ UNCHANGED <<hubs, minted, raced>>

\* A hub of the slug is used again if it is unbound and was asked for with the
\* same endpoint and mesh; otherwise the slug is taken.
Reusable(h, r) ==
  ~hubs[h].bound /\ hubs[h].endpoint = r.endpoint /\ hubs[h].mesh = r.mesh

Lookup(p) ==
  LET S == Named(req[p].slug)
  IN /\ At(p, "lookup")
     /\ \/ S = {} /\ GoTo(p, "validate") /\ UNCHANGED <<behind, overtaken>>
        \/ \E h \in S : /\ Reusable(h, req[p])
                        /\ Becomes(p, [req[p] EXCEPT !.pc = "token", !.hub = h])
                        /\ UNCHANGED <<behind, overtaken>>
        \/ (\E h \in S : ~Reusable(h, req[p])) /\ Answer(p)
     /\ UNCHANGED <<hubs, minted, raced>>

\* No hub but h has a mesh that overlaps the network.
DisjointBut(n, h) == \A g \in Up \ {h} : ~Overlaps(n, hubs[g].mesh)

Validate(p) ==
  /\ At(p, "validate")
  /\ \/ DisjointBut(req[p].mesh, None) /\ GoTo(p, "insert") /\ UNCHANGED <<behind, overtaken>>
     \/ ~DisjointBut(req[p].mesh, None) /\ Answer(p)
  /\ UNCHANGED <<hubs, minted, raced>>

\* createWGHub; the slug is UNIQUE.
Insert(p, h) ==
  /\ At(p, "insert")
  /\ hubs[h].st = "none"
  /\ Named(req[p].slug) = {}
  /\ hubs' = [hubs EXCEPT ![h] = [NoHub EXCEPT
                !.st = "up", !.slug = req[p].slug,
                !.endpoint = req[p].endpoint, !.mesh = req[p].mesh]]
  /\ Becomes(p, [req[p] EXCEPT !.pc = "token", !.hub = h])
  /\ MeshWritten(p, h)
  /\ UNCHANGED <<minted, overtaken>>

InsertFails(p) ==
  /\ At(p, "insert")
  /\ Named(req[p].slug) # {} \/ \A h \in Hub : hubs[h].st # "none"
  /\ Answer(p)
  /\ UNCHANGED <<hubs, minted, raced>>

\* The token's row refers to the hub's: of a hub that is gone it fails.
InsertToken(p) ==
  /\ At(p, "token")
  /\ minted' = IF req[p].hub \in Up THEN minted \cup {req[p].hub} ELSE minted
  /\ Answer(p)
  /\ UNCHANGED <<hubs, raced>>

-------------------------------------------------------------------------------
(* The admin's update: read the row, list the hubs, write the row.           *)

\* Label and endpoint are written as they come, the other fields if present.
StartUpdate(p, h, e, m, rs) ==
  /\ At(p, "idle")
  /\ h \in Up
  /\ Becomes(p, [Idle EXCEPT !.pc = "list", !.hub = h, !.endpoint = e, !.mesh = m,
                             !.routes = rs,
                             !.read = [mesh |-> hubs[h].mesh, routes |-> hubs[h].routes]])
  /\ UNCHANGED <<hubs, minted, behind, raced, overtaken>>

\* Mutant: the routes are not compared with the meshes.
RoutesUnchecked(rs) == TRUE

\* validateAdvertisedRoutes: the hub's own mesh counts, as it is in the list.
RoutesAllowed(rs) == rs # None => \A n \in rs : DisjointBut(n, None)

MeshAllowed(m, h) == m # None => DisjointBut(m, h)

List(p) ==
  LET r == req[p]
      ok == MeshAllowed(r.mesh, r.hub) /\ RoutesAllowed(r.routes)
  IN /\ At(p, "list")
     /\ \/ ok /\ GoTo(p, "update") /\ UNCHANGED <<behind, overtaken>>
        \/ ~ok /\ Answer(p)
     /\ UNCHANGED <<hubs, minted, raced>>

\* Mutant: a request that does not mention the routes clears them.
RoutesCleared(r) == IF r.routes # None THEN r.routes ELSE {}

MeshOf(r) == IF r.mesh # None THEN r.mesh ELSE r.read.mesh
RoutesOf(r) == IF r.routes # None THEN r.routes ELSE r.read.routes

\* Every column of the configuration, those the request does not mention as
\* they were read.
Updated(r, row) ==
  [row EXCEPT !.endpoint = r.endpoint, !.mesh = MeshOf(r), !.routes = RoutesOf(r)]

\* updateWGHub; of a hub that is gone it writes nothing.
Update(p) ==
  LET h == req[p].hub
  IN /\ At(p, "update")
     /\ \/ /\ h \in Up
           /\ hubs' = [hubs EXCEPT ![h] = Updated(req[p], @)]
           /\ MeshWritten(p, h)
           /\ RowWritten(p, h)
           /\ Becomes(p, Idle)
        \/ h \notin Up /\ Answer(p) /\ UNCHANGED <<hubs, raced>>
     /\ UNCHANGED minted

-------------------------------------------------------------------------------
(* What else happens to the row.                                             *)

\* A register with the hub's token binds it, and gives it the endpoint it was
\* seen at if an edit left it without one; Enrollment has the whole of it.
Bind(h, e) ==
  /\ h \in Up \cap minted
  /\ ~hubs[h].bound
  /\ hubs' = [hubs EXCEPT ![h].bound = TRUE,
                          ![h].endpoint = IF @ = None THEN e ELSE @]
  /\ UNCHANGED <<minted, req, behind, raced, overtaken>>

Unbind(h) ==
  /\ h \in Up
  /\ hubs[h].bound
  /\ hubs' = [hubs EXCEPT ![h].bound = FALSE]
  /\ UNCHANGED <<minted, req, behind, raced, overtaken>>

\* deleteWGHub, of a hub without live devices (it may still be bound to one
\* that is not), takes the hub's tokens with it.
Delete(h) ==
  /\ h \in Up
  /\ hubs' = [hubs EXCEPT ![h] = [NoHub EXCEPT !.st = "gone"]]
  /\ minted' = minted \ {h}
  /\ UNCHANGED <<req, behind, raced, overtaken>>

Step(p) ==
  \/ Suggest(p) \/ Lookup(p) \/ Validate(p)
  \/ (\E h \in Hub : Insert(p, h)) \/ InsertFails(p) \/ InsertToken(p)
  \/ List(p) \/ Update(p)

Arrive(p) ==
  \E m \in Typed \cup {None} :
    \/ \E s \in Slug, e \in Endpoint : StartMint(p, s, e, m)
    \/ \E h \in Hub, e \in Edited, rs \in RouteLists \cup {None} :
         StartUpdate(p, h, e, m, rs)

\* The service fails between two statements, or one of them does.
Fail(p) ==
  /\ ~At(p, "idle")
  /\ Answer(p)
  /\ UNCHANGED <<hubs, minted, raced>>

Next ==
  \/ \E p \in Proc : Step(p) \/ Arrive(p) \/ Fail(p)
  \/ \E h \in Hub : (\E e \in Endpoint : Bind(h, e)) \/ Unbind(h) \/ Delete(h)

Spec == Init /\ [][Next]_vars

-------------------------------------------------------------------------------
(* Properties.                                                               *)

\* Two meshes overlap only if one of the hubs was written by a request that had
\* read the hubs before somebody else wrote a mesh: requests that do not
\* overlap in time, however many and in whatever order, keep meshes apart.
OverlapNeedsRace ==
  \A g, h \in Up \ raced : g # h => ~Meet(hubs[g].mesh, hubs[h].mesh)

\* An admin's update writes every column back, those it does not mention as it
\* read them; it brings back an old mesh or old routes only if another update of
\* the hub changed them in between.
UpdateLosesNothing ==
  [][\A p \in Proc \ overtaken, h \in Up : Update(p) /\ req[p].hub = h =>
       /\ req[p].mesh = None => hubs'[h].mesh = hubs[h].mesh
       /\ req[p].routes = None => hubs'[h].routes = hubs[h].routes]_vars

\* Routes that are advertised are outside every other hub's mesh at the moment
\* they are written, unless the request was overtaken.
RoutesOutsideOthers ==
  [][\A p \in Proc \ behind, h \in Hub :
       Update(p) /\ req[p].hub = h /\ req[p].routes # None =>
         \A n \in hubs'[h].routes : \A g \in Up \ {h} : ~Meet(n, hubs[g].mesh)]_vars

\* What the repository says and the program does not do: routes that are
\* advertised are outside every mesh, the hub's own included.  One request that
\* moves the hub and advertises is checked against the mesh the hub leaves.
RoutesOutsideMeshes ==
  [][\A p \in Proc \ behind, h \in Hub :
       Update(p) /\ req[p].hub = h /\ req[p].routes # None =>
         \A n \in hubs'[h].routes : \A g \in Up : ~Meet(n, hubs'[g].mesh)]_vars
===============================================================================
