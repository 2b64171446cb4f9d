---------------------------- MODULE HubConfig_proofs ----------------------------
(***************************************************************************)
(* Proofs about HubConfig, for any hubs, requests, meshes and routes.      *)
(***************************************************************************)
EXTENDS HubConfig, TLAPS

-------------------------------------------------------------------------------
(* What holds of the hubs, and what a request in flight may rely on.         *)

\* A hub that is up has a mesh; one that is not has none and advertises nothing.
HubsSound ==
  \A h \in Hub : /\ h \in Up => hubs[h].mesh \in Net
                 /\ h \notin Up => hubs[h].mesh = None /\ hubs[h].routes = {}

\* A mint has a mesh once it has looked or been told; its check of it stands
\* until a mesh is written.
MintSound(r, fresh) ==
  /\ r.pc \in {"lookup", "validate", "insert"} => r.mesh \in Net
  /\ r.pc = "insert" /\ fresh => DisjointBut(r.mesh, None)

\* An update is about a hub that was there; what it read and what it checked
\* stand until a mesh is written.
UpdateSound(r, fresh) ==
  /\ r.pc \in {"list", "update"} =>
       /\ r.hub \in Hub /\ hubs[r.hub].st # "none" /\ r.read.mesh \in Net
       /\ fresh /\ r.hub \in Up => r.read.mesh = hubs[r.hub].mesh
  /\ r.pc = "update" /\ fresh =>
       MeshAllowed(r.mesh, r.hub) /\ RoutesAllowed(r.routes)

RequestSound(p) ==
  MintSound(req[p], p \notin behind) /\ UpdateSound(req[p], p \notin behind)

IInv == TypeOK /\ HubsSound /\ (\A p \in Proc : RequestSound(p)) /\ OverlapNeedsRace

-------------------------------------------------------------------------------
(* Networks: two runs of blocks meet just if one has the first of the other. *)

LEMMA OverlapIsMeeting ==
  ASSUME NEW a \in Net, NEW b \in Net PROVE Meet(a, b) <=> Overlaps(a, b)
<1>0. /\ a.at \in Nat /\ a.size \in Nat /\ a.size >= 1
      /\ b.at \in Nat /\ b.size \in Nat /\ b.size >= 1
  BY BlocksAssumption DEF Net
<1>1. ASSUME Overlaps(a, b) PROVE Meet(a, b)
  <2>1. a.at \in Covers(a) /\ b.at \in Covers(b)
    BY <1>0 DEF Covers
  <2>2. QED
    BY <1>1, <2>1 DEF Overlaps, Meet
<1>2. ASSUME Meet(a, b) PROVE Overlaps(a, b)
  <2>1. PICK n : n \in Covers(a) /\ n \in Covers(b)
    BY <1>2 DEF Meet
  <2>2. n \in Nat /\ a.at <= n /\ n <= a.at + a.size - 1 /\ b.at <= n /\ n <= b.at + b.size - 1
    BY <1>0, <2>1 DEF Covers
  <2>3. QED
    BY <1>0, <2>2 DEF Overlaps, Covers
<1>3. QED
  BY <1>1, <1>2

LEMMA BlockIsNet ==
  ASSUME NEW b \in 0..Blocks - 1 PROVE Block(b) \in Net
BY BlocksAssumption DEF Block, Net

LEMMA NoneIsNoNet == None \notin Net /\ None \notin Hub
BY ConfigNoneAssumption

LEMMA RowsTyped == NoHub \in HubRow /\ Idle \in Request
BY DEF NoHub, HubRow, Idle, Request, Kept, PC

-------------------------------------------------------------------------------
(* Types.                                                                    *)

LEMMA GoToType ==
  ASSUME TypeOK, NEW p \in Proc, NEW pc \in PC, GoTo(p, pc)
  PROVE  req' \in [Proc -> Request]
<1>1. req[p] \in Request
  BY DEF TypeOK
<1>2. [req[p] EXCEPT !.pc = pc] \in Request
  BY <1>1 DEF Request
<1>3. req' = [req EXCEPT ![p] = [req[p] EXCEPT !.pc = pc]]
  BY DEF GoTo
<1>4. QED
  BY <1>2, <1>3 DEF TypeOK

LEMMA BecomesType ==
  ASSUME TypeOK, NEW p \in Proc, NEW r \in Request, Becomes(p, r)
  PROVE  req' \in [Proc -> Request]
BY DEF TypeOK, Becomes

LEMMA AnswerType ==
  ASSUME TypeOK, NEW p \in Proc, Answer(p)
  PROVE  /\ req' \in [Proc -> Request]
         /\ behind' \subseteq Proc /\ overtaken' \subseteq Proc
BY RowsTyped, BecomesType DEF TypeOK, Answer

LEMMA WrittenType ==
  ASSUME TypeOK, NEW p \in Proc, NEW h \in Hub, MeshWritten(p, h)
  PROVE  behind' \subseteq Proc /\ raced' \subseteq Hub
BY DEF TypeOK, MeshWritten, HasRead

LEMMA InitIInv == Init => IInv
<1> SUFFICES ASSUME Init PROVE IInv
  OBVIOUS
<1>1. TypeOK
  BY RowsTyped DEF Init, TypeOK
<1>2. Up = {}
  BY DEF Init, Up, NoHub
<1>3. HubsSound
  BY <1>2 DEF Init, HubsSound, NoHub
<1>4. ASSUME NEW p \in Proc PROVE RequestSound(p)
  BY DEF Init, RequestSound, MintSound, UpdateSound, Idle
<1>5. OverlapNeedsRace
  BY <1>2 DEF OverlapNeedsRace
<1>6. QED
  BY <1>1, <1>3, <1>4, <1>5 DEF IInv

LEMMA MintType ==
  ASSUME TypeOK, NEW p \in Proc,
         (\E s \in Slug, e \in Endpoint, m \in Typed \cup {None} : StartMint(p, s, e, m))
           \/ Suggest(p) \/ Lookup(p) \/ Validate(p)
  PROVE  TypeOK'
<1>1. CASE \E s \in Slug, e \in Endpoint, m \in Typed \cup {None} : StartMint(p, s, e, m)
  <2>1. PICK s \in Slug, e \in Endpoint, m \in Typed \cup {None} : StartMint(p, s, e, m)
    BY <1>1
  <2> DEFINE r == [Idle EXCEPT !.pc = IF m = None THEN "suggest" ELSE "lookup",
                               !.slug = s, !.endpoint = e, !.mesh = m]
  <2>2. m \in Net \cup {None}
    BY TypedAssumption
  <2>3. r \in Request
    BY <2>2, RowsTyped DEF Request, PC
  <2>4. QED
    BY <2>1, <2>3, BecomesType DEF StartMint, TypeOK
<1>2. CASE Suggest(p)
  <2>1. /\ req' \in [Proc -> Request]
        /\ behind' \subseteq Proc /\ overtaken' \subseteq Proc
    <3>1. CASE Answer(p)
      BY <3>1, AnswerType
    <3>2. CASE ~Answer(p)
      <4>1. PICK b \in 0..Blocks - 1 :
              Becomes(p, [req[p] EXCEPT !.pc = "lookup", !.mesh = Block(b)])
        BY <1>2, <3>2 DEF Suggest, UnusedTexts
      <4>2. req[p] \in Request
        BY DEF TypeOK
      <4>3. [req[p] EXCEPT !.pc = "lookup", !.mesh = Block(b)] \in Request
        BY <4>2, BlockIsNet DEF Request, PC
      <4>4. QED
        BY <1>2, <3>2, <4>1, <4>3, BecomesType DEF Suggest, TypeOK
    <3>3. QED
      BY <3>1, <3>2
  <2>2. QED
    BY <1>2, <2>1 DEF Suggest, TypeOK
<1>3. CASE Lookup(p)
  <2>1. /\ req' \in [Proc -> Request]
        /\ behind' \subseteq Proc /\ overtaken' \subseteq Proc
    <3>1. CASE Answer(p)
      BY <3>1, AnswerType
    <3>2. CASE GoTo(p, "validate") /\ UNCHANGED <<behind, overtaken>>
      BY <3>2, GoToType DEF PC, TypeOK
    <3>3. CASE ~Answer(p) /\ ~GoTo(p, "validate")
      <4>1. PICK h \in Hub :
              /\ Becomes(p, [req[p] EXCEPT !.pc = "token", !.hub = h])
              /\ UNCHANGED <<behind, overtaken>>
        BY <1>3, <3>3 DEF Lookup, Named, Up
      <4>2. req[p] \in Request
        BY DEF TypeOK
      <4>3. [req[p] EXCEPT !.pc = "token", !.hub = h] \in Request
        BY <4>2 DEF Request, PC
      <4>4. QED
        BY <4>1, <4>3, BecomesType DEF TypeOK
    <3>4. QED
      BY <1>3, <3>1, <3>2, <3>3 DEF Lookup
  <2>2. QED
    BY <1>3, <2>1 DEF Lookup, TypeOK
<1>4. CASE Validate(p)
  <2>1. /\ req' \in [Proc -> Request]
        /\ behind' \subseteq Proc /\ overtaken' \subseteq Proc
    BY <1>4, GoToType, AnswerType DEF Validate, PC, TypeOK
  <2>2. QED
    BY <1>4, <2>1 DEF Validate, TypeOK
<1>5. QED
  BY <1>1, <1>2, <1>3, <1>4

LEMMA InsertType ==
  ASSUME TypeOK, \A q \in Proc : RequestSound(q), NEW p \in Proc,
         (\E h \in Hub : Insert(p, h)) \/ InsertFails(p) \/ InsertToken(p)
  PROVE  TypeOK'
<1>1. CASE \E h \in Hub : Insert(p, h)
  <2>1. PICK h \in Hub : Insert(p, h)
    BY <1>1
  <2>2. req[p] \in Request
    BY DEF TypeOK
  <2>3. [NoHub EXCEPT !.st = "up", !.slug = req[p].slug,
                      !.endpoint = req[p].endpoint, !.mesh = req[p].mesh] \in HubRow
    BY <2>2, RowsTyped DEF Request, HubRow
  <2>4. [req[p] EXCEPT !.pc = "token", !.hub = h] \in Request
    BY <2>2 DEF Request, PC
  <2>5. hubs' \in [Hub -> HubRow]
    BY <2>1, <2>3 DEF Insert, TypeOK
  <2>6. req' \in [Proc -> Request]
    BY <2>1, <2>4, BecomesType DEF Insert
  <2>7. QED
    BY <2>1, <2>5, <2>6, WrittenType DEF Insert, TypeOK
<1>2. CASE InsertFails(p)
  BY <1>2, AnswerType DEF InsertFails, TypeOK
<1>3. CASE InsertToken(p)
  BY <1>3, AnswerType DEF InsertToken, TypeOK, Up
<1>4. QED
  BY <1>1, <1>2, <1>3

LEMMA UpdateType ==
  ASSUME TypeOK, \A q \in Proc : RequestSound(q), NEW p \in Proc,
         (\E h \in Hub, e \in Edited, m \in Typed \cup {None},
             rs \in RouteLists \cup {None} : StartUpdate(p, h, e, m, rs))
           \/ List(p) \/ Update(p)
  PROVE  TypeOK'
<1>0. req[p] \in Request
  BY DEF TypeOK
<1>1. CASE \E h \in Hub, e \in Edited, m \in Typed \cup {None},
               rs \in RouteLists \cup {None} : StartUpdate(p, h, e, m, rs)
  <2>1. PICK h \in Hub, e \in Edited, m \in Typed \cup {None},
             rs \in RouteLists \cup {None} : StartUpdate(p, h, e, m, rs)
    BY <1>1
  <2> DEFINE r == [Idle EXCEPT !.pc = "list", !.hub = h, !.endpoint = e, !.mesh = m,
                               !.routes = rs,
                               !.read = [mesh |-> hubs[h].mesh, routes |-> hubs[h].routes]]
  <2>2. /\ m \in Net \cup {None} /\ rs \in (SUBSET Net) \cup {None}
        /\ e \in Endpoint \cup {None} /\ hubs[h] \in HubRow
    BY TypedAssumption DEF TypeOK
  <2>3. [mesh |-> hubs[h].mesh, routes |-> hubs[h].routes] \in Kept
    BY <2>2 DEF HubRow, Kept
  <2>4. r \in Request
    BY <2>2, <2>3, RowsTyped DEF Request, PC
  <2>5. QED
    BY <2>1, <2>4, BecomesType DEF StartUpdate, TypeOK
<1>2. CASE List(p)
  <2>1. /\ req' \in [Proc -> Request]
        /\ behind' \subseteq Proc /\ overtaken' \subseteq Proc
    BY <1>2, GoToType, AnswerType DEF List, PC, TypeOK
  <2>2. QED
    BY <1>2, <2>1 DEF List, TypeOK
<1>3. CASE Update(p)
  <2>0. CASE req[p].hub \notin Up
    BY <1>3, <2>0, AnswerType DEF Update, TypeOK
  <2>1. CASE req[p].hub \in Up
    <3>1. req[p].hub \in Hub /\ hubs[req[p].hub] \in HubRow
      BY <2>1 DEF Up, TypeOK
    <3>2. req[p].read.mesh \in Net
      BY <1>3 DEF Update, At, RequestSound, UpdateSound
    <3>3. /\ MeshOf(req[p]) \in Net \cup {None}
          /\ RoutesOf(req[p]) \in SUBSET Net
      BY <1>0, <3>2 DEF MeshOf, RoutesOf, Request, Kept
    <3>4. Updated(req[p], hubs[req[p].hub]) \in HubRow
      BY <1>0, <3>1, <3>3 DEF Updated, HubRow, Request
    <3>5. hubs' \in [Hub -> HubRow]
      BY <1>3, <2>1, <3>1, <3>4 DEF Update, TypeOK
    <3>6. req' \in [Proc -> Request]
      BY <1>3, <2>1, RowsTyped, BecomesType DEF Update
    <3>7. QED
      BY <1>3, <2>1, <3>1, <3>5, <3>6, WrittenType DEF Update, RowWritten, Editing, TypeOK
  <2>2. QED
    BY <2>0, <2>1
<1>4. QED
  BY <1>1, <1>2, <1>3

LEMMA HubType ==
  ASSUME TypeOK, NEW h \in Hub,
         (\E e \in Endpoint : Bind(h, e)) \/ Unbind(h) \/ Delete(h)
  PROVE  TypeOK'
<1>0. hubs[h] \in HubRow
  BY DEF TypeOK
<1>1. \A b \in BOOLEAN, e \in Endpoint \cup {None} :
        /\ [hubs[h] EXCEPT !.bound = b] \in HubRow
        /\ [hubs[h] EXCEPT !.bound = b, !.endpoint = e] \in HubRow
  BY <1>0 DEF HubRow
<1>2. [NoHub EXCEPT !.st = "gone"] \in HubRow
  BY RowsTyped DEF HubRow
<1>3. \E row \in HubRow : hubs' = [hubs EXCEPT ![h] = row]
  <2>1. ASSUME NEW e \in Endpoint, Bind(h, e)
        PROVE  \E row \in HubRow : hubs' = [hubs EXCEPT ![h] = row]
    <3>1. PICK f \in Endpoint \cup {None} :
            f = IF hubs[h].endpoint = None THEN e ELSE hubs[h].endpoint
      BY <1>0 DEF HubRow
    <3>2. hubs' = [hubs EXCEPT ![h] = [hubs[h] EXCEPT !.bound = TRUE, !.endpoint = f]]
      BY <1>0, <2>1, <3>1 DEF Bind, HubRow, TypeOK
    <3>3. QED
      BY <1>1, <3>2
  <2>2. CASE Unbind(h)
    <3>1. hubs' = [hubs EXCEPT ![h] = [hubs[h] EXCEPT !.bound = FALSE]]
      BY <2>2 DEF Unbind
    <3>2. QED
      BY <1>1, <3>1
  <2>3. CASE Delete(h)
    BY <1>2, <2>3 DEF Delete
  <2>4. QED
    BY <2>1, <2>2, <2>3
<1>4. hubs' \in [Hub -> HubRow]
  BY <1>3 DEF TypeOK
<1>5. QED
  BY <1>4 DEF TypeOK, Bind, Unbind, Delete

-------------------------------------------------------------------------------
(* Steps that write no mesh.                                                 *)

\* No hub that is up has come or moved.
MeshesKept ==
  \A h \in Hub : hubs'[h].st = "up" => hubs[h].st = "up" /\ hubs'[h].mesh = hubs[h].mesh

\* What a request relies on stands if the meshes do or it is behind.
LEMMA OthersSound ==
  ASSUME NEW q \in Proc, RequestSound(q), req'[q] = req[q],
         \A h \in Hub : hubs[h].st # "none" => hubs'[h].st # "none",
         q \in HasRead => \/ q \in behind'
                          \/ q \notin behind /\ MeshesKept
  PROVE  RequestSound(q)'
<1> DEFINE r == req[q]
<1>1. CASE q \in behind'
  BY <1>1 DEF RequestSound, MintSound, UpdateSound
<1>2. CASE q \notin HasRead
  BY <1>2 DEF RequestSound, MintSound, UpdateSound, HasRead
<1>3. CASE q \notin behind /\ MeshesKept
  <2>1. Up' \subseteq Up /\ (\A h \in Up' : hubs'[h].mesh = hubs[h].mesh)
    BY <1>3 DEF Up, MeshesKept
  <2>2. \A n, h : DisjointBut(n, h) => DisjointBut(n, h)'
    BY <2>1 DEF DisjointBut
  <2>3. MintSound(r, TRUE) /\ UpdateSound(r, TRUE)
    BY <1>3 DEF RequestSound
  <2>4. /\ r.pc \in {"lookup", "validate", "insert"} => r.mesh \in Net
        /\ r.pc = "insert" => DisjointBut(r.mesh, None)'
    BY <2>2, <2>3 DEF MintSound
  <2>5. r.pc \in {"list", "update"} =>
          /\ r.hub \in Hub /\ hubs'[r.hub].st # "none" /\ r.read.mesh \in Net
          /\ r.hub \in Up' => r.read.mesh = hubs'[r.hub].mesh
    BY <2>1, <2>3 DEF UpdateSound
  <2>6. r.pc = "update" => MeshAllowed(r.mesh, r.hub)' /\ RoutesAllowed(r.routes)'
    BY <2>2, <2>3 DEF UpdateSound, MeshAllowed, RoutesAllowed
  <2>7. QED
    BY <2>4, <2>5, <2>6 DEF RequestSound, MintSound, UpdateSound
<1>4. QED
  BY <1>1, <1>2, <1>3

\* A request that ends relies on nothing.
LEMMA AnswerSound ==
  ASSUME TypeOK, NEW p \in Proc, Answer(p) PROVE RequestSound(p)'
<1>1. req'[p] = Idle
  BY DEF TypeOK, Answer, Becomes
<1>2. QED
  BY <1>1 DEF RequestSound, MintSound, UpdateSound, Idle

\* A step of a request that leaves the hubs alone.
LEMMA QuietStep ==
  ASSUME IInv, TypeOK', NEW p \in Proc, UNCHANGED <<hubs, raced>>, RequestSound(p)',
         \A q \in Proc \ {p} : req'[q] = req[q] /\ (q \in behind' <=> q \in behind)
  PROVE  IInv'
<1>1. HubsSound' /\ OverlapNeedsRace'
  BY DEF IInv, HubsSound, OverlapNeedsRace, Up
<1>2. MeshesKept
  BY DEF MeshesKept
<1>3. ASSUME NEW q \in Proc PROVE RequestSound(q)'
  <2>1. CASE q = p
    BY <2>1
  <2>2. CASE q # p
    BY <1>2, <2>2, OthersSound DEF IInv
  <2>3. QED
    BY <2>1, <2>2
<1>4. QED
  BY <1>1, <1>3 DEF IInv

LEMMA OthersKeep ==
  ASSUME TypeOK, NEW p \in Proc,
         \/ Answer(p)
         \/ UNCHANGED behind /\ (\/ \E pc : GoTo(p, pc)
                                 \/ \E r : Becomes(p, r))
  PROVE  \A q \in Proc \ {p} : req'[q] = req[q] /\ (q \in behind' <=> q \in behind)
BY DEF TypeOK, Answer, GoTo, Becomes

LEMMA MintSteps ==
  ASSUME IInv, TypeOK', NEW p \in Proc,
         (\E s \in Slug, e \in Endpoint, m \in Typed \cup {None} : StartMint(p, s, e, m))
           \/ Suggest(p) \/ Lookup(p) \/ Validate(p) \/ InsertFails(p) \/ InsertToken(p)
  PROVE  IInv'
<1>0. TypeOK /\ req[p] \in Request /\ RequestSound(p)
  BY DEF IInv, TypeOK
<1>1. CASE Answer(p) /\ UNCHANGED <<hubs, raced>>
  BY <1>0, <1>1, AnswerSound, OthersKeep, QuietStep
<1>2. CASE \E s \in Slug, e \in Endpoint, m \in Typed \cup {None} : StartMint(p, s, e, m)
  <2>1. PICK s \in Slug, e \in Endpoint, m \in Typed \cup {None} : StartMint(p, s, e, m)
    BY <1>2
  <2>2. /\ req'[p].pc = IF m = None THEN "suggest" ELSE "lookup"
        /\ req'[p].mesh = m
    BY <1>0, <2>1 DEF StartMint, Becomes, TypeOK, Idle
  <2>3. m # None => m \in Net
    BY TypedAssumption
  <2>4. RequestSound(p)'
    BY <2>2, <2>3 DEF RequestSound, MintSound, UpdateSound
  <2>5. UNCHANGED <<hubs, raced, behind>> /\ \E r : Becomes(p, r)
    BY <2>1 DEF StartMint
  <2>6. QED
    BY <1>0, <2>4, <2>5, OthersKeep, QuietStep
<1>3. CASE Suggest(p) /\ ~Answer(p)
  <2>1. PICK b \in 0..Blocks - 1 :
          /\ Becomes(p, [req[p] EXCEPT !.pc = "lookup", !.mesh = Block(b)])
          /\ UNCHANGED <<behind, overtaken>>
    BY <1>3 DEF Suggest, UnusedTexts
  <2>2. req'[p].pc = "lookup" /\ req'[p].mesh = Block(b)
    BY <1>0, <2>1 DEF Becomes, TypeOK, Request
  <2>3. RequestSound(p)'
    BY <2>2, BlockIsNet DEF RequestSound, MintSound, UpdateSound
  <2>4. UNCHANGED <<hubs, raced>>
    BY <1>3 DEF Suggest
  <2>5. QED
    BY <1>0, <2>1, <2>3, <2>4, OthersKeep, QuietStep
<1>4. CASE Lookup(p) /\ GoTo(p, "validate") /\ UNCHANGED <<behind, overtaken>>
  <2>1. req'[p].pc = "validate" /\ req'[p].mesh = req[p].mesh
    BY <1>0, <1>4 DEF GoTo, TypeOK, Request
  <2>2. req[p].mesh \in Net
    BY <1>0, <1>4 DEF Lookup, At, RequestSound, MintSound
  <2>3. RequestSound(p)'
    BY <2>1, <2>2 DEF RequestSound, MintSound, UpdateSound
  <2>4. UNCHANGED <<hubs, raced>>
    BY <1>4 DEF Lookup
  <2>5. QED
    BY <1>0, <1>4, <2>3, <2>4, OthersKeep, QuietStep
<1>5. CASE Lookup(p) /\ ~GoTo(p, "validate") /\ ~Answer(p)
  <2>1. PICK h \in Hub :
          /\ Becomes(p, [req[p] EXCEPT !.pc = "token", !.hub = h])
          /\ UNCHANGED <<behind, overtaken>>
    BY <1>5 DEF Lookup, Named, Up
  <2>2. req'[p].pc = "token"
    BY <1>0, <2>1 DEF Becomes, TypeOK, Request
  <2>3. RequestSound(p)'
    BY <2>2 DEF RequestSound, MintSound, UpdateSound
  <2>4. UNCHANGED <<hubs, raced>>
    BY <1>5 DEF Lookup
  <2>5. QED
    BY <1>0, <2>1, <2>3, <2>4, OthersKeep, QuietStep
<1>6. CASE Validate(p) /\ ~Answer(p)
  <2>1. /\ DisjointBut(req[p].mesh, None) /\ GoTo(p, "insert")
        /\ UNCHANGED <<behind, hubs, raced>>
    BY <1>6 DEF Validate
  <2>2. req'[p].pc = "insert" /\ req'[p].mesh = req[p].mesh
    BY <1>0, <2>1 DEF GoTo, TypeOK, Request
  <2>3. req[p].mesh \in Net
    BY <1>0, <1>6 DEF Validate, At, RequestSound, MintSound
  <2>4. DisjointBut(req[p].mesh, None)'
    BY <2>1, <2>2 DEF DisjointBut, Up
  <2>5. RequestSound(p)'
    BY <2>2, <2>3, <2>4 DEF RequestSound, MintSound, UpdateSound
  <2>6. QED
    BY <1>0, <2>1, <2>5, OthersKeep, QuietStep
<1>7. QED
  BY <1>1, <1>2, <1>3, <1>4, <1>5, <1>6
  DEF Suggest, Lookup, Validate, InsertFails, InsertToken

LEMMA UpdateSteps ==
  ASSUME IInv, TypeOK', NEW p \in Proc,
         (\E h \in Hub, e \in Edited, m \in Typed \cup {None},
             rs \in RouteLists \cup {None} : StartUpdate(p, h, e, m, rs))
           \/ List(p) \/ (Update(p) /\ req[p].hub \notin Up)
  PROVE  IInv'
<1>0. TypeOK /\ req[p] \in Request /\ RequestSound(p)
  BY DEF IInv, TypeOK
<1>1. CASE Answer(p) /\ UNCHANGED <<hubs, raced>>
  BY <1>0, <1>1, AnswerSound, OthersKeep, QuietStep
<1>2. CASE \E h \in Hub, e \in Edited, m \in Typed \cup {None},
               rs \in RouteLists \cup {None} : StartUpdate(p, h, e, m, rs)
  <2>1. PICK h \in Hub, e \in Edited, m \in Typed \cup {None},
             rs \in RouteLists \cup {None} : StartUpdate(p, h, e, m, rs)
    BY <1>2
  <2>2. req'[p].pc = "list" /\ req'[p].hub = h /\ req'[p].read.mesh = hubs[h].mesh
    BY <1>0, <2>1 DEF StartUpdate, Becomes, TypeOK, Idle
  <2>3. h \in Up /\ UNCHANGED <<hubs, raced, behind>> /\ \E r : Becomes(p, r)
    BY <2>1 DEF StartUpdate
  <2>4. hubs[h].mesh \in Net /\ hubs[h].st # "none"
    BY <2>3 DEF IInv, HubsSound, Up
  <2>5. RequestSound(p)'
    BY <2>2, <2>3, <2>4 DEF RequestSound, MintSound, UpdateSound
  <2>6. QED
    BY <1>0, <2>3, <2>5, OthersKeep, QuietStep
<1>3. CASE List(p) /\ ~Answer(p)
  <2>1. /\ MeshAllowed(req[p].mesh, req[p].hub) /\ RoutesAllowed(req[p].routes)
        /\ GoTo(p, "update") /\ UNCHANGED <<behind, hubs, raced>>
    BY <1>3 DEF List
  <2>2. /\ req'[p].pc = "update" /\ req'[p].mesh = req[p].mesh
        /\ req'[p].hub = req[p].hub /\ req'[p].routes = req[p].routes
        /\ req'[p].read = req[p].read
    BY <1>0, <2>1 DEF GoTo, TypeOK, Request
  <2>3. \A n, h : DisjointBut(n, h) => DisjointBut(n, h)'
    BY <2>1 DEF DisjointBut, Up
  <2>4. (MeshAllowed(req[p].mesh, req[p].hub) /\ RoutesAllowed(req[p].routes))'
    BY <2>1, <2>2, <2>3 DEF MeshAllowed, RoutesAllowed
  <2>5. UpdateSound(req[p], p \notin behind) /\ req[p].pc = "list"
    BY <1>0, <1>3 DEF RequestSound, List, At
  <2>6. /\ req[p].hub \in Hub /\ hubs'[req[p].hub].st # "none" /\ req[p].read.mesh \in Net
        /\ p \notin behind' /\ req[p].hub \in Up' => req[p].read.mesh = hubs'[req[p].hub].mesh
    BY <2>1, <2>5 DEF UpdateSound, Up
  <2>7. RequestSound(p)'
    BY <2>2, <2>4, <2>6 DEF RequestSound, MintSound, UpdateSound
  <2>8. QED
    BY <1>0, <2>1, <2>7, OthersKeep, QuietStep
<1>4. QED
  BY <1>1, <1>2, <1>3 DEF List, Update

-------------------------------------------------------------------------------
(* The two statements that write a mesh.                                     *)

\* The row of h is written with a mesh that was free, or with the one it had,
\* as far as the writer could know.
LEMMA MeshWrite ==
  ASSUME IInv, TypeOK', NEW p \in Proc, NEW h \in Hub, NEW row \in HubRow,
         hubs' = [hubs EXCEPT ![h] = row], row.st = "up", row.mesh \in Net,
         MeshWritten(p, h), RequestSound(p)',
         \A q \in Proc \ {p} : req'[q] = req[q],
         h \notin Up => hubs[h].mesh # row.mesh,
         p \notin behind => \/ DisjointBut(row.mesh, h)
                            \/ h \in Up /\ row.mesh = hubs[h].mesh
  PROVE  IInv'
<1>0. TypeOK
  BY DEF IInv
<1>1. hubs'[h] = row /\ \A g \in Hub \ {h} : hubs'[g] = hubs[g]
  BY <1>0 DEF TypeOK
<1>2. Up' = Up \cup {h}
  BY <1>1 DEF Up
<1>21. \A g \in Hub : hubs[g].st # "none" => hubs'[g].st # "none"
  BY <1>1
<1>3. HubsSound'
  BY <1>1, <1>2 DEF IInv, HubsSound
<1>4. ASSUME NEW q \in Proc PROVE RequestSound(q)'
  <2>1. CASE q = p
    BY <2>1
  <2>2. CASE q # p
    <3>1. CASE row.mesh = hubs[h].mesh
      <4>1. MeshesKept
        BY <1>1, <3>1 DEF MeshesKept, Up
      <4>2. q \in behind' <=> q \in behind
        BY <1>1, <2>2, <3>1 DEF MeshWritten
      <4>3. QED
        BY <1>21, <2>2, <4>1, <4>2, OthersSound DEF IInv
    <3>2. CASE row.mesh # hubs[h].mesh
      <4>1. q \in HasRead => q \in behind'
        BY <1>1, <2>2, <3>2 DEF MeshWritten
      <4>2. QED
        BY <1>21, <2>2, <4>1, OthersSound DEF IInv
    <3>3. QED
      BY <3>1, <3>2
  <2>3. QED
    BY <2>1, <2>2
<1>5. OverlapNeedsRace'
  <2> SUFFICES ASSUME NEW f \in Up' \ raced', NEW g \in Up' \ raced', f # g
               PROVE  ~Meet(hubs'[f].mesh, hubs'[g].mesh)
    BY DEF OverlapNeedsRace
  <2>0. /\ f \in Hub /\ g \in Hub /\ hubs'[f].mesh \in Net /\ hubs'[g].mesh \in Net
        /\ f \notin raced /\ g \notin raced
    BY <1>3 DEF HubsSound, Up, MeshWritten
  <2>1. CASE h \in Up /\ row.mesh = hubs[h].mesh
    <3>1. hubs'[f].mesh = hubs[f].mesh /\ hubs'[g].mesh = hubs[g].mesh
      BY <1>1, <2>0, <2>1
    <3>2. f \in Up /\ g \in Up
      BY <1>2, <2>1
    <3>3. QED
      BY <2>0, <3>1, <3>2 DEF IInv, OverlapNeedsRace
  <2>2. CASE f # h /\ g # h
    BY <1>1, <1>2, <2>0, <2>2 DEF IInv, OverlapNeedsRace
  <2>3. CASE ~(h \in Up /\ row.mesh = hubs[h].mesh) /\ (f = h \/ g = h)
    <3>1. p \notin behind
      BY <2>0, <2>3 DEF MeshWritten
    <3>2. DisjointBut(row.mesh, h)
      BY <2>3, <3>1
    <3>3. ASSUME NEW k \in Up \ {h}, hubs'[k].mesh \in Net
          PROVE  ~Meet(row.mesh, hubs'[k].mesh) /\ ~Meet(hubs'[k].mesh, row.mesh)
      <4>1. ~Overlaps(row.mesh, hubs'[k].mesh)
        BY <1>1, <3>2 DEF DisjointBut, Up
      <4>2. ~Meet(row.mesh, hubs'[k].mesh)
        BY <3>3, <4>1, OverlapIsMeeting
      <4>3. QED
        BY <4>2 DEF Meet
    <3>4. QED
      BY <1>1, <1>2, <2>0, <2>3, <3>3
  <2>4. QED
    BY <2>1, <2>2, <2>3
<1>6. QED
  BY <1>3, <1>4, <1>5 DEF IInv

LEMMA InsertStep ==
  ASSUME IInv, TypeOK', NEW p \in Proc, NEW h \in Hub, Insert(p, h)
  PROVE  IInv'
<1> DEFINE row == [NoHub EXCEPT !.st = "up", !.slug = req[p].slug,
                                !.endpoint = req[p].endpoint, !.mesh = req[p].mesh]
<1>0. TypeOK /\ req[p] \in Request /\ RequestSound(p) /\ req[p].pc = "insert"
  BY DEF IInv, TypeOK, Insert, At
<1>1. row \in HubRow /\ row.st = "up" /\ row.mesh = req[p].mesh
  BY <1>0, RowsTyped DEF Request, HubRow
<1>2. req[p].mesh \in Net /\ (p \notin behind => DisjointBut(req[p].mesh, None))
  BY <1>0 DEF RequestSound, MintSound
<1>3. hubs[h].st = "none" /\ h \notin Up
  BY DEF Insert, Up
<1>4. DisjointBut(req[p].mesh, None) => DisjointBut(req[p].mesh, h)
  BY NoneIsNoNet DEF DisjointBut, Up
<1>5. req'[p].pc = "token" /\ \A q \in Proc \ {p} : req'[q] = req[q]
  BY <1>0 DEF Insert, Becomes, TypeOK, Request
<1>6. RequestSound(p)'
  BY <1>5 DEF RequestSound, MintSound, UpdateSound
<1>7. hubs[h].mesh # row.mesh
  BY <1>1, <1>2, <1>3, NoneIsNoNet DEF IInv, HubsSound
<1>8. QED
  BY <1>1, <1>2, <1>4, <1>5, <1>6, <1>7, MeshWrite DEF Insert

LEMMA UpdateStep ==
  ASSUME IInv, TypeOK', NEW p \in Proc, Update(p), req[p].hub \in Up
  PROVE  IInv'
<1> DEFINE h == req[p].hub
           row == Updated(req[p], hubs[h])
<1>0. /\ TypeOK /\ req[p] \in Request /\ RequestSound(p) /\ req[p].pc = "update"
      /\ h \in Hub /\ hubs[h] \in HubRow /\ hubs[h].st = "up" /\ hubs[h].mesh \in Net
  BY DEF IInv, HubsSound, TypeOK, Update, At, Up
<1>1. /\ req[p].read.mesh \in Net
      /\ p \notin behind => /\ req[p].read.mesh = hubs[h].mesh
                            /\ MeshAllowed(req[p].mesh, h)
  BY <1>0 DEF RequestSound, UpdateSound
<1>2. MeshOf(req[p]) \in Net /\ RoutesOf(req[p]) \in SUBSET Net
  BY <1>0, <1>1 DEF MeshOf, RoutesOf, Request, Kept
<1>3. row \in HubRow /\ row.st = "up" /\ row.mesh = MeshOf(req[p])
  BY <1>0, <1>2 DEF Updated, HubRow, Request
<1>4. p \notin behind => DisjointBut(row.mesh, h) \/ row.mesh = hubs[h].mesh
  BY <1>1, <1>3 DEF MeshOf, MeshAllowed
<1>5. hubs' = [hubs EXCEPT ![h] = row] /\ MeshWritten(p, h) /\ Becomes(p, Idle)
  BY DEF Update
<1>6. req'[p] = Idle /\ \A q \in Proc \ {p} : req'[q] = req[q]
  BY <1>0, <1>5 DEF Becomes, TypeOK
<1>7. RequestSound(p)'
  BY <1>6 DEF RequestSound, MintSound, UpdateSound, Idle
<1>8. QED
  BY <1>0, <1>2, <1>3, <1>4, <1>5, <1>6, <1>7, MeshWrite

-------------------------------------------------------------------------------
(* What else happens to the row.                                             *)

LEMMA HubRows ==
  ASSUME IInv, NEW h \in Hub,
         (\E e \in Endpoint : Bind(h, e)) \/ Unbind(h) \/ Delete(h)
  PROVE  /\ h \in Up
         /\ \A g \in Hub \ {h} : hubs'[g] = hubs[g]
         /\ \/ /\ hubs'[h].st = "up" /\ hubs'[h].mesh = hubs[h].mesh
               /\ hubs'[h].routes = hubs[h].routes
            \/ hubs'[h].st = "gone" /\ hubs'[h].mesh = None /\ hubs'[h].routes = {}
<1>0. TypeOK /\ hubs[h] \in HubRow /\ h \in Up
  BY DEF IInv, TypeOK, Bind, Unbind, Delete
<1>1. \A g \in Hub \ {h} : hubs'[g] = hubs[g]
  BY <1>0 DEF TypeOK, Bind, Unbind, Delete
<1>2. \/ /\ hubs'[h].st = "up" /\ hubs'[h].mesh = hubs[h].mesh
         /\ hubs'[h].routes = hubs[h].routes
      \/ hubs'[h].st = "gone" /\ hubs'[h].mesh = None /\ hubs'[h].routes = {}
  <2>1. CASE \E e \in Endpoint : Bind(h, e)
    <3>1. PICK e \in Endpoint : Bind(h, e)
      BY <2>1
    <3>2. PICK f : f = IF hubs[h].endpoint = None THEN e ELSE hubs[h].endpoint
      OBVIOUS
    <3>3. hubs' = [hubs EXCEPT ![h] = [hubs[h] EXCEPT !.bound = TRUE, !.endpoint = f]]
      BY <1>0, <3>1, <3>2 DEF Bind, HubRow, TypeOK
    <3>4. QED
      BY <1>0, <3>3 DEF TypeOK, HubRow, Up
  <2>2. CASE Unbind(h)
    <3>1. hubs' = [hubs EXCEPT ![h] = [hubs[h] EXCEPT !.bound = FALSE]]
      BY <2>2 DEF Unbind
    <3>2. QED
      BY <1>0, <3>1 DEF TypeOK, HubRow, Up
  <2>3. CASE Delete(h)
    BY <1>0, <2>3 DEF Delete, NoHub, TypeOK
  <2>4. QED
    BY <2>1, <2>2, <2>3
<1>3. QED
  BY <1>0, <1>1, <1>2

LEMMA HubSteps ==
  ASSUME IInv, TypeOK', NEW h \in Hub,
         (\E e \in Endpoint : Bind(h, e)) \/ Unbind(h) \/ Delete(h)
  PROVE  IInv'
<1>1. h \in Up /\ \A g \in Hub \ {h} : hubs'[g] = hubs[g]
  BY HubRows
<1>2. \/ /\ hubs'[h].st = "up" /\ hubs'[h].mesh = hubs[h].mesh
         /\ hubs'[h].routes = hubs[h].routes
      \/ hubs'[h].st = "gone" /\ hubs'[h].mesh = None /\ hubs'[h].routes = {}
  BY HubRows
<1>3. Up' \subseteq Up /\ (\A g \in Up' : hubs'[g].mesh = hubs[g].mesh) /\ MeshesKept
  BY <1>1, <1>2 DEF Up, MeshesKept
<1>4. HubsSound'
  BY <1>1, <1>2, NoneIsNoNet DEF IInv, HubsSound, Up
<1>5. OverlapNeedsRace'
  BY <1>3 DEF IInv, OverlapNeedsRace, Bind, Unbind, Delete
<1>6. \A g \in Hub : hubs[g].st # "none" => hubs'[g].st # "none"
  BY <1>1, <1>2
<1>7. ASSUME NEW q \in Proc PROVE RequestSound(q)'
  <2>1. req'[q] = req[q] /\ behind' = behind
    BY DEF Bind, Unbind, Delete
  <2>2. QED
    BY <1>3, <1>6, <2>1, OthersSound DEF IInv
<1>8. QED
  BY <1>4, <1>5, <1>7 DEF IInv

LEMMA FailStep ==
  ASSUME IInv, NEW p \in Proc, Fail(p)
  PROVE  IInv'
<1>0. TypeOK /\ Answer(p) /\ UNCHANGED <<hubs, raced, minted>>
  BY DEF IInv, Fail
<1>1. TypeOK'
  BY <1>0, AnswerType DEF TypeOK
<1>2. QED
  BY <1>0, <1>1, AnswerSound, OthersKeep, QuietStep

LEMMA NextIInv == IInv /\ [Next]_vars => IInv'
<1> SUFFICES ASSUME IInv, [Next]_vars PROVE IInv'
  OBVIOUS
<1>0. TypeOK /\ \A q \in Proc : RequestSound(q)
  BY DEF IInv
<1>1. ASSUME NEW p \in Proc, Step(p) \/ Arrive(p) PROVE IInv'
  <2>1. CASE Suggest(p) \/ Lookup(p) \/ Validate(p)
    BY <1>0, <2>1, MintType, MintSteps
  <2>2. CASE InsertFails(p) \/ InsertToken(p)
    BY <1>0, <2>2, InsertType, MintSteps
  <2>3. CASE \E h \in Hub : Insert(p, h)
    BY <1>0, <2>3, InsertType, InsertStep
  <2>4. CASE List(p) \/ (Update(p) /\ req[p].hub \notin Up)
    BY <1>0, <2>4, UpdateType, UpdateSteps
  <2>5. CASE Update(p) /\ req[p].hub \in Up
    BY <1>0, <2>5, UpdateType, UpdateStep
  <2>6. CASE Arrive(p)
    <3>1. PICK m \in Typed \cup {None} :
            \/ \E s \in Slug, e \in Endpoint : StartMint(p, s, e, m)
            \/ \E h \in Hub, e \in Edited, rs \in RouteLists \cup {None} :
                 StartUpdate(p, h, e, m, rs)
      BY <2>6 DEF Arrive
    <3>2. CASE \E s \in Slug, e \in Endpoint : StartMint(p, s, e, m)
      BY <1>0, <3>2, MintType, MintSteps
    <3>3. CASE \E h \in Hub, e \in Edited, rs \in RouteLists \cup {None} :
                 StartUpdate(p, h, e, m, rs)
      BY <1>0, <3>3, UpdateType, UpdateSteps
    <3>4. QED
      BY <3>1, <3>2, <3>3
  <2>7. QED
    BY <1>1, <2>1, <2>2, <2>3, <2>4, <2>5, <2>6 DEF Step
<1>2. ASSUME NEW p \in Proc, Fail(p) PROVE IInv'
  BY <1>2, FailStep
<1>3. ASSUME NEW h \in Hub, (\E e \in Endpoint : Bind(h, e)) \/ Unbind(h) \/ Delete(h)
      PROVE  IInv'
  BY <1>0, <1>3, HubType, HubSteps
<1>4. CASE UNCHANGED vars
  <2>1. TypeOK' /\ HubsSound' /\ OverlapNeedsRace'
    BY <1>4 DEF vars, IInv, TypeOK, HubsSound, OverlapNeedsRace, Up
  <2>2. ASSUME NEW q \in Proc PROVE RequestSound(q)'
    BY <1>0, <1>4, OthersSound DEF vars, MeshesKept
  <2>3. QED
    BY <2>1, <2>2 DEF IInv
<1>5. QED
  BY <1>1, <1>2, <1>3, <1>4 DEF Next

-------------------------------------------------------------------------------
(* What an update has read of its hub stands until another update changes it. *)

ReadStands(r) ==
  r.pc \in {"list", "update"} /\ r.hub \in Up =>
    r.read.mesh = hubs[r.hub].mesh /\ r.read.routes = hubs[r.hub].routes

ReadsStand == \A p \in Proc \ overtaken : ReadStands(req[p])

\* A row that is up was there before, and has its mesh and its routes still.
RowKept(h) ==
  h \in Up' => /\ h \in Up
               /\ hubs'[h].mesh = hubs[h].mesh /\ hubs'[h].routes = hubs[h].routes

\* An update whose request and whose row stay.
LEMMA ReadKept ==
  ASSUME ReadsStand, NEW q \in Proc, q \notin overtaken, req'[q] = req[q],
         req[q].pc \in {"list", "update"} => RowKept(req[q].hub)
  PROVE  ReadStands(req[q])'
BY DEF ReadsStand, ReadStands, RowKept

\* A request that does not edit after its step.
LEMMA NoEdit ==
  ASSUME NEW p \in Proc, req'[p].pc \notin {"list", "update"}
  PROVE  ReadStands(req[p])'
BY DEF ReadStands

\* A step of one request that leaves the hubs alone.
LEMMA QuietReads ==
  ASSUME ReadsStand, NEW p \in Proc, UNCHANGED hubs, ReadStands(req[p])',
         \A q \in Proc \ {p} : req'[q] = req[q] /\ (q \in overtaken' <=> q \in overtaken)
  PROVE  ReadsStand'
<1>1. \A h : RowKept(h)
  BY DEF RowKept, Up
<1>2. ASSUME NEW q \in Proc, q \notin overtaken' PROVE ReadStands(req[q])'
  <2>1. CASE q = p
    BY <2>1
  <2>2. CASE q # p
    BY <1>1, <1>2, <2>2, ReadKept
  <2>3. QED
    BY <2>1, <2>2
<1>3. QED
  BY <1>2 DEF ReadsStand

LEMMA ListReads ==
  ASSUME IInv, ReadsStand, NEW p \in Proc, List(p), ~Answer(p)
  PROVE  ReadsStand'
<1>0. req \in [Proc -> Request]
  BY DEF IInv, TypeOK
<1>1. req[p].pc = "list" /\ GoTo(p, "update") /\ UNCHANGED <<hubs, overtaken>>
  BY DEF List, At
<1>2. /\ req'[p].hub = req[p].hub /\ req'[p].read = req[p].read
      /\ \A q \in Proc \ {p} : req'[q] = req[q]
  BY <1>0, <1>1 DEF GoTo, Request
<1>3. ASSUME NEW q \in Proc, q \notin overtaken' PROVE ReadStands(req[q])'
  <2>1. CASE q = p
    BY <1>1, <1>2, <1>3, <2>1 DEF ReadsStand, ReadStands, Up
  <2>2. CASE q # p
    <3>1. RowKept(req[q].hub)
      BY <1>1 DEF RowKept, Up
    <3>2. QED
      BY <1>1, <1>2, <1>3, <2>2, <3>1, ReadKept
  <2>3. QED
    BY <2>1, <2>2
<1>4. QED
  BY <1>3 DEF ReadsStand

LEMMA QuietStepReads ==
  ASSUME IInv, ReadsStand, NEW p \in Proc,
         Step(p) \/ Arrive(p) \/ Fail(p), UNCHANGED hubs
  PROVE  ReadsStand'
<1>0. req \in [Proc -> Request] /\ req[p] \in Request
  BY DEF IInv, TypeOK
<1>1. CASE Answer(p)
  <2>1. req'[p].pc = "idle"
    BY <1>0, <1>1 DEF Answer, Becomes, Idle
  <2>2. \A q \in Proc \ {p} : req'[q] = req[q] /\ (q \in overtaken' <=> q \in overtaken)
    BY <1>0, <1>1 DEF Answer, Becomes
  <2>3. QED
    BY <2>1, <2>2, NoEdit, QuietReads
<1>2. CASE List(p) /\ ~Answer(p)
  BY <1>2, ListReads
<1>3. ASSUME NEW h \in Hub, NEW e \in Edited, NEW m, NEW rs, StartUpdate(p, h, e, m, rs)
      PROVE  ReadsStand'
  <2>1. /\ req'[p].hub = h
        /\ req'[p].read = [mesh |-> hubs[h].mesh, routes |-> hubs[h].routes]
        /\ \A q \in Proc \ {p} : req'[q] = req[q]
    BY <1>0, <1>3 DEF StartUpdate, Becomes, Idle
  <2>2. ReadStands(req[p])'
    BY <2>1 DEF ReadStands, Up
  <2>3. UNCHANGED overtaken
    BY <1>3 DEF StartUpdate
  <2>4. QED
    BY <2>1, <2>2, <2>3, QuietReads
<1>4. ASSUME NEW r, r.pc \notin {"list", "update"}, Becomes(p, r), UNCHANGED overtaken
      PROVE  ReadsStand'
  <2>1. req'[p] = r /\ \A q \in Proc \ {p} : req'[q] = req[q]
    BY <1>0, <1>4 DEF Becomes
  <2>2. QED
    BY <1>4, <2>1, NoEdit, QuietReads
<1>5. ASSUME NEW pc \in PC \ {"list", "update"}, GoTo(p, pc), UNCHANGED overtaken
      PROVE  ReadsStand'
  <2>1. req'[p].pc = pc /\ \A q \in Proc \ {p} : req'[q] = req[q]
    BY <1>0, <1>5 DEF GoTo, Request
  <2>2. QED
    BY <1>5, <2>1, NoEdit, QuietReads
<1>6. CASE Suggest(p) \/ Lookup(p) \/ Validate(p)
  <2>1. \A b, h : /\ [req[p] EXCEPT !.pc = "lookup", !.mesh = Block(b)].pc = "lookup"
                  /\ [req[p] EXCEPT !.pc = "token", !.hub = h].pc = "token"
    BY <1>0 DEF Request
  <2>2. CASE Suggest(p)
    BY <1>1, <1>4, <2>1, <2>2 DEF Suggest
  <2>3. CASE Lookup(p)
    BY <1>1, <1>4, <1>5, <2>1, <2>3 DEF Lookup, PC
  <2>4. CASE Validate(p)
    BY <1>1, <1>5, <2>4 DEF Validate, PC
  <2>5. QED
    BY <1>6, <2>2, <2>3, <2>4
<1>7. ASSUME NEW h \in Hub, Insert(p, h) PROVE ReadsStand'
  <2>1. [req[p] EXCEPT !.pc = "token", !.hub = h].pc = "token"
    BY <1>0 DEF Request
  <2>2. QED
    BY <1>4, <1>7, <2>1 DEF Insert
<1>8. ASSUME NEW s, NEW e, NEW m, StartMint(p, s, e, m) PROVE ReadsStand'
  <2>1. [Idle EXCEPT !.pc = IF m = None THEN "suggest" ELSE "lookup",
                     !.slug = s, !.endpoint = e, !.mesh = m].pc
          \in {"suggest", "lookup"}
    BY DEF Idle
  <2>2. QED
    BY <1>4, <1>8, <2>1 DEF StartMint
<1>9. CASE Update(p) /\ ~Answer(p)
  <2>1. Becomes(p, Idle) /\ RowWritten(p, req[p].hub)
    BY <1>9 DEF Update
  <2>2. req'[p].pc = "idle" /\ \A q \in Proc \ {p} : req'[q] = req[q]
    BY <1>0, <2>1 DEF Becomes, Idle
  <2>3. overtaken' = overtaken \ {p}
    BY <2>1 DEF RowWritten
  <2>4. QED
    BY <2>2, <2>3, NoEdit, QuietReads
<1>10. CASE InsertFails(p) \/ InsertToken(p) \/ Fail(p)
  BY <1>1, <1>10 DEF InsertFails, InsertToken, Fail
<1>11. QED
  BY <1>1, <1>2, <1>3, <1>6, <1>7, <1>8, <1>9, <1>10 DEF Step, Arrive

\* An update that writes: whoever edits the hub is overtaken, or the row has
\* what it had.
LEMMA UpdateReads ==
  ASSUME IInv, ReadsStand, NEW p \in Proc, Update(p), ~UNCHANGED hubs
  PROVE  ReadsStand'
<1> DEFINE h == req[p].hub
<1>0. TypeOK /\ \A q \in Proc : RequestSound(q)
  BY DEF IInv
<1>1. /\ h \in Up /\ Becomes(p, Idle) /\ RowWritten(p, h)
      /\ \A g \in Hub \ {h} : hubs'[g] = hubs[g]
  BY <1>0 DEF Update, TypeOK
<1>2. req'[p] = Idle /\ \A q \in Proc \ {p} : req'[q] = req[q]
  BY <1>0, <1>1 DEF TypeOK, Becomes
<1>3. ASSUME NEW q \in Proc \ {p}, q \notin overtaken',
             req[q].pc \in {"list", "update"}
      PROVE  RowKept(req[q].hub)
  <2>1. req[q].hub \in Hub
    BY <1>0, <1>3 DEF RequestSound, UpdateSound
  <2>2. CASE req[q].hub = h
    <3>1. q \in Editing(h)
      BY <1>3, <2>2 DEF Editing
    <3>2. hubs'[h].mesh = hubs[h].mesh /\ hubs'[h].routes = hubs[h].routes
      BY <1>1, <1>3, <3>1 DEF RowWritten
    <3>3. QED
      BY <1>1, <2>2, <3>2 DEF RowKept
  <2>3. CASE req[q].hub # h
    BY <1>1, <2>1, <2>3 DEF RowKept, Up
  <2>4. QED
    BY <2>2, <2>3
<1>4. ASSUME NEW q \in Proc, q \notin overtaken' PROVE ReadStands(req[q])'
  <2>1. CASE q = p
    BY <1>2, <2>1, NoEdit DEF Idle
  <2>2. CASE q # p
    <3>1. q \notin overtaken
      BY <1>1, <1>4, <2>2 DEF RowWritten
    <3>2. QED
      BY <1>2, <1>3, <1>4, <2>2, <3>1, ReadKept
  <2>3. QED
    BY <2>1, <2>2
<1>5. QED
  BY <1>4 DEF ReadsStand

\* The row that a mint inserts was nobody's.
LEMMA InsertReads ==
  ASSUME IInv, ReadsStand, NEW p \in Proc, NEW h \in Hub, Insert(p, h)
  PROVE  ReadsStand'
<1>0. TypeOK /\ \A q \in Proc : RequestSound(q)
  BY DEF IInv
<1>1. /\ hubs[h].st = "none" /\ UNCHANGED overtaken
      /\ \A g \in Hub \ {h} : hubs'[g] = hubs[g]
  BY <1>0 DEF Insert, TypeOK
<1>2. req'[p].pc = "token" /\ \A q \in Proc \ {p} : req'[q] = req[q]
  BY <1>0 DEF Insert, Becomes, TypeOK, Request
<1>3. ASSUME NEW q \in Proc, req[q].pc \in {"list", "update"} PROVE RowKept(req[q].hub)
  <2>1. req[q].hub \in Hub \ {h}
    BY <1>0, <1>1, <1>3 DEF RequestSound, UpdateSound
  <2>2. QED
    BY <1>1, <2>1 DEF RowKept, Up
<1>4. ASSUME NEW q \in Proc, q \notin overtaken' PROVE ReadStands(req[q])'
  <2>1. CASE q = p
    BY <1>2, <2>1, NoEdit
  <2>2. CASE q # p
    BY <1>1, <1>2, <1>3, <1>4, <2>2, ReadKept
  <2>3. QED
    BY <2>1, <2>2
<1>5. QED
  BY <1>4 DEF ReadsStand

LEMMA HubReads ==
  ASSUME IInv, ReadsStand, NEW h \in Hub,
         (\E e \in Endpoint : Bind(h, e)) \/ Unbind(h) \/ Delete(h)
  PROVE  ReadsStand'
<1>0. UNCHANGED <<req, overtaken>>
  BY DEF Bind, Unbind, Delete
<1>1. \A g \in Hub : RowKept(g)
  BY HubRows DEF RowKept, Up
<1>2. ASSUME NEW q \in Proc, q \notin overtaken' PROVE ReadStands(req[q])'
  <2>1. req[q].pc \in {"list", "update"} => req[q].hub \in Hub
    BY DEF IInv, RequestSound, UpdateSound
  <2>2. QED
    BY <1>0, <1>1, <1>2, <2>1, ReadKept
<1>3. QED
  BY <1>2 DEF ReadsStand

LEMMA NextReadsStand ==
  ASSUME IInv, ReadsStand, [Next]_vars
  PROVE  ReadsStand'
<1>1. ASSUME NEW p \in Proc, Step(p) \/ Arrive(p) \/ Fail(p) PROVE ReadsStand'
  <2>1. CASE UNCHANGED hubs
    BY <1>1, <2>1, QuietStepReads
  <2>2. CASE ~UNCHANGED hubs
    <3>1. Update(p) \/ \E h \in Hub : Insert(p, h)
      BY <1>1, <2>2
         DEF Step, Arrive, Fail, StartMint, StartUpdate, Suggest, Lookup, Validate,
             InsertFails, InsertToken, List
    <3>2. QED
      BY <2>2, <3>1, UpdateReads, InsertReads
  <2>3. QED
    BY <2>1, <2>2
<1>2. ASSUME NEW h \in Hub, (\E e \in Endpoint : Bind(h, e)) \/ Unbind(h) \/ Delete(h)
      PROVE  ReadsStand'
  BY <1>2, HubReads
<1>3. CASE UNCHANGED vars
  BY <1>3 DEF vars, ReadsStand, ReadStands, Up
<1>4. QED
  BY <1>1, <1>2, <1>3 DEF Next

-------------------------------------------------------------------------------
(* The theorems.                                                             *)

\* What requests rely on holds in every reachable state: a check that a mint or
\* an update made stands until somebody writes a mesh.
THEOREM Invariance == Spec => []IInv
BY InitIInv, NextIInv, PTL DEF Spec

\* The state of the configuration handlers has its types.
THEOREM TypeCorrect == Spec => []TypeOK
<1>1. IInv => TypeOK
  BY DEF IInv
<1>2. QED
  BY <1>1, Invariance, PTL

\* Any number of mints and updates keep meshes apart unless one of them had read
\* the hubs before another wrote a mesh: validateMeshCIDR is enough for requests
\* one after the other.
THEOREM OverlapNeedsRaceHolds == Spec => []OverlapNeedsRace
<1>1. IInv => OverlapNeedsRace
  BY DEF IInv
<1>2. QED
  BY <1>1, Invariance, PTL

\* An update brings back an old mesh or old routes that it does not mention only
\* if another update of the hub changed them since it read them.
THEOREM UpdateLosesNothingHolds == Spec => UpdateLosesNothing
<1>1. Init => ReadsStand
  BY DEF Init, ReadsStand, ReadStands, Idle
<1>2. IInv /\ ReadsStand /\ [Next]_vars => ReadsStand'
  BY NextReadsStand
<1>3. ASSUME IInv, ReadsStand, NEW p \in Proc \ overtaken, NEW h \in Up,
             Update(p), req[p].hub = h
      PROVE  /\ req[p].mesh = None => hubs'[h].mesh = hubs[h].mesh
             /\ req[p].routes = None => hubs'[h].routes = hubs[h].routes
  <2>1. hubs[h] \in HubRow /\ hubs'[h] = Updated(req[p], hubs[h])
    BY <1>3 DEF IInv, TypeOK, Update, Up
  <2>2. hubs'[h].mesh = MeshOf(req[p]) /\ hubs'[h].routes = RoutesOf(req[p])
    BY <2>1 DEF Updated, HubRow
  <2>3. req[p].read.mesh = hubs[h].mesh /\ req[p].read.routes = hubs[h].routes
    BY <1>3 DEF ReadsStand, ReadStands, Update, At
  <2>4. QED
    BY <2>2, <2>3 DEF MeshOf, RoutesOf
<1>4. IInv /\ ReadsStand /\ [Next]_vars =>
        [\A p \in Proc \ overtaken, h \in Up : Update(p) /\ req[p].hub = h =>
           /\ req[p].mesh = None => hubs'[h].mesh = hubs[h].mesh
           /\ req[p].routes = None => hubs'[h].routes = hubs[h].routes]_vars
  BY <1>3
<1>5. QED
  BY <1>1, <1>2, <1>4, Invariance, PTL DEF Spec, UpdateLosesNothing

\* Routes are outside every other hub's mesh when they are written, unless a mesh
\* was written since they were checked.
THEOREM RoutesOutsideOthersHolds == Spec => RoutesOutsideOthers
<1>1. ASSUME IInv, NEW p \in Proc \ behind, NEW h \in Hub, Update(p),
             req[p].hub = h, req[p].routes # None,
             NEW n \in hubs'[h].routes, NEW g \in Up \ {h}
      PROVE  ~Meet(n, hubs[g].mesh)
  <2>0. req[p] \in Request /\ hubs[h] \in HubRow /\ hubs[g].mesh \in Net
    BY <1>1 DEF IInv, TypeOK, HubsSound, Up
  <2>1. RoutesAllowed(req[p].routes)
    BY <1>1 DEF IInv, RequestSound, UpdateSound, Update, At
  <2>2. hubs'[h].routes = req[p].routes
    <3>1. CASE h \in Up
      <4>1. hubs'[h] = Updated(req[p], hubs[h])
        BY <1>1, <3>1 DEF IInv, TypeOK, Update
      <4>2. Updated(req[p], hubs[h]).routes = RoutesOf(req[p])
        BY <2>0 DEF Updated, HubRow
      <4>3. QED
        BY <1>1, <4>1, <4>2 DEF RoutesOf
    <3>2. CASE h \notin Up
      BY <1>1, <3>2 DEF IInv, HubsSound, Update
    <3>3. QED
      BY <3>1, <3>2
  <2>3. n \in Net
    BY <1>1, <2>0, <2>2 DEF Request
  <2>4. ~Overlaps(n, hubs[g].mesh)
    BY <1>1, <2>1, <2>2, NoneIsNoNet DEF RoutesAllowed, DisjointBut, Up
  <2>5. QED
    BY <2>0, <2>3, <2>4, OverlapIsMeeting
<1>2. IInv /\ [Next]_vars =>
        [\A p \in Proc \ behind, h \in Hub :
           Update(p) /\ req[p].hub = h /\ req[p].routes # None =>
             \A n \in hubs'[h].routes : \A g \in Up \ {h} : ~Meet(n, hubs[g].mesh)]_vars
  BY <1>1
<1>3. QED
  BY <1>2, Invariance, PTL DEF Spec, RoutesOutsideOthers
===============================================================================
