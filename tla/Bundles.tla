-------------------------------- MODULE Bundles --------------------------------
(***************************************************************************)
(* The install bundles: wg_bundles, the admin handlers that write it, and  *)
(* the two-step download of the latest bundle.                             *)
(*                                                                         *)
(* Set-latest is a READ COMMITTED transaction of three statements.  What   *)
(* it wrote and did not commit is in the request (cleared, marked); a row  *)
(* written by an open transaction is locked, and a statement that wants to *)
(* write it waits, then looks at the row again.  The bytes are in the      *)
(* assets service, by content: an asset is named by what it holds.         *)
(***************************************************************************)
EXTENDS Naturals, FiniteSets

CONSTANTS
  Bundle,     \* ids of wg_bundles rows, in the order they are given out
  Version,    \* version labels
  Arch,       \* architectures, AnyArch among them
  AnyArch,    \* '' in column arch: a universal bundle
  Content,    \* the files admins upload (their sha256)
  Proc,       \* admin requests in flight
  Client,     \* boxes that fetch the latest bundle
  None,       \* SQL NULL, no row
  Faults      \* may a statement fail?

ASSUME BundleAssumption == Bundle \subseteq Nat
ASSUME AnyArchAssumption == AnyArch \in Arch
ASSUME BundleNoneAssumption == None \notin Bundle \cup Content \cup Version \cup Arch
ASSUME BundleFaultsAssumption == Faults \in BOOLEAN

VARIABLES
  rows,       \* wg_bundles, as committed
  req,        \* the admin requests
  client      \* the downloads

vars == <<rows, req, client>>

\* One os: rows of different ones never meet in a statement.
Row == [st : {"none", "up", "gone"}, version : Version \cup {None},
        arch : Arch, content : Content \cup {None},
        asset : Content \cup {None}, latest : BOOLEAN]

PC == {"idle", "lookup", "insert", "asset", "select", "clear",
       "mark", "commit", "delete"}

\* version, arch, content and promote (set_latest) are the upload's fields;
\* snapshot is what the clearing UPDATE found before it waited.
Request == [pc : PC, id : Bundle \cup {None}, version : Version \cup {None},
            arch : Arch, content : Content \cup {None}, promote : BOOLEAN,
            snapshot : SUBSET Bundle, cleared : SUBSET Bundle,
            marked : BOOLEAN]

\* named is the row the redirect was made from, got the row that was served.
Download == [pc : {"start", "redirected", "served"}, arch : Arch,
             version : Version \cup {None}, named : Bundle \cup {None},
             got : Bundle \cup {None}]

NoRow == [st |-> "none", version |-> None, arch |-> AnyArch, content |-> None,
          asset |-> None, latest |-> FALSE]
Idle == [pc |-> "idle", id |-> None, version |-> None, arch |-> AnyArch,
         content |-> None, promote |-> FALSE, snapshot |-> {}, cleared |-> {},
         marked |-> FALSE]
NoDownload == [pc |-> "start", arch |-> AnyArch, version |-> None,
               named |-> None, got |-> None]

TypeOK ==
  /\ rows \in [Bundle -> Row]
  /\ req \in [Proc -> Request]
  /\ client \in [Client -> Download]

Init ==
  /\ rows = [b \in Bundle |-> NoRow]
  /\ req = [p \in Proc |-> Idle]
  /\ client = [c \in Client |-> NoDownload]

Up == {b \in Bundle : rows[b].st = "up"}
LatestOf(a) == {b \in Up : rows[b].latest /\ rows[b].arch = a}

At(p, pc) == req[p].pc = pc
Becomes(p, r) == req' = [req EXCEPT ![p] = r]
Answer(p) == Becomes(p, Idle)

\* The row locks p's open transaction holds.
Locks(p) == req[p].cleared \cup (IF req[p].marked THEN {req[p].id} ELSE {})
LockedByOther(p, b) == \E q \in Proc \ {p} : b \in Locks(q)

-------------------------------------------------------------------------------
(* Upload.                                                                   *)

Unused == {b \in Bundle : rows[b].st = "none"}

\* A bound: no upload starts without an id left for its row.
Uploading == {p \in Proc : req[p].pc \in {"lookup", "insert"}}
RoomForRow == Cardinality(Unused) > Cardinality(Uploading)

\* handleAdminWGBundleUpload up to the assets service's answer.
StartUpload(p, v, a, c, promote) ==
  /\ At(p, "idle")
  /\ RoomForRow
  /\ Becomes(p, [Idle EXCEPT !.pc = "lookup", !.version = v, !.arch = a,
                             !.content = c, !.promote = promote])
  /\ UNCHANGED <<rows, client>>

\* getWGBundleBySHA: the same file again is 409.
Lookup(p) ==
  /\ At(p, "lookup")
  /\ IF \E b \in Up : rows[b].content = req[p].content
     THEN Answer(p) ELSE Becomes(p, [req[p] EXCEPT !.pc = "insert"])
  /\ UNCHANGED <<rows, client>>

\* blob_sha256 UNIQUE and ux_wg_bundles_version_platform.
Distinct(v, a, c) ==
  \A b \in Up : /\ rows[b].content # c
                /\ rows[b].version # v \/ rows[b].arch # a

Insert(p, b) ==
  /\ At(p, "insert")
  /\ b \in Unused /\ \A n \in Unused : b <= n
  /\ IF Distinct(req[p].version, req[p].arch, req[p].content)
     THEN /\ rows' = [rows EXCEPT ![b] = [NoRow EXCEPT
                        !.st = "up", !.version = req[p].version,
                        !.arch = req[p].arch, !.content = req[p].content]]
          /\ Becomes(p, [req[p] EXCEPT !.pc = "asset", !.id = b])
     ELSE Answer(p) /\ UNCHANGED rows
  /\ UNCHANGED client

AfterAsset(p) ==
  IF req[p].promote THEN Becomes(p, [Idle EXCEPT !.pc = "select", !.id = req[p].id])
                    ELSE Answer(p)

\* setWGBundleAssetID waits for a transaction that writes the row; an UPDATE
\* of a deleted row changes nothing.
SetAsset(p) ==
  LET b == req[p].id
  IN /\ At(p, "asset")
     /\ ~LockedByOther(p, b)
     /\ rows' = IF b \in Up THEN [rows EXCEPT ![b].asset = req[p].content]
                            ELSE rows
     /\ AfterAsset(p)
     /\ UNCHANGED client

\* Its failure is logged, and the upload goes on.
SetAssetFails(p) ==
  /\ Faults
  /\ At(p, "asset")
  /\ AfterAsset(p)
  /\ UNCHANGED <<rows, client>>

-------------------------------------------------------------------------------
(* Set-latest.                                                               *)

StartSetLatest(p, b) ==
  /\ At(p, "idle")
  /\ Becomes(p, [Idle EXCEPT !.pc = "select", !.id = b])
  /\ UNCHANGED <<rows, client>>

\* Mutant: the old latest is looked for without its platform.
FormerLatestAnywhere(a) == {b \in Up : rows[b].latest}

\* WHERE is_latest AND os = $1 AND arch = $2.
FormerLatest(a) == LatestOf(a)

\* SELECT os, arch (no row is 404), and the clearing UPDATE finds its rows: a
\* row's platform never changes, so the two are one step ...
FindLatest(p) ==
  LET b == req[p].id
  IN /\ At(p, "select")
     /\ \/ /\ b \in Up
           /\ Becomes(p, [req[p] EXCEPT !.pc = "clear", !.arch = rows[b].arch,
                            !.snapshot = FormerLatest(rows[b].arch)])
        \/ b \notin Up /\ Answer(p)
     /\ UNCHANGED <<rows, client>>

\* ... and writes those that are still latest once nobody holds them.
ClearLatest(p) ==
  /\ At(p, "clear")
  /\ \A b \in req[p].snapshot : ~LockedByOther(p, b)
  /\ Becomes(p, [req[p] EXCEPT
       !.pc = "mark", !.snapshot = {},
       !.cleared = req[p].snapshot \cap FormerLatest(req[p].arch)])
  /\ UNCHANGED <<rows, client>>

\* Mutant: no unique index on latest.
NoRivals(p) == {}

\* ux_wg_bundles_latest_platform: rows that already are latest, but for those
\* this transaction has cleared.
Rivals(p) == (LatestOf(req[p].arch) \ req[p].cleared) \ {req[p].id}

\* A duplicate key that is not committed is waited for.
RivalPending(p) ==
  \E q \in Proc \ {p} : req[q].marked /\ req[q].arch = req[p].arch

\* Mutant: a transaction that meets a rival is not ended.
MarkLatestOrHang(p) ==
  /\ At(p, "mark")
  /\ ~LockedByOther(p, req[p].id)
  /\ req[p].id \in Up /\ Rivals(p) = {} /\ ~RivalPending(p)
  /\ Becomes(p, [req[p] EXCEPT !.pc = "commit", !.marked = TRUE])
  /\ UNCHANGED <<rows, client>>

\* Marking the row.  A row that is gone (404) or a rival (a duplicate key, 500)
\* ends in the deferred Rollback.
MarkLatest(p) ==
  /\ At(p, "mark")
  /\ ~LockedByOther(p, req[p].id)
  /\ \/ /\ req[p].id \in Up /\ Rivals(p) = {} /\ ~RivalPending(p)
        /\ Becomes(p, [req[p] EXCEPT !.pc = "commit", !.marked = TRUE])
     \/ /\ req[p].id \notin Up \/ Rivals(p) # {}
        /\ Answer(p)
  /\ UNCHANGED <<rows, client>>

Commit(p) ==
  /\ At(p, "commit")
  /\ rows' = [b \in Bundle |-> [rows[b] EXCEPT !.latest =
                IF b = req[p].id THEN TRUE ELSE @ /\ b \notin req[p].cleared]]
  /\ Answer(p)
  /\ UNCHANGED client

\* A statement or the commit fails: the deferred Rollback.
Rollback(p) ==
  /\ Faults
  /\ req[p].pc \in {"clear", "mark", "commit"}
  /\ Answer(p)
  /\ UNCHANGED <<rows, client>>

-------------------------------------------------------------------------------
(* Delete.                                                                   *)

\* getWGBundleByID finds the row ...
StartDelete(p, b) ==
  /\ At(p, "idle")
  /\ b \in Up
  /\ Becomes(p, [Idle EXCEPT !.pc = "delete", !.id = b])
  /\ UNCHANGED <<rows, client>>

\* Mutant: the row's writers are not waited for.
DeleteAtOnce(p) ==
  LET b == req[p].id
  IN /\ At(p, "delete")
     /\ rows' = IF b \in Up
                THEN [rows EXCEPT ![b] = [NoRow EXCEPT !.st = "gone"]]
                ELSE rows
     /\ Answer(p)
     /\ UNCHANGED client

\* ... and deleteWGBundle waits for whoever writes it.
Delete(p) ==
  LET b == req[p].id
  IN /\ At(p, "delete")
     /\ ~LockedByOther(p, b)
     /\ rows' = IF b \in Up
                THEN [rows EXCEPT ![b] = [NoRow EXCEPT !.st = "gone"]]
                ELSE rows
     /\ Answer(p)
     /\ UNCHANGED client

-------------------------------------------------------------------------------
(* Download.                                                                 *)

\* An exact arch wins over a universal bundle.
Preferred(S, a) ==
  IF \E b \in S : rows[b].arch = a THEN {b \in S : rows[b].arch = a}
                                   ELSE {b \in S : rows[b].arch = AnyArch}

LatestFor(a) == Preferred({b \in Up : rows[b].latest}, a)
VersionFor(v, a) == Preferred({b \in Up : rows[b].version = v}, a)

\* Mutant: the redirect carries over the arch the box asked for.
AskedArch(b, a) == a

\* The redirect asks for the arch of the bundle it found.
RedirectArch(b, a) == rows[b].arch

\* GET /v1/bundle: a redirect to the latest bundle's version and arch, or 404.
GetLatest(c, a) ==
  /\ client[c].pc = "start"
  /\ \E b \in LatestFor(a) :
       client' = [client EXCEPT ![c] = [NoDownload EXCEPT
                    !.pc = "redirected", !.named = b,
                    !.version = rows[b].version, !.arch = RedirectArch(b, a)]]
  /\ UNCHANGED <<rows, req>>

\* streamBundleFromAssets needs the row's asset_id.
Streamable(b) == rows[b].asset # None

\* GET /v1/bundle/:version: 404 without a row, 502 without its asset or if the
\* assets service fails.
GetVersion(c) ==
  LET d == client[c]
      S == {b \in VersionFor(d.version, d.arch) : Streamable(b)}
  IN /\ d.pc = "redirected"
     /\ \/ \E b \in S : client' = [client EXCEPT ![c] =
             [NoDownload EXCEPT !.pc = "served", !.named = d.named, !.got = b]]
        \/ /\ S = {} \/ Faults
           /\ client' = [client EXCEPT ![c] = NoDownload]
     /\ UNCHANGED <<rows, req>>

Again(c) ==
  /\ client[c].pc = "served"
  /\ client' = [client EXCEPT ![c] = NoDownload]
  /\ UNCHANGED <<rows, req>>

-------------------------------------------------------------------------------

Step(p) ==
  \/ Lookup(p) \/ (\E b \in Bundle : Insert(p, b))
  \/ SetAsset(p) \/ FindLatest(p) \/ ClearLatest(p)
  \/ MarkLatest(p) \/ Commit(p) \/ Delete(p)

Fault(p) == SetAssetFails(p) \/ Rollback(p)

Arrive(p) ==
  \/ \E v \in Version, a \in Arch, c \in Content, promote \in BOOLEAN :
       StartUpload(p, v, a, c, promote)
  \/ \E b \in Bundle : StartSetLatest(p, b) \/ StartDelete(p, b)

Fetch(c) == (\E a \in Arch : GetLatest(c, a)) \/ GetVersion(c) \/ Again(c)

Next ==
  \/ \E p \in Proc : Step(p) \/ Fault(p) \/ Arrive(p)
  \/ \E c \in Client : Fetch(c)

\* The server runs a request to its answer, and the database hands a row lock
\* to those that wait for it in turn: a step that is possible again and again
\* is taken.  Nobody has to send a request, and nothing has to fail.
FairSpec == Init /\ [][Next]_vars /\ \A p \in Proc : SF_vars(Step(p))
Spec == Init /\ [][Next]_vars

-------------------------------------------------------------------------------
(* What set-latest and the downloads promise.                                *)

\* A platform has at most one latest bundle, whatever transactions of
\* set-latest, uploads that promote, and deletes interleave.
OneLatestPerPlatform == \A a \in Arch : \A b1, b2 \in LatestOf(a) : b1 = b2

\* A platform that has a latest bundle keeps one until that bundle is deleted:
\* neither losing a race nor a failure between the two UPDATEs, nor promoting
\* a bundle of another platform, leaves GET /v1/bundle without an answer.
LatestSurvives ==
  [][\A a \in Arch : LatestOf(a) # {} /\ LatestOf(a)' = {} =>
       \E b \in LatestOf(a) : rows'[b].st = "gone"]_vars

\* The box that follows the redirect gets the bundle that was latest when it
\* asked, unless that bundle was deleted since: never a namesake of its version.
RedirectServesLatest ==
  \A c \in Client : client[c].pc = "served" =>
    client[c].got = client[c].named \/ rows[client[c].named].st = "gone"

\* The table as its readers see it: a step of a handler offers, promotes or
\* withdraws one bundle, or changes nothing they could tell.  In particular a
\* promotion, although it is three statements, replaces the platform's latest
\* bundle at once, also when it races with uploads, deletes and other promotions.
Listing == INSTANCE Catalogue WITH
  platform  <- [b \in Bundle |-> IF rows[b].st = "up" THEN rows[b].arch ELSE None],
  latest    <- {b \in Bundle : rows[b].latest},
  withdrawn <- {b \in Bundle : rows[b].st = "gone"}

ImplementsCatalogue == Listing!Spec

\* Requests that wait for each other's rows, or for each other's index entry,
\* are all answered.
BundleRequestsAnswered ==
  \A p \in Proc : req[p].pc # "idle" ~> req[p].pc = "idle"
===============================================================================
