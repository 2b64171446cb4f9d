----------------------------- MODULE Bundles_proofs -----------------------------
(***************************************************************************)
(* Proofs about Bundles, for any numbers of bundles, platforms, requests   *)
(* and downloads: the transactions of set-latest exclude each other by     *)
(* their row locks and by the unique index, although each clears what it   *)
(* found latest some statements before it marks its own bundle.            *)
(***************************************************************************)
EXTENDS Bundles, TLAPS

-------------------------------------------------------------------------------
(* The inductive invariant.                                                  *)

\* The rows a request has written and not committed.
Held(r) == r.cleared \cup (IF r.marked THEN {r.id} ELSE {})

\* What a transaction wrote is still what it was when it wrote it: the rows it
\* cleared are, as committed, latest bundles of its platform, the row it marked
\* is there, and then it has cleared every other latest bundle.
RequestSound(r) ==
  /\ r.marked <=> r.pc = "commit"
  /\ r.pc \notin {"mark", "commit"} => r.cleared = {}
  /\ r.pc \in {"asset", "select", "clear", "mark", "commit", "delete"} =>
       r.id \in Bundle
  /\ r.pc \in {"clear", "mark", "commit"} =>
       /\ rows[r.id].st # "none"
       /\ rows[r.id].st = "up" => rows[r.id].arch = r.arch
  /\ r.cleared \subseteq LatestOf(r.arch)
  /\ r.marked => /\ rows[r.id].st = "up"
                 /\ LatestOf(r.arch) \subseteq r.cleared \cup {r.id}

RequestsSound == \A p \in Proc : RequestSound(req[p])

\* No row has two writers, and no platform two bundles that are about to become
\* its latest.
Apart(r, s) ==
  /\ Held(r) \cap Held(s) = {}
  /\ r.marked /\ s.marked => r.arch # s.arch

Exclusive == \A p, q \in Proc : p # q => Apart(req[p], req[q])

RowsSound ==
  /\ \A b \in Bundle : rows[b].latest => rows[b].st = "up"
  /\ \A b, c \in Bundle :
       /\ rows[b].st = "up" /\ rows[c].st = "up"
       /\ rows[b].version = rows[c].version /\ rows[b].arch = rows[c].arch
       => b = c

\* A download remembers a bundle that was there, under the version and arch it
\* has as long as it is there.
DownloadSound(d) ==
  /\ d.pc # "start" => d.named \in Bundle /\ rows[d.named].st # "none"
  /\ d.pc = "redirected" /\ rows[d.named].st = "up" =>
       d.version = rows[d.named].version /\ d.arch = rows[d.named].arch
  /\ d.pc = "served" => d.got = d.named \/ rows[d.named].st = "gone"

DownloadsSound == \A c \in Client : DownloadSound(client[c])

IInv == /\ TypeOK
        /\ RequestsSound
        /\ Exclusive
        /\ RowsSound
        /\ OneLatestPerPlatform
        /\ DownloadsSound

-------------------------------------------------------------------------------

LEMMA Bottoms == NoRow \in Row /\ Idle \in Request /\ NoDownload \in Download
BY AnyArchAssumption DEF NoRow, Row, Idle, Request, PC, NoDownload, Download

LEMMA InitIInv == Init => IInv
<1> SUFFICES ASSUME Init PROVE IInv
  OBVIOUS
<1>1. TypeOK
  BY Bottoms DEF Init, TypeOK
<1>2. \A b \in Bundle : rows[b].st = "none" /\ ~rows[b].latest
  BY DEF Init, NoRow
<1>3. RequestsSound /\ Exclusive
  BY DEF Init, RequestsSound, RequestSound, Exclusive, Apart, Held, Idle
<1>4. RowsSound /\ OneLatestPerPlatform
  BY <1>2 DEF RowsSound, OneLatestPerPlatform, LatestOf, Up
<1>5. DownloadsSound
  BY DEF Init, DownloadsSound, DownloadSound, NoDownload
<1>6. QED
  BY <1>1, <1>3, <1>4, <1>5 DEF IInv

LEMMA LatestOfIs ==
  ASSUME NEW a, NEW b
  PROVE  b \in LatestOf(a) <=> /\ b \in Bundle /\ rows[b].st = "up"
                               /\ rows[b].latest /\ rows[b].arch = a
BY DEF LatestOf, Up

LEMMA LocksAreHeld == \A p : Locks(p) = Held(req[p])
BY DEF Locks, Held

-------------------------------------------------------------------------------
(* Steps of a request that commit nothing.                                   *)

LEMMA Moves ==
  ASSUME TypeOK, NEW p \in Proc, NEW r, Becomes(p, r)
  PROVE  req'[p] = r /\ \A q \in Proc : q # p => req'[q] = req[q]
BY DEF Becomes, TypeOK

LEMMA Moved ==
  ASSUME IInv, NEW p \in Proc, NEW r \in Request, Becomes(p, r),
         UNCHANGED <<rows, client>>, RequestSound(r),
         \A q \in Proc : q # p => Apart(r, req[q])
  PROVE  IInv'
<1>1. req'[p] = r /\ \A q \in Proc : q # p => req'[q] = req[q]
  BY Moves DEF IInv
<1>2. TypeOK'
  BY DEF IInv, TypeOK, Becomes
<1>3. RequestsSound'
  <2>1. \A s : RequestSound(s)' <=> RequestSound(s)
    BY DEF RequestSound, LatestOf, Up
  <2>2. ASSUME NEW q \in Proc PROVE RequestSound(req'[q])
    BY <1>1 DEF IInv, RequestsSound
  <2>3. QED
    BY <2>2 DEF RequestsSound, RequestSound, LatestOf, Up
<1>4. Exclusive'
  <2>1. \A s : Apart(r, s) <=> Apart(s, r)
    BY DEF Apart
  <2>2. ASSUME NEW q \in Proc, NEW s \in Proc, q # s PROVE Apart(req'[q], req'[s])
    BY <1>1, <2>1, <2>2 DEF IInv, Exclusive
  <2>3. QED
    BY <2>2 DEF Exclusive, Apart, Held
<1>5. RowsSound' /\ OneLatestPerPlatform' /\ DownloadsSound'
  BY DEF IInv, RowsSound, OneLatestPerPlatform, LatestOf, Up, DownloadsSound, DownloadSound
<1>6. QED
  BY <1>2, <1>3, <1>4, <1>5 DEF IInv

\* A request that holds no row is in nobody's way.
LEMMA ApartFromIdle ==
  ASSUME NEW r, r.cleared = {}, ~r.marked
  PROVE  \A s : Apart(r, s)
BY DEF Apart, Held

LEMMA Quiet ==
  ASSUME IInv, NEW p \in Proc, NEW r \in Request, Becomes(p, r),
         UNCHANGED <<rows, client>>, r.cleared = {}, ~r.marked, r.pc # "commit",
         r.pc \in {"asset", "select", "clear", "mark", "delete"} => r.id \in Bundle,
         r.pc \in {"clear", "mark"} =>
            /\ rows[r.id].st # "none"
            /\ rows[r.id].st = "up" => rows[r.id].arch = r.arch
  PROVE  IInv'
<1>1. RequestSound(r)
  BY DEF RequestSound
<1>2. QED
  BY <1>1, Moved, ApartFromIdle

LEMMA Answered ==
  ASSUME IInv, NEW p \in Proc, Answer(p), UNCHANGED <<rows, client>>
  PROVE  IInv'
<1>1. Idle \in Request /\ Idle.cleared = {} /\ ~Idle.marked /\ Idle.pc = "idle"
  BY Bottoms DEF Idle
<1>2. QED
  BY <1>1, Quiet DEF Answer

LEMMA StartUploadIInv ==
  ASSUME IInv, NEW p \in Proc, NEW v \in Version, NEW a \in Arch, NEW c \in Content,
         NEW promote \in BOOLEAN, StartUpload(p, v, a, c, promote)
  PROVE  IInv'
<1> DEFINE r == [Idle EXCEPT !.pc = "lookup", !.version = v, !.arch = a,
                             !.content = c, !.promote = promote]
<1>1. r \in Request /\ r.pc = "lookup" /\ r.cleared = {} /\ ~r.marked
  BY Bottoms DEF Idle, Request, PC
<1>2. Becomes(p, r) /\ UNCHANGED <<rows, client>>
  BY DEF StartUpload
<1> HIDE DEF r
<1>3. QED
  BY <1>1, <1>2, Quiet

LEMMA StartOnRowIInv ==
  ASSUME IInv, NEW p \in Proc, NEW b \in Bundle,
         StartSetLatest(p, b) \/ StartDelete(p, b)
  PROVE  IInv'
<1>1. PICK pc \in {"select", "delete"} :
        Becomes(p, [Idle EXCEPT !.pc = pc, !.id = b])
  BY DEF StartSetLatest, StartDelete
<1> DEFINE r == [Idle EXCEPT !.pc = pc, !.id = b]
<1>2. r \in Request /\ r.pc = pc /\ r.id = b /\ r.cleared = {} /\ ~r.marked
  BY Bottoms DEF Idle, Request, PC
<1>3. Becomes(p, r) /\ UNCHANGED <<rows, client>>
  BY <1>1 DEF StartSetLatest, StartDelete
<1> HIDE DEF r
<1>4. QED
  BY <1>2, <1>3, Quiet

LEMMA LookupIInv == ASSUME IInv, NEW p \in Proc, Lookup(p) PROVE IInv'
<1> DEFINE r == [req[p] EXCEPT !.pc = "insert"]
<1>1. req[p] \in Request /\ RequestSound(req[p]) /\ req[p].pc = "lookup"
  BY DEF IInv, TypeOK, RequestsSound, Lookup, At
<1>2. r \in Request /\ r.pc = "insert" /\ r.cleared = {} /\ ~r.marked
  BY <1>1 DEF RequestSound, Request, PC
<1>3. (Answer(p) \/ Becomes(p, r)) /\ UNCHANGED <<rows, client>>
  BY DEF Lookup
<1> HIDE DEF r
<1>4. QED
  BY <1>2, <1>3, Quiet, Answered

\* What follows the asset's row: the upload promotes its bundle, or is answered.
LEMMA AfterAssetIs ==
  ASSUME TypeOK, NEW p \in Proc, req[p].id \in Bundle, AfterAsset(p)
  PROVE  \E r \in Request : /\ Becomes(p, r) /\ r.cleared = {} /\ ~r.marked
                            /\ r.pc \in {"idle", "select"}
                            /\ r.pc = "select" => r.id \in Bundle
<1> DEFINE r == [Idle EXCEPT !.pc = "select", !.id = req[p].id]
<1>1. /\ r \in Request /\ r.pc = "select" /\ r.id = req[p].id
      /\ r.cleared = {} /\ ~r.marked
  BY Bottoms DEF Idle, Request, PC
<1>2. Idle \in Request /\ Idle.cleared = {} /\ ~Idle.marked /\ Idle.pc = "idle"
  BY Bottoms DEF Idle
<1>3. Answer(p) \/ Becomes(p, r)
  BY DEF AfterAsset
<1> HIDE DEF r
<1>4. QED
  BY <1>1, <1>2, <1>3 DEF Answer

LEMMA SetAssetFailsIInv == ASSUME IInv, NEW p \in Proc, SetAssetFails(p) PROVE IInv'
<1>1. req[p].id \in Bundle /\ TypeOK
  BY DEF IInv, RequestsSound, RequestSound, SetAssetFails, At
<1>2. AfterAsset(p) /\ UNCHANGED <<rows, client>>
  BY DEF SetAssetFails
<1>3. QED
  BY <1>1, <1>2, AfterAssetIs, Quiet

LEMMA FindLatestIInv == ASSUME IInv, NEW p \in Proc, FindLatest(p) PROVE IInv'
<1> DEFINE b == req[p].id
           a == rows[b].arch
           r == [req[p] EXCEPT !.pc = "clear", !.arch = a, !.snapshot = LatestOf(a)]
<1>1. /\ req[p] \in Request /\ RequestSound(req[p]) /\ req[p].pc = "select"
      /\ b \in Bundle /\ rows[b] \in Row
  BY DEF IInv, TypeOK, RequestsSound, RequestSound, FindLatest, At
<1>2. CASE Answer(p)
  BY <1>2, Answered DEF FindLatest
<1>3. CASE b \in Up /\ Becomes(p, r)
  <2>1. LatestOf(a) \subseteq Bundle /\ a \in Arch
    BY <1>1 DEF LatestOf, Up, Row
  <2>2. /\ r \in Request /\ r.pc = "clear" /\ r.arch = a /\ r.id = b
        /\ r.cleared = req[p].cleared /\ r.marked = req[p].marked
    BY <1>1, <2>1 DEF Request, PC
  <2>3. r.cleared = {} /\ ~r.marked
    BY <1>1, <2>2 DEF RequestSound
  <2>4. rows[b].st = "up" /\ UNCHANGED <<rows, client>> /\ Becomes(p, r)
    BY <1>3 DEF Up, FindLatest
  <2> HIDE DEF r
  <2>5. QED
    BY <1>1, <2>2, <2>3, <2>4, Quiet
<1>4. QED
  BY <1>2, <1>3 DEF FindLatest, FormerLatest

LEMMA ClearLatestIInv == ASSUME IInv, NEW p \in Proc, ClearLatest(p) PROVE IInv'
<1> DEFINE r == [req[p] EXCEPT !.pc = "mark", !.snapshot = {},
                   !.cleared = req[p].snapshot \cap LatestOf(req[p].arch)]
<1>1. req[p] \in Request /\ RequestSound(req[p]) /\ req[p].pc = "clear"
  BY DEF IInv, TypeOK, RequestsSound, ClearLatest, At
<1>2. /\ r \in Request /\ r.pc = "mark" /\ r.arch = req[p].arch /\ r.id = req[p].id
      /\ r.cleared = req[p].snapshot \cap LatestOf(req[p].arch)
      /\ r.marked = req[p].marked
  BY <1>1 DEF Request, PC
<1>3. Becomes(p, r) /\ UNCHANGED <<rows, client>>
  BY DEF ClearLatest, FormerLatest
<1>4. \A b \in req[p].snapshot, q \in Proc : q # p => b \notin Held(req[q])
  BY LocksAreHeld DEF ClearLatest, LockedByOther
<1> HIDE DEF r
<1>5. ~r.marked
  BY <1>1, <1>2 DEF RequestSound
<1>6. RequestSound(r)
  BY <1>1, <1>2, <1>5 DEF RequestSound
<1>7. \A q \in Proc : q # p => Apart(r, req[q])
  BY <1>2, <1>4, <1>5 DEF Apart, Held
<1>8. QED
  BY <1>2, <1>3, <1>6, <1>7, Moved

LEMMA MarkLatestIInv == ASSUME IInv, NEW p \in Proc, MarkLatest(p) PROVE IInv'
<1> DEFINE r == [req[p] EXCEPT !.pc = "commit", !.marked = TRUE]
<1>1. req[p] \in Request /\ RequestSound(req[p]) /\ req[p].pc = "mark"
  BY DEF IInv, TypeOK, RequestsSound, MarkLatest, At
<1>2. CASE Answer(p)
  BY <1>2, Answered DEF MarkLatest
<1>3. CASE /\ req[p].id \in Up /\ Rivals(p) = {} /\ ~RivalPending(p)
           /\ Becomes(p, r)
  <2>1. /\ r \in Request /\ r.pc = "commit" /\ r.arch = req[p].arch
        /\ r.id = req[p].id /\ r.cleared = req[p].cleared /\ r.marked
    BY <1>1 DEF Request, PC
  <2>2. UNCHANGED <<rows, client>> /\ Becomes(p, r)
    BY <1>3 DEF MarkLatest
  <2> HIDE DEF r
  <2>3. RequestSound(r)
    BY <1>1, <1>3, <2>1 DEF RequestSound, Rivals, Up
  <2>4. ASSUME NEW q \in Proc, q # p PROVE Apart(r, req[q])
    <3>1. Apart(req[p], req[q])
      BY <2>4 DEF IInv, Exclusive
    <3>2. req[p].id \notin Held(req[q])
      BY <2>4, LocksAreHeld DEF MarkLatest, LockedByOther
    <3>3. ~(req[q].marked /\ req[q].arch = req[p].arch)
      BY <1>3, <2>4 DEF RivalPending
    <3>4. QED
      BY <2>1, <3>1, <3>2, <3>3 DEF Apart, Held
  <2>5. QED
    BY <2>1, <2>2, <2>3, <2>4, Moved
<1>4. QED
  BY <1>2, <1>3 DEF MarkLatest

-------------------------------------------------------------------------------
(* Steps that commit.  A bundle that was there is not forgotten, one that    *)
(* was deleted does not return, and none changes its version or its arch.    *)

RowsPersist ==
  \A b \in Bundle :
    /\ rows[b].st # "none" => rows'[b].st # "none"
    /\ rows[b].st = "gone" => rows'[b].st = "gone"
    /\ rows[b].st = "up" /\ rows'[b].st = "up" =>
         rows'[b].version = rows[b].version /\ rows'[b].arch = rows[b].arch

NoneNewFor(a) ==
  \A b \in Bundle :
    rows'[b].st = "up" /\ rows'[b].latest /\ rows'[b].arch = a => b \in LatestOf(a)

LEMMA RowStates ==
  ASSUME TypeOK PROVE \A b \in Bundle : rows[b].st \in {"none", "up", "gone"}
BY DEF TypeOK, Row

LEMMA DownloadsKept ==
  ASSUME IInv, RowsPersist, UNCHANGED client
  PROVE  DownloadsSound'
<1>1. ASSUME NEW c \in Client PROVE DownloadSound(client[c])'
  <2>1. DownloadSound(client[c])
    BY DEF IInv, DownloadsSound
  <2>2. client[c].pc # "start" => rows[client[c].named].st \in {"none", "up", "gone"}
    BY <2>1, RowStates DEF IInv, DownloadSound
  <2>3. client[c].pc \in {"start", "redirected", "served"}
    BY DEF IInv, TypeOK, Download
  <2>4. QED
    BY <2>1, <2>2, <2>3 DEF DownloadSound, RowsPersist
<1>2. QED
  BY <1>1 DEF DownloadsSound

\* What another request has done stays sound if the step leaves the rows it
\* holds there, with their platform, and adds no latest bundle to that platform.
LEMMA OtherKept ==
  ASSUME TypeOK, RowsPersist, NEW r, RequestSound(r),
         \A b \in r.cleared : rows'[b].st = "up" /\ rows'[b].latest,
         r.marked => rows'[r.id].st = "up" /\ NoneNewFor(r.arch)
  PROVE  RequestSound(r)'
<1>1. ASSUME NEW b \in r.cleared PROVE b \in LatestOf(r.arch)'
  <2>1. b \in LatestOf(r.arch)
    BY DEF RequestSound
  <2>2. /\ b \in Bundle /\ rows[b].st = "up" /\ rows[b].latest
        /\ rows[b].arch = r.arch
    BY <2>1 DEF LatestOf, Up
  <2>3. rows'[b].st = "up" /\ rows'[b].latest /\ rows'[b].arch = r.arch
    BY <2>2 DEF RowsPersist
  <2>4. QED
    BY <2>2, <2>3 DEF LatestOf, Up
<1>2. r.pc \in {"clear", "mark", "commit"} =>
        /\ rows'[r.id].st # "none"
        /\ rows'[r.id].st = "up" => rows'[r.id].arch = r.arch
  BY RowStates DEF RequestSound, RowsPersist
<1>3. r.marked => /\ rows'[r.id].st = "up"
                  /\ LatestOf(r.arch)' \subseteq r.cleared \cup {r.id}
  BY DEF RequestSound, NoneNewFor, LatestOf, Up
<1>4. QED
  BY <1>1, <1>2, <1>3 DEF RequestSound

\* A committing step of p leaves p without locks.
LEMMA Committed ==
  ASSUME IInv, NEW p \in Proc, NEW r \in Request, Becomes(p, r),
         UNCHANGED client, rows' \in [Bundle -> Row], RowsPersist,
         r.cleared = {}, ~r.marked, r.pc \in {"idle", "asset", "select"},
         r.pc # "idle" => r.id \in Bundle,
         \A q \in Proc : q # p =>
           /\ \A b \in req[q].cleared : rows'[b].st = "up" /\ rows'[b].latest
           /\ req[q].marked =>
                rows'[req[q].id].st = "up" /\ NoneNewFor(req[q].arch),
         RowsSound', OneLatestPerPlatform'
  PROVE  IInv'
<1>1. req'[p] = r /\ \A q \in Proc : q # p => req'[q] = req[q]
  BY Moves DEF IInv
<1>2. TypeOK'
  BY DEF IInv, TypeOK, Becomes
<1>3. RequestsSound'
  <2>1. RequestSound(r)'
    BY DEF RequestSound
  <2>2. ASSUME NEW q \in Proc, q # p PROVE RequestSound(req[q])'
    <3>1. RequestSound(req[q]) /\ TypeOK
      BY DEF IInv, RequestsSound
    <3>2. PICK s : s = req[q]
      OBVIOUS
    <3>3. /\ RequestSound(s)
          /\ \A b \in s.cleared : rows'[b].st = "up" /\ rows'[b].latest
          /\ s.marked => rows'[s.id].st = "up" /\ NoneNewFor(s.arch)
      BY <2>2, <3>1, <3>2
    <3>4. RequestSound(s)'
      BY <3>1, <3>3, OtherKept
    <3>5. QED
      BY <1>1, <2>2, <3>2, <3>4 DEF RequestSound, LatestOf, Up
  <2>3. QED
    BY <1>1, <2>1, <2>2 DEF RequestsSound, RequestSound, LatestOf, Up
<1>4. Exclusive'
  <2>1. \A s : Apart(r, s) /\ Apart(s, r)
    BY DEF Apart, Held
  <2>2. ASSUME NEW q \in Proc, NEW s \in Proc, q # s PROVE Apart(req'[q], req'[s])
    BY <1>1, <2>1, <2>2 DEF IInv, Exclusive
  <2>3. QED
    BY <2>2 DEF Exclusive, Apart, Held
<1>5. DownloadsSound'
  BY DownloadsKept
<1>6. QED
  BY <1>2, <1>3, <1>4, <1>5 DEF IInv

\* What the rows of a transaction under way look like.
LEMMA HeldRows ==
  ASSUME IInv, NEW q \in Proc
  PROVE  /\ \A b \in req[q].cleared : /\ b \in Bundle /\ rows[b].st = "up"
                                      /\ rows[b].latest
                                      /\ rows[b].arch = req[q].arch
         /\ req[q].marked => req[q].id \in Bundle /\ rows[req[q].id].st = "up"
BY DEF IInv, RequestsSound, RequestSound, LatestOf, Up

\* A row changes that no other request holds, and is not latest afterwards.
LEMMA OneRowCommitted ==
  ASSUME IInv, NEW p \in Proc, NEW r \in Request, Becomes(p, r), UNCHANGED client,
         NEW b \in Bundle, NEW n \in Row, rows' = [rows EXCEPT ![b] = n], RowsPersist,
         r.cleared = {}, ~r.marked, r.pc \in {"idle", "asset", "select"},
         r.pc # "idle" => r.id \in Bundle,
         \A q \in Proc : q # p => b \notin Held(req[q]),
         ~n.latest,
         n.st = "up" => \A c \in Bundle : c # b /\ rows[c].st = "up" =>
                          rows[c].version # n.version \/ rows[c].arch # n.arch
  PROVE  IInv'
<1>1. /\ rows \in [Bundle -> Row] /\ rows' \in [Bundle -> Row]
      /\ rows'[b] = n /\ \A c \in Bundle : c # b => rows'[c] = rows[c]
  BY DEF IInv, TypeOK
<1>2. \A a : NoneNewFor(a)
  BY <1>1 DEF NoneNewFor, LatestOf, Up
<1>3. ASSUME NEW q \in Proc, q # p
      PROVE  /\ \A c \in req[q].cleared : rows'[c].st = "up" /\ rows'[c].latest
             /\ req[q].marked => rows'[req[q].id].st = "up"
  <2>1. b \notin req[q].cleared /\ (req[q].marked => req[q].id # b)
    BY <1>3 DEF Held
  <2>2. QED
    BY <1>1, <2>1, HeldRows
<1>4. RowsSound'
  BY <1>1 DEF IInv, RowsSound
<1>5. OneLatestPerPlatform'
  BY <1>1 DEF IInv, OneLatestPerPlatform, LatestOf, Up
<1>6. QED
  BY <1>1, <1>2, <1>3, <1>4, <1>5, Committed

LEMMA InsertIInv ==
  ASSUME IInv, NEW p \in Proc, NEW b \in Bundle, Insert(p, b) PROVE IInv'
<1> DEFINE n == [NoRow EXCEPT !.st = "up", !.version = req[p].version,
                              !.arch = req[p].arch, !.content = req[p].content]
           r == [req[p] EXCEPT !.pc = "asset", !.id = b]
<1>1. /\ req[p] \in Request /\ RequestSound(req[p]) /\ req[p].pc = "insert"
      /\ rows[b].st = "none"
  BY DEF IInv, TypeOK, RequestsSound, Insert, At, Unused
<1>2. CASE Answer(p) /\ UNCHANGED rows
  BY <1>2, Answered DEF Insert
<1>3. CASE /\ Distinct(req[p].version, req[p].arch, req[p].content)
           /\ rows' = [rows EXCEPT ![b] = n] /\ Becomes(p, r)
  <2>1. /\ n \in Row /\ n.st = "up" /\ n.version = req[p].version
        /\ n.arch = req[p].arch /\ ~n.latest
    BY <1>1, Bottoms DEF NoRow, Row, Request
  <2>2. /\ r \in Request /\ r.pc = "asset" /\ r.id = b
        /\ r.cleared = {} /\ ~r.marked
    BY <1>1 DEF RequestSound, Request, PC
  <2>3. rows' = [rows EXCEPT ![b] = n] /\ Becomes(p, r) /\ UNCHANGED client
    BY <1>3 DEF Insert
  <2> HIDE DEF n, r
  <2>4. RowsPersist
    BY <1>1, <2>1, <2>3 DEF RowsPersist, IInv, TypeOK
  <2>5. \A q \in Proc : b \notin Held(req[q])
    BY <1>1, HeldRows DEF Held
  <2>6. \A c \in Bundle : rows[c].st = "up" =>
          rows[c].version # n.version \/ rows[c].arch # n.arch
    BY <1>3, <2>1 DEF Distinct, Up
  <2>7. QED
    BY <2>1, <2>2, <2>3, <2>4, <2>5, <2>6, OneRowCommitted
<1>4. QED
  BY <1>2, <1>3 DEF Insert

\* The asset's id is no concern of the invariant, nor of the catalogue.
LEMMA AssetRows ==
  ASSUME IInv, NEW p \in Proc, SetAsset(p)
  PROVE  /\ rows' \in [Bundle -> Row]
         /\ \A c \in Bundle : /\ rows'[c].st = rows[c].st
                             /\ rows'[c].version = rows[c].version
                             /\ rows'[c].arch = rows[c].arch
                             /\ rows'[c].latest = rows[c].latest
<1> DEFINE b == req[p].id
           n == [rows[b] EXCEPT !.asset = req[p].content]
<1>1. /\ req[p] \in Request /\ b \in Bundle /\ rows[b] \in Row
      /\ rows \in [Bundle -> Row]
  BY DEF IInv, TypeOK, RequestsSound, RequestSound, SetAsset, At
<1>2. /\ n \in Row /\ n.st = rows[b].st /\ n.version = rows[b].version
      /\ n.arch = rows[b].arch /\ n.latest = rows[b].latest
  BY <1>1 DEF Row, Request
<1>3. rows' = rows \/ rows' = [rows EXCEPT ![b] = n]
  BY DEF SetAsset
<1> HIDE DEF n
<1>4. QED
  BY <1>1, <1>2, <1>3

LEMMA SetAssetIInv == ASSUME IInv, NEW p \in Proc, SetAsset(p) PROVE IInv'
<1>1. req[p].id \in Bundle /\ TypeOK
  BY DEF IInv, RequestsSound, RequestSound, SetAsset, At
<1>2. PICK r \in Request : /\ Becomes(p, r) /\ r.cleared = {} /\ ~r.marked
                           /\ r.pc \in {"idle", "select"}
                           /\ r.pc = "select" => r.id \in Bundle
  BY <1>1, AfterAssetIs DEF SetAsset
<1>3. RowsPersist /\ \A a : NoneNewFor(a)
  BY AssetRows DEF RowsPersist, NoneNewFor, LatestOf, Up
<1>4. \A q \in Proc :
        /\ \A c \in req[q].cleared : rows'[c].st = "up" /\ rows'[c].latest
        /\ req[q].marked => rows'[req[q].id].st = "up"
  BY AssetRows, HeldRows
<1>5. RowsSound' /\ OneLatestPerPlatform'
  BY AssetRows DEF IInv, RowsSound, OneLatestPerPlatform, LatestOf, Up
<1>6. QED
  BY <1>2, <1>3, <1>4, <1>5, AssetRows, Committed DEF SetAsset

LEMMA DeleteIInv == ASSUME IInv, NEW p \in Proc, Delete(p) PROVE IInv'
<1> DEFINE b == req[p].id
           n == [NoRow EXCEPT !.st = "gone"]
<1>1. b \in Bundle /\ rows \in [Bundle -> Row]
  BY DEF IInv, TypeOK, RequestsSound, RequestSound, Delete, At
<1>2. Idle \in Request /\ Idle.cleared = {} /\ ~Idle.marked /\ Idle.pc = "idle"
  BY Bottoms DEF Idle
<1>3. CASE UNCHANGED rows
  BY <1>3, Answered DEF Delete
<1>4. CASE rows[b].st = "up" /\ rows' = [rows EXCEPT ![b] = n]
  <2>1. n \in Row /\ n.st = "gone" /\ ~n.latest
    BY Bottoms DEF NoRow, Row
  <2> HIDE DEF n
  <2>2. RowsPersist
    BY <1>1, <1>4, <2>1 DEF RowsPersist
  <2>3. \A q \in Proc : q # p => b \notin Held(req[q])
    BY LocksAreHeld DEF Delete, LockedByOther
  <2>4. QED
    BY <1>1, <1>2, <1>4, <2>1, <2>2, <2>3, OneRowCommitted DEF Delete, Answer
<1>5. QED
  BY <1>3, <1>4 DEF Delete, Up

\* The rows a commit leaves.
LEMMA CommittedRows ==
  ASSUME IInv, NEW p \in Proc, Commit(p)
  PROVE  /\ rows' \in [Bundle -> Row]
         /\ \A b \in Bundle :
              /\ rows'[b].st = rows[b].st
              /\ rows'[b].version = rows[b].version
              /\ rows'[b].arch = rows[b].arch
              /\ rows'[b].latest <=> \/ b = req[p].id
                                     \/ rows[b].latest /\ b \notin req[p].cleared
<1>1. rows \in [Bundle -> Row]
  BY DEF IInv, TypeOK
<1>2. ASSUME NEW b \in Bundle, NEW x \in BOOLEAN
      PROVE  LET n == [rows[b] EXCEPT !.latest = x]
             IN /\ n \in Row /\ n.st = rows[b].st /\ n.version = rows[b].version
                /\ n.arch = rows[b].arch /\ n.latest = x
  BY <1>1 DEF Row
<1> DEFINE x(b) == IF b = req[p].id THEN TRUE
                   ELSE rows[b].latest /\ b \notin req[p].cleared
<1>3. \A b \in Bundle : x(b) \in BOOLEAN
  BY <1>1 DEF Row
<1>4. rows' = [b \in Bundle |-> [rows[b] EXCEPT !.latest = x(b)]]
  BY DEF Commit
<1>5. \A b \in Bundle : x(b) <=> \/ b = req[p].id
                                 \/ rows[b].latest /\ b \notin req[p].cleared
  OBVIOUS
<1> HIDE DEF x
<1>6. ASSUME NEW b \in Bundle
      PROVE  /\ rows'[b] \in Row /\ rows'[b].st = rows[b].st
             /\ rows'[b].version = rows[b].version
             /\ rows'[b].arch = rows[b].arch /\ rows'[b].latest = x(b)
  <2>1. rows'[b] = [rows[b] EXCEPT !.latest = x(b)]
    BY <1>4
  <2>2. QED
    BY <1>2, <1>3, <2>1
<1>7. DOMAIN rows' = Bundle /\ rows' = [b \in Bundle |-> rows'[b]]
  BY <1>4
<1>8. rows' \in [Bundle -> Row]
  BY <1>6, <1>7
<1>9. ASSUME NEW b \in Bundle
      PROVE  rows'[b].latest <=> \/ b = req[p].id
                                 \/ rows[b].latest /\ b \notin req[p].cleared
  BY <1>5, <1>6, Zenon
<1>10. QED
  BY <1>6, <1>8, <1>9

LEMMA CommitIInv == ASSUME IInv, NEW p \in Proc, Commit(p) PROVE IInv'
<1> DEFINE b == req[p].id
           a == req[p].arch
<1>1. Idle \in Request /\ Idle.cleared = {} /\ ~Idle.marked /\ Idle.pc = "idle"
  BY Bottoms DEF Idle
<1>2. /\ req[p].marked /\ b \in Bundle /\ rows[b].st = "up" /\ rows[b].arch = a
      /\ LatestOf(a) \subseteq req[p].cleared \cup {b}
  BY DEF IInv, RequestsSound, RequestSound, Commit, At
<1>3. RowsPersist
  BY CommittedRows DEF RowsPersist
<1>4. ASSUME NEW q \in Proc, q # p
      PROVE  /\ \A c \in req[q].cleared : rows'[c].st = "up" /\ rows'[c].latest
             /\ req[q].marked => rows'[req[q].id].st = "up" /\ NoneNewFor(req[q].arch)
  <2>1. Apart(req[p], req[q])
    BY <1>4 DEF IInv, Exclusive
  <2>2. \A c \in req[q].cleared : c \notin req[p].cleared
    BY <2>1 DEF Apart, Held
  <2>3. req[q].marked => req[q].arch # a
    BY <1>2, <2>1 DEF Apart
  <2>4. req[q].marked => NoneNewFor(req[q].arch)
    BY <1>2, <2>3, CommittedRows DEF NoneNewFor, LatestOf, Up
  <2>5. QED
    BY <2>2, <2>4, HeldRows, CommittedRows
<1>5. RowsSound'
  BY <1>2, CommittedRows DEF IInv, RowsSound
<1>6. OneLatestPerPlatform'
  <2>1. ASSUME NEW e \in Arch, NEW c \in Bundle, NEW d \in Bundle,
               rows'[c].st = "up", rows'[c].latest, rows'[c].arch = e,
               rows'[d].st = "up", rows'[d].latest, rows'[d].arch = e
        PROVE  c = d
    <3>1. CASE e = a
      BY <1>2, <2>1, <3>1, CommittedRows DEF LatestOf, Up
    <3>2. CASE e # a
      <4>1. c \in LatestOf(e) /\ d \in LatestOf(e)
        BY <1>2, <2>1, <3>2, CommittedRows DEF LatestOf, Up
      <4>2. QED
        BY <4>1 DEF IInv, OneLatestPerPlatform
    <3>3. QED
      BY <3>1, <3>2
  <2>2. QED
    BY <2>1 DEF OneLatestPerPlatform, LatestOf, Up
<1>7. QED
  BY <1>1, <1>3, <1>4, <1>5, <1>6, CommittedRows, Committed DEF Commit, Answer

-------------------------------------------------------------------------------
(* Downloads.                                                                *)

LEMMA FetchFrame ==
  ASSUME IInv, NEW c \in Client, NEW d \in Download,
         client' = [client EXCEPT ![c] = d], UNCHANGED <<rows, req>>, DownloadSound(d)
  PROVE  IInv'
<1>1. client \in [Client -> Download]
  BY DEF IInv, TypeOK
<1>2. TypeOK'
  BY DEF IInv, TypeOK
<1>3. DownloadsSound'
  <2>1. ASSUME NEW e \in Client PROVE DownloadSound(client'[e])
    BY <1>1 DEF IInv, DownloadsSound
  <2>2. QED
    BY <2>1 DEF DownloadsSound, DownloadSound
<1>4. RequestsSound' /\ Exclusive' /\ RowsSound' /\ OneLatestPerPlatform'
  BY DEF IInv, RequestsSound, RequestSound, Exclusive, Apart, Held, RowsSound,
         OneLatestPerPlatform, LatestOf, Up
<1>5. QED
  BY <1>2, <1>3, <1>4 DEF IInv

LEMMA GetLatestIInv ==
  ASSUME IInv, NEW c \in Client, NEW a \in Arch, GetLatest(c, a) PROVE IInv'
<1>1. PICK b \in LatestFor(a) :
        client' = [client EXCEPT ![c] = [NoDownload EXCEPT
                     !.pc = "redirected", !.named = b,
                     !.version = rows[b].version, !.arch = rows[b].arch]]
  BY DEF GetLatest, RedirectArch
<1> DEFINE d == [NoDownload EXCEPT !.pc = "redirected", !.named = b,
                   !.version = rows[b].version, !.arch = rows[b].arch]
<1>2. b \in Bundle /\ rows[b].st = "up" /\ rows[b] \in Row
  BY <1>1 DEF LatestFor, Preferred, Up, IInv, TypeOK
<1>3. /\ d \in Download /\ d.pc = "redirected" /\ d.named = b
      /\ d.version = rows[b].version /\ d.arch = rows[b].arch
  BY <1>2, Bottoms DEF NoDownload, Download, Row
<1>4. client' = [client EXCEPT ![c] = d] /\ UNCHANGED <<rows, req>>
  BY <1>1 DEF GetLatest
<1> HIDE DEF d
<1>5. DownloadSound(d)
  BY <1>2, <1>3 DEF DownloadSound
<1>6. QED
  BY <1>3, <1>4, <1>5, FetchFrame

LEMMA GetVersionIInv ==
  ASSUME IInv, NEW c \in Client, GetVersion(c) PROVE IInv'
<1> DEFINE o == client[c]
<1>1. o \in Download /\ DownloadSound(o) /\ o.pc = "redirected"
  BY DEF IInv, TypeOK, DownloadsSound, GetVersion
<1>2. o.named \in Bundle /\ rows[o.named].st \in {"up", "gone"}
  BY <1>1, RowStates DEF DownloadSound, IInv
<1>3. CASE client' = [client EXCEPT ![c] = NoDownload]
  <2>1. NoDownload \in Download /\ DownloadSound(NoDownload)
    BY Bottoms DEF DownloadSound, NoDownload
  <2>2. QED
    BY <1>3, <2>1, FetchFrame DEF GetVersion
<1>4. ASSUME NEW b \in VersionFor(o.version, o.arch),
             client' = [client EXCEPT ![c] =
               [NoDownload EXCEPT !.pc = "served", !.named = o.named, !.got = b]]
      PROVE  IInv'
  <2> DEFINE d == [NoDownload EXCEPT !.pc = "served", !.named = o.named, !.got = b]
  <2>1. b \in Bundle /\ rows[b].st = "up" /\ rows[b].version = o.version
    BY <1>4 DEF VersionFor, Preferred, Up
  <2>2. d \in Download /\ d.pc = "served" /\ d.named = o.named /\ d.got = b
    BY <1>2, <2>1, Bottoms DEF NoDownload, Download
  <2>3. client' = [client EXCEPT ![c] = d] /\ UNCHANGED <<rows, req>>
    BY <1>4 DEF GetVersion
  <2> HIDE DEF d
  <2>4. rows[o.named].st = "up" => b = o.named
    <3>1. HAVE rows[o.named].st = "up"
    <3>2. o.version = rows[o.named].version /\ o.arch = rows[o.named].arch
      BY <1>1, <3>1 DEF DownloadSound
    <3>3. rows[b].arch = o.arch
      BY <1>2, <1>4, <3>1, <3>2 DEF VersionFor, Preferred, Up
    <3>4. QED
      BY <1>2, <2>1, <3>1, <3>2, <3>3 DEF IInv, RowsSound
  <2>5. DownloadSound(d)
    BY <1>2, <2>2, <2>4 DEF DownloadSound
  <2>6. QED
    BY <2>2, <2>3, <2>5, FetchFrame
<1>5. QED
  BY <1>3, <1>4 DEF GetVersion

LEMMA AgainIInv == ASSUME IInv, NEW c \in Client, Again(c) PROVE IInv'
<1>1. NoDownload \in Download /\ DownloadSound(NoDownload)
  BY Bottoms DEF DownloadSound, NoDownload
<1>2. QED
  BY <1>1, FetchFrame DEF Again

-------------------------------------------------------------------------------

LEMMA NextIInv == IInv /\ [Next]_vars => IInv'
<1> SUFFICES ASSUME IInv, [Next]_vars PROVE IInv'
  OBVIOUS
<1>1. CASE UNCHANGED vars
  BY <1>1 DEF vars, IInv, TypeOK, RequestsSound, RequestSound, Exclusive, Apart, Held,
              RowsSound, OneLatestPerPlatform, LatestOf, Up, DownloadsSound, DownloadSound
<1>2. ASSUME NEW p \in Proc, Step(p) PROVE IInv'
  BY <1>2, LookupIInv, InsertIInv, SetAssetIInv, FindLatestIInv, ClearLatestIInv,
     MarkLatestIInv, CommitIInv, DeleteIInv DEF Step
<1>3. ASSUME NEW p \in Proc, Fault(p) PROVE IInv'
  BY <1>3, SetAssetFailsIInv, Answered DEF Fault, Rollback
<1>4. ASSUME NEW p \in Proc, Arrive(p) PROVE IInv'
  BY <1>4, StartUploadIInv, StartOnRowIInv DEF Arrive
<1>5. ASSUME NEW c \in Client, Fetch(c) PROVE IInv'
  BY <1>5, GetLatestIInv, GetVersionIInv, AgainIInv DEF Fetch
<1>6. QED
  BY <1>1, <1>2, <1>3, <1>4, <1>5 DEF Next

-------------------------------------------------------------------------------
(* Results.                                                                  *)

\* What transactions, rows and downloads rely on holds in every reachable state.
THEOREM Invariance == Spec => []IInv
<1>1. Init => IInv
  BY InitIInv
<1>2. IInv /\ [Next]_vars => IInv'
  BY NextIInv
<1>3. QED
  BY <1>1, <1>2, PTL DEF Spec

\* Every row, request and download keeps its type.
THEOREM TypeCorrect == Spec => []TypeOK
<1>1. IInv => TypeOK
  BY DEF IInv
<1>2. QED
  BY <1>1, Invariance, PTL

\* One latest bundle per platform (setWGBundleLatest and its unique index),
\* however many transactions of set-latest, uploads and deletes interleave.
THEOREM OneLatestHolds == Spec => []OneLatestPerPlatform
<1>1. IInv => OneLatestPerPlatform
  BY DEF IInv
<1>2. QED
  BY <1>1, Invariance, PTL

\* The redirect of GET /v1/bundle leads to the bundle it was made from, unless
\* that bundle was deleted since.
THEOREM RedirectServesLatestHolds == Spec => []RedirectServesLatest
<1>1. IInv => RedirectServesLatest
  BY DEF IInv, DownloadsSound, DownloadSound, RedirectServesLatest
<1>2. QED
  BY <1>1, Invariance, PTL

-------------------------------------------------------------------------------
(* The catalogue.                                                            *)

\* Only four statements write the table.
LEMMA Writers ==
  ASSUME [Next]_vars
  PROVE  \/ UNCHANGED rows
         \/ \E p \in Proc : \/ \E b \in Bundle : Insert(p, b)
                            \/ SetAsset(p) \/ Delete(p) \/ Commit(p)
BY DEF Next, Step, Fault, Arrive, Fetch, Lookup, FindLatest, ClearLatest,
       MarkLatest, SetAssetFails, Rollback, StartUpload, StartSetLatest,
       StartDelete, GetLatest, GetVersion, Again, vars

\* Nothing the catalogue sees is changed.
LEMMA Unnoticed ==
  ASSUME \A b \in Bundle : /\ rows'[b].st = rows[b].st
                           /\ rows'[b].arch = rows[b].arch
                           /\ rows'[b].latest = rows[b].latest
  PROVE  UNCHANGED Listing!vars
<1>1. [b \in Bundle |-> IF rows'[b].st = "up" THEN rows'[b].arch ELSE None]
        = [b \in Bundle |-> IF rows[b].st = "up" THEN rows[b].arch ELSE None]
  OBVIOUS
<1>2. {b \in Bundle : rows'[b].latest} = {b \in Bundle : rows[b].latest}
  OBVIOUS
<1>3. {b \in Bundle : rows'[b].st = "gone"} = {b \in Bundle : rows[b].st = "gone"}
  OBVIOUS
<1>4. QED
  BY <1>1, <1>2, <1>3 DEF Listing!vars

LEMMA OfferedIs ==
  ASSUME TypeOK PROVE \A b : b \in Listing!Offered <=> b \in Bundle /\ rows[b].st = "up"
<1>1. \A b \in Bundle : rows[b].arch # None
  BY BundleNoneAssumption DEF TypeOK, Row
<1>2. QED
  BY <1>1 DEF Listing!Offered

LEMMA InsertOffers ==
  ASSUME IInv, NEW p \in Proc, NEW b \in Bundle, Insert(p, b), ~UNCHANGED rows
  PROVE  \E a \in Arch : Listing!Offer(b, a)
<1> DEFINE n == [NoRow EXCEPT !.st = "up", !.version = req[p].version,
                              !.arch = req[p].arch, !.content = req[p].content]
<1>1. /\ req[p].arch \in Arch /\ rows[b].st = "none" /\ TypeOK
      /\ rows \in [Bundle -> Row] /\ ~rows[b].latest
  BY DEF IInv, TypeOK, Request, Insert, Unused, RowsSound
<1>2. n.st = "up" /\ n.arch = req[p].arch /\ ~n.latest
  BY DEF NoRow
<1>3. rows' = [rows EXCEPT ![b] = n]
  BY DEF Insert
<1> HIDE DEF n
<1>4. rows'[b] = n /\ \A c \in Bundle : c # b => rows'[c] = rows[c]
  BY <1>1, <1>3
<1>5. b \notin Listing!Offered \cup {c \in Bundle : rows[c].st = "gone"}
  BY <1>1, OfferedIs
<1>6. [c \in Bundle |-> IF rows'[c].st = "up" THEN rows'[c].arch ELSE None]
        = [[c \in Bundle |-> IF rows[c].st = "up" THEN rows[c].arch ELSE None]
             EXCEPT ![b] = req[p].arch]
  BY <1>2, <1>4
<1>7. /\ {c \in Bundle : rows'[c].latest} = {c \in Bundle : rows[c].latest}
      /\ {c \in Bundle : rows'[c].st = "gone"} = {c \in Bundle : rows[c].st = "gone"}
  BY <1>1, <1>2, <1>4
<1>8. QED
  BY <1>1, <1>5, <1>6, <1>7 DEF Listing!Offer

LEMMA DeleteWithdraws ==
  ASSUME IInv, NEW p \in Proc, Delete(p), ~UNCHANGED rows
  PROVE  \E b \in Bundle : Listing!Withdraw(b)
<1> DEFINE b == req[p].id
           n == [NoRow EXCEPT !.st = "gone"]
<1>1. b \in Bundle /\ rows \in [Bundle -> Row] /\ TypeOK
  BY DEF IInv, TypeOK, RequestsSound, RequestSound, Delete, At
<1>2. n.st = "gone" /\ ~n.latest
  BY DEF NoRow
<1>3. rows[b].st = "up" /\ rows' = [rows EXCEPT ![b] = n]
  BY DEF Delete, Up
<1> HIDE DEF n
<1>4. rows'[b] = n /\ \A c \in Bundle : c # b => rows'[c] = rows[c]
  BY <1>1, <1>3
<1>5. b \in Listing!Offered
  BY <1>1, <1>3, OfferedIs
<1>6. [c \in Bundle |-> IF rows'[c].st = "up" THEN rows'[c].arch ELSE None]
        = [[c \in Bundle |-> IF rows[c].st = "up" THEN rows[c].arch ELSE None]
             EXCEPT ![b] = None]
  BY <1>2, <1>4
<1>7. {c \in Bundle : rows'[c].latest} = {c \in Bundle : rows[c].latest} \ {b}
  BY <1>1, <1>2, <1>4
<1>8. {c \in Bundle : rows'[c].st = "gone"}
        = {c \in Bundle : rows[c].st = "gone"} \cup {b}
  BY <1>1, <1>2, <1>4
<1>9. QED
  BY <1>1, <1>5, <1>6, <1>7, <1>8 DEF Listing!Withdraw

\* The three statements of set-latest are one promotion: what the transaction
\* cleared is exactly what was latest for the platform.
LEMMA CommitPromotes ==
  ASSUME IInv, NEW p \in Proc, Commit(p)
  PROVE  \E b \in Bundle : Listing!Promote(b)
<1> DEFINE b == req[p].id
           a == req[p].arch
           P == [c \in Bundle |-> IF rows[c].st = "up" THEN rows[c].arch ELSE None]
           L == {c \in Bundle : rows[c].latest}
<1>1. /\ TypeOK /\ b \in Bundle /\ rows[b].st = "up" /\ rows[b].arch = a
      /\ req[p].cleared \subseteq LatestOf(a)
      /\ LatestOf(a) \subseteq req[p].cleared \cup {b}
  BY DEF IInv, RequestsSound, RequestSound, Commit, At
<1>2. b \in Listing!Offered
  BY <1>1, OfferedIs
<1>3. [c \in Bundle |-> IF rows'[c].st = "up" THEN rows'[c].arch ELSE None] = P
  BY CommittedRows
<1>4. \A c \in Bundle : rows[c].latest => P[c] = rows[c].arch
  BY DEF IInv, RowsSound
<1>5. \A c \in L : c \in LatestOf(a) <=> P[c] = P[b]
  BY <1>1, <1>4 DEF IInv, RowsSound, LatestOf, Up
<1>6. {c \in Bundle : rows'[c].latest} = {c \in L : P[c] # P[b]} \cup {b}
  <2>1. ASSUME NEW c \in Bundle
        PROVE  rows'[c].latest <=> c \in {e \in L : P[e] # P[b]} \cup {b}
    <3>1. CASE c = b
      BY <3>1, <1>1, CommittedRows
    <3>2. CASE c # b
      <4>1. rows'[c].latest <=> c \in L /\ c \notin req[p].cleared
        BY <3>2, CommittedRows
      <4>2. c \in L => (c \in req[p].cleared <=> c \in LatestOf(a))
        BY <1>1, <3>2
      <4>3. QED
        BY <1>5, <3>2, <4>1, <4>2
    <3>3. QED
      BY <3>1, <3>2
  <2>2. QED
    BY <1>1, <2>1
<1>7. {c \in Bundle : rows'[c].st = "gone"} = {c \in Bundle : rows[c].st = "gone"}
  BY CommittedRows
<1>8. QED
  BY <1>1, <1>2, <1>3, <1>6, <1>7 DEF Listing!Promote

LEMMA StepImplements == IInv /\ [Next]_vars => [Listing!Next]_(Listing!vars)
<1> SUFFICES ASSUME IInv, [Next]_vars PROVE Listing!Next \/ UNCHANGED Listing!vars
  OBVIOUS
<1>1. CASE UNCHANGED rows
  BY <1>1, Unnoticed
<1>2. ASSUME NEW p \in Proc, NEW b \in Bundle, Insert(p, b), ~UNCHANGED rows
      PROVE  Listing!Next
  BY <1>2, InsertOffers DEF Listing!Next
<1>3. ASSUME NEW p \in Proc, SetAsset(p)
      PROVE  UNCHANGED Listing!vars
  BY <1>3, AssetRows, Unnoticed
<1>4. ASSUME NEW p \in Proc, Delete(p), ~UNCHANGED rows
      PROVE  Listing!Next
  BY <1>4, DeleteWithdraws DEF Listing!Next
<1>5. ASSUME NEW p \in Proc, Commit(p)
      PROVE  Listing!Next
  BY <1>5, CommitPromotes DEF Listing!Next
<1>6. QED
  BY <1>1, <1>2, <1>3, <1>4, <1>5, Writers

\* The handlers of the install bundles, with every failure and interleaving,
\* implement the catalogue: a promotion happens at once.
THEOREM Refinement == Spec => ImplementsCatalogue
<1>1. Init => Listing!Init
  BY DEF Init, NoRow, Listing!Init
<1>2. IInv /\ [Next]_vars => [Listing!Next]_(Listing!vars)
  BY StepImplements
<1>3. QED
  BY <1>1, <1>2, Invariance, PTL DEF Spec, Listing!Spec, ImplementsCatalogue

\* A platform loses its latest bundle only with that bundle.
THEOREM LatestSurvivesHolds == Spec => LatestSurvives
<1> DEFINE Kept ==
      \A a \in Arch : LatestOf(a) # {} /\ LatestOf(a)' = {} =>
        \E b \in LatestOf(a) : rows'[b].st = "gone"
<1>1. IInv /\ [Next]_vars => [Kept]_vars
  <2>1. SUFFICES ASSUME IInv, [Next]_vars,
                        NEW a \in Arch, LatestOf(a) # {}, LatestOf(a)' = {}
                 PROVE  \E b \in LatestOf(a) : rows'[b].st = "gone"
    OBVIOUS
  <2>2. PICK b \in LatestOf(a) : TRUE
    BY <2>1
  <2>3. b \in Bundle /\ rows[b].st = "up" /\ rows[b].latest /\ rows[b].arch = a
    BY <2>2 DEF LatestOf, Up
  <2>4. ~(rows'[b].st = "up" /\ rows'[b].latest /\ rows'[b].arch = a)
    BY <2>1, <2>3 DEF LatestOf, Up
  <2>5. rows' # rows /\ ~\E p \in Proc : SetAsset(p)
    BY <2>1, <2>3, <2>4, AssetRows
  <2>6. CASE \E p \in Proc, c \in Bundle : Insert(p, c)
    BY <2>1, <2>3, <2>4, <2>6 DEF Insert, Unused, IInv, TypeOK
  <2>7. CASE \E p \in Proc : Delete(p)
    <3>1. PICK p \in Proc : Delete(p)
      BY <2>7
    <3>2. \A c \in Bundle : rows'[c] # rows[c] => rows'[c].st = "gone"
      BY <2>1, <3>1 DEF Delete, NoRow, IInv, TypeOK
    <3>3. QED
      BY <2>2, <2>3, <2>4, <3>2
  <2>8. CASE \E p \in Proc : Commit(p)
    <3>1. PICK p \in Proc : Commit(p)
      BY <2>8
    <3>2. /\ req[p].id \in Bundle /\ rows[req[p].id].st = "up"
          /\ rows[req[p].id].arch = req[p].arch
          /\ req[p].cleared \subseteq LatestOf(req[p].arch)
      BY <2>1, <3>1 DEF IInv, RequestsSound, RequestSound, Commit, At
    <3>3. b \in req[p].cleared
      BY <2>1, <2>3, <2>4, <3>1, CommittedRows
    <3>4. req[p].arch = a
      BY <2>3, <3>2, <3>3 DEF LatestOf, Up
    <3>5. req[p].id \in LatestOf(a)'
      BY <2>1, <3>1, <3>2, <3>4, CommittedRows DEF LatestOf, Up
    <3>6. QED
      BY <2>1, <3>5
  <2>9. QED
    BY <2>1, <2>5, <2>6, <2>7, <2>8, Writers
<1>2. QED
  BY <1>1, Invariance, PTL DEF Spec, LatestSurvives

===============================================================================
