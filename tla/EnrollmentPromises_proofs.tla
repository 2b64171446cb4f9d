---------------------- MODULE EnrollmentPromises_proofs ----------------------
(***************************************************************************)
(* Proofs of what enrolment promises beyond its tables' integrity, each by *)
(* an invariant of its own on top of Enrollment_proofs:                    *)
(*   - it implements the admission ledger (module Admission);              *)
(*   - when no handler fails half way, a hub is bound to a removed device  *)
(*     only while the request that removed it is on its way to clear the   *)
(*     binding.                                                            *)
(***************************************************************************)
EXTENDS Enrollment_proofs

-------------------------------------------------------------------------------
(* The admission ledger.                                                     *)

LEMMA InitRefines == Init => Ledger!Init
BY DEF Init, Ledger!Init, Live

-------------------------------------------------------------------------------
(* The three kinds of step.                                                  *)

\* A step that lets nobody in and closes no token: devices stand up, hubs lose
\* their owner, or nothing the ledger sees happens.
TokensKept ==
  \A t \in Token : /\ tokens'[t].by = tokens[t].by
                   /\ tokens'[t].revoked = tokens[t].revoked

HubsKept ==
  \A h \in Hub : hubs'[h].bound = hubs[h].bound \/ hubs'[h].bound = None

SeatsKept ==
  \A d \in Dev : Live(d)' => /\ Live(d)
                             /\ devices'[d].hub = devices[d].hub
                             /\ devices'[d].idx = devices[d].idx
                             /\ devices'[d].key = devices[d].key

\* What every step but an admission does, in the ledger's terms and in the model's.
AdmissionsStay == \A t \in Token : tokens'[t].by = tokens[t].by

NobodyIn == AdmissionsStay /\ HubsKept /\ SeatsKept

Recedes == Ledger!Next /\ NobodyIn

LEMMA Vacates ==
  ASSUME TokensKept, HubsKept, SeatsKept
  PROVE  Recedes
<1> DEFINE Seat(d) == IF Live(d) THEN [hub |-> devices[d].hub,
                                       idx |-> devices[d].idx,
                                       key |-> devices[d].key]
                                 ELSE None
<1>1. PICK S \in SUBSET Dev, H \in SUBSET Hub :
        /\ S = {d \in Dev : ~Live(d)'}
        /\ H = {h \in Hub : hubs'[h].bound = None}
  OBVIOUS
<1>2. [t \in Token |-> tokens'[t].by] = [t \in Token |-> tokens[t].by]
  BY DEF TokensKept
<1>3. {t \in Token : tokens'[t].revoked} = {t \in Token : tokens[t].revoked}
  BY DEF TokensKept
<1>4. [d \in Dev |-> Seat(d)'] =
        [d \in Dev |-> IF d \in S THEN None ELSE [e \in Dev |-> Seat(e)][d]]
  <2>1. \A d \in Dev : Seat(d)' = IF d \in S THEN None ELSE Seat(d)
    BY <1>1 DEF SeatsKept
  <2>2. QED
    BY <2>1
<1>5. [h \in Hub |-> hubs'[h].bound] =
        [h \in Hub |-> IF h \in H THEN None ELSE [g \in Hub |-> hubs[g].bound][h]]
  BY <1>1 DEF HubsKept
<1>6. Ledger!Vacate(S, H)
  BY <1>2, <1>3, <1>4, <1>5 DEF Ledger!Vacate
<1>7. QED
  BY <1>6 DEF Ledger!Next, Recedes, NobodyIn, TokensKept, AdmissionsStay

\* A step that revokes a token and changes nothing else the ledger sees.
LEMMA Closes ==
  ASSUME NEW t \in Token, UNCHANGED <<hubs, devices>>,
         tokens \in [Token -> TokenRow],
         tokens' = [tokens EXCEPT ![t].revoked = TRUE]
  PROVE  Recedes
<1>1. \A u \in Token : /\ tokens'[u].by = tokens[u].by
                       /\ tokens'[u].revoked <=> (u = t \/ tokens[u].revoked)
  <2>1. PICK row : row = [tokens[t] EXCEPT !.revoked = TRUE]
    OBVIOUS
  <2>2. row.by = tokens[t].by /\ row.revoked
    BY <2>1 DEF TokenRow
  <2>3. tokens' = [tokens EXCEPT ![t] = row]
    BY <2>1
  <2>4. QED
    BY <2>2, <2>3
<1>2. [u \in Token |-> tokens'[u].by] = [u \in Token |-> tokens[u].by]
  BY <1>1
<1>3. {u \in Token : tokens'[u].revoked} = {u \in Token : tokens[u].revoked} \cup {t}
  BY <1>1
<1>4. Ledger!Close(t)
  BY <1>2, <1>3 DEF Ledger!Close, Live
<1>5. NobodyIn
  BY <1>1 DEF NobodyIn, AdmissionsStay, HubsKept, SeatsKept, Live
<1>6. QED
  BY <1>4, <1>5 DEF Ledger!Next, Recedes

\* Register's commit lets a device in.
LEMMA Admits ==
  ASSUME IInv, NEW p \in Proc, NEW d \in Dev,
         CommitBind(p, d) \/ CommitAlloc(p, d)
  PROVE  Ledger!Next
<1> DEFINE Seat(e) == IF Live(e) THEN [hub |-> devices[e].hub,
                                       idx |-> devices[e].idx,
                                       key |-> devices[e].key]
                                 ELSE None
<1>1. PICK t \in Token, k \in Key, h \in Hub, i \in 1..MaxIndex :
        /\ t = proc[p].tok /\ k = proc[p].key /\ h = proc[p].hub
        /\ i = proc[p].idx /\ (i = HubIndex <=> proc[p].at = "bind")
  <2>1. proc[p] \in Request /\ RequestSound(proc[p])
    BY DEF IInv, TypeOK, RequestsSound
  <2>2. QED
    BY <2>1, MaxIndexAssumption DEF RequestSound, Request, CommitBind, CommitAlloc
<1>2. /\ hubs \in [Hub -> HubRow] /\ tokens \in [Token -> TokenRow]
      /\ devices \in [Dev -> DevRow]
  BY DEF IInv, TypeOK
<1>3. InsertDevice(p, d) /\ ConsumeToken(p, d)
  BY DEF CommitBind, CommitAlloc
<1>4. tokens[t].by = None /\ ~tokens[t].revoked
  BY <1>1, <1>3
     DEF ConsumeToken, TokenRowUnchanged, IInv, RequestsSound, RequestSound,
         CommitBind, CommitAlloc
<1>5. PICK s : s = [hub |-> h, idx |-> i, key |-> k]
  OBVIOUS
<1>6. s \in Ledger!Seat /\ s.hub = h /\ s.idx = i /\ s.key = k
  BY <1>5 DEF Ledger!Seat
<1>7. /\ devices[d].st = "none"
      /\ \A e \in Dev : Live(e) =>
           /\ ~(devices[e].hub = h /\ devices[e].idx = i)
           /\ devices[e].key # k
  BY <1>1, <1>3 DEF InsertDevice, IndexesAdmit
<1>8. \A u \in Token : tokens[u].by # d
  BY <1>2, <1>7, NoneAssumption DEF TokenRow, IInv, TablesInv, RowsSound
<1>9. \A e \in Dev : Seat(e) # None => ~Ledger!Clash(Seat(e), s)
  BY <1>6, <1>7 DEF Ledger!Clash
<1>10. s.idx = HubIndex => hubs[h].bound = None
  BY <1>1, <1>6
     DEF CommitBind, CommitAlloc, BindHub, HubRowUnchanged, IInv, RequestsSound,
         RequestSound
<1>11. \A u \in Token : /\ tokens'[u].by = IF u = t THEN d ELSE tokens[u].by
                        /\ tokens'[u].revoked = tokens[u].revoked
  <2>1. tokens' = [tokens EXCEPT ![t].by = d]
    BY <1>1, <1>3 DEF ConsumeToken
  <2>2. PICK row : row = [tokens[t] EXCEPT !.by = d]
    OBVIOUS
  <2>3. row.by = d /\ row.revoked = tokens[t].revoked
    BY <1>2, <2>2 DEF TokenRow
  <2>4. tokens' = [tokens EXCEPT ![t] = row]
    BY <1>2, <2>1, <2>2
  <2>5. QED
    BY <1>2, <2>3, <2>4
<1>12. \A e \in Dev : Seat(e)' = IF e = d THEN s ELSE Seat(e)
  <2>1. PICK row : row = NewDevice(p)
    OBVIOUS
  <2>2. row.st = "live" /\ row.hub = h /\ row.idx = i /\ row.key = k
    BY <1>1, <2>1 DEF NewDevice
  <2>3. devices' = [devices EXCEPT ![d] = row]
    BY <1>3, <2>1 DEF InsertDevice
  <2>4. devices'[d] = row /\ \A e \in Dev : e # d => devices'[e] = devices[e]
    BY <1>2, <2>3
  <2>5. Seat(d)' = s
    BY <1>5, <2>2, <2>4 DEF Live
  <2>6. \A e \in Dev : e # d => Seat(e)' = Seat(e)
    BY <2>4 DEF Live
  <2>7. QED
    BY <2>5, <2>6
<1>13. \A g \in Hub : hubs'[g].bound =
                        IF i = HubIndex /\ g = h THEN d ELSE hubs[g].bound
  <2>1. CASE proc[p].at = "bind"
    <3>1. hubs' = [hubs EXCEPT ![h].bound = d, ![h].pubkey = k]
      BY <1>1, <2>1 DEF CommitBind, CommitAlloc, BindHub
    <3>2. PICK row : row = [hubs[h] EXCEPT !.bound = d, !.pubkey = k]
      OBVIOUS
    <3>3. row.bound = d
      BY <1>2, <3>2 DEF HubRow
    <3>4. hubs' = [hubs EXCEPT ![h] = row]
      BY <1>2, <3>1, <3>2
    <3>5. QED
      BY <1>1, <1>2, <2>1, <3>3, <3>4
  <2>2. CASE proc[p].at = "alloc"
    BY <1>1, <2>2 DEF CommitBind, CommitAlloc, HubIndex
  <2>3. QED
    BY <2>1, <2>2 DEF CommitBind, CommitAlloc
<1>14. Ledger!Admit(t, d, s)
  <2>1. [u \in Token |-> tokens'[u].by] =
          [[u \in Token |-> tokens[u].by] EXCEPT ![t] = d]
    BY <1>11
  <2>2. {u \in Token : tokens'[u].revoked} = {u \in Token : tokens[u].revoked}
    BY <1>11
  <2>3. [e \in Dev |-> Seat(e)'] = [[e \in Dev |-> Seat(e)] EXCEPT ![d] = s]
    BY <1>12
  <2>4. [g \in Hub |-> hubs'[g].bound] =
          IF s.idx = HubIndex THEN [[g \in Hub |-> hubs[g].bound] EXCEPT ![s.hub] = d]
                              ELSE [g \in Hub |-> hubs[g].bound]
    BY <1>6, <1>13
  <2>5. Ledger!HubIndex = HubIndex
    BY DEF Ledger!HubIndex, HubIndex
  <2>6. QED
    BY <1>4, <1>6, <1>8, <1>9, <1>10, <2>1, <2>2, <2>3, <2>4, <2>5
       DEF Ledger!Admit
<1>15. QED
  BY <1>6, <1>14 DEF Ledger!Next

-------------------------------------------------------------------------------
(* The steps that let nobody in and revoke nothing.                          *)

LEMMA QuietStep ==
  ASSUME UNCHANGED Rows
  PROVE  Recedes
<1>1. TokensKept /\ HubsKept /\ SeatsKept
  BY DEF Rows, TokensKept, HubsKept, SeatsKept, Live
<1>2. QED
  BY <1>1, Vacates

LEMMA TokenRowStep ==
  ASSUME tokens \in [Token -> TokenRow], NEW t \in Token, NEW row \in TokenRow,
         tokens' = [tokens EXCEPT ![t] = row],
         row.by = tokens[t].by, row.revoked = tokens[t].revoked,
         UNCHANGED <<hubs, devices>>
  PROVE  Recedes
<1>1. TokensKept
  BY DEF TokensKept
<1>2. HubsKept /\ SeatsKept
  BY DEF HubsKept, SeatsKept, Live
<1>3. QED
  BY <1>1, <1>2, Vacates

LEMMA HubRowStep ==
  ASSUME hubs \in [Hub -> HubRow], NEW h \in Hub, NEW row \in HubRow,
         hubs' = [hubs EXCEPT ![h] = row],
         row.bound = hubs[h].bound \/ row.bound = None,
         UNCHANGED <<tokens, devices>>
  PROVE  Recedes
<1>1. HubsKept
  BY DEF HubsKept
<1>2. TokensKept /\ SeatsKept
  BY DEF TokensKept, SeatsKept, Live
<1>3. QED
  BY <1>1, <1>2, Vacates

LEMMA DeviceRowStep ==
  ASSUME devices \in [Dev -> DevRow], NEW d \in Dev, NEW row \in DevRow,
         devices' = [devices EXCEPT ![d] = row],
         row.hub = devices[d].hub, row.idx = devices[d].idx,
         row.key = devices[d].key,
         row.st = devices[d].st \/ row.st = "removed",
         UNCHANGED <<hubs, tokens>>
  PROVE  Recedes
<1>1. SeatsKept
  BY DEF SeatsKept, Live
<1>2. TokensKept /\ HubsKept
  BY DEF TokensKept, HubsKept
<1>3. QED
  BY <1>1, <1>2, Vacates

LEMMA TokenStepsRefine ==
  ASSUME IInv,
         \/ \E p \in Proc : InsertHubToken(p) \/ RevokeReleased(p)
         \/ \E t \in Token, h \in Hub : MintDeviceToken(t, h)
         \/ \E t \in Token : RevokeToken(t) \/ Expire(t)
  PROVE  Recedes
<1>1. tokens \in [Token -> TokenRow]
  BY DEF IInv, TypeOK
<1>2. ASSUME NEW t \in Token, NEW h \in Hub, NEW role \in {"hub", "device"},
             tokens' = [tokens EXCEPT ![t].st = "issued", ![t].role = role,
                                      ![t].hub = h],
             UNCHANGED <<hubs, devices>>
      PROVE  Recedes
  <2>1. PICK row : row = [tokens[t] EXCEPT !.st = "issued", !.role = role,
                                           !.hub = h]
    OBVIOUS
  <2>2. /\ row \in TokenRow /\ row.by = tokens[t].by
        /\ row.revoked = tokens[t].revoked
    BY <1>1, <2>1 DEF TokenRow
  <2>3. tokens' = [tokens EXCEPT ![t] = row]
    BY <1>1, <1>2, <2>1
  <2>4. QED
    BY <1>1, <1>2, <2>2, <2>3, TokenRowStep
<1>3. ASSUME NEW p \in Proc, InsertHubToken(p)
      PROVE  Recedes
  <2>1. CASE UNCHANGED tokens
    BY <1>3, <2>1, QuietStep DEF InsertHubToken, Rows
  <2>2. CASE ~UNCHANGED tokens
    <3>1. PICK h \in Hub : h = proc[p].hub
      BY <1>3 DEF InsertHubToken, IInv, RequestsSound, RequestSound
    <3>2. QED
      BY <1>2, <1>3, <2>2, <3>1 DEF InsertHubToken
  <2>3. QED
    BY <2>1, <2>2
<1>4. ASSUME NEW p \in Proc, RevokeReleased(p)
      PROVE  Recedes
  <2>1. PICK t \in Token : t = proc[p].tok
    BY <1>4 DEF RevokeReleased, IInv, RequestsSound, RequestSound
  <2>2. QED
    BY <1>1, <1>4, <2>1, Closes DEF RevokeReleased
<1>5. ASSUME NEW t \in Token, NEW h \in Hub, MintDeviceToken(t, h)
      PROVE  Recedes
  BY <1>2, <1>5 DEF MintDeviceToken
<1>6. ASSUME NEW t \in Token, RevokeToken(t)
      PROVE  Recedes
  BY <1>1, <1>6, Closes DEF RevokeToken
<1>7. ASSUME NEW t \in Token, Expire(t)
      PROVE  Recedes
  <2>1. PICK row : row = [tokens[t] EXCEPT !.expired = TRUE]
    OBVIOUS
  <2>2. /\ row \in TokenRow /\ row.by = tokens[t].by
        /\ row.revoked = tokens[t].revoked
    BY <1>1, <2>1 DEF TokenRow
  <2>3. tokens' = [tokens EXCEPT ![t] = row]
    BY <1>1, <1>7, <2>1 DEF Expire
  <2>4. QED
    BY <1>1, <1>7, <2>2, <2>3, TokenRowStep DEF Expire
<1>8. QED
  BY <1>3, <1>4, <1>5, <1>6, <1>7

LEMMA HubStepsRefine ==
  ASSUME IInv,
         \/ \E p \in Proc : CreateHub(p) \/ ClearBind(p)
         \/ \E h \in Hub : ResetBind(h)
  PROVE  Recedes
<1>1. hubs \in [Hub -> HubRow]
  BY DEF IInv, TypeOK
<1>2. UNCHANGED <<tokens, devices>>
  BY DEF CreateHub, ClearBind, ResetBind
<1>3. CASE UNCHANGED hubs
  BY <1>2, <1>3, QuietStep DEF Rows
<1>4. ASSUME NEW h \in Hub,
             NEW row \in {hubs[h], [hubs[h] EXCEPT !.st = "up"], Unbound(hubs[h])},
             hubs' = [hubs EXCEPT ![h] = row]
      PROVE  Recedes
  <2>1. /\ row \in HubRow
        /\ row.bound = hubs[h].bound \/ row.bound = None
    BY <1>1, <1>4 DEF HubRow, Unbound
  <2>2. QED
    BY <1>1, <1>2, <1>4, <2>1, HubRowStep
<1>5. ASSUME NEW p \in Proc, CreateHub(p), ~UNCHANGED hubs
      PROVE  Recedes
  <2>1. PICK h \in Hub : h = proc[p].hub
    BY <1>5 DEF CreateHub, IInv, RequestsSound, RequestSound
  <2>2. PICK row : row = [hubs[h] EXCEPT !.st = "up"]
    OBVIOUS
  <2>3. hubs' = [hubs EXCEPT ![h] = row]
    BY <1>1, <1>5, <2>1, <2>2 DEF CreateHub
  <2>4. QED
    BY <1>4, <2>2, <2>3
<1>6. ASSUME NEW p \in Proc, ClearBind(p)
      PROVE  Recedes
  <2>1. PICK h \in Hub : h = proc[p].hub
    BY <1>6 DEF ClearBind, IInv, RequestsSound, RequestSound
  <2>2. PICK row : row = IF hubs[h].st = "up" THEN Unbound(hubs[h]) ELSE hubs[h]
    OBVIOUS
  <2>3. hubs' = [hubs EXCEPT ![h] = row]
    BY <1>1, <1>6, <2>1, <2>2 DEF ClearBind
  <2>4. QED
    BY <1>4, <2>2, <2>3
<1>7. ASSUME NEW h \in Hub, ResetBind(h)
      PROVE  Recedes
  BY <1>4, <1>7 DEF ResetBind
<1>8. QED
  BY <1>3, <1>5, <1>6, <1>7

LEMMA DeviceStepsRefine ==
  ASSUME IInv,
         \/ \E p \in Proc : MarkRemoved(p) \/ Heartbeat(p) \/ TokenRefresh(p)
         \/ \E d \in Dev : Age(d)
  PROVE  Recedes
<1>1. devices \in [Dev -> DevRow]
  BY DEF IInv, TypeOK
<1>2. UNCHANGED <<hubs, tokens>>
  BY DEF MarkRemoved, Heartbeat, TokenRefresh, Age
<1>3. CASE UNCHANGED devices
  BY <1>2, <1>3, QuietStep DEF Rows
<1>4. ASSUME NEW d \in Dev,
             NEW row \in {[devices[d] EXCEPT !.st = "removed"],
                          [devices[d] EXCEPT !.age = "recent"],
                          [devices[d] EXCEPT !.age = "silent"],
                          [devices[d] EXCEPT !.age = "old"],
                          [devices[d] EXCEPT !.hash = None]},
             devices' = [devices EXCEPT ![d] = row]
      PROVE  Recedes
  <2>1. /\ row \in DevRow /\ row.hub = devices[d].hub
        /\ row.idx = devices[d].idx /\ row.key = devices[d].key
        /\ row.st = devices[d].st \/ row.st = "removed"
    BY <1>1, <1>4 DEF DevRow
  <2>2. QED
    BY <1>1, <1>2, <1>4, <2>1, DeviceRowStep
<1>5. ASSUME NEW p \in Proc, MarkRemoved(p) \/ Heartbeat(p) \/ TokenRefresh(p),
             ~UNCHANGED devices
      PROVE  Recedes
  <2>1. PICK d \in Dev : d = proc[p].dev
    BY <1>5
       DEF MarkRemoved, Heartbeat, TokenRefresh, IInv, RequestsSound, RequestSound
  <2>2. PICK row \in {[devices[d] EXCEPT !.st = "removed"],
                      [devices[d] EXCEPT !.age = "recent"],
                      [devices[d] EXCEPT !.hash = None]} :
          devices' = [devices EXCEPT ![d] = row]
    BY <1>1, <1>5, <2>1 DEF MarkRemoved, Heartbeat, TokenRefresh
  <2>3. QED
    BY <1>4, <2>2
<1>6. ASSUME NEW d \in Dev, Age(d)
      PROVE  Recedes
  <2>1. PICK row \in {[devices[d] EXCEPT !.age = "silent"],
                      [devices[d] EXCEPT !.age = "old"]} :
          devices' = [devices EXCEPT ![d] = row]
    BY <1>1, <1>6 DEF Age
  <2>2. QED
    BY <1>4, <2>1
<1>7. QED
  BY <1>3, <1>5, <1>6

\* Rows that stay or whose device is no longer live leave the seats alone.
LEMMA RetiredSeatsKept ==
  ASSUME \A d \in Dev : devices'[d] = devices[d] \/ devices'[d].st # "live"
  PROVE  SeatsKept
BY DEF SeatsKept, Live

LEMMA RetiredRow ==
  ASSUME NEW r \in DevRow
  PROVE  /\ [r EXCEPT !.st = "gone"].st = "gone"
         /\ [r EXCEPT !.st = "removed"].st = "removed"
BY DEF DevRow

LEMMA ClearedRow ==
  ASSUME NEW r \in HubRow
  PROVE  Unbound(r).bound = None
BY DEF Unbound, HubRow

\* The two steps that write several rows of a table at once.
LEMMA BulkStepsRefine ==
  ASSUME IInv, (\E p \in Proc : DeleteHub(p)) \/ GCCommit
  PROVE  Recedes
<1>1. /\ hubs \in [Hub -> HubRow] /\ tokens \in [Token -> TokenRow]
      /\ devices \in [Dev -> DevRow]
  BY DEF IInv, TypeOK
<1>2. ASSUME NEW p \in Proc, DeleteHub(p)
      PROVE  Recedes
  <2>1. CASE UNCHANGED Rows
    BY <2>1, QuietStep
  <2>2. CASE ~UNCHANGED Rows
    <3>1. TokensKept
      <4>1. \A t \in Token : tokens'[t] \in {tokens[t], [tokens[t] EXCEPT !.hub = None]}
        BY <1>2, <2>2 DEF DeleteHub, Rows
      <4>2. QED
        BY <1>1, <4>1 DEF TokensKept, TokenRow
    <3>2. SeatsKept
      <4>1. \A d \in Dev : devices'[d] \in {devices[d], [devices[d] EXCEPT !.st = "gone"]}
        BY <1>2, <2>2 DEF DeleteHub, Rows
      <4>2. ASSUME NEW d \in Dev
            PROVE  devices'[d] = devices[d] \/ devices'[d].st # "live"
        <5>1. devices[d] \in DevRow
          BY <1>1
        <5>2. QED
          BY <4>1, <5>1, RetiredRow
      <4>3. QED
        BY <4>2, RetiredSeatsKept
    <3>3. HubsKept
      BY <1>1, <1>2, <2>2 DEF DeleteHub, Rows, HubsKept
    <3>4. QED
      BY <3>1, <3>2, <3>3, Vacates
  <2>3. QED
    BY <2>1, <2>2
<1>3. CASE GCCommit
  <2>1. TokensKept
    BY <1>3 DEF GCCommit, TokensKept
  <2>2. SeatsKept
    <3>1. \A d \in Dev : devices'[d] \in {devices[d], [devices[d] EXCEPT !.st = "removed"]}
      BY <1>3 DEF GCCommit
    <3>2. ASSUME NEW d \in Dev
          PROVE  devices'[d] = devices[d] \/ devices'[d].st # "live"
      <4>1. devices[d] \in DevRow
        BY <1>1
      <4>2. QED
        BY <3>1, <4>1, RetiredRow
    <3>3. QED
      BY <3>2, RetiredSeatsKept
  <2>3. HubsKept
    <3>1. \A h \in Hub : hubs'[h] \in {hubs[h], Unbound(hubs[h])}
      BY <1>3 DEF GCCommit
    <3>2. ASSUME NEW h \in Hub
          PROVE  hubs'[h].bound = hubs[h].bound \/ hubs'[h].bound = None
      <4>1. hubs[h] \in HubRow
        BY <1>1
      <4>2. QED
        BY <3>1, <4>1, ClearedRow
    <3>3. QED
      BY <3>2 DEF HubsKept
  <2>4. QED
    BY <2>1, <2>2, <2>3, Vacates
<1>4. QED
  BY <1>2, <1>3

-------------------------------------------------------------------------------

Commits(p) == \E d \in Dev : CommitBind(p, d) \/ CommitAlloc(p, d)

LEMMA OnlyCommitsAdmit ==
  ASSUME IInv, [Next]_vars
  PROVE  Recedes \/ \E p \in Proc : Commits(p)
<1>1. UNCHANGED Rows => Recedes
  BY QuietStep
<1>2. ASSUME NEW p \in Proc, Step(p)
      PROVE  Recedes \/ Commits(p)
  <2>1. UNCHANGED Rows \/ ~(\/ RegisterSnapshot(p) \/ CommitRefresh(p)
                            \/ SerializationFailure(p) \/ DuplicateKey(p)
                            \/ ReadHub(p))
    BY DEF RegisterSnapshot, CommitRefresh, SerializationFailure, DuplicateKey,
           ReadHub, Rows
  <2>2. CASE InsertHubToken(p) \/ RevokeReleased(p)
    BY <2>2, TokenStepsRefine
  <2>3. CASE CreateHub(p) \/ ClearBind(p)
    BY <2>3, HubStepsRefine
  <2>4. CASE MarkRemoved(p) \/ Heartbeat(p) \/ TokenRefresh(p)
    BY <2>4, DeviceStepsRefine
  <2>5. CASE DeleteHub(p)
    BY <2>5, BulkStepsRefine
  <2>6. QED
    BY <1>1, <1>2, <2>1, <2>2, <2>3, <2>4, <2>5 DEF Step, Commits
<1>3. ASSUME NEW p \in Proc, Arrive(p) \/ Fail(p)
      PROVE  Recedes
  <2>1. UNCHANGED Rows
    BY <1>3
       DEF Arrive, Fail, Rows, StartMintHub, StartDeleteHub, StartRegister,
           StartRelease, StartLeave, StartRemove, StartHeartbeat,
           StartTokenRefresh
  <2>2. QED
    BY <1>1, <2>1
<1>4. CASE Environment
  BY <1>4, TokenStepsRefine, HubStepsRefine, DeviceStepsRefine DEF Environment
<1>5. CASE Sweep
  <2>1. CASE GCCommit
    BY <2>1, BulkStepsRefine
  <2>2. CASE GCSelect
    BY <1>1, <2>2 DEF GCSelect, Rows
  <2>3. QED
    BY <1>5, <2>1, <2>2 DEF Sweep
<1>6. CASE GCFail
  BY <1>1, <1>6 DEF GCFail, Rows
<1>7. CASE UNCHANGED vars
  BY <1>1, <1>7 DEF vars, Rows
<1>8. QED
  BY <1>2, <1>3, <1>4, <1>5, <1>6, <1>7 DEF Next

LEMMA StepRefines == IInv /\ [Next]_vars => Ledger!Next
BY OnlyCommitsAdmit, Admits DEF Commits, Recedes

\* Every step of every handler, sweep and failure is an admission, a vacation, a
\* closing or a stutter of the admission ledger.
THEOREM Refinement == Spec => ImplementsAdmission
<1>1. Init => Ledger!Init
  BY InitRefines
<1>2. IInv /\ [Next]_vars => [Ledger!Next]_(Ledger!vars)
  BY StepRefines
<1>3. QED
  BY <1>1, <1>2, Invariance, PTL DEF Spec, Ledger!Spec, ImplementsAdmission

-------------------------------------------------------------------------------
(* Hubs bound to removed devices.                                            *)

Orphan(h) == hubs[h].bound # None /\ devices[hubs[h].bound].st = "removed"

Cleaner(q, h) == /\ proc[q].at \in {"readHub", "clear"}
                 /\ proc[q].dev = hubs[h].bound
                 /\ proc[q].hub = h

NoOrphanBorn ==
  \A h \in Hub : Orphan(h)' => Orphan(h) /\ hubs'[h].bound = hubs[h].bound

OthersStay(p) == \A q \in Proc : q # p => proc'[q] = proc[q]

-------------------------------------------------------------------------------

\* A step of a request that is not cleaning, and that orphans no hub.
LEMMA Undisturbed ==
  ASSUME OrphanBindingHasCleaner, NoOrphanBorn, NEW p \in Proc, OthersStay(p),
         proc[p].at \notin {"readHub", "clear"}
  PROVE  OrphanBindingHasCleaner'
<1> SUFFICES ASSUME NEW h \in Hub, Orphan(h)'
             PROVE  \E q \in Proc : Cleaner(q, h)'
  BY DEF OrphanBindingHasCleaner, Orphan, Cleaner
<1>1. Orphan(h) /\ hubs'[h].bound = hubs[h].bound
  BY DEF NoOrphanBorn
<1>2. PICK q \in Proc : Cleaner(q, h)
  BY <1>1 DEF OrphanBindingHasCleaner, Orphan, Cleaner
<1>3. proc'[q] = proc[q]
  BY <1>2 DEF OthersStay, Cleaner
<1>4. QED
  BY <1>1, <1>2, <1>3 DEF Cleaner

LEMMA NobodyMoves ==
  ASSUME OrphanBindingHasCleaner, NoOrphanBorn, UNCHANGED proc
  PROVE  OrphanBindingHasCleaner'
BY DEF OrphanBindingHasCleaner, NoOrphanBorn, Orphan

\* Only p's request moves in a step of p.
LEMMA StepMovesOne ==
  ASSUME IInv, NEW p \in Proc, Step(p) \/ Arrive(p)
  PROVE  OthersStay(p)
<1>1. proc \in [Proc -> Request]
  BY DEF IInv, TypeOK
<1>2. \A r : proc' = [proc EXCEPT ![p] = r] => OthersStay(p)
  BY <1>1 DEF OthersStay
<1>3. CASE Step(p)
  <2>1. \A a : Goto(p, a) => OthersStay(p)
    BY <1>1 DEF Goto, OthersStay
  <2>2. Answer(p) => OthersStay(p)
    BY <1>2 DEF Answer
  <2>3. AfterRemoval(p) => OthersStay(p)
    BY <2>1, <2>2 DEF AfterRemoval
  <2>4. RegisterSnapshot(p) => OthersStay(p)
    BY <1>1, <2>2 DEF RegisterSnapshot, OthersStay
  <2>5. SerializationFailure(p) => OthersStay(p)
    BY <1>2, <2>2 DEF SerializationFailure
  <2>6. QED
    BY <1>3, <2>1, <2>2, <2>3, <2>4, <2>5
       DEF Step, CreateHub, InsertHubToken, CommitBind, CommitAlloc,
           CommitRefresh, DuplicateKey, MarkRemoved, ReadHub, ClearBind,
           RevokeReleased, DeleteHub, Heartbeat, TokenRefresh
<1>4. CASE Arrive(p)
  BY <1>2, <1>4
     DEF Arrive, Begin, StartMintHub, StartDeleteHub, StartRegister,
         StartRelease, StartLeave, StartRemove, StartHeartbeat,
         StartTokenRefresh
<1>5. QED
  BY <1>3, <1>4

\* What binding and unbinding do to the one column the argument looks at.
LEMMA UnboundRow ==
  ASSUME NEW r \in HubRow
  PROVE  Unbound(r).bound = None
BY DEF Unbound, HubRow

LEMMA BoundRow ==
  ASSUME NEW r \in HubRow, NEW d, NEW k
  PROVE  [r EXCEPT !.bound = d, !.pubkey = k].bound = d
BY DEF HubRow

\* Hubs keep their binding or lose it, and no device is removed.
LEMMA NothingRemoved ==
  ASSUME TypeOK,
         \A h \in Hub : hubs'[h].bound \in {hubs[h].bound, None},
         \A d \in Dev : devices'[d].st = "removed" => devices[d].st = "removed"
  PROVE  NoOrphanBorn
BY DEF NoOrphanBorn, Orphan, TypeOK, HubRow

\* Statements that neither remove a device nor bind or free a hub.
LEMMA OtherStepsBearNone ==
  ASSUME IInv, NEW p \in Proc,
         \/ CreateHub(p) \/ InsertHubToken(p) \/ RegisterSnapshot(p)
         \/ CommitRefresh(p) \/ SerializationFailure(p) \/ DuplicateKey(p)
         \/ RevokeReleased(p) \/ DeleteHub(p) \/ Heartbeat(p)
         \/ TokenRefresh(p) \/ Arrive(p)
  PROVE  NoOrphanBorn
<1>1. /\ hubs \in [Hub -> HubRow] /\ devices \in [Dev -> DevRow]
  BY DEF IInv, TypeOK
<1>2. \A h \in Hub : hubs'[h].bound \in {hubs[h].bound, None}
  <2>1. CASE UNCHANGED hubs
    BY <2>1
  <2>2. CASE CreateHub(p) /\ ~UNCHANGED hubs
    <3>1. PICK g : hubs' = [hubs EXCEPT ![g].st = "up"]
      BY <2>2 DEF CreateHub
    <3>2. \A h \in Hub : hubs'[h] \in {hubs[h], [hubs[h] EXCEPT !.st = "up"]}
      BY <1>1, <3>1
    <3>3. QED
      BY <1>1, <3>2 DEF HubRow
  <2>3. CASE DeleteHub(p) /\ ~UNCHANGED hubs
    <3>1. PICK g : hubs' = [hubs EXCEPT ![g] =
                              [st |-> "gone", bound |-> None, pubkey |-> None]]
      BY <2>3 DEF DeleteHub
    <3>2. QED
      BY <1>1, <3>1
  <2>4. QED
    BY <2>1, <2>2, <2>3
       DEF InsertHubToken, RegisterSnapshot, CommitRefresh,
           SerializationFailure, DuplicateKey, RevokeReleased, Heartbeat,
           TokenRefresh, Arrive, StartMintHub, StartDeleteHub, StartRegister,
           StartRelease, StartLeave, StartRemove, StartHeartbeat,
           StartTokenRefresh
<1>3. \A d \in Dev : devices'[d].st = "removed" => devices[d].st = "removed"
  <2>1. CASE UNCHANGED devices
    BY <2>1
  <2>2. CASE DeleteHub(p) /\ ~UNCHANGED devices
    <3>1. \A d \in Dev : devices'[d] \in {devices[d], [devices[d] EXCEPT !.st = "gone"]}
      BY <2>2 DEF DeleteHub
    <3>2. QED
      BY <1>1, <3>1 DEF DevRow
  <2>3. CASE (Heartbeat(p) \/ TokenRefresh(p)) /\ ~UNCHANGED devices
    <3>1. \A d \in Dev : devices'[d] \in {devices[d],
                                         [devices[d] EXCEPT !.age = "recent"],
                                         [devices[d] EXCEPT !.hash = None]}
      BY <1>1, <2>3 DEF Heartbeat, TokenRefresh
    <3>2. QED
      BY <1>1, <3>1 DEF DevRow
  <2>4. QED
    BY <2>1, <2>2, <2>3
       DEF CreateHub, InsertHubToken, RegisterSnapshot, CommitRefresh,
           SerializationFailure, DuplicateKey, RevokeReleased, Arrive,
           StartMintHub, StartDeleteHub, StartRegister,
           StartRelease, StartLeave, StartRemove, StartHeartbeat,
           StartTokenRefresh
<1>4. QED
  BY <1>2, <1>3, NothingRemoved DEF IInv

\* The sweep removes and unbinds in one step; admin clicks only unbind.
LEMMA LoneStepsBearNone ==
  ASSUME IInv, Environment \/ Sweep \/ GCFail
  PROVE  NoOrphanBorn
<1>1. /\ hubs \in [Hub -> HubRow] /\ devices \in [Dev -> DevRow]
  BY DEF IInv, TypeOK
<1>2. CASE UNCHANGED <<hubs, devices>>
  BY <1>2 DEF NoOrphanBorn, Orphan
<1>3. ASSUME NEW g \in Hub, ResetBind(g)
      PROVE  NoOrphanBorn
  <2>1. \A h \in Hub : hubs'[h] \in {hubs[h], Unbound(hubs[h])}
    BY <1>1, <1>3 DEF ResetBind
  <2>2. \A row \in HubRow : Unbound(row).bound = None
    BY DEF Unbound, HubRow
  <2>3. \A h \in Hub : hubs'[h].bound \in {hubs[h].bound, None}
    BY <1>1, <2>1, <2>2
  <2>4. QED
    BY <1>3, <2>3, NothingRemoved DEF ResetBind, IInv
<1>4. ASSUME NEW d \in Dev, Age(d)
      PROVE  NoOrphanBorn
  <2>1. PICK row \in {[devices[d] EXCEPT !.age = "silent"],
                      [devices[d] EXCEPT !.age = "old"]} :
          devices' = [devices EXCEPT ![d] = row]
    BY <1>1, <1>4 DEF Age
  <2>2. row.st = devices[d].st
    BY <1>1, <2>1 DEF DevRow
  <2>3. \A e \in Dev : devices'[e].st = devices[e].st
    BY <1>1, <2>1, <2>2
  <2>4. QED
    BY <1>4, <2>3, NothingRemoved DEF Age, IInv
<1>5. CASE GCCommit
  <2> SUFFICES ASSUME NEW h \in Hub, Orphan(h)'
               PROVE  Orphan(h) /\ hubs'[h].bound = hubs[h].bound
    BY DEF NoOrphanBorn
  <2>1. hubs[h].bound \notin victims /\ hubs'[h] = hubs[h]
    <3>1. CASE hubs[h].bound \in victims
      <4>1. hubs'[h] = Unbound(hubs[h])
        BY <1>5, <3>1 DEF GCCommit
      <4>2. hubs'[h].bound = None
        BY <1>1, <4>1 DEF Unbound, HubRow
      <4>3. QED
        BY <4>2 DEF Orphan
    <3>2. QED
      BY <1>5, <3>1 DEF GCCommit
  <2>2. hubs[h].bound \in Dev
    BY <1>1, <2>1 DEF Orphan, HubRow
  <2>3. devices'[hubs[h].bound] = devices[hubs[h].bound]
    BY <1>5, <2>1, <2>2 DEF GCCommit
  <2>4. QED
    BY <2>1, <2>3 DEF Orphan
<1>6. UNCHANGED <<hubs, devices>> \/ GCCommit
        \/ (\E h \in Hub : ResetBind(h)) \/ (\E d \in Dev : Age(d))
  BY DEF Environment, Sweep, GCSelect, GCFail, MintDeviceToken, RevokeToken, Expire
<1>7. QED
  BY <1>2, <1>3, <1>4, <1>5, <1>6

\* A hub is bound to a device that is live.
LEMMA CommitBearsNone ==
  ASSUME IInv, NEW p \in Proc, NEW d \in Dev,
         CommitBind(p, d) \/ CommitAlloc(p, d)
  PROVE  NoOrphanBorn
<1>1. /\ hubs \in [Hub -> HubRow] /\ devices \in [Dev -> DevRow]
  BY DEF IInv, TypeOK
<1>2. \A h \in Hub : hubs'[h].bound \in {hubs[h].bound, d}
  <2>1. CASE UNCHANGED hubs
    BY <2>1
  <2>2. CASE BindHub(p, d)
    <3>1. PICK g, k : hubs' = [hubs EXCEPT ![g].bound = d, ![g].pubkey = k]
      BY <2>2 DEF BindHub
    <3> TAKE h \in Hub
    <3>2. CASE h = g
      <4>1. hubs'[h] = [hubs[h] EXCEPT !.bound = d, !.pubkey = k]
        BY <1>1, <3>1, <3>2
      <4>2. hubs[h] \in HubRow
        BY <1>1
      <4>3. QED
        BY <4>1, <4>2, BoundRow
    <3>3. CASE h # g
      <4>1. hubs'[h] = hubs[h]
        BY <1>1, <3>1, <3>3
      <4>2. QED
        BY <4>1
    <3>4. QED
      BY <3>2, <3>3
  <2>3. QED
    BY <2>1, <2>2 DEF CommitBind, CommitAlloc
<1>3. devices' = [devices EXCEPT ![d] = NewDevice(p)]
  BY DEF CommitBind, CommitAlloc, InsertDevice
<1>4. devices'[d].st = "live"
  BY <1>1, <1>3 DEF NewDevice
<1>5. \A e \in Dev : e # d => devices'[e] = devices[e]
  BY <1>1, <1>3
<1>6. QED
  BY <1>1, <1>2, <1>4, <1>5 DEF NoOrphanBorn, Orphan, HubRow

\* The request that removes a bound device is the one that will clear the
\* binding.
LEMMA MarkRemovedCleans ==
  ASSUME IInv, OrphanBindingHasCleaner, NEW p \in Proc, MarkRemoved(p)
  PROVE  OrphanBindingHasCleaner'
<1>1. /\ hubs \in [Hub -> HubRow] /\ devices \in [Dev -> DevRow]
      /\ proc \in [Proc -> Request]
  BY DEF IInv, TypeOK
<1>2. OthersStay(p)
  BY StepMovesOne DEF Step
<1>3. CASE UNCHANGED devices
  <2>1. NoOrphanBorn
    BY <1>3 DEF MarkRemoved, NoOrphanBorn, Orphan
  <2>2. QED
    BY <1>2, <2>1, Undisturbed DEF MarkRemoved
<1>4. CASE ~UNCHANGED devices
  <2>1. PICK d \in Dev : /\ d = proc[p].dev /\ devices[d].hub = proc[p].hub
    BY DEF MarkRemoved, IInv, RequestsSound, RequestSound
  <2>2. /\ devices' = [devices EXCEPT ![d].st = "removed"]
        /\ Goto(p, "readHub") /\ UNCHANGED hubs
    BY <1>4, <2>1 DEF MarkRemoved
  <2>3. /\ proc'[p].at = "readHub" /\ proc'[p].dev = d
        /\ proc'[p].hub = devices[d].hub
    <3>1. PICK r : r = [proc[p] EXCEPT !.at = "readHub"]
      OBVIOUS
    <3>2. r.at = "readHub" /\ r.dev = proc[p].dev /\ r.hub = proc[p].hub
      BY <1>1, <3>1 DEF Request
    <3>3. proc' = [proc EXCEPT ![p] = r]
      BY <1>1, <2>2, <3>1 DEF Goto
    <3>4. QED
      BY <1>1, <2>1, <3>2, <3>3
  <2>4. ASSUME NEW h \in Hub, Orphan(h)'
        PROVE  \E q \in Proc : Cleaner(q, h)'
    <3>1. hubs[h].bound \in Dev /\ hubs'[h] = hubs[h]
      BY <1>1, <2>2, <2>4 DEF Orphan, HubRow
    <3>2. CASE hubs[h].bound = d
      <4>1. devices[d].hub = h
        BY <3>1, <3>2, NoneAssumption DEF IInv, TablesInv, BindingAgrees
      <4>2. QED
        BY <2>3, <3>1, <3>2, <4>1 DEF Cleaner
    <3>3. CASE hubs[h].bound # d
      <4>1. devices'[hubs[h].bound] = devices[hubs[h].bound]
        BY <1>1, <2>2, <3>1, <3>3
      <4>2. PICK q \in Proc : Cleaner(q, h)
        BY <2>4, <3>1, <4>1 DEF OrphanBindingHasCleaner, Orphan, Cleaner
      <4>3. proc'[q] = proc[q]
        BY <1>2, <4>2 DEF OthersStay, Cleaner, MarkRemoved
      <4>4. QED
        BY <3>1, <4>2, <4>3 DEF Cleaner
    <3>4. QED
      BY <3>2, <3>3
  <2>5. QED
    BY <2>4 DEF OrphanBindingHasCleaner, Orphan, Cleaner
<1>5. QED
  BY <1>3, <1>4

\* A cleaner that stops has found, or left, the hub not bound to its device.
LEMMA CleanerCleans ==
  ASSUME IInv, OrphanBindingHasCleaner, NEW p \in Proc, ReadHub(p) \/ ClearBind(p)
  PROVE  OrphanBindingHasCleaner'
<1>1. /\ hubs \in [Hub -> HubRow] /\ devices \in [Dev -> DevRow]
      /\ proc \in [Proc -> Request]
  BY DEF IInv, TypeOK
<1>2. OthersStay(p)
  BY StepMovesOne DEF Step
<1>3. \A h \in Hub : hubs'[h].bound \in {hubs[h].bound, None}
  <2> TAKE h \in Hub
  <2>1. hubs'[h] \in {hubs[h], Unbound(hubs[h])}
    BY <1>1 DEF ReadHub, ClearBind
  <2>2. hubs[h] \in HubRow
    BY <1>1
  <2>3. QED
    BY <2>1, <2>2, UnboundRow
<1>4. NoOrphanBorn
  BY <1>3, NothingRemoved DEF ReadHub, ClearBind, IInv
<1>5. ASSUME NEW h \in Hub, Orphan(h)'
      PROVE  \E q \in Proc : Cleaner(q, h)'
  <2>1. Orphan(h) /\ hubs'[h].bound = hubs[h].bound /\ hubs[h].bound # None
    BY <1>4, <1>5 DEF NoOrphanBorn, Orphan
  <2>2. PICK q \in Proc : Cleaner(q, h)
    BY <2>1 DEF OrphanBindingHasCleaner, Orphan, Cleaner
  <2>3. CASE q # p
    BY <1>2, <2>1, <2>2, <2>3 DEF OthersStay, Cleaner
  <2>4. CASE q = p /\ ReadHub(p)
    <3>1. BoundTo(proc[p].hub, proc[p].dev)
      BY <2>1, <2>2, <2>4 DEF BoundTo, Cleaner, IInv, TablesInv, BindingAgrees
    <3>2. Goto(p, "clear")
      BY <2>4, <3>1 DEF ReadHub
    <3>3. PICK r : r = [proc[p] EXCEPT !.at = "clear"]
      OBVIOUS
    <3>4. r.at = "clear" /\ r.dev = proc[p].dev /\ r.hub = proc[p].hub
      BY <1>1, <3>3 DEF Request
    <3>5. proc'[p] = r
      BY <1>1, <3>2, <3>3 DEF Goto
    <3>6. QED
      BY <2>1, <2>2, <2>4, <3>4, <3>5 DEF Cleaner
  <2>5. CASE q = p /\ ClearBind(p)
    <3>1. hubs[h].st = "up"
      BY <2>1 DEF IInv, TablesInv, BindingAgrees
    <3>2. hubs'[h] = Unbound(hubs[h])
      BY <1>1, <2>2, <2>5, <3>1 DEF ClearBind, Cleaner
    <3>3. hubs'[h].bound = None
      BY <1>1, <3>2, UnboundRow
    <3>4. QED
      BY <2>1, <3>3
  <2>6. QED
    BY <2>3, <2>4, <2>5
<1>6. QED
  BY <1>5 DEF OrphanBindingHasCleaner, Orphan, Cleaner

-------------------------------------------------------------------------------

LEMMA NextKeepsCleaner ==
  ASSUME ~Faults, IInv, OrphanBindingHasCleaner, [Next]_vars
  PROVE  OrphanBindingHasCleaner'
<1>1. CASE UNCHANGED vars
  BY <1>1 DEF vars, OrphanBindingHasCleaner
<1>2. ASSUME NEW p \in Proc, Step(p) \/ Arrive(p)
      PROVE  OrphanBindingHasCleaner'
  <2>1. CASE MarkRemoved(p) \/ ReadHub(p) \/ ClearBind(p)
    BY <2>1, MarkRemovedCleans, CleanerCleans
  <2>2. CASE ~(MarkRemoved(p) \/ ReadHub(p) \/ ClearBind(p))
    <3>1. NoOrphanBorn
      BY <1>2, <2>2, OtherStepsBearNone, CommitBearsNone DEF Step
    <3>2. OthersStay(p)
      BY <1>2, StepMovesOne
    <3>3. proc[p].at \notin {"readHub", "clear"}
      BY <1>2, <2>2
         DEF Step, Arrive, CreateHub, InsertHubToken, RegisterSnapshot,
             CommitBind, CommitAlloc, CommitRefresh, SerializationFailure,
             InTransaction, DuplicateKey, RevokeReleased, DeleteHub, Heartbeat,
             TokenRefresh, Begin, Idle, StartMintHub, StartDeleteHub,
             StartRegister, StartRelease, StartLeave, StartRemove,
             StartHeartbeat, StartTokenRefresh
    <3>4. QED
      BY <3>1, <3>2, <3>3, Undisturbed
  <2>3. QED
    BY <2>1, <2>2
<1>3. CASE Environment \/ Sweep \/ GCFail
  <2>1. UNCHANGED proc
    BY <1>3
       DEF Environment, Sweep, GCSelect, GCCommit, GCFail, MintDeviceToken,
           RevokeToken, Expire, ResetBind, Age
  <2>2. QED
    BY <1>3, <2>1, LoneStepsBearNone, NobodyMoves
<1>4. QED
  BY <1>1, <1>2, <1>3 DEF Next, Fail

\* When no handler fails between its statements, a hub is bound to a removed
\* device only while the request that removed it (leave, remove or release) is
\* about to look at the hub or to clear the binding.
THEOREM OrphansAreCleaned ==
  ASSUME ~Faults
  PROVE  Spec => []OrphanBindingHasCleaner
<1>1. Init => OrphanBindingHasCleaner
  BY DEF Init, OrphanBindingHasCleaner
<1>2. IInv /\ OrphanBindingHasCleaner /\ [Next]_vars => OrphanBindingHasCleaner'
  BY NextKeepsCleaner
<1>3. QED
  BY <1>1, <1>2, Invariance, PTL DEF Spec
=============================================================================
