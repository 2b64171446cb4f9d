--------------------------- MODULE Enrollment_proofs ---------------------------
(***************************************************************************)
(* Proofs about Enrollment, for any number of hubs, tokens, devices, keys, *)
(* requests in flight and tunnel addresses, whatever requests are sent.    *)
(***************************************************************************)
EXTENDS Enrollment, TLAPS

-------------------------------------------------------------------------------
(* The inductive invariant.  What a request carries fits where it stands: in *)
(* particular the rows a register transaction saw justified its decision,    *)
(* and nothing is ever removed that was not inserted.                        *)

RequestSound(r) ==
  /\ r.at \in {"begin", "refresh", "bind", "alloc"} =>
       r.tok \in Token /\ r.key \in Key
  /\ r.at \in {"bind", "alloc"} =>
       /\ r.hub \in Hub
       /\ r.idx # 0
       /\ r.idx = HubIndex <=> r.at = "bind"
       /\ r.sawTok \in TokenRow
       /\ r.sawTok.st = "issued"
       /\ r.sawTok.by = None
       /\ ~r.sawTok.revoked
       /\ r.sawTok.role = "hub" <=> r.at = "bind"
  /\ r.at = "bind" => r.sawHub \in HubRow /\ r.sawHub.bound = None
  /\ r.at \in {"mark", "readHub", "clear", "beat", "rotate"} =>
       r.dev \in Dev /\ devices[r.dev].st # "none"
  /\ r.at \in {"mark", "readHub", "clear", "create", "mint", "delete"} =>
       r.hub \in Hub
  /\ r.at \in {"mark", "readHub", "clear"} => devices[r.dev].hub = r.hub
  /\ r.at = "revoke" => r.tok \in Token

RequestsSound == \A p \in Proc : RequestSound(proc[p])

RowsSound ==
  /\ \A d \in Dev : devices[d].st # "none" =>
       devices[d].hub \in Hub /\ devices[d].key \in Key /\ devices[d].idx # 0
  /\ \A t \in Token : tokens[t].by # None =>
       tokens[t].st = "issued" /\ devices[tokens[t].by].st # "none"

TablesInv == RowsSound /\ TokenSingleUse /\ BindingAgrees /\ SeatsExclusive

IInv == TypeOK /\ RequestsSound /\ TablesInv

Rows == <<hubs, tokens, devices>>

-------------------------------------------------------------------------------

LEMMA InitIInv == Init => IInv
<1> SUFFICES ASSUME Init PROVE IInv
  OBVIOUS
<1> USE NoneAssumption, MaxIndexAssumption DEF Init
<1>1. TypeOK
  BY DEF TypeOK, HubRow, TokenRow, DevRow, Request, NoRequest
<1>2. RequestsSound
  BY DEF RequestsSound, RequestSound, NoRequest
<1>3. TablesInv
  BY DEF TablesInv, RowsSound, TokenSingleUse, BindingAgrees, SeatsExclusive, Live
<1>4. QED
  BY <1>1, <1>2, <1>3 DEF IInv

\* The table part of the invariant does not depend on the requests in flight.
LEMMA RowsUnchanged ==
  ASSUME TablesInv, UNCHANGED Rows
  PROVE  TablesInv'
BY DEF TablesInv, Rows, RowsSound, TokenSingleUse, BindingAgrees, SeatsExclusive, Live

\* A step that moves one request and keeps the rows it points to.
LEMMA MoveRequest ==
  ASSUME TypeOK, RequestsSound,
         NEW p \in Proc, NEW r \in Request, RequestSound(r)',
         proc' = [proc EXCEPT ![p] = r],
         \A d \in Dev : devices[d].st # "none" =>
           devices'[d].st # "none" /\ devices'[d].hub = devices[d].hub
  PROVE  proc' \in [Proc -> Request] /\ RequestsSound'
<1>1. proc' \in [Proc -> Request]
  BY DEF TypeOK
<1>2. ASSUME NEW q \in Proc PROVE RequestSound(proc[q])'
  <2>1. CASE q = p
    BY <2>1 DEF TypeOK
  <2>2. CASE q # p
    <3>1. proc'[q] = proc[q] /\ RequestSound(proc[q])
      BY <2>2 DEF TypeOK, RequestsSound
    <3>2. QED
      BY <3>1 DEF RequestSound
  <2>3. QED
    BY <2>1, <2>2
<1>3. QED
  BY <1>1, <1>2 DEF RequestsSound

\* The same for a step that moves no request.
LEMMA KeepRequests ==
  ASSUME RequestsSound, UNCHANGED proc,
         \A d \in Dev : devices[d].st # "none" =>
           devices'[d].st # "none" /\ devices'[d].hub = devices[d].hub
  PROVE  RequestsSound'
BY DEF RequestsSound, RequestSound

LEMMA AnswerSound ==
  NoRequest \in Request /\ RequestSound(NoRequest) /\ RequestSound(NoRequest)'
<1>1. NoRequest \in Request
  BY MaxIndexAssumption DEF NoRequest, Request
<1>2. NoRequest.at = "idle"
  BY DEF NoRequest
<1>3. RequestSound(NoRequest) /\ RequestSound(NoRequest)'
  BY <1>2 DEF RequestSound
<1>4. QED
  BY <1>1, <1>3

\* A step that changes no row, only one request.
LEMMA ReadStep ==
  ASSUME IInv, NEW p \in Proc, NEW r \in Request, RequestSound(r),
         proc' = [proc EXCEPT ![p] = r], UNCHANGED Rows, victims' \subseteq Dev
  PROVE  IInv'
<1>1. RequestSound(r)'
  BY DEF RequestSound, Rows
<1>2. proc' \in [Proc -> Request] /\ RequestsSound'
  BY <1>1, MoveRequest DEF IInv, Rows
<1>3. TablesInv'
  BY RowsUnchanged DEF IInv
<1>4. QED
  BY <1>2, <1>3 DEF IInv, TypeOK, Rows

\* What the removals do with the request when they are through.
LEMMA AfterRemovalSound ==
  ASSUME IInv, NEW p \in Proc, AfterRemoval(p)
  PROVE  \E r \in Request : /\ proc' = [proc EXCEPT ![p] = r]
                            /\ RequestSound(r) /\ RequestSound(r)'
<1>1. CASE Answer(p)
  BY <1>1, AnswerSound DEF Answer
<1>2. CASE proc[p].tok # None /\ Goto(p, "revoke")
  <2>1. proc[p] \in Request
    BY DEF IInv, TypeOK
  <2>2. PICK r : r = [proc[p] EXCEPT !.at = "revoke"]
    OBVIOUS
  <2>3. r \in Request /\ r.at = "revoke" /\ r.tok \in Token
    BY <1>2, <2>1, <2>2 DEF Request
  <2>4. proc' = [proc EXCEPT ![p] = r]
    BY <1>2, <2>2 DEF Goto
  <2>5. RequestSound(r) /\ RequestSound(r)'
    BY <2>3 DEF RequestSound
  <2>6. QED
    BY <2>3, <2>4, <2>5
<1>3. QED
  BY <1>1, <1>2 DEF AfterRemoval

-------------------------------------------------------------------------------
(* Requests that arrive.                                                     *)

\* The removals' first step knows a row and the hub it belongs to.
LEMMA RemovalSound ==
  ASSUME IInv, NEW d \in Dev, devices[d].st # "none"
  PROVE  /\ Removal(d) \in Request /\ RequestSound(Removal(d))
         /\ Removal(d).at = "mark" /\ Removal(d).dev = d
         /\ Removal(d).hub = devices[d].hub /\ devices[d].hub \in Hub
<1>1. devices[d].hub \in Hub
  BY DEF IInv, TablesInv, RowsSound
<1>2. Removal(d) \in Request
  BY <1>1, AnswerSound DEF Removal, Request
<1>3. Removal(d).at = "mark" /\ Removal(d).dev = d /\ Removal(d).hub = devices[d].hub
  BY DEF Removal, NoRequest
<1>4. RequestSound(Removal(d))
  BY <1>1, <1>3 DEF RequestSound
<1>5. QED
  BY <1>1, <1>2, <1>3, <1>4

LEMMA ArriveIInv ==
  ASSUME IInv, NEW p \in Proc, Arrive(p)
  PROVE  IInv'
<1>1. SUFFICES ASSUME UNCHANGED Rows, victims' \subseteq Dev
               PROVE  \E r \in Request : /\ RequestSound(r)
                                         /\ proc' = [proc EXCEPT ![p] = r]
  <2>1. UNCHANGED Rows /\ UNCHANGED victims
    BY DEF Arrive, Rows, StartMintHub, StartDeleteHub, StartRegister,
           StartRelease, StartLeave, StartRemove, StartHeartbeat,
           StartTokenRefresh
  <2>2. QED
    BY <2>1, ReadStep DEF IInv, TypeOK
<1>2. ASSUME NEW h \in Hub, StartMintHub(p, h) \/ StartDeleteHub(p, h)
      PROVE  \E r \in Request : RequestSound(r) /\ proc' = [proc EXCEPT ![p] = r]
  <2>1. PICK a \in {"mint", "create", "delete"} :
          proc' = [proc EXCEPT ![p] = [NoRequest EXCEPT !.at = a, !.hub = h]]
    BY <1>2 DEF StartMintHub, StartDeleteHub, Begin
  <2>2. PICK r : r = [NoRequest EXCEPT !.at = a, !.hub = h]
    OBVIOUS
  <2>3. r \in Request
    BY <2>2, AnswerSound DEF Request
  <2>4. r.at = a /\ r.hub = h
    BY <2>2 DEF NoRequest
  <2>5. RequestSound(r)
    BY <2>4 DEF RequestSound
  <2>6. QED
    BY <2>1, <2>2, <2>3, <2>5
<1>3. ASSUME NEW t \in Token, NEW k \in Key, StartRegister(p, t, k)
      PROVE  \E r \in Request : RequestSound(r) /\ proc' = [proc EXCEPT ![p] = r]
  <2>1. PICK r : r = [NoRequest EXCEPT !.at = "begin", !.tok = t, !.key = k,
                                       !.attempt = 1]
    OBVIOUS
  <2>2. r \in Request
    <3>1. [NoRequest EXCEPT !.at = "begin", !.tok = t] \in Request
      BY AnswerSound DEF Request
    <3>2. \A q \in Request : [q EXCEPT !.key = k] \in Request
      BY DEF Request
    <3>3. \A q \in Request : [q EXCEPT !.attempt = 1] \in Request
      <4>1. 1 \in 0..2
        OBVIOUS
      <4>2. QED
        BY <4>1 DEF Request
    <3>4. QED
      BY <2>1, <3>1, <3>2, <3>3, Zenon
  <2>3. r.at = "begin" /\ r.tok = t /\ r.key = k
    BY <2>1 DEF NoRequest
  <2>4. RequestSound(r)
    BY <2>3 DEF RequestSound
  <2>5. QED
    <3>1. proc' = [proc EXCEPT ![p] = r]
      BY <1>3, <2>1 DEF StartRegister, Begin
    <3>2. QED
      BY <2>2, <2>4, <3>1
<1>4. ASSUME NEW t \in Token, StartRelease(p, t)
      PROVE  \E r \in Request : RequestSound(r) /\ proc' = [proc EXCEPT ![p] = r]
  <2> DEFINE d == tokens[t].by
  <2>1. tokens[t] \in TokenRow /\ d \in Dev \cup {None}
    BY DEF IInv, TypeOK, TokenRow
  <2>2. CASE /\ d # None /\ Live(d)
             /\ Begin(p, [Removal(d) EXCEPT !.tok = t, !.sawTok = tokens[t]])
    <3>1. PICK r : r = [Removal(d) EXCEPT !.tok = t, !.sawTok = tokens[t]]
      OBVIOUS
    <3>2. d \in Dev /\ devices[d].st # "none"
      BY <2>1, <2>2 DEF Live
    <3>3. Removal(d) \in Request
      BY <3>2, RemovalSound
    <3>4. r \in Request
      BY <2>1, <3>1, <3>3 DEF Request
    <3>5. r.at = "mark" /\ r.dev = d /\ r.hub = devices[d].hub
      BY <3>1, <3>2, RemovalSound DEF Request
    <3>6. RequestSound(r)
      BY <3>2, <3>5, RemovalSound DEF RequestSound
    <3>7. QED
      BY <2>2, <3>1, <3>4, <3>6 DEF Begin
  <2>3. CASE Begin(p, [NoRequest EXCEPT !.at = "revoke", !.tok = t,
                                        !.sawTok = tokens[t]])
    <3>1. PICK r : r = [NoRequest EXCEPT !.at = "revoke", !.tok = t,
                                         !.sawTok = tokens[t]]
      OBVIOUS
    <3>2. r \in Request
      BY <2>1, <3>1, AnswerSound DEF Request
    <3>3. r.at = "revoke" /\ r.tok = t
      BY <3>1 DEF NoRequest
    <3>4. RequestSound(r)
      BY <3>3 DEF RequestSound
    <3>5. QED
      BY <2>3, <3>1, <3>2, <3>4 DEF Begin
  <2>4. QED
    BY <1>4, <2>2, <2>3 DEF StartRelease
<1>5. ASSUME NEW d \in Dev, StartLeave(p, d) \/ StartRemove(p, d)
      PROVE  \E r \in Request : RequestSound(r) /\ proc' = [proc EXCEPT ![p] = r]
  <2>1. devices[d].st # "none" /\ Begin(p, Removal(d))
    BY <1>5 DEF StartLeave, StartRemove, Authentic, Live
  <2>2. QED
    BY <2>1, RemovalSound DEF Begin
<1>6. ASSUME NEW d \in Dev, StartHeartbeat(p, d) \/ StartTokenRefresh(p, d)
      PROVE  \E r \in Request : RequestSound(r) /\ proc' = [proc EXCEPT ![p] = r]
  <2>1. PICK a \in {"beat", "rotate"} :
          proc' = [proc EXCEPT ![p] = [NoRequest EXCEPT !.at = a, !.dev = d]]
    BY <1>6 DEF StartHeartbeat, StartTokenRefresh, Begin
  <2>2. PICK r : r = [NoRequest EXCEPT !.at = a, !.dev = d]
    OBVIOUS
  <2>3. r \in Request
    BY <2>2, AnswerSound DEF Request
  <2>4. r.at = a /\ r.dev = d /\ devices[d].st # "none"
    BY <1>6, <2>2 DEF NoRequest, StartHeartbeat, StartTokenRefresh, Authentic, Live
  <2>5. RequestSound(r)
    BY <2>4 DEF RequestSound
  <2>6. QED
    BY <2>1, <2>2, <2>3, <2>5
<1>7. QED
  BY <1>2, <1>3, <1>4, <1>5, <1>6 DEF Arrive

-------------------------------------------------------------------------------
(* Writes.                                                                   *)

\* No row returns to "never inserted" and no device changes its hub.
DevicesPersist ==
  \A d \in Dev : devices[d].st # "none" =>
    devices'[d].st # "none" /\ devices'[d].hub = devices[d].hub

TablesTyped ==
  /\ hubs \in [Hub -> HubRow]
  /\ tokens \in [Token -> TokenRow]
  /\ devices \in [Dev -> DevRow]

\* A write by a request and by nobody's request.
LEMMA WriteStep ==
  ASSUME IInv, NEW p \in Proc, NEW r \in Request, RequestSound(r)',
         proc' = [proc EXCEPT ![p] = r], victims' \subseteq Dev,
         TablesTyped', TablesInv', DevicesPersist
  PROVE  IInv'
<1>1. proc' \in [Proc -> Request] /\ RequestsSound'
  BY MoveRequest DEF IInv, DevicesPersist
<1>2. QED
  BY <1>1 DEF IInv, TypeOK, TablesTyped

LEMMA AnsweredWrite ==
  ASSUME IInv, NEW p \in Proc, Answer(p), victims' \subseteq Dev,
         TablesTyped', TablesInv', DevicesPersist
  PROVE  IInv'
BY AnswerSound, WriteStep DEF Answer

LEMMA LoneWrite ==
  ASSUME IInv, UNCHANGED proc, victims' \subseteq Dev,
         TablesTyped', TablesInv', DevicesPersist
  PROVE  IInv'
<1>1. RequestsSound'
  BY KeepRequests DEF IInv, DevicesPersist
<1>2. QED
  BY <1>1 DEF IInv, TypeOK, TablesTyped

\* Writing a token row that keeps its consumer, and its role if it has one.
LEMMA TokenWrite ==
  ASSUME IInv, NEW t \in Token, NEW row \in TokenRow,
         tokens' = [tokens EXCEPT ![t] = row], UNCHANGED <<hubs, devices>>,
         row.by = tokens[t].by,
         row.by # None => row.role = tokens[t].role /\ row.st = "issued"
  PROVE  TablesTyped' /\ TablesInv' /\ DevicesPersist
<1>1. TablesTyped' /\ DevicesPersist
  BY DEF IInv, TypeOK, TablesTyped, DevicesPersist
<1>2. \A u \in Token : /\ tokens'[u].by = tokens[u].by
                       /\ tokens[u].by # None =>
                            /\ tokens'[u].role = tokens[u].role
                            /\ tokens[u].st = "issued" => tokens'[u].st = "issued"
  BY DEF IInv, TypeOK
<1>3. RowsSound'
  BY <1>2 DEF IInv, TablesInv, RowsSound
<1>4. TokenSingleUse'
  <2>1. \A d \in Dev : d # None
    BY NoneAssumption
  <2>2. QED
    BY <1>2, <2>1 DEF IInv, TablesInv, TokenSingleUse
<1>5. BindingAgrees' /\ SeatsExclusive'
  BY DEF IInv, TablesInv, BindingAgrees, SeatsExclusive, Live
<1>6. QED
  BY <1>1, <1>3, <1>4, <1>5 DEF TablesInv

\* Hubs that stay as they are or lose their binding, devices that stay where
\* they are or are removed.
LEMMA HubDeviceWrite ==
  ASSUME IInv, UNCHANGED tokens,
         hubs' \in [Hub -> HubRow], devices' \in [Dev -> DevRow],
         \A h \in Hub : \/ hubs'[h] = hubs[h]
                        \/ hubs'[h].bound = None /\ hubs'[h].pubkey = None,
         \A d \in Dev : /\ devices'[d].hub = devices[d].hub
                        /\ devices'[d].idx = devices[d].idx
                        /\ devices'[d].key = devices[d].key
                        /\ \/ devices'[d].st = devices[d].st
                           \/ /\ devices[d].st \in {"live", "removed"}
                              /\ devices'[d].st = "removed"
  PROVE  TablesTyped' /\ TablesInv' /\ DevicesPersist
<1>1. TablesTyped' /\ DevicesPersist
  BY DEF IInv, TypeOK, TablesTyped, DevicesPersist
<1>2. RowsSound'
  <2>1. \A t \in Token : tokens[t].by # None => tokens[t].by \in Dev
    BY DEF IInv, TypeOK, TokenRow
  <2>2. QED
    BY <2>1 DEF IInv, TablesInv, RowsSound
<1>3. TokenSingleUse'
  BY DEF IInv, TablesInv, TokenSingleUse
<1>4. BindingAgrees'
  <2> SUFFICES ASSUME NEW h \in Hub
               PROVE  LET d == hubs'[h].bound IN
                      /\ d = None <=> hubs'[h].pubkey = None
                      /\ d # None => /\ hubs'[h].st = "up"
                                     /\ devices'[d].st \in {"live", "removed"}
                                     /\ devices'[d].hub = h
                                     /\ devices'[d].idx = HubIndex
                                     /\ devices'[d].key = hubs'[h].pubkey
    BY DEF BindingAgrees
  <2>1. CASE hubs'[h] = hubs[h]
    <3>1. hubs[h].bound # None => hubs[h].bound \in Dev
      BY DEF IInv, TypeOK, HubRow
    <3>2. QED
      BY <2>1, <3>1 DEF IInv, TablesInv, BindingAgrees
  <2>2. QED
    BY <2>1
<1>5. SeatsExclusive'
  <2>1. \A d \in Dev : Live(d)' => Live(d)
    BY DEF Live
  <2>2. QED
    BY <2>1 DEF IInv, TablesInv, SeatsExclusive
<1>6. QED
  BY <1>1, <1>2, <1>3, <1>4, <1>5 DEF TablesInv

-------------------------------------------------------------------------------
(* One lemma per action.                                                     *)

LEMMA MintDeviceTokenIInv ==
  ASSUME IInv, NEW t \in Token, NEW h \in Hub, MintDeviceToken(t, h)
  PROVE  IInv'
<1>1. PICK row : row = [tokens[t] EXCEPT !.st = "issued", !.role = "device",
                                         !.hub = h]
  OBVIOUS
<1>2. tokens[t] \in TokenRow /\ tokens \in [Token -> TokenRow]
  BY DEF IInv, TypeOK
<1>3. tokens[t].by = None
  BY DEF MintDeviceToken, IInv, TablesInv, RowsSound
<1>4. row \in TokenRow /\ row.by = None
  BY <1>1, <1>2, <1>3 DEF TokenRow
<1>5. tokens' = [tokens EXCEPT ![t] = row]
  BY <1>1, <1>2 DEF MintDeviceToken
<1>6. TablesTyped' /\ TablesInv' /\ DevicesPersist
  BY <1>3, <1>4, <1>5, TokenWrite DEF MintDeviceToken
<1>7. QED
  BY <1>6, LoneWrite DEF MintDeviceToken, IInv, TypeOK

LEMMA RevokeTokenIInv ==
  ASSUME IInv, NEW t \in Token, RevokeToken(t) \/ Expire(t)
  PROVE  IInv'
<1>1. PICK row \in {[tokens[t] EXCEPT !.revoked = TRUE],
                    [tokens[t] EXCEPT !.expired = TRUE]} :
        tokens' = [tokens EXCEPT ![t] = row]
  BY DEF RevokeToken, Expire, IInv, TypeOK
<1>2. tokens[t] \in TokenRow /\ tokens[t].st = "issued"
  BY DEF IInv, TypeOK, RevokeToken, Expire
<1>3. /\ row \in TokenRow /\ row.by = tokens[t].by
      /\ row.role = tokens[t].role /\ row.st = "issued"
  BY <1>1, <1>2 DEF TokenRow
<1>4. UNCHANGED <<hubs, devices, proc, victims>>
  BY DEF RevokeToken, Expire
<1>5. TablesTyped' /\ TablesInv' /\ DevicesPersist
  BY <1>1, <1>3, <1>4, TokenWrite
<1>6. QED
  BY <1>4, <1>5, LoneWrite DEF IInv, TypeOK

LEMMA InsertHubTokenIInv ==
  ASSUME IInv, NEW p \in Proc, InsertHubToken(p)
  PROVE  IInv'
<1> DEFINE h == proc[p].hub
<1>1. CASE UNCHANGED tokens
  <2>1. Answer(p) /\ UNCHANGED Rows /\ UNCHANGED victims
    BY <1>1 DEF InsertHubToken, Rows
  <2>2. QED
    BY <2>1, AnswerSound, ReadStep DEF Answer, IInv, TypeOK
<1>2. ASSUME NEW t \in Token, tokens[t].st = "none",
             tokens' = [tokens EXCEPT ![t].st = "issued", ![t].role = "hub",
                                      ![t].hub = h]
      PROVE  IInv'
  <2>1. h \in Hub
    BY DEF InsertHubToken, IInv, RequestsSound, RequestSound
  <2>2. PICK row : row = [tokens[t] EXCEPT !.st = "issued", !.role = "hub",
                                           !.hub = h]
    OBVIOUS
  <2>3. tokens[t] \in TokenRow /\ tokens \in [Token -> TokenRow]
    BY DEF IInv, TypeOK
  <2>4. tokens[t].by = None
    BY <1>2 DEF IInv, TablesInv, RowsSound
  <2>5. row \in TokenRow /\ row.by = None
    BY <2>1, <2>2, <2>3, <2>4 DEF TokenRow
  <2>6. tokens' = [tokens EXCEPT ![t] = row]
    BY <1>2, <2>2, <2>3
  <2>7. TablesTyped' /\ TablesInv' /\ DevicesPersist
    BY <2>4, <2>5, <2>6, TokenWrite DEF InsertHubToken
  <2>8. QED
    BY <2>7, AnsweredWrite DEF InsertHubToken, IInv, TypeOK
<1>3. QED
  BY <1>1, <1>2 DEF InsertHubToken

LEMMA RevokeReleasedIInv ==
  ASSUME IInv, NEW p \in Proc, RevokeReleased(p)
  PROVE  IInv'
<1>1. PICK t \in Token : t = proc[p].tok
  BY DEF RevokeReleased, IInv, RequestsSound, RequestSound
<1>2. PICK row : row = [tokens[t] EXCEPT !.revoked = TRUE]
  OBVIOUS
<1>3. tokens[t] \in TokenRow /\ tokens \in [Token -> TokenRow]
  BY DEF IInv, TypeOK
<1>4. tokens' = [tokens EXCEPT ![t] = row]
  BY <1>1, <1>2, <1>3 DEF RevokeReleased
<1>5. tokens[t].by # None => tokens[t].st = "issued"
  BY DEF IInv, TablesInv, RowsSound
<1>6. /\ row \in TokenRow /\ row.by = tokens[t].by
      /\ row.role = tokens[t].role /\ row.st = tokens[t].st
  BY <1>2, <1>3 DEF TokenRow
<1>7. TablesTyped' /\ TablesInv' /\ DevicesPersist
  BY <1>4, <1>5, <1>6, TokenWrite DEF RevokeReleased
<1>8. QED
  BY <1>7, AnsweredWrite DEF RevokeReleased, IInv, TypeOK

LEMMA ResetBindIInv ==
  ASSUME IInv, NEW h \in Hub, ResetBind(h)
  PROVE  IInv'
<1>1. hubs[h] \in HubRow
  BY DEF IInv, TypeOK
<1>2. Unbound(hubs[h]) \in HubRow
  BY <1>1 DEF Unbound, HubRow
<1>3. Unbound(hubs[h]).bound = None /\ Unbound(hubs[h]).pubkey = None
  BY <1>1 DEF Unbound, HubRow
<1>4. hubs' = [hubs EXCEPT ![h] = Unbound(hubs[h])]
  BY DEF ResetBind
<1>5. hubs' \in [Hub -> HubRow]
  BY <1>2, <1>4 DEF IInv, TypeOK
<1>6. \A g \in Hub : \/ hubs'[g] = hubs[g]
                     \/ hubs'[g].bound = None /\ hubs'[g].pubkey = None
  BY <1>3, <1>4 DEF IInv, TypeOK
<1>7. TablesTyped' /\ TablesInv' /\ DevicesPersist
  BY <1>5, <1>6, HubDeviceWrite DEF ResetBind, IInv, TypeOK
<1>8. QED
  BY <1>7, LoneWrite DEF ResetBind, IInv, TypeOK

LEMMA CreateHubIInv ==
  ASSUME IInv, NEW p \in Proc, CreateHub(p)
  PROVE  IInv'
<1>1. CASE Answer(p) /\ UNCHANGED hubs
  BY <1>1, AnswerSound, ReadStep DEF Answer, CreateHub, Rows, IInv, TypeOK
<1>2. CASE /\ hubs[proc[p].hub].st = "none" /\ Goto(p, "mint")
           /\ hubs' = [hubs EXCEPT ![proc[p].hub].st = "up"]
  <2>1. PICK h \in Hub : h = proc[p].hub
    BY DEF CreateHub, IInv, RequestsSound, RequestSound
  <2>2. PICK row : row = [hubs[h] EXCEPT !.st = "up"]
    OBVIOUS
  <2>3. hubs[h] \in HubRow /\ hubs \in [Hub -> HubRow]
    BY DEF IInv, TypeOK
  <2>4. hubs[h].bound = None /\ hubs[h].pubkey = None
    BY <1>2, <2>1 DEF IInv, TablesInv, BindingAgrees
  <2>5. row \in HubRow /\ row.bound = None /\ row.pubkey = None
    BY <2>2, <2>3, <2>4 DEF HubRow
  <2>6. hubs' = [hubs EXCEPT ![h] = row]
    BY <1>2, <2>1, <2>2, <2>3
  <2>7. TablesTyped' /\ TablesInv' /\ DevicesPersist
    BY <2>3, <2>5, <2>6, HubDeviceWrite DEF CreateHub, IInv, TypeOK
  <2>8. PICK r \in Request : /\ proc' = [proc EXCEPT ![p] = r]
                             /\ r.at = "mint" /\ r.hub = h
    <3>1. proc[p] \in Request /\ proc \in [Proc -> Request]
      BY DEF IInv, TypeOK
    <3>2. PICK r : r = [proc[p] EXCEPT !.at = "mint"]
      OBVIOUS
    <3>3. r \in Request /\ r.at = "mint" /\ r.hub = h
      BY <2>1, <3>1, <3>2 DEF Request
    <3>4. proc' = [proc EXCEPT ![p] = r]
      BY <1>2, <3>1, <3>2 DEF Goto
    <3>5. QED
      BY <3>3, <3>4
  <2>9. RequestSound(r)'
    BY <2>1, <2>8 DEF RequestSound
  <2>10. QED
    BY <2>7, <2>8, <2>9, WriteStep DEF CreateHub, IInv, TypeOK
<1>3. QED
  BY <1>1, <1>2 DEF CreateHub

\* The second and third statement of a removal.
LEMMA ReadHubIInv ==
  ASSUME IInv, NEW p \in Proc, ReadHub(p)
  PROVE  IInv'
<1>1. UNCHANGED Rows /\ victims' \subseteq Dev
  BY DEF ReadHub, Rows, IInv, TypeOK
<1>2. CASE AfterRemoval(p)
  BY <1>1, <1>2, AfterRemovalSound, ReadStep
<1>3. CASE Goto(p, "clear")
  <2>1. proc[p] \in Request /\ proc \in [Proc -> Request] /\ RequestSound(proc[p])
    BY DEF IInv, TypeOK, RequestsSound
  <2>2. PICK r : r = [proc[p] EXCEPT !.at = "clear"]
    OBVIOUS
  <2>3. r \in Request /\ r.at = "clear" /\ r.dev = proc[p].dev /\ r.hub = proc[p].hub
    BY <2>1, <2>2 DEF Request
  <2>4. RequestSound(r)
    BY <2>1, <2>3 DEF ReadHub, RequestSound
  <2>5. proc' = [proc EXCEPT ![p] = r]
    BY <1>3, <2>1, <2>2 DEF Goto
  <2>6. QED
    BY <1>1, <2>3, <2>4, <2>5, ReadStep
<1>4. QED
  BY <1>2, <1>3 DEF ReadHub

LEMMA ClearBindIInv ==
  ASSUME IInv, NEW p \in Proc, ClearBind(p)
  PROVE  IInv'
<1>1. PICK h \in Hub : h = proc[p].hub
  BY DEF ClearBind, IInv, RequestsSound, RequestSound
<1>2. PICK row : row = IF hubs[h].st = "up" THEN Unbound(hubs[h]) ELSE hubs[h]
  OBVIOUS
<1>3. hubs[h] \in HubRow /\ hubs \in [Hub -> HubRow]
  BY DEF IInv, TypeOK
<1>4. /\ row \in HubRow
      /\ \/ row = hubs[h]
         \/ row.bound = None /\ row.pubkey = None
  BY <1>2, <1>3 DEF Unbound, HubRow
<1>5. hubs' = [hubs EXCEPT ![h] = row]
  BY <1>1, <1>2, <1>3 DEF ClearBind
<1>6. TablesTyped' /\ TablesInv' /\ DevicesPersist
  BY <1>3, <1>4, <1>5, HubDeviceWrite DEF ClearBind, IInv, TypeOK
<1>7. PICK r \in Request : proc' = [proc EXCEPT ![p] = r] /\ RequestSound(r)'
  BY AfterRemovalSound DEF ClearBind
<1>8. victims' \subseteq Dev
  BY DEF ClearBind, IInv, TypeOK
<1>9. QED
  BY <1>6, <1>7, <1>8, WriteStep

\* Writes to one device row that leave its seat alone, or remove it.
LEMMA DeviceWrite ==
  ASSUME IInv, NEW d \in Dev, NEW row \in DevRow,
         devices' = [devices EXCEPT ![d] = row], UNCHANGED <<hubs, tokens>>,
         row.hub = devices[d].hub, row.idx = devices[d].idx,
         row.key = devices[d].key,
         \/ row.st = devices[d].st
         \/ devices[d].st \in {"live", "removed"} /\ row.st = "removed"
  PROVE  TablesTyped' /\ TablesInv' /\ DevicesPersist
<1>1. devices' \in [Dev -> DevRow] /\ devices \in [Dev -> DevRow]
  BY DEF IInv, TypeOK
<1>2. \A e \in Dev : /\ devices'[e].hub = devices[e].hub
                     /\ devices'[e].idx = devices[e].idx
                     /\ devices'[e].key = devices[e].key
                     /\ \/ devices'[e].st = devices[e].st
                        \/ /\ devices[e].st \in {"live", "removed"}
                           /\ devices'[e].st = "removed"
  BY <1>1
<1>3. hubs' \in [Hub -> HubRow]
  BY DEF IInv, TypeOK
<1>4. QED
  BY <1>1, <1>2, <1>3, HubDeviceWrite

LEMMA MarkRemovedIInv ==
  ASSUME IInv, NEW p \in Proc, MarkRemoved(p)
  PROVE  IInv'
<1>1. PICK d \in Dev : d = proc[p].dev /\ devices[d].st # "none"
  BY DEF MarkRemoved, IInv, RequestsSound, RequestSound
<1>2. devices[d] \in DevRow /\ devices \in [Dev -> DevRow]
  BY DEF IInv, TypeOK
<1>3. CASE Answer(p) /\ UNCHANGED devices
  BY <1>3, AnswerSound, ReadStep DEF Answer, MarkRemoved, Rows, IInv, TypeOK
<1>4. CASE /\ devices[d].st # "gone" /\ Goto(p, "readHub")
           /\ devices' = [devices EXCEPT ![d].st = "removed"]
  <2>1. PICK row : row = [devices[d] EXCEPT !.st = "removed"]
    OBVIOUS
  <2>2. /\ row \in DevRow /\ row.st = "removed" /\ row.hub = devices[d].hub
        /\ row.idx = devices[d].idx /\ row.key = devices[d].key
    BY <1>2, <2>1 DEF DevRow
  <2>3. devices[d].st \in {"live", "removed"}
    BY <1>1, <1>2, <1>4 DEF DevRow
  <2>4. devices' = [devices EXCEPT ![d] = row]
    BY <1>2, <1>4, <2>1
  <2>5. TablesTyped' /\ TablesInv' /\ DevicesPersist
    BY <2>2, <2>3, <2>4, DeviceWrite DEF MarkRemoved
  <2>6. proc[p] \in Request /\ proc \in [Proc -> Request] /\ RequestSound(proc[p])
    BY DEF IInv, TypeOK, RequestsSound
  <2>7. PICK r : r = [proc[p] EXCEPT !.at = "readHub"]
    OBVIOUS
  <2>8. r \in Request /\ r.at = "readHub" /\ r.dev = d /\ r.hub = proc[p].hub
    BY <1>1, <2>6, <2>7 DEF Request
  <2>9. r.hub \in Hub /\ devices[d].hub = r.hub
    BY <1>1, <2>6, <2>8 DEF MarkRemoved, RequestSound
  <2>10. RequestSound(r)'
    BY <1>1, <2>5, <2>8, <2>9 DEF RequestSound, DevicesPersist
  <2>11. proc' = [proc EXCEPT ![p] = r]
    BY <1>4, <2>6, <2>7 DEF Goto
  <2>12. QED
    BY <2>5, <2>8, <2>10, <2>11, WriteStep DEF MarkRemoved, IInv, TypeOK
<1>5. QED
  BY <1>1, <1>3, <1>4 DEF MarkRemoved

LEMMA HeartbeatIInv ==
  ASSUME IInv, NEW p \in Proc, Heartbeat(p) \/ TokenRefresh(p)
  PROVE  IInv'
<1>1. PICK d \in Dev : d = proc[p].dev
  BY DEF Heartbeat, TokenRefresh, IInv, RequestsSound, RequestSound
<1>2. devices[d] \in DevRow /\ devices \in [Dev -> DevRow]
  BY DEF IInv, TypeOK
<1>3. PICK row \in {devices[d], [devices[d] EXCEPT !.age = "recent"],
                    [devices[d] EXCEPT !.hash = None]} :
        devices' = [devices EXCEPT ![d] = row]
  BY <1>1, <1>2 DEF Heartbeat, TokenRefresh
<1>4. /\ row \in DevRow /\ row.st = devices[d].st /\ row.hub = devices[d].hub
      /\ row.idx = devices[d].idx /\ row.key = devices[d].key
  BY <1>2, <1>3 DEF DevRow
<1>5. TablesTyped' /\ TablesInv' /\ DevicesPersist
  BY <1>3, <1>4, DeviceWrite DEF Heartbeat, TokenRefresh
<1>6. QED
  BY <1>5, AnsweredWrite DEF Heartbeat, TokenRefresh, IInv, TypeOK

LEMMA AgeIInv ==
  ASSUME IInv, NEW d \in Dev, Age(d)
  PROVE  IInv'
<1>1. devices[d] \in DevRow /\ devices \in [Dev -> DevRow]
  BY DEF IInv, TypeOK
<1>2. PICK row \in {[devices[d] EXCEPT !.age = "silent"],
                    [devices[d] EXCEPT !.age = "old"]} :
        devices' = [devices EXCEPT ![d] = row]
  BY <1>1 DEF Age
<1>3. /\ row \in DevRow /\ row.st = devices[d].st /\ row.hub = devices[d].hub
      /\ row.idx = devices[d].idx /\ row.key = devices[d].key
  BY <1>1, <1>2 DEF DevRow
<1>4. TablesTyped' /\ TablesInv' /\ DevicesPersist
  BY <1>2, <1>3, DeviceWrite DEF Age
<1>5. QED
  BY <1>4, LoneWrite DEF Age, IInv, TypeOK

LEMMA SweepIInv ==
  ASSUME IInv, GCSelect \/ GCCommit \/ GCFail
  PROVE  IInv'
<1>1. CASE GCSelect \/ GCFail
  <2>1. UNCHANGED Rows /\ UNCHANGED proc /\ victims' \subseteq Dev
    BY <1>1 DEF GCSelect, GCFail, Rows, Stale
  <2>2. TablesInv' /\ RequestsSound'
    BY <2>1, RowsUnchanged, KeepRequests DEF IInv, Rows
  <2>3. QED
    BY <2>1, <2>2 DEF IInv, TypeOK, Rows
<1>2. CASE GCCommit
  <2>1. devices \in [Dev -> DevRow] /\ hubs \in [Hub -> HubRow]
    BY DEF IInv, TypeOK
  <2>2. ASSUME NEW d \in Dev
        PROVE  /\ devices'[d] \in DevRow
               /\ devices'[d].hub = devices[d].hub
               /\ devices'[d].idx = devices[d].idx
               /\ devices'[d].key = devices[d].key
               /\ \/ devices'[d].st = devices[d].st
                  \/ /\ devices[d].st \in {"live", "removed"}
                     /\ devices'[d].st = "removed"
    <3>1. \/ devices'[d] = devices[d]
          \/ Live(d) /\ devices'[d] = [devices[d] EXCEPT !.st = "removed"]
      BY <1>2 DEF GCCommit
    <3>2. devices[d] \in DevRow
      BY <2>1
    <3>3. QED
      BY <3>1, <3>2 DEF Live, DevRow
  <2>3. ASSUME NEW h \in Hub
        PROVE  /\ hubs'[h] \in HubRow
               /\ \/ hubs'[h] = hubs[h]
                  \/ hubs'[h].bound = None /\ hubs'[h].pubkey = None
    <3>1. hubs'[h] = hubs[h] \/ hubs'[h] = Unbound(hubs[h])
      BY <1>2 DEF GCCommit
    <3>2. hubs[h] \in HubRow
      BY <2>1
    <3>3. QED
      BY <3>1, <3>2 DEF Unbound, HubRow
  <2>4. devices' \in [Dev -> DevRow]
    BY <1>2, <2>2 DEF GCCommit
  <2>5. hubs' \in [Hub -> HubRow]
    BY <1>2, <2>3 DEF GCCommit
  <2>6. TablesTyped' /\ TablesInv' /\ DevicesPersist
    BY <1>2, <2>2, <2>3, <2>4, <2>5, HubDeviceWrite DEF GCCommit
  <2>7. QED
    BY <1>2, <2>6, LoneWrite DEF GCCommit
<1>3. QED
  BY <1>1, <1>2

LEMMA FailIInv ==
  ASSUME IInv, NEW p \in Proc,
         Fail(p) \/ CommitRefresh(p) \/ DuplicateKey(p)
  PROVE  IInv'
<1>1. UNCHANGED Rows /\ victims' \subseteq Dev
  BY DEF Fail, CommitRefresh, DuplicateKey, Rows, IInv, TypeOK
<1>2. CASE Answer(p)
  BY <1>1, <1>2, AnswerSound, ReadStep DEF Answer
<1>3. CASE AfterRemoval(p)
  BY <1>1, <1>3, AfterRemovalSound, ReadStep
<1>4. QED
  BY <1>2, <1>3 DEF Fail, CommitRefresh, DuplicateKey

LEMMA SerializationFailureIInv ==
  ASSUME IInv, NEW p \in Proc, SerializationFailure(p)
  PROVE  IInv'
<1>1. UNCHANGED Rows /\ victims' \subseteq Dev
  BY DEF SerializationFailure, Rows, IInv, TypeOK
<1>2. CASE Answer(p)
  BY <1>1, <1>2, AnswerSound, ReadStep DEF Answer
<1>3. CASE proc' = [proc EXCEPT ![p] =
                      [NoRequest EXCEPT !.at = "begin", !.tok = proc[p].tok,
                                        !.key = proc[p].key, !.attempt = 2]]
  <2>1. proc[p].tok \in Token /\ proc[p].key \in Key
    BY DEF SerializationFailure, InTransaction, IInv, RequestsSound, RequestSound
  <2>2. PICK r : r = [NoRequest EXCEPT !.at = "begin", !.tok = proc[p].tok,
                                       !.key = proc[p].key, !.attempt = 2]
    OBVIOUS
  <2>3. r \in Request
    <3>1. [NoRequest EXCEPT !.at = "begin", !.tok = proc[p].tok] \in Request
      BY <2>1, AnswerSound DEF Request
    <3>2. \A q \in Request : [q EXCEPT !.key = proc[p].key] \in Request
      BY <2>1 DEF Request
    <3>3. \A q \in Request : [q EXCEPT !.attempt = 2] \in Request
      <4>1. 2 \in 0..2
        OBVIOUS
      <4>2. QED
        BY <4>1 DEF Request
    <3>4. QED
      BY <2>2, <3>1, <3>2, <3>3, Zenon
  <2>4. r.at = "begin" /\ r.tok \in Token /\ r.key \in Key
    BY <2>1, <2>2 DEF NoRequest
  <2>5. RequestSound(r)
    BY <2>4 DEF RequestSound
  <2>6. proc' = [proc EXCEPT ![p] = r]
    BY <1>3, <2>2
  <2>7. QED
    BY <1>1, <2>3, <2>5, <2>6, ReadStep
<1>4. QED
  BY <1>2, <1>3 DEF SerializationFailure

LEMMA DeleteHubIInv ==
  ASSUME IInv, NEW p \in Proc, DeleteHub(p)
  PROVE  IInv'
<1>1. PICK h \in Hub : h = proc[p].hub
  BY DEF DeleteHub, IInv, RequestsSound, RequestSound
<1>2. CASE UNCHANGED Rows
  BY <1>2, AnswerSound, ReadStep DEF Answer, DeleteHub, IInv, TypeOK
<1>3. CASE ~UNCHANGED Rows
  <2>1. /\ hubs \in [Hub -> HubRow] /\ tokens \in [Token -> TokenRow]
        /\ devices \in [Dev -> DevRow]
    BY DEF IInv, TypeOK
  <2>2. /\ hubs' = [hubs EXCEPT ![h] =
                      [st |-> "gone", bound |-> None, pubkey |-> None]]
        /\ devices' = [d \in Dev |->
                         IF devices[d].st # "none" /\ devices[d].hub = h
                           THEN [devices[d] EXCEPT !.st = "gone"]
                           ELSE devices[d]]
        /\ tokens' = [t \in Token |->
                        IF tokens[t].hub = h THEN [tokens[t] EXCEPT !.hub = None]
                                             ELSE tokens[t]]
    BY <1>1, <1>3 DEF DeleteHub, Rows
  <2>3. hubs' \in [Hub -> HubRow]
    BY <2>1, <2>2 DEF HubRow
  <2>4. \A t \in Token : /\ tokens'[t] \in TokenRow
                         /\ tokens'[t].by = tokens[t].by
                         /\ tokens'[t].role = tokens[t].role
                         /\ tokens'[t].st = tokens[t].st
    BY <2>1, <2>2 DEF TokenRow
  <2>5. \A d \in Dev : /\ devices'[d] \in DevRow
                       /\ devices'[d].hub = devices[d].hub
                       /\ devices'[d].idx = devices[d].idx
                       /\ devices'[d].key = devices[d].key
                       /\ \/ devices'[d].st = devices[d].st
                          \/ devices[d].st # "none" /\ devices'[d].st = "gone"
                       /\ devices[d].hub # h => devices'[d].st = devices[d].st
    BY <2>1, <2>2 DEF DevRow
  <2>6. TablesTyped' /\ DevicesPersist
    <3>1. tokens' \in [Token -> TokenRow]
      BY <2>2, <2>4
    <3>2. devices' \in [Dev -> DevRow]
      BY <2>2, <2>5
    <3>3. DevicesPersist
      BY <2>5 DEF DevicesPersist
    <3>4. QED
      BY <2>3, <3>1, <3>2, <3>3 DEF TablesTyped
  <2>7. RowsSound'
    <3>1. \A t \in Token : tokens[t].by # None => tokens[t].by \in Dev
      BY <2>1 DEF TokenRow
    <3>2. QED
      BY <2>4, <2>5, <3>1 DEF IInv, TablesInv, RowsSound
  <2>8. TokenSingleUse'
    BY <2>4, <2>5 DEF IInv, TablesInv, TokenSingleUse
  <2>9. BindingAgrees'
    <3>1. \A g \in Hub : hubs[g].bound # None => hubs[g].bound \in Dev
      BY <2>1 DEF HubRow
    <3>2. \A g \in Hub : g # h => hubs'[g] = hubs[g]
      BY <2>1, <2>2
    <3>3. hubs'[h].bound = None /\ hubs'[h].pubkey = None
      BY <2>1, <2>2
    <3>4. QED
      BY <2>5, <3>1, <3>2, <3>3 DEF IInv, TablesInv, BindingAgrees
  <2>10. SeatsExclusive'
    <3>1. \A d \in Dev : Live(d)' => Live(d)
      BY <2>5 DEF Live
    <3>2. QED
      BY <2>5, <3>1 DEF IInv, TablesInv, SeatsExclusive
  <2>11. QED
    BY <2>6, <2>7, <2>8, <2>9, <2>10, AnsweredWrite
       DEF DeleteHub, TablesInv, IInv, TypeOK
<1>4. QED
  BY <1>2, <1>3

LEMMA RegisterSnapshotIInv ==
  ASSUME IInv, NEW p \in Proc, RegisterSnapshot(p)
  PROVE  IInv'
<1> DEFINE t == proc[p].tok
           k == proc[p].key
<1>1. UNCHANGED Rows /\ victims' \subseteq Dev
  BY DEF RegisterSnapshot, Rows, IInv, TypeOK
<1>2. /\ proc[p] \in Request /\ proc \in [Proc -> Request]
      /\ t \in Token /\ k \in Key
  BY DEF RegisterSnapshot, IInv, TypeOK, RequestsSound, RequestSound
<1>3. /\ tokens[t] \in TokenRow
      /\ \A h \in Hub : hubs[h] \in HubRow
      /\ \A d \in Dev : devices[d] \in DevRow
  BY <1>2 DEF IInv, TypeOK
<1>4. CASE Answer(p)
  BY <1>1, <1>4, AnswerSound, ReadStep DEF Answer
<1>5. ASSUME NEW d \in Dev,
             proc' = [proc EXCEPT ![p].at = "refresh", ![p].dev = d,
                                  ![p].sawDev = devices[d]]
      PROVE  IInv'
  <2>1. PICK r : r = [proc[p] EXCEPT !.at = "refresh", !.dev = d,
                                     !.sawDev = devices[d]]
    OBVIOUS
  <2>2. r \in Request /\ r.at = "refresh" /\ r.tok = t /\ r.key = k
    BY <1>2, <1>3, <2>1 DEF Request
  <2>3. RequestSound(r)
    BY <1>2, <2>2 DEF RequestSound
  <2>4. proc' = [proc EXCEPT ![p] = r]
    BY <1>2, <1>5, <2>1
  <2>5. QED
    BY <1>1, <2>2, <2>3, <2>4, ReadStep
<1>6. ASSUME CanBind(t, k),
             proc' = [proc EXCEPT ![p].at = "bind", ![p].idx = HubIndex,
                                  ![p].hub = tokens[t].hub,
                                  ![p].sawTok = tokens[t],
                                  ![p].sawHub = hubs[tokens[t].hub]]
      PROVE  IInv'
  <2>1. /\ tokens[t].hub \in Hub /\ tokens[t].st = "issued"
        /\ tokens[t].by = None /\ ~tokens[t].revoked /\ tokens[t].role = "hub"
        /\ hubs[tokens[t].hub] \in HubRow /\ hubs[tokens[t].hub].bound = None
    BY <1>3, <1>6 DEF CanBind, CanEnroll, TokenUsable, TokenRow
  <2>2. PICK r : r = [proc[p] EXCEPT !.at = "bind", !.idx = HubIndex,
                                     !.hub = tokens[t].hub,
                                     !.sawTok = tokens[t],
                                     !.sawHub = hubs[tokens[t].hub]]
    OBVIOUS
  <2>3. HubIndex \in 0..MaxIndex
    BY MaxIndexAssumption DEF HubIndex
  <2>4. r \in Request
    BY <1>2, <1>3, <2>1, <2>2, <2>3 DEF Request
  <2>5. /\ r.at = "bind" /\ r.tok = t /\ r.key = k /\ r.hub = tokens[t].hub
        /\ r.idx = HubIndex /\ r.sawTok = tokens[t]
        /\ r.sawHub = hubs[tokens[t].hub]
    BY <1>2, <2>2 DEF Request
  <2>6. RequestSound(r)
    BY <1>2, <1>3, <2>1, <2>5 DEF RequestSound, HubIndex
  <2>7. proc' = [proc EXCEPT ![p] = r]
    BY <1>2, <1>6, <2>2
  <2>8. QED
    BY <1>1, <2>4, <2>6, <2>7, ReadStep
<1>7. ASSUME NEW i \in FreeIndices(tokens[t].hub), CanAllocate(t, k, i),
             proc' = [proc EXCEPT ![p].at = "alloc", ![p].idx = i,
                                  ![p].hub = tokens[t].hub,
                                  ![p].sawTok = tokens[t]]
      PROVE  IInv'
  <2>1. /\ tokens[t].hub \in Hub /\ tokens[t].st = "issued"
        /\ tokens[t].by = None /\ ~tokens[t].revoked /\ tokens[t].role = "device"
    BY <1>3, <1>7 DEF CanAllocate, CanEnroll, TokenUsable, TokenRow
  <2>2. PICK r : r = [proc[p] EXCEPT !.at = "alloc", !.idx = i,
                                     !.hub = tokens[t].hub,
                                     !.sawTok = tokens[t]]
    OBVIOUS
  <2>3. i \in 0..MaxIndex /\ i # 0 /\ i # HubIndex
    BY MaxIndexAssumption DEF FreeIndices, HubIndex
  <2>4. r \in Request
    <3>1. PICK q : q = [proc[p] EXCEPT !.at = "alloc", !.idx = i]
      OBVIOUS
    <3>2. q \in Request
      BY <1>2, <2>3, <3>1 DEF Request
    <3>3. r = [q EXCEPT !.hub = tokens[t].hub, !.sawTok = tokens[t]]
      BY <2>2, <3>1, Zenon
    <3>4. \A g \in Hub, row \in TokenRow :
            [q EXCEPT !.hub = g, !.sawTok = row] \in Request
      BY <3>2 DEF Request
    <3>5. QED
      BY <1>3, <2>1, <3>3, <3>4, Zenon
  <2>5. /\ r.at = "alloc" /\ r.tok = t /\ r.key = k /\ r.hub = tokens[t].hub
        /\ r.idx = i /\ r.sawTok = tokens[t]
    BY <1>2, <2>2 DEF Request
  <2>6. RequestSound(r)
    BY <1>2, <1>3, <2>1, <2>3, <2>5 DEF RequestSound
  <2>7. proc' = [proc EXCEPT ![p] = r]
    BY <1>2, <1>7, <2>2
  <2>8. QED
    BY <1>1, <2>4, <2>6, <2>7, ReadStep
<1>8. QED
  BY <1>4, <1>5, <1>6, <1>7 DEF RegisterSnapshot

\* What register's transaction writes when it commits.
LEMMA AdmissionWrite ==
  ASSUME IInv, NEW p \in Proc, NEW d \in Dev,
         proc[p].at \in {"bind", "alloc"},
         InsertDevice(p, d), ConsumeToken(p, d),
         \/ proc[p].at = "bind" /\ BindHub(p, d)
         \/ proc[p].at = "alloc" /\ UNCHANGED hubs
  PROVE  TablesTyped' /\ TablesInv' /\ DevicesPersist
<1>1. PICK t \in Token, k \in Key, h \in Hub, i \in 0..MaxIndex :
        /\ t = proc[p].tok /\ k = proc[p].key /\ h = proc[p].hub
        /\ i = proc[p].idx /\ i # 0 /\ (i = HubIndex <=> proc[p].at = "bind")
  <2>1. proc[p] \in Request /\ RequestSound(proc[p])
    BY DEF IInv, TypeOK, RequestsSound
  <2>2. QED
    BY <2>1 DEF RequestSound, Request
<1>2. /\ hubs \in [Hub -> HubRow] /\ tokens \in [Token -> TokenRow]
      /\ devices \in [Dev -> DevRow]
  BY DEF IInv, TypeOK
<1>3. /\ tokens[t].st = "issued" /\ tokens[t].by = None
      /\ tokens[t].role = "hub" <=> i = HubIndex
  BY <1>1 DEF ConsumeToken, TokenRowUnchanged, IInv, RequestsSound, RequestSound
<1>4. proc[p].at = "bind" => hubs[h].bound = None
  BY <1>1 DEF BindHub, HubRowUnchanged, IInv, RequestsSound, RequestSound
<1>5. PICK row : row = NewDevice(p)
  OBVIOUS
<1>6. /\ row.st = "live" /\ row.hub = h /\ row.idx = i /\ row.key = k
      /\ row \in DevRow
  BY <1>1, <1>5 DEF NewDevice, DevRow
<1>7. /\ devices' = [devices EXCEPT ![d] = row] /\ devices[d].st = "none"
      /\ hubs[h].st = "up"
      /\ \A e \in Dev : Live(e) =>
           /\ ~(devices[e].hub = h /\ devices[e].idx = i)
           /\ devices[e].key # k
  BY <1>1, <1>5 DEF InsertDevice, IndexesAdmit
<1>8. tokens' = [tokens EXCEPT ![t].by = d]
  BY <1>1 DEF ConsumeToken
<1>9. \/ /\ proc[p].at = "bind"
         /\ hubs' = [hubs EXCEPT ![h].bound = d, ![h].pubkey = k]
      \/ proc[p].at = "alloc" /\ UNCHANGED hubs
  BY <1>1 DEF BindHub
<1>10. /\ devices' \in [Dev -> DevRow]
       /\ devices'[d] = row
       /\ \A e \in Dev : e # d => devices'[e] = devices[e]
  BY <1>2, <1>6, <1>7
<1>11. /\ tokens' \in [Token -> TokenRow]
       /\ tokens'[t].by = d /\ tokens'[t].role = tokens[t].role
       /\ tokens'[t].st = "issued"
       /\ \A u \in Token : u # t => tokens'[u] = tokens[u]
  <2>1. PICK new : new = [tokens[t] EXCEPT !.by = d]
    OBVIOUS
  <2>2. /\ new \in TokenRow /\ new.by = d /\ new.role = tokens[t].role
        /\ new.st = tokens[t].st
    BY <1>2, <2>1 DEF TokenRow
  <2>3. tokens' = [tokens EXCEPT ![t] = new]
    BY <1>2, <1>8, <2>1
  <2>4. QED
    BY <1>2, <1>3, <2>2, <2>3
<1>12. /\ hubs' \in [Hub -> HubRow]
       /\ \A g \in Hub : g # h => hubs'[g] = hubs[g]
       /\ \/ /\ i = HubIndex /\ hubs'[h].bound = d /\ hubs'[h].pubkey = k
             /\ hubs'[h].st = "up"
          \/ hubs'[h] = hubs[h]
  <2>1. PICK new : new = [hubs[h] EXCEPT !.bound = d, !.pubkey = k]
    OBVIOUS
  <2>2. /\ new \in HubRow /\ new.bound = d /\ new.pubkey = k
        /\ new.st = hubs[h].st
    BY <1>2, <2>1 DEF HubRow
  <2>3. CASE UNCHANGED hubs
    BY <1>2, <2>3
  <2>4. CASE proc[p].at = "bind" /\ hubs' = [hubs EXCEPT ![h].bound = d, ![h].pubkey = k]
    <3>1. hubs' = [hubs EXCEPT ![h] = new]
      BY <1>2, <2>1, <2>4
    <3>2. QED
      BY <1>1, <1>2, <1>7, <2>2, <2>4, <3>1
  <2>5. QED
    BY <1>9, <2>3, <2>4
<1>13. TablesTyped' /\ DevicesPersist
  BY <1>7, <1>10, <1>11, <1>12 DEF TablesTyped, DevicesPersist
<1>14. \A u \in Token : tokens[u].by # None =>
         tokens[u].by \in Dev /\ tokens[u].by # d
  BY <1>2, <1>7 DEF TokenRow, IInv, TablesInv, RowsSound
<1>15. d # None
  BY NoneAssumption
<1>16. RowsSound'
  BY <1>6, <1>10, <1>11, <1>14, <1>1 DEF IInv, TablesInv, RowsSound
<1>17. TokenSingleUse'
  <2>1. ASSUME NEW u \in Token, NEW v \in Token,
               tokens'[u].by # None, tokens'[u].by = tokens'[v].by
        PROVE  u = v
    BY <1>11, <1>14, <2>1 DEF IInv, TablesInv, TokenSingleUse
  <2>2. ASSUME NEW e \in Dev, devices'[e].st # "none"
        PROVE  \E u \in Token :
                 /\ tokens'[u].by = e
                 /\ tokens'[u].role = "hub" <=> devices'[e].idx = HubIndex
    <3>1. CASE e = d
      BY <1>3, <1>6, <1>10, <1>11, <3>1
    <3>2. CASE e # d
      <4>1. PICK u \in Token :
              /\ tokens[u].by = e
              /\ tokens[u].role = "hub" <=> devices[e].idx = HubIndex
        BY <1>10, <2>2, <3>2 DEF IInv, TablesInv, TokenSingleUse
      <4>2. e # None
        BY NoneAssumption
      <4>3. u # t
        BY <1>3, <4>1, <4>2
      <4>4. QED
        BY <1>10, <1>11, <3>2, <4>1, <4>3
    <3>3. QED
      BY <3>1, <3>2
  <2>3. QED
    BY <2>1, <2>2 DEF TokenSingleUse
<1>18. BindingAgrees'
  <2>1. \A g \in Hub : hubs[g].bound # None => hubs[g].bound \in Dev
    BY <1>2 DEF HubRow
  <2>2. \A g \in Hub : hubs[g].bound # d
    BY <1>7, <1>15 DEF IInv, TablesInv, BindingAgrees
  <2>3. ASSUME NEW g \in Hub, hubs'[g] = hubs[g]
        PROVE  LET e == hubs'[g].bound IN
               /\ e = None <=> hubs'[g].pubkey = None
               /\ e # None => /\ hubs'[g].st = "up"
                              /\ devices'[e].st \in {"live", "removed"}
                              /\ devices'[e].hub = g
                              /\ devices'[e].idx = HubIndex
                              /\ devices'[e].key = hubs'[g].pubkey
    BY <1>10, <2>1, <2>2, <2>3 DEF IInv, TablesInv, BindingAgrees
  <2>4. k # None
    BY NoneAssumption
  <2>5. QED
    BY <1>6, <1>10, <1>12, <1>15, <2>3, <2>4 DEF BindingAgrees
<1>19. SeatsExclusive'
  <2>1. \A e \in Dev : Live(e)' <=> (e = d \/ Live(e))
    BY <1>6, <1>7, <1>10 DEF Live
  <2>2. QED
    BY <1>6, <1>7, <1>10, <2>1 DEF IInv, TablesInv, SeatsExclusive
<1>20. QED
  BY <1>13, <1>16, <1>17, <1>18, <1>19 DEF TablesInv

LEMMA CommitIInv ==
  ASSUME IInv, NEW p \in Proc, NEW d \in Dev,
         CommitBind(p, d) \/ CommitAlloc(p, d)
  PROVE  IInv'
<1>1. TablesTyped' /\ TablesInv' /\ DevicesPersist
  <2>1. CASE CommitBind(p, d)
    BY <2>1, AdmissionWrite DEF CommitBind
  <2>2. CASE CommitAlloc(p, d)
    BY <2>2, AdmissionWrite DEF CommitAlloc
  <2>3. QED
    BY <2>1, <2>2
<1>2. Answer(p) /\ victims' \subseteq Dev
  BY DEF CommitBind, CommitAlloc, IInv, TypeOK
<1>3. QED
  BY <1>1, <1>2, AnsweredWrite

-------------------------------------------------------------------------------
(* The invariant holds in every reachable state.                             *)

\* Every step of every handler preserves the inductive invariant.
THEOREM NextIInv == IInv /\ [Next]_vars => IInv'
<1> SUFFICES ASSUME IInv, [Next]_vars PROVE IInv'
  OBVIOUS
<1>1. CASE UNCHANGED vars
  <2>1. UNCHANGED Rows /\ UNCHANGED proc /\ UNCHANGED victims
    BY <1>1 DEF vars, Rows
  <2>2. TablesInv' /\ RequestsSound'
    BY <2>1, RowsUnchanged, KeepRequests DEF IInv, Rows
  <2>3. QED
    BY <2>1, <2>2 DEF IInv, TypeOK, Rows
<1>2. ASSUME NEW p \in Proc, Step(p)
      PROVE  IInv'
  BY <1>2, CreateHubIInv, InsertHubTokenIInv, RegisterSnapshotIInv, CommitIInv,
     FailIInv, SerializationFailureIInv, MarkRemovedIInv, ReadHubIInv,
     ClearBindIInv, RevokeReleasedIInv, DeleteHubIInv, HeartbeatIInv
     DEF Step
<1>3. ASSUME NEW p \in Proc, Arrive(p)
      PROVE  IInv'
  BY <1>3, ArriveIInv
<1>4. ASSUME NEW p \in Proc, Fail(p)
      PROVE  IInv'
  BY <1>4, FailIInv
<1>5. CASE Environment
  BY <1>5, MintDeviceTokenIInv, RevokeTokenIInv, ResetBindIInv, AgeIInv
     DEF Environment
<1>6. CASE Sweep \/ GCFail
  BY <1>6, SweepIInv DEF Sweep
<1>7. QED
  BY <1>1, <1>2, <1>3, <1>4, <1>5, <1>6 DEF Next

\* The invariant of the enrolment tables and of the requests over them.
THEOREM Invariance == Spec => []IInv
<1>1. Init => IInv
  BY InitIInv
<1>2. IInv /\ [Next]_vars => IInv'
  BY NextIInv
<1>3. QED
  BY <1>1, <1>2, PTL DEF Spec

\* Every row and every request keeps its type (the schema of wg-schema.sql and
\* the control flow of the handlers).
THEOREM TypeCorrect == Spec => []TypeOK
<1>1. IInv => TypeOK
  BY DEF IInv
<1>2. QED
  BY <1>1, Invariance, PTL

\* A token admits one device, ever: allocateDevice and bindHubDevice, however
\* many register calls race, with crashes and with every other handler.
THEOREM TokenSingleUseHolds == Spec => []TokenSingleUse
<1>1. IInv => TokenSingleUse
  BY DEF IInv, TablesInv
<1>2. QED
  BY <1>1, Invariance, PTL

\* A hub row's pubkey and bound_device_id describe one device of that hub.
THEOREM BindingAgreesHolds == Spec => []BindingAgrees
<1>1. IInv => BindingAgrees
  BY DEF IInv, TablesInv
<1>2. QED
  BY <1>1, Invariance, PTL

\* No two live devices share a tunnel address or a public key.
THEOREM SeatsExclusiveHolds == Spec => []SeatsExclusive
<1>1. IInv => SeatsExclusive
  BY DEF IInv, TablesInv
<1>2. QED
  BY <1>1, Invariance, PTL

===============================================================================
