------------------------------ MODULE Enrollment ------------------------------
(***************************************************************************)
(* Enrolment: the life of hubs, enroll tokens and devices in the control   *)
(* plane's database, and the HTTP handlers and background sweep that race  *)
(* over it.                                                                *)
(*                                                                         *)
(* The three tables wg_hubs, wg_tokens and wg_devices are the variables    *)
(* hubs, tokens and devices.  A handler that runs several statements is a  *)
(* process (proc[p], one per request in flight) that takes one step per    *)
(* statement; a handler that is a single statement is a single action.     *)
(*                                                                         *)
(* /v1/register is the only SERIALIZABLE transaction of the program; every *)
(* other statement commits on its own.  It is modelled by the part of that *)
(* level its correctness uses: it reads one snapshot, and commits only if  *)
(* no row it updates was updated since (first updater wins), the partial   *)
(* unique indexes admit its insert and its foreign key still has a target. *)
(* A serialization failure may be reported at any time.                    *)
(*                                                                         *)
(* Abstractions: a tunnel address is the pair (hub, d_index) - the meshes  *)
(* of two hubs are assumed disjoint; a row that is not in a table has      *)
(* st = "none" before its insert and "gone" after its delete; columns that *)
(* no property here tells apart (names, endpoints, counters) are left out. *)
(***************************************************************************)
EXTENDS Naturals, FiniteSets

CONSTANTS
  Hub,        \* ids of the wg_hubs rows ever inserted
  Token,      \* ids of the wg_tokens rows ever inserted
  Dev,        \* ids of the wg_devices rows ever inserted
  Key,        \* WireGuard public keys of the boxes that enrol
  Proc,       \* requests in flight at one time
  MaxIndex,   \* the largest d_index (254 in the code)
  None,       \* SQL NULL, and the empty public key
  Requests,   \* the kinds of request the environment sends (a bound)
  Faults      \* whether a handler may fail between two statements

RequestKinds == {"mintHub", "mintDevice", "register", "leave", "remove",
                 "release", "beat", "rotate", "revoke", "reset", "delete",
                 "expire", "age", "gc"}

ASSUME MaxIndexAssumption == MaxIndex \in Nat /\ MaxIndex >= 2
ASSUME NoneAssumption == None \notin Hub \cup Token \cup Dev \cup Key
ASSUME RequestsAssumption == Requests \subseteq RequestKinds
ASSUME FaultsAssumption == Faults \in BOOLEAN

VARIABLES
  hubs,       \* wg_hubs
  tokens,     \* wg_tokens
  devices,    \* wg_devices
  proc,       \* the requests in flight
  victims     \* the rows the sweep transaction selected ({}: no sweep)

vars == <<hubs, tokens, devices, proc, victims>>

-------------------------------------------------------------------------------
(* Rows.                                                                     *)

HubIndex == 1

HubRow == [st : {"none", "up", "gone"},
           bound : Dev \cup {None},          \* bound_device_id
           pubkey : Key \cup {None}]

TokenRow == [st : {"none", "issued"},
             role : {"hub", "device"},
             hub : Hub \cup {None},          \* hub_id, SET NULL with its hub
             by : Dev \cup {None},           \* consumed_by_device_id
             revoked : BOOLEAN,
             expired : BOOLEAN]              \* expires_at is in the past

\* hash is the enroll token whose hash the row still carries, None once the
\* bearer was rotated.  age is where last_seen_at (created_at, for a device
\* that never reported) stands against the sweep's cutoff.
DevRow == [st : {"none", "live", "removed", "gone"},
           hub : Hub \cup {None},
           idx : 0..MaxIndex,
           key : Key \cup {None},
           hash : Token \cup {None},
           age : {"new", "silent", "recent", "old"}]

\* A request in flight: where it stands, and what it read so far.  sawTok,
\* sawHub and sawDev are the rows of the register transaction's snapshot that
\* the transaction is going to update.
Request == [at : {"idle", "begin", "refresh", "bind", "alloc", "mark",
                  "readHub", "clear", "revoke", "delete", "beat", "rotate",
                  "create", "mint"},
            tok : Token \cup {None},
            key : Key \cup {None},
            dev : Dev \cup {None},
            hub : Hub \cup {None},
            idx : 0..MaxIndex,
            attempt : 0..2,
            sawTok : TokenRow \cup {None},
            sawHub : HubRow \cup {None},
            sawDev : DevRow \cup {None}]

NoRequest == [at |-> "idle", tok |-> None, key |-> None, dev |-> None,
              hub |-> None, idx |-> 0, attempt |-> 0,
              sawTok |-> None, sawHub |-> None, sawDev |-> None]

TypeOK ==
  /\ hubs \in [Hub -> HubRow]
  /\ tokens \in [Token -> TokenRow]
  /\ devices \in [Dev -> DevRow]
  /\ proc \in [Proc -> Request]
  /\ victims \subseteq Dev

Init ==
  /\ hubs = [h \in Hub |-> [st |-> "none", bound |-> None, pubkey |-> None]]
  /\ tokens = [t \in Token |->
                 [st |-> "none", role |-> "device", hub |-> None,
                  by |-> None, revoked |-> FALSE, expired |-> FALSE]]
  /\ devices = [d \in Dev |->
                  [st |-> "none", hub |-> None, idx |-> 0, key |-> None,
                   hash |-> None, age |-> "new"]]
  /\ proc = [p \in Proc |-> NoRequest]
  /\ victims = {}

-------------------------------------------------------------------------------
(* Reads the handlers share.                                                 *)

Live(d) == devices[d].st = "live"

LiveIn(h) == {d \in Dev : Live(d) /\ devices[d].hub = h}

\* pickFreeDIndex: the d_index values of a hub that no live row holds.  1 is
\* the hub's own.
FreeIndices(h) == (2..MaxIndex) \ {devices[d].idx : d \in LiveIn(h)}

\* lookupUnusedWGToken and the hub lookup after it: the token exists, is not
\* expired, not revoked, and its hub row exists.
TokenUsable(t) ==
  /\ tokens[t].st = "issued"
  /\ ~tokens[t].expired
  /\ ~tokens[t].revoked
  /\ tokens[t].hub # None
  /\ hubs[tokens[t].hub].st = "up"

\* extractDeviceBearer: a live row carries the bearer's hash and its
\* token_expires_at, copied from the enroll token, has not passed.
Authentic(d) ==
  /\ Live(d)
  /\ devices[d].hash # None => ~tokens[devices[d].hash].expired

\* Mutant: the sweep forgets the devices that never reported.
StaleOnceHeard(d) == Live(d) /\ devices[d].age = "old"

\* The rows the sweep considers stale, reported or never reported.
Stale(d) == Live(d) /\ devices[d].age \in {"silent", "old"}

KeyKnown(k) == \E d \in Dev : Live(d) /\ devices[d].key = k

-------------------------------------------------------------------------------
(* Steps of a request.                                                       *)

Idle(p) == proc[p].at = "idle"
Begin(p, r) == Idle(p) /\ proc' = [proc EXCEPT ![p] = r]
Goto(p, where) == proc' = [proc EXCEPT ![p].at = where]
Answer(p) == proc' = [proc EXCEPT ![p] = NoRequest]

-------------------------------------------------------------------------------
(* Minting tokens.                                                           *)

\* createWGTokenForDevice, from the admin page or the cloud's loopback call:
\* the hub exists when it is looked up, and the foreign key keeps it there.
MintDeviceToken(t, h) ==
  /\ "mintDevice" \in Requests
  /\ tokens[t].st = "none"
  /\ hubs[h].st = "up"
  /\ tokens' = [tokens EXCEPT ![t].st = "issued", ![t].role = "device",
                              ![t].hub = h]
  /\ UNCHANGED <<hubs, devices, proc, victims>>

\* createWGTokenForHub reads the hub row by slug: a slug that is bound is
\* refused, one that exists unbound is reused, a new one is created.
StartMintHub(p, h) ==
  /\ "mintHub" \in Requests
  /\ \E t \in Token : tokens[t].st = "none"
  /\ hubs[h].st # "gone"
  /\ hubs[h].bound = None
  /\ Begin(p, [NoRequest EXCEPT
                 !.at = IF hubs[h].st = "up" THEN "mint" ELSE "create",
                 !.hub = h])
  /\ UNCHANGED <<hubs, tokens, devices, victims>>

\* createWGHub; wg_hubs.slug is UNIQUE, so the loser of two creations fails.
CreateHub(p) ==
  LET h == proc[p].hub IN
  /\ proc[p].at = "create"
  /\ \/ /\ hubs[h].st = "none"
        /\ hubs' = [hubs EXCEPT ![h].st = "up"]
        /\ Goto(p, "mint")
     \/ /\ hubs[h].st # "none"
        /\ Answer(p)
        /\ UNCHANGED hubs
  /\ UNCHANGED <<tokens, devices, victims>>

\* The INSERT fails when the hub was deleted meanwhile (or no id is left).
InsertHubToken(p) ==
  LET h == proc[p].hub
      unused == {t \in Token : tokens[t].st = "none"} IN
  /\ proc[p].at = "mint"
  /\ \/ /\ hubs[h].st = "up"
        /\ \E t \in unused :
             tokens' = [tokens EXCEPT ![t].st = "issued", ![t].role = "hub",
                                      ![t].hub = h]
     \/ /\ hubs[h].st # "up" \/ unused = {}
        /\ UNCHANGED tokens
  /\ Answer(p)
  /\ UNCHANGED <<hubs, devices, victims>>

-------------------------------------------------------------------------------
(* POST /v1/register.                                                        *)

\* A box with key k presents token t; any token string may arrive, one that
\* was never issued is answered 401 by the snapshot step.
StartRegister(p, t, k) ==
  /\ "register" \in Requests
  /\ Begin(p, [NoRequest EXCEPT !.at = "begin", !.tok = t, !.key = k,
                                !.attempt = 1])
  /\ UNCHANGED <<hubs, tokens, devices, victims>>

\* The live device is the caller's own: same key, and it still carries the
\* hash of the token presented.
CanRefresh(t, k, d) ==
  /\ TokenUsable(t)
  /\ Live(d) /\ devices[d].key = k /\ devices[d].hash = t

\* Mutant: consumed_at is not looked at.
CanEnrollAgain(t, k, role) ==
  TokenUsable(t) /\ ~KeyKnown(k) /\ tokens[t].role = role

CanEnroll(t, k, role) ==
  /\ TokenUsable(t)
  /\ ~KeyKnown(k)
  /\ tokens[t].by = None
  /\ tokens[t].role = role

CanBind(t, k) ==
  CanEnroll(t, k, "hub") /\ hubs[tokens[t].hub].bound = None

CanAllocate(t, k, i) ==
  /\ CanEnroll(t, k, "device")
  /\ hubs[tokens[t].hub].pubkey # None                       \* Configured()
  /\ \A j \in FreeIndices(tokens[t].hub) : i <= j

\* doAllocate up to its first write: every read comes from one snapshot, and
\* decides between the three writers and a refusal.
RegisterSnapshot(p) ==
  LET t == proc[p].tok
      k == proc[p].key IN
  /\ proc[p].at = "begin"
  /\ \/ \E d \in Dev :
          /\ CanRefresh(t, k, d)
          /\ proc' = [proc EXCEPT ![p].at = "refresh", ![p].dev = d,
                                  ![p].sawDev = devices[d]]
     \/ /\ CanBind(t, k)
        /\ proc' = [proc EXCEPT ![p].at = "bind", ![p].idx = HubIndex,
                                ![p].hub = tokens[t].hub,
                                ![p].sawTok = tokens[t],
                                ![p].sawHub = hubs[tokens[t].hub]]
     \/ \E i \in FreeIndices(tokens[t].hub) :
          /\ CanAllocate(t, k, i)
          /\ proc' = [proc EXCEPT ![p].at = "alloc", ![p].idx = i,
                                  ![p].hub = tokens[t].hub,
                                  ![p].sawTok = tokens[t]]
     \/ /\ \A d \in Dev : ~CanRefresh(t, k, d)
        /\ ~CanBind(t, k)
        /\ \A i \in FreeIndices(tokens[t].hub) : ~CanAllocate(t, k, i)
        /\ Answer(p)
  /\ UNCHANGED <<hubs, tokens, devices, victims>>

\* Mutants: a writer does not notice that its row was updated meanwhile (the
\* transaction at a weaker isolation level).
TokenRowIgnored(p) == TRUE
HubRowIgnored(p) == TRUE

\* First updater wins: a row the transaction updates is the one it read.
TokenRowUnchanged(p) == proc[p].sawTok = tokens[proc[p].tok]
HubRowUnchanged(p) == proc[p].sawHub = hubs[proc[p].hub]
DevRowUnchanged(p) == proc[p].sawDev = devices[proc[p].dev]

\* Mutant: the unique indexes are not there.
NoIndexes(h, i, k) == TRUE

\* The partial unique indexes on device_ip, (site_id, d_index) and pubkey.
IndexesAdmit(h, i, k) ==
  \A e \in Dev : Live(e) => /\ ~(devices[e].hub = h /\ devices[e].idx = i)
                            /\ devices[e].key # k

\* INSERT INTO wg_devices by either writer.
NewDevice(p) == [st |-> "live", hub |-> proc[p].hub, idx |-> proc[p].idx,
                 key |-> proc[p].key, hash |-> proc[p].tok, age |-> "new"]

InsertDevice(p, d) ==
  /\ devices[d].st = "none"
  /\ hubs[proc[p].hub].st = "up"                               \* foreign key
  /\ IndexesAdmit(proc[p].hub, proc[p].idx, proc[p].key)
  /\ devices' = [devices EXCEPT ![d] = NewDevice(p)]

\* UPDATE wg_tokens SET consumed_at, consumed_by_device_id.
ConsumeToken(p, d) ==
  /\ TokenRowUnchanged(p)
  /\ tokens' = [tokens EXCEPT ![proc[p].tok].by = d]

\* updateWGHubBindTx.
BindHub(p, d) ==
  /\ HubRowUnchanged(p)
  /\ hubs' = [hubs EXCEPT ![proc[p].hub].bound = d,
                          ![proc[p].hub].pubkey = proc[p].key]

\* bindHubDevice and allocateDevice commit.
CommitBind(p, d) ==
  /\ proc[p].at = "bind"
  /\ InsertDevice(p, d)
  /\ BindHub(p, d)
  /\ ConsumeToken(p, d)
  /\ Answer(p)
  /\ UNCHANGED victims

CommitAlloc(p, d) ==
  /\ proc[p].at = "alloc"
  /\ InsertDevice(p, d)
  /\ ConsumeToken(p, d)
  /\ Answer(p)
  /\ UNCHANGED <<hubs, victims>>

\* refreshExistingDevice rewrites columns that are not modelled here.
CommitRefresh(p) ==
  /\ proc[p].at = "refresh"
  /\ DevRowUnchanged(p)
  /\ Answer(p)
  /\ UNCHANGED <<hubs, tokens, devices, victims>>

InTransaction(p) == proc[p].at \in {"refresh", "bind", "alloc"}

\* Mutant: every serialization failure is tried again.
RetryForever(p) ==
  /\ InTransaction(p)
  /\ proc' = [proc EXCEPT ![p] =
                [NoRequest EXCEPT !.at = "begin", !.tok = proc[p].tok,
                                  !.key = proc[p].key, !.attempt = 1]]
  /\ UNCHANGED <<hubs, tokens, devices, victims>>

\* Mutant: the attempts are counted and never compared with their limit.
RetryUncounted(p) ==
  /\ InTransaction(p)
  /\ proc' = [proc EXCEPT ![p] =
                [NoRequest EXCEPT !.at = "begin", !.tok = proc[p].tok,
                                  !.key = proc[p].key,
                                  !.attempt = proc[p].attempt + 1]]
  /\ UNCHANGED <<hubs, tokens, devices, victims>>

\* "could not serialize access": rolled back and tried a second time, then
\* answered 500.
SerializationFailure(p) ==
  /\ InTransaction(p)
  /\ \/ /\ proc[p].attempt = 1
        /\ proc' = [proc EXCEPT ![p] =
                      [NoRequest EXCEPT !.at = "begin", !.tok = proc[p].tok,
                                        !.key = proc[p].key, !.attempt = 2]]
     \/ /\ proc[p].attempt # 1
        /\ Answer(p)
  /\ UNCHANGED <<hubs, tokens, devices, victims>>

\* "duplicate key value violates unique constraint": 500, no second attempt.
DuplicateKey(p) ==
  /\ proc[p].at \in {"bind", "alloc"}
  /\ ~IndexesAdmit(proc[p].hub, proc[p].idx, proc[p].key)
  /\ Answer(p)
  /\ UNCHANGED <<hubs, tokens, devices, victims>>

-------------------------------------------------------------------------------
(* Taking a device out: POST /v1/leave, the admin's force-remove and the     *)
(* cloud's release mark the row removed, then look whether the hub is bound  *)
(* to it, then clear the binding - three statements, three commits.          *)

Removal(d) == [NoRequest EXCEPT !.at = "mark", !.dev = d,
                                !.hub = devices[d].hub]

StartLeave(p, d) ==
  /\ "leave" \in Requests
  /\ Authentic(d)
  /\ Begin(p, Removal(d))
  /\ UNCHANGED <<hubs, tokens, devices, victims>>

\* The admin's remove does not care whether the row is removed already.
StartRemove(p, d) ==
  /\ "remove" \in Requests
  /\ devices[d].st \in {"live", "removed"}
  /\ Begin(p, Removal(d))
  /\ UNCHANGED <<hubs, tokens, devices, victims>>

\* Release reads its token row and, through it, the device; a removed device
\* is left alone and a revoked token is not revoked again.
StartRelease(p, t) ==
  LET d == tokens[t].by IN
  /\ "release" \in Requests
  /\ tokens[t].st = "issued"
  /\ \/ /\ d # None /\ Live(d)
        /\ Begin(p, [Removal(d) EXCEPT !.tok = t, !.sawTok = tokens[t]])
     \/ /\ d # None => ~Live(d)
        /\ ~tokens[t].revoked
        /\ Begin(p, [NoRequest EXCEPT !.at = "revoke", !.tok = t,
                                      !.sawTok = tokens[t]])
  /\ UNCHANGED <<hubs, tokens, devices, victims>>

\* What follows the binding's part: release still has its token to revoke,
\* unless it had read it revoked.
AfterRemoval(p) ==
  IF proc[p].tok # None /\ ~proc[p].sawTok.revoked THEN Goto(p, "revoke")
                                                   ELSE Answer(p)

\* Mutant: the removal does not look after the hub's binding.
MarkRemovedOnly(p) ==
  LET d == proc[p].dev IN
  /\ proc[p].at = "mark"
  /\ devices' = [devices EXCEPT ![d].st = IF @ = "gone" THEN @ ELSE "removed"]
  /\ AfterRemoval(p)
  /\ UNCHANGED <<hubs, tokens, victims>>

\* markWGDeviceRemoved; no row any more is ErrNoRows, answered 500.
MarkRemoved(p) ==
  LET d == proc[p].dev IN
  /\ proc[p].at = "mark"
  /\ \/ /\ devices[d].st # "gone"
        /\ devices' = [devices EXCEPT ![d].st = "removed"]
        /\ Goto(p, "readHub")
     \/ /\ devices[d].st = "gone"
        /\ Answer(p)
        /\ UNCHANGED devices
  /\ UNCHANGED <<hubs, tokens, victims>>

BoundTo(h, d) == hubs[h].st = "up" /\ hubs[h].bound = d

ReadHub(p) ==
  /\ proc[p].at = "readHub"
  /\ \/ /\ BoundTo(proc[p].hub, proc[p].dev)
        /\ Goto(p, "clear")
     \/ /\ ~BoundTo(proc[p].hub, proc[p].dev)
        /\ AfterRemoval(p)
  /\ UNCHANGED <<hubs, tokens, devices, victims>>

\* Mutant: the key of the device that left stays behind.
UnboundKeepingKey(row) == [row EXCEPT !.bound = None]

\* The columns clearWGHubBind and the sweep set.
Unbound(row) == [row EXCEPT !.bound = None, !.pubkey = None]

\* clearWGHubBind: WHERE id = hub, whoever it is bound to by now.
ClearBind(p) ==
  LET h == proc[p].hub IN
  /\ proc[p].at = "clear"
  /\ hubs' = [hubs EXCEPT ![h] = IF @.st = "up" THEN Unbound(@) ELSE @]
  /\ AfterRemoval(p)
  /\ UNCHANGED <<tokens, devices, victims>>

\* Release's last statement.
RevokeReleased(p) ==
  /\ proc[p].at = "revoke"
  /\ tokens' = [tokens EXCEPT ![proc[p].tok].revoked = TRUE]
  /\ Answer(p)
  /\ UNCHANGED <<hubs, devices, victims>>

-------------------------------------------------------------------------------
(* Single-statement admin handlers.                                          *)

\* handleAdminWGTokenRevoke.
RevokeToken(t) ==
  /\ "revoke" \in Requests
  /\ tokens[t].st = "issued" /\ ~tokens[t].revoked
  /\ tokens' = [tokens EXCEPT ![t].revoked = TRUE]
  /\ UNCHANGED <<hubs, devices, proc, victims>>

\* handleAdminWGHubResetBind: the hub row only.
ResetBind(h) ==
  /\ "reset" \in Requests
  /\ hubs[h].st = "up"
  /\ hubs' = [hubs EXCEPT ![h] = Unbound(@)]
  /\ UNCHANGED <<tokens, devices, proc, victims>>

-------------------------------------------------------------------------------
(* Deleting a hub: count its live devices, then delete and cascade.          *)

StartDeleteHub(p, h) ==
  /\ "delete" \in Requests
  /\ hubs[h].st = "up"
  /\ LiveIn(h) = {}
  /\ Begin(p, [NoRequest EXCEPT !.at = "delete", !.hub = h])
  /\ UNCHANGED <<hubs, tokens, devices, victims>>

\* ON DELETE CASCADE takes the device rows, SET NULL the tokens' hub_id.
DeleteHub(p) ==
  LET h == proc[p].hub IN
  /\ proc[p].at = "delete"
  /\ \/ /\ hubs[h].st = "up"
        /\ hubs' = [hubs EXCEPT ![h] =
                      [st |-> "gone", bound |-> None, pubkey |-> None]]
        /\ devices' = [d \in Dev |->
                         IF devices[d].st # "none" /\ devices[d].hub = h
                           THEN [devices[d] EXCEPT !.st = "gone"]
                           ELSE devices[d]]
        /\ tokens' = [t \in Token |->
                        IF tokens[t].hub = h THEN [tokens[t] EXCEPT !.hub = None]
                                             ELSE tokens[t]]
     \/ /\ hubs[h].st # "up"
        /\ UNCHANGED <<hubs, devices, tokens>>
  /\ Answer(p)
  /\ UNCHANGED victims

-------------------------------------------------------------------------------
(* POST /v1/heartbeat and POST /v1/token/refresh: authenticate, then write.  *)

StartHeartbeat(p, d) ==
  /\ "beat" \in Requests
  /\ Authentic(d)
  /\ Begin(p, [NoRequest EXCEPT !.at = "beat", !.dev = d])
  /\ UNCHANGED <<hubs, tokens, devices, victims>>

\* insertWGHeartbeat: the UPDATE does not look at removed_at; on a deleted row
\* the INSERT before it fails.
Heartbeat(p) ==
  LET d == proc[p].dev IN
  /\ proc[p].at = "beat"
  /\ devices' = IF devices[d].st = "gone"
                  THEN devices
                  ELSE [devices EXCEPT ![d].age = "recent"]
  /\ Answer(p)
  /\ UNCHANGED <<hubs, tokens, victims>>

StartTokenRefresh(p, d) ==
  /\ "rotate" \in Requests
  /\ Authentic(d)
  /\ Begin(p, [NoRequest EXCEPT !.at = "rotate", !.dev = d])
  /\ UNCHANGED <<hubs, tokens, devices, victims>>

\* updateWGDeviceTokenHash: live rows only, and 200 whatever the count.
TokenRefresh(p) ==
  LET d == proc[p].dev IN
  /\ proc[p].at = "rotate"
  /\ devices' = IF Live(d) THEN [devices EXCEPT ![d].hash = None] ELSE devices
  /\ Answer(p)
  /\ UNCHANGED <<hubs, tokens, victims>>

-------------------------------------------------------------------------------
(* The stale-device sweep: one READ COMMITTED transaction, which selects its *)
(* victims first and updates them without looking at their age again.        *)

GCSelect ==
  /\ "gc" \in Requests
  /\ victims = {}
  /\ victims' = {d \in Dev : Stale(d)}
  /\ victims' # {}
  /\ UNCHANGED <<hubs, tokens, devices, proc>>

GCCommit ==
  /\ victims # {}
  /\ devices' = [d \in Dev |-> IF d \in victims /\ Live(d)
                                 THEN [devices[d] EXCEPT !.st = "removed"]
                                 ELSE devices[d]]
  /\ hubs' = [h \in Hub |-> IF hubs[h].bound \in victims THEN Unbound(hubs[h])
                                                         ELSE hubs[h]]
  /\ victims' = {}
  /\ UNCHANGED <<tokens, proc>>

-------------------------------------------------------------------------------
(* Time and failure.                                                         *)

\* expires_at passes.
Expire(t) ==
  /\ "expire" \in Requests
  /\ tokens[t].st = "issued" /\ ~tokens[t].expired
  /\ tokens' = [tokens EXCEPT ![t].expired = TRUE]
  /\ UNCHANGED <<hubs, devices, proc, victims>>

\* A device stays silent for longer than the sweep's TTL.
Age(d) ==
  /\ "age" \in Requests
  /\ Live(d)
  /\ devices[d].age \in {"new", "recent"}
  /\ devices' = [devices EXCEPT ![d].age =
                   IF @ = "new" THEN "silent" ELSE "old"]
  /\ UNCHANGED <<hubs, tokens, proc, victims>>

\* A statement fails, the client's context is cancelled, or the service dies:
\* the rest of the handler does not run and an open transaction rolls back.
\* Release ignores an error of the two statements that unbind the hub.
Fail(p) ==
  /\ Faults
  /\ ~Idle(p)
  /\ \/ Answer(p)
     \/ proc[p].at \in {"readHub", "clear"} /\ AfterRemoval(p)
  /\ UNCHANGED <<hubs, tokens, devices, victims>>

\* The sweep's transaction fails: the next tick tries again.
GCFail ==
  /\ victims # {}
  /\ victims' = {}
  /\ UNCHANGED <<hubs, tokens, devices, proc>>

-------------------------------------------------------------------------------
(* The system.                                                               *)

\* The next statement of the request p has in flight.
Step(p) ==
  \/ CreateHub(p) \/ InsertHubToken(p)
  \/ RegisterSnapshot(p)
  \/ \E d \in Dev : CommitBind(p, d) \/ CommitAlloc(p, d)
  \/ CommitRefresh(p) \/ SerializationFailure(p) \/ DuplicateKey(p)
  \/ MarkRemoved(p) \/ ReadHub(p) \/ ClearBind(p) \/ RevokeReleased(p)
  \/ DeleteHub(p)
  \/ Heartbeat(p) \/ TokenRefresh(p)

\* A request arrives.
Arrive(p) ==
  \/ \E h \in Hub : StartMintHub(p, h) \/ StartDeleteHub(p, h)
  \/ \E t \in Token, k \in Key : StartRegister(p, t, k)
  \/ \E t \in Token : StartRelease(p, t)
  \/ \E d \in Dev : \/ StartLeave(p, d) \/ StartRemove(p, d)
                    \/ StartHeartbeat(p, d) \/ StartTokenRefresh(p, d)

\* Admin clicks that are one statement, and the passing of time.
Environment ==
  \/ \E t \in Token, h \in Hub : MintDeviceToken(t, h)
  \/ \E t \in Token : RevokeToken(t) \/ Expire(t)
  \/ \E h \in Hub : ResetBind(h)
  \/ \E d \in Dev : Age(d)

Sweep == GCSelect \/ GCCommit

Next ==
  \/ \E p \in Proc : Step(p) \/ Arrive(p) \/ Fail(p)
  \/ Environment
  \/ Sweep
  \/ GCFail

Spec == Init /\ [][Next]_vars

\* A handler's goroutine runs until it has answered, the sweep's ticker keeps
\* firing, and its transaction does not fail for ever; nobody is obliged to send
\* a request.
FairSpec == Spec /\ (\A p \in Proc : WF_vars(Step(p)))
                 /\ WF_vars(GCSelect) /\ SF_vars(GCCommit)

-------------------------------------------------------------------------------
(* Properties.                                                               *)

\* A token admits one device, ever: every device row is the consumer of
\* exactly one token, of the role that fits its seat, however many register
\* calls with that token ran at once, were retried or died half way
\* (doAllocate's consumed_at check plus the UPDATE of wg_tokens).
TokenSingleUse ==
  /\ \A t, u \in Token :
       tokens[t].by # None /\ tokens[t].by = tokens[u].by => t = u
  /\ \A d \in Dev : devices[d].st # "none" =>
       \E t \in Token :
         /\ tokens[t].by = d
         /\ tokens[t].role = "hub" <=> devices[d].idx = HubIndex

\* The hub row never mixes two devices: pubkey and bound_device_id are set and
\* cleared together, and name a device that enrolled in the hub's own seat
\* (bindHubDevice, clearWGHubBind, the sweep and ON DELETE CASCADE).
BindingAgrees ==
  \A h \in Hub :
    LET d == hubs[h].bound IN
    /\ d = None <=> hubs[h].pubkey = None
    /\ d # None => /\ hubs[h].st = "up"
                   /\ devices[d].st \in {"live", "removed"}
                   /\ devices[d].hub = h
                   /\ devices[d].idx = HubIndex
                   /\ devices[d].key = hubs[h].pubkey

\* No two live devices share a tunnel address or a public key (WireGuard would
\* route to only one of them).
SeatsExclusive ==
  \A d, e \in Dev :
    /\ Live(d) /\ Live(e)
    /\ \/ devices[d].hub = devices[e].hub /\ devices[d].idx = devices[e].idx
       \/ devices[d].key = devices[e].key
    => d = e

\* Without failures, a hub stays bound to a removed device only while the
\* request that removed it is on its way to clear the binding (the three
\* removal handlers; the sweep does both at once).
OrphanBindingHasCleaner ==
  \A h \in Hub :
    hubs[h].bound # None /\ devices[hubs[h].bound].st = "removed" =>
      \E p \in Proc : /\ proc[p].at \in {"readHub", "clear"}
                      /\ proc[p].dev = hubs[h].bound
                      /\ proc[p].hub = h

-------------------------------------------------------------------------------
(* Enrolment implements the admission ledger.                                *)

Ledger == INSTANCE Admission WITH
  admitted <- [t \in Token |-> tokens[t].by],
  closed   <- {t \in Token : tokens[t].revoked},
  seat     <- [d \in Dev |-> IF Live(d)
                               THEN [hub |-> devices[d].hub,
                                     idx |-> devices[d].idx,
                                     key |-> devices[d].key]
                               ELSE None],
  owner    <- [h \in Hub |-> hubs[h].bound]

\* Every step of every handler is an admission, a vacation, a closing or a
\* stutter of Admission: one device per token and none after its revocation,
\* one device per seat, no return of a removed device, no hub taken over from
\* its owner.
ImplementsAdmission == Ledger!Spec

-------------------------------------------------------------------------------
(* Liveness.                                                                 *)

\* Every request is answered; in particular register stops retrying.
RequestsAnswered == \A p \in Proc : ~Idle(p) ~> Idle(p)

\* A hub does not stay bound to a device that was removed.
OrphanBindingCleared ==
  \A h \in Hub, d \in Dev :
    (hubs[h].bound = d /\ devices[d].st = "removed") ~> hubs[h].bound # d

\* A device that falls silent is swept, unless it is heard of again.
SilentDeviceSwept ==
  \A d \in Dev : (Live(d) /\ devices[d].age \in {"silent", "old"})
                   ~> ~(Live(d) /\ devices[d].age \in {"silent", "old"})

-------------------------------------------------------------------------------
(* What the repository says of the program and the program does not do, in   *)
(* some order of the calls named in section 7 of the README.                 *)

\* A hub whose binding was cleared can be claimed by a fresh hub token: no live
\* device holds its seat (handleAdminWGHubResetBind's comment).
UnboundHubClaimable ==
  \A h \in Hub : hubs[h].st = "up" /\ hubs[h].bound = None =>
    \A d \in LiveIn(h) : devices[d].idx # HubIndex

\* A binding is cleared because its device left (clearWGHubBind's comment).
UnboundOnlyOnLeave ==
  [][\A h \in Hub :
       hubs[h].bound # None /\ hubs'[h].bound # hubs[h].bound =>
         devices'[hubs[h].bound].st # "live"]_vars

\* The sweep removes devices that did not report within the TTL (gc.go's head).
SweepSparesHeard ==
  [][GCCommit => \A d \in Dev : Live(d) /\ ~Stale(d) => Live(d)']_vars

\* A hub with live devices is not deleted (deleteWGHub's comment).
DeletionSparesLive ==
  [][\A p \in Proc : DeleteHub(p) =>
       \A d \in Dev : Live(d) => Live(d)']_vars

\* Once release has answered, the token's device does not hold its slot
\* (handleInternalWGTokenRelease's comment).
ReleaseFreesSlot ==
  [][\A p \in Proc : RevokeReleased(p) =>
       LET d == tokens[proc[p].tok].by IN d # None => ~Live(d)]_vars

\* Registering again with the same token and key finds the same device
\* (JOIN_PROTOCOL.md's errors of /v1/register).
ReRegisterIdempotent ==
  \A t \in Token, d \in Dev :
    TokenUsable(t) /\ tokens[t].by = d /\ Live(d) =>
      CanRefresh(t, devices[d].key, d)
=============================================================================
