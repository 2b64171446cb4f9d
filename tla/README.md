# A model of polar-wg's control plane

polar-wg is the control plane of a WireGuard mesh: an HTTP service over a
PostgreSQL database that enrols boxes as *hubs* or *devices*, hands every box
the peers it should configure, and takes boxes out again when they leave, are
removed, or fall silent.  This directory holds TLA+ modules translated from its
source, TLC configurations that check them on small instances, and proofs that
TLAPS checks for every value of the constants.

Sections: 1 the system, 2 the modules, 3 the runs, 4 bounds and fairness,
5 what is proved, 6 abstractions and what is not modelled, 7 where the model and
the repository's words disagree, 8 the plan.

## 1. The system

| Component | Source | State it keeps | Operations |
|---|---|---|---|
| Enrolment | `alloc.go`, `store.go`, `handlers.go`, `internal_cloud.go` | tables `wg_hubs`, `wg_tokens`, `wg_devices` | mint hub / device token, `/v1/register`, `/v1/leave`, `/v1/heartbeat`, `/v1/token/refresh`, admin revoke / remove / reset-bind / delete hub, cloud mint / get / release |
| Stale-device sweep | `gc.go` | none of its own (one transaction per tick) | select the stale, mark them removed, unbind their hubs |
| Sites | `alloc.go`, `store.go` | `wg_sites` (slug, `s_index`) | resolve or create on register |
| Hub configuration | `handlers.go`, `store.go` | configuration columns of `wg_hubs`, `mesh_cidr` | create with a token, admin update, suggest a free /24 |
| Routing | `handlers.go`, `store.go` | `wg_hub_links`, `advertised_routes`, `egress_hub_id`, `isolated` | publish / withdraw a link, egress opt-in, `/v1/peers`, `/v1/hub/peers` |
| DNS zone | `dns_handlers.go` | none (computed) | `/v1/dns/zone` |
| Device agent | `join-linux.sh`, `install_script.go` | `/etc/wgctl/<iface>.json`, the WireGuard configuration | join, refresh tick, self-evict |
| Install bundles | `bundle_handlers.go`, `bundle_assets.go`, `store.go` | `wg_bundles`, files | upload, set latest, delete, download |
| Hub status | `hub_status_*.go`, `hub_local_*.go` | in-memory cache, `wg_heartbeats` | poll, serve, self-poll of the local hub |
| Auth and plumbing | `auth.go`, `plugin.go`, `internal_wg_link.go`, `metrics.go`, `cmd/wg-svc` | none | sessions by a header or a cookie, routes, metrics, start and stop |
| Admin page | `ui/` | browser state | calls of the admin API |

Handlers run concurrently, one goroutine per request, in possibly several
instances of the service; they share nothing but the database (and two
in-memory caches).  `/v1/register` is the only transaction that is
`SERIALIZABLE`; the sweep is a `READ COMMITTED` transaction; everything else is
a sequence of statements that commit one by one.  What is hard here is
therefore: two handlers between each other's statements, a handler that stops
half way, the one retry of a serialization failure, rows read before another
handler changed them, tokens that outlive what they were issued for, and the
several columns and rows that have to say the same thing (a hub's
`bound_device_id`, its `pubkey`, and the device row that holds `d_index` 1).

Boxes talk to the control plane over HTTP only, and only when they choose: a
script run by hand, and a systemd timer afterwards.  What is hard on their side
is that answers may be lost and are stale when they are applied, and that the
files, the kernel interface and the enabled units of a box are changed one by
one, by two programs that share no lock, on a machine that may go down between
any two of the changes.

What makes each component correct:

- *Enrolment*: a token admits one device; two live devices never share a tunnel
  address or a key; a hub row names one device, entirely or not at all; a hub is
  not taken over from its owner; a removed device never comes back and does not
  keep a hub; every request is answered.
- *Sweep*: silent devices go, reporting ones stay.
- *Routing*: what three endpoints tell three boxes fits together - a route a
  spoke is given is forwarded by its hub and by the far hub, the answer comes
  back, a tunnel has both its ends, a full tunnel stays with the box's own hub,
  a box on two hubs is not given the same route twice.
- *Device agent*: an interface that is up can still be taken down; its key is
  the one the control plane knows for its address; a box that joined comes up,
  also after a reboot; a removed one goes down; only one that is refused (removed,
  or its bearer expired) gives up its files.
- *Hub configuration*: meshes are disjoint, advertised subnets are outside every
  mesh, an edit brings nothing back that another one did not change meanwhile.
- *Sites*: the boxes of one LAN are in one site; nobody is refused while there is
  room.
- *DNS zone*: a name stands for one device, whoever asks.
- *Bundles*: a platform has one latest bundle and keeps it; who is sent to a bundle
  gets that bundle.
- *Hub status*: a hub shown as fresh was heard of within the limit; one that
  reports is shown as fresh, also when a fetch is missed; one that dock has
  forgotten drops out.

## 2. The modules

| Module | What it is |
|---|---|
| `Admission` | what enrolment promises: an abstract ledger of tokens, seats and hub owners |
| `Enrollment` | the three tables, every handler that writes them, the sweep; refines `Admission` |
| `Routing` | the peer lists as functions of the tables, and the handlers that change what they depend on |
| `PeerPoll` | extends `Routing` with the boxes: answers computed from rows read earlier, lost, configured |
| `BoxAgent` | one interface of a Linux box: script, tick, files, units, reboots |
| `HubConfig` | minting a hub and editing one, statement by statement: meshes, routes, and what an edit may bring back |
| `Zone` | the sites and seats of one hub as registers take them, and the names its devices are answered |
| `Catalogue` | what the table of bundles promises: offered, latest of a platform, withdrawn |
| `Bundles` | the bundles' rows under transactions with row locks, and the two-step download; refines `Catalogue` |
| `HubStatus` | reports, fetches, the cache and their timers |
| `Enrollment_proofs`, `EnrollmentPromises_proofs` | theorems about `Enrollment` |
| `HubConfig_proofs`, `Zone_proofs`, `Bundles_proofs`, `HubStatus_proofs`, `BoxAgent_proofs` | theorems about the modules of that name |
| `Routing_proofs` | theorems about `Routing` and `PeerPoll` |
| `MC*` | the symmetry sets and the small values of the model-checked instances |

`Enrollment`, `HubConfig` and `Zone` look at the same handlers from three sides.
`Enrollment` has the ledger (who is admitted, by which token, to which hub and
seat); `HubConfig` has what a hub token's minting and the admin's edit write into
the hub row, with binding reduced to a flag and the endpoint it fills in; `Zone` has,
for one hub that is bound, which site and seat the register transaction picks.
`Routing` reads what they write.

**Enrollment.**  `hubs`, `tokens` and `devices` are the tables; a row not yet
inserted has `st = "none"`, a deleted one `"gone"`.  A handler of several
statements is a request `proc[p]` that takes one step per statement; `Arrive`
starts one, `Step` runs its next statement, `Fail` ends it anywhere (a statement
fails, the client goes away, the service dies).  A handler of one statement is
an action without a request.

| Code | Actions |
|---|---|
| `createWGTokenForHub`, `createWGTokenForDevice` | `StartMintHub`, `CreateHub`, `InsertHubToken`; `MintDeviceToken` |
| `allocateOrBindDevice`, `doAllocate` | `StartRegister`, `RegisterSnapshot`, then `CommitBind` (`bindHubDevice`), `CommitAlloc` (`allocateDevice`), `CommitRefresh` (`refreshExistingDevice`), or `SerializationFailure`, `DuplicateKey` |
| `handleWGLeave`, the admin's remove, `handleInternalWGTokenRelease` | `StartLeave`, `StartRemove`, `StartRelease`, then `MarkRemoved`, `ReadHub`, `ClearBind`, `RevokeReleased` |
| token revoke, reset-bind, `deleteWGHub` | `RevokeToken`, `ResetBind`, `StartDeleteHub` and `DeleteHub` |
| heartbeat, token refresh | `StartHeartbeat`, `Heartbeat`; `StartTokenRefresh`, `TokenRefresh` |
| `sweepStaleWGDevices` | `GCSelect`, `GCCommit`, `GCFail` |
| time | `Expire` (a token's `expires_at`), `Age` (a device past the sweep's cutoff) |

The register transaction reads one snapshot (`RegisterSnapshot` remembers the
rows it is going to update) and commits only if those rows are unchanged, the
partial unique indexes admit the insert and the foreign key has a target.  This
is less than `SERIALIZABLE` gives, so what holds here holds there.

**Routing.**  `HubLinkSet`, `OtherConfiguredHubs`, `HubsOfHost`, `CrossHub`,
`EgressRoutes`, `FabricPeers`, `LanPeers`, `PeerList` and `HubRoster` are
`hubLinkSet`, `otherConfiguredHubs`, `hubIDsForHost`, `crossHubAllowedExtra`,
`egressAllowedExtra`, `otherConfiguredHubPeers`, the LAN loop of
`buildPeerListResponse`, that function, and `handleWGHubPeers`.  A route is a
device's /32, a hub's mesh, an advertised subnet or 0.0.0.0/0.  The actions are
the effects of enrolment on the rows (`BindHub`, `EnrolSpoke`, `Depart`,
`ClearBind`) and the admin's handlers (`PublishLink`, `WithdrawLink`,
`SetEndpoint`, `Advertise`, `SetEgress`, `DeleteHub`).

**PeerPoll.**  `conf[d]` is what box `d` has configured, `poll[d]` the device
row and the hub row its request has read.  `Register` and `StartPoll` read them,
`Configure` computes the answer from them and from the other tables as they are
by then, `Lose` drops it, `Evict` is a 401.

**BoxAgent.**  `script` is a run of `join-linux.sh` (register with curl's
retries, write the state file, render, enable the units) or of the leave command
it prints; `tick` is a run of `wgctl-refresh-linux` (ask, render, sync; or on a
401 down, disable, remove).  The two take no lock against each other, and `clashed`
is history: an eviction ran beside a script since the interface was last down with
neither of them under way (`Observe`).  `state`, `conf` and `enabled` survive `Reboot`;
`iface` and `active` do not.  `devices` is the control plane's answer to this
box, reduced from `Enrollment`: a fresh token admits, the device's own token and
key are recognised, everything else is refused.

**HubConfig.**  A mesh is a run of /24s (`at`, `size`), so meshes nest and overlap
as prefixes do.  A request `req[p]` walks through the statements:

| Code | Actions |
|---|---|
| `createWGTokenForHub` | `StartMint`, `Suggest` (`suggestFreeMeshCIDR`, which compares texts), `Lookup` (reuse of an unbound hub, or the slug is taken), `Validate` (`validateMeshCIDRDisjoint`), `Insert` or `InsertFails` (`createWGHub`), `InsertToken` |
| `handleAdminWGHubUpdate` | `StartUpdate` (reads the row), `List` (reads the hubs and checks mesh and routes), `Update` (`updateWGHub`) |
| elsewhere | `Bind`, `Unbind`, `Delete`; `Fail` ends a request anywhere |

`behind`, `raced` and `overtaken` are history: which requests have read hubs before
somebody wrote a mesh, which hubs such a request has written, and which edits have
read a row that another edit changed since.  Without them the properties could only
be false: nothing in the schema keeps two meshes apart, and an edit writes every
column back.  `Bind` gives a hub without an endpoint the one the register came with.

**Zone.**  `sites` and `devs` are the rows of one bound hub.  `Read` is what
`allocateDevice` reads and decides (`resolveOrCreateWGSite`, `createSite`,
`pickFreeSIndexInHub`, `pickFreeDIndex`), `Commit` what it writes if the unique
indexes admit it, `ReadRefuses` and `DuplicateKey` its refusals.
`RefreshExisting` and `MarkRemoved` change or end a row.  `StartZone` and
`AnswerZone` are the two reads of `handleWGDNSZone`; `ZoneFor` is the answer, as
a recursive function over the sorted list, the caller appended.  A name is a
sequence of the parts that the code joins by `-`, so that a hostname can look like
a name the code makes up.

**Bundles.**  `rows` is what is committed; what an open transaction has written is
in its request (`cleared`, `marked`), the row locked.  Upload is `StartUpload`,
`Lookup`, `Insert`, `SetAsset` (or `SetAssetFails`, which the code only logs) and,
if it promotes, the transaction of set-latest: `FindLatest`, `ClearLatest` (the
UPDATE that waits for locks and looks again), `MarkLatest` (which waits for the
partial unique index), `Commit`, or `Rollback`.  `StartDelete`, `Delete`.
`GetLatest` and `GetVersion` are the redirect and the download that follows it.

**HubStatus.**  Time is counted in ticks and an age saturates past every limit.
`Report` is `hubLocalSelfPollOnce` (or a remote agent) pushing a frame to dock,
`Forget` dock dropping one, `Fetch` and `Apply` the poller's request and the swap
of the cache, `FetchFails` and `ReportFails` their failures, `StartService` and
`Crash` the process.  The poller fetches at once when it starts and makes its ticker
when that fetch has returned (`poll.ticker`); `since` counts from there, afterwards
from where the ticker fired.  Timers are urgent: `Tick` does not pass over one that
has fired.  `heard`, `steady` and `missed` are history.

## 3. The runs

| Run | Instance | What it shows |
|---|---|---|
| `EnrollRace` | 1 hub, 3 tokens, 3 devices, 2 keys, 2 requests, `d_index` up to 3; mint, register, leave, remove, release | `TokenSingleUse`, `SeatsExclusive`: races for a token, an address, a key and the hub's seat admit one. `OrphanBindingHasCleaner`: a hub bound to a removed device has a request about to clear it. `ImplementsAdmission`: each step is one entry of the ledger, or none |
| `EnrollAdmin` | 1 hub, 2 tokens, 2 devices, failures; the admin's and the cloud's handlers, rotation, expiry | the same ledger under reset-bind, delete, revoke and handlers that stop half way; `BindingAgrees`: the hub row never mixes two devices |
| `EnrollLive` | 1 hub, 2 tokens, 2 devices, the sweep beside two requests; only the sweep's transaction may fail; fair | `RequestsAnswered` (the retry ends), `OrphanBindingCleared`, `SilentDeviceSwept`, a device that never reported included |
| `RoutePeers` | 2 hubs, 4 boxes on 2 hosts, 1 LAN; every kind of change, advertisement being of 0.0.0.0/0 or nothing | `RoutesForwarded`, `ReturnPath`, `PeeringMutual`: the three endpoints agree in every state |
| `PollTunnel` | 2 hubs, 3 boxes, 1 subnet; egress, advertisement of everything or nothing, links, deletion | `FullTunnelStaysHome` of what is answered and `TunnelOnlyToOwnHub` of what is configured, however stale the rows |
| `PollSettles` | 2 hubs, 3 boxes, three polls in flight, fair | `ConfigurationFollows`, `RemovedBoxStops` |
| `BoxLife` | 2 tokens, 3 keys, 2 retries, 2 reboots; remove, expire and leave, also under a running script; fair | `InterfaceGoverned`, `AddressMatchesKey`: but for an eviction that overlapped a script, what is up can be taken down and has the key the control plane knows. `EvictsOnlyRefused`: no lost answer, interruption or reboot costs a box its files. `TunnelComesUp`, `EvictionCompletes` |
| `HubMeshes` | 2 hubs, 2 requests, meshes of one and two /24s, an advertised /24; edits leave the endpoint blank, a register fills it in | `OverlapNeedsRace`: meshes overlap only where one request overtook another. `UpdateLosesNothing`: an edit brings an old mesh or old routes back only where another edit overtook it. `RoutesOutsideOthers` |
| `ZoneNames` | 2 requests, 4 device ids, 3 seats, 2 `s_index`, 4 places (two of one LAN, one of another, one of none), 1 slug that imitates, 2 hostnames of which one is empty | `LanMatesShareSite`; `RefusedOnlyWhenFull`: no refusal while there are seats and, for a new site, `s_index`; `NamesAgree`: all devices are told the same of a name |
| `BundleRace` | 2 bundles, 2 platforms, 2 admins, 1 download, failing statements, fair | `OneLatestPerPlatform`, `LatestSurvives`, `RedirectServesLatest`, `BundleRequestsAnswered`. `ImplementsCatalogue`: readers of the table see whole promotions only |
| `StatusTimes` | 1 key, 2 boxes, poll interval 4, report interval 2, latency 1, failures and restarts, fair | `FreshMeansHeard`. `ReportingHubFresh`: a hub that reports in time is fresh while no fetch is missed, and one missed fetch is survived. `ForgottenHubDropped` |
| `ResetBindClaim` | refuted | reset-bind leaves the seat taken (section 7) |

Each property of a run has a mutant of a mapped definition - a dropped check, a
forgotten column, two commands swapped - that makes the run fail; mutants stand
next to the definition they change, with a comment that says what bug they are.

`RoutePeers`, `PollTunnel` and `BoxLife` do not check for deadlock: ids, keys,
reboots and the kinds of change are bounded, so an instance runs out of things to
do when every box has left.  All other runs do.

## 4. Bounds and fairness

*Bounds.*  Ids of rows are a finite set and a row id is inserted once; keys of
the box are generated once each; `Requests`, `Changes` and `Events` name the
kinds of request, change and event an instance has, so that each run is about
one question; `MaxIndex`, `MaxRetries`, `MaxCrashes` and `MaxInFlight` are
numbers of the code (254, 3) or of the environment made small.

Why they are enough.  A race of the tables is between two requests (the third
loser of a race meets the same rows as the second), over one hub (no statement
of enrolment looks at two hubs); three tokens and three device rows allow a
race, a departure and a successor.  `MaxIndex = 3` gives two free seats, so both
"same seat" and "next seat" happen; `2` exhausts them.  Routes across hubs
involve two hubs and a box at either end, the third and fourth box are a LAN
neighbour and a second interface of one host; a third hub matters only to
section 7's dual-homed case.  A race of meshes or of routes is between two
requests over two hubs; the meshes are a /24 and the /23 that holds it, so both
directions of an overlap occur, and a suggestion meets a mesh that covers it.
Three devices beside the hub's own make a LAN of two, a stranger, and a name that
is taken twice; 3 seats run out, and so do the `s_index` (2, for two LANs, a box of none
and a site asked for by name), with seats left.  Two bundles of two platforms
are enough to promote each other's predecessor and to be deleted under a redirect.
In `StatusTimes` a report and two fetches just fit into the poll interval
(2 + 2 * 1 = 4), the case in which `ReportingHubFresh` claims something; it is tight
there: with either of its bounds one larger TLC refutes it.  Two boots and two
retries interrupt both the script and the tick, and an interrupted boot's successor.

*Symmetry* is used for rows, keys, requests, hosts and, where there are two,
hubs, in runs of safety properties only.

*Fairness.*
- `WF(Step(p))`: a handler's goroutine runs until it answers.  No `Arrive` is
  fair: nobody has to send a request.
- `WF(GCSelect)`, `SF(GCCommit)`: the ticker of `gc.go` keeps firing; its
  transaction may fail any number of times, but not for ever (weak fairness would
  not do: each failure disables the commit until the next tick).  `Age` is not fair.
  The sweep runs only where `WG_STALE_GC_ENABLED` is set: `SilentDeviceSwept` is
  about those deployments.
- `WF(StartPoll)`, `WF(StartTick)`, `WF(Evict)`: the systemd timer keeps firing
  on a box that is up.
- `SF(Configure)`, `SF(Ask)`: answers may be lost any number of times, but not
  for ever while polls go on.  Weak fairness would not do: a lost answer ends
  the poll and disables the step.
- `WF(ScriptStep)`, `WF(TickStep)`: a program that runs goes on, and a crash
  ends it.  `Post` is not fair: the control plane may be down.
- `SF(Step(p))` in `Bundles`: a request runs, and the database hands a row lock to
  those that wait for it in turn; a lock that others keep taking and giving back
  makes the step possible again and again, not for good.  Nothing has to fail.
- `SF(Tick)`, `WF(Report(b))`, `WF(Fetch)`, `WF(Apply \/ FetchFails)` in `HubStatus`:
  time passes whatever is switched on and off, timers fire, and a fetch ends, with an
  answer or without (the client has a timeout).  Nothing makes a fetch succeed, a box
  report or the service run: that fetches succeed again and again, or the service
  restarts again and again, is a premise of `ForgottenHubDropped`.

## 5. What is proved

TLAPS checks, for every value of the constants:

| Module, theorem | Statement | Assumptions |
|---|---|---|
| `Enrollment_proofs`: `Invariance`, `TypeCorrect`, `TokenSingleUseHolds`, `BindingAgreesHolds`, `SeatsExclusiveHolds` | `Spec => []IInv`, `[]TypeOK`, `[]TokenSingleUse`, `[]BindingAgrees`, `[]SeatsExclusive` | `MaxIndex` is a number of at least 2, `None` is not an id or a key |
| `EnrollmentPromises_proofs`: `Refinement` | `Spec => ImplementsAdmission` | the same |
| `EnrollmentPromises_proofs`: `OrphansAreCleaned` | `Spec => []OrphanBindingHasCleaner` | the same, and `~Faults` |
| `HubConfig_proofs`: `Invariance`, `TypeCorrect`, `OverlapNeedsRaceHolds`, `UpdateLosesNothingHolds`, `RoutesOutsideOthersHolds` | `Spec => []IInv`, `[]TypeOK`, `[]OverlapNeedsRace`, `UpdateLosesNothing`, `RoutesOutsideOthers` | what an admin types are networks, `None` is none of the ids or networks |
| `Zone_proofs`: `Invariance`, `TypeCorrect`, `LanMatesShareSiteHolds`, `RefusedOnlyWhenFullHolds`, `NamesAgreeHolds` | `Spec => []IInv`, `[]TypeOK`, `[]LanMatesShareSite`, `RefusedOnlyWhenFull`, `NamesAgree` | at least one seat, `s_index` and id; `None` and `Gone` are no rows; a hostname is a sequence |
| `Bundles_proofs`: `Invariance`, `TypeCorrect`, `OneLatestHolds`, `RedirectServesLatestHolds`, `LatestSurvivesHolds`, `Refinement` | `Spec => []IInv`, `[]TypeOK`, `[]OneLatestPerPlatform`, `[]RedirectServesLatest`, `LatestSurvives`, `ImplementsCatalogue` | ids are numbers, the universal arch is an arch, `None` is none of the values |
| `HubStatus_proofs`: `Invariance`, `TypeCorrect`, `FreshMeansHeardHolds`, `ReportingHubFreshHolds` | `Spec => []IInv`, `[]TypeOK`, `[]FreshMeansHeard`, `[]ReportingHubFresh` | intervals are positive, a fetch is shorter than the poll interval; `Invariance` and `FreshMeansHeardHolds`: `Parsed` |
| `Routing_proofs`: `TypeCorrect`, `Forwarding`, `ReturnPaths`, `MutualPeering`, `FullTunnelHome` | `Spec => []TypeOK`, `[]RoutesForwarded`, `[]ReturnPath`, `[]PeeringMutual`, `[]FullTunnelStaysHome` | `None` is no id of a row |
| `Routing_proofs`: `TunnelsOnlyHome` | `PollSpec => []TunnelOnlyToOwnHub` | the same |
| `BoxAgent_proofs`: `TypeCorrect`, `GovernedHolds` | `Spec => []TypeOK`, `[]InterfaceGoverned` | retries and reboots are numbers, `None` is no token, key or pair of them |
| `BoxAgent_proofs`: `KeyMatchesHolds`, `EvictsOnlyRefusedHolds` | `Spec => []AddressMatchesKey`, `EvictsOnlyRefused` | the same, and no "reinstall" among the events |

*Enrolment.*  `TokenSingleUse`, `BindingAgrees` and `SeatsExclusive` are not
inductive: a state in which a request is about to commit on the strength of a
token it never read satisfies them, and the commit breaks them.  `IInv` adds
`RequestsSound`, what a request in flight may rely on - a register transaction
about to bind saw an issued, unconsumed, unrevoked token of role hub and an unbound
hub row, a removal about to mark holds an inserted device and its hub - and
`RowsSound`, the columns that are set together.  First-updater-wins turns what the
request *saw* into what *is*: the row it saw is the row that is there, so the check
of the snapshot still holds at the commit.  `IInv` is preserved by one lemma per
group of actions over a handful of frame lemmas (`ReadStep`, `LoneWrite`,
`TokenWrite`, `HubDeviceWrite`, `DeviceWrite`, `AdmissionWrite`).

`Refinement` maps each action to an admission, a vacation, a closing or a
stutter of `Admission`; the admission is the one step that needs all of `IInv`
(`Admits`).  `OrphansAreCleaned` follows the argument "no step other than
`MarkRemoved` makes an orphan, `MarkRemoved` becomes its cleaner, and a cleaner
either clears the binding or finds it gone".

*Hub configuration.*  `OverlapNeedsRace` alone says nothing of a request that is
about to write.  `IInv` adds, for a request that is not behind, that the check it
made still holds (`MintSound`, `UpdateSound`): its mesh is disjoint from all others,
and what it read of its hub is what is there.  A step either writes no mesh, and
every check stands (`OthersSound`), or writes one, and every reader is behind
(`MeshWrite`).  `OverlapIsMeeting` shows that `cidrOverlaps`' two containments are
all the ways two networks can meet.

`UpdateLosesNothing` needs one thing more, `ReadsStand`: the mesh and the routes an
edit has read are those of its row, unless it was overtaken.  Only an edit writes them
into a row that is there, and it then overtakes all others of that row; a mint writes
a row nobody has read, a register and a departure write other columns.

*Sites.*  The invariant is that sites are numbered without gaps and every device
that asked for no site is in the *first* site of its LAN; a register about to
commit either found that first site, which stays first because new sites are above
all others, or makes one above all, having seen none (`CommitSound`).  Who commits
on an older view fails on `s_index` or on the slug.  For `RefusedOnlyWhenFull` a
register that was not overtaken still finds what it read (`UpToDate`).  That the
least number of a set exists (`LeastIsLeast`) comes from the library's
well-foundedness of the naturals.

*Names.*  The zone is computed from a list, and the proof is about the list only.
Live devices have different seats (`SeatsApart`, an invariant of its own that the
unique index keeps), so numbering each by the seats below it lists them all, in the
order of their seats (`OrderExists`, `ListedIs`).  That there is a function with the
recursive equation of `NamesGiven` is shown for every length by its least
counterexample (`NamesExist`), since the library's induction theorems take operators.
From the equation: an entry is given its label if none before it was, and the label
with its id behind it otherwise; so, of one-part hostnames, a name without an id
stands for the first entry of that label, and a name with one for the entry with
that id (`NameSays`).  The caller, appended to a list that has it already, is never
the first of a label unless it was renamed or removed in between, and then nobody
else has the label: two callers' zones agree (`ZonesAgree`).

*Hub status.*  Every copy of a frame - at dock, in an answer under way, in the
cache - is at least as old as the last report of its key (`FramesHeard`): time ages
all of them alike, and a copy is never made younger.  This is where the proof
needs `Parsed`.

That a reporting hub stays fresh is an argument about time, and `SteadyInv` is its
ledger: after `steady[k]` ticks without a disturbance, a box of key `k` has reported
since or its timer has run for as long (`Reported`); so more than `ReportEvery` ticks
on, dock's frames are no older than `ReportEvery`.  A fetch takes them over, and
`Informed` follows them: through the answer under way with age `ReportEvery` and the
time it has taken; in the cache with age `ReportEvery + Latency + since`, since the
ticker may have started a latency after the frames were taken; and one `PollEvery`
more once the next fetch is under way or has been missed.  The second of these is what
is shown while nothing is missed, at most `ReportEvery + 2 * Latency + PollEvery` when
the next answer arrives: that is where the premise `ReportEvery + 2 * Latency <=
PollEvery` comes in.  After a missed fetch it lasts for as long as the property says.
The proof does not use `Parsed`: a time stamp taken for now() only makes a frame
younger.

*Bundles.*  A transaction of set-latest clears what it *found* latest, waits, and marks
its own row statements later.  `IInv` says that what it wrote is still so when it
commits: the rows it cleared are, as committed, the latest of its platform
(`RequestSound`), because nobody else can write a row it holds; and no row has two
writers, no platform two marked rows (`Exclusive`), because the unique index admits a
mark only if no other row of the platform is latest or about to be.  So at the commit
the cleared rows are *all* the other latest ones.  `Refinement` maps the commit to
`Promote`, the insert to `Offer`, the delete to `Withdraw` and every other step to a
stutter; `LatestSurvivesHolds` reads off the commit that the platform it clears is the
one it marks in.  A download is sound (`DownloadSound`) because a row never changes its
version or its arch and no two rows share both.

*Routing.*  What the tables guarantee is little: a live device and its egress are
of hubs that are there, a link too, and whoever a hub is bound to enrolled as a
hub, as that one (`DevicesPlaced`, `LinksSound`, `BindingsSound`).  The rest is
about the three endpoints.  `FarHubsAre` reduces "some peer in the answer routes
this mesh" to `CrossHub`, because no other part of an answer can hold a mesh
(`TagsDiffer`, `EgressSound`); `HubPeersAre` and `SpokePeersAre` say who is
configured by whom, and `PeeringMutual` is the symmetry of these relations.

*Polls.*  The rows a request has read may be stale in everything but a device's
role and hub, which no handler changes (`RowsKept`), so the hub device that was
bound when they were read is still a device of that hub, if a removed one
(`PollSound`).  That is enough for `TunnelsOnlyHome`.

*Box.*  For `InterfaceGoverned` (`GInv`): there is no configuration without a state
file; an interface that is up has its configuration, and an eviction that is past
its first command has it down, unless there was a clash.  Only a script brings an
interface up under an eviction, and then they overlap.  For the other two the files
are followed to where they come from: the state file is what the control plane knows,
the configuration is made from it, and the interface from the configuration, but for
a clash (`FilesSound`); a script runs over no other install, for a device that is
known, until an eviction takes its files away (`ScriptSound`); a tick is about the
install there is and evicts a device that is refused for good (`TickSound`).  All
three break with `--reinstall`, which runs a script over an install.

Model-checked only: the liveness properties (their proof needs ENABLED).  Every
invariant, every action property and every refinement of the runs is stated by a
theorem.

## 6. Abstractions and what is not modelled

Over-approximations (the model allows more than the code; what holds of it holds
of the code):
- the register transaction is snapshot isolation with first-updater-wins, not
  full serializability, and a serialization failure may be reported at any time;
- first-updater-wins compares row values, so a row that was changed and changed
  back counts as unchanged;
- a foreign key that lost its target is reported as a serialization failure, with
  the retry that the code does not make for it;
- `Fail` may end any handler between any two statements;
- in `Routing`, a removed row keeps its role and its hub only (the rest is read of
  live rows), and `ClearBind` and `Depart` happen in any order and at any time.

Abstractions:
- `PeerPoll` computes an answer from the two rows read first and from everything
  else at once when it is configured: an answer that mixes two states of the links
  and of the other hubs is not covered;
- in `Enrollment` and `Routing` a tunnel address is the pair (hub, `d_index`) and a
  mesh is named by its hub: meshes are taken to be disjoint, which `HubConfig` shows
  to be so as long as no two writers of meshes overlap in time;
- `TokenSingleUse` and its fellows speak of row ids; names, endpoints, LAN
  addresses and counters are left out;
- a device belongs to one physical host for its life and is not moved between
  hosts; `Host` stands for the `host_id` or the hostname, whichever is compared;
- `Routing` has one flag for a hub's endpoint (empty or not); the endpoints of
  LAN peers and `hubEndpointFor`'s hairpin choice are data no property tells apart;
- `SetEgress` is one step (the code reads the hub, then writes the device): what may
  change after the check is what the other actions of `Routing` change anyway;
- `HubConfig`: networks are made of whole /24s; label, keepalive, refresh and policy
  are left out, and a removed device's binding is a flag;
- `Zone`: one hub, bound for good; the register transaction commits if the unique
  indexes admit its rows, which is less than `SERIALIZABLE` gives; a device id is
  given out once;
- `Bundles`: one `os`, as bundles of different ones never meet in a statement; an
  asset is named by what it holds; the file name given to the assets service, which
  two platforms may share, is not modelled;
- `HubStatus`: one hub's page; ages instead of time stamps; dock's list is in any
  order (`Replaced`);
- `HubStatus`: one clock - `lookup` compares dock's time stamp with the service's
  clock, and a skew between the two hosts shifts every age - and a report takes no
  time;
- `Enrollment`: a rotated bearer does not expire (`handleWGTokenRefresh` gives it 90
  days); an enrol token does;
- `BoxAgent` has one interface, and the eviction's `rm` of two files is one step.

External, modelled from how the code uses them: PostgreSQL's isolation levels
and unique indexes, `systemctl`, `wg-quick`, `wg syncconf` and curl's `-f` and
`--retry`.

### Not modelled

- the install script (`install_script.go`): it renders a template; the client it
  installs lives in another repository;
- auth and plumbing: admin sessions are checked by another service, and
  `handleInternalWGDeviceLink` is one idempotent UPDATE of `host_id`;
- the admin page (`ui/`): calls of the admin API, no state of the system;
- within the modelled parts: the body of heartbeats and the token-expiry gauge;
  `rev` of `/v1/hub/peers` and of the zone (no client here looks at it); the
  endpoints of LAN peers and `hubEndpointFor`'s hairpin choice; the byte arithmetic
  of tunnel addresses; `sanitizeHostname` (its result is an input); the parsing of
  `wg show` and of the routing table in `hub_local_wgctl.go` and
  `hub_local_routes.go`; bytes, ETags and cache headers of bundles; the read of the
  hub after a register's commit; the macOS client; the forwarding rules of a hub
  box.

## 7. Where the model and the repository's words disagree

One disagreement has a run: `ResetBindClaim` (reset-bind frees the hub row, but the
old device stays live in the hub's seat, so the fresh token cannot claim the hub).
The properties below are stated in the modules and are refuted as well; each can
be reproduced with the constants given (all other constants as in the runs of the
module, one device row and token per box named, two requests at a time).

| Property | Module, instance | What the model does | What the repository says |
|---|---|---|---|
| `UnboundOnlyOnLeave` | `Enrollment`, `Requests` mintHub, register, leave, remove | two removals of one hub device; a fresh one binds after the first cleared; the second clears the new binding, since `clearWGHubBind` updates by hub id alone | `store.go:210-213`: "called from /v1/leave when the hub device itself leaves" |
| `OrphanBindingHasCleaner` | `Enrollment`, mintHub, register, leave, `Faults` | a leave stops after marking the device: the hub stays bound to it and the bearer no longer passes for a retry | `doc/JOIN_PROTOCOL.md:64-65`: the control plane "MUST also clear `wg_hub`" |
| `SweepSparesHeard` | `Enrollment`, mintHub, register, beat, age, gc | a device reports between the sweep's SELECT and its UPDATE and is removed | `gc.go:5-6`: "A device that hasn't heart-beated in WGStaleDeviceTTL" is removed |
| `DeletionSparesLive` | `Enrollment`, mintHub, register, delete | a register commits between the count and the DELETE and is cascaded away | `store.go:264-266`: "Refuse if hub has live devices. ON DELETE CASCADE on wg_devices would otherwise silently kill them" |
| `ReleaseFreesSlot` | `Enrollment`, mintHub, mintDevice, register, release | the token is consumed after release read it: the token is dead, its device live | `internal_cloud.go:153-154`: "free its overlay slot and make the token dead. Idempotent" |
| `ReRegisterIdempotent` | `Enrollment`, mintHub, register, rotate | after a token refresh the row no longer carries the enroll token's hash; the same token and key are a conflict | `doc/JOIN_PROTOCOL.md:139`: "idempotent retry with same token + pubkey returns 200" |
| `HostRoutesDisjoint` | `Routing`, 3 hubs, 5 devices, enrol, link | a box is a spoke of two hubs, both linked to a third: both its interfaces get the third's mesh | `handlers.go:274-276`: otherwise "its two wg interfaces collide on the same /24 route and the second wg-quick up fails" |
| `SubnetsLoopFree` | `Routing`, 2 hubs, enrol, link, advertise | two linked hubs advertise one subnet and send it to each other | `doc/wg-multi-hub-routing.md:139-140`: each target belongs to one hub only, so there is no loop |
| `BoundHubDialable` | `Routing`, 2 hubs, enrol, link, endpoint | the admin empties a bound hub's endpoint | `doc/wg-multi-hub-routing.md:13-14`: a non-empty endpoint is a hard requirement of being a hub |
| `LeaveDeregisters` | `BoxAgent`, leave | the printed command sends the credentials in the body; the handler reads headers and answers 401 | `doc/JOIN_PROTOCOL.md:187-191`: "Voluntary deregister. Server marks device removed" |
| `AddressFollowsServer` | `BoxAgent`, reinstall, `FairSpec` | after `--reinstall` the unit is active already and `wg syncconf` leaves the address alone: the old address with the new key | `doc/JOIN_PROTOCOL.md:161-162`: "the client overwrites its conf with each refresh" |
| `InterfaceGoverned` without its `~clashed` | `BoxAgent`, as `BoxLife` | a device is removed, or its bearer expires, while its script runs; the timer of an earlier install evicts it between the script's state file and its `enable --now`: the interface is up and its files are gone | `join-linux.sh:413`: "Self-evicts THIS iface on a 401" |
| `AddressMatchesKey` without its `~clashed` | `BoxAgent`, 3 tokens, remove, no reboot | the interface outlives such an eviction, and the next install finds its unit active and writes a configuration for another device; a tick syncs the key and not the address | the same |
| `EvictsOnlyRefused` | `BoxAgent`, reinstall, remove | a tick that got its 401 for the old device removes the state file that `--reinstall` has just written for the new one | the same |
| `EgressReachable` | `Routing`, 2 hubs, enrol, advertise, egress | a device's egress is another hub that its own hub is not linked to: it gets the subnets, its hub drops them | `handlers.go:450-452,469`: "unreachable egress hub — emit nothing rather than blackhole" |
| `EvictsOnlyRemoved` | `BoxAgent`, expire | a live box whose bearer expired gets a 401 and evicts itself | `doc/JOIN_PROTOCOL.md:270-271`: "If refresh fails (revoked / expired): wg_core keeps running, client marks state `degraded`" |
| `RoutesOutsideMeshes` | `HubConfig`, as `HubMeshes` | one edit moves the hub's mesh and sets routes that cover the mesh it moves to: they were compared with the mesh it leaves | `handlers.go:483-485`: routes "must not overlap ANY hub's mesh_cidr" |
| `FreshMeansHeard` | `HubStatus`, `Parsed = FALSE` | a `recorded_at` the service cannot read counts as now: a silent hub is fresh for ever | `hub_status_poll.go:17-19`: "rather than ghost-fresh data" |
| `NamesAgree` without `NameImitated` | `Zone`, as `ZoneNames`, with the hostname `a-2` | the hub is called `a-2`, device 2 is called `a`: device 2 is in its own zone twice, the second time as `a-2` | `dns_handlers.go:99`: "Avoid duplicate FQDNs" |
| `RefusedOnlyWhenFull` without `SlugImitated` | `Zone`, as `ZoneNames` | a client asks for the slug that the next site would be given: every register that needs a new site fails on it from then on | `alloc.go:464`: `errWGSiteSlotsExhausted` is the answer for a hub that has no site left |

Refusals that are loud and harm nothing, which the model has and no property is
about: a token re-issue that leaves `mesh_cidr` blank is compared with a mesh just
suggested and is always refused (`store.go:626`); the suggestion compares texts, so
it proposes a /24 inside a wider mesh, which the check then refuses although its
comment says that picked values pass trivially (`store.go:403`).  Of two edits of
different fields that overlap in time one is lost, since every configuration column
is written back (`UpdateLosesNothing` is refuted without its exception for an edit
that was overtaken).  A hub whose mesh moves keeps its own and its devices' addresses.

`ReportingHubFresh` has the premise `ReportEvery + 2 * Latency <= PollEvery`, which the
defaults (both 30 s) meet only if a fetch takes no time at all: otherwise the sample in
the cache can be a little older than the limit before the next one arrives, though
nothing has failed, and a missed fetch is not survived as the comment at
`hub_status_poll.go:61-62` has it.  The second latency is there because the ticker starts
when the first fetch has returned: with intervals of 5 and 12 and a latency of 7 a hub
is shown as stale after a start of the service although 5 + 7 fit into 12.  The property
leaves out a key of which dock still has a frame of another box: of the two the last in
dock's list is taken, whichever is younger (`hub_status_poll.go:100`), and the hub may be
stale until dock drops the other.

## 8. The plan

Done, in this order: `Admission` and `Enrollment` with their proofs (the core: every
other part reads these tables), `Routing`, `PeerPoll`, `BoxAgent`, `Bundles`,
`HubStatus`, `HubConfig`, `Zone`, and the proofs about all of them; `Catalogue` and
its refinement by `Bundles`.

What could follow:

1. `HubRoster`: `rev` against the roster (a link swapped for another, stamps that
   commit out of order), with a polling hub as its reader.

Hazards not listed with the forty of the project file, for want of a property: what
intermediate caches keep of `/v1/bundle/:version`; two bundles sharing an asset
name; an `asset_id` that could not be stored; two token refreshes at once; a
newcomer in a freed lower seat taking over a name; a box that moved to another LAN
keeping its site; the last byte of an address in a mesh longer than a /24.
