-------------------------------- MODULE Routing --------------------------------
(***************************************************************************)
(* Cross-hub routing: which peers and routes the control plane hands to a  *)
(* box (/v1/register, /v1/peers) and to a hub (/v1/hub/peers), as functions *)
(* of the database, and the handlers that change what they depend on.      *)
(*                                                                         *)
(* A hub's mesh is named by the hub (meshes are assumed disjoint) and a    *)
(* device's tunnel address by the device.  hubs[h].bound stands for both   *)
(* bound_device_id and pubkey, which Enrollment shows to agree.  Enrolment *)
(* itself is reduced to its effect on the rows: a hub device, a spoke, a   *)
(* departure, the clearing of a binding.                                   *)
(***************************************************************************)
EXTENDS Naturals, FiniteSets

CONSTANTS
  Hub,        \* ids of wg_hubs rows
  Dev,        \* ids of wg_devices rows
  Host,       \* physical boxes: the host_id, or the hostname, a device reports
  Site,       \* LANs (wg_sites within a hub)
  Subnet,     \* egress subnets a hub may advertise
  None,       \* SQL NULL
  Changes     \* the kinds of change the environment makes (a bound)

ChangeKinds == {"enrol", "isolate", "depart", "unbind", "link", "endpoint",
                "advertise", "open", "egress", "delete"}

ASSUME ChangesAssumption == Changes \subseteq ChangeKinds
ASSUME NullAssumption == None \notin Hub \cup Dev \cup Host \cup Site \cup Subnet

VARIABLES
  hubs,       \* wg_hubs
  devices,    \* wg_devices
  links       \* wg_hub_links

tables == <<hubs, devices, links>>

-------------------------------------------------------------------------------
(* Routes are what ends up in a WireGuard peer's AllowedIPs.                 *)

HostRoute(d) == <<"host", d>>           \* a device's or a hub's /32
MeshRoute(h) == <<"mesh", h>>           \* a hub's mesh_cidr
SubnetRoute(s) == <<"subnet", s>>       \* an advertised subnet
Default == <<"default", None>>          \* 0.0.0.0/0

Advertised == {SubnetRoute(s) : s \in Subnet} \cup {Default}
Route == {HostRoute(d) : d \in Dev} \cup {MeshRoute(h) : h \in Hub} \cup Advertised

HubRow == [st : {"up", "gone"},
           bound : Dev \cup {None},
           dialable : BOOLEAN,                \* endpoint is not empty
           advertised : SUBSET Advertised]

DevRow == [st : {"none", "live", "removed"},
           role : {"hub", "device"},          \* how it enrolled
           hub : Hub \cup {None},
           site : Site \cup {None},
           host : Host \cup {None},
           isolated : BOOLEAN,
           egress : Hub \cup {None}]

\* A published link is a pair of hubs, in no order.
Link == {{a, b} : a, b \in Hub}

\* The rows have their types and their foreign keys name rows that exist.
TypeOK ==
  /\ hubs \in [Hub -> HubRow]
  /\ devices \in [Dev -> DevRow]
  /\ links \subseteq Link
  /\ \A l \in links : \A h \in l : hubs[h].st = "up"
  /\ \A d \in Dev : devices[d].st = "live" =>
       hubs[devices[d].hub].st = "up" /\
       (devices[d].egress = None \/ hubs[devices[d].egress].st = "up")

NoDevice == [st |-> "none", role |-> "device", hub |-> None, site |-> None,
             host |-> None, isolated |-> FALSE, egress |-> None]

Init ==
  /\ hubs = [h \in Hub |-> [st |-> "up", bound |-> None, dialable |-> TRUE,
                            advertised |-> {}]]
  /\ devices = [d \in Dev |-> NoDevice]
  /\ links = {}

-------------------------------------------------------------------------------
(* The peer list.  A peer is the device whose key it names, and its routes.  *)

Live(d) == devices[d].st = "live"
Configured(h) == hubs[h].st = "up" /\ hubs[h].bound # None

Peer(d, routes) == [peer |-> d, routes |-> routes]
RoutesOf(peers) == UNION {p.routes : p \in peers}

\* Mutant: only the rows with hub_a_id = h are found.
HubLinkSetEndA(h) ==
  {g \in Hub \ {h} : {g, h} \in links /\ h = CHOOSE x \in Hub : x \in {g, h}}

\* hubLinkSet: the links of a hub, whichever end it is.
HubLinkSet(h) == {g \in Hub \ {h} : {g, h} \in links}

\* otherConfiguredHubs: bound, and with an endpoint to dial.
OtherConfiguredHubs(h) ==
  {g \in Hub \ {h} : Configured(g) /\ hubs[g].dialable}

\* hubIDsForHost: hubs with a live device on the same host.
HubsOfHost(host) == {devices[e].hub : e \in {e \in Dev : Live(e) /\ devices[e].host = host}}

\* Mutant: a hub's mesh is distributed whether or not it is linked.
CrossHubEverywhere(h, host) == OtherConfiguredHubs(h) \ HubsOfHost(host)

\* crossHubAllowedExtra: the hubs whose mesh a spoke of h reaches through h.
CrossHub(h, host) ==
  (OtherConfiguredHubs(h) \cap HubLinkSet(h)) \ HubsOfHost(host)

\* subnetRoutes.
SubnetRoutes(routes) == routes \ {Default}

\* Mutant: the default route is not kept to the device's own hub.
EgressRoutesAnyHub(row, hub) ==
  IF row.egress = None THEN {}
  ELSE IF Configured(row.egress) /\ hubs[row.egress].dialable
       THEN hubs[row.egress].advertised
       ELSE {}

\* egressAllowedExtra: row is the device's row, hub its hub's row, as read.
EgressRoutes(row, hub) ==
  IF row.egress = None THEN {}
  ELSE IF row.egress = row.hub THEN hub.advertised
  ELSE IF Configured(row.egress) /\ hubs[row.egress].dialable
       THEN SubnetRoutes(hubs[row.egress].advertised)
       ELSE {}

\* Mutant: a fabric peer carries everything its hub advertises.
FabricPeersWithDefault(h) ==
  {Peer(hubs[g].bound, {HostRoute(hubs[g].bound), MeshRoute(g)} \cup hubs[g].advertised)
     : g \in OtherConfiguredHubs(h) \cap HubLinkSet(h)}

\* otherConfiguredHubPeers: the hub's peers in the hub-to-hub fabric.
FabricPeers(h) ==
  {Peer(hubs[g].bound, {HostRoute(hubs[g].bound), MeshRoute(g)}
                          \cup SubnetRoutes(hubs[g].advertised))
     : g \in OtherConfiguredHubs(h) \cap HubLinkSet(h)}

\* Mutant: an isolated device is still offered to its LAN.
LanPeersOfIsolated(d, row) ==
  {Peer(e, {HostRoute(e)}) :
     e \in {e \in Dev \ {d} : /\ Live(e)
                              /\ devices[e].hub = row.hub
                              /\ devices[e].site = row.site
                              /\ ~row.isolated}}

\* The LAN-direct peers: same site, neither end isolated.
LanPeers(d, row) ==
  {Peer(e, {HostRoute(e)}) :
     e \in {e \in Dev \ {d} : /\ Live(e)
                              /\ devices[e].hub = row.hub
                              /\ devices[e].site = row.site
                              /\ ~row.isolated /\ ~devices[e].isolated}}

\* A spoke's one hub peer.
HubPeer(row, hub) ==
  Peer(hub.bound, {HostRoute(hub.bound), MeshRoute(row.hub)}
                    \cup {MeshRoute(g) : g \in CrossHub(row.hub, row.host)}
                    \cup EgressRoutes(row, hub))

\* buildPeerListResponse, for the device and hub rows its caller read.
PeerList(d, row, hub) ==
  LanPeers(d, row) \cup
    (IF hub.bound = d THEN FabricPeers(row.hub)
     ELSE IF hub.bound # None THEN {HubPeer(row, hub)}
     ELSE {})

\* handleWGHubPeers, for the bound device d of h: every device of the hub,
\* and the fabric.
HubRoster(d, h) ==
  {Peer(e, {HostRoute(e)}) : e \in {e \in Dev \ {d} : Live(e) /\ devices[e].hub = h}}
    \cup FabricPeers(h)

\* What /v1/peers answers a live device now.
PeersNow(d) == PeerList(d, devices[d], hubs[devices[d].hub])

\* What the agent of a live device would configure now.
ConfNow(d) == IF devices[d].role = "hub" THEN HubRoster(d, devices[d].hub)
                                         ELSE PeersNow(d)

-------------------------------------------------------------------------------
(* Enrolment's effects on the tables.                                        *)

\* bindHubDevice; an endpoint the operator left empty becomes the observed one,
\* and the unique indexes keep a second live device out of the hub's seat.
BindHub(d, h, host) ==
  /\ "enrol" \in Changes
  /\ devices[d].st = "none"
  /\ hubs[h].st = "up" /\ hubs[h].bound = None
  /\ \A e \in Dev : ~(Live(e) /\ devices[e].hub = h /\ devices[e].role = "hub")
  /\ devices' = [devices EXCEPT ![d] = [NoDevice EXCEPT
                   !.st = "live", !.role = "hub", !.hub = h, !.host = host]]
  /\ hubs' = [hubs EXCEPT ![h].bound = d, ![h].dialable = TRUE]
  /\ UNCHANGED links

\* allocateDevice.  A spoke without a LAN address of its own may land in the
\* hub's site (None).
EnrolSpoke(d, h, site, host, isolated) ==
  /\ "enrol" \in Changes
  /\ isolated => "isolate" \in Changes
  /\ devices[d].st = "none"
  /\ Configured(h)
  /\ devices' = [devices EXCEPT ![d] = [NoDevice EXCEPT
                   !.st = "live", !.hub = h, !.site = site, !.host = host,
                   !.isolated = isolated]]
  /\ UNCHANGED <<hubs, links>>

\* A leave, a removal, a release or the sweep marks the row removed.  What it
\* says of host, site, isolation and egress is read of live rows only: dropped.
Depart(d) ==
  /\ "depart" \in Changes
  /\ Live(d)
  /\ devices' = [devices EXCEPT ![d] = [NoDevice EXCEPT
                   !.st = "removed", !.role = devices[d].role, !.hub = devices[d].hub]]
  /\ UNCHANGED <<hubs, links>>

\* clearWGHubBind, after a departure or by the admin's reset.
ClearBind(h) ==
  /\ "unbind" \in Changes
  /\ hubs[h].st = "up" /\ hubs[h].bound # None
  /\ hubs' = [hubs EXCEPT ![h].bound = None]
  /\ UNCHANGED <<devices, links>>

-------------------------------------------------------------------------------
(* The admin's handlers.                                                     *)

PublishLink(a, b) ==
  /\ "link" \in Changes
  /\ a # b
  /\ hubs[a].st = "up" /\ hubs[b].st = "up"
  /\ {a, b} \notin links
  /\ links' = links \cup {{a, b}}
  /\ UNCHANGED <<hubs, devices>>

WithdrawLink(l) ==
  /\ "link" \in Changes
  /\ l \in links
  /\ links' = links \ {l}
  /\ UNCHANGED <<hubs, devices>>

\* handleAdminWGHubUpdate: endpoint is taken as it comes, empty or not ...
SetEndpoint(h) ==
  /\ "endpoint" \in Changes
  /\ hubs[h].st = "up"
  /\ hubs' = [hubs EXCEPT ![h].dialable = ~@]
  /\ UNCHANGED <<devices, links>>

\* ... and advertised_routes, once validated against the meshes, replaces.
\* "open" bounds it to nothing or all.
Advertise(h, routes) ==
  /\ \/ "advertise" \in Changes
     \/ "open" \in Changes /\ routes \in {{}, Advertised}
  /\ hubs[h].st = "up"
  /\ hubs[h].advertised # routes
  /\ hubs' = [hubs EXCEPT ![h].advertised = routes]
  /\ UNCHANGED <<devices, links>>

\* handleAdminWGDeviceUpdate: a cross-hub egress needs a subnet to offer.
SetEgress(d, e) ==
  /\ "egress" \in Changes
  /\ Live(d)
  /\ devices[d].egress # e
  /\ e # None => /\ hubs[e].st = "up"
                 /\ hubs[e].advertised # {}
                 /\ e # devices[d].hub => SubnetRoutes(hubs[e].advertised) # {}
  /\ devices' = [devices EXCEPT ![d].egress = e]
  /\ UNCHANGED <<hubs, links>>

\* Mutant: the links have no ON DELETE CASCADE.
DeleteHubKeepingLinks(h) ==
  /\ "delete" \in Changes
  /\ hubs[h].st = "up"
  /\ \A d \in Dev : ~(Live(d) /\ devices[d].hub = h)
  /\ hubs' = [hubs EXCEPT ![h] = [st |-> "gone", bound |-> None,
                                  dialable |-> FALSE, advertised |-> {}]]
  /\ UNCHANGED <<devices, links>>

\* deleteWGHub: links and removed devices go with the hub, egress choices are
\* set to NULL.
DeleteHub(h) ==
  /\ "delete" \in Changes
  /\ hubs[h].st = "up"
  /\ \A d \in Dev : ~(Live(d) /\ devices[d].hub = h)
  /\ hubs' = [hubs EXCEPT ![h] = [st |-> "gone", bound |-> None,
                                  dialable |-> FALSE, advertised |-> {}]]
  /\ links' = {l \in links : h \notin l}
  /\ devices' = [d \in Dev |-> [devices[d] EXCEPT
                                  !.egress = IF @ = h THEN None ELSE @]]

Enrol(d) ==
  \E h \in Hub, host \in Host :
    \/ BindHub(d, h, host)
    \/ \E site \in Site \cup {None}, isolated \in BOOLEAN :
         EnrolSpoke(d, h, site, host, isolated)

Change ==
  \/ \E d \in Dev : Depart(d) \/ (\E e \in Hub \cup {None} : SetEgress(d, e))
  \/ \E h \in Hub : ClearBind(h) \/ SetEndpoint(h) \/ DeleteHub(h)
  \/ \E h \in Hub, routes \in SUBSET Advertised : Advertise(h, routes)
  \/ \E a, b \in Hub : PublishLink(a, b)
  \/ \E l \in links : WithdrawLink(l)

Next == (\E d \in Dev : Enrol(d)) \/ Change

Spec == Init /\ [][Next]_tables

-------------------------------------------------------------------------------
(* Properties.                                                               *)

IsSpoke(d) == Live(d) /\ devices[d].role = "device"

\* The control plane answers the device's polls: 403 for a hub that is not bound.
Served(d) == Live(d) /\ (devices[d].role = "hub" => hubs[devices[d].hub].bound = d)

\* The other hubs whose mesh a spoke is given a route to.
FarHubs(d) ==
  LET routes == RoutesOf(PeersNow(d)) IN
  {g \in Hub \ {devices[d].hub} : MeshRoute(g) \in routes}

\* The boxes a box configures as peers.
PeersOf(d) == {p.peer : p \in ConfNow(d)}

\* What a spoke sends to another hub's mesh is forwarded: its own hub's roster
\* has that hub as a peer with the mesh, and that hub's roster has every live
\* device of its own (crossHubAllowedExtra against otherConfiguredHubPeers and
\* listWGDevicesInHub: three functions of three endpoints).
RoutesForwarded ==
  \A d \in Dev : IsSpoke(d) => \A g \in FarHubs(d) :
    LET h == devices[d].hub IN
    /\ \E p \in HubRoster(hubs[h].bound, h) :
         p.peer = hubs[g].bound /\ MeshRoute(g) \in p.routes
    /\ \A e \in Dev \ {hubs[g].bound} : Live(e) /\ devices[e].hub = g =>
         HostRoute(e) \in RoutesOf(HubRoster(hubs[g].bound, g))

\* The answer finds its way back: if a spoke of h has a route into g's mesh and
\* h can be dialled, then g's roster has h with h's mesh, and every spoke of g
\* has a route into h's mesh unless its box joins h itself.
ReturnPath ==
  \A d \in Dev :
    LET h == devices[d].hub IN
    IsSpoke(d) /\ hubs[h].dialable => \A g \in FarHubs(d) :
      /\ \E p \in FabricPeers(g) :
           p.peer = hubs[h].bound /\ MeshRoute(h) \in p.routes
      /\ \A e \in Dev :
           /\ IsSpoke(e) /\ devices[e].hub = g
           /\ h \notin HubsOfHost(devices[e].host)
           => h \in FarHubs(e)

\* A tunnel needs both ends: of two boxes that the control plane still answers,
\* either both or neither configures the other, whichever of the two endpoints
\* each polls - except that a hub without an endpoint is not offered to others.
PeeringMutual ==
  \A d \in Dev : Served(d) => \A e \in PeersOf(d) :
    /\ Served(e)
    /\ devices[d].hub = devices[e].hub \/ hubs[devices[d].hub].dialable
    => d \in PeersOf(e)

\* 0.0.0.0/0 never crosses hubs: no hub gets it from the fabric, and a spoke
\* gets it only for its own hub's sake.
FullTunnelStaysHome ==
  \A d \in Dev : Live(d) =>
    /\ devices[d].role = "hub" => Default \notin RoutesOf(ConfNow(d))
    /\ Default \in RoutesOf(PeersNow(d)) =>
         /\ devices[d].egress = devices[d].hub
         /\ Default \in hubs[devices[d].hub].advertised

\* No two live devices of one host, on two interfaces, get the same route: two
\* wg interfaces that collide on a route cannot both come up (the comment in
\* buildPeerListResponse on dual-homed boxes).
HostRoutesDisjoint ==
  \A d, e \in Dev :
    /\ IsSpoke(d) /\ IsSpoke(e)
    /\ devices[d].host = devices[e].host /\ devices[d].hub # devices[e].hub
    => {r \in RoutesOf(PeersNow(d)) \cap RoutesOf(PeersNow(e)) : r[1] = "mesh"} = {}

\* A subnet a spoke sends to its hub for another hub's sake is one its hub
\* forwards: an egress choice is distributed only if it can be reached
\* (egressAllowedExtra's comments: "emit nothing rather than blackhole").
EgressReachable ==
  \A d \in Dev, s \in Subnet :
    LET h == devices[d].hub IN
    /\ IsSpoke(d) /\ devices[d].egress # h
    /\ SubnetRoute(s) \in RoutesOf(PeersNow(d))
    => SubnetRoute(s) \in RoutesOf(FabricPeers(h))

\* Forwarding never loops between two hubs: if h sends a subnet to g, g does
\* not send it to h (wg-multi-hub-routing.md on loops).
SubnetsLoopFree ==
  \A g, h \in Hub, s \in Subnet :
    ~ /\ \E p \in FabricPeers(h) : p.peer = hubs[g].bound /\ SubnetRoute(s) \in p.routes
      /\ \E p \in FabricPeers(g) : p.peer = hubs[h].bound /\ SubnetRoute(s) \in p.routes

\* A hub that is in use can be dialled (wg-multi-hub-routing.md: a public
\* endpoint is what qualifies a hub).
BoundHubDialable == \A h \in Hub : Configured(h) => hubs[h].dialable
===============================================================================
