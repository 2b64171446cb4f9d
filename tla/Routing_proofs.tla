----------------------------- MODULE Routing_proofs -----------------------------
(***************************************************************************)
(* Proofs about Routing, and about PeerPoll on top of it, for any number   *)
(* of hubs, boxes, hosts, subnets and requests in flight.                  *)
(***************************************************************************)
EXTENDS PeerPoll, TLAPS

-------------------------------------------------------------------------------
(* The invariant: what the foreign keys and the handlers of enrolment leave   *)
(* true of the rows whatever the admin does.                                 *)

\* A live device is of a hub that is there, and so is its egress.
DevicesPlaced ==
  \A d \in Dev : Live(d) =>
    /\ devices[d].hub \in Hub /\ hubs[devices[d].hub].st = "up"
    /\ devices[d].egress # None =>
         devices[d].egress \in Hub /\ hubs[devices[d].egress].st = "up"

\* Who a hub is bound to enrolled as a hub, as that one.
BindingsSound ==
  \A h \in Hub : hubs[h].bound # None =>
    /\ hubs[h].st = "up"
    /\ devices[hubs[h].bound].st # "none"
    /\ devices[hubs[h].bound].role = "hub"
    /\ devices[hubs[h].bound].hub = h

LinksSound == \A l \in links : \A h \in l : hubs[h].st = "up"

Typed ==
  /\ hubs \in [Hub -> HubRow]
  /\ devices \in [Dev -> DevRow]
  /\ links \subseteq Link

IInv == Typed /\ DevicesPlaced /\ BindingsSound /\ LinksSound

LEMMA IInvTypeOK == IInv => TypeOK
BY DEF IInv, Typed, TypeOK, DevicesPlaced, LinksSound, Live

LEMMA NoneIsNothing ==
  None \notin Hub /\ None \notin Dev /\ None \notin Host /\ None \notin Site
BY NullAssumption

LEMMA NoDeviceTyped == NoDevice \in DevRow
BY DEF NoDevice, DevRow

LEMMA InitIInv == Init => IInv
<1> SUFFICES ASSUME Init PROVE IInv
  OBVIOUS
<1>1. Typed
  BY NoDeviceTyped DEF Init, Typed, HubRow, Link
<1>2. DevicesPlaced
  BY DEF Init, DevicesPlaced, Live, NoDevice
<1>3. BindingsSound /\ LinksSound
  BY DEF Init, BindingsSound, LinksSound
<1>4. QED
  BY <1>1, <1>2, <1>3 DEF IInv

-------------------------------------------------------------------------------
(* The steps.  Most change one row: what the new row must be for the          *)
(* invariant to survive is stated once for a device's and once for a hub's.   *)

\* A device that is there keeps its role and its hub, and a live one is placed.
LEMMA DeviceRowChange ==
  ASSUME IInv, NEW d \in Dev, NEW row \in DevRow,
         devices' = [devices EXCEPT ![d] = row], hubs' = hubs, links' = links,
         row.st = "live" =>
           /\ row.hub \in Hub /\ hubs[row.hub].st = "up"
           /\ row.egress # None => row.egress \in Hub /\ hubs[row.egress].st = "up",
         devices[d].st # "none" =>
           row.st # "none" /\ row.role = devices[d].role /\ row.hub = devices[d].hub
  PROVE  IInv'
<1>1. devices'[d] = row /\ \A e \in Dev \ {d} : devices'[e] = devices[e]
  BY DEF IInv, Typed
<1>2. Typed'
  BY DEF IInv, Typed
<1>3. DevicesPlaced'
  <2> SUFFICES ASSUME NEW e \in Dev, devices'[e].st = "live"
               PROVE  /\ devices'[e].hub \in Hub /\ hubs[devices'[e].hub].st = "up"
                      /\ devices'[e].egress # None =>
                           devices'[e].egress \in Hub /\ hubs[devices'[e].egress].st = "up"
    BY DEF DevicesPlaced, Live
  <2>1. CASE e = d
    BY <1>1, <2>1
  <2>2. CASE e # d
    BY <1>1, <2>2 DEF IInv, DevicesPlaced, Live
  <2>3. QED
    BY <2>1, <2>2
<1>4. BindingsSound'
  <2> SUFFICES ASSUME NEW g \in Hub, hubs[g].bound # None
               PROVE  /\ hubs[g].st = "up" /\ devices'[hubs[g].bound].st # "none"
                      /\ devices'[hubs[g].bound].role = "hub"
                      /\ devices'[hubs[g].bound].hub = g
    BY DEF BindingsSound
  <2>1. /\ hubs[g].st = "up" /\ devices[hubs[g].bound].st # "none"
        /\ devices[hubs[g].bound].role = "hub" /\ devices[hubs[g].bound].hub = g
        /\ hubs[g].bound \in Dev
    BY DEF IInv, BindingsSound, Typed, HubRow
  <2>2. CASE hubs[g].bound = d
    BY <1>1, <2>1, <2>2
  <2>3. CASE hubs[g].bound # d
    BY <1>1, <2>1, <2>3
  <2>4. QED
    BY <2>1, <2>2, <2>3
<1>5. LinksSound'
  BY DEF IInv, LinksSound
<1>6. QED
  BY <1>2, <1>3, <1>4, <1>5 DEF IInv

\* A hub keeps its state and its binding, or loses the binding.
LEMMA HubRowChange ==
  ASSUME IInv, NEW h \in Hub, NEW row \in HubRow,
         hubs' = [hubs EXCEPT ![h] = row], devices' = devices, links' = links,
         row.st = hubs[h].st, row.bound \in {hubs[h].bound, None}
  PROVE  IInv'
<1>1. hubs'[h] = row /\ \A g \in Hub \ {h} : hubs'[g] = hubs[g]
  BY DEF IInv, Typed
<1>2. Typed'
  BY DEF IInv, Typed
<1>3. \A g \in Hub : hubs'[g].st = hubs[g].st /\ hubs'[g].bound \in {hubs[g].bound, None}
  BY <1>1
<1>4. DevicesPlaced'
  BY <1>3 DEF IInv, DevicesPlaced, Live
<1>5. BindingsSound'
  BY <1>3 DEF IInv, BindingsSound
<1>6. LinksSound'
  BY <1>3 DEF IInv, LinksSound, Typed, Link
<1>7. QED
  BY <1>2, <1>4, <1>5, <1>6 DEF IInv

\* A hub device enrols into an empty seat.
LEMMA BindHubStep ==
  ASSUME IInv, NEW d \in Dev, NEW h \in Hub, NEW host \in Host, BindHub(d, h, host)
  PROVE  IInv'
<1> DEFINE row == [NoDevice EXCEPT !.st = "live", !.role = "hub", !.hub = h, !.host = host]
           hub == [hubs[h] EXCEPT !.bound = d, !.dialable = TRUE]
<1>0. /\ hubs[h] \in HubRow /\ hubs[h].st = "up" /\ devices[d].st = "none"
      /\ devices \in [Dev -> DevRow] /\ hubs \in [Hub -> HubRow] /\ links' = links
  BY DEF IInv, Typed, BindHub
<1>1. row \in DevRow /\ row.st = "live" /\ row.role = "hub" /\ row.hub = h /\ row.egress = None
  BY NoDeviceTyped DEF DevRow, NoDevice
<1>2. hub \in HubRow /\ hub.st = "up" /\ hub.bound = d
  BY <1>0 DEF HubRow
<1>3. devices' = [devices EXCEPT ![d] = row]
  BY DEF BindHub
<1>4. hubs' = [hubs EXCEPT ![h] = hub]
  BY <1>0 DEF BindHub
<1> HIDE DEF row, hub
<1>5. Typed'
  BY <1>0, <1>1, <1>2, <1>3, <1>4 DEF IInv, Typed
<1>6. /\ devices'[d] = row /\ \A e \in Dev \ {d} : devices'[e] = devices[e]
      /\ hubs'[h] = hub /\ \A g \in Hub \ {h} : hubs'[g] = hubs[g]
  BY <1>0, <1>3, <1>4
<1>7. \A g \in Hub : hubs'[g].st = hubs[g].st
  BY <1>0, <1>2, <1>6
<1>8. DevicesPlaced'
  <2> SUFFICES ASSUME NEW e \in Dev, devices'[e].st = "live"
               PROVE  /\ devices'[e].hub \in Hub /\ hubs[devices'[e].hub].st = "up"
                      /\ devices'[e].egress # None =>
                           devices'[e].egress \in Hub /\ hubs[devices'[e].egress].st = "up"
    BY <1>7 DEF DevicesPlaced, Live
  <2>1. CASE e = d
    BY <1>0, <1>1, <1>6, <2>1
  <2>2. CASE e # d
    BY <1>6, <2>2 DEF IInv, DevicesPlaced, Live
  <2>3. QED
    BY <2>1, <2>2
<1>9. BindingsSound'
  <2> SUFFICES ASSUME NEW g \in Hub, hubs'[g].bound # None
               PROVE  /\ hubs'[g].st = "up" /\ devices'[hubs'[g].bound].st # "none"
                      /\ devices'[hubs'[g].bound].role = "hub"
                      /\ devices'[hubs'[g].bound].hub = g
    BY DEF BindingsSound
  <2>1. CASE g = h
    BY <1>1, <1>2, <1>6, <2>1
  <2>2. CASE g # h
    <3>1. /\ hubs'[g] = hubs[g] /\ hubs[g].st = "up" /\ hubs[g].bound \in Dev
          /\ devices[hubs[g].bound].st # "none" /\ devices[hubs[g].bound].role = "hub"
          /\ devices[hubs[g].bound].hub = g
      BY <1>0, <1>6, <2>2 DEF IInv, BindingsSound, HubRow
    <3>2. hubs[g].bound # d
      BY <1>0, <3>1
    <3>3. QED
      BY <1>6, <3>1, <3>2
  <2>3. QED
    BY <2>1, <2>2
<1>10. LinksSound'
  BY <1>0, <1>7 DEF IInv, LinksSound, Typed, Link
<1>11. QED
  BY <1>5, <1>8, <1>9, <1>10 DEF IInv

\* A spoke enrols under a hub that is there.
LEMMA EnrolSpokeStep ==
  ASSUME IInv, NEW d \in Dev, NEW h \in Hub, NEW site \in Site \cup {None},
         NEW host \in Host, NEW isolated \in BOOLEAN,
         EnrolSpoke(d, h, site, host, isolated)
  PROVE  IInv'
<1> DEFINE row == [NoDevice EXCEPT !.st = "live", !.hub = h, !.site = site,
                                   !.host = host, !.isolated = isolated]
<1>1. row \in DevRow /\ row.hub = h /\ row.egress = None
  BY NoDeviceTyped DEF DevRow, NoDevice
<1>2. devices' = [devices EXCEPT ![d] = row] /\ hubs' = hubs /\ links' = links
  BY DEF EnrolSpoke
<1>3. devices[d].st = "none" /\ hubs[h].st = "up"
  BY DEF EnrolSpoke, Configured
<1> HIDE DEF row
<1>4. QED
  BY <1>1, <1>2, <1>3, DeviceRowChange

\* A device departs; its row keeps who it was.
LEMMA DepartStep ==
  ASSUME IInv, NEW d \in Dev, Depart(d)
  PROVE  IInv'
<1> DEFINE row == [NoDevice EXCEPT !.st = "removed", !.role = devices[d].role,
                                   !.hub = devices[d].hub]
<1>0. devices[d] \in DevRow
  BY DEF IInv, Typed
<1>1. row \in DevRow /\ row.st = "removed" /\ row.role = devices[d].role /\ row.hub = devices[d].hub
  BY <1>0, NoDeviceTyped DEF DevRow, NoDevice
<1>2. devices' = [devices EXCEPT ![d] = row] /\ hubs' = hubs /\ links' = links
  BY DEF Depart
<1> HIDE DEF row
<1>3. QED
  BY <1>1, <1>2, DeviceRowChange

\* An egress is chosen among the hubs that are there.
LEMMA SetEgressStep ==
  ASSUME IInv, NEW d \in Dev, NEW e \in Hub \cup {None}, SetEgress(d, e)
  PROVE  IInv'
<1> DEFINE row == [devices[d] EXCEPT !.egress = e]
<1>0. /\ devices[d] \in DevRow /\ devices[d].hub \in Hub /\ hubs[devices[d].hub].st = "up"
      /\ devices \in [Dev -> DevRow]
  BY DEF IInv, Typed, DevicesPlaced, SetEgress
<1>1. /\ row \in DevRow /\ row.st = devices[d].st /\ row.role = devices[d].role
      /\ row.hub = devices[d].hub /\ row.egress = e
  BY <1>0 DEF DevRow
<1>2. devices' = [devices EXCEPT ![d] = row] /\ hubs' = hubs /\ links' = links
  BY <1>0 DEF SetEgress
<1>3. e # None => e \in Hub /\ hubs[e].st = "up"
  BY DEF SetEgress
<1> HIDE DEF row
<1>4. QED
  BY <1>0, <1>1, <1>2, <1>3, DeviceRowChange

\* A binding is cleared, an endpoint or the advertised routes replaced.
LEMMA HubSteps ==
  ASSUME IInv, NEW h \in Hub,
         ClearBind(h) \/ SetEndpoint(h) \/ \E routes \in SUBSET Advertised : Advertise(h, routes)
  PROVE  IInv'
<1>0. hubs[h] \in HubRow /\ hubs \in [Hub -> HubRow]
  BY DEF IInv, Typed
<1>1. CASE ClearBind(h)
  <2> DEFINE row == [hubs[h] EXCEPT !.bound = None]
  <2>1. row \in HubRow /\ row.st = hubs[h].st /\ row.bound = None
    BY <1>0 DEF HubRow
  <2>2. hubs' = [hubs EXCEPT ![h] = row] /\ devices' = devices /\ links' = links
    BY <1>0, <1>1 DEF ClearBind
  <2> HIDE DEF row
  <2>3. QED
    BY <2>1, <2>2, HubRowChange
<1>2. CASE SetEndpoint(h)
  <2> DEFINE row == [hubs[h] EXCEPT !.dialable = ~hubs[h].dialable]
  <2>1. row \in HubRow /\ row.st = hubs[h].st /\ row.bound = hubs[h].bound
    BY <1>0 DEF HubRow
  <2>2. hubs' = [hubs EXCEPT ![h] = row] /\ devices' = devices /\ links' = links
    BY <1>0, <1>2 DEF SetEndpoint
  <2> HIDE DEF row
  <2>3. QED
    BY <2>1, <2>2, HubRowChange
<1>3. CASE \E routes \in SUBSET Advertised : Advertise(h, routes)
  <2>0. PICK routes \in SUBSET Advertised : Advertise(h, routes)
    BY <1>3
  <2> DEFINE row == [hubs[h] EXCEPT !.advertised = routes]
  <2>1. row \in HubRow /\ row.st = hubs[h].st /\ row.bound = hubs[h].bound
    BY <1>0 DEF HubRow
  <2>2. hubs' = [hubs EXCEPT ![h] = row] /\ devices' = devices /\ links' = links
    BY <1>0, <2>0 DEF Advertise
  <2> HIDE DEF row
  <2>3. QED
    BY <2>1, <2>2, HubRowChange
<1>4. QED
  BY <1>1, <1>2, <1>3

\* A link is published or withdrawn.
LEMMA LinkSteps ==
  ASSUME IInv,
         \/ \E a, b \in Hub : PublishLink(a, b)
         \/ \E l \in links : WithdrawLink(l)
  PROVE  IInv'
<1>1. hubs' = hubs /\ devices' = devices
  BY DEF PublishLink, WithdrawLink
<1>2. links' \subseteq Link /\ \A l \in links' : \A h \in l : hubs[h].st = "up"
  <2>1. CASE \E a, b \in Hub : PublishLink(a, b)
    <3>1. PICK a \in Hub, b \in Hub : PublishLink(a, b)
      BY <2>1
    <3>2. links' = links \cup {{a, b}} /\ hubs[a].st = "up" /\ hubs[b].st = "up"
      BY <3>1 DEF PublishLink
    <3>3. {a, b} \in Link
      BY DEF Link
    <3>4. QED
      BY <3>2, <3>3 DEF IInv, Typed, LinksSound
  <2>2. CASE \E l \in links : WithdrawLink(l)
    BY <2>2 DEF WithdrawLink, IInv, Typed, LinksSound
  <2>3. QED
    BY <2>1, <2>2
<1>3. Typed' /\ DevicesPlaced' /\ BindingsSound' /\ LinksSound'
  BY <1>1, <1>2 DEF IInv, Typed, DevicesPlaced, Live, BindingsSound, LinksSound
<1>4. QED
  BY <1>3 DEF IInv

\* A hub goes, with its links and the egress choices of it; it has no live
\* device, and no other hub's binding names one of its.
LEMMA DeleteHubStep ==
  ASSUME IInv, NEW h \in Hub, DeleteHub(h)
  PROVE  IInv'
<1> DEFINE gone == [st |-> "gone", bound |-> None, dialable |-> FALSE, advertised |-> {}]
<1>0. hubs \in [Hub -> HubRow] /\ devices \in [Dev -> DevRow] /\ links \subseteq Link
  BY DEF IInv, Typed
<1>1. gone \in HubRow /\ gone.st = "gone" /\ gone.bound = None
  BY DEF HubRow
<1>2. hubs' = [hubs EXCEPT ![h] = gone]
  BY DEF DeleteHub
<1> HIDE DEF gone
<1>3. hubs'[h] = gone /\ \A g \in Hub \ {h} : hubs'[g] = hubs[g]
  BY <1>0, <1>2
<1>4. \A d \in Dev : devices'[d] = [devices[d] EXCEPT
                                     !.egress = IF devices[d].egress = h THEN None
                                                ELSE devices[d].egress]
  BY DEF DeleteHub
<1>5. \A d \in Dev : /\ devices'[d] \in DevRow
                     /\ devices'[d].st = devices[d].st /\ devices'[d].role = devices[d].role
                     /\ devices'[d].hub = devices[d].hub
                     /\ devices'[d].egress = IF devices[d].egress = h THEN None
                                                                      ELSE devices[d].egress
  <2> TAKE d \in Dev
  <2> DEFINE egress == IF devices[d].egress = h THEN None ELSE devices[d].egress
  <2>1. devices[d] \in DevRow
    BY <1>0
  <2>2. egress \in Hub \cup {None}
    BY <2>1 DEF DevRow
  <2>3. devices'[d] = [devices[d] EXCEPT !.egress = egress]
    BY <1>4
  <2> HIDE DEF egress
  <2>4. /\ devices'[d] \in DevRow /\ devices'[d].egress = egress
        /\ devices'[d].st = devices[d].st /\ devices'[d].role = devices[d].role
        /\ devices'[d].hub = devices[d].hub
    BY <2>1, <2>2, <2>3 DEF DevRow
  <2>5. QED
    BY <2>4 DEF egress
<1>6. Typed'
  <2>1. hubs' \in [Hub -> HubRow]
    BY <1>0, <1>1, <1>2
  <2>2. devices' \in [Dev -> DevRow]
    <3>1. devices' = [d \in Dev |-> devices'[d]]
      BY DEF DeleteHub
    <3>2. QED
      BY <1>5, <3>1
  <2>3. links' \subseteq Link
    BY <1>0 DEF DeleteHub
  <2>4. QED
    BY <2>1, <2>2, <2>3 DEF Typed
<1>7. DevicesPlaced'
  <2> SUFFICES ASSUME NEW d \in Dev, devices'[d].st = "live"
               PROVE  /\ devices'[d].hub \in Hub /\ hubs'[devices'[d].hub].st = "up"
                      /\ devices'[d].egress # None =>
                           devices'[d].egress \in Hub /\ hubs'[devices'[d].egress].st = "up"
    BY DEF DevicesPlaced, Live
  <2>1. devices[d].st = "live" /\ devices[d].hub # h
    BY <1>5 DEF DeleteHub, Live
  <2>2. /\ devices[d].hub \in Hub /\ hubs[devices[d].hub].st = "up"
        /\ devices[d].egress # None =>
             devices[d].egress \in Hub /\ hubs[devices[d].egress].st = "up"
    BY <2>1 DEF IInv, DevicesPlaced, Live
  <2>3. devices'[d].egress # None => devices'[d].egress = devices[d].egress /\ devices[d].egress # h
    BY <1>5
  <2>4. QED
    BY <1>3, <1>5, <2>1, <2>2, <2>3
<1>8. BindingsSound'
  <2> SUFFICES ASSUME NEW g \in Hub, hubs'[g].bound # None
               PROVE  /\ hubs'[g].st = "up" /\ devices'[hubs'[g].bound].st # "none"
                      /\ devices'[hubs'[g].bound].role = "hub"
                      /\ devices'[hubs'[g].bound].hub = g
    BY DEF BindingsSound
  <2>1. g # h /\ hubs'[g] = hubs[g]
    BY <1>1, <1>3
  <2>2. /\ hubs[g].st = "up" /\ hubs[g].bound \in Dev
        /\ devices[hubs[g].bound].st # "none" /\ devices[hubs[g].bound].role = "hub"
        /\ devices[hubs[g].bound].hub = g
    BY <1>0, <2>1 DEF IInv, BindingsSound, HubRow
  <2>3. QED
    BY <1>5, <2>1, <2>2
<1>9. LinksSound'
  <2> SUFFICES ASSUME NEW l \in links', NEW g \in l PROVE hubs'[g].st = "up"
    BY DEF LinksSound
  <2>1. l \in links /\ h \notin l /\ g \in Hub
    BY <1>0 DEF DeleteHub, Link
  <2>2. g # h /\ hubs[g].st = "up"
    BY <2>1 DEF IInv, LinksSound
  <2>3. QED
    BY <1>3, <2>1, <2>2
<1>10. QED
  BY <1>6, <1>7, <1>8, <1>9 DEF IInv

LEMMA NextIInv == IInv /\ [Next]_tables => IInv'
<1> SUFFICES ASSUME IInv, [Next]_tables PROVE IInv'
  OBVIOUS
<1>1. CASE UNCHANGED tables
  BY <1>1 DEF tables, IInv, Typed, DevicesPlaced, Live, BindingsSound, LinksSound
<1>2. CASE \E d \in Dev : Enrol(d)
  BY <1>2, BindHubStep, EnrolSpokeStep DEF Enrol
<1>3. CASE Change
  BY <1>3, DepartStep, SetEgressStep, HubSteps, LinkSteps, DeleteHubStep DEF Change
<1>4. QED
  BY <1>1, <1>2, <1>3 DEF Next

LEMMA Invariance == Spec => []IInv
BY InitIInv, NextIInv, PTL DEF Spec

\* The rows have their types, and every foreign key of a live device and of a
\* link names a hub that is there.
THEOREM TypeCorrect == Spec => []TypeOK
BY Invariance, IInvTypeOK, PTL

-------------------------------------------------------------------------------
(* What the answers hold.                                                    *)

LEMMA TagsDiffer ==
  /\ \A d, h, s : /\ HostRoute(d) # MeshRoute(h)
                  /\ HostRoute(d) # Default
                  /\ MeshRoute(h) # SubnetRoute(s)
                  /\ MeshRoute(h) # Default
  /\ \A g, h : MeshRoute(g) = MeshRoute(h) => g = h
BY DEF HostRoute, MeshRoute, SubnetRoute, Default

LEMMA PeerFields ==
  ASSUME NEW d, NEW routes
  PROVE  Peer(d, routes).peer = d /\ Peer(d, routes).routes = routes
BY DEF Peer

\* No mesh is among the routes an egress choice adds, and the default route is
\* only when the choice is the device's own hub and that hub offers it.
LEMMA EgressSound ==
  ASSUME IInv, NEW d \in Dev, Live(d)
  PROVE  LET extra == EgressRoutes(devices[d], hubs[devices[d].hub]) IN
         /\ \A g \in Hub : MeshRoute(g) \notin extra
         /\ Default \in extra => /\ devices[d].egress = devices[d].hub
                                 /\ Default \in hubs[devices[d].hub].advertised
<1> DEFINE h == devices[d].hub
           e == devices[d].egress
<1>1. h \in Hub /\ (e # None => e \in Hub)
  BY DEF IInv, DevicesPlaced
<1>2. \A g \in Hub : hubs[g].advertised \subseteq Advertised
  BY DEF IInv, Typed, HubRow
<1>3. EgressRoutes(devices[d], hubs[h]) \subseteq Advertised
  BY <1>1, <1>2 DEF EgressRoutes, SubnetRoutes
<1>4. Default \in EgressRoutes(devices[d], hubs[h]) => e = h /\ Default \in hubs[h].advertised
  BY DEF EgressRoutes, SubnetRoutes
<1>5. \A g \in Hub : MeshRoute(g) \notin Advertised
  BY TagsDiffer DEF Advertised
<1>6. QED
  BY <1>3, <1>4, <1>5

\* A spoke is never the device its hub is bound to: /v1/peers answers it its LAN
\* and, if the hub is configured, the hub.
LEMMA SpokeAnswer ==
  ASSUME IInv, NEW d \in Dev, IsSpoke(d)
  PROVE  /\ devices[d].hub \in Hub /\ hubs[devices[d].hub].st = "up"
         /\ hubs[devices[d].hub].bound # d
         /\ PeersNow(d) = LanPeers(d, devices[d]) \cup
              (IF hubs[devices[d].hub].bound = None THEN {}
               ELSE {HubPeer(devices[d], hubs[devices[d].hub])})
<1>1. devices[d].hub \in Hub /\ hubs[devices[d].hub].st = "up"
  BY DEF IInv, DevicesPlaced, IsSpoke
<1>2. d # None
  BY NoneIsNothing
<1>3. hubs[devices[d].hub].bound # d
  BY <1>1, <1>2 DEF IInv, BindingsSound, IsSpoke
<1>4. QED
  BY <1>1, <1>3 DEF PeersNow, PeerList

LEMMA LanRoutes ==
  ASSUME NEW d \in Dev, NEW row, NEW p \in LanPeers(d, row)
  PROVE  \E e \in Dev : p.peer = e /\ p.routes = {HostRoute(e)}
<1>1. PICK e \in Dev : p = Peer(e, {HostRoute(e)})
  BY DEF LanPeers
<1>2. QED
  BY <1>1, PeerFields

\* The far meshes of a spoke are those crossHubAllowedExtra adds.
LEMMA FarHubsAre ==
  ASSUME IInv, NEW d \in Dev, IsSpoke(d)
  PROVE  FarHubs(d) = IF hubs[devices[d].hub].bound = None THEN {}
                      ELSE CrossHub(devices[d].hub, devices[d].host)
<1> DEFINE h == devices[d].hub
           far == CrossHub(h, devices[d].host)
           own == HubPeer(devices[d], hubs[h])
           extra == EgressRoutes(devices[d], hubs[h])
           lan == LanPeers(d, devices[d])
<1>1. far \subseteq Hub \ {h}
  BY DEF CrossHub, OtherConfiguredHubs
<1>2. PeersNow(d) = lan \cup (IF hubs[h].bound = None THEN {} ELSE {own})
  BY SpokeAnswer
<1>3. \A g \in Hub, p \in lan : MeshRoute(g) \notin p.routes
  BY LanRoutes, TagsDiffer
<1>4. own.routes = {HostRoute(hubs[h].bound), MeshRoute(h)}
                     \cup {MeshRoute(g) : g \in far} \cup extra
  BY PeerFields DEF HubPeer
<1>5. \A g \in Hub \ {h} : MeshRoute(g) \in own.routes <=> g \in far
  <2>1. \A g \in Hub : MeshRoute(g) \notin extra
    BY EgressSound DEF IsSpoke
  <2> HIDE DEF own, extra, far
  <2>2. QED
    BY <1>4, <2>1, TagsDiffer
<1> HIDE DEF own, lan, far
<1>6. FarHubs(d) = {g \in Hub \ {h} : \E p \in PeersNow(d) : MeshRoute(g) \in p.routes}
  BY DEF FarHubs, RoutesOf
<1>7. CASE hubs[h].bound = None
  BY <1>2, <1>3, <1>6, <1>7
<1>8. CASE hubs[h].bound # None
  <2>1. \A g \in Hub \ {h} : (\E p \in PeersNow(d) : MeshRoute(g) \in p.routes) <=> g \in far
    BY <1>2, <1>3, <1>5, <1>8
  <2>2. FarHubs(d) = far
    BY <1>1, <1>6, <2>1
  <2>3. QED
    BY <1>8, <2>2 DEF far
<1>9. QED
  BY <1>7, <1>8

\* What a far mesh of a spoke is: the mesh of another configured hub, linked to
\* the spoke's configured hub, that no device of the same box joins.
LEMMA FarHubIs ==
  ASSUME IInv, NEW d \in Dev, IsSpoke(d), NEW g \in FarHubs(d)
  PROVE  /\ g \in Hub \ {devices[d].hub}
         /\ Configured(g) /\ Configured(devices[d].hub)
         /\ hubs[g].dialable /\ {g, devices[d].hub} \in links
         /\ g \notin HubsOfHost(devices[d].host)
<1>1. /\ hubs[devices[d].hub].bound # None
      /\ g \in CrossHub(devices[d].hub, devices[d].host)
  BY FarHubsAre
<1>2. QED
  BY <1>1, SpokeAnswer DEF CrossHub, OtherConfiguredHubs, HubLinkSet, Configured

\* The fabric has each dialable hub it is linked to, with its mesh.
LEMMA FabricHas ==
  ASSUME NEW h \in Hub, NEW g \in Hub \ {h}, Configured(g), hubs[g].dialable,
         {g, h} \in links
  PROVE  \E p \in FabricPeers(h) : p.peer = hubs[g].bound /\ MeshRoute(g) \in p.routes
<1> DEFINE routes == {HostRoute(hubs[g].bound), MeshRoute(g)} \cup SubnetRoutes(hubs[g].advertised)
<1>1. Peer(hubs[g].bound, routes) \in FabricPeers(h)
  BY DEF FabricPeers, OtherConfiguredHubs, HubLinkSet
<1>2. QED
  BY <1>1, PeerFields

\* The full tunnel is in no fabric peer's routes.
LEMMA FabricWithoutDefault ==
  ASSUME NEW h, NEW p \in FabricPeers(h)
  PROVE  Default \notin p.routes
<1>1. PICK g \in Hub : p = Peer(hubs[g].bound, {HostRoute(hubs[g].bound), MeshRoute(g)}
                                                  \cup SubnetRoutes(hubs[g].advertised))
  BY DEF FabricPeers, OtherConfiguredHubs
<1>2. p.routes = {HostRoute(hubs[g].bound), MeshRoute(g)} \cup SubnetRoutes(hubs[g].advertised)
  BY <1>1, PeerFields
<1>3. QED
  BY <1>2, TagsDiffer DEF SubnetRoutes

-------------------------------------------------------------------------------
(* The theorems.                                                             *)

\* What a spoke sends to another hub's mesh is forwarded, by its hub and by the
\* other one (RoutesForwarded).
LEMMA ForwardedNow == IInv => RoutesForwarded
<1> SUFFICES ASSUME IInv, NEW d \in Dev, IsSpoke(d), NEW g \in FarHubs(d)
             PROVE  /\ \E p \in HubRoster(hubs[devices[d].hub].bound, devices[d].hub) :
                         p.peer = hubs[g].bound /\ MeshRoute(g) \in p.routes
                    /\ \A e \in Dev \ {hubs[g].bound} : Live(e) /\ devices[e].hub = g =>
                         HostRoute(e) \in RoutesOf(HubRoster(hubs[g].bound, g))
  BY DEF RoutesForwarded
<1> DEFINE h == devices[d].hub
<1>1. \E p \in FabricPeers(h) : p.peer = hubs[g].bound /\ MeshRoute(g) \in p.routes
  BY FarHubIs, FabricHas, SpokeAnswer
<1>2. \E p \in HubRoster(hubs[h].bound, h) : p.peer = hubs[g].bound /\ MeshRoute(g) \in p.routes
  BY <1>1 DEF HubRoster
<1>3. ASSUME NEW e \in Dev \ {hubs[g].bound}, Live(e), devices[e].hub = g
      PROVE  HostRoute(e) \in RoutesOf(HubRoster(hubs[g].bound, g))
  <2>1. Peer(e, {HostRoute(e)}) \in HubRoster(hubs[g].bound, g)
    BY <1>3 DEF HubRoster
  <2>2. HostRoute(e) \in Peer(e, {HostRoute(e)}).routes
    BY PeerFields
  <2>3. QED
    BY <2>1, <2>2 DEF RoutesOf
<1>4. QED
  BY <1>2, <1>3

THEOREM Forwarding == Spec => []RoutesForwarded
BY Invariance, ForwardedNow, PTL

\* The answer finds its way back (ReturnPath): links have no direction, so the
\* far hub's fabric and its spokes see the spoke's hub as it sees them.
LEMMA ReturnNow == IInv => ReturnPath
<1> SUFFICES ASSUME IInv, NEW d \in Dev, IsSpoke(d), hubs[devices[d].hub].dialable,
                    NEW g \in FarHubs(d)
             PROVE  LET h == devices[d].hub IN
                    /\ \E p \in FabricPeers(g) :
                         p.peer = hubs[h].bound /\ MeshRoute(h) \in p.routes
                    /\ \A e \in Dev :
                         /\ IsSpoke(e) /\ devices[e].hub = g
                         /\ h \notin HubsOfHost(devices[e].host)
                         => h \in FarHubs(e)
  BY DEF ReturnPath
<1> DEFINE h == devices[d].hub
<1>1. /\ h \in Hub /\ g \in Hub /\ g # h /\ Configured(h) /\ Configured(g)
      /\ {h, g} \in links
  <2>1. {h, g} = {g, h}
    OBVIOUS
  <2>2. QED
    BY <2>1, FarHubIs, SpokeAnswer
<1>2. \E p \in FabricPeers(g) : p.peer = hubs[h].bound /\ MeshRoute(h) \in p.routes
  BY <1>1, FabricHas
<1>3. ASSUME NEW e \in Dev, IsSpoke(e), devices[e].hub = g, h \notin HubsOfHost(devices[e].host)
      PROVE  h \in FarHubs(e)
  <2>1. h \in CrossHub(g, devices[e].host)
    BY <1>1, <1>3 DEF CrossHub, OtherConfiguredHubs, HubLinkSet
  <2>2. hubs[g].bound # None
    BY <1>1 DEF Configured
  <2>3. QED
    BY <1>3, <2>1, <2>2, FarHubsAre
<1>4. QED
  BY <1>2, <1>3

THEOREM ReturnPaths == Spec => []ReturnPath
BY Invariance, ReturnNow, PTL

LEMMA PeersNamed ==
  ASSUME NEW peers, NEW boxes,
         \A p \in peers : p.peer \in boxes,
         \A e \in boxes : \E p \in peers : p.peer = e
  PROVE  {p.peer : p \in peers} = boxes
OBVIOUS

\* The boxes a live hub device configures, and those a spoke does.
LEMMA HubPeersAre ==
  ASSUME NEW d \in Dev, devices[d].role = "hub"
  PROVE  PeersOf(d) = {e \in Dev \ {d} : Live(e) /\ devices[e].hub = devices[d].hub}
                        \cup {hubs[g].bound : g \in OtherConfiguredHubs(devices[d].hub)
                                                      \cap HubLinkSet(devices[d].hub)}
<1>1. ConfNow(d) = HubRoster(d, devices[d].hub)
  BY DEF ConfNow
<1> DEFINE h == devices[d].hub
           own == {e \in Dev \ {d} : Live(e) /\ devices[e].hub = h}
           others == OtherConfiguredHubs(h) \cap HubLinkSet(h)
           fabric(g) == Peer(hubs[g].bound, {HostRoute(hubs[g].bound), MeshRoute(g)}
                                              \cup SubnetRoutes(hubs[g].advertised))
<1>2. ConfNow(d) = {Peer(e, {HostRoute(e)}) : e \in own} \cup {fabric(g) : g \in others}
  BY <1>1 DEF HubRoster, FabricPeers
<1>3. /\ \A e \in own : Peer(e, {HostRoute(e)}).peer = e
      /\ \A g \in others : fabric(g).peer = hubs[g].bound
  BY PeerFields
<1> HIDE DEF own, others, fabric
<1> DEFINE boxes == own \cup {hubs[g].bound : g \in others}
<1>4. ASSUME NEW p \in ConfNow(d) PROVE p.peer \in boxes
  <2>1. CASE \E e \in own : p = Peer(e, {HostRoute(e)})
    BY <1>3, <2>1
  <2>2. CASE \E g \in others : p = fabric(g)
    BY <1>3, <2>2
  <2>3. QED
    BY <1>2, <2>1, <2>2
<1>5. \A e \in boxes : \E p \in ConfNow(d) : p.peer = e
  <2>1. \A e \in own : \E p \in ConfNow(d) : p.peer = e
    BY <1>2, <1>3
  <2>2. \A g \in others : fabric(g) \in ConfNow(d)
    BY <1>2
  <2>3. \A g \in others : \E p \in ConfNow(d) : p.peer = hubs[g].bound
    BY <1>3, <2>2
  <2>4. QED
    BY <2>1, <2>3
<1> HIDE DEF boxes
<1>6. PeersOf(d) = boxes
  BY <1>4, <1>5, PeersNamed DEF PeersOf
<1>7. QED
  BY <1>6 DEF boxes, own, others

LEMMA SpokePeersAre ==
  ASSUME IInv, NEW d \in Dev, IsSpoke(d)
  PROVE  PeersOf(d) = {e \in Dev \ {d} : /\ Live(e)
                                         /\ devices[e].hub = devices[d].hub
                                         /\ devices[e].site = devices[d].site
                                         /\ ~devices[d].isolated /\ ~devices[e].isolated}
                        \cup (IF hubs[devices[d].hub].bound = None THEN {}
                              ELSE {hubs[devices[d].hub].bound})
<1> DEFINE h == devices[d].hub
<1>1. ConfNow(d) = LanPeers(d, devices[d]) \cup (IF hubs[h].bound = None THEN {}
                                                  ELSE {HubPeer(devices[d], hubs[h])})
  BY SpokeAnswer DEF ConfNow, IsSpoke
<1>2. HubPeer(devices[d], hubs[h]).peer = hubs[h].bound
  BY PeerFields DEF HubPeer
<1>3. {p.peer : p \in LanPeers(d, devices[d])}
        = {e \in Dev \ {d} : /\ Live(e)
                             /\ devices[e].hub = devices[d].hub
                             /\ devices[e].site = devices[d].site
                             /\ ~devices[d].isolated /\ ~devices[e].isolated}
  <2> DEFINE lan == {e \in Dev \ {d} : /\ Live(e)
                                      /\ devices[e].hub = devices[d].hub
                                      /\ devices[e].site = devices[d].site
                                      /\ ~devices[d].isolated /\ ~devices[e].isolated}
  <2>1. LanPeers(d, devices[d]) = {Peer(e, {HostRoute(e)}) : e \in lan}
    BY DEF LanPeers
  <2>2. \A e \in lan : Peer(e, {HostRoute(e)}).peer = e
    BY PeerFields
  <2> HIDE DEF lan
  <2>3. \A p \in LanPeers(d, devices[d]) : p.peer \in lan
    BY <2>1, <2>2
  <2>4. \A e \in lan : \E p \in LanPeers(d, devices[d]) : p.peer = e
    BY <2>1, <2>2
  <2>5. {p.peer : p \in LanPeers(d, devices[d])} = lan
    BY <2>3, <2>4, PeersNamed
  <2>6. QED
    BY <2>5 DEF lan
<1>4. CASE hubs[h].bound = None
  BY <1>1, <1>3, <1>4 DEF PeersOf
<1>5. CASE hubs[h].bound # None
  BY <1>1, <1>2, <1>3, <1>5 DEF PeersOf
<1>6. QED
  BY <1>4, <1>5

\* Peerings have both ends (PeeringMutual).  A hub's peers are its devices and
\* the hubs it is linked to, a spoke's are its LAN and its hub: each of these
\* relations is symmetric, but for the endpoint a fabric peer needs.
LEMMA MutualNow == IInv => PeeringMutual
<1> SUFFICES ASSUME IInv, NEW d \in Dev, Served(d), NEW e \in PeersOf(d), Served(e),
                    \/ devices[d].hub = devices[e].hub
                    \/ hubs[devices[d].hub].dialable
             PROVE  d \in PeersOf(e)
  BY DEF PeeringMutual
<1> DEFINE h == devices[d].hub
<1>1. /\ Live(d) /\ h \in Hub /\ hubs[h].st = "up"
      /\ devices[d].role \in {"hub", "device"} /\ d # None
  BY NoneIsNothing DEF Served, Live, IInv, Typed, DevRow, DevicesPlaced
<1>2. CASE devices[d].role = "hub"
  <2>1. hubs[h].bound = d /\ Configured(h)
    BY <1>1, <1>2 DEF Served, Configured
  <2>2. CASE e \in Dev \ {d} /\ Live(e) /\ devices[e].hub = h
    <3>1. devices[e].role = "device"
      BY <2>1, <2>2 DEF Served, IInv, Typed, DevRow
    <3>2. QED
      BY <1>1, <2>1, <2>2, <3>1, SpokePeersAre DEF IsSpoke
  <2>3. CASE \E g \in OtherConfiguredHubs(h) \cap HubLinkSet(h) : e = hubs[g].bound
    <3>1. PICK g \in Hub \ {h} : /\ e = hubs[g].bound /\ hubs[g].bound # None
                                 /\ {g, h} \in links
      BY <2>3 DEF OtherConfiguredHubs, HubLinkSet, Configured
    <3>2. e \in Dev /\ devices[e].role = "hub" /\ devices[e].hub = g
      BY <3>1 DEF IInv, BindingsSound, Typed, HubRow
    <3>3. {h, g} = {g, h}
      OBVIOUS
    <3>4. h \in OtherConfiguredHubs(g) \cap HubLinkSet(g)
      BY <1>1, <2>1, <3>1, <3>2, <3>3 DEF OtherConfiguredHubs, HubLinkSet
    <3>5. QED
      BY <2>1, <3>2, <3>4, HubPeersAre
  <2>4. QED
    BY <1>2, <2>2, <2>3, HubPeersAre
<1>3. CASE devices[d].role = "device"
  <2>0. IsSpoke(d)
    BY <1>1, <1>3 DEF IsSpoke
  <2>1. CASE /\ e \in Dev \ {d} /\ Live(e) /\ devices[e].hub = h
             /\ devices[e].site = devices[d].site
             /\ ~devices[d].isolated /\ ~devices[e].isolated
    <3>1. devices[e].role \in {"hub", "device"}
      BY <2>1 DEF IInv, Typed, DevRow
    <3>2. CASE devices[e].role = "hub"
      BY <1>1, <2>1, <3>2, HubPeersAre
    <3>3. CASE devices[e].role = "device"
      <4>1. IsSpoke(e)
        BY <2>1, <3>3 DEF IsSpoke
      <4>2. QED
        BY <1>1, <2>1, <4>1, SpokePeersAre
    <3>4. QED
      BY <3>1, <3>2, <3>3
  <2>2. CASE hubs[h].bound # None /\ e = hubs[h].bound
    <3>1. e \in Dev /\ devices[e].role = "hub" /\ devices[e].hub = h
      BY <1>1, <2>2 DEF IInv, BindingsSound, Typed, HubRow
    <3>2. QED
      BY <1>1, <1>3, <3>1, HubPeersAre
  <2>3. QED
    BY <2>0, <2>1, <2>2, SpokePeersAre
<1>4. QED
  BY <1>1, <1>2, <1>3

THEOREM MutualPeering == Spec => []PeeringMutual
BY Invariance, MutualNow, PTL

\* 0.0.0.0/0 never crosses hubs (FullTunnelStaysHome).
LEMMA HomeNow == IInv => FullTunnelStaysHome
<1> SUFFICES ASSUME IInv, NEW d \in Dev, Live(d)
             PROVE  /\ devices[d].role = "hub" => Default \notin RoutesOf(ConfNow(d))
                    /\ Default \in RoutesOf(PeersNow(d)) =>
                         /\ devices[d].egress = devices[d].hub
                         /\ Default \in hubs[devices[d].hub].advertised
  BY DEF FullTunnelStaysHome
<1> DEFINE h == devices[d].hub
<1>1. ASSUME devices[d].role = "hub" PROVE Default \notin RoutesOf(ConfNow(d))
  <2>1. SUFFICES ASSUME NEW p \in HubRoster(d, h) PROVE Default \notin p.routes
    BY <1>1 DEF ConfNow, RoutesOf
  <2>2. CASE p \in FabricPeers(h)
    BY <2>2, FabricWithoutDefault
  <2>3. CASE \E e \in Dev : p = Peer(e, {HostRoute(e)})
    BY <2>3, PeerFields, TagsDiffer
  <2>4. QED
    BY <2>2, <2>3 DEF HubRoster
<1>2. ASSUME Default \in RoutesOf(PeersNow(d))
      PROVE  devices[d].egress = h /\ Default \in hubs[h].advertised
  <2>1. PICK p \in PeersNow(d) : Default \in p.routes
    BY <1>2 DEF RoutesOf
  <2>2. p \notin LanPeers(d, devices[d])
    BY <2>1, LanRoutes, TagsDiffer
  <2>3. p \notin FabricPeers(h)
    BY <2>1, FabricWithoutDefault
  <2>4. p = HubPeer(devices[d], hubs[h])
    BY <2>1, <2>2, <2>3 DEF PeersNow, PeerList
  <2>5. p.routes = {HostRoute(hubs[h].bound), MeshRoute(h)}
                     \cup {MeshRoute(g) : g \in CrossHub(h, devices[d].host)}
                     \cup EgressRoutes(devices[d], hubs[h])
    BY <2>4, PeerFields DEF HubPeer
  <2>6. Default \in EgressRoutes(devices[d], hubs[h])
    BY <2>1, <2>5, TagsDiffer
  <2>7. QED
    BY <2>6, EgressSound
<1>3. QED
  BY <1>1, <1>2

THEOREM FullTunnelHome == Spec => []FullTunnelStaysHome
BY Invariance, HomeNow, PTL

-------------------------------------------------------------------------------
(* The boxes: what is configured comes from rows read earlier.               *)

\* Once inserted, a device's role and hub stay what they are, also when it is
\* removed and when its hub goes: a stale row is right about them.
LEMMA RowsKept ==
  ASSUME IInv, [Next]_tables, NEW d \in Dev, devices[d].st # "none"
  PROVE  /\ devices'[d].st # "none"
         /\ devices'[d].role = devices[d].role /\ devices'[d].hub = devices[d].hub
<1>0. devices \in [Dev -> DevRow] /\ devices[d] \in DevRow
  BY DEF IInv, Typed
<1>1. CASE devices' = devices
  BY <1>1
<1>2. CASE \E e \in Dev : Enrol(e)
  <2>1. PICK e \in Dev : Enrol(e)
    BY <1>2
  <2>2. devices[e].st = "none" /\ \E row : devices' = [devices EXCEPT ![e] = row]
    BY <2>1 DEF Enrol, BindHub, EnrolSpoke
  <2>3. devices'[d] = devices[d]
    BY <1>0, <2>2
  <2>4. QED
    BY <2>3
<1>3. CASE \E e \in Dev : Depart(e)
  <2>1. PICK e \in Dev : Depart(e)
    BY <1>3
  <2> DEFINE row == [NoDevice EXCEPT !.st = "removed", !.role = devices[e].role,
                                     !.hub = devices[e].hub]
  <2>2. row.st = "removed" /\ row.role = devices[e].role /\ row.hub = devices[e].hub
    BY DEF NoDevice
  <2>3. devices' = [devices EXCEPT ![e] = row]
    BY <2>1 DEF Depart
  <2> HIDE DEF row
  <2>4. QED
    BY <1>0, <2>2, <2>3
<1>4. CASE \E e \in Dev, g \in Hub \cup {None} : SetEgress(e, g)
  <2>1. PICK e \in Dev, g \in Hub \cup {None} : SetEgress(e, g)
    BY <1>4
  <2> DEFINE row == [devices[e] EXCEPT !.egress = g]
  <2>2. row.st = devices[e].st /\ row.role = devices[e].role /\ row.hub = devices[e].hub
    BY <1>0 DEF DevRow
  <2>3. devices' = [devices EXCEPT ![e] = row]
    BY <1>0, <2>1 DEF SetEgress
  <2> HIDE DEF row
  <2>4. QED
    BY <1>0, <2>2, <2>3
<1>5. CASE \E h \in Hub : DeleteHub(h)
  <2>1. PICK h \in Hub : DeleteHub(h)
    BY <1>5
  <2>2. devices'[d] = [devices[d] EXCEPT !.egress = IF devices[d].egress = h THEN None
                                                    ELSE devices[d].egress]
    BY <2>1 DEF DeleteHub
  <2>3. QED
    BY <1>0, <2>2 DEF DevRow
<1>6. QED
  BY <1>1, <1>2, <1>3, <1>4, <1>5
     DEF Next, Change, tables, ClearBind, SetEndpoint, Advertise, PublishLink, WithdrawLink

\* A device that enrolled as a hub, as h.
HubDevice(d, h) == d \in Dev /\ devices[d].st # "none" /\ devices[d].role = "hub" /\ devices[d].hub = h

\* The rows a request has read: the device's own, and its hub's with whoever it
\* was bound to; a hub device is answered only while bound.
PollSound ==
  /\ DOMAIN poll = Dev
  /\ \A d \in Dev : poll[d] # None =>
       LET row == poll[d].row
           hub == poll[d].hub
       IN /\ devices[d].st # "none" /\ row.role = devices[d].role /\ row.hub = devices[d].hub
          /\ row.role = "hub" => hub.bound = d
          /\ hub.bound # None => HubDevice(hub.bound, row.hub)

ConfSound ==
  /\ DOMAIN conf = Dev
  /\ \A d \in Dev : conf[d] # None =>
       /\ devices[d].st # "none"
       /\ \A p \in conf[d] : Default \in p.routes =>
            devices[d].role = "device" /\ HubDevice(p.peer, devices[d].hub)

PInv == IInv /\ PollSound /\ ConfSound

LEMMA PInvTunnel == PInv => TunnelOnlyToOwnHub
BY DEF PInv, ConfSound, HubDevice, TunnelOnlyToOwnHub

LEMMA InitPInv == PollInit => PInv
<1> SUFFICES ASSUME PollInit PROVE PInv
  OBVIOUS
<1>1. PollSound /\ ConfSound
  BY DEF PollInit, PollSound, ConfSound
<1>2. QED
  BY <1>1, InitIInv DEF PollInit, PInv

\* The default route in an answer computed from sound rows is towards the hub
\* device of the box's own hub, and the box is no hub device.
LEMMA AnswerSound ==
  ASSUME PInv, NEW d \in Dev, poll[d] # None,
         NEW p \in Answer(d, poll[d].row, poll[d].hub), Default \in p.routes
  PROVE  devices[d].role = "device" /\ HubDevice(p.peer, devices[d].hub)
<1> DEFINE row == poll[d].row
           hub == poll[d].hub
<1>1. /\ devices[d].st # "none" /\ row.role = devices[d].role /\ row.hub = devices[d].hub
      /\ row.role = "hub" => hub.bound = d
      /\ hub.bound # None => HubDevice(hub.bound, row.hub)
      /\ devices[d].role \in {"hub", "device"}
  BY DEF PInv, PollSound, IInv, Typed, DevRow
<1> HIDE DEF row, hub
<1>2. p \in HubRoster(d, row.hub) \/ p \in PeerList(d, row, hub)
  BY DEF Answer, row, hub
<1>3. ASSUME NEW g PROVE p \notin FabricPeers(g)
  BY FabricWithoutDefault
<1>4. p \notin HubRoster(d, row.hub)
  <2>1. ASSUME NEW e \in Dev, p = Peer(e, {HostRoute(e)}) PROVE FALSE
    BY <2>1, PeerFields, TagsDiffer
  <2>2. QED
    BY <1>3, <2>1 DEF HubRoster
<1>5. p \notin LanPeers(d, row)
  BY LanRoutes, TagsDiffer
<1>6. p = HubPeer(row, hub) /\ hub.bound # None /\ hub.bound # d
  BY <1>2, <1>3, <1>4, <1>5 DEF PeerList
<1>7. p.peer = hub.bound
  BY <1>6, PeerFields DEF HubPeer
<1>8. QED
  BY <1>1, <1>6, <1>7

\* A request reads sound rows.
LEMMA ReadSound ==
  ASSUME PInv, IInv', NEW d \in Dev, devices'[d].st # "none", devices'[d].hub \in Hub,
         devices'[d].role = "hub" => hubs'[devices'[d].hub].bound = d,
         poll' = [poll EXCEPT ![d] = Read(devices'[d])],
         \A e \in Dev : devices[e].st # "none" =>
           /\ devices'[e].st # "none"
           /\ devices'[e].role = devices[e].role /\ devices'[e].hub = devices[e].hub
  PROVE  PollSound'
<1>1. DOMAIN poll' = Dev
  BY DEF PInv, PollSound
<1>2. poll'[d].row = devices'[d] /\ poll'[d].hub = hubs'[devices'[d].hub]
  BY DEF PInv, PollSound, Read
<1>3. \A e \in Dev \ {d} : poll'[e] = poll[e]
  BY DEF PInv, PollSound
<1>4. \A e, h : HubDevice(e, h) => (HubDevice(e, h))'
  BY DEF HubDevice
<1>5. ASSUME NEW e \in Dev, poll'[e] # None
      PROVE  /\ devices'[e].st # "none" /\ poll'[e].row.role = devices'[e].role
             /\ poll'[e].row.hub = devices'[e].hub
             /\ poll'[e].row.role = "hub" => poll'[e].hub.bound = e
             /\ poll'[e].hub.bound # None =>
                  LET b == poll'[e].hub.bound IN
                  /\ b \in Dev /\ devices'[b].st # "none" /\ devices'[b].role = "hub"
                  /\ devices'[b].hub = poll'[e].row.hub
  <2>1. CASE e = d
    <3>1. hubs'[devices'[d].hub].bound # None =>
            LET b == hubs'[devices'[d].hub].bound IN
            /\ b \in Dev /\ devices'[b].st # "none" /\ devices'[b].role = "hub"
            /\ devices'[b].hub = devices'[d].hub
      BY DEF IInv, BindingsSound, Typed, HubRow
    <3>2. QED
      BY <1>2, <2>1, <3>1
  <2>2. CASE e # d
    <3>1. poll'[e] = poll[e]
      BY <1>3, <2>2
    <3>2. QED
      BY <1>5, <3>1 DEF PInv, PollSound, HubDevice
  <2>3. QED
    BY <2>1, <2>2
<1>6. QED
  BY <1>1, <1>5 DEF PollSound, HubDevice

LEMMA NextPInv == PInv /\ [PollNext]_vars => PInv'
<1> SUFFICES ASSUME PInv, [PollNext]_vars PROVE PInv'
  OBVIOUS
<1>1. [Next]_tables
  BY DEF PollNext, Next, vars, tables, Register, StartPoll, Configure, Lose, Evict
<1>2. IInv'
  BY <1>1, NextIInv DEF PInv
<1>3. \A e \in Dev : devices[e].st # "none" =>
        /\ devices'[e].st # "none"
        /\ devices'[e].role = devices[e].role /\ devices'[e].hub = devices[e].hub
  BY <1>1, RowsKept DEF PInv
<1>4. ASSUME UNCHANGED poll PROVE PollSound'
  BY <1>3, <1>4 DEF PInv, PollSound, HubDevice
<1>5. ASSUME UNCHANGED conf PROVE ConfSound'
  BY <1>3, <1>5 DEF PInv, ConfSound, HubDevice
<1>6. ASSUME NEW d \in Dev, poll' = [poll EXCEPT ![d] = None] PROVE PollSound'
  <2>1. DOMAIN poll' = Dev /\ \A e \in Dev : poll'[e] # None => poll'[e] = poll[e]
    BY <1>6 DEF PInv, PollSound
  <2>2. QED
    BY <1>3, <2>1 DEF PInv, PollSound, HubDevice
<1>7. CASE Change /\ UNCHANGED <<conf, poll>>
  BY <1>2, <1>4, <1>5, <1>7 DEF PInv
<1>8. ASSUME NEW d \in Dev, Register(d) PROVE PInv'
  <2>1. UNCHANGED conf /\ Enrol(d) /\ poll' = [poll EXCEPT ![d] = Read(devices'[d])]
    BY <1>8 DEF Register
  <2>2. devices'[d].st # "none" /\ devices'[d].hub \in Hub
        /\ (devices'[d].role = "hub" => hubs'[devices'[d].hub].bound = d)
    <3>0. devices \in [Dev -> DevRow] /\ hubs \in [Hub -> HubRow]
      BY DEF PInv, IInv, Typed
    <3>1. ASSUME NEW h \in Hub, NEW host \in Host, BindHub(d, h, host)
          PROVE  /\ devices'[d].st = "live" /\ devices'[d].hub = h /\ hubs'[h].bound = d
      <4>1. devices' = [devices EXCEPT ![d] = [NoDevice EXCEPT
                          !.st = "live", !.role = "hub", !.hub = h, !.host = host]]
        BY <3>1 DEF BindHub
      <4>2. hubs' = [hubs EXCEPT ![h] = [hubs[h] EXCEPT !.bound = d, !.dialable = TRUE]]
        BY <3>0, <3>1 DEF BindHub
      <4>3. hubs'[h] = [hubs[h] EXCEPT !.bound = d, !.dialable = TRUE]
        BY <3>0, <4>2
      <4>4. hubs'[h].bound = d
        BY <3>0, <4>3 DEF HubRow
      <4>5. devices'[d] = [NoDevice EXCEPT
                             !.st = "live", !.role = "hub", !.hub = h, !.host = host]
        BY <3>0, <4>1
      <4>6. QED
        BY <4>4, <4>5 DEF NoDevice
    <3>2. ASSUME NEW h \in Hub, NEW site, NEW host, NEW isolated, EnrolSpoke(d, h, site, host, isolated)
          PROVE  devices'[d].st = "live" /\ devices'[d].hub = h /\ devices'[d].role = "device"
      <4>1. devices'[d] = [NoDevice EXCEPT !.st = "live", !.hub = h, !.site = site,
                                           !.host = host, !.isolated = isolated]
        BY <3>0, <3>2 DEF EnrolSpoke
      <4>2. QED
        BY <4>1 DEF NoDevice
    <3>3. QED
      BY <2>1, <3>1, <3>2 DEF Enrol
  <2>3. PollSound'
    BY <1>2, <1>3, <2>1, <2>2, ReadSound
  <2>4. QED
    BY <1>2, <1>5, <2>1, <2>3 DEF PInv
<1>9. ASSUME NEW d \in Dev, StartPoll(d) PROVE PInv'
  <2>1. /\ UNCHANGED <<hubs, devices, conf>> /\ Served(d)
        /\ poll' = [poll EXCEPT ![d] = Read(devices[d])]
    BY <1>9 DEF StartPoll, tables
  <2>2. /\ devices[d].st # "none" /\ devices[d].hub \in Hub
        /\ devices[d].role = "hub" => hubs[devices[d].hub].bound = d
    BY <2>1 DEF Served, Live, PInv, IInv, DevicesPlaced
  <2>3. PollSound'
    BY <1>2, <1>3, <2>1, <2>2, ReadSound
  <2>4. QED
    BY <1>2, <1>5, <2>1, <2>3 DEF PInv
<1>10. ASSUME NEW d \in Dev, Configure(d) PROVE PInv'
  <2>1. /\ UNCHANGED devices /\ poll[d] # None /\ poll' = [poll EXCEPT ![d] = None]
        /\ conf' = [conf EXCEPT ![d] = Answer(d, poll[d].row, poll[d].hub)]
    BY <1>10 DEF Configure, tables
  <2>2. DOMAIN conf' = Dev /\ conf'[d] = Answer(d, poll[d].row, poll[d].hub)
        /\ \A e \in Dev \ {d} : conf'[e] = conf[e]
    BY <2>1 DEF PInv, ConfSound
  <2>3. devices[d].st # "none"
    BY <2>1 DEF PInv, PollSound
  <2>4. \A p \in conf'[d] : Default \in p.routes =>
          devices[d].role = "device" /\ HubDevice(p.peer, devices[d].hub)
    BY <2>1, <2>2, AnswerSound
  <2>5. ConfSound'
    BY <2>1, <2>2, <2>3, <2>4 DEF PInv, ConfSound, HubDevice
  <2>6. QED
    BY <1>2, <1>6, <2>1, <2>5 DEF PInv
<1>11. ASSUME NEW d \in Dev, Lose(d) PROVE PInv'
  BY <1>2, <1>5, <1>6, <1>11 DEF Lose, PInv
<1>12. ASSUME NEW d \in Dev, Evict(d) PROVE PInv'
  <2>1. conf' = [conf EXCEPT ![d] = None] /\ UNCHANGED <<devices, poll>>
    BY <1>12 DEF Evict
  <2>2. DOMAIN conf' = Dev /\ \A e \in Dev : conf'[e] # None => conf'[e] = conf[e]
    BY <2>1 DEF PInv, ConfSound
  <2>3. ConfSound'
    BY <2>1, <2>2 DEF PInv, ConfSound, HubDevice
  <2>4. QED
    BY <1>2, <1>4, <2>1, <2>3 DEF PInv
<1>13. CASE UNCHANGED vars
  BY <1>2, <1>4, <1>5, <1>13 DEF vars, PInv
<1>14. QED
  BY <1>7, <1>8, <1>9, <1>10, <1>11, <1>12, <1>13 DEF PollNext

\* However stale the rows an answer was computed from and however many answers
\* are lost, a full tunnel points to the box's own hub and no hub device has one
\* (TunnelOnlyToOwnHub): of what was read, role, hub and who the hub was bound
\* to never become untrue.
THEOREM TunnelsOnlyHome == PollSpec => []TunnelOnlyToOwnHub
BY InitPInv, NextPInv, PInvTunnel, PTL DEF PollSpec
===============================================================================
