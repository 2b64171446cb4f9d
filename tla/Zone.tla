--------------------------------- MODULE Zone ----------------------------------
(***************************************************************************)
(* The sites and the names of one hub that is bound: which site and seat a *)
(* device's register gives it (allocateDevice), and the zone its devices   *)
(* are answered (handleWGDNSZone).                                         *)
(*                                                                         *)
(* A register reads in a SERIALIZABLE transaction and commits if the       *)
(* indexes admit its rows; the zone is two statements without one.         *)
(* Names and slugs are sequences of the parts the code joins: "a-3" is     *)
(* <<"a", 3>>, "<hub>:site_3" is <<"site", 3>>.                            *)
(***************************************************************************)
EXTENDS Naturals, Sequences, FiniteSets, SequencesExt

CONSTANTS
  Proc,      \* requests in flight
  Text,      \* the hostnames devices send, as sanitizeHostname leaves them
  Where,     \* public address, first LAN and place in it, of a device
  Slug,      \* the site slugs devices ask for
  NoLan,     \* the LAN of a device that reports no address in one
  None,      \* no slug asked for, no row
  Gone,      \* the row of a removed device
  LastId,    \* the last device id (a bound)
  LastSlot,  \* the last s_index; 254 in the code
  LastSeat   \* the last d_index; 254 in the code

ASSUME ZoneBoundsAssumption ==
  /\ LastId \in Nat \ {0} /\ LastSlot \in Nat \ {0} /\ LastSeat \in Nat \ {0}
ASSUME ZoneInputsAssumption ==
  /\ \A t \in Text : Len(t) \in Nat /\ t = [n \in 1..Len(t) |-> t[n]]
  /\ \A w \in Where : DOMAIN w = {"pub", "lan", "at"}

Id == 1..LastId
HubDevice == 1
Slots == 0..LastSlot

VARIABLES
  sites,     \* wg_sites of the hub, by s_index
  devs,      \* wg_devices of the hub, by id
  req,       \* the requests
  overtaken  \* history: registers that read before another one committed

vars == <<sites, devs, req, overtaken>>

SlugOf == Slug \cup {<<"site", s>> : s \in Slots} \cup {<<"hub">>}
Lan(w) == [pub |-> w.pub, lan |-> w.lan]
HubPlace == {[pub |-> w.pub, lan |-> NoLan] : w \in Where}
Place == {Lan(w) : w \in Where} \cup HubPlace
SiteRow == [slug : SlugOf, place : Place]

\* lan (not a column): where the device enrolled from, if it asked for no site.
DevRow == [host : Text, site : Slots, seat : 1..LastSeat, lan : Place \cup {None}]

ASSUME ZoneNoneAssumption ==
  None \notin SiteRow \cup DevRow /\ Gone \notin DevRow

Idle == [pc |-> "idle"]

TypeOK ==
  /\ sites \in [Slots -> SiteRow \cup {None}]
  /\ devs \in [Id -> DevRow \cup {None, Gone}]
  /\ req \in [Proc -> {Idle}
       \cup [pc : {"refused"}, why : {"slots", "seats", "key"}]
       \cup [pc : {"commit"}, lan : Place \cup {None}, slot : Slots,
             row : SiteRow \cup {None}, seat : 1..LastSeat]
       \cup [pc : {"zone"}, id : Id, host : Text, seat : 1..LastSeat]]
  /\ overtaken \subseteq Proc

\* The hub's device has bound it, so its site is there.
Init ==
  /\ \E h \in HubPlace :
       sites = [s \in Slots |-> IF s = 0 THEN [slug |-> <<"hub">>, place |-> h] ELSE None]
  /\ \E t \in Text :
       devs = [i \in Id |-> IF i = HubDevice
                 THEN [host |-> t, site |-> 0, seat |-> 1, lan |-> None]
                 ELSE None]
  /\ req = [p \in Proc |-> Idle]
  /\ overtaken = {}

Live == {i \in Id : devs[i] \notin {None, Gone}}
Sites == {s \in Slots : sites[s] # None}

At(p, pc) == req[p].pc = pc
Becomes(p, r) == req' = [req EXCEPT ![p] = r]

-------------------------------------------------------------------------------
(* Registers.                                                                *)

\* What a register sends, besides a hostname that nothing is decided by.
Register == [from : Where, slug : Slug \cup {None}]

\* Mutant: the device's own LAN address takes the place of its network.
AddressOf(w) == w

\* The key of a site: the public address, and the network of the first LAN.
PlaceOf(w) == [pub |-> w.pub, lan |-> w.lan]

\* lookupSiteBySlugInHub or lookupSiteByAutoKeyInHub; ids grow with s_index, as
\* no site goes before its hub.
Matches(r) ==
  {s \in Sites : IF r.slug # None THEN sites[s].slug = r.slug
                                  ELSE sites[s].place = PlaceOf(r.from)}

\* pickFreeSIndexInHub.
FreeSlots == (1..LastSlot) \ Sites

\* Mutant: seats are looked for within the site.
SeatsFreeInSite(s) == (2..LastSeat) \ {devs[i].seat : i \in {i \in Live : devs[i].site = s}}

\* pickFreeDIndex looks at every site of the hub.
SeatsFree(s) == (2..LastSeat) \ {devs[i].seat : i \in Live}

Least(S) == CHOOSE n \in S : \A k \in S : n <= k

\* The site found, or a new one and its row.
Chosen(r) ==
  IF Matches(r) # {} THEN [slot |-> Least(Matches(r)), row |-> None]
  ELSE LET s == Least(FreeSlots)
       IN [slot |-> s, row |-> [slug |-> IF r.slug # None THEN r.slug ELSE <<"site", s>>,
                                place |-> PlaceOf(r.from)]]

SlotFound(r) == Matches(r) # {} \/ FreeSlots # {}

Read(p, r) ==
  LET c == Chosen(r)
  IN /\ At(p, "idle")
     /\ SlotFound(r) /\ SeatsFree(c.slot) # {}
     /\ Becomes(p, [pc |-> "commit",
                    lan |-> IF r.slug = None THEN Lan(r.from) ELSE None,
                    slot |-> c.slot, row |-> c.row, seat |-> Least(SeatsFree(c.slot))])
     /\ UNCHANGED <<sites, devs, overtaken>>

\* errWGSiteSlotsExhausted, errWGSiteExhausted.
ReadRefuses(p, r) ==
  /\ At(p, "idle")
  /\ SlotFound(r) => SeatsFree(Chosen(r).slot) = {}
  /\ Becomes(p, [pc |-> "refused", why |-> IF SlotFound(r) THEN "seats" ELSE "slots"])
  /\ UNCHANGED <<sites, devs, overtaken>>

\* The unique indexes of wg_sites and wg_devices.
IndexesAdmit(r) ==
  /\ r.row # None => /\ r.slot \notin Sites
                     /\ \A s \in Sites : sites[s].slug # r.row.slug
  /\ \A i \in Live : devs[i].seat # r.seat

Commit(p, t) ==
  LET r == req[p]
  IN /\ At(p, "commit")
     /\ IndexesAdmit(r)
     /\ \E i \in Id :
          /\ \A j \in Id : devs[j] = None <=> i <= j
          /\ devs' = [devs EXCEPT ![i] = [host |-> t, site |-> r.slot,
                                          seat |-> r.seat, lan |-> r.lan]]
     /\ sites' = IF r.row = None THEN sites ELSE [sites EXCEPT ![r.slot] = r.row]
     /\ Becomes(p, Idle)
     /\ overtaken' = (overtaken \cup {q \in Proc : At(q, "commit")}) \ {p}

DuplicateKey(p) ==
  /\ At(p, "commit")
  /\ ~IndexesAdmit(req[p])
  /\ Becomes(p, [pc |-> "refused", why |-> "key"])
  /\ UNCHANGED <<sites, devs, overtaken>>

\* The box registers again with its token and key: its row gets the new name
\* and keeps its site, wherever the box is now.
RefreshExisting(i, t) ==
  /\ i \in Live
  /\ devs' = [devs EXCEPT ![i].host = t]
  /\ UNCHANGED <<sites, req, overtaken>>

MarkRemoved(i) ==
  /\ i \in Live \ {HubDevice}
  /\ devs' = [devs EXCEPT ![i] = Gone]
  /\ UNCHANGED <<sites, req, overtaken>>

-------------------------------------------------------------------------------
(* The zone.                                                                 *)

\* Of some hostnames sanitizeHostname leaves nothing.
Label(e) == IF e.host = <<>> THEN <<"dev", e.id>> ELSE e.host

Entry(i) == [id |-> i, host |-> devs[i].host, seat |-> devs[i].seat]

\* listWGDevicesInHub(hub.ID, 0): ORDER BY d_index.
BySeat == CHOOSE s \in SetToSeqs(Live) :
            \A m, n \in DOMAIN s : m < n => devs[s[m]].seat < devs[s[n]].seat
Listed == LET s == BySeat IN [n \in 1..Len(s) |-> Entry(s[n])]

\* Mutant: the caller comes first.
WithCallerFirst(e) == <<e>> \o Listed

\* The caller is appended, although the list has it already.
WithCaller(e) == Append(Listed, e)

\* Who has a name that was given before gets its id behind it.
NamesGiven(s) ==
  LET name[n \in 1..Len(s)] ==
        LET hn == Label(s[n])
        IN IF \E k \in 1..n - 1 : name[k] = hn THEN Append(hn, s[n].id) ELSE hn
  IN name

ZoneFor(e) ==
  LET s == WithCaller(e)
      name == NamesGiven(s)
  IN {[name |-> name[n], id |-> s[n].id, seat |-> s[n].seat] : n \in 1..Len(s)}

\* The caller's row is read when its bearer is ...
StartZone(p, i) ==
  /\ At(p, "idle")
  /\ i \in Live
  /\ Becomes(p, [pc |-> "zone", id |-> i, host |-> devs[i].host,
                 seat |-> devs[i].seat])
  /\ UNCHANGED <<sites, devs, overtaken>>

Caller(p) == [id |-> req[p].id, host |-> req[p].host, seat |-> req[p].seat]

\* ... and the list later.
AnswerZone(p) ==
  /\ At(p, "zone")
  /\ Becomes(p, Idle)
  /\ UNCHANGED <<sites, devs, overtaken>>

\* A refusal is answered; or the service fails, or the transaction cannot be
\* serialized.
Fail(p) ==
  /\ At(p, "refused") \/ At(p, "commit")
  /\ Becomes(p, Idle)
  /\ overtaken' = overtaken \ {p}
  /\ UNCHANGED <<sites, devs>>

Next ==
  \/ \E p \in Proc :
       \/ \E r \in Register : Read(p, r) \/ ReadRefuses(p, r)
       \/ \E t \in Text : Commit(p, t)
       \/ DuplicateKey(p) \/ Fail(p)
       \/ \E i \in Id : StartZone(p, i)
       \/ AnswerZone(p)
  \/ \E i \in Id : MarkRemoved(i) \/ \E t \in Text : RefreshExisting(i, t)

Spec == Init /\ [][Next]_vars

-------------------------------------------------------------------------------
(* Properties.                                                               *)

\* Devices that enrolled from one LAN, and did not ask for a site, are in one
\* site, and so learn each other's LAN addresses: whoever raced whom, whatever
\* sites others had made by name, and however the hub's sites came and went.
LanMatesShareSite ==
  \A i, j \in Live : devs[i].lan = devs[j].lan /\ devs[i].lan # None =>
    devs[i].site = devs[j].site

\* A site that was asked for by name has the slug of another s_index.
SlugImitated == \E s \in Sites : \E n \in Slots \ {s} : sites[s].slug = <<"site", n>>

Refused(p, why) == ~At(p, "refused") /\ req'[p] = [pc |-> "refused", why |-> why]

\* A register that nobody overtook is refused only if the hub has no seat or no
\* s_index left, unless somebody asked for a slug that the code would make up.
RefusedOnlyWhenFull ==
  [][\A p \in Proc :
       /\ Refused(p, "slots") => Sites = Slots
       /\ Refused(p, "seats") => {devs[i].seat : i \in Live} = 1..LastSeat
       /\ Refused(p, "key") => p \in overtaken \/ SlugImitated]_vars

\* A hostname that has the form of a name with an id behind it.
NameImitated(p) ==
  \/ Len(req[p].host) > 1
  \/ \E i \in Live : Len(devs[i].host) > 1

\* Two devices that ask at one moment are told the same of a name, and a name
\* stands for one device, unless a hostname looks like one the code would make
\* up; even if the caller was renamed or removed while it was answered.
NamesAgree ==
  [][\A p \in Proc : AnswerZone(p) /\ ~NameImitated(p) =>
       \A i \in Live : \A a \in ZoneFor(Caller(p)), b \in ZoneFor(Entry(i)) :
         a.name = b.name => a.id = b.id]_vars
===============================================================================
