------------------------------ MODULE Zone_proofs ------------------------------
(***************************************************************************)
(* Proofs about the sites, the seats and the names of Zone, for any number *)
(* of devices, sites, seats and requests.                                  *)
(***************************************************************************)
EXTENDS Zone, FiniteSetTheorems, WellFoundedInduction, TLAPS

-------------------------------------------------------------------------------
(* The least of a set of numbers.                                            *)

Below == {d \in Nat \X Nat : d[1] < d[2]}

LEMMA BelowWellFounded == IsWellFoundedOn(Below, Nat)
BY NatLessThanWellFounded DEF OpToRel, Below

LEMMA LeastIsLeast ==
  ASSUME NEW T, T \subseteq Nat, T # {}
  PROVE  Least(T) \in T /\ \A k \in T : Least(T) <= k
<1>1. PICK n \in T : \A k \in T : ~(<<k, n>> \in Below)
  BY WFMin, BelowWellFounded
<1>2. ASSUME NEW k \in T PROVE n <= k
  <2>1. k \in Nat /\ n \in Nat /\ <<k, n>> \in Nat \X Nat
    OBVIOUS
  <2>2. ~(k < n)
    BY <1>1, <2>1 DEF Below
  <2>3. QED
    BY <2>1, <2>2
<1>3. QED
  BY <1>2 DEF Least

-------------------------------------------------------------------------------
(* The invariant.                                                            *)

\* s_index is given out from below, and a site stays.
SitesSound ==
  /\ 0 \in Sites
  /\ \A s \in Sites : \A k \in 0..s : k \in Sites

HubThere == HubDevice \in Live /\ devs[HubDevice].seat = 1

\* s is the first site of the place.
Home(place, s) ==
  /\ s \in Sites /\ sites[s].place = place
  /\ \A k \in Sites : sites[k].place = place => s <= k

DevicesHome == \A i \in Live : devs[i].lan # None => Home(devs[i].lan, devs[i].site)

\* What a register about to commit may rely on whoever overtook it: the site it
\* found is the first of its place; below the one it makes there is none.
CommitSound(r) ==
  /\ r.row = None => /\ r.slot \in Sites
                     /\ r.lan # None => Home(r.lan, r.slot)
  /\ r.row # None => /\ \A k \in 0..r.slot - 1 : k \in Sites
                     /\ r.lan # None => /\ r.row.place = r.lan
                                        /\ \A k \in 0..r.slot - 1 : sites[k].place # r.lan

\* And if nobody did: the indexes admit it, a made-up slug apart.
UpToDate(r) ==
  /\ \A i \in Live : devs[i].seat # r.seat
  /\ r.row # None => /\ r.slot \notin Sites
                     /\ \A s \in Sites : sites[s].slug = r.row.slug => SlugImitated

RequestSound(p) ==
  At(p, "commit") => CommitSound(req[p]) /\ (p \notin overtaken => UpToDate(req[p]))

IInv ==
  /\ TypeOK /\ SitesSound /\ HubThere /\ DevicesHome
  /\ \A p \in Proc : RequestSound(p)

-------------------------------------------------------------------------------

Refusal == [pc : {"refused"}, why : {"slots", "seats", "key"}]
Commitment == [pc : {"commit"}, lan : Place \cup {None}, slot : Slots,
               row : SiteRow \cup {None}, seat : 1..LastSeat]
Question == [pc : {"zone"}, id : Id, host : Text, seat : 1..LastSeat]
Request == {Idle} \cup Refusal \cup Commitment \cup Question

LEMMA Bounds ==
  /\ LastId \in Nat /\ LastId >= 1 /\ LastSlot \in Nat /\ LastSlot >= 1
  /\ LastSeat \in Nat /\ LastSeat >= 1
  /\ 0 \in Slots /\ HubDevice \in Id
BY ZoneBoundsAssumption DEF Slots, Id, HubDevice

LEMMA BecomesType ==
  ASSUME TypeOK, NEW p \in Proc, NEW r \in Request, Becomes(p, r)
  PROVE  req' \in [Proc -> Request]
BY DEF TypeOK, Becomes, Request, Refusal, Commitment, Question

LEMMA TypeAgain ==
  ASSUME TypeOK, req' \in [Proc -> Request], UNCHANGED <<sites, devs>>,
         overtaken' \subseteq Proc
  PROVE  TypeOK'
BY DEF TypeOK, Request, Refusal, Commitment, Question

LEMMA LiveTyped ==
  ASSUME TypeOK
  PROVE  /\ \A i \in Live : i \in Id /\ devs[i] \in DevRow
         /\ \A s \in Sites : s \in Slots /\ sites[s] \in SiteRow
BY DEF TypeOK, Live, Sites

LEMMA InitIInv == Init => IInv
<1> SUFFICES ASSUME Init PROVE IInv
  OBVIOUS
<1>1. PICK h \in HubPlace :
        sites = [s \in Slots |-> IF s = 0 THEN [slug |-> <<"hub">>, place |-> h] ELSE None]
  BY DEF Init
<1>2. PICK t \in Text :
        devs = [i \in Id |-> IF i = HubDevice
                  THEN [host |-> t, site |-> 0, seat |-> 1, lan |-> None]
                  ELSE None]
  BY DEF Init
<1>3. [slug |-> <<"hub">>, place |-> h] \in SiteRow
  BY DEF SiteRow, SlugOf, Place
<1>4. [host |-> t, site |-> 0, seat |-> 1, lan |-> None] \in DevRow
  BY Bounds DEF DevRow
<1>5. sites \in [Slots -> SiteRow \cup {None}] /\ devs \in [Id -> DevRow \cup {None, Gone}]
  BY <1>1, <1>2, <1>3, <1>4
<1>6. TypeOK
  BY <1>5 DEF Init, TypeOK
<1>7. Sites = {0}
  BY <1>1, <1>3, Bounds, ZoneNoneAssumption DEF Sites
<1>8. Live = {HubDevice} /\ devs[HubDevice].seat = 1 /\ devs[HubDevice].lan = None
  BY <1>2, <1>4, Bounds, ZoneNoneAssumption DEF Live
<1>9. \A p \in Proc : ~At(p, "commit")
  BY DEF Init, At, Idle
<1>10. QED
  BY <1>6, <1>7, <1>8, <1>9
  DEF IInv, SitesSound, HubThere, DevicesHome, RequestSound

-------------------------------------------------------------------------------
(* Reading.                                                                  *)

\* The site a register chooses is the first of its place, or a new one above
\* all others.
LEMMA ChosenSound ==
  ASSUME TypeOK, SitesSound, NEW r \in Register, SlotFound(r)
  PROVE  LET c == Chosen(r)
         IN /\ c.slot \in Slots /\ c.row \in SiteRow \cup {None}
            /\ c.row = None => /\ c.slot \in Sites
                               /\ r.slug = None => Home(PlaceOf(r.from), c.slot)
            /\ c.row # None => /\ c.slot \notin Sites
                               /\ \A k \in 0..c.slot - 1 : k \in Sites
                               /\ c.row.place = PlaceOf(r.from)
                               /\ r.slug = None => \A k \in Sites : sites[k].place # PlaceOf(r.from)
                               /\ \/ \A s \in Sites : sites[s].slug # c.row.slug
                                  \/ c.row.slug = <<"site", c.slot>>
<1> DEFINE c == Chosen(r)
<1>0. Slots \subseteq Nat /\ Sites \subseteq Slots /\ PlaceOf(r.from) \in Place
  BY Bounds DEF Slots, Sites, Place, Lan, PlaceOf, Register
<1>1. CASE Matches(r) # {}
  <2>1. c = [slot |-> Least(Matches(r)), row |-> None]
    BY <1>1 DEF Chosen
  <2>2. Matches(r) \subseteq Sites /\ Matches(r) \subseteq Nat
    BY <1>0 DEF Matches
  <2>3. c.slot \in Matches(r) /\ \A k \in Matches(r) : c.slot <= k
    BY <1>1, <2>1, <2>2, LeastIsLeast
  <2>4. r.slug = None => Home(PlaceOf(r.from), c.slot)
    BY <2>3 DEF Home, Matches
  <2>5. QED
    BY <1>0, <2>1, <2>2, <2>3, <2>4
<1>2. CASE Matches(r) = {}
  <2> DEFINE s == Least(FreeSlots)
             row == [slug |-> IF r.slug # None THEN r.slug ELSE <<"site", s>>,
                     place |-> PlaceOf(r.from)]
  <2>1. c = [slot |-> s, row |-> row]
    BY <1>2 DEF Chosen
  <2>2. FreeSlots # {} /\ FreeSlots \subseteq Nat
    BY <1>2, Bounds DEF SlotFound, FreeSlots
  <2>3. s \in FreeSlots /\ \A k \in FreeSlots : s <= k
    BY <2>2, LeastIsLeast
  <2>4. s \in 1..LastSlot /\ s \notin Sites /\ s \in Slots
    BY <2>3, Bounds DEF FreeSlots, Slots
  <2>5. ASSUME NEW k \in 0..s - 1 PROVE k \in Sites
    <3>1. CASE k = 0
      BY <3>1 DEF SitesSound
    <3>2. CASE k # 0
      <4>1. k \in 1..LastSlot /\ ~(s <= k)
        BY <2>4, <2>5, <3>2, Bounds
      <4>2. QED
        BY <2>3, <4>1 DEF FreeSlots
    <3>3. QED
      BY <3>1, <3>2
  <2>6. row.slug \in SlugOf
    BY <2>4 DEF Register, SlugOf
  <2>7. row \in SiteRow /\ row # None
    BY <1>0, <2>6, ZoneNoneAssumption DEF SiteRow
  <2>8. r.slug = None => \A k \in Sites : sites[k].place # PlaceOf(r.from)
    BY <1>2 DEF Matches
  <2>9. \/ \A k \in Sites : sites[k].slug # row.slug
        \/ row.slug = <<"site", s>>
    BY <1>2 DEF Matches
  <2>10. QED
    BY <2>1, <2>4, <2>5, <2>7, <2>8, <2>9
<1>3. QED
  BY <1>1, <1>2

LEMMA SeatSound ==
  ASSUME NEW s, SeatsFree(s) # {}
  PROVE  LET n == Least(SeatsFree(s))
         IN n \in 1..LastSeat /\ \A i \in Live : devs[i].seat # n
<1>1. SeatsFree(s) \subseteq Nat
  BY DEF SeatsFree
<1>2. ASSUME NEW n \in SeatsFree(s)
      PROVE  n \in 1..LastSeat /\ \A i \in Live : devs[i].seat # n
  BY <1>2, Bounds DEF SeatsFree
<1>3. Least(SeatsFree(s)) \in SeatsFree(s)
  BY <1>1, LeastIsLeast
<1>4. QED
  BY <1>2, <1>3

\* A step of a request that leaves the rows alone.
LEMMA QuietStep ==
  ASSUME IInv, NEW p \in Proc, NEW r \in Request, Becomes(p, r),
         UNCHANGED <<sites, devs>>,
         overtaken' = overtaken \/ overtaken' = overtaken \ {p},
         r.pc = "commit" => CommitSound(r) /\ UpToDate(r)
  PROVE  IInv'
<1>1. req' \in [Proc -> Request]
  BY BecomesType DEF IInv
<1>2. TypeOK'
  BY <1>1, TypeAgain DEF IInv, TypeOK
<1>3. SitesSound' /\ HubThere' /\ DevicesHome'
  BY DEF IInv, SitesSound, HubThere, DevicesHome, Home, Sites, Live
<1>4. ASSUME NEW q \in Proc PROVE RequestSound(q)'
  <2>1. /\ CommitSound(req[q])' <=> CommitSound(req'[q])
        /\ UpToDate(req[q])' <=> UpToDate(req'[q])
    BY DEF CommitSound, UpToDate, Home, SlugImitated, Sites, Live
  <2>2. CASE q = p
    <3>1. req'[q] = r
      BY <2>2 DEF IInv, TypeOK, Becomes
    <3>2. QED
      BY <2>1, <3>1 DEF RequestSound, At
  <2>3. CASE q # p
    <3>1. req'[q] = req[q] /\ (q \in overtaken' <=> q \in overtaken)
      BY <2>3 DEF IInv, TypeOK, Becomes
    <3>2. RequestSound(q)
      BY DEF IInv
    <3>3. QED
      BY <2>1, <3>1, <3>2 DEF RequestSound, At
  <2>4. QED
    BY <2>2, <2>3
<1>5. QED
  BY <1>2, <1>3, <1>4 DEF IInv

LEMMA ReadStep ==
  ASSUME IInv, NEW p \in Proc, NEW r \in Register, Read(p, r)
  PROVE  IInv'
<1> DEFINE c == Chosen(r)
           n == Least(SeatsFree(c.slot))
           lan == IF r.slug = None THEN Lan(r.from) ELSE None
           new == [pc |-> "commit", lan |-> lan, slot |-> c.slot, row |-> c.row, seat |-> n]
<1>0. TypeOK /\ SitesSound /\ SlotFound(r) /\ SeatsFree(c.slot) # {}
  BY DEF IInv, Read
<1>1. /\ c.slot \in Slots /\ c.row \in SiteRow \cup {None}
      /\ c.row = None => /\ c.slot \in Sites
                         /\ r.slug = None => Home(PlaceOf(r.from), c.slot)
      /\ c.row # None => /\ c.slot \notin Sites
                         /\ \A k \in 0..c.slot - 1 : k \in Sites
                         /\ c.row.place = PlaceOf(r.from)
                         /\ r.slug = None => \A k \in Sites : sites[k].place # PlaceOf(r.from)
                         /\ \/ \A s \in Sites : sites[s].slug # c.row.slug
                            \/ c.row.slug = <<"site", c.slot>>
  BY <1>0, ChosenSound
<1>2. n \in 1..LastSeat /\ \A i \in Live : devs[i].seat # n
  BY <1>0, SeatSound
<1>3. PlaceOf(r.from) = Lan(r.from) /\ Lan(r.from) \in Place
  BY DEF PlaceOf, Lan, Place, Register
<1>4. new \in Request
  BY <1>1, <1>2, <1>3 DEF Request, Commitment
<1>5. CommitSound(new)
  BY <1>1, <1>3 DEF CommitSound
<1>6. c.row # None /\ (\E s \in Sites : sites[s].slug = c.row.slug) => SlugImitated
  BY <1>1 DEF SlugImitated
<1>7. UpToDate(new)
  BY <1>1, <1>2, <1>6 DEF UpToDate
<1>8. Becomes(p, new) /\ UNCHANGED <<sites, devs, overtaken>>
  BY DEF Read
<1>9. QED
  BY <1>4, <1>5, <1>7, <1>8, QuietStep

\* The other steps of a request that write no row.
LEMMA OtherRequests ==
  ASSUME IInv, NEW p \in Proc,
         \/ \E r \in Register : ReadRefuses(p, r)
         \/ \E i \in Id : StartZone(p, i)
         \/ DuplicateKey(p) \/ Fail(p) \/ AnswerZone(p)
  PROVE  IInv'
<1>1. CASE \E r \in Register : ReadRefuses(p, r)
  <2>1. PICK r \in Register : ReadRefuses(p, r)
    BY <1>1
  <2>2. ASSUME NEW why \in {"seats", "slots"}
        PROVE  /\ [pc |-> "refused", why |-> why] \in Request
               /\ [pc |-> "refused", why |-> why].pc # "commit"
    BY DEF Request, Refusal
  <2>3. \E why \in {"seats", "slots"} : Becomes(p, [pc |-> "refused", why |-> why])
    BY <2>1 DEF ReadRefuses
  <2>4. UNCHANGED <<sites, devs, overtaken>>
    BY <2>1 DEF ReadRefuses
  <2>5. QED
    BY <2>2, <2>3, <2>4, QuietStep
<1>2. CASE \E i \in Id : StartZone(p, i)
  <2>1. PICK i \in Id : StartZone(p, i)
    BY <1>2
  <2> DEFINE r == [pc |-> "zone", id |-> i, host |-> devs[i].host, seat |-> devs[i].seat]
  <2>2. devs[i] \in DevRow
    BY <2>1, LiveTyped DEF StartZone, IInv
  <2>3. r \in Request /\ r.pc # "commit"
    BY <2>2 DEF Request, Question, DevRow
  <2>4. Becomes(p, r) /\ UNCHANGED <<sites, devs, overtaken>>
    BY <2>1 DEF StartZone
  <2>5. QED
    BY <2>3, <2>4, QuietStep
<1>3. CASE DuplicateKey(p)
  <2>1. /\ [pc |-> "refused", why |-> "key"] \in Request
        /\ [pc |-> "refused", why |-> "key"].pc # "commit"
    BY DEF Request, Refusal
  <2>2. QED
    BY <1>3, <2>1, QuietStep DEF DuplicateKey
<1>4. CASE Fail(p) \/ AnswerZone(p)
  <2>1. Idle \in Request /\ Idle.pc # "commit"
    BY DEF Request, Idle
  <2>2. QED
    BY <1>4, <2>1, QuietStep DEF Fail, AnswerZone
<1>5. QED
  BY <1>1, <1>2, <1>3, <1>4

-------------------------------------------------------------------------------
(* Rows that change or go.                                                   *)

LEMMA RowSteps ==
  ASSUME IInv, NEW i \in Id,
         MarkRemoved(i) \/ \E t \in Text : RefreshExisting(i, t)
  PROVE  IInv'
<1>0. TypeOK /\ i \in Live /\ devs[i] \in DevRow
  BY LiveTyped DEF IInv, MarkRemoved, RefreshExisting
<1>1. UNCHANGED <<sites, req, overtaken>> /\ \A j \in Id \ {i} : devs'[j] = devs[j]
  BY <1>0 DEF MarkRemoved, RefreshExisting, TypeOK
<1>2. \/ devs'[i] = Gone /\ i # HubDevice
      \/ /\ devs'[i] \in DevRow /\ devs'[i].seat = devs[i].seat
         /\ devs'[i].site = devs[i].site /\ devs'[i].lan = devs[i].lan
  <2>1. CASE MarkRemoved(i)
    BY <1>0, <2>1 DEF MarkRemoved, TypeOK
  <2>2. CASE \E t \in Text : RefreshExisting(i, t)
    <3>1. PICK t \in Text : RefreshExisting(i, t)
      BY <2>2
    <3>2. devs' = [devs EXCEPT ![i] = [devs[i] EXCEPT !.host = t]]
      BY <3>1 DEF RefreshExisting
    <3>3. devs'[i] = [devs[i] EXCEPT !.host = t]
      BY <1>0, <3>2 DEF TypeOK
    <3>4. QED
      BY <1>0, <3>3 DEF DevRow
  <2>3. QED
    BY <2>1, <2>2
<1>3. TypeOK'
  <2>1. devs' \in [Id -> DevRow \cup {None, Gone}]
    <3>1. CASE MarkRemoved(i)
      BY <1>0, <3>1 DEF MarkRemoved, TypeOK
    <3>2. CASE \E t \in Text : RefreshExisting(i, t)
      <4>1. PICK t \in Text : devs' = [devs EXCEPT ![i] = [devs[i] EXCEPT !.host = t]]
        BY <3>2 DEF RefreshExisting
      <4>2. [devs[i] EXCEPT !.host = t] \in DevRow
        BY <1>0 DEF DevRow
      <4>3. QED
        BY <1>0, <4>1, <4>2 DEF TypeOK
    <3>3. QED
      BY <3>1, <3>2
  <2>2. QED
    BY <1>0, <1>1, <2>1 DEF TypeOK
<1>4. /\ Live' \subseteq Live /\ Sites' = Sites /\ (HubDevice \in Live => HubDevice \in Live')
      /\ \A j \in Live' : /\ devs'[j].seat = devs[j].seat
                          /\ devs'[j].site = devs[j].site /\ devs'[j].lan = devs[j].lan
  BY <1>0, <1>1, <1>2, ZoneNoneAssumption DEF Live, Sites
<1>5. SitesSound' /\ HubThere' /\ DevicesHome'
  BY <1>1, <1>4 DEF IInv, SitesSound, HubThere, DevicesHome, Home
<1>6. ASSUME NEW q \in Proc PROVE RequestSound(q)'
  <2>1. RequestSound(q)
    BY DEF IInv
  <2>2. At(q, "commit")' => CommitSound(req[q])'
    BY <1>1, <1>4, <2>1 DEF RequestSound, At, CommitSound, Home
  <2>3. At(q, "commit")' /\ q \notin overtaken' => UpToDate(req[q])'
    BY <1>1, <1>4, <2>1 DEF RequestSound, At, UpToDate, SlugImitated
  <2>4. QED
    BY <2>2, <2>3 DEF RequestSound
<1>7. QED
  BY <1>3, <1>5, <1>6 DEF IInv

-------------------------------------------------------------------------------
(* The commit.                                                               *)

LEMMA CommitStep ==
  ASSUME IInv, NEW p \in Proc, NEW t \in Text, Commit(p, t)
  PROVE  IInv'
<1> DEFINE r == req[p]
           new(i) == [host |-> t, site |-> r.slot, seat |-> r.seat, lan |-> r.lan]
<1>0. /\ TypeOK /\ SitesSound /\ r \in Commitment
      /\ IndexesAdmit(r) /\ CommitSound(r)
  BY DEF IInv, TypeOK, RequestSound, Commit, At, Idle, Commitment
<1>1. PICK i \in Id :
        /\ \A j \in Id : devs[j] = None <=> i <= j
        /\ devs' = [devs EXCEPT ![i] = new(i)]
  BY DEF Commit
<1>2. new(i) \in DevRow
  BY <1>0 DEF DevRow, Commitment
<1>3. devs[i] = None /\ i \notin Live
  <2>1. i <= i
    BY DEF Id
  <2>2. QED
    BY <1>1, <2>1 DEF Live
<1>4. devs'[i] = new(i) /\ \A j \in Id \ {i} : devs'[j] = devs[j]
  BY <1>0, <1>1 DEF TypeOK
<1>5. Live' = Live \cup {i}
  BY <1>2, <1>4, ZoneNoneAssumption DEF Live
<1>6. r.slot \in Slots /\ r.slot \in Nat /\ r.row \in SiteRow \cup {None}
  BY <1>0, Bounds DEF Commitment, Slots
\* The sites there were are untouched; a new one is above them all.
<1>7. /\ \A s \in Sites : s \in Sites' /\ sites'[s] = sites[s]
      /\ r.row = None => Sites' = Sites
      /\ r.row # None => /\ r.slot \notin Sites /\ Sites' = Sites \cup {r.slot}
                         /\ sites'[r.slot] = r.row
  <2>1. CASE r.row = None
    BY <2>1 DEF Commit, Sites
  <2>2. CASE r.row # None
    <3>1. sites' = [sites EXCEPT ![r.slot] = r.row] /\ r.slot \notin Sites
      BY <1>0, <2>2 DEF Commit, IndexesAdmit
    <3>2. sites'[r.slot] = r.row /\ \A s \in Slots \ {r.slot} : sites'[s] = sites[s]
      BY <1>0, <1>6, <3>1 DEF TypeOK
    <3>3. QED
      BY <1>6, <2>2, <3>1, <3>2 DEF Sites
  <2>3. QED
    BY <2>1, <2>2
<1>8. \A s \in Sites : s \in Nat /\ (r.row # None => s < r.slot)
  <2>1. Sites \subseteq Nat
    BY Bounds DEF Sites, Slots
  <2>2. ASSUME NEW s \in Sites, r.row # None PROVE s < r.slot
    <3>1. CASE r.slot \in 0..s
      BY <1>0, <1>7, <2>2, <3>1 DEF SitesSound
    <3>2. QED
      BY <1>6, <2>1, <3>1
  <2>3. QED
    BY <2>1, <2>2
<1>9. TypeOK'
  <2>1. devs' \in [Id -> DevRow \cup {None, Gone}]
    BY <1>0, <1>1, <1>2 DEF TypeOK
  <2>2. sites' \in [Slots -> SiteRow \cup {None}]
    BY <1>0, <1>6 DEF TypeOK, Commit
  <2>3. req' \in [Proc -> Request]
    BY <1>0, BecomesType DEF Commit, Request
  <2>4. overtaken' \subseteq Proc
    BY <1>0 DEF TypeOK, Commit
  <2>5. QED
    BY <2>1, <2>2, <2>3, <2>4
    DEF TypeOK, Request, Refusal, Commitment, Question
<1>10. SitesSound'
  <2>1. 0 \in Sites'
    BY <1>0, <1>7 DEF SitesSound
  <2>2. ASSUME NEW s \in Sites', NEW k \in 0..s PROVE k \in Sites'
    <3>1. CASE s \in Sites
      BY <1>0, <1>7, <2>2, <3>1 DEF SitesSound
    <3>2. CASE s \notin Sites
      <4>1. r.row # None /\ s = r.slot
        BY <1>7, <2>2, <3>2
      <4>2. k = r.slot \/ k \in 0..r.slot - 1
        BY <1>6, <2>2, <4>1
      <4>3. QED
        BY <1>0, <1>7, <2>2, <4>1, <4>2 DEF CommitSound
    <3>3. QED
      BY <3>1, <3>2
  <2>3. QED
    BY <2>1, <2>2 DEF SitesSound
<1>11. HubThere'
  BY <1>3, <1>4, <1>5 DEF IInv, HubThere, Live
<1> DEFINE HomeThen(L, s) == /\ s \in Sites' /\ sites'[s].place = L
                            /\ \A k \in Sites' : sites'[k].place = L => s <= k
\* The first site of a place stays the first.
<1>12. ASSUME NEW L, NEW s, Home(L, s) PROVE HomeThen(L, s)
  <2>1. s \in Sites /\ s \in Sites' /\ sites'[s].place = L
    BY <1>7, <1>12 DEF Home
  <2>2. ASSUME NEW k \in Sites', sites'[k].place = L PROVE s <= k
    <3>1. CASE k \in Sites
      BY <1>7, <1>12, <2>2, <3>1 DEF Home
    <3>2. CASE k \notin Sites
      BY <1>6, <1>7, <1>8, <2>1, <2>2, <3>2
    <3>3. QED
      BY <3>1, <3>2
  <2>3. QED
    BY <2>1, <2>2
\* The new device is at home.
<1>13. ASSUME r.lan # None PROVE HomeThen(r.lan, r.slot)
  <2>1. CASE r.row = None
    BY <1>0, <1>12, <1>13, <2>1 DEF CommitSound
  <2>2. CASE r.row # None
    <3>1. r.slot \in Sites' /\ sites'[r.slot].place = r.lan
      BY <1>0, <1>7, <1>13, <2>2 DEF CommitSound
    <3>2. ASSUME NEW k \in Sites', sites'[k].place = r.lan PROVE r.slot <= k
      <4>1. CASE k = r.slot
        BY <1>6, <4>1
      <4>2. CASE k # r.slot
        <5>1. k \in Sites /\ sites[k].place = r.lan
          BY <1>7, <2>2, <3>2, <4>2
        <5>2. k \in 0..r.slot - 1
          BY <1>6, <1>8, <2>2, <5>1
        <5>3. QED
          BY <1>0, <1>13, <2>2, <5>1, <5>2 DEF CommitSound
      <4>3. QED
        BY <4>1, <4>2
    <3>3. QED
      BY <3>1, <3>2
  <2>3. QED
    BY <2>1, <2>2
<1>14. DevicesHome'
  <2>1. ASSUME NEW j \in Live', devs'[j].lan # None
        PROVE  HomeThen(devs'[j].lan, devs'[j].site)
    <3>1. CASE j = i
      BY <1>4, <1>13, <2>1, <3>1
    <3>2. CASE j # i
      <4>1. j \in Live /\ devs'[j] = devs[j]
        BY <1>4, <1>5, <2>1, <3>2 DEF Live
      <4>2. Home(devs[j].lan, devs[j].site)
        BY <2>1, <4>1 DEF IInv, DevicesHome
      <4>3. QED
        BY <1>12, <4>1, <4>2
    <3>3. QED
      BY <3>1, <3>2
  <2>2. QED
    BY <2>1 DEF DevicesHome, Home
\* Who is overtaken still has its site, or is going to fail.
<1>15. ASSUME NEW q \in Proc PROVE RequestSound(q)'
  <2>1. CASE q = p
    BY <1>0, <2>1 DEF RequestSound, At, Commit, Becomes, TypeOK, Idle
  <2>2. CASE q # p
    <3>1. req'[q] = req[q] /\ (At(q, "commit") => q \in overtaken')
      BY <1>0, <2>2 DEF Commit, Becomes, TypeOK
    <3>2. ASSUME At(q, "commit") PROVE CommitSound(req[q])'
      <4>1. CommitSound(req[q]) /\ req[q] \in Commitment
        BY <1>0, <3>2 DEF IInv, RequestSound, TypeOK, At, Idle, Commitment
      <4>2. req[q].row = None => /\ req[q].slot \in Sites'
                                 /\ req[q].lan # None => HomeThen(req[q].lan, req[q].slot)
        BY <1>7, <1>12, <4>1 DEF CommitSound
      <4>3. req[q].row # None =>
              /\ \A k \in 0..req[q].slot - 1 : k \in Sites'
              /\ req[q].lan # None =>
                   /\ req[q].row.place = req[q].lan
                   /\ \A k \in 0..req[q].slot - 1 : sites'[k].place # req[q].lan
        BY <1>7, <4>1 DEF CommitSound
      <4>4. QED
        BY <3>1, <4>2, <4>3 DEF CommitSound, Home
    <3>3. QED
      BY <3>1, <3>2 DEF RequestSound, At
  <2>3. QED
    BY <2>1, <2>2
<1>16. QED
  BY <1>9, <1>10, <1>11, <1>14, <1>15 DEF IInv

LEMMA NextIInv == IInv /\ [Next]_vars => IInv'
<1> SUFFICES ASSUME IInv, [Next]_vars PROVE IInv'
  OBVIOUS
<1>1. ASSUME NEW p \in Proc, NEW r \in Register, Read(p, r) PROVE IInv'
  BY <1>1, ReadStep
<1>2. ASSUME NEW p \in Proc, NEW t \in Text, Commit(p, t) PROVE IInv'
  BY <1>2, CommitStep
<1>3. ASSUME NEW p \in Proc,
             \/ \E r \in Register : ReadRefuses(p, r)
             \/ \E i \in Id : StartZone(p, i)
             \/ DuplicateKey(p) \/ Fail(p) \/ AnswerZone(p)
      PROVE  IInv'
  BY <1>3, OtherRequests
<1>4. ASSUME NEW i \in Id, MarkRemoved(i) \/ \E t \in Text : RefreshExisting(i, t)
      PROVE  IInv'
  BY <1>4, RowSteps
<1>5. CASE UNCHANGED vars
  <2>1. TypeOK' /\ SitesSound' /\ HubThere' /\ DevicesHome'
    BY <1>5 DEF vars, IInv, TypeOK, SitesSound, HubThere, DevicesHome, Home, Sites, Live
  <2>2. ASSUME NEW q \in Proc PROVE RequestSound(q)'
    <3>1. RequestSound(q)
      BY DEF IInv
    <3>2. QED
      BY <1>5, <3>1
      DEF vars, RequestSound, At, CommitSound, UpToDate, Home, SlugImitated, Sites, Live
  <2>3. QED
    BY <2>1, <2>2 DEF IInv
<1>6. QED
  BY <1>1, <1>2, <1>3, <1>4, <1>5 DEF Next

-------------------------------------------------------------------------------
(* The theorems.                                                             *)

\* Sites are numbered without gaps, and every device that asked for no site is in
\* the first site of its LAN, in every reachable state.
THEOREM Invariance == Spec => []IInv
BY InitIInv, NextIInv, PTL DEF Spec

\* The rows and the requests of Zone have their types.
THEOREM TypeCorrect == Spec => []TypeOK
<1>1. IInv => TypeOK
  BY DEF IInv
<1>2. QED
  BY <1>1, Invariance, PTL

\* Devices that enrolled from one LAN without asking for a site share one: the
\* site allocateDevice finds by the place, or makes, is the place's first.
THEOREM LanMatesShareSiteHolds == Spec => []LanMatesShareSite
<1>1. IInv => LanMatesShareSite
  <2> SUFFICES ASSUME IInv, NEW i \in Live, NEW j \in Live,
                      devs[i].lan = devs[j].lan, devs[i].lan # None
               PROVE  devs[i].site = devs[j].site
    BY DEF LanMatesShareSite
  <2>1. Home(devs[i].lan, devs[i].site) /\ Home(devs[i].lan, devs[j].site)
    BY DEF IInv, DevicesHome
  <2>2. Sites \subseteq Nat
    BY Bounds DEF Sites, Slots
  <2>3. devs[i].site <= devs[j].site /\ devs[j].site <= devs[i].site
    BY <2>1 DEF Home
  <2>4. devs[i].site \in Nat /\ devs[j].site \in Nat
    BY <2>1, <2>2 DEF Home
  <2>5. QED
    BY <2>3, <2>4
<1>2. QED
  BY <1>1, Invariance, PTL

\* A register is refused for want of a seat or a site only if there is none, and
\* by an index only if it was overtaken, or a made-up slug was asked for before.
THEOREM RefusedOnlyWhenFullHolds == Spec => RefusedOnlyWhenFull
<1> DEFINE Justified(p) ==
      /\ Refused(p, "slots") => Sites = Slots
      /\ Refused(p, "seats") => {devs[i].seat : i \in Live} = 1..LastSeat
      /\ Refused(p, "key") => p \in overtaken \/ SlugImitated
<1>1. ASSUME IInv, [Next]_vars, NEW p \in Proc, NEW why \in {"slots", "seats", "key"},
             Refused(p, why)
      PROVE  \/ why = "key" /\ DuplicateKey(p)
             \/ \E r \in Register : ReadRefuses(p, r) /\
                  why = IF SlotFound(r) THEN "seats" ELSE "slots"
  <2>0. TypeOK /\ req'[p].pc = "refused" /\ req[p].pc # "refused" /\ req'[p].why = why
    BY <1>1 DEF Refused, At, IInv
  <2>1. PICK q \in Proc : \/ \E r \in Register : Read(q, r) \/ ReadRefuses(q, r)
                          \/ \E t \in Text : Commit(q, t)
                          \/ DuplicateKey(q) \/ Fail(q)
                          \/ \E i \in Id : StartZone(q, i)
                          \/ AnswerZone(q)
    BY <1>1, <2>0 DEF Next, vars, MarkRemoved, RefreshExisting
  <2>2. \E x : req' = [req EXCEPT ![q] = x]
    BY <2>1 DEF Read, ReadRefuses, Commit, DuplicateKey, Fail, StartZone, AnswerZone, Becomes
  <2>3. q = p
    BY <2>0, <2>2 DEF TypeOK
  <2>4. \A x : Becomes(p, x) => req'[p] = x
    BY <2>0 DEF Becomes, TypeOK
  <2>5. ~(\E r \in Register : Read(p, r)) /\ ~(\E i \in Id : StartZone(p, i))
    <3>1. ASSUME NEW r \in Register, Read(p, r) PROVE FALSE
      <4>1. \E a, b, c, d : Becomes(p, [pc |-> "commit", lan |-> a, slot |-> b, row |-> c, seat |-> d])
        BY <3>1 DEF Read
      <4>2. QED
        BY <2>0, <2>4, <4>1
    <3>2. ASSUME NEW i \in Id, StartZone(p, i) PROVE FALSE
      BY <2>0, <2>4, <3>2 DEF StartZone
    <3>3. QED
      BY <3>1, <3>2
  <2>6. ~(\E t \in Text : Commit(p, t)) /\ ~Fail(p) /\ ~AnswerZone(p)
    BY <2>0, <2>4 DEF Commit, Fail, AnswerZone, Idle
  <2>7. CASE DuplicateKey(p)
    BY <2>0, <2>4, <2>7 DEF DuplicateKey
  <2>8. CASE \E r \in Register : ReadRefuses(p, r)
    <3>1. PICK r \in Register : ReadRefuses(p, r)
      BY <2>8
    <3>2. req'[p].why = IF SlotFound(r) THEN "seats" ELSE "slots"
      BY <2>4, <3>1 DEF ReadRefuses
    <3>3. QED
      BY <2>0, <3>1, <3>2
  <2>9. QED
    BY <2>1, <2>3, <2>5, <2>6, <2>7, <2>8
<1>2. ASSUME IInv, [Next]_vars, NEW p \in Proc PROVE Justified(p)
  <2>1. ASSUME Refused(p, "slots") PROVE Sites = Slots
    <3>1. PICK r \in Register : ~SlotFound(r)
      BY <1>1, <1>2, <2>1
    <3>2. (1..LastSlot) \subseteq Sites /\ 0 \in Sites
      BY <1>2, <3>1 DEF SlotFound, FreeSlots, IInv, SitesSound
    <3>3. Sites \subseteq Slots /\ Slots \subseteq {0} \cup (1..LastSlot)
      BY Bounds DEF Sites, Slots
    <3>4. QED
      BY <3>2, <3>3
  <2>2. ASSUME Refused(p, "seats") PROVE {devs[i].seat : i \in Live} = 1..LastSeat
    <3> DEFINE taken == {devs[i].seat : i \in Live}
    <3>1. PICK r \in Register : SeatsFree(Chosen(r).slot) = {}
      BY <1>1, <1>2, <2>2 DEF ReadRefuses
    <3>2. (2..LastSeat) \subseteq taken
      BY <3>1 DEF SeatsFree
    <3>3. 1 \in taken
      BY <1>2 DEF IInv, HubThere
    <3>4. taken \subseteq 1..LastSeat
      BY <1>2, LiveTyped DEF IInv, DevRow
    <3>5. 1..LastSeat \subseteq {1} \cup (2..LastSeat)
      BY Bounds
    <3>6. QED
      BY <3>2, <3>3, <3>4, <3>5
  <2>3. ASSUME Refused(p, "key"), p \notin overtaken PROVE SlugImitated
    <3>1. DuplicateKey(p)
      BY <1>1, <1>2, <2>3
    <3>2. UpToDate(req[p]) /\ ~IndexesAdmit(req[p])
      BY <1>2, <2>3, <3>1 DEF IInv, RequestSound, DuplicateKey
    <3>3. QED
      BY <3>2 DEF UpToDate, IndexesAdmit
  <2>4. QED
    BY <2>1, <2>2, <2>3
<1>3. IInv /\ [Next]_vars => [\A p \in Proc : Justified(p)]_vars
  BY <1>2
<1>4. QED
  BY <1>3, Invariance, PTL DEF Spec, RefusedOnlyWhenFull
-------------------------------------------------------------------------------
(* Names.  The recursion of NamesGiven has a solution for every list: if one *)
(* of the lengths had none, the least of them would be one more than a       *)
(* length that has one.                                                      *)

Given(s, m, name) ==
  name = [n \in 1..m |-> IF \E k \in 1..n - 1 : name[k] = Label(s[n])
                           THEN Append(Label(s[n]), s[n].id) ELSE Label(s[n])]

LEMMA NamesExist ==
  ASSUME NEW s, NEW m \in Nat PROVE \E name : Given(s, m, name)
<1> DEFINE Bad == {n \in Nat : ~\E name : Given(s, n, name)}
<1>1. SUFFICES ASSUME Bad # {} PROVE FALSE
  OBVIOUS
<1>2. PICK n \in Bad : \A k \in Bad : n <= k
  <2>1. Bad \subseteq Nat
    OBVIOUS
  <2> HIDE DEF Bad
  <2>2. QED
    BY <1>1, <2>1, LeastIsLeast
<1>3. n \in Nat /\ ~\E name : Given(s, n, name)
  OBVIOUS
<1>4. n # 0
  <2>1. SUFFICES ASSUME n = 0 PROVE FALSE
    OBVIOUS
  <2>2. 1..0 = {}
    OBVIOUS
  <2>3. Given(s, 0, [k \in 1..0 |-> 0])
    BY <2>2 DEF Given
  <2>4. QED
    BY <1>3, <2>1, <2>3
<1>5. n - 1 \in Nat
  BY <1>3, <1>4
<1>6. n - 1 \notin Bad
  <2>1. ~(n <= n - 1)
    BY <1>3
  <2> HIDE DEF Bad
  <2>2. QED
    BY <1>2, <2>1
<1>7. PICK g : Given(s, n - 1, g)
  BY <1>5, <1>6
<1> DEFINE last == IF \E k \in 1..n - 1 : g[k] = Label(s[n])
                     THEN Append(Label(s[n]), s[n].id) ELSE Label(s[n])
           f == [j \in 1..n |-> IF j = n THEN last ELSE g[j]]
<1>8. \A j \in 1..n - 1 : f[j] = g[j]
  BY <1>3
<1>9. f[n] = last
  BY <1>3, <1>4
<1>10. ASSUME NEW j \in 1..n
       PROVE  f[j] = IF \E k \in 1..j - 1 : f[k] = Label(s[j])
                       THEN Append(Label(s[j]), s[j].id) ELSE Label(s[j])
  <2>1. \A k \in 1..j - 1 : f[k] = g[k]
    <3>1. \A k \in 1..j - 1 : k \in 1..n - 1
      BY <1>3
    <3> HIDE DEF f
    <3>2. QED
      BY <1>8, <3>1
  <2>2. CASE j = n
    <3> HIDE DEF f
    <3>1. QED
      BY <1>9, <2>1, <2>2
  <2>3. CASE j # n
    <3>1. j \in 1..n - 1
      BY <1>3, <2>3
    <3>2. g[j] = IF \E k \in 1..j - 1 : g[k] = Label(s[j])
                   THEN Append(Label(s[j]), s[j].id) ELSE Label(s[j])
      BY <1>7, <3>1 DEF Given
    <3> HIDE DEF f
    <3>3. QED
      BY <1>8, <2>1, <3>1, <3>2
  <2>4. QED
    BY <2>2, <2>3
<1>11. f = [j \in 1..n |-> f[j]]
  OBVIOUS
<1>12. Given(s, n, f)
  <2> HIDE DEF f
  <2>1. QED
    BY <1>10, <1>11 DEF Given
<1>13. QED
  BY <1>3, <1>12

LEMMA NamesGivenIs ==
  ASSUME NEW s, Len(s) \in Nat, NEW n \in 1..Len(s)
  PROVE  NamesGiven(s)[n] = IF \E k \in 1..n - 1 : NamesGiven(s)[k] = Label(s[n])
                              THEN Append(Label(s[n]), s[n].id) ELSE Label(s[n])
<1>1. NamesGiven(s) = CHOOSE name : Given(s, Len(s), name)
  BY DEF NamesGiven, Given
<1>2. Given(s, Len(s), NamesGiven(s))
  BY <1>1, NamesExist
<1>3. QED
  BY <1>2 DEF Given

-------------------------------------------------------------------------------
(* The list: the devices have different seats, so their ranks put them in    *)
(* order.                                                                    *)

SeatsApart == \A i, j \in Live : devs[i].seat = devs[j].seat => i = j

\* What the list and a request say of a device.
Entries == [id : Id, host : Text, seat : 1..LastSeat]

UpTo(i) == {j \in Live : devs[j].seat <= devs[i].seat}
InOrder(s) == \A m, n \in DOMAIN s : m < n => devs[s[m]].seat < devs[s[n]].seat

LEMMA LiveFinite == IsFiniteSet(Live) /\ Cardinality(Live) \in Nat
<1>1. IsFiniteSet(Id)
  BY FS_Interval, Bounds DEF Id
<1>2. Live \in SUBSET Id
  BY DEF Live
<1>3. QED
  BY <1>1, <1>2, FS_Subset, FS_CardinalityType

LEMMA RankGrows ==
  ASSUME TypeOK, NEW i \in Live, NEW j \in Live, devs[i].seat < devs[j].seat
  PROVE  Cardinality(UpTo(i)) < Cardinality(UpTo(j))
<1>1. \A k \in Live : devs[k].seat \in Nat
  BY LiveTyped, Bounds DEF DevRow
<1>2. UpTo(i) \subseteq UpTo(j) /\ j \in UpTo(j) /\ j \notin UpTo(i)
  BY <1>1 DEF UpTo
<1>3. IsFiniteSet(UpTo(j)) /\ IsFiniteSet(UpTo(i))
  BY LiveFinite, FS_Subset DEF UpTo
<1>4. /\ Cardinality(UpTo(i)) \in Nat /\ Cardinality(UpTo(j)) \in Nat
      /\ Cardinality(UpTo(i)) <= Cardinality(UpTo(j))
      /\ Cardinality(UpTo(j)) = Cardinality(UpTo(i)) => UpTo(j) = UpTo(i)
  BY <1>2, <1>3, FS_Subset, FS_CardinalityType
<1>5. QED
  BY <1>2, <1>4

LEMMA OrderExists ==
  ASSUME TypeOK, SeatsApart
  PROVE  \E s \in SetToSeqs(Live) : InOrder(s)
<1> DEFINE N == Cardinality(Live)
           rank == [i \in Live |-> Cardinality(UpTo(i))]
<1>1. \A k \in Live : devs[k].seat \in Nat
  BY LiveTyped, Bounds DEF DevRow
<1>2. N \in Nat /\ IsFiniteSet(Live)
  BY LiveFinite
<1>3. ASSUME NEW i \in Live PROVE Cardinality(UpTo(i)) \in 1..N
  <2>1. UpTo(i) \in SUBSET Live /\ i \in UpTo(i)
    BY <1>1 DEF UpTo
  <2>2. IsFiniteSet(UpTo(i)) /\ Cardinality(UpTo(i)) <= N
    BY <1>2, <2>1, FS_Subset
  <2>3. Cardinality(UpTo(i)) \in Nat /\ Cardinality(UpTo(i)) # 0
    BY <2>1, <2>2, FS_CardinalityType, FS_EmptySet
  <2>4. QED
    BY <1>2, <2>2, <2>3
<1>4. ASSUME NEW i \in Live, NEW j \in Live, rank[i] = rank[j] PROVE i = j
  <2>1. Cardinality(UpTo(i)) \in Nat /\ Cardinality(UpTo(j)) \in Nat
    BY <1>3
  <2>2. ~(devs[i].seat < devs[j].seat) /\ ~(devs[j].seat < devs[i].seat)
    BY <1>4, <2>1, RankGrows
  <2>3. devs[i].seat = devs[j].seat
    BY <1>1, <2>2
  <2>4. QED
    BY <2>3 DEF SeatsApart
<1>5. rank \in Injection(Live, 1..N)
  BY <1>3, <1>4 DEF Injection, IsInjective
<1>6. IsFiniteSet(1..N) /\ Cardinality(1..N) = N
  BY <1>2, FS_Interval
<1>7. rank \in Surjection(Live, 1..N)
  BY <1>5, <1>6, FS_Injection
<1>8. \A n \in 1..N : \E i \in Live : rank[i] = n
  BY <1>7 DEF Surjection
<1> DEFINE s == [n \in 1..N |-> CHOOSE i \in Live : rank[i] = n]
<1>9. \A n \in 1..N : s[n] \in Live /\ rank[s[n]] = n
  <2> HIDE DEF rank
  <2>1. QED
    BY <1>8
<1>10. DOMAIN s = 1..N /\ s \in [1..N -> Live]
  <2>1. s = [n \in 1..N |-> s[n]] /\ DOMAIN s = 1..N
    OBVIOUS
  <2> HIDE DEF s
  <2>2. QED
    BY <1>9, <2>1
<1>11. ASSUME NEW m \in 1..N, NEW n \in 1..N, m < n
       PROVE  devs[s[m]].seat < devs[s[n]].seat
  <2> HIDE DEF s
  <2>1. /\ s[m] \in Live /\ Cardinality(UpTo(s[m])) = m
        /\ s[n] \in Live /\ Cardinality(UpTo(s[n])) = n
    BY <1>9
  <2>2. ~(devs[s[n]].seat < devs[s[m]].seat)
    BY <1>11, <2>1, RankGrows
  <2>3. devs[s[n]].seat # devs[s[m]].seat
    BY <1>11, <2>1 DEF SeatsApart
  <2>4. QED
    BY <1>1, <2>1, <2>2, <2>3
<1>12. \A m, n \in 1..N : m # n => s[m] # s[n]
  <2> HIDE DEF s
  <2>1. QED
    BY <1>9
<1>13. s \in SetToSeqs(Live)
  <2> HIDE DEF s
  <2>1. QED
    BY <1>10, <1>12 DEF SetToSeqs
<1>14. InOrder(s)
  <2> HIDE DEF s
  <2>1. QED
    BY <1>10, <1>11 DEF InOrder
<1>15. QED
  BY <1>13, <1>14

\* Every device is listed, at some place, as it is.
LEMMA ListedIs ==
  ASSUME TypeOK, SeatsApart
  PROVE  /\ Listed \in Seq(Entries)
         /\ \A n \in 1..Len(Listed) : \E i \in Live : Listed[n] = Entry(i)
         /\ \A i \in Live : /\ Entry(i) \in Entries
                            /\ \E n \in 1..Len(Listed) : Listed[n] = Entry(i)
<1> DEFINE N == Cardinality(Live)
<1>1. BySeat = CHOOSE s \in SetToSeqs(Live) : InOrder(s)
  BY DEF BySeat, InOrder
<1>2. BySeat \in SetToSeqs(Live)
  BY <1>1, OrderExists
<1>3. N \in Nat /\ IsFiniteSet(Live)
  BY LiveFinite
<1>4. BySeat \in [1..N -> Live] /\ \A m, n \in 1..N : m # n => BySeat[m] # BySeat[n]
  BY <1>2 DEF SetToSeqs
<1>5. Len(BySeat) = N
  BY <1>3, <1>4
<1>6. Listed = [n \in 1..N |-> Entry(BySeat[n])]
  BY <1>5 DEF Listed
<1>7. ASSUME NEW i \in Live PROVE Entry(i) \in Entries
  BY LiveTyped DEF Entry, Entries, DevRow
<1>8. Listed \in Seq(Entries) /\ Len(Listed) = N
  BY <1>3, <1>4, <1>6, <1>7
<1>9. BySeat \in Injection(1..N, Live)
  BY <1>4 DEF Injection, IsInjective
<1>10. Cardinality(1..N) = Cardinality(Live)
  BY <1>3, FS_Interval
<1>11. BySeat \in Surjection(1..N, Live)
  BY <1>3, <1>9, <1>10, FS_Injection
<1>12. \A i \in Live : \E n \in 1..N : BySeat[n] = i
  BY <1>11 DEF Surjection
<1>13. QED
  BY <1>4, <1>6, <1>7, <1>8, <1>12

-------------------------------------------------------------------------------
(* What a name says.  A name of one part is the label of the first entry of  *)
(* the list that has this label; a longer one ends with the device's id.     *)

LEMMA AppendIs ==
  ASSUME NEW S, NEW t \in Seq(S), NEW x
  PROVE  Len(Append(t, x)) = Len(t) + 1 /\ Append(t, x)[Len(t) + 1] = x
<1>1. t \in Seq(S \cup {x}) /\ x \in S \cup {x}
  OBVIOUS
<1>2. QED
  BY <1>1

\* A list of entries with hostnames of one part or none.
Plain(s) == s \in Seq(Entries) /\ \A n \in 1..Len(s) : Len(s[n].host) <= 1

LEMMA LabelIs ==
  ASSUME NEW e \in Entries, Len(e.host) <= 1
  PROVE  /\ \E S : Label(e) \in Seq(S)
         /\ Len(Label(e)) \in 1..2
         /\ Len(Label(e)) = 2 => Label(e)[2] = e.id
<1>1. e.host \in Text /\ Len(e.host) \in Nat /\ e.host = [n \in 1..Len(e.host) |-> e.host[n]]
  BY ZoneInputsAssumption DEF Entries
<1>2. CASE e.host = <<>>
  <2>1. Label(e) = <<"dev", e.id>>
    BY <1>2 DEF Label
  <2>2. <<"dev", e.id>> \in Seq({"dev", e.id})
    OBVIOUS
  <2>3. Len(<<"dev", e.id>>) = 2 /\ <<"dev", e.id>>[2] = e.id
    OBVIOUS
  <2>4. Label(e) \in Seq({"dev", e.id})
    BY <2>1, <2>2
  <2>5. Len(Label(e)) = 2 /\ Label(e)[2] = e.id
    BY <2>1, <2>3, Zenon
  <2>6. QED
    BY <2>4, <2>5
<1>3. CASE e.host # <<>>
  <2> DEFINE S == {e.host[n] : n \in 1..Len(e.host)}
  <2>1. e.host \in [1..Len(e.host) -> S]
    BY <1>1
  <2>2. e.host \in Seq(S)
    <3> HIDE DEF S
    <3>1. QED
      BY <1>1, <2>1
  <2>3. Len(e.host) # 0
    <3> HIDE DEF S
    <3>1. QED
      BY <1>3, <2>2
  <2>4. Label(e) = e.host
    BY <1>3 DEF Label
  <2>5. Len(e.host) = 1
    <3>1. PICK l \in Nat : l = Len(e.host)
      BY <1>1
    <3>2. l <= 1 /\ l # 0
      BY <2>3, <3>1
    <3>3. l = 1
      BY <3>2
    <3>4. QED
      BY <3>1, <3>3
  <2>6. Len(Label(e)) \in 1..2 /\ Len(Label(e)) # 2 /\ Label(e) \in Seq(S)
    <3> HIDE DEF S
    <3>1. QED
      BY <2>2, <2>4, <2>5
  <2>7. QED
    BY <2>6
<1>4. QED
  BY <1>2, <1>3

\* name is the name given to entry n of s.
NameSays(s, n, name) ==
  /\ Len(name) = 1 => name = Label(s[n]) /\ \A k \in 1..n - 1 : Label(s[k]) # name
  /\ Len(name) # 1 => name[Len(name)] = s[n].id

LEMMA NameIs ==
  ASSUME NEW s, Plain(s), NEW n \in 1..Len(s)
  PROVE  NameSays(s, n, NamesGiven(s)[n])
<1> DEFINE name == NamesGiven(s)
<1>1. Len(s) \in Nat /\ s[n] \in Entries /\ Len(s[n].host) <= 1
  BY DEF Plain
<1>2. \A j \in 1..Len(s) :
        name[j] = IF \E k \in 1..j - 1 : name[k] = Label(s[j])
                    THEN Append(Label(s[j]), s[j].id) ELSE Label(s[j])
  BY <1>1, NamesGivenIs
<1> HIDE DEF name
<1>3. PICK hn : hn = Label(s[n])
  OBVIOUS
<1>4. PICK S : hn \in Seq(S)
  BY <1>1, <1>3, LabelIs
<1>5. Len(hn) \in 1..2 /\ (Len(hn) = 2 => hn[2] = s[n].id)
  BY <1>1, <1>3, LabelIs
<1>6. CASE \E k \in 1..n - 1 : name[k] = hn
  <2>1. name[n] = Append(hn, s[n].id)
    BY <1>2, <1>3, <1>6
  <2>2. Len(name[n]) = Len(hn) + 1 /\ name[n][Len(hn) + 1] = s[n].id
    BY <1>4, <2>1, AppendIs
  <2>3. PICK l \in Nat : l = Len(hn) /\ l # 0
    BY <1>5
  <2>4. Len(name[n]) = l + 1 /\ name[n][l + 1] = s[n].id /\ l + 1 # 1
    BY <2>2, <2>3
  <2>5. NameSays(s, n, name[n])
    BY <2>4 DEF NameSays
  <2>6. QED
    BY <2>5 DEF name
<1>7. CASE ~\E k \in 1..n - 1 : name[k] = hn
  <2>1. name[n] = hn
    BY <1>2, <1>3, <1>7
  <2>2. ASSUME NEW k \in 1..n - 1, Label(s[k]) = hn PROVE FALSE
    <3>1. k \in 1..Len(s) /\ \A j \in 1..k - 1 : j \in 1..n - 1
      BY <1>1
    <3>2. name[k] = hn
      BY <1>2, <1>7, <2>2, <3>1
    <3>3. QED
      BY <1>7, <3>2
  <2>3. Len(name[n]) # 1 => name[n][Len(name[n])] = s[n].id
    BY <1>5, <2>1
  <2>4. NameSays(s, n, name[n])
    BY <1>3, <2>1, <2>2, <2>3 DEF NameSays
  <2>5. QED
    BY <2>4 DEF name
<1>8. QED
  BY <1>6, <1>7

\* The zone of a caller e, with a row of any age, and that of device i.
LEMMA ZonesAgree ==
  ASSUME TypeOK, SeatsApart, NEW e \in Entries, Len(e.host) <= 1,
         \A j \in Live : Len(devs[j].host) <= 1,
         NEW i \in Live, NEW a \in ZoneFor(e), NEW b \in ZoneFor(Entry(i)),
         a.name = b.name
  PROVE  a.id = b.id
<1> DEFINE L == Len(Listed)
           s == WithCaller(e)
           t == WithCaller(Entry(i))
<1>1. /\ Listed \in Seq(Entries) /\ L \in Nat /\ Entry(i) \in Entries
      /\ \E n \in 1..L : Listed[n] = Entry(i)
  BY ListedIs
<1>2. ASSUME NEW n \in 1..L PROVE Len(Listed[n].host) <= 1
  <2>1. PICK j \in Live : Listed[n] = Entry(j)
    BY <1>2, ListedIs
  <2>2. QED
    BY <2>1 DEF Entry
<1>3. Len(Entry(i).host) <= 1
  BY DEF Entry
<1>4. /\ s \in Seq(Entries) /\ Len(s) = L + 1
      /\ s[L + 1] = e /\ \A n \in 1..L : s[n] = Listed[n]
  BY <1>1 DEF WithCaller
<1>5. /\ t \in Seq(Entries) /\ Len(t) = L + 1
      /\ t[L + 1] = Entry(i) /\ \A n \in 1..L : t[n] = Listed[n]
  BY <1>1 DEF WithCaller
<1>6. PICK n \in 1..Len(s) : a.name = NamesGiven(s)[n] /\ a.id = s[n].id
  BY DEF ZoneFor
<1>7. PICK m \in 1..Len(t) : b.name = NamesGiven(t)[m] /\ b.id = t[m].id
  BY DEF ZoneFor
<1> HIDE DEF L, s, t
<1>8. Plain(s) /\ Plain(t)
  <2>1. \A k \in 1..L + 1 : k \in 1..L \/ k = L + 1
    BY <1>1
  <2>2. QED
    BY <1>2, <1>3, <1>4, <1>5, <2>1 DEF Plain
<1>9. NameSays(s, n, a.name) /\ NameSays(t, m, a.name)
  BY <1>6, <1>7, <1>8, NameIs
<1>10. CASE Len(a.name) # 1
  BY <1>6, <1>7, <1>10, <1>9 DEF NameSays
<1>11. CASE Len(a.name) = 1
  <2>1. /\ a.name = Label(s[n]) /\ \A k \in 1..n - 1 : Label(s[k]) # a.name
        /\ a.name = Label(t[m]) /\ \A k \in 1..m - 1 : Label(t[k]) # a.name
    BY <1>11, <1>9 DEF NameSays
  <2>2. m \in 1..L
    <3>1. SUFFICES ASSUME m = L + 1 PROVE FALSE
      BY <1>1, <1>5
    <3>2. PICK k \in 1..L : Listed[k] = Entry(i)
      BY <1>1
    <3>3. k \in 1..m - 1 /\ Label(t[k]) = a.name
      BY <1>1, <1>5, <2>1, <3>1, <3>2
    <3>4. QED
      BY <2>1, <3>3
  <2>3. ~(m < n)
    <3>1. SUFFICES ASSUME m < n PROVE FALSE
      OBVIOUS
    <3>2. m \in 1..n - 1 /\ s[m] = t[m]
      BY <1>1, <1>4, <1>5, <2>2, <3>1
    <3>3. QED
      BY <2>1, <3>2
  <2>4. ~(n < m)
    <3>1. SUFFICES ASSUME n < m PROVE FALSE
      OBVIOUS
    <3>2. n \in 1..m - 1 /\ n \in 1..L
      BY <1>1, <1>4, <2>2, <3>1
    <3>3. s[n] = t[n]
      BY <1>4, <1>5, <3>2
    <3>4. QED
      BY <2>1, <3>2, <3>3
  <2>5. n = m
    BY <1>1, <1>4, <2>2, <2>3, <2>4
  <2>6. QED
    BY <1>4, <1>5, <1>6, <1>7, <2>2, <2>5
<1>12. QED
  BY <1>10, <1>11

-------------------------------------------------------------------------------
(* The unique index keeps the seats apart.                                   *)

LEMMA InitApart == Init => SeatsApart
BY DEF Init, SeatsApart, Live

LEMMA StepApart == ASSUME IInv, SeatsApart, [Next]_vars PROVE SeatsApart'
<1>0. TypeOK /\ \A i \in Live : i \in Id /\ devs[i] \in DevRow
  BY LiveTyped DEF IInv
<1>1. CASE UNCHANGED devs
  BY <1>1 DEF SeatsApart, Live
<1>2. ASSUME NEW p \in Proc, NEW t \in Text, Commit(p, t) PROVE SeatsApart'
  <2>1. PICK i \in Id :
          /\ \A j \in Id : devs[j] = None <=> i <= j
          /\ devs' = [devs EXCEPT ![i] = [host |-> t, site |-> req[p].slot,
                                          seat |-> req[p].seat, lan |-> req[p].lan]]
    BY <1>2 DEF Commit
  <2>2. \A j \in Live : devs[j].seat # req[p].seat
    BY <1>2 DEF Commit, IndexesAdmit
  <2>3. devs'[i].seat = req[p].seat /\ \A j \in Id \ {i} : devs'[j] = devs[j]
    BY <1>0, <2>1 DEF TypeOK
  <2>4. \A j \in Live' : j = i \/ j \in Live
    BY <2>3 DEF Live
  <2>5. QED
    BY <1>0, <2>2, <2>3, <2>4 DEF SeatsApart
<1>3. ASSUME NEW i \in Id, MarkRemoved(i) \/ \E t \in Text : RefreshExisting(i, t)
      PROVE  SeatsApart'
  <2>1. \A j \in Id \ {i} : devs'[j] = devs[j]
    BY <1>0, <1>3 DEF MarkRemoved, RefreshExisting, TypeOK
  <2>2. i \in Live' => i \in Live /\ devs'[i].seat = devs[i].seat
    <3>1. CASE MarkRemoved(i)
      BY <1>0, <3>1 DEF MarkRemoved, TypeOK, Live
    <3>2. CASE \E t \in Text : RefreshExisting(i, t)
      <4>1. PICK t \in Text : devs' = [devs EXCEPT ![i].host = t]
        BY <3>2 DEF RefreshExisting
      <4>2. i \in Live /\ devs[i] \in DevRow
        BY <1>0, <3>2 DEF RefreshExisting
      <4>3. QED
        BY <1>0, <4>1, <4>2 DEF TypeOK, DevRow
    <3>3. QED
      BY <1>3, <3>1, <3>2
  <2>3. \A j \in Live' : j \in Live /\ devs'[j].seat = devs[j].seat
    BY <2>1, <2>2 DEF Live
  <2>4. QED
    BY <2>3 DEF SeatsApart
<1>4. QED
  BY <1>1, <1>2, <1>3
  DEF Next, vars, Read, ReadRefuses, DuplicateKey, Fail, StartZone, AnswerZone

\* Two devices that ask at one moment are told the same of a name, and a name
\* stands for one device (handleWGDNSZone), as long as no hostname has the form of a
\* name the code makes up; whatever became of the caller since its row was read.
THEOREM NamesAgreeHolds == Spec => NamesAgree
<1>1. ASSUME TypeOK, SeatsApart, NEW p \in Proc, AnswerZone(p), ~NameImitated(p),
             NEW i \in Live, NEW a \in ZoneFor(Caller(p)), NEW b \in ZoneFor(Entry(i)),
             a.name = b.name
      PROVE  a.id = b.id
  <2>1. req[p] \in Question
    BY <1>1 DEF AnswerZone, At, TypeOK, Idle, Question
  <2>2. Caller(p) \in Entries /\ Caller(p).host = req[p].host
    BY <2>1 DEF Caller, Entries, Question
  <2>3. Len(req[p].host) \in Nat /\ \A j \in Live : Len(devs[j].host) \in Nat
    BY <1>1, <2>1, LiveTyped, ZoneInputsAssumption DEF Question, DevRow
  <2>4. Len(Caller(p).host) <= 1 /\ \A j \in Live : Len(devs[j].host) <= 1
    BY <1>1, <2>2, <2>3 DEF NameImitated
  <2>5. QED
    BY <1>1, <2>2, <2>4, ZonesAgree
<1>2. TypeOK /\ SeatsApart =>
        \A p \in Proc : AnswerZone(p) /\ ~NameImitated(p) =>
          \A i \in Live : \A a \in ZoneFor(Caller(p)), b \in ZoneFor(Entry(i)) :
            a.name = b.name => a.id = b.id
  BY <1>1
<1>3. Init => SeatsApart
  BY InitApart
<1>4. IInv /\ SeatsApart /\ [Next]_vars => SeatsApart'
  BY StepApart
<1>5. IInv => TypeOK
  BY DEF IInv
<1>6. QED
  BY <1>2, <1>3, <1>4, <1>5, Invariance, PTL DEF Spec, NamesAgree

===============================================================================
