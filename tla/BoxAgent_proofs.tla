---------------------------- MODULE BoxAgent_proofs ----------------------------
(***************************************************************************)
(* Proofs about BoxAgent, for any number of tokens, keys, retries and      *)
(* reboots.  The types hold, and an interface that is up is governed by a  *)
(* state file, whatever happens; that files and interface say the same,    *)
(* and that only a refused device is evicted, as long as no second script  *)
(* runs over an install.                                                   *)
(***************************************************************************)
EXTENDS BoxAgent, TLAPS

-------------------------------------------------------------------------------
(* The types, with what a run of the script or of the tick carries.          *)

Carried ==
  /\ script.pc # "idle" => script.tok \in Token
  /\ script.pc \in EnrolPC => script.key \in Key
  /\ tick.pc # "idle" => tick.tok \in Token

TInv == TypeOK /\ Carried

ScriptRow == [pc : ScriptPC, tok : Token \cup {None}, key : Key \cup {None},
              tries : 0..MaxRetries, answer : {None, "ok", "refused"}]
TickRow == [pc : TickPC, tok : Token \cup {None}]

LEMMA Idle ==
  /\ NoScript \in ScriptRow /\ NoScript.pc = "idle"
  /\ NoTick \in TickRow /\ NoTick.pc = "idle"
BY BoundsAssumption DEF NoScript, NoTick, ScriptRow, TickRow, ScriptPC, TickPC

\* The script's record when it starts to enrol and when it starts to leave.
LEMMA BegunToEnrol ==
  ASSUME NEW t \in Token, NEW k \in Key,
         script' = [NoScript EXCEPT !.pc = "post", !.tok = t, !.key = k]
  PROVE  script' \in ScriptRow /\ script'.pc = "post" /\ script'.tok = t /\ script'.key = k
BY Idle DEF ScriptRow, ScriptPC, NoScript

LEMMA BegunToLeave ==
  ASSUME NEW t \in Token, script' = [NoScript EXCEPT !.pc = "disable", !.tok = t]
  PROVE  script' \in ScriptRow /\ script'.pc = "disable" /\ script'.tok = t
BY Idle DEF ScriptRow, ScriptPC, NoScript

LEMMA InitTInv == Init => TInv
<1> SUFFICES ASSUME Init PROVE TInv
  OBVIOUS
<1>1. devices \in [Token -> Device]
  BY DEF Init, Device
<1>2. script \in ScriptRow /\ tick \in TickRow
  BY Idle DEF Init
<1>3. crashes \in 0..MaxCrashes
  BY BoundsAssumption DEF Init
<1>4. TypeOK
  BY <1>1, <1>2, <1>3 DEF Init, TypeOK, ScriptRow, TickRow
<1>5. Carried
  BY Idle DEF Init, Carried, EnrolPC
<1>6. QED
  BY <1>4, <1>5 DEF TInv

\* The control plane's steps, and the request's arrival at it.
LEMMA ServerTypes ==
  ASSUME TInv, clashed' \in BOOLEAN,
         (\E t \in Token : Remove(t) \/ Expire(t)) \/ Post
  PROVE  TInv'
<1>1. CASE \E t \in Token : Remove(t) \/ Expire(t)
  <2>1. PICK t \in Token : Remove(t) \/ Expire(t)
    BY <1>1
  <2> DEFINE removed == [devices[t] EXCEPT !.st = "removed"]
             expired == [devices[t] EXCEPT !.expired = TRUE]
  <2>2. /\ UNCHANGED <<box, crashes, used>>
        /\ \/ devices' = [devices EXCEPT ![t] = removed]
           \/ devices' = [devices EXCEPT ![t] = expired]
    BY <2>1 DEF Remove, Expire, TInv, TypeOK
  <2>3. devices' \in [Token -> Device]
    <3>1. devices[t] \in Device /\ devices \in [Token -> Device]
      BY DEF TInv, TypeOK
    <3>2. removed \in Device /\ expired \in Device
      BY <3>1 DEF Device
    <3> HIDE DEF removed, expired
    <3>3. QED
      BY <2>2, <3>1, <3>2
  <2>4. QED
    BY <2>2, <2>3 DEF TInv, TypeOK, Carried, box, disk, kernel
<1>2. CASE Post
  <2> DEFINE t == script.tok
             row == [devices[t] EXCEPT !.st = "live", !.key = script.key]
  <2>1. t \in Token /\ script.key \in Key /\ devices[t] \in Device
    BY <1>2 DEF TInv, TypeOK, Carried, Post, At, EnrolPC
  <2>2. row \in Device
    BY <2>1 DEF Device
  <2>3. devices' = devices \/ devices' = [devices EXCEPT ![t] = row]
    BY <1>2 DEF Post
  <2>4. devices' \in [Token -> Device]
    BY <2>2, <2>3 DEF TInv, TypeOK
  <2>5. /\ script'.pc = "answer" /\ script'.tok = t /\ script'.key = script.key
        /\ script' \in ScriptRow
    <3>1. \/ script' = [script EXCEPT !.pc = "answer", !.answer = "ok"]
          \/ script' = [script EXCEPT !.pc = "answer", !.answer = "refused"]
      BY <1>2 DEF Post
    <3>2. script \in ScriptRow
      BY DEF TInv, TypeOK, ScriptRow
    <3>3. QED
      BY <3>1, <3>2 DEF ScriptRow, ScriptPC
  <2>6. UNCHANGED <<tick, disk, kernel, crashes, used>>
    BY <1>2 DEF Post
  <2>7. QED
    BY <2>1, <2>4, <2>5, <2>6 DEF TInv, TypeOK, Carried, ScriptRow, disk, kernel
<1>3. QED
  BY <1>1, <1>2

\* A step of the script that leaves the files and the interface alone.
LEMMA ScriptTypes ==
  ASSUME TInv, clashed' \in BOOLEAN,
         \/ \E t \in Token, k \in Key : Start(t, k)
         \/ PostLost \/ Answered \/ Interrupt \/ LeavePost
  PROVE  TInv'
<1>1. UNCHANGED <<devices, tick, disk, kernel, crashes>>
  BY DEF Start, PostLost, Answered, Interrupt, LeavePost
<1>2. /\ script' \in ScriptRow
      /\ script'.pc # "idle" => script'.tok \in Token
      /\ script'.pc \in EnrolPC => script'.key \in Key
  <2>1. CASE script' = NoScript
    BY <2>1, Idle DEF EnrolPC
  <2>2. CASE \E t \in Token, k \in Key : Start(t, k)
    BY <2>2, BegunToEnrol DEF Start
  <2>3. CASE PostLost /\ script' # NoScript
    <3>1. /\ script.pc \in EnrolPC /\ script.tries < MaxRetries
          /\ script' = [script EXCEPT !.pc = "post", !.tries = script.tries + 1, !.answer = None]
      BY <2>3 DEF PostLost, EnrolPC
    <3>2. script.tries + 1 \in 0..MaxRetries
      BY <3>1, BoundsAssumption DEF TInv, TypeOK
    <3>3. QED
      BY <3>1, <3>2 DEF TInv, TypeOK, Carried, EnrolPC, ScriptRow, ScriptPC
  <2>4. CASE Answered /\ script' # NoScript
    BY <2>4 DEF Answered, At, TInv, TypeOK, Carried, EnrolPC, ScriptRow, ScriptPC
  <2>5. CASE LeavePost
    BY <2>5 DEF LeavePost, At, GoTo, TInv, TypeOK, Carried, EnrolPC, ScriptRow, ScriptPC
  <2>6. QED
    BY <2>1, <2>2, <2>3, <2>4, <2>5 DEF Interrupt
<1>3. used' \subseteq Key
  BY DEF Start, PostLost, Answered, Interrupt, LeavePost, TInv, TypeOK
<1>4. QED
  BY <1>1, <1>2, <1>3 DEF TInv, TypeOK, Carried, ScriptRow, disk, kernel

LEMMA RenderedTyped ==
  ASSUME TInv, NEW t \in Token, state # None
  PROVE  Rendered(t) \in Enrolment
BY DEF TInv, TypeOK, Rendered, Enrolment

\* The script's steps that write.
LEMMA InstallTypes ==
  ASSUME TInv, clashed' \in BOOLEAN,
         WriteState \/ RenderFirst \/ EnableIface \/ EnableTimer \/ LeaveDown \/ LeaveDisable
  PROVE  TInv'
<1>1. devices' = devices /\ tick' = tick /\ crashes' = crashes /\ used' = used
  BY DEF WriteState, RenderFirst, EnableIface, EnableTimer, LeaveDown, LeaveDisable
<1>2. script.pc \in ScriptPC /\ script \in ScriptRow
  BY DEF TInv, TypeOK, ScriptRow
<1>3. /\ script' \in ScriptRow
      /\ script'.pc # "idle" => script'.tok \in Token
      /\ script'.pc \in EnrolPC => script'.key \in Key
  <2>1. CASE script' = NoScript
    BY <2>1, Idle DEF EnrolPC
  <2>2. CASE WriteState \/ RenderFirst \/ EnableIface
    <3>1. script.pc \in EnrolPC
      BY <2>2 DEF WriteState, RenderFirst, EnableIface, At, EnrolPC
    <3>2. \/ script' = NoScript
          \/ \E pc \in {"render", "enable", "timer"} : script' = [script EXCEPT !.pc = pc]
      BY <2>2 DEF WriteState, RenderFirst, EnableIface, GoTo
    <3>3. script.tok \in Token /\ script.key \in Key
      BY <3>1 DEF TInv, Carried, EnrolPC
    <3>4. QED
      BY <1>2, <2>1, <3>2, <3>3 DEF ScriptRow, ScriptPC
  <2>3. CASE LeaveDown
    <3>1. state.tok \in Token /\ script' = [NoScript EXCEPT !.pc = "disable", !.tok = state.tok]
      BY <2>3 DEF LeaveDown, TInv, TypeOK, Enrolment
    <3>2. QED
      BY <3>1, BegunToLeave DEF EnrolPC
  <2>4. CASE LeaveDisable
    <3>1. script.tok \in Token /\ script' = [script EXCEPT !.pc = "leave"]
      BY <2>4 DEF LeaveDisable, At, GoTo, TInv, Carried
    <3>2. QED
      BY <1>2, <3>1 DEF ScriptRow, ScriptPC, EnrolPC
  <2>5. QED
    BY <2>1, <2>2, <2>3, <2>4 DEF EnableTimer
<1>4. enabled' \subseteq Unit /\ active' \subseteq Unit
  BY DEF WriteState, RenderFirst, EnableIface, EnableTimer, LeaveDown, LeaveDisable,
         TInv, TypeOK, Unit, disk, kernel
<1>5. state' \in Enrolment \cup {None}
  BY DEF WriteState, RenderFirst, EnableIface, EnableTimer, LeaveDown, LeaveDisable,
         TInv, TypeOK, Carried, At, EnrolPC, Enrolment, disk
<1>6. conf' \in Enrolment \cup {None}
  <2>1. CASE RenderFirst
    <3>1. script.tok \in Token
      BY <2>1 DEF RenderFirst, At, TInv, Carried
    <3>2. QED
      BY <2>1, <3>1, RenderedTyped DEF RenderFirst, TInv, TypeOK
  <2>2. QED
    BY <2>1 DEF WriteState, EnableIface, EnableTimer, LeaveDown, LeaveDisable, TInv, TypeOK, disk
<1>7. iface' \in Enrolment \cup {None}
  BY DEF WriteState, RenderFirst, EnableIface, EnableTimer, LeaveDown, LeaveDisable,
         TInv, TypeOK, kernel
<1>8. QED
  BY <1>1, <1>3, <1>4, <1>5, <1>6, <1>7 DEF TInv, TypeOK, Carried, ScriptRow

\* The tick's steps, and a reboot.
LEMMA TickTypes ==
  ASSUME TInv, clashed' \in BOOLEAN, TickStep \/ StartTick \/ Ask \/ AskLost
  PROVE  TInv'
<1>1. devices' = devices /\ script' = script /\ crashes' = crashes /\ used' = used
  BY DEF TickStep, Render, Sync, EvictDown, EvictDisable, EvictRemove, StartTick, Ask, AskLost
<1>2. tick' \in TickRow /\ (tick'.pc # "idle" => tick'.tok \in Token)
  <2>1. CASE tick' = NoTick
    BY <2>1, Idle
  <2>2. CASE StartTick
    <3>1. state.tok \in Token
      BY <2>2 DEF StartTick, TInv, TypeOK, Enrolment
    <3>2. QED
      BY <2>2, <3>1 DEF StartTick, TickRow, TickPC
  <2>3. CASE tick.pc # "idle" /\ \E pc \in TickPC : TickTo(pc)
    BY <2>3 DEF TickTo, TInv, TypeOK, Carried, TickRow
  <2>4. CASE Render \/ EvictDown \/ EvictDisable \/ Ask
    BY <2>1, <2>3, <2>4 DEF Render, EvictDown, EvictDisable, Ask, Ticking, TickPC
  <2>5. QED
    BY <2>1, <2>2, <2>4 DEF TickStep, Sync, EvictRemove, AskLost
<1>3. enabled' \subseteq Unit /\ active' \subseteq Unit
  BY DEF TickStep, Render, Sync, EvictDown, EvictDisable, EvictRemove, StartTick, Ask, AskLost,
         TInv, TypeOK, disk, kernel
<1>4. state' \in Enrolment \cup {None}
  BY DEF TickStep, Render, Sync, EvictDown, EvictDisable, EvictRemove, StartTick, Ask, AskLost,
         TInv, TypeOK, disk
<1>5. conf' \in Enrolment \cup {None}
  <2>1. CASE Render
    <3>1. tick.tok \in Token
      BY <2>1 DEF Render, Ticking, TInv, Carried
    <3>2. QED
      BY <2>1, <3>1, RenderedTyped DEF Render, TInv, TypeOK
  <2>2. QED
    BY <2>1 DEF TickStep, Sync, EvictDown, EvictDisable, EvictRemove, StartTick, Ask, AskLost,
                TInv, TypeOK, disk
<1>6. iface' \in Enrolment \cup {None}
  <2>1. CASE Sync
    <3>1. \/ iface' = iface \/ iface' = conf
          \/ iface # None /\ conf # None /\ iface' = [iface EXCEPT !.key = conf.key]
      BY <2>1 DEF Sync
    <3>2. QED
      BY <3>1 DEF TInv, TypeOK, Enrolment
  <2>2. QED
    BY <2>1 DEF TickStep, Render, EvictDown, EvictDisable, EvictRemove, StartTick, Ask, AskLost,
                TInv, TypeOK, kernel
<1>7. QED
  BY <1>1, <1>2, <1>3, <1>4, <1>5, <1>6 DEF TInv, TypeOK, Carried, TickRow

LEMMA RebootTypes ==
  ASSUME TInv, clashed' \in BOOLEAN, Reboot
  PROVE  TInv'
<1>1. /\ script' \in ScriptRow /\ script'.pc = "idle"
      /\ tick' \in TickRow /\ tick'.pc = "idle"
  BY Idle DEF Reboot
<1>2. crashes' \in 0..MaxCrashes
  BY BoundsAssumption DEF Reboot, TInv, TypeOK
<1>3. QED
  BY <1>1, <1>2 DEF Reboot, TInv, TypeOK, Carried, ScriptRow, TickRow, EnrolPC, disk

\* What is kept of an overlap.
Clashes == /\ clashed' \in BOOLEAN
           /\ Overlap' => clashed'
           /\ clashed /\ (iface' # None \/ Evicting') => clashed'

LEMMA Observed == ASSUME clashed \in BOOLEAN, Observe PROVE Clashes
<1>1. clashed' = (Overlap' \/ (clashed /\ ~Quiet'))
  BY DEF Observe
<1>2. clashed' \in BOOLEAN
  BY <1>1
<1>3. Overlap' => clashed'
  BY <1>1
<1>4. Quiet' => iface' = None /\ ~Evicting'
  BY DEF Quiet
<1>5. clashed /\ ~Quiet' => clashed'
  BY <1>1
<1>6. QED
  BY <1>2, <1>3, <1>4, <1>5, Zenon DEF Clashes

LEMMA NextTInv == TInv /\ [Next]_vars => TInv'
<1> SUFFICES ASSUME TInv, [Next]_vars PROVE TInv'
  OBVIOUS
<1>1. CASE UNCHANGED vars
  BY <1>1 DEF vars, system, box, disk, kernel, TInv, TypeOK, Carried
<1>2. CASE Next
  <2>1. Step /\ clashed' \in BOOLEAN
    BY <1>2, Observed DEF Next, TInv, TypeOK, Clashes
  <2>2. QED
    BY <2>1, ServerTypes, ScriptTypes, InstallTypes, TickTypes, RebootTypes
    DEF Step, ScriptStep
<1>3. QED
  BY <1>1, <1>2

\* The types, and what a run of the script or of the tick carries, hold in every
\* reachable state.
THEOREM TypeCorrect == Spec => []TypeOK
<1>1. TInv => TypeOK
  BY DEF TInv
<1>2. QED
  BY <1>1, InitTInv, NextTInv, PTL DEF Spec

-------------------------------------------------------------------------------
(* Governed interfaces.  What is up was made from a configuration, which was *)
(* made from a state file; an eviction removes both after it took the        *)
(* interface down, and only the script brings it up again in between.        *)

GInv ==
  /\ TInv
  /\ conf # None => state # None
  /\ iface # None /\ ~clashed => conf # None
  /\ tick.pc \in {"disable", "rm"} /\ ~clashed => iface = None
  /\ Overlap => clashed

LEMMA InitGInv == Init => GInv
<1> SUFFICES ASSUME Init PROVE GInv
  OBVIOUS
<1>1. tick.pc = "idle"
  BY Idle DEF Init
<1>2. QED
  BY <1>1, InitTInv DEF Init, GInv, Overlap, Evicting

LEMMA RenderedIs == ASSUME NEW t PROVE Rendered(t) # None \/ Rendered(t) \notin Enrolment
BY NoneAssumption DEF Rendered, Enrolment

\* A step that keeps the files and lets the interface be or takes it down.
LEMMA Steadily ==
  ASSUME GInv, Clashes, TInv', UNCHANGED conf, state = None \/ state' # None,
         iface' \in {iface, None},
         tick'.pc \in {"disable", "rm"} => tick' = tick \/ iface' = None
  PROVE  GInv'
<1>1. (conf # None => state # None)'
  BY DEF GInv
<1>2. (iface # None /\ ~clashed => conf # None)'
  BY DEF GInv, Clashes
<1>3. (tick.pc \in {"disable", "rm"} /\ ~clashed => iface = None)'
  <2>1. SUFFICES ASSUME tick'.pc \in {"disable", "rm"}, ~clashed', tick' = tick
        PROVE iface' = None
    OBVIOUS
  <2>2. Evicting'
    BY <2>1 DEF Evicting
  <2>3. ~clashed
    BY <2>1, <2>2 DEF Clashes
  <2>4. iface = None
    BY <2>1, <2>3 DEF GInv
  <2>5. QED
    BY <2>4
<1>4. QED
  BY <1>1, <1>2, <1>3 DEF GInv, Clashes

LEMMA ScriptGoverns ==
  ASSUME GInv, Clashes, TInv',
         \/ \E t \in Token : Remove(t) \/ Expire(t) \/ (\E k \in Key : Start(t, k))
         \/ ScriptStep \/ Post \/ PostLost \/ Interrupt \/ LeaveDown
  PROVE  GInv'
<1>1. CASE RenderFirst /\ state # None
  <2>1. /\ conf' = Rendered(script.tok) /\ UNCHANGED <<state, iface, tick>>
        /\ script.tok \in Token
    BY <1>1 DEF RenderFirst, At, kernel, GInv, TInv, Carried
  <2>2. conf' # None
    BY <1>1, <2>1, RenderedTyped, RenderedIs DEF GInv
  <2>3. (tick.pc \in {"disable", "rm"} /\ ~clashed => iface = None)'
    BY <2>1 DEF GInv, Clashes, Evicting
  <2>4. QED
    BY <1>1, <2>1, <2>2, <2>3 DEF GInv, Clashes
<1>2. CASE EnableIface /\ iface' # iface
  <2>1. /\ iface' = conf /\ conf' = conf /\ conf # None
        /\ UNCHANGED <<state, tick>> /\ script.pc = "enable"
    BY <1>2 DEF EnableIface, At, kernel
  <2>2. Evicting => clashed
    BY <2>1 DEF GInv, Overlap, Enrolling, EnrolPC
  <2>3. Evicting => clashed'
    BY <2>1, <2>2 DEF Clashes
  <2>4. (tick.pc \in {"disable", "rm"} /\ ~clashed => iface = None)'
    BY <2>1, <2>3 DEF Evicting
  <2>5. QED
    BY <2>1, <2>4 DEF GInv, Clashes
<1>3. CASE ~(RenderFirst /\ state # None) /\ ~(EnableIface /\ iface' # iface)
  <2>1. /\ conf' = conf /\ tick' = tick /\ iface' \in {iface, None}
        /\ state' = state \/ state' \in Enrolment
    <3>1. ASSUME WriteState PROVE state' \in Enrolment
      BY <3>1 DEF WriteState, At, GInv, TInv, Carried, EnrolPC, Enrolment
    <3>2. QED
      BY <1>3, <3>1
         DEF Remove, Expire, Start, ScriptStep, Answered, WriteState, RenderFirst,
             EnableIface, EnableTimer, LeaveDisable, LeavePost, Post, PostLost, Interrupt,
             LeaveDown, box, disk, kernel
  <2>2. state = None \/ state' # None
    BY <2>1, NoneAssumption DEF Enrolment
  <2>3. QED
    BY <2>1, <2>2, Steadily
<1>4. QED
  BY <1>1, <1>2, <1>3

LEMMA TickGoverns ==
  ASSUME GInv, Clashes, TInv', TickStep \/ StartTick \/ Ask \/ AskLost
  PROVE  GInv'
<1>0. tick \in TickRow
  BY DEF GInv, TInv, TypeOK, TickRow
<1>1. CASE StartTick \/ Ask \/ AskLost
  <2>1. UNCHANGED <<conf, state, iface>> /\ tick'.pc \in {"idle", "ask", "render", "down"}
    BY <1>0, <1>1, Idle DEF StartTick, Ask, AskLost, TickTo, TickRow, disk, kernel
  <2>2. QED
    BY <2>1, Steadily
<1>2. CASE Render
  <2>1. /\ UNCHANGED <<state, iface>> /\ tick'.pc \in {"idle", "sync"}
        /\ \/ conf' = conf
           \/ state # None /\ conf' = Rendered(tick.tok) /\ tick.tok \in Token
    BY <1>0, <1>2, Idle DEF Render, Ticking, TickTo, TickRow, kernel, GInv, TInv, Carried
  <2>2. conf' = conf \/ (state # None /\ conf' # None)
    BY <2>1, RenderedTyped, RenderedIs DEF GInv
  <2>3. QED
    BY <2>1, <2>2 DEF GInv, Clashes
<1>3. CASE Sync
  <2>1. /\ UNCHANGED <<state, conf>> /\ tick'.pc = "idle"
        /\ iface' # None => iface # None \/ conf # None
    BY <1>3, Idle DEF Sync, disk
  <2>2. QED
    BY <2>1 DEF GInv, Clashes
<1>4. CASE EvictDown \/ EvictDisable
  <2>1. /\ UNCHANGED <<state, conf>> /\ iface' \in {iface, None}
        /\ tick'.pc \in {"disable", "rm"} /\ tick.pc \in {"down", "disable"}
        /\ tick.pc = "down" /\ conf # None => iface' = None
    BY <1>0, <1>4 DEF EvictDown, EvictDisable, Ticking, TickTo, TickRow, disk
  <2>2. ~clashed' => ~clashed
    BY <2>1 DEF Clashes, Evicting
  <2>3. ~clashed => iface' = None
    BY <2>1 DEF GInv
  <2>4. QED
    BY <2>1, <2>2, <2>3 DEF GInv, Clashes
<1>5. CASE EvictRemove
  <2>1. /\ conf' = None /\ iface' = iface /\ tick'.pc = "idle" /\ tick.pc = "rm"
    BY <1>5, Idle DEF EvictRemove, Ticking, kernel
  <2>2. iface' # None => clashed'
    BY <2>1 DEF GInv, Clashes
  <2>3. QED
    BY <2>1, <2>2 DEF GInv, Clashes
<1>6. QED
  BY <1>1, <1>2, <1>3, <1>4, <1>5 DEF TickStep

LEMMA NextGInv == GInv /\ [Next]_vars => GInv'
<1> SUFFICES ASSUME GInv, [Next]_vars PROVE GInv'
  OBVIOUS
<1>0. TInv'
  BY NextTInv DEF GInv
<1>1. CASE UNCHANGED vars
  BY <1>0, <1>1 DEF vars, system, box, disk, kernel, GInv, Overlap, Enrolling, Evicting
<1>2. CASE Next
  <2>1. Step /\ Clashes
    BY <1>2, Observed DEF Next, GInv, TInv, TypeOK
  <2>2. CASE Reboot
    <3>1. /\ UNCHANGED <<state, conf>> /\ iface' \in {conf, None} /\ tick'.pc = "idle"
      BY <2>2, Idle DEF Reboot, disk
    <3>2. QED
      BY <1>0, <2>1, <3>1 DEF GInv, Clashes
  <2>3. QED
    BY <1>0, <2>1, <2>2, ScriptGoverns, TickGoverns DEF Step
<1>3. QED
  BY <1>1, <1>2

\* An interface that is up has its state file (InterfaceGoverned), across lost
\* answers, interrupted runs, evictions, reinstallations and reboots, unless an
\* eviction overlapped a run of the script.
THEOREM GovernedHolds == Spec => []InterfaceGoverned
<1>1. GInv => InterfaceGoverned
  BY DEF GInv, InterfaceGoverned
<1>2. QED
  BY <1>1, InitGInv, NextGInv, PTL DEF Spec

-------------------------------------------------------------------------------
(* One script at a time.                                                     *)

\* The control plane has accepted the run's token and key.
Admitted == \/ script.pc \in {"state", "render", "enable", "timer"}
            \/ script.pc = "answer" /\ script.answer = "ok"

Known(t, k) == devices[t].st # "none" /\ devices[t].key = k

\* A run starts without an install and is alone to make one; an eviction may
\* remove what it has written.
ScriptSound ==
  /\ script.pc \in {"post", "answer", "state"} => state = None
  /\ Admitted => Known(script.tok, script.key)
  /\ script.pc \in {"render", "enable", "timer"} /\ state # None =>
       state.tok = script.tok /\ state.key = script.key

\* A tick is about the install there is, and evicts a device that stays refused.
TickSound ==
  tick.pc # "idle" =>
    /\ state # None /\ tick.tok = state.tok
    /\ tick.pc \in {"down", "disable", "rm"} => ~Authentic(tick.tok)

\* The state file is what the control plane knows, and the configuration and the
\* interface are made from it.
FilesSound ==
  /\ state # None => Known(state.tok, state.key)
  /\ conf # None => conf = state
  /\ iface # None /\ ~clashed => iface = conf

IInv == GInv /\ ScriptSound /\ TickSound /\ FilesSound

LEMMA EnrolmentIs ==
  ASSUME NEW e \in Enrolment
  PROVE  /\ e = [tok |-> e.tok, key |-> e.key]
         /\ [e EXCEPT !.key = e.key] = e
         /\ e.tok \in Token /\ e.key \in Key
BY DEF Enrolment

LEMMA InitIInv == Init => IInv
<1> SUFFICES ASSUME Init PROVE IInv
  OBVIOUS
<1>1. ScriptSound /\ TickSound /\ FilesSound
  BY Idle DEF Init, ScriptSound, Admitted, TickSound, FilesSound
<1>2. QED
  BY <1>1, InitGInv DEF IInv

\* A device that is taken out stays known, with its key.
LEMMA TakenOut ==
  ASSUME IInv, GInv', Clashes, NEW t \in Token, Remove(t) \/ Expire(t)
  PROVE  IInv'
<1>1. UNCHANGED <<script, tick, state, conf, iface>>
  BY DEF Remove, Expire, box, disk, kernel
<1>2. \A u \in Token : /\ devices'[u].key = devices[u].key
                       /\ devices[u].st # "none" => devices'[u].st # "none"
                       /\ (Authentic(u))' => Authentic(u)
  BY DEF Remove, Expire, Authentic, IInv, GInv, TInv, TypeOK, Device
<1>3. /\ script.pc # "idle" => script.tok \in Token
      /\ tick.pc # "idle" => tick.tok \in Token
      /\ state # None => state.tok \in Token
  BY DEF IInv, GInv, TInv, TypeOK, Carried, Enrolment
<1>4. ScriptSound'
  BY <1>1, <1>2, <1>3 DEF IInv, ScriptSound, Admitted, Known
<1>5. TickSound'
  <2>1. tick.pc \in {"down", "disable", "rm"} => ~(Authentic(tick.tok))'
    BY <1>1, <1>2, <1>3 DEF IInv, TickSound
  <2>2. QED
    BY <1>1, <2>1 DEF IInv, TickSound
<1>6. FilesSound'
  BY <1>1, <1>2, <1>3 DEF IInv, FilesSound, Known, Clashes
<1>7. QED
  BY <1>4, <1>5, <1>6 DEF IInv

\* While a run has not yet written the state file nothing else is there, but for
\* an interface that was left behind by an overlap.
LEMMA Empty ==
  ASSUME IInv, script.pc \in {"post", "answer", "state"}
  PROVE  /\ state = None /\ conf = None /\ tick.pc = "idle"
         /\ ~clashed => iface = None
BY DEF IInv, ScriptSound, TickSound, FilesSound

\* The register call is answered.
LEMMA PostStep ==
  ASSUME IInv, GInv', Clashes, Post
  PROVE  IInv'
<1>1. /\ UNCHANGED <<tick, state, conf, iface>>
      /\ state = None /\ conf = None /\ (~clashed => iface = None) /\ tick.pc = "idle"
  BY Empty DEF Post, At, disk, kernel
<1>2. /\ script.tok \in Token /\ devices \in [Token -> Device] /\ devices[script.tok] \in Device
      /\ script \in ScriptRow
  BY DEF IInv, GInv, TInv, TypeOK, Carried, Post, At, ScriptRow
<1>3. script'.pc = "answer" /\ script'.tok = script.tok /\ script'.key = script.key
  BY <1>2 DEF Post, ScriptRow
<1>4. ASSUME script'.answer = "ok"
      PROVE  devices'[script.tok].st = "live" /\ devices'[script.tok].key = script.key
  <2> DEFINE row == [devices[script.tok] EXCEPT !.st = "live", !.key = script.key]
  <2>1. devices' = [devices EXCEPT ![script.tok] = row]
    BY <1>2, <1>4 DEF Post, ScriptRow
  <2>2. row.st = "live" /\ row.key = script.key
    BY <1>2 DEF Device
  <2> HIDE DEF row
  <2>3. devices'[script.tok] = row
    BY <1>2, <2>1
  <2>4. QED
    BY <2>2, <2>3
<1>5. ScriptSound'
  BY <1>1, <1>3, <1>4 DEF ScriptSound, Admitted, Known
<1>6. TickSound' /\ FilesSound'
  BY <1>1 DEF TickSound, FilesSound, Clashes
<1>7. QED
  BY <1>5, <1>6 DEF IInv

\* The script's steps that leave the files and the interface alone.
LEMMA ScriptStepAlone ==
  ASSUME "reinstall" \notin Events, IInv, GInv', Clashes,
         \/ \E t \in Token, k \in Key : Start(t, k)
         \/ PostLost \/ Answered \/ Interrupt \/ LeavePost \/ EnableTimer
  PROVE  IInv'
<1>1. UNCHANGED <<devices, tick, state, conf, iface>>
  BY DEF Start, PostLost, Answered, Interrupt, LeavePost, EnableTimer, disk, kernel
<1>2. TickSound' /\ FilesSound'
  BY <1>1 DEF IInv, TickSound, FilesSound, Authentic, Known, Clashes
<1>3. ScriptSound'
  <2>1. CASE script' = NoScript
    BY <2>1, Idle DEF ScriptSound, Admitted
  <2>2. CASE \E t \in Token, k \in Key : Start(t, k)
    BY <1>1, <2>2, BegunToEnrol DEF Start, ScriptSound, Admitted
  <2>3. CASE PostLost /\ script' # NoScript
    <3>1. script'.pc = "post" /\ script.pc \in {"post", "answer"}
      BY <2>3 DEF PostLost, IInv, GInv, TInv, TypeOK
    <3>2. QED
      BY <1>1, <3>1, Empty DEF ScriptSound, Admitted
  <2>4. CASE Answered /\ script' # NoScript
    <3>1. /\ script.pc = "answer" /\ script.answer = "ok" /\ script'.pc = "state"
          /\ script'.tok = script.tok /\ script'.key = script.key
      BY <2>4 DEF Answered, At, IInv, GInv, TInv, TypeOK
    <3>2. QED
      BY <1>1, <3>1, Empty DEF IInv, ScriptSound, Admitted, Known
  <2>5. CASE LeavePost
    <3>1. script'.pc = "left"
      BY <2>5 DEF LeavePost, GoTo, IInv, GInv, TInv, TypeOK
    <3>2. QED
      BY <3>1 DEF ScriptSound, Admitted
  <2>6. QED
    BY <2>1, <2>2, <2>3, <2>4, <2>5 DEF Interrupt, EnableTimer
<1>4. QED
  BY <1>2, <1>3 DEF IInv

\* The state file is written.
LEMMA WriteStateStep ==
  ASSUME IInv, GInv', Clashes, WriteState
  PROVE  IInv'
<1>1. /\ UNCHANGED <<devices, tick, conf, iface>>
      /\ conf = None /\ (~clashed => iface = None) /\ tick.pc = "idle"
  BY Empty DEF WriteState, At, kernel
<1>2. /\ script.pc = "state" /\ script'.pc = "render"
      /\ script'.tok = script.tok /\ script'.key = script.key
      /\ script.tok \in Token /\ script.key \in Key
  BY DEF WriteState, At, GoTo, IInv, GInv, TInv, TypeOK, Carried, EnrolPC
<1>3. state' \in Enrolment /\ state'.tok = script.tok /\ state'.key = script.key
  BY <1>2 DEF WriteState, Enrolment
<1>4. Known(script.tok, script.key)
  BY <1>2 DEF IInv, ScriptSound, Admitted
<1>5. ScriptSound'
  BY <1>1, <1>2, <1>3, <1>4 DEF ScriptSound, Admitted, Known
<1>6. TickSound' /\ FilesSound'
  BY <1>1, <1>3, <1>4 DEF TickSound, FilesSound, Known, Clashes
<1>7. QED
  BY <1>5, <1>6 DEF IInv

\* The script's steps after that.
LEMMA InstallStep ==
  ASSUME IInv, GInv', Clashes, RenderFirst \/ EnableIface
  PROVE  IInv'
<1>1. /\ UNCHANGED <<devices, tick, state>>
      /\ script.pc \in {"render", "enable"}
  BY DEF RenderFirst, EnableIface, At, disk, kernel
<1>2. /\ state # None =>
           state \in Enrolment /\ state.tok = script.tok /\ state.key = script.key
      /\ Known(script.tok, script.key)
  BY <1>1 DEF IInv, GInv, TInv, TypeOK, ScriptSound, Admitted
<1>3. ScriptSound'
  <2>1. CASE script' = NoScript
    BY <2>1, Idle DEF ScriptSound, Admitted
  <2>2. CASE script' # NoScript
    <3>1. /\ script'.pc \in {"enable", "timer"}
          /\ script'.tok = script.tok /\ script'.key = script.key
      BY <2>2 DEF RenderFirst, EnableIface, GoTo, IInv, GInv, TInv, TypeOK
    <3>2. QED
      BY <1>1, <1>2, <3>1 DEF ScriptSound, Admitted, Known
  <2>3. QED
    BY <2>1, <2>2
<1>4. TickSound'
  BY <1>1 DEF IInv, TickSound, Authentic
<1>5. FilesSound'
  <2>1. CASE RenderFirst
    <3>1. conf' \in {conf, state} /\ iface' = iface
      BY <1>2, <2>1, EnrolmentIs DEF RenderFirst, Rendered, kernel
    <3>2. iface' # None /\ ~clashed' => iface = conf /\ conf # None
      BY <3>1 DEF IInv, FilesSound, Clashes
    <3>3. QED
      BY <1>1, <3>1, <3>2 DEF IInv, FilesSound, Known
  <2>2. CASE EnableIface
    <3>1. conf' = conf /\ iface' \in {iface, conf}
      BY <2>2 DEF EnableIface, kernel
    <3>2. QED
      BY <1>1, <3>1 DEF IInv, FilesSound, Known, Clashes
  <2>3. QED
    BY <2>1, <2>2
<1>6. QED
  BY <1>3, <1>4, <1>5 DEF IInv

\* The printed command takes the interface down, and leaves the files.
LEMMA LeaveStep ==
  ASSUME IInv, GInv', Clashes, LeaveDown \/ LeaveDisable
  PROVE  IInv'
<1>1. UNCHANGED <<devices, tick, state, conf>> /\ iface' \in {iface, None}
  BY DEF LeaveDown, LeaveDisable, disk
<1>2. script'.pc \in {"disable", "leave"}
  <2>1. CASE LeaveDown
    BY <2>1, BegunToLeave DEF LeaveDown, IInv, GInv, TInv, TypeOK, Enrolment
  <2>2. CASE LeaveDisable
    BY <2>2 DEF LeaveDisable, GoTo, IInv, GInv, TInv, TypeOK
  <2>3. QED
    BY <2>1, <2>2
<1>3. ScriptSound'
  BY <1>2 DEF ScriptSound, Admitted
<1>4. TickSound' /\ FilesSound'
  BY <1>1 DEF IInv, TickSound, FilesSound, Authentic, Known, Clashes
<1>5. QED
  BY <1>3, <1>4 DEF IInv

\* The tick's steps but for the last of an eviction.
LEMMA TickMoves ==
  ASSUME IInv, GInv', Clashes,
         StartTick \/ Ask \/ AskLost \/ Render \/ Sync \/ EvictDown \/ EvictDisable
  PROVE  IInv'
<1>1. UNCHANGED <<devices, script, state>>
  BY DEF StartTick, Ask, AskLost, Render, Sync, EvictDown, EvictDisable, disk
<1>2. ScriptSound'
  BY <1>1 DEF IInv, ScriptSound, Admitted, Known
<1>3. FilesSound'
  <2>1. CASE Render
    <3>1. iface' = iface
      BY <2>1 DEF Render, kernel
    <3>2. conf' \in {conf, state}
      <4>1. state # None => tick.tok = state.tok /\ state \in Enrolment
        BY <2>1 DEF Render, Ticking, IInv, GInv, TInv, TypeOK, TickSound
      <4>2. QED
        BY <2>1, <4>1, EnrolmentIs DEF Render, Rendered
    <3>3. iface' # None /\ ~clashed' => iface = conf /\ conf # None
      BY <3>1 DEF IInv, FilesSound, Clashes
    <3>4. QED
      BY <1>1, <3>1, <3>2, <3>3 DEF IInv, FilesSound, Known
  <2>2. CASE Sync
    <3>1. conf' = conf
      BY <2>2 DEF Sync, disk
    <3>2. iface' # None /\ ~clashed' => iface' = conf
      <4>1. SUFFICES ASSUME iface' # None, ~clashed' PROVE iface' = conf
        OBVIOUS
      <4>2. iface # None => iface = conf /\ conf \in Enrolment
        BY <4>1 DEF IInv, GInv, TInv, TypeOK, FilesSound, Clashes
      <4>3. QED
        BY <2>2, <4>1, <4>2, EnrolmentIs DEF Sync
    <3>3. QED
      BY <1>1, <3>1, <3>2 DEF IInv, FilesSound, Known
  <2>3. CASE StartTick \/ Ask \/ AskLost \/ EvictDown \/ EvictDisable
    <3>1. conf' = conf /\ iface' \in {iface, None}
      BY <2>3 DEF StartTick, Ask, AskLost, EvictDown, EvictDisable, disk, kernel
    <3>2. QED
      BY <1>1, <3>1 DEF IInv, FilesSound, Known, Clashes
  <2>4. QED
    BY <2>1, <2>2, <2>3
<1>4. TickSound'
  <2>1. CASE tick' = NoTick
    BY <2>1, Idle DEF TickSound
  <2>2. CASE StartTick
    BY <1>1, <2>2 DEF StartTick, TickSound
  <2>3. CASE Ask
    <3>1. /\ tick'.tok = tick.tok
          /\ tick'.pc = IF Authentic(tick.tok) THEN "render" ELSE "down"
      BY <2>3 DEF Ask, TickTo, IInv, GInv, TInv, TypeOK
    <3>2. QED
      BY <1>1, <2>3, <3>1 DEF Ask, Ticking, IInv, TickSound, Authentic
  <2>4. CASE Render /\ tick' # NoTick
    <3>1. tick'.tok = tick.tok /\ tick'.pc = "sync"
      BY <2>4 DEF Render, TickTo, IInv, GInv, TInv, TypeOK
    <3>2. QED
      BY <1>1, <2>4, <3>1 DEF Render, Ticking, IInv, TickSound
  <2>5. CASE EvictDown \/ EvictDisable
    <3>1. /\ tick'.tok = tick.tok /\ tick.pc \in {"down", "disable"}
      BY <2>5 DEF EvictDown, EvictDisable, Ticking, TickTo, IInv, GInv, TInv, TypeOK
    <3>2. QED
      BY <1>1, <3>1 DEF IInv, TickSound, Authentic
  <2>6. QED
    BY <2>1, <2>2, <2>3, <2>4, <2>5 DEF AskLost, Sync, Render
<1>5. QED
  BY <1>2, <1>3, <1>4 DEF IInv

\* The files are removed; a script may still be running over them.
LEMMA EvictRemoveStep ==
  ASSUME IInv, GInv', Clashes, EvictRemove
  PROVE  IInv'
<1>1. /\ UNCHANGED <<devices, script, iface>> /\ conf' = None /\ state' = None
      /\ tick'.pc = "idle" /\ tick.pc = "rm"
  BY Idle DEF EvictRemove, Ticking, kernel
<1>2. iface' # None => clashed'
  BY <1>1 DEF IInv, GInv, Clashes
<1>3. ScriptSound'
  BY <1>1 DEF IInv, ScriptSound, Admitted, Known
<1>4. TickSound' /\ FilesSound'
  BY <1>1, <1>2 DEF TickSound, FilesSound
<1>5. QED
  BY <1>3, <1>4 DEF IInv

\* A reboot ends both runs, and brings up what the configuration says.
LEMMA RebootStep ==
  ASSUME IInv, GInv', Reboot
  PROVE  IInv'
<1>1. /\ UNCHANGED <<devices, state, conf>> /\ iface' \in {conf, None}
      /\ script'.pc = "idle" /\ tick'.pc = "idle"
  BY Idle DEF Reboot, disk
<1>2. ScriptSound' /\ TickSound'
  BY <1>1 DEF ScriptSound, Admitted, TickSound
<1>3. FilesSound'
  BY <1>1 DEF IInv, FilesSound, Known
<1>4. QED
  BY <1>2, <1>3 DEF IInv

LEMMA NextIInv == "reinstall" \notin Events /\ IInv /\ [Next]_vars => IInv'
<1> SUFFICES ASSUME "reinstall" \notin Events, IInv, [Next]_vars PROVE IInv'
  OBVIOUS
<1>0. GInv'
  BY NextGInv DEF IInv
<1>1. CASE UNCHANGED vars
  BY <1>0, <1>1
     DEF vars, system, box, disk, kernel, IInv, ScriptSound, Admitted, TickSound, FilesSound,
         Authentic, Known
<1>2. CASE Next
  <2>0. Step /\ Clashes
    BY <1>2, Observed DEF Next, IInv, GInv, TInv, TypeOK
  <2>1. CASE \E t \in Token : Remove(t) \/ Expire(t) \/ \E k \in Key : Start(t, k)
    BY <1>0, <2>0, <2>1, TakenOut, ScriptStepAlone
  <2>2. CASE ScriptStep \/ Post \/ PostLost \/ Interrupt \/ LeaveDown
    BY <1>0, <2>0, <2>2, PostStep, ScriptStepAlone, WriteStateStep, InstallStep, LeaveStep
    DEF ScriptStep
  <2>3. CASE TickStep \/ StartTick \/ Ask \/ AskLost
    BY <1>0, <2>0, <2>3, TickMoves, EvictRemoveStep DEF TickStep
  <2>4. CASE Reboot
    BY <1>0, <2>4, RebootStep
  <2>5. QED
    BY <2>0, <2>1, <2>2, <2>3, <2>4 DEF Step
<1>3. QED
  BY <1>1, <1>2

\* If no second script runs over an install, the control plane has an interface's
\* key under its address (AddressMatchesKey), unless an eviction overlapped a run
\* of the script.
THEOREM KeyMatchesHolds ==
  ASSUME "reinstall" \notin Events
  PROVE  Spec => []AddressMatchesKey
<1>1. IInv /\ [Next]_vars => IInv'
  BY NextIInv
<1>2. IInv => AddressMatchesKey
  <2>1. SUFFICES ASSUME IInv, iface # None, ~clashed
        PROVE devices[iface.tok].key = iface.key
    BY DEF AddressMatchesKey
  <2>2. iface = conf /\ conf = state /\ state # None
    BY <2>1 DEF IInv, FilesSound
  <2>3. QED
    BY <2>1, <2>2 DEF IInv, FilesSound, Known
<1>3. QED
  BY <1>1, <1>2, InitIInv, PTL DEF Spec

\* And a box gives up its files only for a device the control plane refuses
\* (EvictsOnlyRefused), also when the device is taken out, and evicted, while the
\* script still runs: no lost answer, interrupted run or reboot evicts a device.
THEOREM EvictsOnlyRefusedHolds ==
  ASSUME "reinstall" \notin Events
  PROVE  Spec => EvictsOnlyRefused
<1>1. IInv /\ [Next]_vars => IInv'
  BY NextIInv
<1>2. ASSUME IInv, Next, state # None, state' = None
      PROVE  ~Authentic(state.tok)
  <2>1. EvictRemove
    <3>1. ~WriteState
      BY <1>2, NoneAssumption DEF WriteState, At, IInv, GInv, TInv, TypeOK, Carried, EnrolPC
    <3>2. QED
      BY <1>2, <3>1
         DEF Next, Step, ScriptStep, TickStep, Remove, Expire, Start, Answered, RenderFirst,
             EnableIface, EnableTimer, LeaveDisable, LeavePost, Post, PostLost, Interrupt,
             LeaveDown, Render, Sync, EvictDown, EvictDisable, StartTick, Ask, AskLost,
             Reboot, box, disk
  <2>2. tick.tok = state.tok /\ ~Authentic(tick.tok)
    BY <1>2, <2>1 DEF EvictRemove, Ticking, IInv, TickSound
  <2>3. QED
    BY <2>2
<1>3. IInv /\ [Next]_vars =>
        [state # None /\ state' = None => ~Authentic(state.tok)]_vars
  BY <1>2
<1>4. QED
  BY <1>1, <1>3, InitIInv, PTL DEF Spec, EvictsOnlyRefused
===============================================================================
