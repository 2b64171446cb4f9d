------------------------------- MODULE BoxAgent -------------------------------
(***************************************************************************)
(* One interface of a Linux box (join-linux.sh): the install script, the   *)
(* refresh tick it leaves behind (wgctl-refresh-linux, run by a systemd    *)
(* timer), the files, the kernel interface and the systemd units they      *)
(* share, against the control plane's row for the device.                  *)
(*                                                                         *)
(* A device is named by the token that admitted it (Enrollment: at most    *)
(* one), and the token also stands for its bearer, its device_id and its   *)
(* tunnel address.  What the peers are is PeerPoll's subject.              *)
(***************************************************************************)
EXTENDS Naturals

CONSTANTS
  Token,        \* enrol tokens the operator may pass to the script
  Key,          \* WireGuard keys, each generated once
  None,         \* no file, no interface, no answer
  MaxRetries,   \* retries of the register call (curl --retry 3)
  MaxCrashes,   \* times the box loses power or is rebooted (a bound)
  Events        \* what else happens (a bound)

EventKinds == {"reinstall", "leave", "remove", "expire"}

ASSUME EventsAssumption == Events \subseteq EventKinds
ASSUME BoundsAssumption == MaxRetries \in Nat /\ MaxCrashes \in Nat
ASSUME NoneAssumption == None \notin Token \cup Key \cup [tok : Token, key : Key]

VARIABLES
  devices,      \* the control plane's row for each token
  script,       \* the script's run: pc, token, key, attempts, answer
  tick,         \* the refresh helper's run: pc, token read
  state,        \* /etc/wgctl/<iface>.json
  conf,         \* /etc/wireguard/<iface>.conf
  iface,        \* the kernel interface
  enabled,      \* systemd units enabled
  active,       \* systemd units active
  crashes,      \* times the box crashed
  used,         \* keys generated
  clashed       \* history: did a tick evict while the script ran, since the
                \*   interface was last down with neither under way?

disk == <<state, conf, enabled>>
kernel == <<iface, active>>
box == <<script, tick, disk, kernel>>
system == <<devices, box, crashes, used>>
vars == <<system, clashed>>

Unit == {"wg-quick", "timer"}

Device == [st : {"none", "live", "removed"}, key : Key \cup {None}, expired : BOOLEAN]
Enrolment == [tok : Token, key : Key]       \* what a file or the interface holds
ScriptPC == {"idle", "post", "answer", "state", "render", "enable", "timer",
             "down", "disable", "leave", "left"}
TickPC == {"idle", "ask", "render", "sync", "down", "disable", "rm"}

TypeOK ==
  /\ devices \in [Token -> Device]
  /\ script \in [pc : ScriptPC, tok : Token \cup {None}, key : Key \cup {None},
                 tries : 0..MaxRetries, answer : {None, "ok", "refused"}]
  /\ tick \in [pc : TickPC, tok : Token \cup {None}]
  /\ {state, conf, iface} \subseteq Enrolment \cup {None}
  /\ enabled \subseteq Unit /\ active \subseteq Unit
  /\ crashes \in 0..MaxCrashes
  /\ used \subseteq Key
  /\ clashed \in BOOLEAN

NoScript == [pc |-> "idle", tok |-> None, key |-> None, tries |-> 0, answer |-> None]
NoTick == [pc |-> "idle", tok |-> None]

Init ==
  /\ devices = [t \in Token |-> [st |-> "none", key |-> None, expired |-> FALSE]]
  /\ script = NoScript
  /\ tick = NoTick
  /\ state = None /\ conf = None /\ iface = None
  /\ enabled = {} /\ active = {}
  /\ crashes = 0
  /\ used = {}
  /\ clashed = FALSE

\* extractDeviceBearer passes.
Authentic(t) == devices[t].st = "live" /\ ~devices[t].expired

At(pc) == script.pc = pc
GoTo(pc) == script' = [script EXCEPT !.pc = pc]

-------------------------------------------------------------------------------
(* The control plane.                                                        *)

\* handleWGRegister, as Enrollment has it: a fresh token admits, the device's
\* own token and key are answered again, everything else is refused.
Admits(t) == devices[t].st = "none" /\ ~devices[t].expired
Recognises(t, k) == Authentic(t) /\ devices[t].key = k

\* Removed by the admin, the sweep or a release, also while its script runs.
Remove(t) ==
  /\ "remove" \in Events
  /\ devices[t].st = "live"
  /\ devices' = [devices EXCEPT ![t].st = "removed"]
  /\ UNCHANGED <<box, crashes, used>>

Expire(t) ==
  /\ "expire" \in Events
  /\ ~devices[t].expired
  /\ devices' = [devices EXCEPT ![t].expired = TRUE]
  /\ UNCHANGED <<box, crashes, used>>

-------------------------------------------------------------------------------
(* The script.                                                               *)

\* Mutant: an existing install is not looked at.
StartAnyway(t, k) ==
  /\ script.pc \in {"idle", "left"}
  /\ k \notin used
  /\ script' = [NoScript EXCEPT !.pc = "post", !.tok = t, !.key = k]
  /\ used' = used \cup {k}
  /\ UNCHANGED <<devices, tick, disk, kernel, crashes>>

\* An existing install is honoured unless --reinstall; the key is new.
Start(t, k) ==
  /\ script.pc \in {"idle", "left"}
  /\ state = None \/ "reinstall" \in Events
  /\ k \notin used
  /\ script' = [NoScript EXCEPT !.pc = "post", !.tok = t, !.key = k]
  /\ used' = used \cup {k}
  /\ UNCHANGED <<devices, tick, disk, kernel, crashes>>

\* The request reaches the control plane.
Post ==
  LET t == script.tok
      k == script.key
  IN /\ At("post")
     /\ IF Admits(t) \/ Recognises(t, k)
        THEN /\ devices' = [devices EXCEPT ![t] = [@ EXCEPT !.st = "live", !.key = k]]
             /\ script' = [script EXCEPT !.pc = "answer", !.answer = "ok"]
        ELSE /\ script' = [script EXCEPT !.pc = "answer", !.answer = "refused"]
             /\ UNCHANGED devices
     /\ UNCHANGED <<tick, disk, kernel, crashes, used>>

\* Mutant: one retry more than allowed.
PostLostOnceMore ==
  /\ script.pc \in {"post", "answer"}
  /\ script' = IF script.tries <= MaxRetries
               THEN [script EXCEPT !.pc = "post", !.tries = @ + 1, !.answer = None]
               ELSE NoScript
  /\ UNCHANGED <<devices, tick, disk, kernel, crashes, used>>

\* It or its answer is lost: curl tries again, then the script ends.
PostLost ==
  /\ script.pc \in {"post", "answer"}
  /\ script' = IF script.tries < MaxRetries
               THEN [script EXCEPT !.pc = "post", !.tries = @ + 1, !.answer = None]
               ELSE NoScript
  /\ UNCHANGED <<devices, tick, disk, kernel, crashes, used>>

\* curl -f: a 4xx ends the script.
Answered ==
  /\ At("answer")
  /\ script' = IF script.answer = "ok" THEN [script EXCEPT !.pc = "state"] ELSE NoScript
  /\ UNCHANGED <<devices, tick, disk, kernel, crashes, used>>

WriteState ==
  /\ At("state")
  /\ state' = [tok |-> script.tok, key |-> script.key]
  /\ GoTo("render")
  /\ UNCHANGED <<devices, tick, conf, enabled, kernel, crashes, used>>

\* wgctl-render-linux: the key of the state file there is now, the address of
\* the answer; without the file it raises, and the caller ends (set -e).
Rendered(tok) == [tok |-> tok, key |-> state.key]

RenderFirst ==
  /\ At("render")
  /\ IF state # None
     THEN conf' = Rendered(script.tok) /\ GoTo("enable")
     ELSE script' = NoScript /\ UNCHANGED conf
  /\ UNCHANGED <<devices, tick, state, enabled, kernel, crashes, used>>

\* systemctl enable --now: a unit that is active is left alone, and wg-quick up
\* fails without a configuration or when the interface exists.
EnableIface ==
  LET starts == "wg-quick" \notin active
      comesUp == starts /\ conf # None /\ iface = None
  IN /\ At("enable")
     /\ enabled' = enabled \cup {"wg-quick"}
     /\ IF comesUp
        THEN iface' = conf /\ active' = active \cup {"wg-quick"}
        ELSE UNCHANGED kernel
     /\ IF starts /\ ~comesUp THEN script' = NoScript ELSE GoTo("timer")
     /\ UNCHANGED <<devices, tick, state, conf, crashes, used>>

EnableTimer ==
  /\ At("timer")
  /\ enabled' = enabled \cup {"timer"}
  /\ active' = active \cup {"timer"}
  /\ script' = NoScript
  /\ UNCHANGED <<devices, tick, state, conf, iface, crashes, used>>

\* The operator interrupts it, or a command of it fails.
Interrupt ==
  /\ ~At("idle") /\ ~At("left")
  /\ script' = NoScript
  /\ UNCHANGED <<devices, tick, disk, kernel, crashes, used>>

-------------------------------------------------------------------------------
(* The command the script prints for leaving, joined by &&.                  *)

LeaveDown ==
  /\ "leave" \in Events
  /\ At("idle")
  /\ state # None /\ conf # None /\ iface # None
  /\ iface' = None
  /\ script' = [NoScript EXCEPT !.pc = "disable", !.tok = state.tok]
  /\ UNCHANGED <<devices, tick, disk, active, crashes, used>>

LeaveDisable ==
  /\ At("disable")
  /\ enabled' = {} /\ active' = {}
  /\ iface' = IF "wg-quick" \in active /\ conf # None THEN None ELSE iface
  /\ GoTo("leave")
  /\ UNCHANGED <<devices, tick, state, conf, crashes, used>>

\* The call carries device_id and token in its body; handleWGLeave looks for
\* them in the headers and answers 401, and the files are not removed.
LeavePost ==
  /\ At("leave")
  /\ GoTo("left")
  /\ UNCHANGED <<devices, tick, disk, kernel, crashes, used>>

-------------------------------------------------------------------------------
(* The tick.                                                                 *)

Ticking(pc) == tick.pc = pc
TickTo(pc) == tick' = [tick EXCEPT !.pc = pc]

StartTick ==
  /\ Ticking("idle")
  /\ "timer" \in active
  /\ state # None
  /\ tick' = [pc |-> "ask", tok |-> state.tok]
  /\ UNCHANGED <<devices, script, disk, kernel, crashes, used>>

\* Mutant: a 401 keeps the configuration (curl -f's second line).
AskKeeping ==
  /\ Ticking("ask")
  /\ TickTo(IF Authentic(tick.tok) THEN "render" ELSE "idle")
  /\ UNCHANGED <<devices, script, disk, kernel, crashes, used>>

Ask ==
  /\ Ticking("ask")
  /\ TickTo(IF Authentic(tick.tok) THEN "render" ELSE "down")
  /\ UNCHANGED <<devices, script, disk, kernel, crashes, used>>

\* Mutant: every answer but a 200 is taken for a 401.
LostEvicts ==
  /\ Ticking("ask")
  /\ TickTo("down")
  /\ UNCHANGED <<devices, script, disk, kernel, crashes, used>>

\* No answer, or neither 200 nor 401.
AskLost ==
  /\ Ticking("ask")
  /\ tick' = NoTick
  /\ UNCHANGED <<devices, script, disk, kernel, crashes, used>>

Render ==
  /\ Ticking("render")
  /\ IF state # None THEN conf' = Rendered(tick.tok) /\ TickTo("sync")
                     ELSE tick' = NoTick /\ UNCHANGED conf
  /\ UNCHANGED <<devices, script, state, enabled, kernel, crashes, used>>

\* Mutant: an interface that is down is left to systemd.
SyncOnly ==
  /\ Ticking("sync")
  /\ iface' = IF iface # None /\ conf # None THEN [iface EXCEPT !.key = conf.key] ELSE iface
  /\ tick' = NoTick
  /\ UNCHANGED <<devices, script, disk, active, crashes, used>>

\* wg syncconf takes the keys and peers, wg-quick up the address as well.
Sync ==
  /\ Ticking("sync")
  /\ iface' = IF conf = None THEN iface
              ELSE IF iface # None THEN [iface EXCEPT !.key = conf.key]
              ELSE conf
  /\ tick' = NoTick
  /\ UNCHANGED <<devices, script, disk, active, crashes, used>>

\* Mutant: the files go first.
RemoveFilesFirst ==
  /\ Ticking("down")
  /\ conf' = None /\ state' = None
  /\ TickTo("disable")
  /\ UNCHANGED <<devices, script, iface, enabled, active, crashes, used>>

\* Self-eviction on a 401, in three commands.
EvictDown ==
  /\ Ticking("down")
  /\ iface' = IF conf # None THEN None ELSE iface
  /\ TickTo("disable")
  /\ UNCHANGED <<devices, script, disk, active, crashes, used>>

EvictDisable ==
  /\ Ticking("disable")
  /\ enabled' = enabled \ {"wg-quick"}
  /\ iface' = IF "wg-quick" \in active /\ conf # None THEN None ELSE iface
  /\ active' = active \ {"wg-quick"}
  /\ TickTo("rm")
  /\ UNCHANGED <<devices, script, state, conf, crashes, used>>

EvictRemove ==
  /\ Ticking("rm")
  /\ conf' = None /\ state' = None
  /\ tick' = NoTick
  /\ UNCHANGED <<devices, script, enabled, kernel, crashes, used>>

\* The box goes down between any two steps and comes up again: systemd starts
\* what is enabled.
Reboot ==
  /\ crashes < MaxCrashes
  /\ crashes' = crashes + 1
  /\ script' = NoScript /\ tick' = NoTick
  /\ iface' = IF "wg-quick" \in enabled THEN conf ELSE None
  /\ active' = enabled \ (IF conf = None THEN {"wg-quick"} ELSE {})
  /\ UNCHANGED <<devices, disk, used>>

-------------------------------------------------------------------------------
ScriptStep == \/ Answered \/ WriteState \/ RenderFirst \/ EnableIface \/ EnableTimer
              \/ LeaveDisable \/ LeavePost

TickStep == Render \/ Sync \/ EvictDown \/ EvictDisable \/ EvictRemove

Step ==
  \/ \E t \in Token : Remove(t) \/ Expire(t) \/ (\E k \in Key : Start(t, k))
  \/ ScriptStep \/ Post \/ PostLost \/ Interrupt \/ LeaveDown
  \/ TickStep \/ StartTick \/ Ask \/ AskLost
  \/ Reboot

\* The tick and the script take no lock against each other.
EnrolPC == {"post", "answer", "state", "render", "enable", "timer"}
Enrolling == script.pc \in EnrolPC
Evicting == tick.pc \in {"down", "disable", "rm"}
Overlap == Enrolling /\ Evicting
Quiet == iface = None /\ ~Enrolling /\ ~Evicting

Observe == clashed' = (Overlap' \/ (clashed /\ ~Quiet'))

Next == Step /\ Observe

Spec == Init /\ [][Next]_vars

\* The timer fires, a process that runs goes on, and not every poll is lost.
FairSpec ==
  /\ Spec
  /\ WF_system(ScriptStep) /\ WF_system(TickStep)
  /\ WF_system(StartTick) /\ SF_system(Ask)

-------------------------------------------------------------------------------
(* Properties.                                                               *)

\* An interface that is up has a state file: a later tick can still find out
\* that the device was removed and take it down.  The exception is the lockless
\* overlap: an eviction that runs while the script brings the interface up.
InterfaceGoverned == iface # None /\ ~clashed => state # None

\* The control plane has the interface's key under the interface's address:
\* what other boxes send to that address is encrypted for this one.
AddressMatchesKey == iface # None /\ ~clashed => devices[iface.tok].key = iface.key

\* A box gives up its files only if the control plane refuses its device for good,
\* which a poll whose answer is lost, an interrupted script or a reboot between
\* the eviction's commands does not say.
EvictsOnlyRefused == [][state # None /\ state' = None => ~Authentic(state.tok)]_vars

\* While the timer runs, a box that has joined comes up, also after a reboot or
\* a script that was interrupted, unless it is taken out.
TunnelComesUp ==
  (state # None /\ "timer" \in active /\ Authentic(state.tok))
    ~> (iface # None \/ state = None \/ ~Authentic(state.tok) \/ "timer" \notin active)

\* While the timer runs, a box that was taken out takes its interface down, also
\* across reboots, unless the eviction overlapped the script.
EvictionCompletes ==
  \A t \in Token :
    (iface # None /\ iface.tok = t /\ devices[t].st = "removed" /\ "timer" \in active)
      ~> (iface = None \/ iface.tok # t \/ "timer" \notin active \/ clashed)

\* Only a device that was removed is evicted.
EvictsOnlyRemoved ==
  [][state # None /\ state' = None => devices[state.tok].st = "removed"]_vars

\* The printed command takes the device out of the mesh.
LeaveDeregisters == At("left") => devices[script.tok].st # "live"

\* The interface of a box that stays enrolled ends up with the address the
\* control plane gave it.
AddressFollowsServer ==
  (state # None /\ iface # None /\ "timer" \in active)
    ~> (state # None /\ iface # None => iface = state)
===============================================================================
