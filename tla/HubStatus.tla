------------------------------- MODULE HubStatus -------------------------------
(***************************************************************************)
(* The hub status of the admin page.  A box reports its interface to dock  *)
(* from time to time; dock keeps the last frame of every (host, iface);    *)
(* the service fetches all frames every PollEvery and keeps them by public *)
(* key; the page is answered from what the service keeps.                  *)
(*                                                                         *)
(* Time is counted in ticks.  An age saturates at Old, which is past every *)
(* limit.  Timers are urgent: time does not pass over one that has fired.  *)
(* There is one clock: dock stamps a frame and the service reads the stamp *)
(* as if both hosts agreed on the time.  A report takes no time.           *)
(***************************************************************************)
EXTENDS Naturals

CONSTANTS
  Key,          \* interface public keys
  Box,          \* (host, iface) pairs that report
  PollEvery,    \* POLAR_WG_HUB_STATUS_POLL_SEC
  ReportEvery,  \* POLAR_WG_HUB_LOCAL_POLL_SEC, or the agent's interval
  Latency,      \* the longest a fetch takes
  None,         \* no key, no frame, no sample
  Parsed,       \* does the service understand dock's recorded_at?
  Faults        \* may a report or a fetch fail, a service die?

ASSUME IntervalAssumption ==
  PollEvery \in Nat \ {0} /\ ReportEvery \in Nat \ {0} /\ Latency \in Nat
ASSUME LatencyAssumption == Latency < PollEvery
\* What the admin page is told of a hub.
Answer == [source : {"sample", "roster"}, stale : BOOLEAN]

ASSUME StatusNoneAssumption ==
  None \notin Key \cup Nat \cup [key : Key, age : Nat] \cup Answer
ASSUME StatusFaultsAssumption == Faults \in BOOLEAN /\ Parsed \in BOOLEAN

VARIABLES
  box,        \* the reporting boxes: the interface's key, the report's timer
  dock,       \* the last frame of each box
  poll,       \* the service's poller
  cache,      \* the age of the sample the service keeps of a key
  heard,      \* history: how long ago dock last took a report of a key
  steady,     \* history: for how long a key's box has reported in time
  missed      \* history: fetches that failed since the last good one

vars == <<box, dock, poll, cache, heard, steady, missed>>

FreshTTL == 2 * PollEvery
Old == FreshTTL + 1
Age == 0..Old
\* A bound on the fetches counted; also what is said while there was no good one.
Many == 2

Frame == [key : Key, age : Age]
Poller == [up : BOOLEAN, ticker : BOOLEAN, since : 0..PollEvery, busy : BOOLEAN,
           wait : 0..Latency, frames : [Box -> Frame \cup {None}]]

Off == [key |-> None, since |-> 0]
NoFrames == [b \in Box |-> None]
\* The poller waits for its ticker; the service is not running.
Waiting(since) == [up |-> TRUE, ticker |-> TRUE, since |-> since, busy |-> FALSE,
                   wait |-> 0, frames |-> NoFrames]
Down == [up |-> FALSE, ticker |-> FALSE, since |-> 0, busy |-> FALSE,
         wait |-> 0, frames |-> NoFrames]

TypeOK ==
  /\ box \in [Box -> [key : Key \cup {None}, since : 0..ReportEvery]]
  /\ dock \in [Box -> Frame \cup {None}]
  /\ poll \in Poller
  /\ cache \in [Key -> Age \cup {None}]
  /\ heard \in [Key -> Age]
  /\ steady \in [Key -> Age]
  /\ missed \in 0..Many

Init ==
  /\ box = [b \in Box |-> Off]
  /\ dock = NoFrames
  /\ poll = Down
  /\ cache = [k \in Key |-> None]
  /\ heard = [k \in Key |-> Old]
  /\ steady = [k \in Key |-> 0]
  /\ missed = Many

Disturb(K) == steady' = [k \in Key |-> IF k \in K THEN 0 ELSE steady[k]]

-------------------------------------------------------------------------------
(* Boxes and dock.                                                           *)

\* The first report comes at once.  A bound: an interface is switched once a tick.
SwitchOn(b, k) ==
  /\ box[b] = Off
  /\ box' = [box EXCEPT ![b] = [key |-> k, since |-> ReportEvery]]
  /\ Disturb({k})
  /\ UNCHANGED <<dock, poll, cache, heard, missed>>

SwitchOff(b) ==
  /\ box[b].key # None
  /\ box' = [box EXCEPT ![b] = [Off EXCEPT !.since = 1]]
  /\ Disturb({box[b].key})
  /\ UNCHANGED <<dock, poll, cache, heard, missed>>

ReportDue(b) == box[b].key # None /\ box[b].since = ReportEvery

\* hubLocalSelfPollOnce: dock stamps what it is sent.
Report(b) ==
  /\ ReportDue(b)
  /\ box' = [box EXCEPT ![b].since = 0]
  /\ dock' = [dock EXCEPT ![b] = [key |-> box[b].key, age |-> 0]]
  /\ heard' = [heard EXCEPT ![box[b].key] = 0]
  /\ UNCHANGED <<poll, cache, steady, missed>>

\* The tool fails, its output does not parse, or the push is not taken.
ReportFails(b) ==
  /\ Faults
  /\ ReportDue(b)
  /\ box' = [box EXCEPT ![b].since = 0]
  /\ Disturb({box[b].key})
  /\ UNCHANGED <<dock, poll, cache, heard, missed>>

Forget(b) ==
  /\ dock[b] # None
  /\ dock' = [dock EXCEPT ![b] = None]
  /\ Disturb({dock[b].key})
  /\ UNCHANGED <<box, poll, cache, heard, missed>>

-------------------------------------------------------------------------------
(* The service.                                                              *)

StartService ==
  /\ ~poll.up
  /\ poll' = [Down EXCEPT !.up = TRUE]
  /\ UNCHANGED <<box, dock, cache, heard, steady, missed>>

Crash ==
  /\ Faults
  /\ poll.up
  /\ poll' = Down
  /\ cache' = [k \in Key |-> None]
  /\ missed' = Many
  /\ UNCHANGED <<box, dock, heard, steady>>

\* One immediate fetch; the ticker is created when that has returned.
PollDue == poll.up /\ ~poll.busy /\ (poll.ticker => poll.since = PollEvery)

\* dock answers with every frame it has ...
Fetch ==
  /\ PollDue
  /\ poll' = [poll EXCEPT !.since = 0, !.busy = TRUE, !.frames = dock]
  /\ UNCHANGED <<box, dock, cache, heard, steady, missed>>

Fetched == Waiting(poll.since)

\* Mutant: the time of the fetch is taken for the time of the report.
StampedNow(f) == 0

\* decodeHubStatusSample: dock's recorded_at, or now() if it is not understood.
Stamped(f) == IF Parsed THEN f.age ELSE 0

Samples(k) == {Stamped(poll.frames[b]) : b \in {b \in Box :
                 poll.frames[b] # None /\ poll.frames[b].key = k}}

\* Mutant: samples are merged into the cache one by one.
Merged(k) == IF Samples(k) = {} THEN {cache[k]} ELSE Samples(k)

\* replace: of several frames with one key the last of the list stays; a key
\* without a frame drops out.
Replaced(k) == IF Samples(k) = {} THEN {None} ELSE Samples(k)

\* ... and the cache is swapped.
Apply ==
  /\ poll.busy
  /\ cache' \in {c \in [Key -> Age \cup {None}] : \A k \in Key : c[k] \in Replaced(k)}
  /\ poll' = Fetched
  /\ missed' = 0
  /\ UNCHANGED <<box, dock, heard, steady>>

OneMore(n) == IF n = Many THEN Many ELSE n + 1

\* Mutant: a fetch that fails swaps in an empty list.
FailEmpties ==
  /\ Faults
  /\ poll.busy
  /\ poll' = Fetched
  /\ missed' = OneMore(missed)
  /\ cache' = [k \in Key |-> None]
  /\ UNCHANGED <<box, dock, heard, steady>>

\* A failed fetch, a 404 or an answer that does not decode leaves the cache.
FetchFails ==
  /\ Faults
  /\ poll.busy
  /\ poll' = Fetched
  /\ missed' = OneMore(missed)
  /\ UNCHANGED <<box, dock, cache, heard, steady>>

-------------------------------------------------------------------------------
(* Time.                                                                     *)

Older(a) == IF a = Old THEN Old ELSE a + 1
OlderFrame(f) == IF f = None THEN None ELSE [f EXCEPT !.age = Older(@)]

Reports(k) == \E b \in Box : box[b].key = k

\* A frame a box left behind when its interface went or took another key.
LeftBehind(k) ==
  \E b \in Box : dock[b] # None /\ dock[b].key = k /\ box[b].key # k

Steadier(k) ==
  IF ~Reports(k) \/ LeftBehind(k) THEN 0 ELSE Older(steady[k])

Tick ==
  /\ \A b \in Box : ~ReportDue(b)
  /\ ~PollDue
  /\ ~poll.busy \/ poll.wait < Latency
  /\ box' = [b \in Box |-> IF box[b].key = None THEN Off
                           ELSE [box[b] EXCEPT !.since = @ + 1]]
  /\ dock' = [b \in Box |-> OlderFrame(dock[b])]
  /\ poll' = IF poll.up
             THEN [poll EXCEPT !.since = IF poll.ticker THEN @ + 1 ELSE @,
                               !.wait = IF poll.busy THEN @ + 1 ELSE @,
                               !.frames = [b \in Box |-> OlderFrame(@[b])]]
             ELSE poll
  /\ cache' = [k \in Key |-> IF cache[k] = None THEN None ELSE Older(cache[k])]
  /\ heard' = [k \in Key |-> Older(heard[k])]
  /\ steady' = [k \in Key |-> Steadier(k)]
  /\ UNCHANGED missed

Next ==
  \/ \E b \in Box : \/ \E k \in Key : SwitchOn(b, k)
                    \/ SwitchOff(b) \/ Report(b) \/ ReportFails(b) \/ Forget(b)
  \/ StartService \/ Crash \/ Fetch \/ Apply \/ FetchFails
  \/ Tick

Spec == Init /\ [][Next]_vars

\* Time passes whatever is switched on and off, timers fire, and a fetch ends,
\* with an answer or without.  A box need not be on, nor the service run, nor
\* any fetch succeed.
FairSpec ==
  /\ Spec
  /\ SF_vars(Tick)
  /\ \A b \in Box : WF_vars(Report(b))
  /\ WF_vars(Fetch) /\ WF_vars(Apply \/ FetchFails)

-------------------------------------------------------------------------------
(* What the admin page is answered.                                          *)

\* lookup.
Stale(age) == age > FreshTTL

\* handleAdminWGHubStatus for a hub row with public key k and the live
\* devices D of that hub: the sample, the roster, or nothing.
Status(k, D) ==
  IF k \in Key /\ cache[k] # None
    THEN [source |-> "sample", stale |-> Stale(cache[k])]
  ELSE IF D \ {k, None} # {} THEN [source |-> "roster", stale |-> TRUE]
  ELSE None

Fresh(k) == Status(k, {}) # None /\ ~Status(k, {}).stale

-------------------------------------------------------------------------------
(* Properties.                                                               *)

\* No ghost: a hub is shown as fresh only if dock has had a report of its key
\* within the limit, whatever fetches failed, whichever frames of earlier boxes
\* dock has kept, and however long the answer took.
FreshMeansHeard == \A k \in Key : Fresh(k) => heard[k] <= FreshTTL

\* No false alarm: if a report interval and two fetches fit into the poll interval,
\* a hub that has reported in time for long enough is shown as fresh while no
\* fetch is missed, and one missed fetch does not make it stale at once.
ReportingHubFresh ==
  ReportEvery + 2 * Latency <= PollEvery =>
    \A k \in Key :
      /\ steady[k] = Old
      /\ \/ missed = 0
         \/ /\ missed = 1 /\ ~poll.busy
            /\ poll.since + ReportEvery + Latency <= PollEvery
      => Fresh(k)

\* A key that dock has no frame of drops out of the cache, rather than staying
\* there as stale, if fetches go on succeeding or the service goes on restarting.
ForgottenHubDropped ==
  \A k \in Key :
    /\ <>[](\A b \in Box : dock[b] = None \/ dock[b].key # k)
    /\ []<>(~poll.up) \/ []<><<Apply>>_vars
    => <>[](cache[k] = None)
===============================================================================
