---------------------------- MODULE HubStatus_proofs ----------------------------
(***************************************************************************)
(* Proofs about HubStatus, for any keys, boxes, intervals and latency: no  *)
(* ghosts, as long as the service understands dock's time stamps; and no   *)
(* false alarms, as long as the intervals fit into each other.             *)
(***************************************************************************)
EXTENDS HubStatus, TLAPS

-------------------------------------------------------------------------------
(* Why no ghost appears: a frame is as old as the report it came with, so    *)
(* wherever a copy of it is (at dock, in an answer under way, in the cache)  *)
(* it is at least as old as the last report of its key.                      *)

NoYounger(f) == f # None => heard[f.key] <= f.age

FramesHeard ==
  /\ \A b \in Box : NoYounger(dock[b])
  /\ \A b \in Box : NoYounger(poll.frames[b])
  /\ \A k \in Key : cache[k] # None => heard[k] <= cache[k]

\* While the service is down no answer is under way.
DownIsIdle == ~poll.up => poll.frames = NoFrames

\* While a fetch is under way the ticker has run no longer than the fetch.
FetchClock == poll.busy => poll.up /\ poll.since <= poll.wait

IInv == TypeOK /\ FetchClock /\ DownIsIdle /\ FramesHeard

-------------------------------------------------------------------------------

LEMMA OlderAge ==
  ASSUME NEW a \in Age PROVE Older(a) \in Age /\ Older(a) >= a
BY IntervalAssumption DEF Older, Age, Old, FreshTTL

LEMMA OlderMonotone ==
  ASSUME NEW a \in Age, NEW c \in Age, a <= c PROVE Older(a) <= Older(c)
BY IntervalAssumption DEF Older, Age, Old, FreshTTL

LEMMA OlderFrameTyped ==
  ASSUME NEW f \in Frame \cup {None} PROVE OlderFrame(f) \in Frame \cup {None}
BY OlderAge DEF OlderFrame, Frame

LEMMA ZeroIsAge == 0 \in Age /\ Old \in Age
BY IntervalAssumption DEF Age, Old, FreshTTL

LEMMA Disturbed ==
  ASSUME steady \in [Key -> Age], NEW K, Disturb(K)
  PROVE  steady' \in [Key -> Age]
BY ZeroIsAge DEF Disturb

LEMMA NoFramesTyped == NoFrames \in [Box -> Frame \cup {None}]
BY DEF NoFrames

LEMMA WaitingTyped ==
  ASSUME NEW n \in 0..PollEvery PROVE Waiting(n) \in Poller
<1>1. 0 \in 0..Latency
  BY IntervalAssumption
<1>2. QED
  BY <1>1, NoFramesTyped DEF Waiting, Poller

LEMMA InitIInv == Init => IInv
<1> SUFFICES ASSUME Init PROVE IInv
  OBVIOUS
<1>1. TypeOK
  BY IntervalAssumption, ZeroIsAge
  DEF Init, TypeOK, Off, NoFrames, Down, Poller, Many
<1>2. FramesHeard
  BY DEF Init, FramesHeard, NoYounger, NoFrames, Down
<1>3. DownIsIdle /\ FetchClock
  BY DEF Init, DownIsIdle, FetchClock, Down
<1>4. QED
  BY <1>1, <1>2, <1>3 DEF IInv

-------------------------------------------------------------------------------
(* Types.                                                                    *)

LEMMA SwitchType ==
  ASSUME TypeOK, NEW b \in Box, (\E k \in Key : SwitchOn(b, k)) \/ SwitchOff(b)
  PROVE  TypeOK'
<1>0. /\ ReportEvery \in 0..ReportEvery /\ 1 \in 0..ReportEvery
      /\ box \in [Box -> [key : Key \cup {None}, since : 0..ReportEvery]]
  BY IntervalAssumption DEF TypeOK
<1>1. box' \in [Box -> [key : Key \cup {None}, since : 0..ReportEvery]]
  <2>1. CASE SwitchOff(b)
    <3>1. [Off EXCEPT !.since = 1] = [key |-> None, since |-> 1]
      BY DEF Off
    <3>2. QED
      BY <1>0, <2>1, <3>1 DEF SwitchOff
  <2>2. CASE \E k \in Key : SwitchOn(b, k)
    BY <1>0, <2>2 DEF SwitchOn
  <2>3. QED
    BY <2>1, <2>2
<1>2. steady' \in [Key -> Age]
  BY Disturbed DEF TypeOK, SwitchOn, SwitchOff
<1>3. QED
  BY <1>1, <1>2 DEF TypeOK, SwitchOn, SwitchOff

LEMMA ReportType ==
  ASSUME TypeOK, NEW b \in Box, Report(b) \/ ReportFails(b) \/ Forget(b)
  PROVE  TypeOK'
<1>1. CASE Report(b)
  <2>1. box[b].key \in Key
    BY <1>1 DEF Report, ReportDue, TypeOK
  <2>2. box' \in [Box -> [key : Key \cup {None}, since : 0..ReportEvery]]
    BY <1>1, IntervalAssumption DEF TypeOK, Report
  <2>3. dock' \in [Box -> Frame \cup {None}] /\ heard' \in [Key -> Age]
    BY <1>1, <2>1, ZeroIsAge DEF TypeOK, Report, Frame
  <2>4. QED
    BY <1>1, <2>2, <2>3 DEF TypeOK, Report
<1>2. CASE ReportFails(b)
  <2>1. box' \in [Box -> [key : Key \cup {None}, since : 0..ReportEvery]]
    BY <1>2, IntervalAssumption DEF TypeOK, ReportFails
  <2>2. steady' \in [Key -> Age]
    BY <1>2, Disturbed DEF TypeOK, ReportFails
  <2>3. QED
    BY <1>2, <2>1, <2>2 DEF TypeOK, ReportFails
<1>3. CASE Forget(b)
  <2>1. dock' \in [Box -> Frame \cup {None}]
    BY <1>3 DEF TypeOK, Forget
  <2>2. steady' \in [Key -> Age]
    BY <1>3, Disturbed DEF TypeOK, Forget
  <2>3. QED
    BY <1>3, <2>1, <2>2 DEF TypeOK, Forget
<1>4. QED
  BY <1>1, <1>2, <1>3

LEMMA MissedTyped ==
  ASSUME missed \in 0..Many PROVE OneMore(missed) \in 0..Many
BY DEF OneMore, Many

LEMMA ServiceType ==
  ASSUME TypeOK, StartService \/ Crash \/ Fetch \/ FetchFails
  PROVE  TypeOK'
<1>1. poll' \in Poller
  <2>1. 0 \in 0..PollEvery /\ 0 \in 0..Latency
    BY IntervalAssumption
  <2>2. CASE StartService
    BY <2>1, <2>2, NoFramesTyped DEF StartService, Down, Poller
  <2>3. CASE Crash
    BY <2>1, <2>3, NoFramesTyped DEF Crash, Down, Poller
  <2>4. CASE Fetch
    BY <2>1, <2>4 DEF TypeOK, Fetch, Poller
  <2>5. CASE FetchFails
    BY <2>5, WaitingTyped DEF TypeOK, FetchFails, Fetched, Poller
  <2>6. QED
    BY <2>2, <2>3, <2>4, <2>5
<1>2. cache' \in [Key -> Age \cup {None}]
  BY DEF TypeOK, StartService, Crash, Fetch, FetchFails
<1>3. missed' \in 0..Many
  <2>1. Many \in 0..Many
    BY DEF Many
  <2>2. QED
    BY <2>1, MissedTyped DEF TypeOK, StartService, Crash, Fetch, FetchFails
<1>4. QED
  BY <1>1, <1>2, <1>3 DEF TypeOK, StartService, Crash, Fetch, FetchFails

LEMMA ApplyType == ASSUME TypeOK, Apply PROVE TypeOK'
<1>1. poll' \in Poller
  BY WaitingTyped DEF TypeOK, Apply, Fetched, Poller
<1>2. missed' \in 0..Many
  BY DEF Apply, Many
<1>3. QED
  BY <1>1, <1>2 DEF TypeOK, Apply

LEMMA TickType == ASSUME TypeOK, FetchClock, Tick PROVE TypeOK'
<1>1. box' \in [Box -> [key : Key \cup {None}, since : 0..ReportEvery]]
  <2>1. SUFFICES ASSUME NEW b \in Box
        PROVE box'[b] \in [key : Key \cup {None}, since : 0..ReportEvery]
    BY DEF Tick
  <2>2. CASE box[b].key = None
    BY <2>2, IntervalAssumption DEF Tick, Off
  <2>3. CASE box[b].key # None
    <3>1. box[b].since \in 0..ReportEvery /\ box[b].since # ReportEvery
      BY <2>3 DEF Tick, ReportDue, TypeOK
    <3>2. box[b].since + 1 \in 0..ReportEvery
      BY <3>1, IntervalAssumption
    <3>3. QED
      BY <2>3, <3>2 DEF Tick, TypeOK
  <2>4. QED
    BY <2>2, <2>3
<1>2. dock' \in [Box -> Frame \cup {None}]
  BY OlderFrameTyped DEF Tick, TypeOK
<1>3. poll' \in Poller
  <2>1. CASE ~poll.up
    BY <2>1 DEF Tick, TypeOK
  <2>2. CASE poll.up
    <3>0. /\ poll.since \in 0..PollEvery /\ poll.wait \in 0..Latency
          /\ poll.busy => poll.wait < Latency
      BY DEF Tick, TypeOK, Poller
    <3>1. (IF poll.ticker THEN poll.since + 1 ELSE poll.since) \in 0..PollEvery
      <4>1. poll.busy => poll.since < PollEvery
        BY <3>0, IntervalAssumption, LatencyAssumption DEF FetchClock
      <4>2. poll.ticker /\ ~poll.busy => poll.since # PollEvery
        BY <2>2 DEF Tick, PollDue
      <4>3. QED
        BY <3>0, <4>1, <4>2, IntervalAssumption
    <3>2. (IF poll.busy THEN poll.wait + 1 ELSE poll.wait) \in 0..Latency
      BY <3>0, IntervalAssumption
    <3>3. [b \in Box |-> OlderFrame(poll.frames[b])] \in [Box -> Frame \cup {None}]
      BY OlderFrameTyped DEF TypeOK, Poller
    <3>4. QED
      BY <2>2, <3>1, <3>2, <3>3 DEF Tick, TypeOK, Poller
  <2>3. QED
    BY <2>1, <2>2
<1>4. cache' \in [Key -> Age \cup {None}] /\ heard' \in [Key -> Age]
  BY OlderAge DEF Tick, TypeOK
<1>5. steady' \in [Key -> Age]
  BY OlderAge, ZeroIsAge DEF Tick, TypeOK, Steadier
<1>6. missed' = missed
  BY DEF Tick
<1>7. QED
  BY <1>1, <1>2, <1>3, <1>4, <1>5, <1>6 DEF TypeOK

-------------------------------------------------------------------------------
(* Copies stay no younger than the report.                                   *)

LEMMA ReportHeard == ASSUME IInv, NEW b \in Box, Report(b) PROVE FramesHeard'
<1>1. box[b].key \in Key
  BY DEF IInv, TypeOK, Report, ReportDue
<1>2. \A k \in Key : heard'[k] = 0 \/ heard'[k] = heard[k]
  BY <1>1 DEF IInv, TypeOK, Report
<1>3. ASSUME NEW f \in Frame \cup {None}, NoYounger(f) PROVE NoYounger(f)'
  BY <1>2, <1>3, IntervalAssumption DEF NoYounger, Frame, Age, Old, FreshTTL
<1>4. ASSUME NEW c \in Box PROVE NoYounger(dock[c])'
  <2>1. CASE c = b
    BY <1>1, <2>1 DEF NoYounger, Report, IInv, TypeOK
  <2>2. CASE c # b
    <3>1. NoYounger(dock[c]) /\ dock[c] \in Frame \cup {None}
      BY DEF IInv, TypeOK, FramesHeard
    <3>2. dock'[c] = dock[c]
      BY <2>2 DEF Report, IInv, TypeOK
    <3>3. QED
      BY <1>2, <3>1, <3>2, IntervalAssumption DEF NoYounger, Frame, Age, Old, FreshTTL
  <2>3. QED
    BY <2>1, <2>2
<1>5. ASSUME NEW c \in Box PROVE NoYounger(poll.frames[c])'
  <2>1. NoYounger(poll.frames[c]) /\ poll.frames[c] \in Frame \cup {None}
    BY DEF IInv, TypeOK, FramesHeard, Poller
  <2>2. QED
    BY <1>2, <2>1, IntervalAssumption DEF NoYounger, Frame, Age, Old, FreshTTL, Report
<1>6. \A k \in Key : cache'[k] # None => heard'[k] <= cache'[k]
  BY <1>2, IntervalAssumption DEF IInv, TypeOK, FramesHeard, Report, Age, Old, FreshTTL
<1>7. QED
  BY <1>4, <1>5, <1>6 DEF FramesHeard

LEMMA ApplyHeard == ASSUME IInv, Parsed, Apply PROVE FramesHeard'
<1>1. ASSUME NEW k \in Key, cache'[k] # None PROVE heard'[k] <= cache'[k]
  <2>1. cache'[k] \in Samples(k)
    BY <1>1 DEF Apply, Replaced
  <2>2. PICK b \in Box : /\ poll.frames[b] # None
                         /\ poll.frames[b].key = k
                         /\ cache'[k] = Stamped(poll.frames[b])
    BY <2>1 DEF Samples
  <2>3. heard[k] <= poll.frames[b].age
    BY <2>2 DEF IInv, FramesHeard, NoYounger
  <2>4. QED
    BY <2>2, <2>3, Parsed DEF Stamped, Apply
<1>2. \A b \in Box : poll'.frames[b] = None /\ dock'[b] = dock[b]
  BY DEF Apply, Fetched, Waiting, NoFrames, IInv, TypeOK
<1>3. QED
  BY <1>1, <1>2 DEF IInv, FramesHeard, NoYounger, Apply

LEMMA ServiceHeard ==
  ASSUME IInv, StartService \/ Crash \/ Fetch \/ FetchFails PROVE FramesHeard'
<1>1. heard' = heard /\ dock' = dock
  BY DEF StartService, Crash, Fetch, FetchFails
<1>2. poll'.frames \in {NoFrames, dock}
  <2>1. poll \in Poller
    BY DEF IInv, TypeOK
  <2>2. CASE StartService
    BY <2>2 DEF StartService, Down
  <2>3. CASE Crash
    BY <2>3 DEF Crash, Down
  <2>4. CASE Fetch
    BY <2>1, <2>4 DEF Fetch, Poller
  <2>5. CASE FetchFails
    BY <2>1, <2>5 DEF FetchFails, Fetched, Waiting
  <2>6. QED
    BY <2>2, <2>3, <2>4, <2>5
<1>3. \A k \in Key : cache'[k] \in {None, cache[k]}
  BY DEF StartService, Crash, Fetch, FetchFails
<1>4. QED
  BY <1>1, <1>2, <1>3 DEF IInv, FramesHeard, NoYounger, NoFrames

LEMMA BoxHeard ==
  ASSUME IInv, NEW b \in Box,
         (\E k \in Key : SwitchOn(b, k)) \/ SwitchOff(b) \/ ReportFails(b) \/ Forget(b)
  PROVE  FramesHeard'
<1>1. heard' = heard /\ poll' = poll /\ cache' = cache
  BY DEF SwitchOn, SwitchOff, ReportFails, Forget
<1>2. \A c \in Box : dock'[c] \in {None, dock[c]}
  BY DEF SwitchOn, SwitchOff, ReportFails, Forget, IInv, TypeOK
<1>3. QED
  BY <1>1, <1>2 DEF IInv, FramesHeard, NoYounger

LEMMA OlderFrameHeard ==
  ASSUME IInv, Tick, NEW f \in Frame \cup {None}, NoYounger(f)
  PROVE  OlderFrame(f) # None => heard'[OlderFrame(f).key] <= OlderFrame(f).age
<1>1. SUFFICES ASSUME f # None
      PROVE heard'[OlderFrame(f).key] <= OlderFrame(f).age
  BY DEF OlderFrame
<1>2. f.key \in Key /\ f.age \in Age /\ heard[f.key] \in Age
  BY <1>1 DEF Frame, IInv, TypeOK
<1>3. OlderFrame(f).key = f.key /\ OlderFrame(f).age = Older(f.age)
  BY <1>1 DEF OlderFrame, Frame
<1>4. heard'[f.key] = Older(heard[f.key])
  BY <1>2 DEF Tick
<1>5. heard[f.key] <= f.age
  BY <1>1 DEF NoYounger
<1>6. QED
  BY <1>2, <1>3, <1>4, <1>5, OlderMonotone

LEMMA TickHeard == ASSUME IInv, Tick PROVE FramesHeard'
<1>1. ASSUME NEW b \in Box PROVE NoYounger(dock[b])'
  <2>1. dock'[b] = OlderFrame(dock[b])
    BY DEF Tick
  <2>2. dock[b] \in Frame \cup {None} /\ NoYounger(dock[b])
    BY DEF IInv, TypeOK, FramesHeard
  <2>3. QED
    BY <2>1, <2>2, OlderFrameHeard DEF NoYounger
<1>2. ASSUME NEW b \in Box PROVE NoYounger(poll.frames[b])'
  <2>1. poll.frames[b] \in Frame \cup {None} /\ NoYounger(poll.frames[b])
    BY DEF IInv, TypeOK, FramesHeard, Poller
  <2>2. CASE poll.up
    <3>1. poll'.frames[b] = OlderFrame(poll.frames[b])
      BY <2>2 DEF Tick, IInv, TypeOK, Poller
    <3>2. QED
      BY <3>1, <2>1, OlderFrameHeard DEF NoYounger
  <2>3. CASE ~poll.up
    <3>1. poll'.frames[b] = None
      BY <2>3 DEF Tick, IInv, DownIsIdle, NoFrames
    <3>2. QED
      BY <3>1 DEF NoYounger
  <2>4. QED
    BY <2>2, <2>3
<1>3. ASSUME NEW k \in Key, cache'[k] # None PROVE heard'[k] <= cache'[k]
  <2>1. cache[k] \in Age /\ heard[k] \in Age /\ heard[k] <= cache[k]
    BY <1>3 DEF Tick, IInv, TypeOK, FramesHeard
  <2>2. cache'[k] = Older(cache[k]) /\ heard'[k] = Older(heard[k])
    BY <1>3 DEF Tick
  <2>3. QED
    BY <2>1, <2>2, OlderMonotone
<1>4. QED
  BY <1>1, <1>2, <1>3 DEF FramesHeard

LEMMA StepIdle ==
  ASSUME TypeOK, FetchClock, DownIsIdle, [Next]_vars PROVE FetchClock' /\ DownIsIdle'
<1>0. poll \in Poller /\ poll.since \in Nat /\ poll.wait \in Nat
  <2>1. poll \in Poller /\ poll.since \in 0..PollEvery /\ poll.wait \in 0..Latency
    BY DEF TypeOK, Poller
  <2>2. QED
    BY <2>1, IntervalAssumption
<1>1. CASE poll' = poll
  BY <1>1 DEF DownIsIdle, FetchClock
<1>2. CASE StartService
  BY <1>2 DEF DownIsIdle, FetchClock, StartService, Down
<1>3. CASE Fetch
  <2>1. poll'.up /\ poll'.since = 0 /\ poll'.wait = poll.wait
    BY <1>0, <1>3 DEF Fetch, PollDue, Poller
  <2>2. QED
    BY <1>0, <2>1 DEF DownIsIdle, FetchClock
<1>4. CASE Crash
  BY <1>4 DEF DownIsIdle, FetchClock, Crash, Down
<1>5. CASE Apply \/ FetchFails
  BY <1>0, <1>5 DEF DownIsIdle, FetchClock, Apply, FetchFails, Fetched, Waiting
<1>6. CASE Tick
  <2>1. CASE ~poll.up
    BY <1>6, <2>1, <1>1 DEF Tick
  <2>2. CASE poll.up
    <3>1. /\ poll'.up /\ poll'.busy = poll.busy
          /\ poll'.since = (IF poll.ticker THEN poll.since + 1 ELSE poll.since)
          /\ poll'.wait = IF poll.busy THEN poll.wait + 1 ELSE poll.wait
      BY <1>0, <1>6, <2>2 DEF Tick, Poller
    <3>2. QED
      BY <1>0, <3>1 DEF DownIsIdle, FetchClock
  <2>3. QED
    BY <2>1, <2>2
<1>7. QED
  BY <1>1, <1>2, <1>3, <1>4, <1>5, <1>6
  DEF Next, vars, SwitchOn, SwitchOff, Report, ReportFails, Forget

LEMMA StepType == ASSUME TypeOK, FetchClock, [Next]_vars PROVE TypeOK'
<1>1. CASE UNCHANGED vars
  BY <1>1 DEF vars, TypeOK
<1>2. CASE Next
  BY <1>2, SwitchType, ReportType, ServiceType, ApplyType, TickType DEF Next
<1>3. QED
  BY <1>1, <1>2

LEMMA StepIInv == ASSUME Parsed, IInv, [Next]_vars PROVE IInv'
<1>1. DownIsIdle' /\ FetchClock'
  BY StepIdle DEF IInv
<1>2. TypeOK' /\ FramesHeard
  BY StepType DEF IInv
<1>3. CASE \E b \in Box : \/ \E k \in Key : SwitchOn(b, k)
                         \/ SwitchOff(b) \/ Report(b) \/ ReportFails(b) \/ Forget(b)
  BY <1>1, <1>2, <1>3, ReportHeard, BoxHeard DEF IInv
<1>4. CASE StartService \/ Crash \/ Fetch \/ FetchFails
  BY <1>1, <1>2, <1>4, ServiceHeard DEF IInv
<1>5. CASE Apply
  BY <1>1, <1>2, <1>5, ApplyHeard DEF IInv
<1>6. CASE Tick
  BY <1>1, <1>2, <1>6, TickHeard DEF IInv
<1>7. CASE UNCHANGED vars
  BY <1>1, <1>2, <1>7 DEF IInv, vars, TypeOK, FramesHeard, NoYounger
<1>8. QED
  BY <1>3, <1>4, <1>5, <1>6, <1>7 DEF Next

-------------------------------------------------------------------------------
(* Results.                                                                  *)

\* If dock's time stamps are understood, every copy of a frame is as old as the
\* last report of its key or older, in every reachable state.
THEOREM Invariance == ASSUME Parsed PROVE Spec => []IInv
<1>1. Init => IInv
  BY InitIInv
<1>2. IInv /\ [Next]_vars => IInv'
  BY StepIInv
<1>3. QED
  BY <1>1, <1>2, PTL DEF Spec

\* Every reachable state has the declared types, whatever dock stamps, and a fetch
\* that is under way has been so for as long as the ticker has run, or longer.
LEMMA Clocked == Spec => [](TypeOK /\ FetchClock /\ DownIsIdle)
<1>1. Init => TypeOK /\ FetchClock /\ DownIsIdle
  BY InitIInv DEF IInv
<1>2. TypeOK /\ FetchClock /\ DownIsIdle /\ [Next]_vars
        => (TypeOK /\ FetchClock /\ DownIsIdle)'
  BY StepType, StepIdle
<1>3. QED
  BY <1>1, <1>2, PTL DEF Spec

\* Every reachable state has the declared types.
THEOREM TypeCorrect == Spec => []TypeOK
BY Clocked, PTL

\* No ghost: the admin page shows a hub as fresh only within twice the poll
\* interval of a report of its key (lookup), for any intervals and latency.
THEOREM FreshMeansHeardHolds == ASSUME Parsed PROVE Spec => []FreshMeansHeard
<1>1. IInv => FreshMeansHeard
  <2>1. SUFFICES ASSUME IInv, NEW k \in Key, Fresh(k) PROVE heard[k] <= FreshTTL
    BY DEF FreshMeansHeard
  <2>2. cache[k] # None /\ ~Stale(cache[k])
    BY <2>1 DEF Fresh, Status
  <2>3. cache[k] \in Age /\ heard[k] \in Age /\ heard[k] <= cache[k]
    BY <2>1, <2>2 DEF IInv, TypeOK, FramesHeard
  <2>4. cache[k] <= FreshTTL
    BY <2>2, <2>3, IntervalAssumption DEF Stale, Age, Old, FreshTTL
  <2>5. QED
    BY <2>3, <2>4, IntervalAssumption DEF Age, Old, FreshTTL
<1>2. QED
  BY <1>1, Invariance, PTL

-------------------------------------------------------------------------------
(* Why a reporting hub stays fresh.  For steady[k] ticks the boxes with key  *)
(* k have reported in time.  After more than ReportEvery of them every box   *)
(* with the key has reported, so a fetch made then found frames that were no *)
(* older; they reach the cache within Latency; the next fetch begins at most *)
(* PollEvery after this one ended, and until it ends the cache stays.        *)

Undisturbed(k) == steady[k] > 0 => Reports(k) /\ ~LeftBehind(k)

\* The box's timer has run since before things were steady, or dock has the
\* frame of its last report.
BoxReported(k, b) ==
  box[b].key = k =>
    \/ box[b].since >= steady[k]
    \/ dock[b] # None /\ dock[b].key = k /\ dock[b].age <= box[b].since

Reported(k) == \A b \in Box : BoxReported(k, b)

GoodFrames(k, n) ==
  /\ \E b \in Box : poll.frames[b] # None /\ poll.frames[b].key = k
  /\ \A b \in Box : poll.frames[b] # None /\ poll.frames[b].key = k =>
       poll.frames[b].age <= n

GoodCache(k, n) == steady[k] > n => cache[k] # None /\ cache[k] <= n

\* The fetch under way; the last good fetch, until the next one begins; the last
\* good fetch, while the next one is under way or after that one was missed.
Informed(k) ==
  /\ poll.busy /\ steady[k] > ReportEvery + poll.wait =>
       GoodFrames(k, ReportEvery + poll.wait)
  /\ missed = 0 /\ ~poll.busy => GoodCache(k, ReportEvery + Latency + poll.since)
  /\ (missed = 0 /\ poll.busy) \/ (missed = 1 /\ ~poll.busy) =>
       GoodCache(k, ReportEvery + PollEvery + Latency + poll.since)

\* After a good fetch the ticker runs.
Ticking == missed # Many => poll.up /\ poll.ticker

SteadyInv == Ticking /\ \A k \in Key : Undisturbed(k) /\ Reported(k) /\ Informed(k)

-------------------------------------------------------------------------------

LEMMA Numbers ==
  /\ PollEvery \in Nat /\ PollEvery > 0 /\ ReportEvery \in Nat /\ ReportEvery > 0
  /\ Latency \in Nat /\ Latency < PollEvery
  /\ FreshTTL = 2 * PollEvery /\ Old = 2 * PollEvery + 1 /\ Many = 2
BY IntervalAssumption, LatencyAssumption DEF FreshTTL, Old, Many

\* What the types say in numbers.
Numerals ==
  /\ poll \in Poller /\ poll.since \in Nat /\ poll.wait \in Nat
  /\ poll.since <= PollEvery /\ poll.wait <= Latency
  /\ poll.up \in BOOLEAN /\ poll.busy \in BOOLEAN /\ poll.ticker \in BOOLEAN
  /\ \A k \in Key : /\ steady[k] \in Nat /\ steady[k] <= Old
                    /\ cache[k] # None => cache[k] \in Nat
  /\ \A b \in Box : /\ box[b].since \in Nat /\ box[b].since <= ReportEvery
                    /\ dock[b] # None => dock[b].age \in Nat /\ dock[b] \in Frame
                    /\ poll.frames[b] # None =>
                         poll.frames[b].age \in Nat /\ poll.frames[b] \in Frame

LEMMA TypesAre == TypeOK => Numerals
<1> SUFFICES ASSUME TypeOK PROVE Numerals
  OBVIOUS
<1>1. Age \subseteq Nat
  BY IntervalAssumption DEF Age, Old, FreshTTL
<1>2. \A f \in Frame : f.age \in Nat
  BY <1>1 DEF Frame
<1>3. PollEvery \in Nat /\ ReportEvery \in Nat /\ Latency \in Nat
  BY IntervalAssumption
<1>4. /\ poll \in Poller /\ poll.frames \in [Box -> Frame \cup {None}]
      /\ poll.since \in 0..PollEvery /\ poll.wait \in 0..Latency
      /\ poll.up \in BOOLEAN /\ poll.busy \in BOOLEAN /\ poll.ticker \in BOOLEAN
  BY DEF TypeOK, Poller
<1>5. ASSUME NEW k \in Key
      PROVE  /\ steady[k] \in Nat /\ steady[k] <= Old
             /\ cache[k] # None => cache[k] \in Nat
  <2>1. steady[k] \in Age /\ cache[k] \in Age \cup {None}
    BY DEF TypeOK
  <2>2. steady[k] \in Nat /\ steady[k] <= Old
    BY <2>1, Numbers DEF Age
  <2>3. cache[k] # None => cache[k] \in Nat
    BY <1>1, <2>1
  <2>4. QED
    BY <2>2, <2>3
<1>6. ASSUME NEW b \in Box
      PROVE  /\ box[b].since \in Nat /\ box[b].since <= ReportEvery
             /\ dock[b] # None => dock[b].age \in Nat /\ dock[b] \in Frame
             /\ poll.frames[b] # None =>
                  poll.frames[b].age \in Nat /\ poll.frames[b] \in Frame
  <2>1. box[b].since \in 0..ReportEvery /\ dock[b] \in Frame \cup {None}
    BY DEF TypeOK
  <2>2. QED
    BY <1>2, <1>3, <1>4, <2>1
<1>7. /\ poll.since \in Nat /\ poll.wait \in Nat
      /\ poll.since <= PollEvery /\ poll.wait <= Latency
  BY <1>3, <1>4
<1>8. QED
  BY <1>4, <1>5, <1>6, <1>7 DEF Numerals

\* A key that was disturbed is owed nothing.
LEMMA Owed ==
  ASSUME Numerals', NEW k \in Key, steady'[k] = 0
  PROVE  Undisturbed(k)' /\ Reported(k)' /\ Informed(k)'
<1>1. /\ \A b \in Box : box'[b].since \in Nat
      /\ poll'.since \in Nat /\ poll'.wait \in Nat
  BY DEF Numerals
<1>2. Undisturbed(k)' /\ Reported(k)'
  BY <1>1 DEF Undisturbed, Reported, BoxReported
<1>3. Informed(k)'
  BY <1>1, Numbers DEF Informed, GoodCache
<1>4. QED
  BY <1>2, <1>3

\* A step of a box that does not disturb k.
LEMMA BoxKeepsSteady ==
  ASSUME NEW k \in Key, Undisturbed(k), Informed(k),
         steady'[k] = steady[k], UNCHANGED <<poll, cache, missed>>,
         \A b \in Box : box'[b].key = k <=> box[b].key = k,
         \A b \in Box : dock'[b] # None /\ dock'[b].key = k =>
           box[b].key = k \/ (dock[b] # None /\ dock[b].key = k),
         Reported(k)'
  PROVE  Undisturbed(k)' /\ Reported(k)' /\ Informed(k)'
<1>1. Undisturbed(k)'
  BY DEF Undisturbed, Reports, LeftBehind
<1>2. Informed(k)'
  BY DEF Informed, GoodFrames, GoodCache
<1>3. QED
  BY <1>1, <1>2

LEMMA SwitchSteady ==
  ASSUME TypeOK, Numerals', SteadyInv, NEW b \in Box, NEW k \in Key,
         (\E n \in Key : SwitchOn(b, n)) \/ SwitchOff(b)
  PROVE  Undisturbed(k)' /\ Reported(k)' /\ Informed(k)'
<1>1. Undisturbed(k) /\ Reported(k) /\ Informed(k)
  BY DEF SteadyInv
<1>2. PICK n \in Key : /\ Disturb({n}) /\ UNCHANGED <<dock, poll, cache, missed>>
                       /\ box[b].key # k \/ n = k
                       /\ box'[b].key # k \/ n = k
                       /\ \A c \in Box : c # b => box'[c] = box[c]
  <2>1. CASE SwitchOff(b)
    <3>1. [Off EXCEPT !.since = 1].key = None
      BY DEF Off
    <3>2. k # None
      BY StatusNoneAssumption
    <3>3. box[b].key \in Key
      BY <2>1 DEF SwitchOff, TypeOK
    <3>4. PICK n \in Key : n = box[b].key
      BY <3>3
    <3>5. box'[b] = [Off EXCEPT !.since = 1] /\ \A c \in Box : c # b => box'[c] = box[c]
      BY <2>1 DEF SwitchOff, TypeOK
    <3>6. Disturb({n}) /\ UNCHANGED <<dock, poll, cache, missed>>
      BY <2>1, <3>4 DEF SwitchOff
    <3>7. (box[b].key # k \/ n = k) /\ box'[b].key # k
      BY <3>1, <3>2, <3>4, <3>5
    <3>8. QED
      BY <3>5, <3>6, <3>7
  <2>2. CASE \E n \in Key : SwitchOn(b, n)
    <3>1. PICK n \in Key : SwitchOn(b, n)
      BY <2>2
    <3>2. box[b].key # k
      BY <3>1, StatusNoneAssumption DEF SwitchOn, Off
    <3>3. Disturb({n}) /\ UNCHANGED <<dock, poll, cache, missed>>
      BY <3>1 DEF SwitchOn
    <3>4. box'[b].key = n /\ \A c \in Box : c # b => box'[c] = box[c]
      BY <3>1 DEF SwitchOn, TypeOK
    <3>5. QED
      BY <3>2, <3>3, <3>4
  <2>3. QED
    BY <2>1, <2>2
<1>3. CASE n = k
  <2>1. steady'[k] = 0
    BY <1>2, <1>3 DEF Disturb
  <2>2. QED
    BY <2>1, Owed
<1>4. CASE n # k
  <2>1. steady'[k] = steady[k]
    BY <1>2, <1>4 DEF Disturb
  <2>2. Reported(k)'
    BY <1>1, <1>2, <1>4, <2>1 DEF Reported, BoxReported
  <2>3. QED
    BY <1>1, <1>2, <1>4, <2>1, <2>2, BoxKeepsSteady
<1>5. QED
  BY <1>3, <1>4

LEMMA ReportSteady ==
  ASSUME TypeOK, Numerals', SteadyInv, NEW b \in Box, NEW k \in Key, Report(b)
  PROVE  Undisturbed(k)' /\ Reported(k)' /\ Informed(k)'
<1>1. Undisturbed(k) /\ Reported(k) /\ Informed(k)
  BY DEF SteadyInv
<1>2. /\ steady' = steady /\ UNCHANGED <<poll, cache, missed>>
      /\ box'[b].key = box[b].key /\ box'[b].since = 0
      /\ dock'[b] = [key |-> box[b].key, age |-> 0]
      /\ \A c \in Box : c # b => box'[c] = box[c] /\ dock'[c] = dock[c]
  BY DEF Report, TypeOK
<1>3. dock'[b] # None /\ dock'[b].key = box[b].key /\ dock'[b].age = 0
  <2>1. box[b].key \in Key
    BY DEF Report, ReportDue, TypeOK
  <2>2. QED
    BY <1>2, <2>1, StatusNoneAssumption
<1>4. Reported(k)'
  BY <1>1, <1>2, <1>3 DEF Reported, BoxReported
<1>5. /\ \A c \in Box : box'[c].key = k <=> box[c].key = k
      /\ \A c \in Box : dock'[c] # None /\ dock'[c].key = k =>
           box[c].key = k \/ (dock[c] # None /\ dock[c].key = k)
  BY <1>2, <1>3
<1>6. steady'[k] = steady[k]
  BY <1>2
<1>7. QED
  BY <1>1, <1>2, <1>4, <1>5, <1>6, BoxKeepsSteady

LEMMA LossSteady ==
  ASSUME TypeOK, Numerals', SteadyInv, NEW b \in Box, NEW k \in Key,
         ReportFails(b) \/ Forget(b)
  PROVE  Undisturbed(k)' /\ Reported(k)' /\ Informed(k)'
<1>1. Undisturbed(k) /\ Reported(k) /\ Informed(k)
  BY DEF SteadyInv
<1>2. PICK n : n = IF ReportFails(b) THEN box[b].key ELSE dock[b].key
  OBVIOUS
<1>3. Disturb({n}) /\ UNCHANGED <<poll, cache, missed>>
  BY <1>2 DEF ReportFails, Forget
<1>4. CASE n = k
  <2>1. steady'[k] = 0
    BY <1>3, <1>4 DEF Disturb
  <2>2. QED
    BY <2>1, Owed
<1>5. CASE n # k
  <2>1. steady'[k] = steady[k]
    BY <1>3, <1>5 DEF Disturb
  <2>2. CASE ReportFails(b)
    <3>1. /\ box[b].key # k /\ box'[b].key = box[b].key /\ dock' = dock
          /\ \A c \in Box : c # b => box'[c] = box[c]
      BY <1>2, <1>5, <2>2 DEF ReportFails, TypeOK
    <3>2. Reported(k)'
      BY <1>1, <2>1, <3>1 DEF Reported, BoxReported
    <3>3. QED
      BY <1>1, <1>3, <2>1, <3>1, <3>2, BoxKeepsSteady
  <2>3. CASE ~ReportFails(b)
    <3>1. /\ dock[b].key # k /\ dock'[b] = None /\ box' = box
          /\ \A c \in Box : c # b => dock'[c] = dock[c]
      BY <1>2, <1>5, <2>3 DEF Forget, TypeOK
    <3>2. Reported(k)'
      BY <1>1, <2>1, <3>1 DEF Reported, BoxReported
    <3>3. QED
      BY <1>1, <1>3, <2>1, <3>1, <3>2, BoxKeepsSteady
  <2>4. QED
    BY <2>2, <2>3
<1>6. QED
  BY <1>4, <1>5

-------------------------------------------------------------------------------

\* The service starts, or dies: there is no good fetch yet.
LEMMA RestartSteady ==
  ASSUME TypeOK, SteadyInv, NEW k \in Key, StartService \/ Crash
  PROVE  Undisturbed(k)' /\ Reported(k)' /\ Informed(k)'
<1>1. /\ Undisturbed(k) /\ Reported(k) /\ Numerals
      /\ UNCHANGED <<box, dock, steady>>
  BY TypesAre DEF SteadyInv, StartService, Crash
<1>2. ~poll'.busy /\ missed' = Many
  <2>1. CASE Crash
    BY <2>1 DEF Crash, Down
  <2>2. CASE StartService
    BY <2>2 DEF StartService, Down, SteadyInv, Ticking
  <2>3. QED
    BY <2>1, <2>2
<1>3. Undisturbed(k)' /\ Reported(k)'
  BY <1>1 DEF Undisturbed, Reports, LeftBehind, Reported, BoxReported
<1>4. Informed(k)'
  BY <1>2, Numbers DEF Informed
<1>5. QED
  BY <1>3, <1>4

\* A fetch fails: the cache stays.
LEMMA FailSteady ==
  ASSUME TypeOK, SteadyInv, NEW k \in Key, FetchFails
  PROVE  Undisturbed(k)' /\ Reported(k)' /\ Informed(k)'
<1>1. /\ Undisturbed(k) /\ Reported(k) /\ Informed(k) /\ poll.busy
      /\ UNCHANGED <<box, dock, cache, steady>>
  BY DEF SteadyInv, FetchFails
<1>2. ~poll'.busy /\ poll'.since = poll.since
  BY DEF FetchFails, Fetched, Waiting
<1>3. missed' # 0 /\ (missed' = 1 => missed = 0)
  <2>1. missed \in 0..2 /\ missed' = OneMore(missed)
    BY DEF TypeOK, Many, FetchFails
  <2>2. QED
    BY <2>1 DEF OneMore, Many
<1>4. Undisturbed(k)' /\ Reported(k)'
  BY <1>1 DEF Undisturbed, Reports, LeftBehind, Reported, BoxReported
<1>5. Informed(k)'
  BY <1>1, <1>2, <1>3 DEF Informed, GoodCache
<1>6. QED
  BY <1>4, <1>5

\* A fetch that is made while things are steady for long enough finds a frame of
\* the key, and none that is older than a report interval.
LEMMA FetchSteady ==
  ASSUME TypeOK, SteadyInv, NEW k \in Key, Fetch
  PROVE  Undisturbed(k)' /\ Reported(k)' /\ Informed(k)'
<1>1. /\ Undisturbed(k) /\ Reported(k) /\ Informed(k) /\ Numerals
      /\ ~poll.busy /\ (missed # Many => poll.since = PollEvery)
  BY TypesAre DEF SteadyInv, Ticking, Fetch, PollDue
<1>2. /\ poll'.since = 0 /\ poll'.busy /\ poll'.frames = dock
      /\ poll'.wait = poll.wait /\ poll'.wait \in Nat
      /\ UNCHANGED <<box, dock, cache, steady, missed>>
  BY <1>1 DEF Fetch, Poller, Numerals
<1>3. Undisturbed(k)' /\ Reported(k)'
  BY <1>1, <1>2 DEF Undisturbed, Reports, LeftBehind, Reported, BoxReported
<1>4. steady[k] > ReportEvery => GoodFrames(k, ReportEvery)'
  <2>1. SUFFICES ASSUME steady[k] > ReportEvery PROVE GoodFrames(k, ReportEvery)'
    OBVIOUS
  <2>2. Reports(k) /\ ~LeftBehind(k)
    BY <1>1, <2>1, Numbers DEF Undisturbed, Numerals
  <2>3. \A b \in Box : box[b].key = k =>
          dock[b] # None /\ dock[b].key = k /\ dock[b].age <= ReportEvery
    <3>1. SUFFICES ASSUME NEW b \in Box, box[b].key = k
          PROVE dock[b] # None /\ dock[b].key = k /\ dock[b].age <= ReportEvery
      OBVIOUS
    <3>2. box[b].since \in Nat /\ box[b].since <= ReportEvery /\ steady[k] \in Nat
      BY <1>1 DEF Numerals
    <3>3. ~(box[b].since >= steady[k])
      BY <2>1, <3>2, Numbers
    <3>4. dock[b] # None /\ dock[b].key = k /\ dock[b].age <= box[b].since
      BY <1>1, <3>1, <3>3 DEF Reported, BoxReported
    <3>5. dock[b].age \in Nat
      BY <1>1, <3>4 DEF Numerals
    <3>6. QED
      BY <3>2, <3>4, <3>5, Numbers
  <2>4. \E b \in Box : dock[b] # None /\ dock[b].key = k
    BY <2>2, <2>3 DEF Reports
  <2>5. \A b \in Box : dock[b] # None /\ dock[b].key = k => dock[b].age <= ReportEvery
    BY <2>2, <2>3 DEF LeftBehind
  <2>6. QED
    BY <1>2, <2>4, <2>5 DEF GoodFrames
<1>5. missed = 0 => GoodCache(k, ReportEvery + PollEvery + Latency)
  <2>1. ReportEvery + Latency + PollEvery = ReportEvery + PollEvery + Latency
    BY Numbers
  <2>2. missed = 0 => GoodCache(k, ReportEvery + Latency + PollEvery)
    BY <1>1, Numbers DEF Informed
  <2>3. QED
    BY <2>1, <2>2
<1>6. ReportEvery + PollEvery + Latency + 0 = ReportEvery + PollEvery + Latency
  BY Numbers
<1>7. ASSUME steady[k] > ReportEvery + poll'.wait
      PROVE  GoodFrames(k, ReportEvery + poll.wait)'
  <2>1. steady[k] > ReportEvery /\ GoodFrames(k, ReportEvery)'
    BY <1>1, <1>2, <1>4, <1>7, Numbers DEF Numerals
  <2>2. \A b \in Box : poll'.frames[b] # None /\ poll'.frames[b].key = k =>
          poll'.frames[b].age <= ReportEvery + poll'.wait
    <3>1. SUFFICES ASSUME NEW b \in Box, poll'.frames[b] # None, poll'.frames[b].key = k
          PROVE poll'.frames[b].age <= ReportEvery + poll'.wait
      OBVIOUS
    <3>2. poll'.frames[b].age \in Nat
      BY <1>1, <1>2, <3>1 DEF Numerals
    <3>3. poll'.frames[b].age <= ReportEvery
      BY <2>1, <3>1 DEF GoodFrames
    <3>4. QED
      BY <1>2, <3>2, <3>3, Numbers
  <2>3. QED
    BY <2>1, <2>2 DEF GoodFrames
<1>8. Informed(k)'
  BY <1>1, <1>2, <1>5, <1>6, <1>7, Numbers DEF Informed, GoodCache
<1>9. QED
  BY <1>3, <1>8

LEMMA ApplySteady ==
  ASSUME TypeOK, SteadyInv, NEW k \in Key, Apply
  PROVE  Undisturbed(k)' /\ Reported(k)' /\ Informed(k)'
<1>1. /\ Undisturbed(k) /\ Reported(k) /\ Informed(k) /\ Numerals /\ poll.busy
  BY TypesAre DEF SteadyInv, Apply
<1>2. /\ poll'.since = poll.since /\ ~poll'.busy /\ missed' = 0
      /\ UNCHANGED <<box, dock, steady>>
  BY DEF Apply, Fetched, Waiting
<1>3. Undisturbed(k)' /\ Reported(k)'
  BY <1>1, <1>2 DEF Undisturbed, Reports, LeftBehind, Reported, BoxReported
<1>4. steady[k] > ReportEvery + Latency + poll.since =>
        cache'[k] # None /\ cache'[k] <= ReportEvery + Latency + poll.since
  <2>1. SUFFICES ASSUME steady[k] > ReportEvery + Latency + poll.since
        PROVE cache'[k] # None /\ cache'[k] <= ReportEvery + Latency + poll.since
    OBVIOUS
  <2>2. /\ poll.wait \in Nat /\ poll.wait <= Latency /\ poll.since \in Nat
        /\ steady[k] \in Nat
    BY <1>1 DEF Numerals
  <2>3. steady[k] > ReportEvery + poll.wait
    BY <2>1, <2>2, Numbers
  <2>4. GoodFrames(k, ReportEvery + poll.wait)
    BY <1>1, <2>3 DEF Informed
  <2>5. cache'[k] \in Samples(k)
    BY <2>4 DEF Apply, Replaced, Samples, GoodFrames
  <2>6. PICK b \in Box : /\ poll.frames[b] # None /\ poll.frames[b].key = k
                         /\ cache'[k] = Stamped(poll.frames[b])
    BY <2>5 DEF Samples
  <2>7. poll.frames[b].age \in Nat /\ poll.frames[b].age <= ReportEvery + poll.wait
    BY <1>1, <2>4, <2>6 DEF GoodFrames, Numerals
  <2>8. cache'[k] \in Nat /\ cache'[k] <= ReportEvery + Latency + poll.since
    BY <2>2, <2>6, <2>7, Numbers DEF Stamped
  <2>9. QED
    BY <2>8, StatusNoneAssumption
<1>5. Informed(k)'
  BY <1>2, <1>4 DEF Informed, GoodCache
<1>6. QED
  BY <1>3, <1>5

LEMMA OlderByOne ==
  ASSUME NEW a \in Nat PROVE Older(a) \in Nat /\ Older(a) <= a + 1
BY Numbers DEF Older

\* What a frame is after a tick.
LEMMA OlderFrameIs ==
  ASSUME NEW f \in Frame \cup {None}, f # None => f.age \in Nat
  PROVE  /\ OlderFrame(f) # None <=> f # None
         /\ f # None => OlderFrame(f).key = f.key /\ OlderFrame(f).age <= f.age + 1
<1>1. CASE f = None
  BY <1>1 DEF OlderFrame
<1>2. CASE f # None
  <2>1. OlderFrame(f) = [f EXCEPT !.age = Older(f.age)] /\ f \in Frame
    BY <1>2 DEF OlderFrame
  <2>2. OlderFrame(f).key = f.key /\ OlderFrame(f).age = Older(f.age)
    BY <2>1 DEF Frame
  <2>3. f.age \in Age /\ f.key \in Key
    BY <2>1 DEF Frame
  <2>4. OlderFrame(f) \in [key : Key, age : Nat]
    BY <1>2, <2>1, <2>3, OlderByOne DEF Frame
  <2>5. OlderFrame(f) # None
    BY <2>4, StatusNoneAssumption
  <2>6. QED
    BY <1>2, <2>2, <2>5, OlderByOne
<1>3. QED
  BY <1>1, <1>2

LEMMA TickSteady ==
  ASSUME TypeOK, FetchClock, Numerals', SteadyInv, NEW k \in Key, Tick
  PROVE  Undisturbed(k)' /\ Reported(k)' /\ Informed(k)'
<1>1. /\ Undisturbed(k) /\ Reported(k) /\ Informed(k) /\ Numerals /\ Ticking
      /\ steady[k] \in Nat /\ steady'[k] = Steadier(k)
  BY TypesAre DEF SteadyInv, Numerals, Tick
<1>2. CASE ~Reports(k) \/ LeftBehind(k)
  BY <1>1, <1>2, Owed DEF Steadier
<1>3. CASE Reports(k) /\ ~LeftBehind(k)
  <2>1. steady'[k] \in Nat /\ steady'[k] <= steady[k] + 1
    BY <1>1, <1>3, OlderByOne DEF Steadier
  <2>2. \A b \in Box : /\ box'[b].key = box[b].key
                       /\ box[b].key = k => box'[b].since = box[b].since + 1
    <3>1. SUFFICES ASSUME NEW b \in Box
          PROVE /\ box'[b].key = box[b].key
                /\ box[b].key = k => box'[b].since = box[b].since + 1
      OBVIOUS
    <3>2. box'[b] = IF box[b].key = None THEN Off ELSE [box[b] EXCEPT !.since = @ + 1]
      BY DEF Tick
    <3>3. box[b] \in [key : Key \cup {None}, since : 0..ReportEvery]
      BY DEF TypeOK
    <3>4. QED
      BY <3>2, <3>3, StatusNoneAssumption DEF Off
  <2>3. \A b \in Box : /\ dock'[b] # None <=> dock[b] # None
                       /\ dock[b] # None => /\ dock'[b].key = dock[b].key
                                            /\ dock'[b].age <= dock[b].age + 1
    BY <1>1, OlderFrameIs DEF Tick, Numerals, TypeOK
  <2>4. /\ poll.up =>
             /\ poll'.busy = poll.busy
             /\ poll'.since = (IF poll.ticker THEN poll.since + 1 ELSE poll.since)
             /\ poll'.wait = (IF poll.busy THEN poll.wait + 1 ELSE poll.wait)
             /\ \A b \in Box : poll'.frames[b] = OlderFrame(poll.frames[b])
        /\ ~poll.up => poll' = poll
        /\ poll.busy => poll.up
        /\ missed' = missed
    BY <1>1 DEF Tick, Numerals, Poller, FetchClock
  <2>5. poll.up => \A b \in Box :
          /\ poll'.frames[b] # None <=> poll.frames[b] # None
          /\ poll.frames[b] # None =>
               /\ poll'.frames[b].key = poll.frames[b].key
               /\ poll'.frames[b].age <= poll.frames[b].age + 1
    BY <1>1, <2>4, OlderFrameIs DEF Numerals, TypeOK, Poller
  <2>6. Undisturbed(k)'
    BY <1>3, <2>2, <2>3 DEF Undisturbed, Reports, LeftBehind
  <2>7. Reported(k)'
    <3>1. SUFFICES ASSUME NEW b \in Box, box'[b].key = k
          PROVE \/ box'[b].since >= steady'[k]
                \/ dock'[b] # None /\ dock'[b].key = k /\ dock'[b].age <= box'[b].since
      BY DEF Reported, BoxReported
    <3>2. box[b].key = k /\ box'[b].since = box[b].since + 1 /\ box[b].since \in Nat
      BY <1>1, <2>2, <3>1 DEF Numerals
    <3>3. CASE box[b].since >= steady[k]
      BY <1>1, <2>1, <3>2, <3>3
    <3>4. CASE dock[b] # None /\ dock[b].key = k /\ dock[b].age <= box[b].since
      <4>1. dock'[b] # None /\ dock'[b].key = k /\ dock'[b].age <= dock[b].age + 1
        BY <2>3, <3>4
      <4>2. dock[b].age \in Nat /\ dock'[b].age \in Nat
        BY <1>1, <3>4, <4>1 DEF Numerals
      <4>3. QED
        BY <3>2, <3>4, <4>1, <4>2
    <3>5. QED
      BY <1>1, <3>2, <3>3, <3>4 DEF Reported, BoxReported
  <2>8. ASSUME NEW n \in Nat, poll.up, GoodFrames(k, n) PROVE GoodFrames(k, n + 1)'
    <3>1. \E b \in Box : poll'.frames[b] # None /\ poll'.frames[b].key = k
      BY <2>5, <2>8 DEF GoodFrames
    <3>2. ASSUME NEW b \in Box, poll'.frames[b] # None, poll'.frames[b].key = k
          PROVE  poll'.frames[b].age <= n + 1
      <4>1. /\ poll.frames[b] # None /\ poll.frames[b].key = k
            /\ poll'.frames[b].age <= poll.frames[b].age + 1
        BY <2>5, <2>8, <3>2
      <4>2. poll.frames[b].age \in Nat /\ poll'.frames[b].age \in Nat
        BY <1>1, <3>2, <4>1 DEF Numerals
      <4>3. poll.frames[b].age <= n
        BY <2>8, <4>1 DEF GoodFrames
      <4>4. QED
        BY <4>1, <4>2, <4>3
    <3>3. QED
      BY <3>1, <3>2 DEF GoodFrames
  <2>9. ASSUME NEW n \in Nat, GoodCache(k, n) PROVE GoodCache(k, n + 1)'
    <3>1. SUFFICES ASSUME steady'[k] > n + 1
          PROVE cache'[k] # None /\ cache'[k] <= n + 1
      BY DEF GoodCache
    <3>2. steady[k] > n
      BY <1>1, <2>1, <3>1
    <3>3. cache[k] # None /\ cache[k] \in Nat /\ cache[k] <= n
      BY <1>1, <2>9, <3>2 DEF GoodCache, Numerals
    <3>4. cache'[k] = Older(cache[k])
      BY <3>3 DEF Tick
    <3>5. cache'[k] \in Nat /\ cache'[k] <= n + 1
      BY <3>3, <3>4, OlderByOne
    <3>6. QED
      BY <3>5, StatusNoneAssumption
  <2>10. Informed(k)'
    <3>1. PICK m \in Nat : m = ReportEvery + poll.wait
      BY <1>1, Numbers DEF Numerals
    <3>2. PICK n \in Nat : n = ReportEvery + Latency + poll.since
      BY <1>1, Numbers DEF Numerals
    <3>3. PICK p \in Nat : p = ReportEvery + PollEvery + Latency + poll.since
      BY <1>1, Numbers DEF Numerals
    <3>4. ASSUME poll'.busy, steady'[k] > ReportEvery + poll'.wait
          PROVE  GoodFrames(k, ReportEvery + poll.wait)'
      <4>1. poll.busy /\ poll.up /\ poll'.wait = poll.wait + 1
        BY <2>4, <3>4
      <4>2. ReportEvery + poll'.wait = m + 1
        BY <1>1, <3>1, <4>1, Numbers DEF Numerals
      <4>3. steady[k] > m
        BY <1>1, <2>1, <3>4, <4>2
      <4>4. GoodFrames(k, m + 1)'
        BY <1>1, <2>8, <3>1, <4>1, <4>3 DEF Informed
      <4>5. QED
        BY <4>2, <4>4 DEF GoodFrames
    <3>5. ASSUME missed # Many
          PROVE  /\ poll'.busy = poll.busy
                 /\ ReportEvery + Latency + poll'.since = n + 1
                 /\ ReportEvery + PollEvery + Latency + poll'.since = p + 1
      BY <1>1, <2>4, <3>2, <3>3, <3>5, Numbers DEF Numerals, Ticking
    <3>6. ASSUME missed' = 0, ~poll'.busy
          PROVE  GoodCache(k, ReportEvery + Latency + poll.since)'
      <4>1. missed = 0 /\ missed # Many
        BY <2>4, <3>6, Numbers
      <4>2. GoodCache(k, n)
        BY <1>1, <3>2, <3>5, <3>6, <4>1 DEF Informed
      <4>3. GoodCache(k, n + 1)'
        BY <2>9, <4>2
      <4>4. QED
        BY <3>5, <4>1, <4>3 DEF GoodCache
    <3>7. ASSUME (missed' = 0 /\ poll'.busy) \/ (missed' = 1 /\ ~poll'.busy)
          PROVE  GoodCache(k, ReportEvery + PollEvery + Latency + poll.since)'
      <4>1. missed' = missed /\ missed # Many
        BY <2>4, <3>7, Numbers
      <4>2. GoodCache(k, p)
        BY <1>1, <3>3, <3>5, <3>7, <4>1 DEF Informed
      <4>3. GoodCache(k, p + 1)'
        BY <2>9, <4>2
      <4>4. QED
        BY <3>5, <4>1, <4>3 DEF GoodCache
    <3>8. QED
      BY <3>4, <3>6, <3>7 DEF Informed, GoodFrames, GoodCache
  <2>11. QED
    BY <2>6, <2>7, <2>10
<1>4. QED
  BY <1>2, <1>3

-------------------------------------------------------------------------------

LEMMA InitSteady == Init => SteadyInv
<1> SUFFICES ASSUME Init PROVE SteadyInv
  OBVIOUS
<1>1. missed = Many /\ ~poll.busy
  BY DEF Init, Down
<1>2. ASSUME NEW k \in Key PROVE Undisturbed(k) /\ Informed(k)
  BY <1>1, Numbers DEF Init, Undisturbed, Informed
<1>3. ASSUME NEW k \in Key PROVE Reported(k)
  BY StatusNoneAssumption DEF Init, Reported, BoxReported, Off
<1>4. QED
  BY <1>1, <1>2, <1>3 DEF SteadyInv, Ticking

LEMMA StepTicking == ASSUME TypeOK, Ticking, [Next]_vars PROVE Ticking'
<1>0. poll \in Poller
  BY DEF TypeOK
<1>1. CASE UNCHANGED <<poll, missed>>
  BY <1>1 DEF Ticking
<1>2. CASE StartService
  BY <1>2 DEF Ticking, StartService
<1>3. CASE Crash
  BY <1>3 DEF Ticking, Crash
<1>4. CASE Fetch
  BY <1>0, <1>4 DEF Ticking, Fetch, Poller
<1>5. CASE Apply \/ FetchFails
  BY <1>5 DEF Ticking, Apply, FetchFails, Fetched, Waiting
<1>6. CASE Tick
  BY <1>0, <1>6 DEF Ticking, Tick, Poller
<1>7. QED
  BY <1>1, <1>2, <1>3, <1>4, <1>5, <1>6
  DEF Next, vars, SwitchOn, SwitchOff, Report, ReportFails, Forget

LEMMA StepSteady ==
  ASSUME TypeOK, FetchClock, Numerals', SteadyInv, [Next]_vars PROVE SteadyInv'
<1>1. Ticking'
  BY StepTicking DEF SteadyInv
<1>2. ASSUME NEW k \in Key PROVE Undisturbed(k)' /\ Reported(k)' /\ Informed(k)'
  <2>1. CASE \E b \in Box : \/ \E n \in Key : SwitchOn(b, n)
                            \/ SwitchOff(b) \/ Report(b) \/ ReportFails(b) \/ Forget(b)
    BY <2>1, SwitchSteady, ReportSteady, LossSteady
  <2>2. CASE StartService \/ Crash \/ FetchFails
    BY <2>2, RestartSteady, FailSteady
  <2>3. CASE Fetch
    BY <2>3, FetchSteady
  <2>4. CASE Apply
    BY <2>4, ApplySteady
  <2>5. CASE Tick
    BY <2>5, TickSteady
  <2>6. CASE UNCHANGED vars
    <3>1. Undisturbed(k) /\ Reported(k) /\ Informed(k)
      BY DEF SteadyInv
    <3>2. QED
      BY <2>6, <3>1 DEF vars, Undisturbed, Reports, LeftBehind, Reported, BoxReported,
                        Informed, GoodFrames, GoodCache
  <2>7. QED
    BY <2>1, <2>2, <2>3, <2>4, <2>5, <2>6 DEF Next
<1>3. QED
  BY <1>1, <1>2 DEF SteadyInv

\* After twice the poll interval of steady reports the cache holds a sample of the
\* key that is within the limit, also while the next fetch is still under way, and
\* after it was missed.
LEMMA SteadyIsFresh ==
  ASSUME TypeOK, FetchClock, SteadyInv, ReportEvery + 2 * Latency <= PollEvery,
         NEW k \in Key, steady[k] = Old,
         \/ missed = 0
         \/ /\ missed = 1 /\ ~poll.busy
            /\ poll.since + ReportEvery + Latency <= PollEvery
  PROVE  Fresh(k)
<1>1. Numerals /\ Informed(k)
  BY TypesAre DEF SteadyInv
<1>2. /\ poll.since \in Nat /\ poll.since <= PollEvery
      /\ poll.busy => poll.since <= Latency
  BY <1>1, Numbers DEF Numerals, FetchClock
<1>3. cache[k] # None /\ cache[k] \in Nat /\ cache[k] <= FreshTTL
  <2>1. ASSUME NEW n \in Nat, n <= FreshTTL, GoodCache(k, n)
        PROVE  cache[k] # None /\ cache[k] \in Nat /\ cache[k] <= FreshTTL
    BY <1>1, <2>1, Numbers DEF GoodCache, Numerals
  <2>2. CASE missed = 0 /\ ~poll.busy
    <3>1. GoodCache(k, ReportEvery + Latency + poll.since)
      BY <1>1, <2>2 DEF Informed
    <3>2. /\ ReportEvery + Latency + poll.since \in Nat
          /\ ReportEvery + Latency + poll.since <= FreshTTL
      BY <1>2, Numbers
    <3>3. QED
      BY <2>1, <3>1, <3>2
  <2>3. CASE (missed = 0 /\ poll.busy) \/ (missed = 1 /\ ~poll.busy)
    <3>1. GoodCache(k, ReportEvery + PollEvery + Latency + poll.since)
      BY <1>1, <2>3 DEF Informed
    <3>2. /\ ReportEvery + PollEvery + Latency + poll.since \in Nat
          /\ ReportEvery + PollEvery + Latency + poll.since <= FreshTTL
      BY <1>2, <2>3, Numbers
    <3>3. QED
      BY <2>1, <3>1, <3>2
  <2>4. QED
    BY <2>2, <2>3
<1>4. Stale(cache[k]) = FALSE
  BY <1>3, Numbers DEF Stale
<1>5. Status(k, {}) = [source |-> "sample", stale |-> Stale(cache[k])]
  BY <1>3 DEF Status
<1>6. [source |-> "sample", stale |-> FALSE] # None
  <2>1. [source |-> "sample", stale |-> FALSE] \in Answer
    BY Zenon DEF Answer
  <2>2. None \notin Answer
    BY StatusNoneAssumption
  <2>3. QED
    BY <2>1, <2>2
<1>7. Status(k, {}) = [source |-> "sample", stale |-> FALSE]
  BY <1>4, <1>5, Zenon
<1>8. QED
  BY <1>6, <1>7 DEF Fresh

\* No false alarm: if a report interval and two fetches fit into the poll interval,
\* a hub that goes on reporting in time is shown as fresh (lookup), also while a
\* fetch is under way and after one was missed, for any number of boxes and keys,
\* and whether or not dock's time stamps are understood.
THEOREM ReportingHubFreshHolds == Spec => []ReportingHubFresh
<1>1. Init => SteadyInv
  BY InitSteady
<1>2. TypeOK => Numerals
  BY TypesAre
<1>3. TypeOK /\ FetchClock /\ Numerals' /\ SteadyInv /\ [Next]_vars => SteadyInv'
  BY StepSteady
<1>4. TypeOK /\ FetchClock /\ SteadyInv => ReportingHubFresh
  BY SteadyIsFresh DEF ReportingHubFresh
<1>5. QED
  BY <1>1, <1>2, <1>3, <1>4, Clocked, PTL DEF Spec

===============================================================================
