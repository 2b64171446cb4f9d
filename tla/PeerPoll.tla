------------------------------- MODULE PeerPoll -------------------------------
(***************************************************************************)
(* The boxes on top of Routing: each configures what the response to its   *)
(* register says, then polls for its peers (wgctl-refresh-linux, run by a  *)
(* systemd timer) and configures what the answer says.                     *)
(*                                                                         *)
(* A handler reads the caller's device row and its hub's row first, and    *)
(* everything else afterwards; poll[d] holds the two rows, so an answer    *)
(* may mix two states of the database.  Answers may be lost.               *)
(***************************************************************************)
EXTENDS Routing

CONSTANT MaxInFlight    \* requests of boxes in flight at one time (a bound)

VARIABLES
  conf,       \* the peers each box has configured, None before and after
  poll        \* the two rows a request in flight has read, None: no request

vars == <<hubs, devices, links, conf, poll>>

Room == Cardinality({d \in Dev : poll[d] # None}) < MaxInFlight

Read(row) == [row |-> row, hub |-> hubs'[row.hub]]

PollTypeOK ==
  /\ TypeOK
  /\ \A d \in Dev :
       /\ conf[d] = None \/ \A p \in conf[d] : p.peer \in Dev /\ p.routes \subseteq Route
       /\ poll[d] = None \/ (poll[d].row \in DevRow /\ poll[d].hub \in HubRow)

PollInit ==
  /\ Init
  /\ conf = [d \in Dev |-> None]
  /\ poll = [d \in Dev |-> None]

\* handleWGRegister: the rows are committed, the response is computed after.
Register(d) ==
  /\ Room
  /\ Enrol(d)
  /\ poll' = [poll EXCEPT ![d] = Read(devices'[d])]
  /\ UNCHANGED conf

\* A tick: the bearer of a live row passes, and a hub must be the bound one
\* (403 keeps the configuration).
StartPoll(d) ==
  /\ Room
  /\ conf[d] # None /\ poll[d] = None
  /\ Served(d)
  /\ UNCHANGED tables
  /\ poll' = [poll EXCEPT ![d] = Read(devices[d])]
  /\ UNCHANGED conf

\* The answer for the rows read, and whatever the other tables hold by now.
\* The first answer is register's; a hub then polls /v1/hub/peers.
Answer(d, row, hub) ==
  IF conf[d] # None /\ row.role = "hub" THEN HubRoster(d, row.hub)
                                        ELSE PeerList(d, row, hub)

\* Mutant: the renderer keeps the peers it had.
ConfigureMore(d) ==
  /\ poll[d] # None
  /\ conf' = [conf EXCEPT ![d] =
                (IF @ = None THEN {} ELSE @) \cup Answer(d, poll[d].row, poll[d].hub)]
  /\ poll' = [poll EXCEPT ![d] = None]
  /\ UNCHANGED tables

\* wgctl-render-linux rewrites the configuration.
Configure(d) ==
  /\ poll[d] # None
  /\ conf' = [conf EXCEPT ![d] = Answer(d, poll[d].row, poll[d].hub)]
  /\ poll' = [poll EXCEPT ![d] = None]
  /\ UNCHANGED tables

\* No answer, or not a 200: the configuration stays.
Lose(d) ==
  /\ poll[d] # None
  /\ poll' = [poll EXCEPT ![d] = None]
  /\ UNCHANGED <<hubs, devices, links, conf>>

\* Mutant: a 401 is taken for any other failure (curl -f's exit status).
KeepConf(d) ==
  /\ conf[d] # None /\ poll[d] = None
  /\ ~Live(d)
  /\ UNCHANGED vars

\* 401: the box takes the interface down and forgets it.
Evict(d) ==
  /\ conf[d] # None /\ poll[d] = None
  /\ ~Live(d)
  /\ conf' = [conf EXCEPT ![d] = None]
  /\ UNCHANGED <<hubs, devices, links, poll>>

PollNext ==
  \/ Change /\ UNCHANGED <<conf, poll>>
  \/ \E d \in Dev : Register(d) \/ StartPoll(d) \/ Configure(d) \/ Lose(d) \/ Evict(d)

PollSpec == PollInit /\ [][PollNext]_vars

\* The timer keeps firing, and not every answer is lost.
FairPollSpec ==
  /\ PollSpec
  /\ \A d \in Dev : /\ WF_vars(StartPoll(d))
                    /\ WF_vars(Evict(d))
                    /\ SF_vars(Configure(d))

-------------------------------------------------------------------------------
(* Properties.                                                               *)

\* However stale the rows an answer was computed from, no hub ever configures
\* 0.0.0.0/0 towards another hub, and no box towards a LAN peer: it would
\* swallow the hub's own traffic.
TunnelOnlyToOwnHub ==
  \A d \in Dev : conf[d] # None =>
    \A p \in conf[d] : Default \in p.routes =>
      /\ devices[d].role = "device"
      /\ devices[p.peer].role = "hub"
      /\ devices[p.peer].hub = devices[d].hub

\* What the box has configured is not what the control plane would tell it.
Outdated(d) == Served(d) /\ conf[d] # None /\ conf[d] # ConfNow(d)

\* A box's configuration follows the database: a withdrawn link, a hub that
\* left, a published link, a new neighbour all reach it, in spite of lost
\* answers and of answers computed from rows that changed meanwhile.
ConfigurationFollows == \A d \in Dev : Outdated(d) ~> ~Outdated(d)

\* A box that was taken out stops: its interface goes down.
RemovedBoxStops ==
  \A d \in Dev : (devices[d].st = "removed" /\ conf[d] # None) ~> conf[d] = None
===============================================================================
