------------------------------ MODULE Bootstrap ------------------------------
(***************************************************************************)
(* How nodes with no replica set config become members of one set:         *)
(* rs::orchestrate, rs::decide and rs::GoneTracker of mongo-wrapper.       *)
(*                                                                         *)
(* Every node runs the same loop.  A round asks every declared peer for    *)
(* its /rs/state (the answers land one by one), probes the name of each    *)
(* peer that did not answer, decides, and then issues at most one command, *)
(* to its own mongod (initiate) or to the primary a peer named (join).     *)
(* Answers, decision and command are separate steps, so every one of them  *)
(* may be stale by the time it is used; containers stop and start between  *)
(* any two of them.                                                        *)
(*                                                                         *)
(* Time is discrete.  Clocks are ages that stop growing at the only value  *)
(* the code compares them with.  A round's queries and probes last at most *)
(* AskTime, the round with its command at most RoundTime.  Nothing in the  *)
(* code makes a round shorter than the dwell, and nothing here does: what  *)
(* depends on it is stated of the rounds that are.                         *)
(*                                                                         *)
(* Not here: a node that boots with a config no longer listing it          *)
(* (Membership), the keyfile and password a boot runs with, and the        *)
(* reporting on the way.                                                   *)
(***************************************************************************)
EXTENDS Integers, FiniteSets

CONSTANTS
  Node,       \* the nodes RS_SEEDS declares, the same list on every node
  Rank,       \* position of each node in that list
  Adopted,    \* nodes started on a volume that already holds user data
  Deleted,    \* declared nodes whose service no longer exists
  Dwell,      \* bootstrap_dwell_seconds
  GoneDwell,  \* peer_gone_dwell_seconds
  AskTime,    \* longest time from a round's first query to its decision
  RoundTime,  \* longest time from its first query to the end of its command
  SetIds,     \* identities of the sets a behaviour may form
  MaxFaults   \* stops, replaced volumes, lost answers and failed commands

ASSUME NodeAssumption ==
  /\ IsFiniteSet(Node)
  /\ Adopted \subseteq Node
  /\ Deleted \subseteq Node

\* A hostname has one position in the list.
ASSUME RankAssumption ==
  /\ Rank \in [Node -> Nat]
  /\ \A m, n \in Node : Rank[m] = Rank[n] => m = n

ASSUME TimeAssumption ==
  /\ Dwell \in Nat
  /\ GoneDwell \in Nat
  /\ RoundTime \in Nat
  /\ AskTime \in 0..RoundTime

ASSUME BoundAssumption == MaxFaults \in Nat

NoSet == "no set"
ASSUME SetIdAssumption == NoSet \notin SetIds

Stopped == -1   \* a clock that is not running (an Option<Instant> of None)

VARIABLES
  phase,     \* where the node's process is
  volume,    \* what the node's volume holds: survives restarts
  config,    \* the set whose config is in the node's local database: survives
  hasData,   \* has_data, read from the data directory at boot
  answers,   \* answers[n][p]: what peer p answered in n's round
  stable,    \* age of stable_since
  goneFor,   \* goneFor[n][p]: age of gone_since of p in n's GoneTracker
  flight,    \* how long the round has been in flight
  away,      \* how long the container has been stopped
  stray,     \* stray[n]: a replSetInitiate n gave up on still runs in its mongod
  members,   \* members[s]: the nodes set s's config lists, {} before it forms
  holds,     \* holds[s]: what the data of set s is
  lapses,    \* history: in what irregular ways replSetInitiate has landed
  faults     \* faults so far

nodeVars == <<phase, volume, config, hasData>>
roundVars == <<answers, flight>>
clockVars == <<stable, goneFor>>
setVars == <<members, holds>>
landVars == <<stray, lapses>>
vars == <<nodeVars, roundVars, clockVars, setVars, landVars, away, faults>>

Phase == {"down", "starting", "idle", "asking", "joining", "initiating", "member"}
InFlight == {"asking", "joining", "initiating"}
Serving == {"idle", "asking", "joining", "initiating", "member"}

\* PeerStanding, with the query still out as Pending.
Standing == {"Pending", "InSet", "NoSetData", "NoSetBlank", "Unknown"}
NoSetStanding == {"NoSetData", "NoSetBlank"}

\* A command landed so late that a peer may have waited out the dwell on what it
\* heard before; or it was decided on with a peer waived.
Lapse == {"late", "waiver"}

\* A volume is empty, initialised by the image's entrypoint, or holds user data.
Volume == {"empty", "blank", "user"}

Peers(n) == Node \ {n}

TypeOK ==
  /\ phase \in [Node -> Phase]
  /\ volume \in [Node -> Volume]
  /\ config \in [Node -> SetIds \cup {NoSet}]
  /\ hasData \in [Node -> BOOLEAN]
  /\ answers \in [Node -> [Node -> Standing]]
  /\ stable \in [Node -> -1..Dwell]
  /\ goneFor \in [Node -> [Node -> -1..GoneDwell]]
  /\ flight \in [Node -> 0..RoundTime]
  /\ away \in [Node -> 0..AskTime + 1]
  /\ stray \in [Node -> BOOLEAN]
  /\ lapses \in SUBSET Lapse
  /\ members \in [SetIds -> SUBSET Node]
  /\ holds \in [SetIds -> Volume]
  /\ faults \in 0..MaxFaults

NoAnswers == [p \in Node |-> "Pending"]
NoClocks == [p \in Node |-> Stopped]

Init ==
  /\ phase = [n \in Node |-> "down"]
  /\ volume = [n \in Node |-> IF n \in Adopted THEN "user" ELSE "empty"]
  /\ config = [n \in Node |-> NoSet]
  /\ hasData = [n \in Node |-> FALSE]
  /\ answers = [n \in Node |-> NoAnswers]
  /\ stable = [n \in Node |-> Stopped]
  /\ goneFor = [n \in Node |-> NoClocks]
  /\ flight = [n \in Node |-> 0]
  /\ away = [n \in Node |-> 0]
  /\ members = [s \in SetIds |-> {}]
  /\ holds = [s \in SetIds |-> "empty"]
  /\ stray = [n \in Node |-> FALSE]
  /\ lapses = {}
  /\ faults = 0

\* A fault is always counted, and there are at most MaxFaults of them.
Fault == faults < MaxFaults /\ faults' = faults + 1

-----------------------------------------------------------------------------
(* The container: boot, stop, and the volume under it. *)

\* main: has_data is decided from the files in the data directory, before
\* anything is spawned.
Boot(n) ==
  /\ phase[n] = "down"
  /\ n \notin Deleted
  /\ phase' = [phase EXCEPT ![n] = "starting"]
  /\ hasData' = [hasData EXCEPT ![n] = volume[n] # "empty"]
  /\ away' = [away EXCEPT ![n] = 0]
  /\ UNCHANGED <<volume, config, roundVars, clockVars, setVars, landVars, faults>>

\* The entrypoint initialises an empty data directory on a temporary server.
Initialise(n) ==
  /\ phase[n] = "starting"
  /\ volume[n] = "empty"
  /\ volume' = [volume EXCEPT ![n] = "blank"]
  /\ UNCHANGED <<phase, config, hasData, roundVars, clockVars, setVars, landVars, away, faults>>

\* wait_for_final_mongod returns: mongod answers with replication enabled.
Ready(n) ==
  /\ phase[n] = "starting"
  /\ volume[n] # "empty"
  /\ phase' = [phase EXCEPT ![n] = "idle"]
  /\ UNCHANGED <<volume, config, hasData, roundVars, clockVars, setVars, landVars, away, faults>>

\* The container stops: the loop's clocks and the round in flight are lost.
Stop(n) ==
  /\ phase[n] # "down"
  /\ Fault
  /\ phase' = [phase EXCEPT ![n] = "down"]
  /\ answers' = [answers EXCEPT ![n] = NoAnswers]
  /\ stable' = [stable EXCEPT ![n] = Stopped]
  /\ goneFor' = [goneFor EXCEPT ![n] = NoClocks]
  /\ flight' = [flight EXCEPT ![n] = 0]
  /\ stray' = [stray EXCEPT ![n] = FALSE]
  /\ UNCHANGED <<volume, config, hasData, setVars, lapses, away>>

\* The node is redeployed on a new volume, which takes longer than the questions
\* of a round.
Replace(n) ==
  /\ phase[n] = "down"
  /\ away[n] > AskTime
  /\ Fault
  /\ volume' = [volume EXCEPT ![n] = "empty"]
  /\ config' = [config EXCEPT ![n] = NoSet]
  /\ UNCHANGED <<phase, hasData, roundVars, clockVars, setVars, landVars, away>>

-----------------------------------------------------------------------------
(* One round of orchestrate. *)

EndRound(n) ==
  /\ answers' = [answers EXCEPT ![n] = NoAnswers]
  /\ flight' = [flight EXCEPT ![n] = 0]

\* replSetGetStatus: a node with a config that lists it leaves the loop.  An
\* error sleeps and starts over with every clock as it was, which is no step.
LeaveLoop(n) ==
  /\ phase[n] = "idle"
  /\ config[n] # NoSet
  /\ phase' = [phase EXCEPT ![n] = "member"]
  /\ UNCHANGED <<volume, config, hasData, roundVars, clockVars, setVars, landVars, away, faults>>

Ask(n) ==
  /\ phase[n] = "idle"
  /\ config[n] = NoSet
  /\ phase' = [phase EXCEPT ![n] = "asking"]
  /\ UNCHANGED <<volume, config, hasData, roundVars, clockVars, setVars, landVars, away, faults>>

\* Broken: has_data and seed order, without looking at the set.
StandingOfVolume(p) == IF hasData[p] THEN "NoSetData" ELSE "NoSetBlank"

\* local_rs_state and standing_of: what a serving peer's answer says of it.
StandingOf(p) ==
  IF config[p] # NoSet THEN "InSet"
  ELSE IF hasData[p] THEN "NoSetData" ELSE "NoSetBlank"

Reply(n, p) ==
  /\ phase[n] = "asking"
  /\ answers[n][p] = "Pending"
  /\ phase[p] \in Serving
  /\ answers' = [answers EXCEPT ![n][p] = StandingOf(p)]
  /\ UNCHANGED <<nodeVars, flight, clockVars, setVars, landVars, away, faults>>

\* A timeout, a refused connection or a 503 from a mongod that is not ready.
\* From a peer that is serving it is a fault of the network.
NoReply(n, p) ==
  /\ phase[n] = "asking"
  /\ answers[n][p] = "Pending"
  /\ IF phase[p] \in Serving THEN Fault ELSE UNCHANGED faults
  /\ answers' = [answers EXCEPT ![n][p] = "Unknown"]
  /\ UNCHANGED <<nodeVars, flight, clockVars, setVars, landVars, away>>

\* The names the resolver may answer NXDOMAIN for: no live container behind
\* them, or one that is not registered yet.
Unregistered(p) == phase[p] \in {"down", "starting"}

\* GoneTracker after this round: absent peers keep or start their clock, every
\* other peer's clock stops (observe, observe_reachable).
Observed(n, absent) ==
  [p \in Node |-> IF p \notin absent THEN Stopped
                  ELSE IF goneFor[n][p] = Stopped THEN 0
                  ELSE goneFor[n][p]]

\* Broken: no peer is ever waived.
WaivedNever(n, absent) == {}

\* is_waived.
Waived(n, absent) == {p \in absent : Observed(n, absent)[p] >= GoneDwell}

\* Broken: seed order alone.
PeerWinsBySeedOrder(n, p) ==
  answers[n][p] \in NoSetStanding /\ Rank[p] < Rank[n]

\* The tie-break of decide: user data first, seed order second.
PeerWins(n, p) ==
  LET data == answers[n][p] = "NoSetData" IN
  /\ answers[n][p] \in NoSetStanding
  /\ \/ data /\ ~hasData[n]
     \/ data = hasData[n] /\ Rank[p] < Rank[n]

\* decide, over the peers a round counts.
JoinExisting(n, counted) == \E p \in counted : answers[n][p] = "InSet"

SafeToInitiate(n, counted) ==
  \A p \in counted : answers[n][p] \in NoSetStanding /\ ~PeerWins(n, p)

\* The round has every answer and probes the names of the silent peers; the
\* resolver failing to prove a name gone that is gone is a fault.
Probe(n, absent) ==
  LET silent == {p \in Peers(n) : answers[n][p] = "Unknown"} IN
  /\ phase[n] = "asking"
  /\ \A p \in Peers(n) : answers[n][p] # "Pending"
  /\ absent \subseteq {p \in silent : Unregistered(p)}
  /\ IF \E p \in silent \ absent : phase[p] = "down" THEN Fault ELSE UNCHANGED faults
  /\ goneFor' = [goneFor EXCEPT ![n] = Observed(n, absent)]
  /\ UNCHANGED <<volume, config, hasData, setVars, landVars, away>>

Counted(n, absent) == Peers(n) \ Waived(n, absent)

DecideJoin(n, absent) ==
  /\ Probe(n, absent)
  /\ JoinExisting(n, Counted(n, absent))
  /\ stable' = [stable EXCEPT ![n] = Stopped]
  /\ phase' = [phase EXCEPT ![n] = "joining"]
  /\ UNCHANGED roundVars

\* DeferTo and Undecidable.
DecideWait(n, absent) ==
  /\ Probe(n, absent)
  /\ ~JoinExisting(n, Counted(n, absent))
  /\ ~SafeToInitiate(n, Counted(n, absent))
  /\ stable' = [stable EXCEPT ![n] = Stopped]
  /\ phase' = [phase EXCEPT ![n] = "idle"]
  /\ EndRound(n)

\* How long the decision has held: stable_since.get_or_insert(now).
Held(n) == IF stable[n] = Stopped THEN 0 ELSE stable[n]

DecideHold(n, absent) ==
  /\ Probe(n, absent)
  /\ SafeToInitiate(n, Counted(n, absent))
  /\ Held(n) < Dwell
  /\ stable' = [stable EXCEPT ![n] = Held(n)]
  /\ phase' = [phase EXCEPT ![n] = "idle"]
  /\ EndRound(n)

\* Broken: acts in the round that first finds it safe.
DecideInitiateAtOnce(n, absent) ==
  /\ Probe(n, absent)
  /\ SafeToInitiate(n, Counted(n, absent))
  /\ stable' = [stable EXCEPT ![n] = Held(n)]
  /\ phase' = [phase EXCEPT ![n] = "initiating"]
  /\ UNCHANGED roundVars

DecideInitiate(n, absent) ==
  /\ Probe(n, absent)
  /\ SafeToInitiate(n, Counted(n, absent))
  /\ Held(n) >= Dwell
  /\ stable' = [stable EXCEPT ![n] = Held(n)]
  /\ phase' = [phase EXCEPT ![n] = "initiating"]
  /\ UNCHANGED roundVars

\* No peer was left out of the round n is in.
NoneWaived(n) == \A p \in Peers(n) : answers[n][p] # "Unknown"

\* mongod on n becomes a set of one.
Found(n, s) ==
  /\ config[n] = NoSet
  /\ members[s] = {}
  /\ config' = [config EXCEPT ![n] = s]
  /\ members' = [members EXCEPT ![s] = {n}]
  /\ holds' = [holds EXCEPT ![s] = volume[n]]

\* What is irregular about the command of n's round landing now: a peer that
\* starts to ask as late as this may be done asking when the dwell is over.
LapsesNow(n) ==
  (IF flight[n] + AskTime < Dwell THEN {} ELSE {"late"})
    \cup (IF NoneWaived(n) THEN {} ELSE {"waiver"})

\* rs_initiate on the local mongod: a set of one, unless a config was
\* delivered meanwhile (ALREADY_INITIALIZED).
Initiate(n) ==
  /\ phase[n] = "initiating"
  /\ \/ /\ config[n] # NoSet
        /\ UNCHANGED <<config, setVars, lapses>>
     \/ /\ \E s \in SetIds : Found(n, s)
        /\ lapses' = lapses \cup LapsesNow(n)
  /\ stable' = [stable EXCEPT ![n] = Stopped]
  /\ phase' = [phase EXCEPT ![n] = "idle"]
  /\ EndRound(n)
  /\ UNCHANGED <<volume, hasData, goneFor, stray, away, faults>>

\* A replSetInitiate whose round gave it up completes after all.
LandStray(n) ==
  /\ stray[n]
  /\ \E s \in SetIds : Found(n, s)
  /\ stray' = [stray EXCEPT ![n] = FALSE]
  /\ lapses' = lapses \cup {"late"}
  /\ UNCHANGED <<phase, volume, hasData, roundVars, clockVars, away, faults>>

\* A primary: a member that is up, with a majority of its set's config behind it.
Leads(m) ==
  LET s == config[m]
      voters == {v \in members[s] : phase[v] \in Serving /\ config[v] = s} IN
  /\ phase[m] \in Serving
  /\ s # NoSet
  /\ m \in members[s]
  /\ 2 * Cardinality(voters) > Cardinality(members[s])

\* add_self_through_primary: nothing to do when the config already names n.
Join(n, m) ==
  /\ phase[n] = "joining"
  /\ Leads(m)
  /\ members' = [members EXCEPT ![config[m]] = @ \cup {n}]
  /\ phase' = [phase EXCEPT ![n] = "idle"]
  /\ EndRound(n)
  /\ UNCHANGED <<volume, config, hasData, clockVars, holds, landVars, away, faults>>

\* The command of the round fails; the loop logs it and comes round again.  A
\* replSetInitiate that was given up after RECONFIG_TIMEOUT may still be running.
\* With no primary known there is no command to join with, and that is no fault.
CommandFails(n) ==
  /\ \/ /\ phase[n] = "initiating" /\ Fault
        /\ stray' \in {stray, [stray EXCEPT ![n] = TRUE]}
     \/ /\ phase[n] = "joining" /\ UNCHANGED stray
        /\ IF \E m \in Peers(n) : Leads(m) THEN Fault ELSE UNCHANGED faults
  /\ stable' = [stable EXCEPT ![n] = Stopped]
  /\ phase' = [phase EXCEPT ![n] = "idle"]
  /\ EndRound(n)
  /\ UNCHANGED <<volume, config, hasData, goneFor, setVars, lapses, away>>

\* A member's heartbeat delivers the config to a node it names, and initial
\* sync replaces what the node's volume holds.
Deliver(n, m) ==
  /\ phase[n] \in Serving
  /\ config[n] = NoSet
  /\ phase[m] \in Serving
  /\ config[m] # NoSet
  /\ n \in members[config[m]]
  /\ config' = [config EXCEPT ![n] = config[m]]
  /\ volume' = [volume EXCEPT ![n] = holds[config[m]]]
  /\ UNCHANGED <<phase, hasData, roundVars, clockVars, setVars, landVars, away, faults>>

-----------------------------------------------------------------------------
Advance(age, cap) == IF age = Stopped \/ age = cap THEN age ELSE age + 1

\* Broken: queries and probes have no timeout.
TickNoTimeout ==
  /\ \A n \in Node : phase[n] \in {"joining", "initiating"} => flight[n] < RoundTime
  /\ flight' = [n \in Node |-> IF phase[n] \in InFlight THEN flight[n] + 1 ELSE 0]
  /\ stable' = [n \in Node |-> Advance(stable[n], Dwell)]
  /\ goneFor' = [n \in Node |-> [p \in Node |-> Advance(goneFor[n][p], GoneDwell)]]
  /\ away' = [n \in Node |->
                IF phase[n] = "down" THEN Advance(away[n], AskTime + 1) ELSE 0]
  /\ UNCHANGED <<nodeVars, answers, setVars, landVars, faults>>

\* One unit of time; no round outlasts its bounds.
Tick ==
  /\ \A n \in Node :
       /\ phase[n] = "asking" => flight[n] < AskTime
       /\ phase[n] \in {"joining", "initiating"} => flight[n] < RoundTime
  /\ flight' = [n \in Node |-> IF phase[n] \in InFlight THEN flight[n] + 1 ELSE 0]
  /\ stable' = [n \in Node |-> Advance(stable[n], Dwell)]
  /\ goneFor' = [n \in Node |-> [p \in Node |-> Advance(goneFor[n][p], GoneDwell)]]
  /\ away' = [n \in Node |->
                IF phase[n] = "down" THEN Advance(away[n], AskTime + 1) ELSE 0]
  /\ UNCHANGED <<nodeVars, answers, setVars, landVars, faults>>

Decide(n) ==
  \E absent \in SUBSET Peers(n) :
    \/ DecideJoin(n, absent)
    \/ DecideWait(n, absent)
    \/ DecideHold(n, absent)
    \/ DecideInitiate(n, absent)

NodeStep(n) ==
  \/ Boot(n) \/ Initialise(n) \/ Ready(n)
  \/ LeaveLoop(n) \/ Ask(n)
  \/ Decide(n)
  \/ Initiate(n)
  \/ CommandFails(n)
  \/ \E p \in Peers(n) : Reply(n, p) \/ NoReply(n, p) \/ Join(n, p) \/ Deliver(n, p)

Next ==
  \/ \E n \in Node : NodeStep(n) \/ LandStray(n) \/ Stop(n) \/ Replace(n)
  \/ Tick

Spec == Init /\ [][Next]_vars

\* The runtime keeps scheduling the loop, time passes, and mongod keeps
\* sending heartbeats.
Fairness ==
  /\ WF_vars(Tick)
  /\ \A n \in Node :
       /\ WF_vars(NodeStep(n))
       /\ \A m \in Node : WF_vars(Deliver(n, m))

FairSpec == Spec /\ Fairness

-----------------------------------------------------------------------------
(* Properties. *)

\* n is about to initiate, in a round that has not outlasted the dwell.  The code
\* does not see to that: the default dwell is 15 s, and replSetInitiate may take 30 s.
Initiating(n) == phase[n] = "initiating" /\ flight[n] < Dwell

\* The module doc's "exactly one wins", of rounds that have not outlasted the
\* dwell: two nodes are never committed to replSetInitiate at once, although each
\* decides alone, on answers of its own, and whatever was waived, restarted or
\* landed late before.
OneInitiator == \A m, n \in Node : Initiating(m) /\ Initiating(n) => m = n

\* The same, of every round.
OneInitiatorEver ==
  \A m, n \in Node : phase[m] = "initiating" /\ phase[n] = "initiating" => m = n

\* And its command will found a set, on an answer from every peer.
Founding(n) == Initiating(n) /\ config[n] = NoSet /\ NoneWaived(n)

\* Until a replSetInitiate lands late, a node about to initiate on answers from
\* every peer does so beside no set: no peer has come to hold one since it
\* answered, by a waiver of its own or from someone else's set.
InitiatesAlone ==
  "late" \notin lapses =>
    \A n \in Node : Founding(n) => \A p \in Peers(n) : config[p] = NoSet

\* has_data tells user data from the dataset a first boot initialises.
Truthful(n) == hasData[n] => volume[n] = "user"

\* "The node holding user data initiates": until a replSetInitiate lands late, a
\* node about to initiate without user data turns nobody's user data into a
\* joiner's.  It is about a node whose own flag is truthful.
UserDataInitiates ==
  "late" \notin lapses =>
    \A n \in Node : Founding(n) /\ Truthful(n)
      => volume[n] = "user" \/ \A p \in Peers(n) : volume[p] # "user"

\* The same, of what the code's has_data is: a dataset is on the volume.
UserDataAlwaysInitiates ==
  "late" \notin lapses =>
    \A n \in Node : Founding(n)
      => volume[n] = "user" \/ \A p \in Peers(n) : volume[p] # "user"

\* What forming a set promises, whoever decides on it: see SetFormation.
Formation == INSTANCE SetFormation
  WITH Nodes <- Node, Sets <- SetIds, irregular <- lapses # {}

\* Every set is founded where no node holds a config, in one command that landed
\* in time on answers from everyone, up to the first that did not; nodes are
\* listed by a set and take its config only from there.
FormsOneSet == Formation!Spec

\* Up to then there are never two sets with a live config, and whoever holds a
\* set's config is listed by it.
OneSet == Formation!OneSet

\* Once faults stop, every node that still exists becomes a member and stays one.
EveryoneJoins == <>[](\A n \in Node \ Deleted : phase[n] = "member")

=============================================================================
