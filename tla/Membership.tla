------------------------------ MODULE Membership ------------------------------
(***************************************************************************)
(* How the membership of a formed set changes: a node the config does not  *)
(* list adds itself through the primary (rs::add_self_through_primary), and*)
(* the primary drops a member whose name is provably gone (rs::prune_round *)
(* of rs::member_duties).  Both read a whole config, edit it and write it  *)
(* back with the next version (mongo::next_config); the read and the write *)
(* are separate steps, and elections, restarts and other writes come       *)
(* between them.                                                           *)
(*                                                                         *)
(* mongod's side is external: elections, the checks of a safe reconfig,    *)
(* and heartbeats that carry configs and terms.                            *)
(*                                                                         *)
(* Time is discrete: one Tick is one POLL_INTERVAL, in which each primary  *)
(* has one prune round and mongod notices that a majority is gone.  Clocks *)
(* are ages that stop at PruneDwell.  A name the resolver proves gone has  *)
(* no live container behind it (dns_probe), so the age of its absence is   *)
(* the truth a GoneTracker estimates.                                      *)
(***************************************************************************)
EXTENDS Integers, FiniteSets

CONSTANTS
  Node,        \* every host that is or may become a member
  Founders,    \* the members the set starts with
  Away,        \* founders that start with no container behind their name
  Deleted,     \* those of them whose service no longer exists
  PruneDwell,  \* member_prune_dwell_seconds
  MaxFaults    \* stops, lost names, step-downs, wrong views, failed calls

ASSUME NodeAssumption ==
  /\ IsFiniteSet(Node)
  /\ Founders \subseteq Node
  /\ Away \subseteq Founders
  /\ Deleted \subseteq Away
  /\ Founders \ Away # {}

ASSUME BoundAssumption == PruneDwell \in Nat /\ MaxFaults \in Nat

Stopped == -1   \* a clock that is not running
Fresh == -3     \* of absent: a name registered in this interval, and not yet for a whole one

VARIABLES
  loop,     \* the wrapper: "down", "seeking" (orchestrate), "member" (member_duties)
  cfg,      \* the config in the node's local database: survives restarts
  term,     \* the term the node has heard of: survives restarts
  leads,    \* the nodes whose mongod says it is the writable primary
  absent,   \* age of the absence of the node's name; negative while registered
  goneFor,  \* goneFor[n][m]: age of gone_since of m in n's GoneTracker
  round,    \* the prune round of n: members still to visit, those seen unhealthy
  polled,   \* the nodes whose prune round of this interval has begun
  task,     \* the membership change n is carrying out
  faults    \* faults so far

netVars == <<cfg, term, leads>>
wrapVars == <<goneFor, round, polled, task>>
vars == <<loop, netVars, absent, wrapVars, faults>>

NoConfig == [term |-> 0, version |-> 0, members |-> {}]
NoRound == [left |-> {}, sick |-> {}]

\* op: what is being done, about: to whom, at: through which primary,
\* config: what was read, back: the member returned since its name was probed.
NoTask(n) == [op |-> "none", about |-> n, at |-> n, config |-> NoConfig, back |-> FALSE]

Config == [term : Nat, version : Nat, members : SUBSET Node]
Round == [left : SUBSET Node, sick : SUBSET Node]
Task == [op : {"none", "add", "drop"}, about : Node, at : Node,
         config : Config, back : BOOLEAN]

\* A primary's round visits the other members.
JudgesOthers == \A n \in Node : n \notin round[n].left

TypeOK ==
  /\ loop \in [Node -> {"down", "seeking", "member"}]
  /\ cfg \in [Node -> Config]
  /\ term \in [Node -> Nat]
  /\ leads \subseteq Node
  /\ absent \in [Node -> Fresh..PruneDwell]
  /\ goneFor \in [Node -> [Node -> -1..PruneDwell]]
  /\ round \in [Node -> Round]
  /\ JudgesOthers
  /\ polled \subseteq Node
  /\ task \in [Node -> Task]
  /\ faults \in 0..MaxFaults

Up(n) == loop[n] # "down"
Registered(n) == absent[n] < 0
Listed(n) == n \in cfg[n].members
IsMajority(S, M) == 2 * Cardinality(S \cap M) > Cardinality(M)
Newer(c, d) == c.term > d.term \/ (c.term = d.term /\ c.version > d.version)
Fault == faults < MaxFaults /\ faults' = faults + 1

\* A step that costs a fault unless it is what happens anyway.
FaultUnless(expected) == IF expected THEN UNCHANGED faults ELSE Fault

Init ==
  /\ loop = [n \in Node |-> IF n \in Away THEN "down"
                            ELSE IF n \in Founders THEN "member" ELSE "seeking"]
  /\ cfg = [n \in Node |->
              IF n \in Founders THEN [term |-> 1, version |-> 1, members |-> Founders]
              ELSE NoConfig]
  /\ term = [n \in Node |-> IF n \in Founders THEN 1 ELSE 0]
  /\ \E n \in Founders \ Away : leads = {n}
  /\ \E lost \in SUBSET Away :
       /\ Deleted \subseteq lost
       /\ absent = [n \in Node |-> IF n \in lost THEN 0 ELSE Stopped]
  /\ goneFor = [n \in Node |-> [m \in Node |-> Stopped]]
  /\ round = [n \in Node |-> NoRound]
  /\ polled = {}
  /\ task = [n \in Node |-> NoTask(n)]
  /\ faults = 0

-----------------------------------------------------------------------------
(* Containers and names. *)

\* The node is back, on its own volume and under its name.
Boot(n) ==
  /\ loop[n] = "down"
  /\ n \notin Deleted
  /\ loop' = [loop EXCEPT ![n] = "seeking"]
  /\ absent' = [absent EXCEPT ![n] = IF Registered(n) THEN @ ELSE Fresh]
  /\ task' = [p \in Node |-> [task[p] EXCEPT !.back = @ \/ task[p].about = n]]
  /\ UNCHANGED <<netVars, goneFor, round, polled, faults>>

\* The container stops; what the wrapper holds in memory is lost.
Stop(n) ==
  /\ Up(n)
  /\ Fault
  /\ loop' = [loop EXCEPT ![n] = "down"]
  /\ leads' = leads \ {n}
  /\ goneFor' = [goneFor EXCEPT ![n] = [m \in Node |-> Stopped]]
  /\ round' = [round EXCEPT ![n] = NoRound]
  /\ task' = [task EXCEPT ![n] = NoTask(n)]
  /\ UNCHANGED <<cfg, term, absent, polled>>

\* A redeploy: no container is registered behind the name, which stood for a
\* whole interval at least.
LoseName(n) ==
  /\ ~Up(n)
  /\ absent[n] = Stopped
  /\ Fault
  /\ absent' = [absent EXCEPT ![n] = 0]
  /\ UNCHANGED <<loop, netVars, wrapVars>>

-----------------------------------------------------------------------------
(* mongod. *)

\* A listed node wins an election with the votes of a majority of its config,
\* none of whom holds a newer config; a leader among the reachable prevents it.
\* The new term is later than any the voters have heard of.
Elect(n) ==
  \E voters \in SUBSET {m \in cfg[n].members : Up(m)} : \E last \in voters :
    LET newTerm == term[last] + 1 IN
    /\ \A m \in voters : term[m] <= term[last]
    /\ n \in voters
    /\ Listed(n)
    /\ IsMajority(voters, cfg[n].members)
    /\ \A m \in voters : ~Newer(cfg[m], cfg[n])
    /\ voters \cap leads = {}
    /\ FaultUnless(leads = {})
    /\ leads' = leads \cup {n}
    /\ term' = [m \in Node |-> IF m \in voters THEN newTerm ELSE term[m]]
    /\ cfg' = [cfg EXCEPT ![n].term = newTerm]
    /\ UNCHANGED <<loop, absent, wrapVars>>

\* For want of a majority, or for any reason of its own.
StepDown(n) ==
  /\ n \in leads
  /\ FaultUnless(~IsMajority({m \in Node : Up(m)}, cfg[n].members))
  /\ leads' = leads \ {n}
  /\ UNCHANGED <<loop, cfg, term, absent, wrapVars>>

\* n hears from m: a later term ends n's leadership, a newer config replaces n's.
Heartbeat(n, m) ==
  /\ Up(n) /\ Up(m)
  /\ n \in cfg[m].members \/ m \in cfg[n].members
  /\ term[m] > term[n] \/ Newer(cfg[m], cfg[n])
  /\ term' = [term EXCEPT ![n] = IF term[m] > @ THEN term[m] ELSE @]
  /\ leads' = IF term[m] > term[n] THEN leads \ {n} ELSE leads
  /\ cfg' = [cfg EXCEPT ![n] =
               IF Newer(cfg[m], cfg[n]) /\ n \notin leads' THEN cfg[m] ELSE @]
  /\ UNCHANGED <<loop, absent, wrapVars, faults>>

\* What a safe reconfig asks of the primary it is sent to: its config is
\* committed, the new one is later, differs by one member at most, and keeps
\* the primary and a majority that is up.
Accepts(p, version, ms) ==
  LET old == cfg[p]
      holders == {m \in Node : cfg[m] = old} IN
  /\ Up(p)
  /\ p \in leads \cap ms
  /\ version > old.version
  /\ IsMajority(holders, old.members)
  /\ Cardinality((ms \ old.members) \cup (old.members \ ms)) <= 1
  /\ IsMajority({m \in Node : Up(m)}, ms)

-----------------------------------------------------------------------------
(* A node the config does not list: orchestrate, JoinExisting. *)

\* replSetGetStatus in any state but REMOVED leaves the loop for good.
LeaveLoop(n) ==
  /\ loop[n] = "seeking"
  /\ Listed(n)
  /\ task[n].op = "none"
  /\ loop' = [loop EXCEPT ![n] = "member"]
  /\ UNCHANGED <<netVars, absent, wrapVars, faults>>

\* Broken: waits for a config that lists it, as a node that joins for the
\* first time may when the config already names it.
ReadToJoinUnlessRemoved(n, p) ==
  /\ loop[n] = "seeking"
  /\ cfg[n] = NoConfig
  /\ task[n].op = "none"
  /\ p \in leads
  /\ n \notin cfg[p].members
  /\ task' = [task EXCEPT ![n] =
                [NoTask(n) EXCEPT !.op = "add", !.at = p, !.config = cfg[p]]]
  /\ UNCHANGED <<loop, netVars, absent, goneFor, round, polled, faults>>

\* The primary a peer named is asked for its config; when that names n already
\* there is nothing to write.
ReadToJoin(n, p) ==
  /\ loop[n] = "seeking"
  /\ ~Listed(n)
  /\ task[n].op = "none"
  /\ p \in leads
  /\ n \notin cfg[p].members
  /\ task' = [task EXCEPT ![n] =
                [NoTask(n) EXCEPT !.op = "add", !.at = p, !.config = cfg[p]]]
  /\ UNCHANGED <<loop, netVars, absent, goneFor, round, polled, faults>>

-----------------------------------------------------------------------------
(* The primary: prune_round. *)

\* rs_status: the members of the config, and those with no heartbeat.
PollDue(n) ==
  /\ loop[n] = "member"
  /\ n \in leads \ polled
  /\ round[n].left = {} /\ task[n].op = "none"
  /\ polled' = polled \cup {n}

\* Broken: the primary is among the members it judges.
SampleAll(n) ==
  /\ PollDue(n)
  /\ \E sick \in SUBSET (cfg[n].members \ {n}) :
       /\ FaultUnless(sick = {m \in cfg[n].members : ~Up(m)})
       /\ round' = [round EXCEPT ![n] = [left |-> cfg[n].members, sick |-> sick]]
  /\ UNCHANGED <<loop, netVars, absent, goneFor, task>>

Sample(n) ==
  /\ PollDue(n)
  /\ \E sick \in SUBSET (cfg[n].members \ {n}) :
       /\ FaultUnless(sick = {m \in cfg[n].members : ~Up(m)})
       /\ round' = [round EXCEPT ![n] = [left |-> cfg[n].members \ {n}, sick |-> sick]]
  /\ UNCHANGED <<loop, netVars, absent, goneFor, task>>

\* rs_status fails: the round observes nothing.
SampleFails(n) ==
  /\ PollDue(n)
  /\ Fault
  /\ UNCHANGED <<loop, netVars, absent, goneFor, round, task>>

Rest(n, m) == [round EXCEPT ![n].left = @ \ {m}]

\* A member with a heartbeat is present (observe_reachable).
VisitHealthy(n, m) ==
  /\ m \in round[n].left \ round[n].sick
  /\ task[n].op = "none"
  /\ goneFor' = [goneFor EXCEPT ![n][m] = Stopped]
  /\ round' = Rest(n, m)
  /\ UNCHANGED <<loop, netVars, absent, polled, task, faults>>

\* Broken: the clock restarts with every proof.
ObservedAfresh(n, m, gone) == IF ~gone THEN Stopped ELSE 0

\* observe: the first proof starts the clock, a later one leaves it running.
Observed(n, m, gone) ==
  IF ~gone THEN Stopped
  ELSE IF goneFor[n][m] = Stopped THEN 0
  ELSE goneFor[n][m]

\* Broken: a failure to resolve is proof.
ProvesByFailure(m, gone) == TRUE

\* dns_probe: only NXDOMAIN is proof, and only a name nobody holds gets it.
Proves(m, gone) == gone => ~Registered(m)

\* The name of a member without a heartbeat is probed; one gone for the whole
\* dwell is to be dropped (is_waived).
VisitSick(n, m, gone) ==
  LET age == Observed(n, m, gone) IN
  /\ m \in round[n].left \cap round[n].sick
  /\ task[n].op = "none"
  /\ Proves(m, gone)
  /\ FaultUnless(gone \/ Registered(m))
  /\ goneFor' = [goneFor EXCEPT ![n][m] = age]
  /\ round' = Rest(n, m)
  /\ task' = [task EXCEPT ![n] =
                IF age >= PruneDwell THEN [NoTask(n) EXCEPT !.op = "drop", !.about = m] ELSE @]
  /\ UNCHANGED <<loop, netVars, absent, polled>>

\* rs_config on the local mongod; when it fails the round is over.
ReadToPrune(n) ==
  /\ task[n].op = "drop"
  /\ task[n].config = NoConfig
  /\ \/ /\ task' = [task EXCEPT ![n].config = cfg[n]]
        /\ UNCHANGED <<round, faults>>
     \/ /\ Fault
        /\ task' = [task EXCEPT ![n] = NoTask(n)]
        /\ round' = [round EXCEPT ![n] = NoRound]
  /\ UNCHANGED <<loop, netVars, absent, goneFor, polled>>

-----------------------------------------------------------------------------
(* The write: next_config and rs_reconfig. *)

NextVersion(n) == task[n].config.version + 1

Edited(n) ==
  IF task[n].op = "add" THEN task[n].config.members \cup {n}
  ELSE task[n].config.members \ {task[n].about}

\* Broken: force: true, which any node obeys and no version stops.
InstallsForced(n) ==
  LET p == task[n].at
      after == [term |-> term[p], version |-> cfg[p].version + 1, members |-> Edited(n)] IN
  /\ task[n].config # NoConfig
  /\ Up(p)
  /\ cfg' = [cfg EXCEPT ![p] = after]

Installs(n) ==
  LET p == task[n].at IN
  /\ task[n].config # NoConfig
  /\ Accepts(p, NextVersion(n), Edited(n))
  /\ cfg' = [cfg EXCEPT ![p] =
               [term |-> term[p], version |-> NextVersion(n), members |-> Edited(n)]]

\* The write lands; a prune resets the member's clock and ends the round.
Write(n) ==
  /\ Installs(n)
  /\ task' = [task EXCEPT ![n] = NoTask(n)]
  /\ round' = [round EXCEPT ![n] = NoRound]
  /\ goneFor' = IF task[n].op = "drop"
                THEN [goneFor EXCEPT ![n][task[n].about] = Stopped] ELSE goneFor
  /\ UNCHANGED <<loop, term, leads, absent, polled, faults>>

\* The write lands and its answer is lost: to the wrapper it has failed, and a
\* prune round goes on with the next member.
WriteUnanswered(n) ==
  /\ Installs(n)
  /\ Fault
  /\ task' = [task EXCEPT ![n] = NoTask(n)]
  /\ UNCHANGED <<loop, term, leads, absent, goneFor, round, polled>>

\* mongod refuses the write, or it never arrives; a config that cannot be built
\* ends the same way.
WriteRefused(n) ==
  /\ task[n].config # NoConfig
  /\ FaultUnless(~Accepts(task[n].at, NextVersion(n), Edited(n)))
  /\ task' = [task EXCEPT ![n] = NoTask(n)]
  /\ UNCHANGED <<loop, netVars, absent, goneFor, round, polled>>

-----------------------------------------------------------------------------
Advance(age) == IF age = Stopped \/ age = PruneDwell THEN age ELSE age + 1

\* The next poll: rounds are over, every primary has had its own, and one that
\* cannot reach a majority has stepped down.
Tick ==
  /\ \A n \in Node : round[n].left = {}
  /\ \A p \in leads :
       /\ p \in polled \/ task[p].op # "none"
       /\ IsMajority({m \in Node : Up(m)}, cfg[p].members)
  /\ polled' = {}
  /\ absent' = [n \in Node |-> Advance(absent[n])]
  /\ goneFor' = [n \in Node |-> [m \in Node |-> Advance(goneFor[n][m])]]
  /\ UNCHANGED <<loop, netVars, round, task, faults>>

WrapperStep(n) ==
  \/ LeaveLoop(n)
  \/ Sample(n) \/ SampleFails(n) \/ ReadToPrune(n)
  \/ Write(n) \/ WriteUnanswered(n) \/ WriteRefused(n)
  \/ \E m \in Node :
       ReadToJoin(n, m) \/ VisitHealthy(n, m) \/ \E gone \in BOOLEAN : VisitSick(n, m, gone)

Next ==
  \/ \E n \in Node :
       \/ WrapperStep(n)
       \/ Boot(n) \/ Stop(n) \/ LoseName(n)
       \/ Elect(n) \/ StepDown(n)
       \/ \E m \in Node : Heartbeat(n, m)
  \/ Tick

Spec == Init /\ [][Next]_vars

\* The runtime keeps scheduling the loops, the platform restarts what stopped,
\* and mongod keeps electing and sending heartbeats.
Fairness ==
  /\ WF_vars(Tick)
  /\ \A n \in Node :
       /\ WF_vars(WrapperStep(n)) /\ WF_vars(Boot(n)) /\ WF_vars(Elect(n))
       /\ WF_vars(StepDown(n) /\ UNCHANGED faults)
       /\ \A m \in Node : WF_vars(Heartbeat(n, m))

FairSpec == Spec /\ Fairness

-----------------------------------------------------------------------------
(* Properties. *)

\* "A crash, a partition, a redeploy window keeps the member": whoever is about
\* to be dropped is down, or came back after its name was proved gone.
PruneSparesTheLiving ==
  \A n \in Node :
    task[n].op = "drop" => ~Up(task[n].about) \/ task[n].back

\* A config a primary installs differs from the one it replaces as its author
\* meant it to: by the author, or by the member whose name it proved gone.  It is
\* about configs read in the term they are written in: next_config leaves the
\* term out, so mongod does not refuse an edit of a config read before an
\* election, and what the election rolled back may come back with it.
EditsAsMeant ==
  [][\A p \in leads \cap leads' :
       cfg'[p].version # cfg[p].version =>
         \E n \in Node :
           /\ task[n].op # "none" /\ task'[n].op = "none" /\ task[n].at = p
           /\ task[n].config.term = cfg[p].term =>
                cfg'[p].members =
                  IF task[n].op = "add" THEN cfg[p].members \cup {n}
                  ELSE cfg[p].members \ {task[n].about}]_vars

\* A node that seeks to be added, or added again, gets there once faults stop,
\* however the writes of others and elections get in its way.
SeekersJoin == <>[](\A n \in Node \ Deleted : loop[n] = "member")

\* A deleted member does not stay a ghost that votes against elections: in the
\* end no primary's config lists it.
DeletedLeave == <>[](\A p \in leads : cfg[p].members \cap Deleted = {})

\* "The proof must hold uninterrupted": a member about to be dropped that has
\* not come back since the probe has had no name for the whole dwell.
PruneIsProven ==
  \A n \in Node :
    task[n].op = "drop" /\ ~task[n].back => absent[task[n].about] = PruneDwell

\* "A wrong prune is undone by the member itself": once faults stop, every node
\* that still exists ends up in the config.
PruneIsUndone == <>[](\A p \in leads : Node \ Deleted \subseteq cfg[p].members)

=============================================================================
