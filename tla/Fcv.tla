--------------------------------- MODULE Fcv ---------------------------------
(***************************************************************************)
(* Finishing a version move (fcv.rs).  A deploy moves the binaries of a    *)
(* set one member at a time; the data stay at the old                      *)
(* featureCompatibilityVersion until a primary's wrapper finds every       *)
(* member healthy and on the new series, and raises it.  A member whose    *)
(* binary is below the FCV cannot run.                                     *)
(*                                                                         *)
(* A round reads the FCV, then its own role and the members' health, then  *)
(* each peer's buildInfo, and only then sends the command; deployments,    *)
(* roll-backs, elections and crashes come in between.                      *)
(*                                                                         *)
(* External: the platform (which binary a container runs) and mongod.      *)
(* setFeatureCompatibilityVersion goes through a transition on the primary;*)
(* when the primary is lost in the middle, the FCV document names the      *)
(* target until somebody sends the command again.  Series are numbered.    *)
(*                                                                         *)
(* Faults are crashes, step-downs, roll-backs and failed reads.            *)
(***************************************************************************)
EXTENDS WatchedSet

CONSTANT Newest   \* the series the deployments end at

ASSUME NewestAssumption == Newest \in Nat \ {0}

VARIABLES
  binary,    \* the series of each node's image
  up,        \* the nodes whose mongod runs
  version,   \* the FCV
  target,    \* the FCV a transition is going to; 0: none
  driver,    \* the primary carrying the transition out
  fcvRound,  \* the round of each wrapper: what it is about to do
  ask,       \* the peers whose series it has yet to ask for
  rolled     \* history: rolled back after they had answered a round

setVars == <<binary, up, primary>>
fcv == <<version, target, driver>>
fcvVars == <<setVars, fcv, fcvRound, ask, rolled, faults>>

\* A round does not ask the member that carries it out.
AsksOthers == \A n \in Nodes : n \notin ask[n]

FcvTypeOK ==
  /\ binary \in [Nodes -> 1..Newest]
  /\ up \subseteq Nodes
  /\ primary \in up \cup {NoNode}
  /\ version \in 1..Newest
  /\ target \in {0} \cup (version + 1)..Newest
  /\ driver \in up \cup {NoNode} /\ (driver # NoNode => target # 0 /\ driver = primary)
  /\ fcvRound \in [Nodes -> {"sleep", "status", "peers"}]
  /\ ask \in [Nodes -> SUBSET Nodes] /\ AsksOthers
  /\ rolled \subseteq Nodes
  /\ faults \in 0..MaxFaults

FaultUnless(expected) == IF expected THEN UNCHANGED faults ELSE Fault
IsMajority(S) == 2 * Cardinality(S) > Cardinality(Nodes)

FcvInit ==
  /\ binary = [n \in Nodes |-> 1]
  /\ up = Nodes /\ primary \in Nodes
  /\ version = 1 /\ target = 0 /\ driver = NoNode
  /\ fcvRound = [n \in Nodes |-> "sleep"]
  /\ ask = [n \in Nodes |-> {}]
  /\ rolled = {} /\ faults = 0

-----------------------------------------------------------------------------
(* Containers and mongod. *)

\* The container stops, with what its wrapper was doing and its transition.
Down(n) ==
  /\ up' = up \ {n}
  /\ primary' = IF n = primary THEN NoNode ELSE primary
  /\ driver' = IF n = driver THEN NoNode ELSE driver
  /\ fcvRound' = [fcvRound EXCEPT ![n] = "sleep"]
  /\ ask' = [ask EXCEPT ![n] = {}]
  /\ UNCHANGED <<version, target>>

\* The next series: mongod N starts on an FCV of N or N-1 only, so the platform
\* waits for the FCV.
Deploy(n) ==
  /\ binary[n] < Newest /\ binary[n] <= version
  /\ binary' = [binary EXCEPT ![n] = @ + 1]
  /\ rolled' = rolled \ {n}
  /\ Down(n)
  /\ UNCHANGED faults

\* n has answered a round that is not over, or that has sent the command.
HasAnswered(n) == target # 0 \/ \E p \in Nodes \ {n} : fcvRound[p] = "peers" /\ n \notin ask[p]

RollBack(n) ==
  /\ binary[n] > 1 /\ binary[n] > version /\ Fault
  /\ binary' = [binary EXCEPT ![n] = @ - 1]
  /\ rolled' = IF HasAnswered(n) THEN rolled \cup {n} ELSE rolled
  /\ Down(n)

Crash(n) ==
  /\ n \in up /\ Fault
  /\ Down(n)
  /\ UNCHANGED <<binary, rolled>>

CanRun(n) == binary[n] >= version /\ binary[n] >= target

Boot(n) ==
  /\ n \notin up /\ CanRun(n)
  /\ up' = up \cup {n}
  /\ UNCHANGED <<binary, primary, fcv, fcvRound, ask, rolled, faults>>

Evict(n) ==
  /\ n \in up /\ ~CanRun(n)
  /\ Down(n)
  /\ UNCHANGED <<binary, rolled, faults>>

Promote(n) ==
  /\ primary = NoNode /\ n \in up /\ IsMajority(up)
  /\ primary' = n
  /\ UNCHANGED <<binary, up, fcv, fcvRound, ask, rolled, faults>>

\* Without a majority, or for reasons of its own: a transition stops half way.
StandDown ==
  /\ primary # NoNode
  /\ FaultUnless(~IsMajority(up))
  /\ primary' = NoNode /\ driver' = NoNode
  /\ UNCHANGED <<binary, up, version, target, fcvRound, ask, rolled>>

Complete ==
  /\ driver # NoNode
  /\ version' = target /\ target' = 0 /\ driver' = NoNode
  /\ UNCHANGED <<setVars, fcvRound, ask, rolled, faults>>

-----------------------------------------------------------------------------
(* A round (fcv::round, decide, raise). *)

Sleep(n) == fcvRound' = [fcvRound EXCEPT ![n] = "sleep"] /\ ask' = [ask EXCEPT ![n] = {}]

\* buildInfo and the FCV; of a transition under way, and of an FCV that is not
\* below the binary, nothing comes.
ReadFcv(n) ==
  /\ n \in up /\ fcvRound[n] = "sleep"
  /\ target = 0 /\ version < binary[n]
  /\ fcvRound' = [fcvRound EXCEPT ![n] = "status"]
  /\ UNCHANGED <<setVars, fcv, ask, rolled, faults>>

\* Broken: its own entry in the status is not left out.
ToAskAll(n) == Nodes

\* Every other member: one that is not healthy ends the round.
ToAsk(n) == Nodes \ {n}

\* hello and replSetGetStatus; health is as old as the last heartbeat.
ReadHealth(n) ==
  /\ fcvRound[n] = "status"
  /\ \/ /\ n = primary
        /\ FaultUnless(ToAsk(n) \subseteq up)
        /\ fcvRound' = [fcvRound EXCEPT ![n] = "peers"]
        /\ ask' = [ask EXCEPT ![n] = ToAsk(n)]
     \/ FaultUnless(n # primary \/ ~(ToAsk(n) \subseteq up)) /\ Sleep(n)
  /\ UNCHANGED <<setVars, fcv, rolled>>

\* Broken: any answer will do.
CurrentAnyway(n, m) == m \in up

\* Broken: a member on the same series is not current enough.
CurrentAbove(n, m) == m \in up /\ binary[m] > binary[n]

\* A peer that does not answer is unknown, never current.
Current(n, m) == m \in up /\ binary[m] >= binary[n]

AskPeer(n, m) ==
  /\ m \in ask[n]
  /\ \/ /\ Current(n, m)
        /\ ask' = [ask EXCEPT ![n] = @ \ {m}]
        /\ UNCHANGED <<fcvRound, faults>>
     \/ FaultUnless(~Current(n, m)) /\ Sleep(n)
  /\ UNCHANGED <<setVars, fcv, rolled>>

\* The command needs the primary; what is read back decides nothing but the log
\* and how soon the next round comes.
Raise(n) ==
  /\ fcvRound[n] = "peers" /\ ask[n] = {}
  /\ IF n = primary /\ driver = NoNode /\ binary[n] > version
     THEN target' = binary[n] /\ driver' = n
     ELSE UNCHANGED <<target, driver>>
  /\ Sleep(n)
  /\ UNCHANGED <<setVars, version, rolled, faults>>

-----------------------------------------------------------------------------
RoundStep(n) ==
  \/ ReadFcv(n) \/ ReadHealth(n) \/ Raise(n)
  \/ \E m \in Nodes : AskPeer(n, m)

FcvNext ==
  \/ StandDown \/ Complete
  \/ \E n \in Nodes :
       \/ Deploy(n) \/ RollBack(n) \/ Crash(n) \/ Boot(n) \/ Evict(n) \/ Promote(n)
       \/ RoundStep(n)

FcvSpec == FcvInit /\ [][FcvNext]_fcvVars

\* The wrappers' rounds go on and their reads succeed again, the platform brings
\* every member to the newest series and restarts what stopped, mongod elects
\* and completes.
FcvFairness ==
  /\ WF_fcvVars(Complete) /\ WF_fcvVars(StandDown /\ UNCHANGED faults)
  /\ WF_fcvVars(\E n \in Nodes : Promote(n))
  /\ \A n \in Nodes :
       /\ WF_fcvVars(Deploy(n)) /\ WF_fcvVars(Boot(n)) /\ WF_fcvVars(Evict(n))
       /\ WF_fcvVars(RoundStep(n) /\ UNCHANGED faults)

FcvFairSpec == FcvSpec /\ FcvFairness

-----------------------------------------------------------------------------
(* Properties. *)

\* No raise ever leaves a member, up or down, with a binary that cannot run,
\* short of one rolled back after it answered.
NobodyEvicted == \A n \in Nodes : CanRun(n) \/ n \in rolled

\* "A raised FCV evicts a member still on the old binary", which the check of
\* all members before the raise is there to prevent: none at all is evicted.
NobodyEvictedAtAll == \A n \in Nodes : CanRun(n)

\* A transition without a primary that carries it out.
Interrupted == target # 0 /\ driver = NoNode

\* "Raises FCV to the running release ... on every boot, whatever moved the
\* binary": through one release after another, elections, crashes and roll-backs
\* the FCV gets to the newest, unless a transition was interrupted.
FcvFollows == <>[](Interrupted \/ version = Newest)

\* "The next round retries anything short of the target": also a transition
\* that was interrupted.
FcvCompletes == <>[](version = Newest)
===============================================================================
