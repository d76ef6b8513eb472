------------------------------ MODULE Switchover ------------------------------
(***************************************************************************)
(* Handing the primary over on purpose.  POST /switchover on a node freezes*)
(* the other secondaries, has the primary step down, waits until it is the *)
(* primary itself and lifts the freezes, all of it under one deadline      *)
(* (health_server::switchover); a wrapper told to stop has its own mongod  *)
(* step down first (process_manager::supervise, demote_on_shutdown).       *)
(* Several of these may run at once, on one replica set.                   *)
(*                                                                         *)
(* External: mongod.  A freeze and a finished step-down both keep a member *)
(* from standing for election for a while, and a freeze for 0 seconds lifts*)
(* either; a primary refuses to be frozen, and a second step-down while one*)
(* is under way; a step-down takes no writes while it waits, succeeds once *)
(* a majority and some other member hold all of them, and otherwise ends   *)
(* with ExceededTimeLimit; a member votes for nobody who is behind it.     *)
(*                                                                         *)
(* One Tick is ten seconds; timers count down and stop at zero.  Freezing *)
(* and unfreezing take less than that, and so does mongod's exit.          *)
(***************************************************************************)
EXTENDS Integers, FiniteSets

CONSTANTS
  Nodes,
  NoNode,         \* nobody is the primary
  First,          \* the primary at the start
  Away,           \* the member a deployment may have stopped by then
  FreezeTime,     \* FREEZE_SECS
  CatchupTime,    \* CATCHUP_SECS, of both callers
  Deadline,       \* SWITCHOVER_DEADLINE
  PromotionTime,  \* how long a switchover waits to be promoted
  DemoteTime,     \* STEPDOWN_SECS
  MaxRequests,    \* bound: switchovers asked for
  MaxFaults       \* bound: stops, crashes, lost calls, stale views

ASSUME NodeAssumption ==
  IsFiniteSet(Nodes) /\ NoNode \notin Nodes /\ {First, Away} \subseteq Nodes /\ First # Away
ASSUME TimeAssumption ==
  /\ {FreezeTime, CatchupTime, Deadline, PromotionTime, DemoteTime} \subseteq Nat \ {0}
  /\ FreezeTime <= DemoteTime
ASSUME BoundAssumption == MaxRequests \in Nat \ {0} /\ MaxFaults \in Nat

VARIABLES
  running,   \* the nodes whose container is up
  primary,   \* the writable primary
  frozen,    \* how long each mongod will not stand for election
  drain,     \* the step-down the primary is carrying out
  fresh,     \* the members that hold every write of the last primary
  handed,    \* history: the last primary left by a step-down it was asked for
  handler,   \* the switchover request each node is serving
  stop,      \* how far each wrapper is in shutting down
  requests, faults

mongodVars == <<running, primary, frozen, drain, fresh, handed>>
bounds == <<requests, faults>>
vars == <<mongodVars, handler, stop, bounds>>

NoDrain == [kind |-> "none", by |-> NoNode, hold |-> 0, left |-> 0]
Idle == [at |-> "idle", from |-> NoNode, todo |-> {}, left |-> 0, wait |-> 0]

\* A request freezes neither its own node, which is to win, nor the primary.
FreezesOthers == \A n \in Nodes : handler[n].todo \cap {n, handler[n].from} = {}

TypeOK ==
  /\ running \subseteq Nodes
  /\ primary \in running \cup {NoNode}
  /\ frozen \in [Nodes -> 0..DemoteTime]
  /\ drain \in [kind : {"none", "switchover", "shutdown"}, by : Nodes \cup {NoNode},
                hold : 0..DemoteTime, left : 0..CatchupTime]
  /\ drain.kind # "none" => primary # NoNode
  /\ fresh \in (SUBSET Nodes) \ {{}}
  /\ handed \in BOOLEAN
  /\ handler \in [Nodes ->
       [at : {"idle", "freezing", "draining", "waiting", "unfreezing"},
        from : Nodes \cup {NoNode}, todo : SUBSET Nodes,
        left : 0..Deadline, wait : 0..PromotionTime]]
  /\ FreezesOthers
  /\ stop \in [Nodes -> {"no", "demoting", "stopping"}]
  /\ requests \in 0..MaxRequests
  /\ faults \in 0..MaxFaults

Fault == faults < MaxFaults /\ faults' = faults + 1

\* A step that costs a fault unless it is what happens anyway.
FaultUnless(expected) == IF expected THEN UNCHANGED faults ELSE Fault

IsMajority(S) == 2 * Cardinality(S) > Cardinality(Nodes)
Longer(a, b) == IF a > b THEN a ELSE b
Served(n) == handler[n].at # "idle"

\* At rest; or in the middle of a deployment that had a switchover before it:
\* Away is down, the others but the primary have been told to stop.
Init ==
  /\ running \in {Nodes, Nodes \ {Away}}
  /\ primary = First
  /\ frozen = [n \in Nodes |-> 0]
  /\ drain = NoDrain
  /\ fresh = Nodes
  /\ handed = FALSE
  /\ handler = [n \in Nodes |-> Idle]
  /\ stop = [n \in Nodes |->
       IF running # Nodes /\ n \notin {First, Away} THEN "stopping" ELSE "no"]
  /\ requests = (IF running = Nodes THEN 0 ELSE 1) /\ faults = 0

-----------------------------------------------------------------------------
(* mongod. *)

Write ==
  /\ primary # NoNode /\ drain.kind = "none"
  /\ fresh # {primary}
  /\ fresh' = {primary}
  /\ UNCHANGED <<running, primary, frozen, drain, handed, handler, stop, bounds>>

Replicate(n) ==
  /\ n \in running \ fresh
  /\ fresh \cap running # {}
  /\ fresh' = fresh \cup {n}
  /\ UNCHANGED <<running, primary, frozen, drain, handed, handler, stop, bounds>>

\* A winner that is behind starts a history of its own.
Elect(n) ==
  /\ primary = NoNode
  /\ n \in running /\ frozen[n] = 0 /\ stop[n] # "stopping"
  /\ IsMajority(IF n \in fresh THEN running ELSE running \ fresh)
  /\ primary' = n
  /\ fresh' = IF n \in fresh THEN fresh ELSE {n}
  /\ handed' = FALSE
  /\ UNCHANGED <<running, frozen, drain, handler, stop, bounds>>

\* The primary has lost its majority.
StandDown ==
  /\ primary # NoNode /\ ~IsMajority(running)
  /\ primary' = NoNode /\ drain' = NoDrain /\ handed' = FALSE
  /\ UNCHANGED <<running, frozen, fresh, handler, stop, bounds>>

CaughtUp == IsMajority(fresh \cap running) /\ (fresh \cap running) \ {primary} # {}

\* Whoever asked for the step-down gets its answer, if it still listens.
Asker(n) == drain.kind = "switchover" /\ drain.by = n /\ handler[n].at = "draining"

StopsNext == IF drain.kind = "shutdown" THEN [stop EXCEPT ![drain.by] = "stopping"] ELSE stop

StepsDown ==
  /\ drain.kind # "none" /\ CaughtUp
  /\ primary' = NoNode
  /\ frozen' = [frozen EXCEPT ![primary] = Longer(@, drain.hold)]
  /\ handed' = TRUE
  /\ drain' = NoDrain
  /\ handler' = [n \in Nodes |->
       IF Asker(n) THEN [handler[n] EXCEPT !.at = "waiting", !.wait = PromotionTime]
       ELSE handler[n]]
  /\ stop' = StopsNext
  /\ UNCHANGED <<running, fresh, bounds>>

\* Broken: force: true steps down whether or not anybody has caught up.
CatchupExpiresForced ==
  /\ drain.kind # "none" /\ drain.left = 0
  /\ primary' = NoNode
  /\ frozen' = [frozen EXCEPT ![primary] = Longer(@, drain.hold)]
  /\ handed' = TRUE
  /\ drain' = NoDrain
  /\ handler' = [n \in Nodes |->
       IF Asker(n) THEN [handler[n] EXCEPT !.at = "waiting", !.wait = PromotionTime]
       ELSE handler[n]]
  /\ stop' = StopsNext
  /\ UNCHANGED <<running, fresh, bounds>>

\* ExceededTimeLimit: a switchover asks again, a shutdown goes on without.
CatchupExpires ==
  /\ drain.kind # "none" /\ drain.left = 0
  /\ drain' = NoDrain
  /\ handler' = [n \in Nodes |->
       IF Asker(n) THEN [handler[n] EXCEPT !.at = "freezing"] ELSE handler[n]]
  /\ stop' = StopsNext
  /\ UNCHANGED <<running, primary, frozen, fresh, handed, bounds>>

-----------------------------------------------------------------------------
(* POST /switchover. *)

\* Broken: the node does not leave itself out.
AllButPrimary(n, p) == Nodes \ {p}

\* The members a request freezes, and lifts the freezes of.
Others(n, p) == Nodes \ {n, p}

\* The primary as the node sees it, which it may no longer be.
Ask(n) ==
  /\ n \in running \ {primary} /\ ~Served(n)
  /\ requests < MaxRequests /\ requests' = requests + 1
  /\ \E p \in Nodes \ {n} :
       /\ FaultUnless(p = primary)
       /\ handler' = [handler EXCEPT ![n] =
            [Idle EXCEPT !.at = "freezing", !.from = p, !.todo = Others(n, p), !.left = Deadline]]
  /\ UNCHANGED <<mongodVars, stop>>

Obeys(m) == m \in running \ {primary}

\* Broken: frozen for no longer than the catch-up window.
FreezeForCatchup == CatchupTime

FreezeFor == FreezeTime

\* A secondary that cannot be frozen is passed over: "it may win the election".
FreezeOne(n, m) ==
  /\ handler[n].at = "freezing" /\ m \in handler[n].todo
  /\ \/ /\ Obeys(m)
        /\ frozen' = [frozen EXCEPT ![m] = Longer(@, FreezeFor)]
        /\ handler' = [handler EXCEPT ![n].todo = @ \ {m}]
        /\ UNCHANGED faults
     \/ /\ FaultUnless(~Obeys(m))
        /\ handler' = [handler EXCEPT ![n].todo = @ \ {m}]
        /\ UNCHANGED frozen
  /\ UNCHANGED <<running, primary, drain, fresh, handed, stop, requests>>

ReadyToAsk(n) == handler[n].at = "freezing" /\ handler[n].todo = {}

AskStepDown(n) ==
  /\ ReadyToAsk(n)
  /\ handler[n].from = primary /\ drain.kind = "none"
  /\ drain' = [kind |-> "switchover", by |-> n, hold |-> FreezeFor, left |-> CatchupTime]
  /\ handler' = [handler EXCEPT ![n].at = "draining"]
  /\ UNCHANGED <<running, primary, frozen, fresh, handed, stop, bounds>>

\* The freezes still to be lifted; after the last one the request is answered.
Lifting(n, todo) ==
  [handler EXCEPT ![n] =
     IF todo = {} THEN Idle ELSE [@ EXCEPT !.at = "unfreezing", !.todo = todo, !.wait = 0]]

Unfreezing(n) == Lifting(n, Others(n, handler[n].from))

\* Not the primary (any more), busy stepping down, or no answer in time: the
\* step-down may go on at the primary all the same.
StepDownRefused(n) ==
  /\ \/ ReadyToAsk(n) /\ FaultUnless(handler[n].from # primary \/ drain.kind # "none")
     \/ handler[n].at = "draining" /\ FaultUnless(~Asker(n))
  /\ handler' = Unfreezing(n)
  /\ UNCHANGED <<mongodVars, stop, requests>>

\* Promoted, or not within the wait.
StopWaiting(n) ==
  /\ handler[n].at = "waiting"
  /\ primary = n \/ handler[n].wait = 0
  /\ handler' = Unfreezing(n)
  /\ UNCHANGED <<mongodVars, stop, bounds>>

\* freeze(0), whoever the freeze was for.
UnfreezeOne(n, m) ==
  /\ handler[n].at = "unfreezing" /\ m \in handler[n].todo
  /\ \/ Obeys(m) /\ frozen' = [frozen EXCEPT ![m] = 0] /\ UNCHANGED faults
     \/ FaultUnless(~Obeys(m)) /\ UNCHANGED frozen
  /\ handler' = Lifting(n, handler[n].todo \ {m})
  /\ UNCHANGED <<running, primary, drain, fresh, handed, stop, requests>>

\* Broken: no deadline over the whole request.
DueNever(n) == FALSE

Due(n) == Served(n) /\ handler[n].left = 0

\* The deadline, or a caller that hangs up, cancels the request where it is.
Cancel(n) ==
  /\ Served(n)
  /\ FaultUnless(Due(n))
  /\ handler' = [handler EXCEPT ![n] = Idle]
  /\ UNCHANGED <<mongodVars, stop, requests>>

-----------------------------------------------------------------------------
(* A planned stop, a crash, a start. *)

\* SIGTERM: the primary is asked to step down; whatever is refused, the
\* shutdown proceeds.
Terminate(n) ==
  /\ n \in running /\ stop[n] = "no"
  /\ Fault
  /\ IF n = primary /\ drain.kind = "none"
     THEN /\ drain' = [kind |-> "shutdown", by |-> n, hold |-> DemoteTime, left |-> CatchupTime]
          /\ stop' = [stop EXCEPT ![n] = "demoting"]
     ELSE stop' = [stop EXCEPT ![n] = "stopping"] /\ UNCHANGED drain
  /\ UNCHANGED <<running, primary, frozen, fresh, handed, handler, requests>>

\* The primary was gone before it could step down.
DemoteFails(n) ==
  /\ stop[n] = "demoting" /\ drain.kind # "shutdown"
  /\ stop' = [stop EXCEPT ![n] = "stopping"]
  /\ UNCHANGED <<mongodVars, handler, bounds>>

Down(n) ==
  /\ running' = running \ {n}
  /\ frozen' = [frozen EXCEPT ![n] = 0]
  /\ handler' = [handler EXCEPT ![n] = Idle]
  /\ stop' = [stop EXCEPT ![n] = "no"]
  /\ IF n = primary THEN primary' = NoNode /\ drain' = NoDrain /\ handed' = FALSE
     ELSE UNCHANGED <<primary, drain, handed>>
  /\ UNCHANGED <<fresh, requests>>

Exit(n) == stop[n] = "stopping" /\ Down(n) /\ UNCHANGED faults

Crash(n) == n \in running /\ Fault /\ Down(n)

Start(n) ==
  /\ n \notin running
  /\ running' = running \cup {n}
  /\ UNCHANGED <<primary, frozen, drain, fresh, handed, handler, stop, bounds>>

-----------------------------------------------------------------------------
Less(t) == IF t = 0 THEN 0 ELSE t - 1

\* Nothing that is due waits for a Tick.
Tick ==
  /\ drain.kind # "none" => drain.left > 0
  /\ \A n \in Nodes :
       /\ ~Due(n) /\ stop[n] # "stopping"
       /\ handler[n].at = "waiting" => handler[n].wait > 0 /\ primary # n
  /\ frozen' = [n \in Nodes |-> Less(frozen[n])]
  /\ drain' = [drain EXCEPT !.left = Less(@)]
  /\ handler' = [n \in Nodes |-> [handler[n] EXCEPT !.left = Less(@), !.wait = Less(@)]]
  /\ <<frozen, drain, handler>>' # <<frozen, drain, handler>>
  /\ UNCHANGED <<running, primary, fresh, handed, stop, bounds>>

SwitchoverStep(n) ==
  \/ AskStepDown(n) \/ StepDownRefused(n) \/ StopWaiting(n) \/ Cancel(n)
  \/ \E m \in Nodes : FreezeOne(n, m) \/ UnfreezeOne(n, m)

StopStep(n) == DemoteFails(n) \/ Exit(n)

Next ==
  \/ Write \/ StandDown \/ StepsDown \/ CatchupExpires \/ Tick
  \/ \E n \in Nodes :
       \/ Replicate(n) \/ Elect(n)
       \/ Ask(n) \/ SwitchoverStep(n)
       \/ Terminate(n) \/ StopStep(n) \/ Crash(n) \/ Start(n)

Spec == Init /\ [][Next]_vars

\* The runtime runs its tasks and timers, mongod answers and elects, the
\* platform restarts what stopped.  Nothing says that a member catches up.
Fairness ==
  /\ WF_vars(Tick) /\ WF_vars(StandDown) /\ WF_vars(StepsDown \/ CatchupExpires)
  /\ \A n \in Nodes :
       WF_vars((SwitchoverStep(n) \/ StopStep(n)) /\ UNCHANGED faults)
  /\ WF_vars(\E n \in Nodes : Elect(n))
  /\ WF_vars(\E n \in Nodes : Start(n))

FairSpec == Spec /\ Fairness

-----------------------------------------------------------------------------
(* Properties. *)

\* "Freeze every other electable secondary ... and let the one unfrozen
\* secondary win": of a switchover that nothing disturbs, only its own node can
\* be the winner, until its freezes are as old as they get (they run out while
\* a step-down is retried).
HandsToTarget ==
  [][\A n \in Nodes :
       /\ requests = 1 /\ faults = 0
       /\ handler[n].at = "waiting" /\ primary = NoNode /\ primary' \notin {NoNode, n}
       => Deadline - handler[n].left >= FreezeTime]_vars

\* "So the handoff loses nothing": after a step-down that a switchover or a
\* shutdown asked for, whoever is elected holds every write taken before it,
\* also when the old primary, or a frozen member, is gone by then.
HandoffKeepsWrites ==
  [][handed /\ primary = NoNode /\ primary' # NoNode => primary' \in fresh]_vars

\* Freezes, cancelled requests, switchovers against each other and planned
\* stops end with a primary, every request answered and every stop carried out.
Settles ==
  <>[](primary # NoNode /\ \A n \in Nodes : ~Served(n) /\ stop[n] = "no")

===============================================================================
