--------------------------- MODULE SwitchoverProofs ---------------------------
(***************************************************************************)
(* Proofs about Switchover, for any replica set, any times and any number  *)
(* of switchovers, stops and crashes: a handoff loses no write, and of a   *)
(* switchover that nothing disturbs only its own node can be the winner.   *)
(***************************************************************************)
EXTENDS Switchover, FiniteSetTheorems, TLAPS

-----------------------------------------------------------------------------
(* The inductive invariants.                                               *)

\* A request is about a member, so it never finds that the primary it asks to
\* step down is nobody.
Asked == \A n \in Nodes : Served(n) => handler[n].from \in Nodes

TypeInv == TypeOK /\ Asked

\* After a handoff there is no primary yet, and a majority of all members holds
\* every write, whoever of them is running.
Handed == handed => primary = NoNode /\ IsMajority(fresh)

HandoffInv == TypeInv /\ Handed

\* What the freezes of n's switchover have left of their time, and what the
\* switchover has used of its own, make up the whole freeze.
Held(n, m) == frozen[m] + (Deadline - handler[n].left) >= FreezeTime

\* At each stage the members that could win in n's place are held: those it has
\* passed while it freezes, in the end the one that stepped down as well.
Holding(n) ==
  LET h == handler[n] IN
  /\ h.at = "freezing" =>
       /\ drain.kind = "none" /\ primary = h.from
       /\ \A m \in Nodes \ (h.todo \cup {n, h.from}) : Held(n, m)
  /\ h.at = "draining" =>
       /\ drain.kind = "switchover" /\ drain.by = n /\ drain.hold = FreezeTime
       /\ primary = h.from
       /\ \A m \in Nodes \ {n, h.from} : Held(n, m)
  /\ h.at = "waiting" => \A m \in Nodes \ {n} : Held(n, m)

\* Everybody is up and nobody has been told to stop.
AllUp == running = Nodes /\ \A m \in Nodes : stop[m] = "no"

\* Before the only switchover, and during it, as long as nothing goes wrong.
Undisturbed ==
  faults = 0 =>
    /\ drain.kind # "shutdown"
    /\ requests = 0 => AllUp /\ drain.kind = "none" /\ \A n \in Nodes : ~Served(n)
    /\ requests = 1 =>
         \A n \in Nodes : Served(n) =>
           AllUp /\ Holding(n) /\ \A m \in Nodes \ {n} : ~Served(m)

TargetInv == TypeInv /\ Undisturbed

-----------------------------------------------------------------------------
(* Majorities.                                                             *)

LEMMA MajoritiesMeet ==
  ASSUME NEW S \in SUBSET Nodes, NEW T \in SUBSET Nodes, IsMajority(S), IsMajority(T)
  PROVE  S \cap T # {}
<1>1. Cardinality(S) \in Nat /\ Cardinality(T) \in Nat /\ Cardinality(Nodes) \in Nat
  BY NodeAssumption, FS_Subset, FS_CardinalityType
<1>2. Cardinality(S) + Cardinality(T) > Cardinality(Nodes)
  BY <1>1 DEF IsMajority
<1>3. QED
  BY <1>2, NodeAssumption, FS_MajoritiesIntersect

LEMMA MajorityGrows ==
  ASSUME NEW T \in SUBSET Nodes, NEW S \in SUBSET T, IsMajority(S)
  PROVE  IsMajority(T)
<1>1. IsFiniteSet(T)
  BY NodeAssumption, FS_Subset
<1>2. /\ Cardinality(S) \in Nat /\ Cardinality(T) \in Nat /\ Cardinality(Nodes) \in Nat
      /\ Cardinality(S) <= Cardinality(T)
  BY <1>1, NodeAssumption, FS_Subset, FS_CardinalityType
<1>3. QED
  BY <1>2 DEF IsMajority

LEMMA AllAreMajority == IsMajority(Nodes)
<1>1. Cardinality(Nodes) \in Nat /\ Cardinality(Nodes) # 0
  BY NodeAssumption, FS_CardinalityType, FS_EmptySet
<1>2. QED
  BY <1>1 DEF IsMajority

-----------------------------------------------------------------------------
(* Type correctness.                                                       *)

\* The states of a request and of a step-down, as TypeOK has them.
Request ==
  [at : {"idle", "freezing", "draining", "waiting", "unfreezing"},
   from : Nodes \cup {NoNode}, todo : SUBSET Nodes,
   left : 0..Deadline, wait : 0..PromotionTime]
StepDown ==
  [kind : {"none", "switchover", "shutdown"}, by : Nodes \cup {NoNode},
   hold : 0..DemoteTime, left : 0..CatchupTime]

LEMMA Times ==
  /\ FreezeTime \in Nat /\ CatchupTime \in Nat /\ Deadline \in Nat
  /\ PromotionTime \in Nat /\ DemoteTime \in Nat
  /\ FreezeTime > 0 /\ FreezeTime <= DemoteTime
BY TimeAssumption

LEMMA Types ==
  TypeOK => /\ handler \in [Nodes -> Request] /\ \A n \in Nodes : handler[n] \in Request
            /\ drain \in StepDown
            /\ frozen \in [Nodes -> 0..DemoteTime]
            /\ stop \in [Nodes -> {"no", "demoting", "stopping"}]
            /\ running \subseteq Nodes /\ primary \in running \cup {NoNode}
            /\ fresh \in (SUBSET Nodes) \ {{}}
            /\ requests \in Nat /\ faults \in Nat
BY BoundAssumption DEF TypeOK, Request, StepDown

LEMMA IdleTypes == Idle \in Request /\ NoDrain \in StepDown /\ NoDrain.kind = "none" /\ Idle.at = "idle"
BY Times DEF Idle, Request, NoDrain, StepDown

\* A request on its way, at one of its stages.
LEMMA RequestTypes ==
  ASSUME NEW h \in Request, NEW todo \in SUBSET Nodes
  PROVE  /\ [h EXCEPT !.todo = todo] \in Request
         /\ [h EXCEPT !.at = "freezing"] \in Request
         /\ [h EXCEPT !.at = "draining"] \in Request
         /\ [h EXCEPT !.at = "waiting", !.wait = PromotionTime] \in Request
         /\ [h EXCEPT !.at = "unfreezing", !.todo = todo, !.wait = 0] \in Request
         /\ [h EXCEPT !.left = Less(@), !.wait = Less(@)] \in Request
<1>1. Less(h.left) \in 0..Deadline /\ Less(h.wait) \in 0..PromotionTime
  BY Times DEF Request, Less
<1>2. [h EXCEPT !.left = Less(@), !.wait = Less(@)] \in Request
  BY <1>1 DEF Request
<1>3. PromotionTime \in 0..PromotionTime /\ 0 \in 0..PromotionTime
  BY Times
<1>4. QED
  BY <1>2, <1>3 DEF Request

LEMMA Inhabited ==
  ASSUME NEW S, S \subseteq Nodes, NEW n \in S
  PROVE  S \in (SUBSET Nodes) \ {{}}
<1>1. S # {} /\ S \in SUBSET Nodes
  OBVIOUS
<1>2. QED
  BY <1>1

LEMMA FrozenTypes ==
  /\ \A a \in 0..DemoteTime, b \in 0..DemoteTime :
       Longer(a, b) \in 0..DemoteTime /\ Longer(a, b) >= a /\ Longer(a, b) >= b
  /\ \A a \in 0..DemoteTime : Less(a) \in 0..DemoteTime
  /\ FreezeFor \in 0..DemoteTime /\ DemoteTime \in 0..DemoteTime
BY Times DEF Longer, Less, FreezeFor

LEMMA FaultTypes ==
  TypeOK => /\ Fault => faults' \in 0..MaxFaults /\ faults' = faults + 1
            /\ \A e : FaultUnless(e) => faults' \in 0..MaxFaults
BY BoundAssumption DEF TypeOK, Fault, FaultUnless

LEMMA LiftingType ==
  ASSUME handler \in [Nodes -> Request], NEW n \in Nodes, NEW todo \in SUBSET Nodes
  PROVE  Lifting(n, todo) \in [Nodes -> Request]
<1>1. (IF todo = {} THEN Idle ELSE [handler[n] EXCEPT !.at = "unfreezing", !.todo = todo, !.wait = 0])
      \in Request
  BY RequestTypes, IdleTypes
<1>2. QED
  BY <1>1 DEF Lifting

LEMMA DownType ==
  ASSUME TypeOK, NEW n \in Nodes, Down(n), faults' \in 0..MaxFaults, FreezesOthers'
  PROVE  TypeOK'
<1>1. /\ frozen' \in [Nodes -> 0..DemoteTime] /\ stop' \in [Nodes -> {"no", "demoting", "stopping"}]
      /\ running' \subseteq Nodes
  BY Times, Types DEF Down
<1>2. handler' \in [Nodes -> Request]
  BY Types, IdleTypes DEF Down
<1>3. primary' \in running' \cup {NoNode} /\ drain' \in StepDown
      /\ (drain'.kind # "none" => primary' # NoNode)
  BY Types, IdleTypes DEF Down, TypeOK
<1>4. handed' \in BOOLEAN
  BY DEF Down, TypeOK
<1>5. QED
  BY <1>1, <1>2, <1>3, <1>4 DEF Down, TypeOK, Request, StepDown

LEMMA TypeInit == Init => TypeInv
<1> SUFFICES ASSUME Init PROVE TypeInv
  OBVIOUS
<1>1. running \subseteq Nodes /\ primary \in running
  BY NodeAssumption DEF Init
<1>2. frozen \in [Nodes -> 0..DemoteTime]
  BY Times DEF Init
<1>3. stop \in [Nodes -> {"no", "demoting", "stopping"}]
  BY DEF Init
<1>4. handler \in [Nodes -> Request] /\ drain \in StepDown
  BY IdleTypes DEF Init
<1>5. requests \in 0..MaxRequests /\ faults \in 0..MaxFaults
  BY BoundAssumption DEF Init
<1>6. fresh \in (SUBSET Nodes) \ {{}}
  BY NodeAssumption, Inhabited DEF Init
<1>7. handed \in BOOLEAN /\ drain.kind = "none"
  BY IdleTypes DEF Init
<1>8. \A n \in Nodes : ~Served(n)
  BY IdleTypes DEF Init, Served
<1>9. FreezesOthers
  BY DEF Init, Idle, FreezesOthers
<1>10. QED
  BY <1>1, <1>2, <1>3, <1>4, <1>5, <1>6, <1>7, <1>8, <1>9 DEF TypeOK, Request, StepDown, TypeInv, Asked

\* No step gives a request its own node or its primary to freeze.
LEMMA OthersStep == TypeInv /\ [Next]_vars => FreezesOthers'
<1> SUFFICES ASSUME TypeOK, FreezesOthers, [Next]_vars, NEW k \in Nodes
             PROVE  handler'[k].todo \cap {k, handler'[k].from} = {}
  BY DEF TypeInv, TypeOK, FreezesOthers
<1> USE DEF mongodVars, bounds
<1>0. handler[k] \in Request /\ handler[k].todo \cap {k, handler[k].from} = {}
  BY Types DEF FreezesOthers
<1>1. CASE UNCHANGED handler
  BY <1>0, <1>1
<1>2. CASE StepsDown \/ CatchupExpires \/ Tick
  <2>1. handler'[k] \in {[handler[k] EXCEPT !.at = "waiting", !.wait = PromotionTime],
                         [handler[k] EXCEPT !.at = "freezing"], handler[k],
                         [handler[k] EXCEPT !.left = Less(@), !.wait = Less(@)]}
    BY <1>2 DEF StepsDown, CatchupExpires, Tick
  <2>2. handler'[k].todo = handler[k].todo /\ handler'[k].from = handler[k].from
    BY <1>0, <2>1 DEF Request
  <2>3. QED
    BY <1>0, <2>2
<1>3. ASSUME NEW n \in Nodes, Ask(n) PROVE handler'[k].todo \cap {k, handler'[k].from} = {}
  BY <1>0, <1>3, Types DEF Ask, Others, Idle
<1>4. ASSUME NEW n \in Nodes, AskStepDown(n) \/ Cancel(n) \/ Down(n)
      PROVE  handler'[k].todo \cap {k, handler'[k].from} = {}
  BY <1>0, <1>4, Types DEF AskStepDown, Cancel, Down, Idle, Request
<1>5. ASSUME NEW n \in Nodes, NEW m \in Nodes, FreezeOne(n, m)
      PROVE  handler'[k].todo \cap {k, handler'[k].from} = {}
  BY <1>0, <1>5, Types DEF FreezeOne, Request
<1>6. ASSUME NEW n \in Nodes, NEW todo, todo \cap {n, handler[n].from} = {},
             handler' = Lifting(n, todo)
      PROVE  handler'[k].todo \cap {k, handler'[k].from} = {}
  BY <1>0, <1>6, Types DEF Lifting, Idle, Request
<1>7. ASSUME NEW n \in Nodes, StepDownRefused(n) \/ StopWaiting(n)
      PROVE  handler'[k].todo \cap {k, handler'[k].from} = {}
  BY <1>6, <1>7 DEF StepDownRefused, StopWaiting, Unfreezing, Others
<1>8. ASSUME NEW n \in Nodes, NEW m \in Nodes, UnfreezeOne(n, m)
      PROVE  handler'[k].todo \cap {k, handler'[k].from} = {}
  BY <1>6, <1>8 DEF UnfreezeOne, FreezesOthers
<1>9. QED
  BY <1>1, <1>2, <1>3, <1>4, <1>5, <1>7, <1>8 DEF Next, SwitchoverStep, StopStep, Write, Replicate,
     Elect, StandDown, Terminate, DemoteFails, Exit, Crash, Start, vars

LEMMA TypeStep == TypeInv /\ [Next]_vars => TypeOK'
<1>0. SUFFICES ASSUME TypeOK, Asked, [Next]_vars, FreezesOthers' PROVE TypeOK'
  BY OthersStep DEF TypeInv
<1> USE <1>0
<1> USE DEF mongodVars, bounds
<1>1. CASE Write
  <2>1. fresh' \in (SUBSET Nodes) \ {{}}
    BY <1>1, Types, Inhabited DEF Write
  <2>2. QED
    BY <1>1, <2>1 DEF Write, TypeOK
<1>2. ASSUME NEW n \in Nodes, Replicate(n) PROVE TypeOK'
  <2>1. fresh' \in (SUBSET Nodes) \ {{}}
    BY <1>2, Types, Inhabited DEF Replicate
  <2>2. QED
    BY <1>2, <2>1 DEF Replicate, TypeOK
<1>3. ASSUME NEW n \in Nodes, Elect(n) PROVE TypeOK'
  <2>1. primary' = n /\ n \in running /\ (fresh' = fresh \/ fresh' = {n})
    BY <1>3 DEF Elect
  <2>2. fresh' \in (SUBSET Nodes) \ {{}}
    BY <2>1, Types, Inhabited
  <2>3. QED
    BY <1>3, <2>1, <2>2 DEF Elect, TypeOK
<1>4. CASE StandDown
  <2>1. drain' \in StepDown /\ drain'.kind = "none"
    BY <1>4, IdleTypes DEF StandDown
  <2>2. QED
    BY <1>4, <2>1 DEF StandDown, TypeOK, StepDown
<1>5. CASE StepsDown
  <2>1. primary \in Nodes /\ drain.hold \in 0..DemoteTime
    BY <1>5, Types DEF StepsDown, TypeOK, StepDown
  <2>2. frozen' \in [Nodes -> 0..DemoteTime]
    BY <1>5, <2>1, Types, FrozenTypes DEF StepsDown
  <2>3. handler' \in [Nodes -> Request]
    BY <1>5, Types, RequestTypes DEF StepsDown
  <2>4. stop' \in [Nodes -> {"no", "demoting", "stopping"}]
    BY <1>5, Types DEF StepsDown, StopsNext
  <2>5. drain' \in StepDown /\ drain'.kind = "none"
    BY <1>5, IdleTypes DEF StepsDown
  <2>6. QED
    BY <1>5, <2>2, <2>3, <2>4, <2>5 DEF StepsDown, TypeOK, StepDown, Request
<1>6. CASE CatchupExpires
  <2>1. handler' \in [Nodes -> Request]
    BY <1>6, Types, RequestTypes DEF CatchupExpires
  <2>2. stop' \in [Nodes -> {"no", "demoting", "stopping"}]
    BY <1>6, Types DEF CatchupExpires, StopsNext
  <2>3. drain' \in StepDown /\ drain'.kind = "none"
    BY <1>6, IdleTypes DEF CatchupExpires
  <2>4. QED
    BY <1>6, <2>1, <2>2, <2>3 DEF CatchupExpires, TypeOK, StepDown, Request
<1>7. ASSUME NEW n \in Nodes, Ask(n) PROVE TypeOK'
  <2>1. PICK p \in Nodes \ {n} :
          /\ FaultUnless(p = primary)
          /\ handler' = [handler EXCEPT ![n] =
               [Idle EXCEPT !.at = "freezing", !.from = p, !.todo = Others(n, p), !.left = Deadline]]
    BY <1>7 DEF Ask
  <2>2. [Idle EXCEPT !.at = "freezing", !.from = p, !.todo = Others(n, p), !.left = Deadline] \in Request
    <3>1. Others(n, p) \in SUBSET Nodes /\ Deadline \in 0..Deadline /\ 0 \in 0..PromotionTime
      BY Times DEF Others
    <3>2. QED
      BY <3>1 DEF Idle, Request
  <2>3. handler' \in [Nodes -> Request]
    BY <2>1, <2>2, Types
  <2>4. faults' \in 0..MaxFaults /\ requests' \in 0..MaxRequests
    BY <1>7, <2>1, FaultTypes, BoundAssumption DEF Ask, TypeOK
  <2>5. QED
    BY <1>7, <2>3, <2>4 DEF Ask, TypeOK, Request
<1>8. ASSUME NEW n \in Nodes, NEW m \in Nodes, FreezeOne(n, m) PROVE TypeOK'
  <2>1. handler' = [handler EXCEPT ![n].todo = @ \ {m}]
    BY <1>8 DEF FreezeOne
  <2>2. handler[n].todo \ {m} \in SUBSET Nodes
    BY Types DEF Request
  <2>3. handler' \in [Nodes -> Request]
    BY <2>1, <2>2, Types, RequestTypes
  <2>4. frozen' \in [Nodes -> 0..DemoteTime]
    BY <1>8, Types, FrozenTypes DEF FreezeOne
  <2>5. faults' \in 0..MaxFaults
    BY <1>8, FaultTypes DEF FreezeOne, TypeOK
  <2>6. QED
    BY <1>8, <2>3, <2>4, <2>5 DEF FreezeOne, TypeOK, Request
<1>9. ASSUME NEW n \in Nodes, AskStepDown(n) PROVE TypeOK'
  <2>1. handler' \in [Nodes -> Request]
    BY <1>9, Types, RequestTypes DEF AskStepDown
  <2>2. drain' \in StepDown
    BY <1>9, FrozenTypes, Times DEF AskStepDown, StepDown
  <2>3. primary # NoNode
    BY <1>9, NodeAssumption DEF AskStepDown, ReadyToAsk, Asked, Served
  <2>4. QED
    BY <1>9, <2>1, <2>2, <2>3 DEF AskStepDown, TypeOK, Request, StepDown
<1>10. ASSUME NEW n \in Nodes, StepDownRefused(n) \/ StopWaiting(n) PROVE TypeOK'
  <2>1. Others(n, handler[n].from) \in SUBSET Nodes
    BY DEF Others
  <2>2. handler' \in [Nodes -> Request]
    BY <1>10, <2>1, Types, LiftingType DEF StepDownRefused, StopWaiting, Unfreezing
  <2>3. faults' \in 0..MaxFaults
    BY <1>10, FaultTypes DEF StepDownRefused, StopWaiting, TypeOK
  <2>4. QED
    BY <1>10, <2>2, <2>3 DEF StepDownRefused, StopWaiting, TypeOK, Request
<1>11. ASSUME NEW n \in Nodes, NEW m \in Nodes, UnfreezeOne(n, m) PROVE TypeOK'
  <2>1. handler[n].todo \ {m} \in SUBSET Nodes
    BY Types DEF Request
  <2>2. handler' \in [Nodes -> Request]
    BY <1>11, <2>1, Types, LiftingType DEF UnfreezeOne
  <2>3. frozen' \in [Nodes -> 0..DemoteTime]
    BY <1>11, Types, Times DEF UnfreezeOne
  <2>4. faults' \in 0..MaxFaults
    BY <1>11, FaultTypes DEF UnfreezeOne, TypeOK
  <2>5. QED
    BY <1>11, <2>2, <2>3, <2>4 DEF UnfreezeOne, TypeOK, Request
<1>12. ASSUME NEW n \in Nodes, Cancel(n) PROVE TypeOK'
  <2>1. handler' \in [Nodes -> Request]
    BY <1>12, Types, IdleTypes DEF Cancel
  <2>2. faults' \in 0..MaxFaults
    BY <1>12, FaultTypes DEF Cancel
  <2>3. QED
    BY <1>12, <2>1, <2>2 DEF Cancel, TypeOK, Request
<1>13. ASSUME NEW n \in Nodes, Terminate(n) PROVE TypeOK'
  <2>1. faults' \in 0..MaxFaults
    BY <1>13, FaultTypes DEF Terminate
  <2>2. stop' \in [Nodes -> {"no", "demoting", "stopping"}]
    BY <1>13, Types DEF Terminate
  <2>3. drain' \in StepDown /\ (drain'.kind # "none" => primary # NoNode)
    <3>1. CASE n = primary /\ drain.kind = "none"
      <4>1. drain' = [kind |-> "shutdown", by |-> n, hold |-> DemoteTime, left |-> CatchupTime]
        BY <1>13, <3>1 DEF Terminate
      <4>2. CatchupTime \in 0..CatchupTime
        BY Times
      <4>3. QED
        BY <3>1, <4>1, <4>2, FrozenTypes, NodeAssumption DEF StepDown
    <3>2. CASE ~(n = primary /\ drain.kind = "none")
      BY <1>13, <3>2, Types DEF Terminate, TypeOK
    <3>3. QED
      BY <3>1, <3>2
  <2>4. QED
    BY <1>13, <2>1, <2>2, <2>3 DEF Terminate, TypeOK, StepDown
<1>14. ASSUME NEW n \in Nodes, DemoteFails(n) PROVE TypeOK'
  BY <1>14 DEF DemoteFails, TypeOK
<1>15. ASSUME NEW n \in Nodes, Exit(n) \/ Crash(n) PROVE TypeOK'
  <2>1. faults' \in 0..MaxFaults /\ Down(n)
    BY <1>15, FaultTypes DEF Exit, Crash, TypeOK
  <2>2. QED
    BY <2>1, DownType
<1>16. ASSUME NEW n \in Nodes, Start(n) PROVE TypeOK'
  BY <1>16 DEF Start, TypeOK
<1>17. CASE Tick
  <2>1. frozen' \in [Nodes -> 0..DemoteTime]
    BY <1>17, Types, FrozenTypes DEF Tick
  <2>2. drain' \in StepDown /\ drain'.kind = drain.kind
    <3>1. Less(drain.left) \in 0..CatchupTime
      BY Types, Times DEF StepDown, Less
    <3>2. drain' = [drain EXCEPT !.left = Less(drain.left)]
      BY <1>17 DEF Tick
    <3>3. QED
      BY <3>1, <3>2, Types DEF StepDown
  <2>3. handler' \in [Nodes -> Request]
    BY <1>17, Types, RequestTypes DEF Tick
  <2>4. QED
    BY <1>17, <2>1, <2>2, <2>3 DEF Tick, TypeOK, StepDown, Request
<1>18. CASE UNCHANGED vars
  BY <1>18 DEF vars, TypeOK
<1>19. QED
  BY <1>1, <1>2, <1>3, <1>4, <1>5, <1>6, <1>7, <1>8, <1>9, <1>10, <1>11, <1>12, <1>13, <1>14,
     <1>15, <1>16, <1>17, <1>18 DEF Next, SwitchoverStep, StopStep

LEMMA AskedStep == TypeInv /\ [Next]_vars => Asked'
<1> SUFFICES ASSUME TypeOK, Asked, [Next]_vars, NEW k \in Nodes, Served(k)'
             PROVE  handler'[k].from \in Nodes
  BY DEF TypeInv, Asked
<1> USE DEF mongodVars, bounds
<1>1. CASE UNCHANGED handler
  BY <1>1 DEF Asked, Served
<1>2. CASE StepsDown \/ CatchupExpires \/ Tick
  <2>1. handler[k] \in Request
    BY Types
  <2>2. handler'[k] \in {[handler[k] EXCEPT !.at = "waiting", !.wait = PromotionTime],
                         [handler[k] EXCEPT !.at = "freezing"], handler[k],
                         [handler[k] EXCEPT !.left = Less(@), !.wait = Less(@)]}
    BY <1>2 DEF StepsDown, CatchupExpires, Tick
  <2>3. CASE StepsDown \/ CatchupExpires
    <3>1. handler'[k].from = handler[k].from
      BY <2>1, <2>2 DEF Request
    <3>2. ~Asker(k) => handler'[k] = handler[k]
      BY <2>3 DEF StepsDown, CatchupExpires
    <3>3. QED
      BY <3>1, <3>2 DEF Asked, Served, Asker
  <2>4. CASE Tick
    <3>1. handler'[k] = [handler[k] EXCEPT !.left = Less(@), !.wait = Less(@)]
      BY <2>4 DEF Tick
    <3>2. handler'[k].from = handler[k].from /\ handler'[k].at = handler[k].at
      BY <2>1, <3>1 DEF Request
    <3>3. QED
      BY <3>2 DEF Asked, Served
  <2>5. QED
    BY <1>2, <2>3, <2>4
<1>3. ASSUME NEW n \in Nodes, Ask(n) PROVE handler'[k].from \in Nodes
  BY <1>3, Types DEF Ask, Asked, Served, Idle
<1>4. ASSUME NEW n \in Nodes, AskStepDown(n) \/ Cancel(n) \/ Down(n) PROVE handler'[k].from \in Nodes
  BY <1>4, Types DEF AskStepDown, ReadyToAsk, Cancel, Down, Asked, Served, Idle, Request
<1>5. ASSUME NEW n \in Nodes, NEW m \in Nodes, FreezeOne(n, m) PROVE handler'[k].from \in Nodes
  BY <1>5, Types DEF FreezeOne, Asked, Served, Request
<1>6. ASSUME NEW n \in Nodes, NEW todo, Served(n), handler' = Lifting(n, todo)
      PROVE  handler'[k].from \in Nodes
  BY <1>6, Types DEF Lifting, Asked, Served, Idle, Request
<1>7. QED
  BY <1>1, <1>2, <1>3, <1>4, <1>5, <1>6 DEF Next, SwitchoverStep, StopStep, Write, Replicate, Elect,
     StandDown, StepDownRefused, ReadyToAsk, StopWaiting, Unfreezing, UnfreezeOne, Served,
     Terminate, DemoteFails, Exit, Crash, Start, vars

LEMMA TypeInvStep == TypeInv /\ [Next]_vars => TypeInv'
BY TypeStep, AskedStep DEF TypeInv

\* The variables are always of the types TypeOK declares: in particular only a
\* primary steps down.
THEOREM TypeCorrect == Spec => []TypeOK
<1>1. TypeInv => TypeOK
  BY DEF TypeInv
<1>2. QED
  BY <1>1, TypeInit, TypeInvStep, PTL DEF Spec

-----------------------------------------------------------------------------
(* A handoff loses nothing.                                                *)

LEMMA HandoffStep == HandoffInv /\ [Next]_vars => HandoffInv'
<1> SUFFICES ASSUME HandoffInv, [Next]_vars PROVE Handed'
  BY TypeInvStep DEF HandoffInv
<1>0. TypeOK /\ Handed
  BY DEF HandoffInv, TypeInv
<1> USE DEF mongodVars, bounds
<1>1. CASE Write
  BY <1>0, <1>1 DEF Write, Handed
<1>2. ASSUME NEW n \in Nodes, Replicate(n) PROVE Handed'
  <2>1. fresh' \in SUBSET Nodes /\ fresh \in SUBSET fresh'
    BY <1>0, <1>2, Types DEF Replicate
  <2>2. IsMajority(fresh) => IsMajority(fresh')
    BY <2>1, MajorityGrows
  <2>3. QED
    BY <1>0, <1>2, <2>2 DEF Replicate, Handed, IsMajority
<1>3. (\E n \in Nodes : Elect(n)) \/ StandDown => Handed'
  BY DEF Elect, StandDown, Handed
<1>4. CASE StepsDown
  <2>1. IsMajority(fresh \cap running)
    BY <1>4 DEF StepsDown, CaughtUp
  <2>2. IsMajority(fresh)
    BY <1>0, <2>1, Types, MajorityGrows
  <2>3. QED
    BY <1>4, <2>2 DEF StepsDown, Handed, IsMajority
<1>5. ASSUME NEW n \in Nodes, Down(n) PROVE Handed'
  BY <1>0, <1>5 DEF Down, Handed, IsMajority
<1>6. CASE UNCHANGED <<primary, fresh, handed>>
  BY <1>0, <1>6 DEF Handed, IsMajority
<1>7. QED
  BY <1>1, <1>2, <1>3, <1>4, <1>5, <1>6 DEF Next, SwitchoverStep, StopStep, CatchupExpires, Ask,
     FreezeOne, AskStepDown, StepDownRefused, StopWaiting, UnfreezeOne, Cancel, Terminate,
     DemoteFails, Exit, Crash, Start, Tick, vars

\* "So the handoff loses nothing": after a step-down asked for by health_server's
\* switchover or by demote_on_shutdown, the next primary holds every write taken
\* before it.  Whoever is behind would need the votes of a majority that is
\* behind too, and a majority is not.
THEOREM HandoffKeepsWritesHolds == Spec => HandoffKeepsWrites
<1> DEFINE Kept == handed /\ primary = NoNode /\ primary' # NoNode => primary' \in fresh
<1>1. Init => HandoffInv
  BY TypeInit DEF HandoffInv, Handed, Init
<1>2. HandoffInv /\ [Next]_vars => [Kept]_vars
  <2> SUFFICES ASSUME HandoffInv, Next, handed, primary = NoNode, primary' # NoNode
               PROVE  primary' \in fresh
    BY DEF vars
  <2>1. PICK n \in Nodes : Elect(n)
    BY DEF Next, Write, StandDown, StepsDown, CatchupExpires, Tick, Replicate, Ask, SwitchoverStep,
       FreezeOne, AskStepDown, StepDownRefused, StopWaiting, UnfreezeOne, Cancel, Terminate,
       StopStep, DemoteFails, Exit, Crash, Down, Start, mongodVars
  <2>2. fresh \in SUBSET Nodes /\ running \ fresh \in SUBSET Nodes /\ IsMajority(fresh)
    BY Types DEF HandoffInv, TypeInv, Handed
  <2>3. n \in fresh
    <3> SUFFICES ASSUME n \notin fresh PROVE FALSE
      OBVIOUS
    <3>1. IsMajority(running \ fresh)
      BY <2>1 DEF Elect
    <3>2. QED
      BY <2>2, <3>1, MajoritiesMeet
  <2>4. QED
    BY <2>1, <2>3 DEF Elect
<1>3. Spec => [][Kept]_vars
  BY <1>1, <1>2, HandoffStep, PTL DEF Spec
<1>4. QED
  BY <1>3 DEF HandoffKeepsWrites

-----------------------------------------------------------------------------
(* Only the target wins.                                                   *)

\* A step of a request that is being served, by its own node.
LEMMA OwnStep ==
  ASSUME TypeOK, Undisturbed, faults = 0, NEW n \in Nodes, Served(n),
         \A m \in Nodes \ {n} : handler'[m] = handler[m],
         UNCHANGED <<running, stop, requests>>, drain'.kind # "shutdown",
         requests = 1 /\ Holding(n) /\ AllUp /\ Served(n)' => Holding(n)'
  PROVE  Undisturbed'
<1>1. requests # 0
  BY DEF Undisturbed
<1>2. requests = 1 => AllUp /\ Holding(n) /\ \A m \in Nodes \ {n} : ~Served(m)
  BY DEF Undisturbed
<1>3. requests = 1 => \A m \in Nodes \ {n} : ~Served(m)'
  BY <1>2 DEF Served
<1>4. AllUp => AllUp'
  BY DEF AllUp
<1>5. ASSUME requests' = 1, NEW k \in Nodes, Served(k)'
      PROVE  AllUp' /\ Holding(k)' /\ \A m \in Nodes \ {k} : ~Served(m)'
  <2>1. k = n
    BY <1>3, <1>5
  <2>2. QED
    BY <1>2, <1>3, <1>4, <1>5, <2>1
<1>6. QED
  BY <1>1, <1>5 DEF Undisturbed

\* A step of mongod, or of a timer, that leaves every request where it is or
\* takes the one that is draining further.
LEMMA SharedStep ==
  ASSUME TypeOK, Undisturbed, faults = 0,
         \A n \in Nodes : Served(n)' => Served(n),
         UNCHANGED requests, drain'.kind # "shutdown",
         AllUp => AllUp', requests = 0 => drain'.kind = "none",
         \A n \in Nodes : requests = 1 /\ Holding(n) /\ AllUp /\ Served(n) => Holding(n)'
  PROVE  Undisturbed'
<1>1. requests = 0 => AllUp' /\ \A n \in Nodes : ~Served(n)'
  BY DEF Undisturbed
<1>2. requests = 1 => \A n \in Nodes : Served(n)' => AllUp' /\ Holding(n)' /\ \A m \in Nodes \ {n} : ~Served(m)'
  BY DEF Undisturbed
<1>3. QED
  BY <1>1, <1>2 DEF Undisturbed

LEMMA TargetStep == TargetInv /\ [Next]_vars => TargetInv'
<1> SUFFICES ASSUME TypeOK, Asked, Undisturbed, [Next]_vars, faults' = 0 PROVE Undisturbed'
  BY TypeInvStep DEF TargetInv, TypeInv, Undisturbed
<1> USE DEF mongodVars, bounds
<1>0. faults \in Nat /\ faults = 0 /\ faults' = faults /\ ~Fault
  <2>1. faults \in Nat
    BY Types
  <2>2. faults' = faults \/ faults' = faults + 1
    BY DEF Next, Write, StandDown, StepsDown, CatchupExpires, Tick, Replicate, Elect, Ask,
       SwitchoverStep, FreezeOne, AskStepDown, StepDownRefused, StopWaiting, UnfreezeOne, Cancel,
       Terminate, StopStep, DemoteFails, Exit, Crash, Down, Start, vars, Fault, FaultUnless
  <2>3. QED
    BY <2>1, <2>2 DEF Fault
<1>00. \A e : FaultUnless(e) => e
  BY <1>0 DEF FaultUnless
<1>000. drain.kind # "shutdown" /\ (requests = 0 => AllUp)
        /\ \A n \in Nodes : requests = 1 /\ Served(n) => AllUp
  BY <1>0 DEF Undisturbed
<1>1. CASE UNCHANGED <<running, primary, frozen, drain, handler, stop, requests>>
  BY <1>0, <1>1 DEF Undisturbed, AllUp, Served, Holding, Held
<1>2. ASSUME NEW k \in Nodes, Elect(k) PROVE Undisturbed'
  <2>1. ASSUME NEW n \in Nodes, Holding(n), Served(n) PROVE Holding(n)'
    <3>1. handler[n].at \notin {"freezing", "draining"}
      BY <1>2, <2>1, NodeAssumption DEF Elect, Holding, Asked
    <3>2. QED
      BY <1>2, <2>1, <3>1 DEF Elect, Holding, Held
  <2>2. /\ UNCHANGED <<drain, handler, running, stop, requests>>
    BY <1>2 DEF Elect
  <2>3. QED
    BY <1>0, <1>000, <2>1, <2>2, SharedStep DEF Served, AllUp, Undisturbed
<1>3. ASSUME UNCHANGED <<handler, requests>>, ~AllUp, drain'.kind # "shutdown" PROVE Undisturbed'
  BY <1>0, <1>000, <1>3 DEF Undisturbed, Served
<1>4. ASSUME StandDown PROVE Undisturbed'
  <2>1. ~AllUp
    BY <1>4, AllAreMajority DEF StandDown, AllUp
  <2>2. UNCHANGED <<handler, requests>> /\ drain'.kind # "shutdown"
    BY <1>4, IdleTypes DEF StandDown
  <2>3. QED
    BY <1>3, <2>1, <2>2
<1>5. ASSUME StepsDown PROVE Undisturbed'
  <2>1. drain.kind = "switchover" /\ drain'.kind = "none" /\ stop' = stop
    BY <1>5, <1>000, Types, IdleTypes DEF StepsDown, StepDown, StopsNext
  <2>2. \A n \in Nodes : handler'[n] = IF Asker(n) THEN [handler[n] EXCEPT !.at = "waiting", !.wait = PromotionTime]
                                       ELSE handler[n]
    BY <1>5 DEF StepsDown
  <2>3. primary \in Nodes /\ drain.hold \in 0..DemoteTime
    BY <1>5, Types DEF StepsDown, TypeOK, StepDown
  <2>4. /\ \A m \in Nodes : frozen[m] \in Nat /\ frozen'[m] \in Nat /\ frozen'[m] >= frozen[m]
        /\ frozen'[primary] >= drain.hold
    <3>1. \A m \in Nodes : frozen'[m] = IF m = primary THEN Longer(frozen[m], drain.hold) ELSE frozen[m]
      BY <1>5, Types DEF StepsDown
    <3>2. \A m \in Nodes : frozen[m] \in 0..DemoteTime
      BY Types
    <3>3. \A m \in Nodes : frozen'[m] \in 0..DemoteTime /\ frozen'[m] >= frozen[m]
      <4> SUFFICES ASSUME NEW m \in Nodes PROVE frozen'[m] \in 0..DemoteTime /\ frozen'[m] >= frozen[m]
        OBVIOUS
      <4>1. CASE m = primary
        BY <2>3, <3>1, <3>2, <4>1, FrozenTypes
      <4>2. CASE m # primary
        BY <3>1, <3>2, <4>2, Times
      <4>3. QED
        BY <4>1, <4>2
    <3>4. frozen'[primary] >= drain.hold
      BY <2>3, <3>1, <3>2, FrozenTypes
    <3>5. QED
      BY <3>2, <3>3, <3>4, Times
  <2>5. ASSUME NEW n \in Nodes, Holding(n), Served(n) PROVE Holding(n)'
    <3>1. handler[n] \in Request /\ handler[n].left \in 0..Deadline
      BY Types DEF Request
    <3>2. handler'[n].left = handler[n].left
      BY <2>2, <3>1 DEF Request
    <3>3. \A m \in Nodes : Held(n, m) => Held(n, m)'
      BY <2>4, <3>1, <3>2, Times DEF Held
    <3>4. CASE handler[n].at = "draining"
      <4>1. handler'[n].at = "waiting" /\ primary = handler[n].from /\ drain.hold = FreezeTime
        BY <2>1, <2>2, <2>5, <3>1, <3>4 DEF Holding, Asker, Request
      <4>2. \A m \in Nodes : m = primary => Held(n, m)'
        <5>1. frozen'[primary] \in Nat /\ frozen'[primary] >= FreezeTime
          BY <2>3, <2>4, <4>1
        <5>2. handler'[n].left \in 0..Deadline
          BY <3>1, <3>2
        <5>3. QED
          BY <5>1, <5>2, Times DEF Held
      <4>3. \A m \in Nodes \ {n} : Held(n, m)'
        <5>1. \A m \in Nodes \ {n, primary} : Held(n, m)
          BY <2>5, <3>4, <4>1 DEF Holding
        <5>2. QED
          BY <3>3, <4>2, <5>1
      <4>4. QED
        BY <4>1, <4>3 DEF Holding
    <3>5. CASE handler[n].at # "draining"
      <4>1. handler'[n] = handler[n] /\ handler[n].at # "freezing"
        BY <2>1, <2>2, <2>5, <3>5 DEF Asker, Holding
      <4>2. QED
        BY <2>5, <3>3, <3>5, <4>1 DEF Holding
    <3>6. QED
      BY <3>4, <3>5
  <2>6. \A n \in Nodes : Served(n)' => Served(n)
    BY <2>2 DEF Served, Asker
  <2>7. UNCHANGED <<requests, running>>
    BY <1>5 DEF StepsDown
  <2>8. QED
    BY <1>0, <2>1, <2>5, <2>6, <2>7, SharedStep DEF AllUp
<1>6. ASSUME CatchupExpires PROVE Undisturbed'
  <2>1. drain.kind = "switchover" /\ drain'.kind = "none" /\ stop' = stop
    BY <1>6, <1>000, Types, IdleTypes DEF CatchupExpires, StepDown, StopsNext
  <2>2. \A n \in Nodes : handler'[n] = IF Asker(n) THEN [handler[n] EXCEPT !.at = "freezing"] ELSE handler[n]
    BY <1>6 DEF CatchupExpires
  <2>3. UNCHANGED <<requests, running, primary, frozen>>
    BY <1>6 DEF CatchupExpires
  <2>4. ASSUME NEW n \in Nodes, Holding(n), Served(n) PROVE Holding(n)'
    <3>1. handler[n] \in Request
      BY Types
    <3>2. handler'[n].left = handler[n].left /\ handler'[n].from = handler[n].from
      BY <2>2, <3>1 DEF Request
    <3>3. \A m \in Nodes : Held(n, m)' = Held(n, m)
      BY <2>3, <3>2 DEF Held
    <3>4. CASE handler[n].at = "draining"
      <4>1. handler'[n].at = "freezing" /\ primary = handler[n].from
        BY <2>1, <2>2, <2>4, <3>1, <3>4 DEF Holding, Asker, Request
      <4>2. QED
        BY <2>1, <2>3, <2>4, <3>2, <3>3, <3>4, <4>1 DEF Holding
    <3>5. CASE handler[n].at # "draining"
      <4>1. handler'[n] = handler[n] /\ handler[n].at # "freezing"
        BY <2>1, <2>2, <2>4, <3>5 DEF Asker, Holding
      <4>2. QED
        BY <2>4, <3>3, <3>5, <4>1 DEF Holding
    <3>6. QED
      BY <3>4, <3>5
  <2>5. \A n \in Nodes : Served(n)' => Served(n)
    BY <2>2 DEF Served, Asker
  <2>6. QED
    BY <1>0, <2>1, <2>3, <2>4, <2>5, SharedStep DEF AllUp
<1>7. ASSUME Tick PROVE Undisturbed'
  <2>1. \A n \in Nodes : /\ handler'[n].at = handler[n].at /\ handler'[n].from = handler[n].from
                         /\ handler'[n].todo = handler[n].todo
                         /\ handler'[n].left = Less(handler[n].left)
    <3>1. \A n \in Nodes : handler'[n] = [handler[n] EXCEPT !.left = Less(@), !.wait = Less(@)]
      BY <1>7 DEF Tick
    <3>2. QED
      BY <3>1, Types DEF Request
  <2>2. \A n \in Nodes : frozen'[n] = Less(frozen[n])
    BY <1>7 DEF Tick
  <2>3. UNCHANGED <<requests, running, primary, stop>>
    BY <1>7 DEF Tick
  <2>4. drain'.kind = drain.kind /\ drain'.by = drain.by /\ drain'.hold = drain.hold
    BY <1>7, Types DEF Tick, StepDown
  <2>5. ASSUME NEW n \in Nodes, Holding(n), Served(n) PROVE Holding(n)'
    <3>1. handler[n].left \in 0..Deadline /\ handler[n].left # 0
      BY <1>7, <2>5, Types DEF Tick, Due, Request
    <3>2. handler'[n].left = handler[n].left - 1
      BY <2>1, <3>1 DEF Less
    <3>3. \A m \in Nodes : frozen[m] \in Nat /\ frozen'[m] \in Nat /\ frozen'[m] >= frozen[m] - 1
      BY <2>2, Types, Times DEF Less
    <3>4. \A m \in Nodes : Held(n, m) => Held(n, m)'
      BY <3>1, <3>2, <3>3, Times DEF Held
    <3>5. QED
      BY <2>1, <2>3, <2>4, <2>5, <3>4 DEF Holding
  <2>6. \A n \in Nodes : Served(n)' => Served(n)
    BY <2>1 DEF Served
  <2>7. QED
    BY <1>0, <1>000, <2>3, <2>4, <2>5, <2>6, SharedStep DEF AllUp, Undisturbed
<1>8. ASSUME NEW n \in Nodes, Ask(n) PROVE Undisturbed'
  <2>1. PICK q \in Nodes \ {n} :
          /\ FaultUnless(q = primary)
          /\ handler' = [handler EXCEPT ![n] =
               [Idle EXCEPT !.at = "freezing", !.from = q, !.todo = Nodes \ {n, q}, !.left = Deadline]]
    BY <1>8 DEF Ask, Others
  <2>2. q = primary
    BY <1>00, <2>1
  <2>3. /\ requests' = requests + 1 /\ requests \in Nat
        /\ UNCHANGED <<running, primary, drain, stop>>
    BY <1>8, Types DEF Ask
  <2>4. /\ handler'[n].at = "freezing" /\ handler'[n].from = q /\ handler'[n].todo = Nodes \ {n, q}
        /\ \A m \in Nodes \ {n} : handler'[m] = handler[m]
    BY <2>1, Types DEF Idle
  <2>5. requests = 0 => Holding(n)'
    BY <1>0, <2>2, <2>3, <2>4 DEF Holding, Undisturbed
  <2>6. ASSUME requests = 0, NEW k \in Nodes, Served(k)'
        PROVE  AllUp' /\ Holding(k)' /\ \A m \in Nodes \ {k} : ~Served(m)'
    <3>1. \A m \in Nodes \ {n} : ~Served(m)'
      BY <1>0, <2>4, <2>6 DEF Undisturbed, Served
    <3>2. k = n
      BY <2>6, <3>1
    <3>3. QED
      BY <1>000, <2>3, <2>5, <2>6, <3>1, <3>2 DEF AllUp
  <2>7. requests' # 0 /\ (requests' = 1 => requests = 0)
    BY <2>3
  <2>8. QED
    BY <1>000, <2>3, <2>6, <2>7 DEF Undisturbed
<1>9. ASSUME NEW n \in Nodes, NEW m \in Nodes, FreezeOne(n, m) PROVE Undisturbed'
  <2>1. /\ Served(n) /\ handler[n].at = "freezing"
        /\ UNCHANGED <<running, primary, drain, stop, requests>>
        /\ handler' = [handler EXCEPT ![n].todo = @ \ {m}]
    BY <1>9 DEF FreezeOne, Served
  <2>2. /\ handler'[n].at = "freezing" /\ handler'[n].from = handler[n].from
        /\ handler'[n].todo = handler[n].todo \ {m} /\ handler'[n].left = handler[n].left
        /\ \A k \in Nodes \ {n} : handler'[k] = handler[k]
    BY <2>1, Types DEF Request
  <2>3. ASSUME Holding(n), AllUp PROVE Holding(n)'
    <3>1. primary = handler[n].from /\ drain.kind = "none"
      BY <2>1, <2>3 DEF Holding
    <3>2. handler[n].left \in 0..Deadline /\ \A k \in Nodes : frozen[k] \in 0..DemoteTime
      BY Types DEF Request
    <3>3. \A k \in Nodes \ {m} : frozen'[k] = frozen[k]
      BY <1>9, Types DEF FreezeOne
    <3>4. m # primary => frozen'[m] \in 0..DemoteTime /\ frozen'[m] >= FreezeTime
      <4> SUFFICES ASSUME m # primary PROVE frozen'[m] \in 0..DemoteTime /\ frozen'[m] >= FreezeTime
        OBVIOUS
      <4>1. Obeys(m)
        BY <2>3 DEF Obeys, AllUp
      <4>2. ~FaultUnless(~Obeys(m))
        BY <1>00, <4>1
      <4>3. frozen' = [frozen EXCEPT ![m] = Longer(@, FreezeFor)]
        BY <1>9, <4>2 DEF FreezeOne
      <4>4. frozen'[m] = Longer(frozen[m], FreezeFor)
        BY <4>3, Types
      <4>5. QED
        BY <3>2, <4>4, FrozenTypes DEF FreezeFor
    <3>5. m # primary => Held(n, m)'
      BY <2>2, <3>2, <3>4, Times DEF Held
    <3>6. \A k \in Nodes \ {m} : Held(n, k) => Held(n, k)'
      BY <2>2, <3>3 DEF Held
    <3>7. \A k \in Nodes \ (handler'[n].todo \cup {n, handler[n].from}) : Held(n, k)'
      BY <2>1, <2>2, <2>3, <3>1, <3>5, <3>6 DEF Holding
    <3>8. QED
      BY <2>1, <2>2, <3>1, <3>7 DEF Holding
  <2>4. QED
    BY <1>0, <1>000, <2>1, <2>2, <2>3, OwnStep
<1>10. ASSUME NEW n \in Nodes, AskStepDown(n) PROVE Undisturbed'
  <2>1. /\ Served(n) /\ handler[n].at = "freezing" /\ handler[n].todo = {}
        /\ handler[n].from = primary
        /\ handler' = [handler EXCEPT ![n].at = "draining"]
        /\ UNCHANGED <<running, primary, frozen, stop, requests>>
        /\ drain'.kind = "switchover" /\ drain'.by = n /\ drain'.hold = FreezeTime
    BY <1>10 DEF AskStepDown, ReadyToAsk, Served, FreezeFor
  <2>2. /\ handler'[n].at = "draining" /\ handler'[n].from = handler[n].from
        /\ handler'[n].left = handler[n].left
        /\ \A k \in Nodes \ {n} : handler'[k] = handler[k]
    BY <2>1, Types DEF Request
  <2>3. Holding(n) => Holding(n)'
    BY <2>1, <2>2 DEF Holding, Held
  <2>4. QED
    BY <1>0, <2>1, <2>2, <2>3, OwnStep
<1>11. ASSUME NEW n \in Nodes, NEW todo, Served(n), handler' = Lifting(n, todo),
              UNCHANGED <<running, drain, stop, requests>>
       PROVE  Undisturbed'
  <2>1. /\ handler'[n].at \in {"idle", "unfreezing"}
        /\ \A k \in Nodes \ {n} : handler'[k] = handler[k]
    BY <1>11, Types, IdleTypes DEF Lifting, Request
  <2>2. Holding(n)'
    BY <2>1 DEF Holding
  <2>3. QED
    BY <1>0, <1>000, <1>11, <2>1, <2>2, OwnStep
<1>12. ASSUME NEW n \in Nodes, StepDownRefused(n) \/ StopWaiting(n) PROVE Undisturbed'
  BY <1>11, <1>12 DEF StepDownRefused, ReadyToAsk, StopWaiting, Unfreezing, Served
<1>13. ASSUME NEW n \in Nodes, NEW m \in Nodes, UnfreezeOne(n, m) PROVE Undisturbed'
  BY <1>11, <1>13 DEF UnfreezeOne, Served
<1>14. ASSUME NEW n \in Nodes, Cancel(n) PROVE Undisturbed'
  <2>1. /\ Served(n) /\ handler'[n] = Idle /\ \A k \in Nodes \ {n} : handler'[k] = handler[k]
        /\ UNCHANGED <<running, drain, stop, requests>>
    BY <1>14, Types DEF Cancel
  <2>2. Holding(n)'
    BY <2>1, IdleTypes DEF Holding
  <2>3. QED
    BY <1>0, <1>000, <2>1, <2>2, OwnStep
<1>15. ASSUME NEW n \in Nodes, DemoteFails(n) PROVE Undisturbed'
  BY <1>3, <1>15, <1>000 DEF DemoteFails, AllUp
<1>16. ASSUME NEW n \in Nodes, Start(n) PROVE Undisturbed'
  BY <1>3, <1>16, <1>000 DEF Start, AllUp
<1>17. ASSUME NEW n \in Nodes, Exit(n) PROVE Undisturbed'
  <2>1. ~AllUp
    BY <1>17 DEF Exit, AllUp
  <2>2. /\ requests' = requests /\ drain'.kind # "shutdown"
        /\ \A k \in Nodes : Served(k)' => Served(k)
    BY <1>17, <1>000, Types, IdleTypes DEF Exit, Down, Served
  <2>3. QED
    BY <1>0, <1>000, <2>1, <2>2 DEF Undisturbed
<1>18. \A n \in Nodes : ~Terminate(n) /\ ~Crash(n)
  BY <1>0 DEF Terminate, Crash
<1>19. QED
  BY <1>1, <1>2, <1>4, <1>5, <1>6, <1>7, <1>8, <1>9, <1>10, <1>12, <1>13, <1>14, <1>15, <1>16, <1>17,
     <1>18 DEF Next, SwitchoverStep, StopStep, Write, Replicate, vars

\* "Let the one unfrozen secondary win": as long as nothing disturbs the only
\* switchover there was, no node but its own is elected before its freezes have
\* run for FREEZE_SECS, however often the step-down has to be asked for again.
THEOREM HandsToTargetHolds == Spec => HandsToTarget
<1> DEFINE Targeted ==
      \A n \in Nodes :
        /\ requests = 1 /\ faults = 0
        /\ handler[n].at = "waiting" /\ primary = NoNode /\ primary' \notin {NoNode, n}
        => Deadline - handler[n].left >= FreezeTime
<1>1. Init => TargetInv
  <2> SUFFICES ASSUME Init PROVE Undisturbed
    BY TypeInit DEF TargetInv
  <2>1. /\ drain.kind = "none" /\ \A n \in Nodes : ~Served(n)
        /\ requests = 0 => running = Nodes /\ \A n \in Nodes : stop[n] = "no"
    BY IdleTypes DEF Init, Served
  <2>2. QED
    BY <2>1 DEF Undisturbed, AllUp
<1>2. TargetInv /\ [Next]_vars => [Targeted]_vars
  <2> SUFFICES ASSUME TargetInv, Next, NEW n \in Nodes, requests = 1, faults = 0,
                      handler[n].at = "waiting", primary = NoNode, primary' \notin {NoNode, n}
               PROVE  Deadline - handler[n].left >= FreezeTime
    BY DEF vars
  <2>1. PICK m \in Nodes : Elect(m)
    BY DEF Next, Write, StandDown, StepsDown, CatchupExpires, Tick, Replicate, Ask, SwitchoverStep,
       FreezeOne, AskStepDown, StepDownRefused, StopWaiting, UnfreezeOne, Cancel, Terminate,
       StopStep, DemoteFails, Exit, Crash, Down, Start, mongodVars
  <2>2. m # n /\ frozen[m] = 0
    BY <2>1 DEF Elect
  <2>3. Held(n, m)
    BY <2>2 DEF TargetInv, Undisturbed, Served, Holding
  <2>4. handler[n].left \in 0..Deadline
    BY Types DEF TargetInv, TypeInv, Request
  <2>5. QED
    BY <2>2, <2>3, <2>4, Times DEF Held
<1>3. Spec => [][Targeted]_vars
  BY <1>1, <1>2, TargetStep, PTL DEF Spec
<1>4. QED
  BY <1>3 DEF HandsToTarget
===============================================================================
