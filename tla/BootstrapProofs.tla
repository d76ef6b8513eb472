--------------------------- MODULE BootstrapProofs ---------------------------
(***************************************************************************)
(* Proofs about Bootstrap: type correctness; that two nodes are never      *)
(* committed to replSetInitiate at once within the dwell; that, until a    *)
(* command lands late, a node which has heard every peer founds the only   *)
(* set and not instead of user data; and that this forms one set.  For any *)
(* number of nodes, any bounds (a dwell shorter than a round among them)   *)
(* and any number of faults.                                               *)
(***************************************************************************)
EXTENDS Bootstrap, TLAPS

-----------------------------------------------------------------------------
(* The inductive invariant. *)

\* Only a loop that is running holds a decision.
ClockNeedsLoop(n) == stable[n] # Stopped => phase[n] \in Serving

\* Answers do not outlive their round.
RoundOver(n) == phase[n] \notin InFlight => answers[n] = NoAnswers

\* What n was told of p's has_data in this round is still so, unless p has
\* restarted since, and then p's decision is younger than n's round.
CurrentAnswers(n) ==
  \A p \in Peers(n) :
    answers[n][p] \in NoSetStanding
      => \/ (answers[n][p] = "NoSetData") = hasData[p]
         \/ stable[p] <= flight[n]

\* A node about to initiate has held its decision for the dwell, and each peer
\* either lost the tie-break or was waived, which takes a peer whose loop was
\* not running when this round probed its name.
Committed(n) ==
  phase[n] = "initiating" =>
    /\ stable[n] = Dwell
    /\ \A p \in Peers(n) :
         \/ answers[n][p] \in NoSetStanding /\ ~PeerWins(n, p)
         \/ stable[p] <= flight[n]

NodeInv(n) == ClockNeedsLoop(n) /\ RoundOver(n) /\ CurrentAnswers(n) /\ Committed(n)

IInv == TypeOK /\ \A n \in Node : NodeInv(n)

-----------------------------------------------------------------------------
(* Type correctness. *)

USE DEF Phase, InFlight, Serving, Standing, NoSetStanding, Volume, Peers, Stopped

LEMMA TypeInit == Init => TypeOK
BY TimeAssumption, BoundAssumption DEF Init, TypeOK, NoAnswers, NoClocks

\* What Probe leaves to its callers is the clock, the phase and the answers.
LEMMA ProbeType ==
  ASSUME TypeOK, NEW n \in Node, NEW absent \in SUBSET Peers(n), Probe(n, absent)
  PROVE  /\ goneFor' \in [Node -> [Node -> -1..GoneDwell]]
         /\ faults' \in 0..MaxFaults
         /\ UNCHANGED <<volume, config, hasData, setVars, landVars, away>>
<1>1. Observed(n, absent) \in [Node -> -1..GoneDwell]
  BY TimeAssumption DEF TypeOK, Observed
<1>2. goneFor' \in [Node -> [Node -> -1..GoneDwell]]
  BY <1>1 DEF Probe, TypeOK
<1>3. faults' \in 0..MaxFaults
  BY BoundAssumption DEF Probe, Fault, TypeOK
<1>4. QED
  BY <1>2, <1>3 DEF Probe

LEMMA HeldType ==
  ASSUME TypeOK, NEW n \in Node
  PROVE  Held(n) \in 0..Dwell /\ (Held(n) >= Dwell => Held(n) = Dwell)
<1>1. stable[n] \in -1..Dwell
  BY DEF TypeOK
<1>2. QED
  BY <1>1, TimeAssumption DEF Held

LEMMA DecideType ==
  ASSUME TypeOK, NEW n \in Node, Decide(n)
  PROVE  TypeOK'
<1> PICK absent \in SUBSET Peers(n) :
      \/ DecideJoin(n, absent) \/ DecideWait(n, absent)
      \/ DecideHold(n, absent) \/ DecideInitiate(n, absent)
  BY DEF Decide
<1>1. Probe(n, absent)
  BY DEF DecideJoin, DecideWait, DecideHold, DecideInitiate
<1>2. /\ goneFor' \in [Node -> [Node -> -1..GoneDwell]]
      /\ faults' \in 0..MaxFaults
      /\ UNCHANGED <<volume, config, hasData, setVars, landVars, away>>
  BY <1>1, ProbeType
<1>3. stable' \in [Node -> -1..Dwell]
  BY HeldType, TimeAssumption
  DEF TypeOK, DecideJoin, DecideWait, DecideHold, DecideInitiate
<1>4. phase' \in [Node -> Phase]
  BY DEF TypeOK, DecideJoin, DecideWait, DecideHold, DecideInitiate
<1>5. answers' \in [Node -> [Node -> Standing]] /\ flight' \in [Node -> 0..RoundTime]
  <2>1. CASE EndRound(n)
    BY <2>1, TimeAssumption DEF TypeOK, EndRound, NoAnswers
  <2>2. CASE UNCHANGED roundVars
    BY <2>2 DEF TypeOK, roundVars
  <2>3. QED
    BY <2>1, <2>2 DEF DecideJoin, DecideWait, DecideHold, DecideInitiate
<1>6. QED
  BY <1>2, <1>3, <1>4, <1>5 DEF TypeOK, setVars, landVars

LEMMA TickType == TypeOK /\ Tick => TypeOK'
<1> SUFFICES ASSUME TypeOK, Tick PROVE TypeOK'
  OBVIOUS
<1>1. flight' \in [Node -> 0..RoundTime]
  <2> SUFFICES ASSUME NEW n \in Node
               PROVE  (IF phase[n] \in InFlight THEN flight[n] + 1 ELSE 0) \in 0..RoundTime
    BY DEF Tick
  <2> QED
    BY TimeAssumption DEF Tick, TypeOK
<1>2. stable' \in [Node -> -1..Dwell]
  <2> SUFFICES ASSUME NEW n \in Node
               PROVE  Advance(stable[n], Dwell) \in -1..Dwell
    BY DEF Tick
  <2>1. stable[n] \in -1..Dwell
    BY DEF TypeOK
  <2> QED
    BY <2>1, TimeAssumption DEF Advance
<1>3. goneFor' \in [Node -> [Node -> -1..GoneDwell]]
  <2> SUFFICES ASSUME NEW n \in Node, NEW p \in Node
               PROVE  Advance(goneFor[n][p], GoneDwell) \in -1..GoneDwell
    BY DEF Tick
  <2>1. goneFor[n][p] \in -1..GoneDwell
    BY DEF TypeOK
  <2> QED
    BY <2>1, TimeAssumption DEF Advance
<1>4. away' \in [Node -> 0..AskTime + 1]
  <2> SUFFICES ASSUME NEW n \in Node
               PROVE  (IF phase[n] = "down" THEN Advance(away[n], AskTime + 1) ELSE 0)
                        \in 0..AskTime + 1
    BY DEF Tick
  <2>1. away[n] \in 0..AskTime + 1
    BY DEF TypeOK
  <2> QED
    BY <2>1, TimeAssumption DEF Advance
<1>5. QED
  BY <1>1, <1>2, <1>3, <1>4 DEF Tick, TypeOK, nodeVars, setVars, landVars

LEMMA FoundType ==
  ASSUME TypeOK, NEW n \in Node, \E s \in SetIds : Found(n, s)
  PROVE  /\ config' \in [Node -> SetIds \cup {NoSet}]
         /\ members' \in [SetIds -> SUBSET Node]
         /\ holds' \in [SetIds -> Volume]
BY DEF TypeOK, Found

LEMMA TypeStep == TypeOK /\ [Next]_vars => TypeOK'
<1> SUFFICES ASSUME TypeOK, [Next]_vars PROVE TypeOK'
  OBVIOUS
<1> USE TimeAssumption, BoundAssumption
    DEF TypeOK, nodeVars, roundVars, clockVars, setVars, landVars
<1>1. ASSUME NEW n \in Node, Boot(n) PROVE TypeOK'
  BY <1>1 DEF Boot
<1>2. ASSUME NEW n \in Node, Initialise(n) PROVE TypeOK'
  BY <1>2 DEF Initialise
<1>3. ASSUME NEW n \in Node, Ready(n) PROVE TypeOK'
  BY <1>3 DEF Ready
<1>4. ASSUME NEW n \in Node, Stop(n) PROVE TypeOK'
  BY <1>4 DEF Stop, Fault, NoAnswers, NoClocks
<1>5. ASSUME NEW n \in Node, Replace(n) PROVE TypeOK'
  BY <1>5 DEF Replace, Fault
<1>6. ASSUME NEW n \in Node, LeaveLoop(n) \/ Ask(n) PROVE TypeOK'
  BY <1>6 DEF LeaveLoop, Ask
<1>7. ASSUME NEW n \in Node, NEW p \in Peers(n), Reply(n, p) PROVE TypeOK'
  BY <1>7 DEF Reply, StandingOf
<1>8. ASSUME NEW n \in Node, NEW p \in Peers(n), NoReply(n, p) PROVE TypeOK'
  BY <1>8 DEF NoReply, Fault
<1>9. ASSUME NEW n \in Node, Decide(n) PROVE TypeOK'
  BY <1>9, DecideType
<1>10. ASSUME NEW n \in Node, Initiate(n) PROVE TypeOK'
  <2>1. /\ config' \in [Node -> SetIds \cup {NoSet}]
        /\ members' \in [SetIds -> SUBSET Node]
        /\ holds' \in [SetIds -> Volume]
        /\ lapses' \in SUBSET Lapse
    <3>1. CASE UNCHANGED <<config, setVars, lapses>>
      BY <3>1
    <3>2. CASE (\E s \in SetIds : Found(n, s)) /\ lapses' = lapses \cup LapsesNow(n)
      BY <3>2, FoundType DEF LapsesNow, Lapse
    <3>3. QED
      BY <1>10, <3>1, <3>2 DEF Initiate
  <2>2. /\ stable' \in [Node -> -1..Dwell]
        /\ phase' \in [Node -> Phase]
        /\ answers' \in [Node -> [Node -> Standing]]
        /\ flight' \in [Node -> 0..RoundTime]
    BY <1>10 DEF Initiate, EndRound, NoAnswers
  <2>3. UNCHANGED <<volume, hasData, goneFor, stray, away, faults>>
    BY <1>10 DEF Initiate
  <2>4. QED
    BY <2>1, <2>2, <2>3
<1>11. ASSUME NEW n \in Node, NEW p \in Peers(n), Join(n, p) PROVE TypeOK'
  <2>1. config[p] \in SetIds
    BY <1>11 DEF Join, Leads
  <2>2. QED
    BY <1>11, <2>1 DEF Join, EndRound, NoAnswers
<1>12. ASSUME NEW n \in Node, CommandFails(n) PROVE TypeOK'
  <2>1. faults' \in 0..MaxFaults
    BY <1>12 DEF CommandFails, Fault
  <2>2. stray' \in {stray, [stray EXCEPT ![n] = TRUE]}
    BY <1>12, Zenon DEF CommandFails
  <2>3. stray' \in [Node -> BOOLEAN]
    BY <2>2
  <2>4. /\ EndRound(n) /\ phase' = [phase EXCEPT ![n] = "idle"]
        /\ stable' = [stable EXCEPT ![n] = Stopped]
        /\ UNCHANGED <<volume, config, hasData, goneFor, setVars, lapses, away>>
    BY <1>12 DEF CommandFails
  <2>5. QED
    BY <2>1, <2>3, <2>4 DEF EndRound, NoAnswers
<1>13. ASSUME NEW n \in Node, NEW p \in Peers(n), Deliver(n, p) PROVE TypeOK'
  <2>1. config[p] \in SetIds
    BY <1>13 DEF Deliver
  <2>2. QED
    BY <1>13, <2>1 DEF Deliver
<1>14. ASSUME NEW n \in Node, LandStray(n) PROVE TypeOK'
  BY <1>14, FoundType DEF LandStray, Lapse
<1>15. CASE Tick
  BY <1>15, TickType
<1>16. CASE UNCHANGED vars
  BY <1>16 DEF vars
<1>17. QED
  BY <1>1, <1>2, <1>3, <1>4, <1>5, <1>6, <1>7, <1>8, <1>9, <1>10, <1>11, <1>12,
     <1>13, <1>14, <1>15, <1>16 DEF Next, NodeStep

\* The loops, their clocks and the sets stay within their types, whatever the
\* number of nodes and faults: no clock passes the value the code compares it with.
THEOREM TypeCorrect == Spec => []TypeOK
<1>1. QED
  BY TypeInit, TypeStep, PTL DEF Spec

-----------------------------------------------------------------------------
(* At most one initiator. *)

LEMMA InitIInv == Init => IInv
<1> SUFFICES ASSUME Init PROVE IInv
  OBVIOUS
<1>1. TypeOK
  BY TypeInit
<1>2. QED
  BY <1>1
  DEF Init, IInv, NodeInv, ClockNeedsLoop, RoundOver, CurrentAnswers, Committed,
      NoAnswers

\* A step of node n alone preserves what every other node relies on: n's flag
\* changes only while no decision of n is running, and n's decision clock goes
\* on, stops, or starts at 0.
LEMMA LocalStep ==
  ASSUME IInv, TypeOK', NEW n \in Node, NodeInv(n)',
         \A m \in Peers(n) :
           /\ phase'[m] = phase[m]
           /\ answers'[m] = answers[m]
           /\ stable'[m] = stable[m]
           /\ flight'[m] = flight[m]
           /\ hasData'[m] = hasData[m],
         stable'[n] = stable[n] \/ stable'[n] <= 0,
         hasData'[n] = hasData[n] \/ stable'[n] = Stopped
  PROVE  IInv'
<1> SUFFICES ASSUME NEW m \in Peers(n) PROVE NodeInv(m)'
  BY DEF IInv
<1>1. NodeInv(m) /\ n \in Peers(m)
  BY DEF IInv
<1>2. flight'[m] \in Nat /\ stable[n] \in Int /\ stable'[n] \in Int
  BY TimeAssumption DEF IInv, TypeOK
<1>3. ClockNeedsLoop(m)' /\ RoundOver(m)'
  BY <1>1 DEF NodeInv, ClockNeedsLoop, RoundOver
<1>4. CurrentAnswers(m)'
  <2> SUFFICES ASSUME NEW p \in Peers(m), answers'[m][p] \in NoSetStanding
               PROVE  \/ (answers'[m][p] = "NoSetData") = hasData'[p]
                      \/ stable'[p] <= flight'[m]
    BY DEF CurrentAnswers
  <2>1. \/ (answers[m][p] = "NoSetData") = hasData[p]
        \/ stable[p] <= flight[m]
    BY <1>1 DEF NodeInv, CurrentAnswers
  <2>2. CASE p = n
    BY <1>2, <2>1, <2>2
  <2>3. CASE p # n
    BY <2>1, <2>3
  <2>4. QED
    BY <2>2, <2>3
<1>5. Committed(m)'
  <2> SUFFICES ASSUME phase'[m] = "initiating"
               PROVE  /\ stable'[m] = Dwell
                      /\ \A p \in Peers(m) :
                           \/ answers'[m][p] \in NoSetStanding /\ ~PeerWins(m, p)'
                           \/ stable'[p] <= flight'[m]
    BY DEF Committed
  <2>1. /\ stable[m] = Dwell
        /\ \A p \in Peers(m) :
             \/ answers[m][p] \in NoSetStanding /\ ~PeerWins(m, p)
             \/ stable[p] <= flight[m]
    BY <1>1 DEF NodeInv, Committed
  <2>2. \A p \in Peers(m) : PeerWins(m, p)' = PeerWins(m, p)
    BY DEF PeerWins
  <2>3. \A p \in Peers(m) : stable[p] <= flight[m] => stable'[p] <= flight'[m]
    BY <1>2
  <2>4. QED
    BY <2>1, <2>2, <2>3
<1>6. QED
  BY <1>3, <1>4, <1>5 DEF NodeInv

\* The round's decision: the only step that starts a clock or commits.
LEMMA DecideIInv ==
  ASSUME IInv, TypeOK', NEW n \in Node, Decide(n)
  PROVE  IInv'
<1> PICK absent \in SUBSET Peers(n) :
      \/ DecideJoin(n, absent) \/ DecideWait(n, absent)
      \/ DecideHold(n, absent) \/ DecideInitiate(n, absent)
  BY DEF Decide
<1>1. Probe(n, absent)
  BY DEF DecideJoin, DecideWait, DecideHold, DecideInitiate
<1>2. phase[n] = "asking" /\ NodeInv(n)
  BY <1>1 DEF Probe, IInv
<1>3. UNCHANGED hasData
  BY <1>1 DEF Probe
<1>4. /\ stable'[n] \in {Stopped, Held(n)}
      /\ \A m \in Peers(n) : stable'[m] = stable[m]
      /\ \A m \in Peers(n) : phase'[m] = phase[m]
  BY DEF DecideJoin, DecideWait, DecideHold, DecideInitiate, IInv, TypeOK
<1>5. \A m \in Peers(n) : answers'[m] = answers[m] /\ flight'[m] = flight[m]
  BY DEF DecideJoin, DecideWait, DecideHold, DecideInitiate, EndRound, roundVars,
         IInv, TypeOK
<1>6. stable'[n] = stable[n] \/ stable'[n] <= 0
  BY <1>4 DEF Held
<1>7. CurrentAnswers(n)'
  <2>1. CASE EndRound(n)
    <3>1. answers'[n] = NoAnswers
      BY <2>1 DEF EndRound, IInv, TypeOK
    <3>2. QED
      BY <3>1 DEF CurrentAnswers, NoAnswers
  <2>2. CASE UNCHANGED roundVars
    BY <2>2, <1>2, <1>3, <1>4 DEF NodeInv, CurrentAnswers, roundVars
  <2>3. QED
    BY <2>1, <2>2 DEF DecideJoin, DecideWait, DecideHold, DecideInitiate
<1>8. ClockNeedsLoop(n)' /\ RoundOver(n)'
  <2>1. CASE EndRound(n) /\ phase' = [phase EXCEPT ![n] = "idle"]
    BY <2>1 DEF EndRound, IInv, TypeOK, ClockNeedsLoop, RoundOver
  <2>2. CASE phase' = [phase EXCEPT ![n] = "joining"]
    BY <2>2 DEF IInv, TypeOK, ClockNeedsLoop, RoundOver
  <2>3. CASE phase' = [phase EXCEPT ![n] = "initiating"]
    BY <2>3 DEF IInv, TypeOK, ClockNeedsLoop, RoundOver
  <2>4. QED
    BY <2>1, <2>2, <2>3 DEF DecideJoin, DecideWait, DecideHold, DecideInitiate
<1>9. Committed(n)'
  <2> SUFFICES ASSUME phase'[n] = "initiating"
               PROVE  Committed(n)'
    BY DEF Committed
  <2>1. DecideInitiate(n, absent)
    BY DEF DecideJoin, DecideWait, DecideHold, IInv, TypeOK
  <2>2. stable'[n] = Dwell
    BY <2>1, HeldType DEF DecideInitiate, IInv, TypeOK
  <2>3. UNCHANGED <<answers, flight>>
    BY <2>1 DEF DecideInitiate, roundVars
  <2>4. ASSUME NEW p \in Peers(n)
        PROVE  \/ answers'[n][p] \in NoSetStanding /\ ~PeerWins(n, p)'
               \/ stable'[p] <= flight'[n]
    <3>1. CASE p \in Counted(n, absent)
      <4>1. answers[n][p] \in NoSetStanding /\ ~PeerWins(n, p)
        BY <2>1, <3>1 DEF DecideInitiate, SafeToInitiate
      <4>2. PeerWins(n, p)' = PeerWins(n, p)
        BY <1>3, <2>3 DEF PeerWins
      <4>3. QED
        BY <2>3, <4>1, <4>2
    <3>2. CASE p \notin Counted(n, absent)
      <4>1. p \in absent
        BY <3>2 DEF Counted, Waived
      <4>2. phase[p] \notin Serving
        BY <1>1, <4>1 DEF Probe, Unregistered
      <4>3. stable[p] = Stopped
        BY <4>2 DEF IInv, NodeInv, ClockNeedsLoop
      <4>4. flight[n] \in Nat
        BY TimeAssumption DEF IInv, TypeOK
      <4>5. QED
        BY <1>4, <2>3, <4>3, <4>4
    <3>3. QED
      BY <3>1, <3>2
  <2>5. QED
    BY <2>2, <2>4 DEF Committed
<1>10. NodeInv(n)'
  BY <1>7, <1>8, <1>9 DEF NodeInv
<1>11. QED
  BY <1>3, <1>4, <1>5, <1>6, <1>10, LocalStep

\* Time passes alike for every round and every decision.
LEMMA TickIInv ==
  ASSUME IInv, TypeOK', Tick
  PROVE  IInv'
<1> SUFFICES ASSUME NEW n \in Node PROVE NodeInv(n)'
  BY DEF IInv
<1>1. NodeInv(n)
  BY DEF IInv
<1>2. UNCHANGED <<phase, hasData, answers>>
  BY DEF Tick, nodeVars
<1>3. \A p \in Node : stable'[p] = Advance(stable[p], Dwell)
  BY DEF Tick
<1>4. /\ phase[n] \in InFlight => flight'[n] = flight[n] + 1
      /\ flight[n] \in Nat /\ \A p \in Node : stable[p] \in Int
  BY TimeAssumption DEF Tick, IInv, TypeOK
<1>5. \A p \in Node :
        phase[n] \in InFlight /\ stable[p] <= flight[n] => stable'[p] <= flight'[n]
  BY <1>3, <1>4 DEF Advance
<1>6. ClockNeedsLoop(n)' /\ RoundOver(n)'
  BY <1>1, <1>2, <1>3 DEF NodeInv, ClockNeedsLoop, RoundOver, Advance
<1>7. CurrentAnswers(n)'
  <2> SUFFICES ASSUME NEW p \in Peers(n), answers[n][p] \in NoSetStanding
               PROVE  \/ (answers[n][p] = "NoSetData") = hasData[p]
                      \/ stable'[p] <= flight'[n]
    BY <1>2 DEF CurrentAnswers
  <2>1. phase[n] \in InFlight
    BY <1>1 DEF NodeInv, RoundOver, NoAnswers
  <2>2. QED
    BY <1>1, <1>5, <2>1 DEF NodeInv, CurrentAnswers
<1>8. Committed(n)'
  <2>1. \A p \in Peers(n) : PeerWins(n, p)' = PeerWins(n, p)
    BY <1>2 DEF PeerWins
  <2>2. stable[n] = Dwell => stable'[n] = Dwell
    BY <1>3 DEF Advance
  <2>3. QED
    BY <1>1, <1>2, <1>5, <2>1, <2>2 DEF NodeInv, Committed
<1>9. QED
  BY <1>6, <1>7, <1>8 DEF NodeInv

\* A round that is over, or that has not begun, leaves n committed to nothing.
LEMMA NoRound ==
  ASSUME NEW n \in Node, phase'[n] \notin {"initiating"}, answers'[n] = NoAnswers,
         ClockNeedsLoop(n)'
  PROVE  NodeInv(n)'
BY DEF NodeInv, RoundOver, CurrentAnswers, Committed, NoAnswers

LEMMA StepIInv == IInv /\ [Next]_vars => IInv'
<1> SUFFICES ASSUME IInv, [Next]_vars PROVE IInv'
  OBVIOUS
<1> USE DEF nodeVars, roundVars, clockVars
<1>1. TypeOK /\ TypeOK' /\ \A n \in Node : NodeInv(n)
  BY TypeStep DEF IInv
<1>2. ASSUME NEW n \in Node,
             Boot(n) \/ Initialise(n) \/ Ready(n) \/ Replace(n) \/ LeaveLoop(n) \/ Ask(n)
      PROVE IInv'
  <2>1. phase[n] \notin InFlight
    BY <1>2 DEF Boot, Initialise, Ready, Replace, LeaveLoop, Ask
  <2>2. answers[n] = NoAnswers /\ (phase[n] \notin Serving => stable[n] = Stopped)
    BY <1>1, <2>1 DEF NodeInv, RoundOver, ClockNeedsLoop
  <2>3. /\ UNCHANGED <<answers, stable, flight>>
        /\ phase'[n] # "initiating"
        /\ phase'[n] \in Serving \/ phase[n] \notin Serving
    BY <1>1, <1>2 DEF Boot, Initialise, Ready, Replace, LeaveLoop, Ask, TypeOK
  <2>4. \A m \in Peers(n) : phase'[m] = phase[m] /\ hasData'[m] = hasData[m]
    BY <1>1, <1>2 DEF Boot, Initialise, Ready, Replace, LeaveLoop, Ask, TypeOK
  <2>5. hasData'[n] = hasData[n] \/ stable'[n] = Stopped
    BY <1>2, <2>2 DEF Boot, Initialise, Ready, Replace, LeaveLoop, Ask
  <2>6. NodeInv(n)'
    BY <2>2, <2>3, NoRound DEF ClockNeedsLoop
  <2>7. QED
    BY <1>1, <2>3, <2>4, <2>5, <2>6, LocalStep
<1>3. ASSUME NEW n \in Node, Stop(n) PROVE IInv'
  <2>1. /\ phase'[n] = "down" /\ answers'[n] = NoAnswers /\ stable'[n] = Stopped
        /\ UNCHANGED hasData
    BY <1>1, <1>3 DEF Stop, TypeOK
  <2>2. \A m \in Peers(n) :
          /\ phase'[m] = phase[m] /\ answers'[m] = answers[m]
          /\ stable'[m] = stable[m] /\ flight'[m] = flight[m]
    BY <1>1, <1>3 DEF Stop, TypeOK
  <2>3. NodeInv(n)'
    BY <2>1, NoRound DEF ClockNeedsLoop
  <2>4. QED
    BY <1>1, <2>1, <2>2, <2>3, LocalStep
<1>4. ASSUME NEW n \in Node, NEW p \in Peers(n), Reply(n, p) \/ NoReply(n, p)
      PROVE  IInv'
  <2>1. phase[n] = "asking" /\ UNCHANGED <<phase, hasData, stable, flight>>
    BY <1>4 DEF Reply, NoReply
  <2>2. \A m \in Peers(n) : answers'[m] = answers[m]
    BY <1>1, <1>4 DEF Reply, NoReply, TypeOK
  <2>3. /\ \A q \in Peers(n) \ {p} : answers'[n][q] = answers[n][q]
        /\ answers'[n][p] \in NoSetStanding
             => (answers'[n][p] = "NoSetData") = hasData[p]
    BY <1>1, <1>4 DEF Reply, NoReply, StandingOf, TypeOK
  <2>4. CurrentAnswers(n)'
    BY <1>1, <2>1, <2>3 DEF NodeInv, CurrentAnswers
  <2>5. NodeInv(n)'
    BY <1>1, <2>1, <2>4 DEF NodeInv, ClockNeedsLoop, RoundOver, Committed
  <2>6. QED
    BY <1>1, <2>1, <2>2, <2>5, LocalStep
<1>5. ASSUME NEW n \in Node, Decide(n) PROVE IInv'
  BY <1>1, <1>5, DecideIInv
<1>6. ASSUME NEW n \in Node,
             Initiate(n) \/ CommandFails(n) \/ \E p \in Peers(n) : Join(n, p)
      PROVE  IInv'
  <2>1. EndRound(n) /\ phase' = [phase EXCEPT ![n] = "idle"] /\ UNCHANGED hasData
    BY <1>6 DEF Initiate, CommandFails, Join
  <2>2. stable' = [stable EXCEPT ![n] = Stopped] \/ UNCHANGED stable
    BY <1>6 DEF Initiate, CommandFails, Join
  <2>3. \A m \in Peers(n) :
          /\ phase'[m] = phase[m] /\ answers'[m] = answers[m]
          /\ stable'[m] = stable[m] /\ flight'[m] = flight[m]
    BY <1>1, <2>1, <2>2 DEF EndRound, TypeOK
  <2>4. /\ phase'[n] = "idle" /\ answers'[n] = NoAnswers
        /\ stable'[n] = stable[n] \/ stable'[n] = Stopped
    BY <1>1, <2>1, <2>2 DEF EndRound, TypeOK
  <2>5. NodeInv(n)'
    BY <2>4, NoRound DEF ClockNeedsLoop
  <2>6. QED
    BY <1>1, <2>1, <2>3, <2>4, <2>5, LocalStep
<1>7. ASSUME NEW n \in Node, NEW p \in Peers(n), Deliver(n, p) PROVE IInv'
  <2>1. UNCHANGED <<phase, hasData, answers, stable, flight>>
    BY <1>7 DEF Deliver
  <2>2. NodeInv(n)'
    BY <1>1, <2>1 DEF NodeInv, ClockNeedsLoop, RoundOver, CurrentAnswers, Committed,
                      PeerWins
  <2>3. QED
    BY <1>1, <2>1, <2>2, LocalStep
<1>8. ASSUME NEW n \in Node, LandStray(n) PROVE IInv'
  <2>1. UNCHANGED <<phase, hasData, answers, stable, flight>>
    BY <1>8 DEF LandStray
  <2>2. NodeInv(n)'
    BY <1>1, <2>1 DEF NodeInv, ClockNeedsLoop, RoundOver, CurrentAnswers, Committed,
                      PeerWins
  <2>3. QED
    BY <1>1, <2>1, <2>2, LocalStep
<1>9. CASE Tick
  BY <1>1, <1>9, TickIInv
<1>10. CASE UNCHANGED vars
  BY <1>1, <1>10 DEF vars, IInv, TypeOK, setVars, landVars, NodeInv, ClockNeedsLoop,
                     RoundOver, CurrentAnswers, Committed, PeerWins
<1>11. QED
  BY <1>2, <1>3, <1>4, <1>5, <1>6, <1>7, <1>8, <1>9, <1>10 DEF Next, NodeStep

\* Two nodes committed at once would have decided at the same age, each after
\* hearing the other, with the same flags; and of two nodes one wins the tie.
LEMMA IInvOneInitiator == IInv => OneInitiator
<1> SUFFICES ASSUME IInv, NEW m \in Node, NEW n \in Node, m # n,
                    Initiating(m), Initiating(n)
             PROVE  FALSE
  BY DEF OneInitiator
<1> USE DEF Initiating
<1>1. stable[m] = Dwell /\ stable[n] = Dwell
  BY DEF IInv, NodeInv, Committed
<1>2. flight[m] \in 0..RoundTime /\ flight[n] \in 0..RoundTime
  BY DEF IInv, TypeOK
<1>3. ~(stable[m] <= flight[n]) /\ ~(stable[n] <= flight[m])
  BY <1>1, <1>2, TimeAssumption
<1>4. answers[m][n] \in NoSetStanding /\ ~PeerWins(m, n)
  BY <1>3 DEF IInv, NodeInv, Committed
<1>5. answers[n][m] \in NoSetStanding /\ ~PeerWins(n, m)
  BY <1>3 DEF IInv, NodeInv, Committed
<1>6. (answers[m][n] = "NoSetData") = hasData[n]
  BY <1>3, <1>4 DEF IInv, NodeInv, CurrentAnswers
<1>7. (answers[n][m] = "NoSetData") = hasData[m]
  BY <1>3, <1>5 DEF IInv, NodeInv, CurrentAnswers
<1>8. hasData[m] = hasData[n] /\ ~(Rank[n] < Rank[m]) /\ ~(Rank[m] < Rank[n])
  BY <1>4, <1>5, <1>6, <1>7 DEF PeerWins, IInv, TypeOK
<1>9. Rank[m] = Rank[n]
  BY <1>8, RankAssumption
<1>10. QED
  BY <1>9, RankAssumption

\* "Exactly one wins": however many nodes there are, and however their rounds,
\* restarts, waivers and lost answers interleave, two of them are never committed
\* to replSetInitiate at once in rounds that have not outlasted the dwell.  That
\* earlier rounds did, and what became of their commands, does not matter.
THEOREM OneInitiatorHolds == Spec => []OneInitiator
<1>1. QED
  BY InitIInv, StepIInv, IInvOneInitiator, PTL DEF Spec

-----------------------------------------------------------------------------
(* A node that has heard everyone initiates beside no set, and not instead *)
(* of user data.                                                           *)

\* A round that is over takes no time, one that asks is not yet late, and only
\* a stopped container is away.
AskInTime(n) ==
  /\ phase[n] = "asking" => flight[n] <= AskTime
  /\ phase[n] \notin InFlight => flight[n] = 0
  /\ phase[n] # "down" => away[n] = 0

\* Without has_data a running node's volume holds user data only by initial sync.
FlagFits(n) ==
  phase[n] # "down" /\ ~hasData[n] /\ config[n] = NoSet => volume[n] # "user"

\* And a peer that answered so still does not hold user data of its own.
BlankStands(n) ==
  \A p \in Peers(n) :
    answers[n][p] = "NoSetBlank" => config[p] # NoSet \/ volume[p] # "user"

\* Who initiates after hearing everyone beat each of them.
BeatsAll(n) ==
  phase[n] = "initiating" /\ NoneWaived(n)
    => \A p \in Peers(n) : answers[n][p] \in NoSetStanding /\ ~PeerWins(n, p)

\* p's set outlasts n's round: p has not been down for as long as that.
SetStays(n, p) == config[p] # NoSet /\ away[p] <= flight[n]

\* n's decision is so young that the round's questions end within the dwell.
TooYoung(n) == AskTime < Dwell /\ stable[n] + AskTime < Dwell + flight[n]

\* The round n is in ends without replSetInitiate, or with a peer left out: it
\* has heard who wins, who is in a set or nothing at all, is still to hear from
\* a peer in a set, or began too soon after n's decision.
Hopeless(n) ==
  \/ TooYoung(n)
  \/ \E q \in Peers(n) :
       \/ answers[n][q] \in {"InSet", "Unknown"}
       \/ answers[n][q] \in NoSetStanding /\ PeerWins(n, q)
       \/ answers[n][q] = "Pending" /\ SetStays(n, q)

\* A peer that answered out of no set and has one now ends n's hope.
LateSetsShow(n) ==
  phase[n] = "asking" /\ config[n] = NoSet =>
    \A p \in Peers(n) :
      answers[n][p] \in NoSetStanding /\ config[p] # NoSet => Hopeless(n)

HeardInv(n) ==
  AskInTime(n) /\ FlagFits(n) /\ BlankStands(n) /\ BeatsAll(n) /\ LateSetsShow(n)

\* What InitiatesAlone says while no command has landed late.
NoRival == \A n \in Node : Founding(n) => \A p \in Peers(n) : config[p] = NoSet

AloneInv == IInv /\ NoRival /\ \A n \in Node : HeardInv(n)

\* The strengthening that every step preserves.
LandedInv == IInv /\ ("late" \notin lapses => AloneInv)

LEMMA InitAlone == Init => AloneInv
<1> SUFFICES ASSUME Init PROVE AloneInv
  OBVIOUS
<1>1. IInv
  BY InitIInv
<1>2. QED
  BY <1>1
  DEF Init, AloneInv, NoRival, Founding, Initiating, HeardInv, AskInTime, FlagFits, BlankStands,
      BeatsAll, LateSetsShow, NoAnswers

\* A node between rounds has heard nothing and hopes for nothing.
LEMMA Between ==
  ASSUME NEW n \in Node, phase'[n] \notin InFlight, answers'[n] = NoAnswers,
         flight'[n] = 0, phase'[n] # "down" => away'[n] = 0, FlagFits(n)'
  PROVE  HeardInv(n)'
BY DEF HeardInv, AskInTime, BlankStands, BeatsAll, LateSetsShow, NoAnswers

\* Hope does not come back while the round's answers and decision stand.
LEMMA HopelessStays ==
  ASSUME NEW n \in Node, Hopeless(n),
         answers'[n] = answers[n], stable'[n] = stable[n], flight'[n] = flight[n],
         \A p \in Node : hasData'[p] = hasData[p] \/ p # n,
         \A p \in Peers(n) : SetStays(n, p) => SetStays(n, p)'
  PROVE  Hopeless(n)'
<1>1. \A p \in Peers(n) : PeerWins(n, p) => PeerWins(n, p)'
  BY DEF PeerWins
<1>2. QED
  BY <1>1 DEF Hopeless, TooYoung

\* What a step of node n must see to for the others: it takes a config only
\* beside nodes that cannot initiate any more.
LEMMA OthersAlone ==
  ASSUME AloneInv, IInv', NEW n \in Node, HeardInv(n)',
         \A m \in Peers(n) :
           /\ phase'[m] = phase[m] /\ answers'[m] = answers[m]
           /\ stable'[m] = stable[m] /\ flight'[m] = flight[m]
           /\ hasData'[m] = hasData[m] /\ config'[m] = config[m]
           /\ volume'[m] = volume[m] /\ away'[m] = away[m],
         config'[n] # NoSet =>
           \/ config[n] # NoSet
           \/ \A m \in Peers(n) : config[m] = NoSet =>
                /\ phase[m] = "asking" /\ answers[m][n] \in NoSetStanding
                     => Hopeless(m)
                /\ ~Founding(m),
         \A m \in Peers(n) : phase[m] = "asking" /\ SetStays(m, n) => SetStays(m, n)',
         config[n] # NoSet \/ volume[n] # "user"
           => config'[n] # NoSet \/ volume'[n] # "user",
         Founding(n)' => \A p \in Peers(n) : config'[p] = NoSet
  PROVE  AloneInv'
<1>1. ASSUME NEW m \in Peers(n) PROVE HeardInv(m)'
  <2>1. HeardInv(m) /\ n \in Peers(m)
    BY DEF AloneInv
  <2>2. \A p \in Peers(m) : PeerWins(m, p)' = PeerWins(m, p)
    BY <1>1 DEF PeerWins
  <2>3. AskInTime(m)' /\ FlagFits(m)'
    BY <1>1, <2>1 DEF HeardInv, AskInTime, FlagFits
  <2>4. BlankStands(m)'
    BY <1>1, <2>1 DEF HeardInv, BlankStands
  <2>5. BeatsAll(m)'
    BY <1>1, <2>1, <2>2 DEF HeardInv, BeatsAll, NoneWaived
  <2>6. LateSetsShow(m)'
    <3> SUFFICES ASSUME phase'[m] = "asking", config'[m] = NoSet, NEW p \in Peers(m),
                        answers'[m][p] \in NoSetStanding, config'[p] # NoSet
                 PROVE  Hopeless(m)'
      BY DEF LateSetsShow
    <3>1. phase[m] = "asking" /\ config[m] = NoSet /\ answers[m][p] \in NoSetStanding
      BY <1>1
    <3>2. Hopeless(m)
      <4>1. CASE config[p] # NoSet
        BY <2>1, <3>1, <4>1 DEF HeardInv, LateSetsShow
      <4>2. CASE config[p] = NoSet
        <5>1. p = n
          BY <4>2
        <5>2. QED
          BY <1>1, <3>1, <4>2, <5>1
      <4>3. QED
        BY <4>1, <4>2
    <3>3. \A q \in Peers(m) : SetStays(m, q) => SetStays(m, q)'
      BY <1>1, <3>1 DEF SetStays
    <3>4. QED
      BY <1>1, <3>2, <3>3, HopelessStays
  <2>7. QED
    BY <2>3, <2>4, <2>5, <2>6 DEF HeardInv
<1>2. NoRival'
  <2> SUFFICES ASSUME NEW m \in Node, Founding(m)', NEW p \in Peers(m)
               PROVE  config'[p] = NoSet
    BY DEF NoRival
  <2>1. CASE m = n
    BY <2>1
  <2>2. CASE m # n
    <3>1. Founding(m) /\ config[m] = NoSet
      BY <2>2 DEF Founding, Initiating, NoneWaived
    <3>2. config[p] = NoSet
      BY <3>1 DEF AloneInv, NoRival
    <3>3. QED
      BY <2>2, <3>1, <3>2
  <2>3. QED
    BY <2>1, <2>2
<1>3. QED
  BY <1>1, <1>2 DEF AloneInv

\* A round that commits n after everyone answered leaves no peer with a set.
LEMMA DecideAlone ==
  ASSUME AloneInv, IInv', NEW n \in Node, Decide(n)
  PROVE  AloneInv'
<1> PICK absent \in SUBSET Peers(n) :
      \/ DecideJoin(n, absent) \/ DecideWait(n, absent)
      \/ DecideHold(n, absent) \/ DecideInitiate(n, absent)
  BY DEF Decide
<1>1. Probe(n, absent)
  BY DEF DecideJoin, DecideWait, DecideHold, DecideInitiate
<1>2. phase[n] = "asking" /\ UNCHANGED <<volume, config, hasData, members, holds, away>>
  BY <1>1 DEF Probe, setVars
<1>3. TypeOK /\ TypeOK' /\ HeardInv(n)
  BY DEF AloneInv, IInv
<1>4. \A m \in Peers(n) :
        /\ phase'[m] = phase[m] /\ answers'[m] = answers[m]
        /\ stable'[m] = stable[m] /\ flight'[m] = flight[m]
  BY <1>3 DEF DecideJoin, DecideWait, DecideHold, DecideInitiate, EndRound, roundVars,
              TypeOK
<1>5. CASE DecideWait(n, absent) \/ DecideHold(n, absent)
  <2>1. phase'[n] = "idle" /\ answers'[n] = NoAnswers /\ flight'[n] = 0
    BY <1>3, <1>5 DEF DecideWait, DecideHold, EndRound, TypeOK
  <2>2. FlagFits(n)' /\ away'[n] = 0
    BY <1>2, <1>3 DEF HeardInv, FlagFits, AskInTime
  <2>3. HeardInv(n)'
    BY <2>1, <2>2, Between
  <2>4. QED
    BY <1>2, <1>4, <2>1, <2>3, OthersAlone DEF SetStays, Founding, Initiating
<1>6. CASE DecideJoin(n, absent)
  <2>1. phase'[n] = "joining" /\ UNCHANGED <<answers, flight>>
    BY <1>3, <1>6 DEF DecideJoin, roundVars, TypeOK
  <2>2. HeardInv(n)'
    BY <1>2, <1>3, <2>1
    DEF HeardInv, AskInTime, FlagFits, BlankStands, BeatsAll, LateSetsShow
  <2>3. QED
    BY <1>2, <1>4, <2>1, <2>2, OthersAlone DEF SetStays, Founding, Initiating
<1>7. CASE DecideInitiate(n, absent)
  <2>1. phase'[n] = "initiating" /\ UNCHANGED <<answers, flight>>
    BY <1>3, <1>7 DEF DecideInitiate, roundVars, TypeOK
  <2>2. ASSUME NoneWaived(n), NEW p \in Peers(n)
        PROVE  answers[n][p] \in NoSetStanding /\ ~PeerWins(n, p)
    <3>1. p \in Counted(n, absent)
      BY <1>1, <2>2 DEF NoneWaived, Probe, Counted, Waived
    <3>2. QED
      BY <1>7, <3>1 DEF DecideInitiate, SafeToInitiate
  <2>3. \A p \in Peers(n) : PeerWins(n, p)' = PeerWins(n, p)
    BY <1>2, <2>1 DEF PeerWins
  <2>4. NoneWaived(n)' = NoneWaived(n)
    BY <2>1 DEF NoneWaived
  <2>5. HeardInv(n)'
    BY <1>2, <1>3, <2>1, <2>2, <2>3, <2>4
    DEF HeardInv, AskInTime, FlagFits, BlankStands, BeatsAll, LateSetsShow
  <2>6. ASSUME config[n] = NoSet, NoneWaived(n), NEW p \in Peers(n), config[p] # NoSet
        PROVE  FALSE
    <3>1. Hopeless(n)
      BY <1>2, <1>3, <2>2, <2>6 DEF HeardInv, LateSetsShow
    <3>2. AskTime < Dwell /\ stable[n] + AskTime < Dwell + flight[n]
      BY <2>2, <2>6, <3>1 DEF Hopeless, TooYoung
    <3>3. flight[n] \in 0..AskTime
      BY <1>2, <1>3, TimeAssumption DEF HeardInv, AskInTime, TypeOK
    <3>4. stable[n] >= Dwell
      BY <1>7, <3>2, TimeAssumption DEF DecideInitiate, Held
    <3>5. stable[n] \in Int
      BY <1>3, TimeAssumption DEF TypeOK
    <3>6. QED
      BY <3>2, <3>3, <3>4, <3>5, TimeAssumption
  <2>7. QED
    BY <1>2, <1>4, <2>4, <2>5, <2>6, OthersAlone DEF SetStays, Founding
<1>8. QED
  BY <1>5, <1>6, <1>7

\* Whoever answered a node that initiates in time loses the tie-break, and knows it.
LEMMA InitiateAlone ==
  ASSUME AloneInv, IInv', NEW n \in Node, Initiate(n), "late" \notin lapses'
  PROVE  AloneInv'
<1> USE DEF setVars
<1>1. TypeOK /\ TypeOK' /\ HeardInv(n) /\ NodeInv(n)
  BY DEF AloneInv, IInv
<1>2. /\ phase'[n] = "idle" /\ answers'[n] = NoAnswers /\ flight'[n] = 0
      /\ UNCHANGED <<volume, hasData, away>>
  BY <1>1 DEF Initiate, EndRound, TypeOK
<1>3. config[n] # NoSet => config'[n] # NoSet
  BY <1>1 DEF Initiate, Found, TypeOK
<1>4. \A m \in Peers(n) :
        /\ phase'[m] = phase[m] /\ answers'[m] = answers[m]
        /\ stable'[m] = stable[m] /\ flight'[m] = flight[m]
        /\ config'[m] = config[m]
  BY <1>1 DEF Initiate, Found, EndRound, TypeOK
<1>5. HeardInv(n)'
  <2>1. phase[n] = "initiating"
    BY DEF Initiate
  <2>2. FlagFits(n)' /\ away'[n] = 0
    BY <1>1, <1>2, <1>3, <2>1 DEF HeardInv, FlagFits, AskInTime
  <2>3. QED
    BY <1>2, <2>2, Between
<1>6. config[n] = NoSet => flight[n] + AskTime < Dwell
  BY DEF Initiate, LapsesNow
<1>7. ASSUME config[n] = NoSet,
             NEW m \in Peers(n), phase[m] = "asking", answers[m][n] \in NoSetStanding
      PROVE  Hopeless(m)
  <2>1. /\ stable[n] = Dwell
        /\ \/ answers[n][m] \in NoSetStanding /\ ~PeerWins(n, m)
           \/ stable[m] <= flight[n]
    BY <1>1 DEF NodeInv, Committed, Initiate
  <2>2. /\ flight[m] \in 0..AskTime /\ flight[n] \in Nat /\ AskTime < Dwell
        /\ stable[m] \in Int /\ n \in Peers(m) /\ NodeInv(m)
    BY <1>1, <1>6, <1>7, TimeAssumption DEF TypeOK, AloneInv, IInv, HeardInv, AskInTime
  <2>4. (answers[m][n] = "NoSetData") = hasData[n]
    BY <1>7, <2>1, <2>2, TimeAssumption DEF NodeInv, CurrentAnswers
  <2>5. CASE stable[m] <= flight[n]
    <3>1. TooYoung(m)
      BY <1>6, <1>7, <2>2, <2>5, TimeAssumption DEF TooYoung
    <3>2. QED
      BY <3>1 DEF Hopeless
  <2>6. CASE ~(stable[m] <= flight[n])
    <3>1. answers[n][m] \in NoSetStanding /\ ~PeerWins(n, m)
      BY <2>1, <2>6
    <3>2. (answers[n][m] = "NoSetData") = hasData[m]
      BY <1>1, <2>6, <3>1 DEF NodeInv, CurrentAnswers
    <3>3. Rank[m] < Rank[n] \/ Rank[n] < Rank[m]
      <4>1. Rank[m] \in Nat /\ Rank[n] \in Nat /\ Rank[m] # Rank[n]
        BY RankAssumption
      <4>2. QED
        BY <4>1
    <3>4. PeerWins(m, n)
      BY <1>1, <1>7, <2>4, <3>1, <3>2, <3>3 DEF PeerWins, TypeOK
    <3>5. QED
      BY <1>7, <2>2, <3>4 DEF Hopeless
  <2>7. QED
    BY <2>5, <2>6
<1>8. config[n] = NoSet => \A m \in Peers(n) : ~Founding(m)
  <2>1. OneInitiator
    BY IInvOneInitiator DEF AloneInv
  <2>2. flight[n] \in Nat
    BY <1>1, TimeAssumption DEF TypeOK
  <2>3. QED
    BY <1>6, <2>1, <2>2, TimeAssumption DEF OneInitiator, Initiate, Initiating, Founding
<1>9. QED
  BY <1>2, <1>3, <1>4, <1>5, <1>7, <1>8, OthersAlone DEF SetStays, Founding, Initiating

\* A member that delivers its config to n is one n's peers have heard of.
LEMMA DeliverAlone ==
  ASSUME AloneInv, IInv', NEW n \in Node, NEW p \in Peers(n), Deliver(n, p)
  PROVE  AloneInv'
<1>1. TypeOK /\ TypeOK' /\ HeardInv(n)
  BY DEF AloneInv, IInv
<1>2. /\ UNCHANGED <<phase, hasData, answers, flight, stable, away>>
      /\ config[n] = NoSet /\ config[p] # NoSet /\ config'[n] = config[p]
      /\ \A m \in Peers(n) : config'[m] = config[m] /\ volume'[m] = volume[m]
  BY <1>1 DEF Deliver, roundVars, clockVars, TypeOK
<1>3. HeardInv(n)'
  <2>1. BeatsAll(n)'
    BY <1>1, <1>2 DEF HeardInv, BeatsAll, NoneWaived, PeerWins
  <2>2. QED
    BY <1>1, <1>2, <2>1
    DEF HeardInv, AskInTime, FlagFits, BlankStands, LateSetsShow
<1>4. ASSUME NEW m \in Peers(n), config[m] = NoSet,
             phase[m] = "asking", answers[m][n] \in NoSetStanding
      PROVE  Hopeless(m)
  <2>1. m \in Node /\ HeardInv(m) /\ p \in Peers(m)
    BY <1>2, <1>4 DEF AloneInv
  <2>2. CASE answers[m][p] \in {"InSet", "Unknown"}
    BY <2>1, <2>2 DEF Hopeless
  <2>3. CASE answers[m][p] \in NoSetStanding
    BY <1>2, <1>4, <2>1, <2>3 DEF HeardInv, LateSetsShow
  <2>4. CASE answers[m][p] = "Pending"
    <3>1. away[p] = 0 /\ flight[m] \in Nat
      BY <1>1, <2>1, TimeAssumption DEF Deliver, AloneInv, HeardInv, AskInTime, TypeOK
    <3>2. SetStays(m, p)
      BY <1>2, <3>1 DEF SetStays
    <3>3. QED
      BY <2>1, <2>4, <3>2 DEF Hopeless
  <2>5. QED
    BY <1>1, <2>1, <2>2, <2>3, <2>4 DEF TypeOK
<1>5. \A m \in Peers(n) : ~Founding(m)
  <2>1. \A m \in Peers(n) : m \in Node /\ (p \in Peers(m) \/ m = p)
    OBVIOUS
  <2>2. QED
    BY <1>2, <2>1 DEF AloneInv, NoRival, Founding
<1>6. QED
  BY <1>2, <1>3, <1>4, <1>5, OthersAlone DEF SetStays, Founding

LEMMA AnswerAlone ==
  ASSUME AloneInv, IInv', NEW n \in Node, NEW p \in Peers(n), Reply(n, p) \/ NoReply(n, p)
  PROVE  AloneInv'
<1>1. TypeOK /\ TypeOK' /\ HeardInv(n)
  BY DEF AloneInv, IInv
<1>2. /\ phase[n] = "asking" /\ answers[n][p] = "Pending"
      /\ UNCHANGED <<phase, volume, config, hasData, flight, stable, away>>
  BY DEF Reply, NoReply, nodeVars, clockVars
<1>3. \A m \in Peers(n) : answers'[m] = answers[m]
  BY <1>1 DEF Reply, NoReply, TypeOK
<1>4. /\ \A q \in Peers(n) \ {p} : answers'[n][q] = answers[n][q]
      /\ \/ answers'[n][p] = StandingOf(p) /\ phase[p] \in Serving
         \/ answers'[n][p] = "Unknown"
  BY <1>1 DEF Reply, NoReply, TypeOK
<1>5. BlankStands(n)'
  <2>1. answers'[n][p] = "NoSetBlank" => config[p] # NoSet \/ volume[p] # "user"
    BY <1>4 DEF StandingOf, AloneInv, HeardInv, FlagFits
  <2>2. QED
    BY <1>1, <1>2, <1>4, <2>1 DEF HeardInv, BlankStands
<1>6. LateSetsShow(n)'
  <2> SUFFICES ASSUME config[n] = NoSet, NEW q \in Peers(n),
                      answers'[n][q] \in NoSetStanding, config[q] # NoSet
               PROVE  Hopeless(n)'
    BY <1>2 DEF LateSetsShow
  <2>1. q # p
    BY <1>4 DEF StandingOf
  <2>2. Hopeless(n)
    BY <1>1, <1>2, <1>4, <2>1 DEF HeardInv, LateSetsShow
  <2>3. CASE TooYoung(n)
    BY <1>2, <2>3 DEF Hopeless, TooYoung
  <2>4. ASSUME NEW r \in Peers(n),
               \/ answers[n][r] \in {"InSet", "Unknown"}
               \/ answers[n][r] \in NoSetStanding /\ PeerWins(n, r)
               \/ answers[n][r] = "Pending" /\ SetStays(n, r)
        PROVE  Hopeless(n)'
    <3>1. CASE r = p
      <4>1. config[p] # NoSet
        BY <1>2, <2>4, <3>1 DEF SetStays
      <4>2. answers'[n][p] \in {"InSet", "Unknown"}
        BY <1>4, <4>1 DEF StandingOf
      <4>3. QED
        BY <4>2 DEF Hopeless
    <3>2. CASE r # p
      <4>1. answers'[n][r] = answers[n][r]
        BY <1>4, <3>2
      <4>2. PeerWins(n, r) => PeerWins(n, r)'
        BY <1>2, <4>1 DEF PeerWins
      <4>3. SetStays(n, r) => SetStays(n, r)'
        BY <1>2 DEF SetStays
      <4>4. QED
        BY <2>4, <4>1, <4>2, <4>3 DEF Hopeless
    <3>3. QED
      BY <3>1, <3>2
  <2>5. QED
    BY <2>2, <2>3, <2>4 DEF Hopeless
<1>7. HeardInv(n)'
  BY <1>1, <1>2, <1>5, <1>6 DEF HeardInv, AskInTime, FlagFits, BeatsAll
<1>8. QED
  BY <1>2, <1>3, <1>7, OthersAlone DEF SetStays, Founding, Initiating

\* Time passes alike for every round, every decision and every absence.
LEMMA TickAlone ==
  ASSUME AloneInv, IInv', Tick
  PROVE  AloneInv'
<1>1. UNCHANGED <<phase, volume, config, hasData, answers>>
  BY DEF Tick, nodeVars
<1>2. TypeOK
  BY DEF AloneInv, IInv
<1>3. ASSUME NEW n \in Node PROVE HeardInv(n)'
  <2>1. HeardInv(n) /\ flight[n] \in Nat /\ stable[n] \in Int
    BY <1>2, TimeAssumption DEF AloneInv, TypeOK
  <2>2. /\ phase[n] \in InFlight => flight'[n] = flight[n] + 1
        /\ phase[n] = "asking" => flight[n] < AskTime
        /\ phase[n] \notin InFlight => flight'[n] = 0
        /\ phase[n] # "down" => away'[n] = 0
    BY DEF Tick
  <2>3. stable'[n] <= stable[n] + 1
    <3>1. stable'[n] = Advance(stable[n], Dwell)
      BY DEF Tick
    <3>2. QED
      BY <2>1, <3>1 DEF Advance
  <2>4. AskInTime(n)'
    BY <1>1, <2>1, <2>2, TimeAssumption DEF AskInTime
  <2>5. FlagFits(n)' /\ BlankStands(n)'
    BY <1>1, <2>1 DEF HeardInv, FlagFits, BlankStands
  <2>6. \A p \in Peers(n) : PeerWins(n, p)' = PeerWins(n, p)
    BY <1>1 DEF PeerWins
  <2>7. BeatsAll(n)'
    BY <1>1, <2>1, <2>6 DEF HeardInv, BeatsAll, NoneWaived
  <2>8. LateSetsShow(n)'
    <3> SUFFICES ASSUME phase[n] = "asking", Hopeless(n) PROVE Hopeless(n)'
      BY <1>1, <2>1 DEF HeardInv, LateSetsShow
    <3>1. TooYoung(n) => TooYoung(n)'
      <4>1. stable'[n] \in Int
        BY TimeAssumption DEF IInv, TypeOK
      <4>2. QED
        BY <2>1, <2>2, <2>3, <4>1, TimeAssumption DEF TooYoung
    <3>2. ASSUME NEW q \in Peers(n), SetStays(n, q) PROVE SetStays(n, q)'
      <4>1. away[q] \in 0..AskTime + 1
        BY <1>2 DEF TypeOK
      <4>2. away'[q] = (IF phase[q] = "down" THEN Advance(away[q], AskTime + 1) ELSE 0)
        BY DEF Tick
      <4>3. away'[q] <= away[q] + 1
        BY <4>1, <4>2, TimeAssumption DEF Advance
      <4>4. away'[q] \in Int
        BY <4>1, <4>2, TimeAssumption DEF Advance
      <4>5. QED
        BY <1>1, <2>1, <2>2, <3>2, <4>1, <4>3, <4>4, TimeAssumption DEF SetStays
    <3>3. QED
      BY <1>1, <2>6, <3>1, <3>2 DEF Hopeless
  <2>9. QED
    BY <2>4, <2>5, <2>7, <2>8 DEF HeardInv
<1>4. NoRival'
  <2>1. \A n \in Node : Founding(n)' => Founding(n)
    <3> SUFFICES ASSUME NEW n \in Node, phase[n] = "initiating", flight'[n] < Dwell
                 PROVE  flight[n] < Dwell
      BY <1>1 DEF Founding, Initiating, NoneWaived
    <3>1. flight[n] \in Nat /\ flight'[n] = flight[n] + 1
      BY <1>2, TimeAssumption DEF TypeOK, Tick
    <3>2. QED
      BY <3>1, TimeAssumption
  <2>2. QED
    BY <1>1, <2>1 DEF AloneInv, NoRival
<1>5. QED
  BY <1>3, <1>4 DEF AloneInv

LEMMA StepAlone == AloneInv /\ "late" \notin lapses' /\ [Next]_vars => AloneInv'
<1> SUFFICES ASSUME AloneInv, "late" \notin lapses', [Next]_vars PROVE AloneInv'
  OBVIOUS
<1> USE DEF nodeVars, roundVars, clockVars, setVars, Founding, Initiating
<1>1. IInv' /\ TypeOK /\ TypeOK' /\ \A n \in Node : HeardInv(n) /\ NodeInv(n)
  BY StepIInv DEF AloneInv, IInv
<1>2. ASSUME NEW n \in Node,
             Boot(n) \/ Initialise(n) \/ Ready(n) \/ LeaveLoop(n) \/ Ask(n)
      PROVE AloneInv'
  <2>1. phase[n] \notin InFlight
    BY <1>2 DEF Boot, Initialise, Ready, LeaveLoop, Ask
  <2>2. answers[n] = NoAnswers /\ flight[n] = 0
    BY <1>1, <2>1 DEF NodeInv, RoundOver, HeardInv, AskInTime
  <2>3. /\ UNCHANGED <<config, answers, stable, flight>>
        /\ phase'[n] \in {"starting", "idle", "member", "asking"}
        /\ away'[n] = 0
        /\ volume'[n] \in {volume[n], "blank"}
        /\ ~hasData'[n] /\ config[n] = NoSet => volume'[n] # "user"
    BY <1>1, <1>2
    DEF Boot, Initialise, Ready, LeaveLoop, Ask, TypeOK, HeardInv, FlagFits, AskInTime
  <2>4. \A m \in Peers(n) :
          /\ phase'[m] = phase[m] /\ hasData'[m] = hasData[m]
          /\ volume'[m] = volume[m] /\ away'[m] = away[m]
    BY <1>1, <1>2 DEF Boot, Initialise, Ready, LeaveLoop, Ask, TypeOK
  <2>5. \A m \in Peers(n) : SetStays(m, n) => SetStays(m, n)'
    <3>1. \A m \in Node : flight[m] \in Nat
      BY <1>1, TimeAssumption DEF TypeOK
    <3>2. QED
      BY <2>3, <3>1 DEF SetStays
  <2>6. HeardInv(n)'
    BY <2>2, <2>3, TimeAssumption
    DEF HeardInv, AskInTime, FlagFits, BlankStands, BeatsAll, LateSetsShow, NoAnswers
  <2>7. QED
    BY <1>1, <2>3, <2>4, <2>5, <2>6, OthersAlone
<1>3. ASSUME NEW n \in Node, Stop(n) PROVE AloneInv'
  <2>1. /\ phase'[n] = "down" /\ answers'[n] = NoAnswers /\ flight'[n] = 0
        /\ UNCHANGED <<hasData, volume, config, away>>
    BY <1>1, <1>3 DEF Stop, TypeOK
  <2>2. \A m \in Peers(n) :
          /\ phase'[m] = phase[m] /\ answers'[m] = answers[m]
          /\ stable'[m] = stable[m] /\ flight'[m] = flight[m]
    BY <1>1, <1>3 DEF Stop, TypeOK
  <2>3. HeardInv(n)'
    BY <2>1, Between DEF FlagFits
  <2>4. QED
    BY <1>1, <2>1, <2>2, <2>3, OthersAlone DEF SetStays
<1>4. ASSUME NEW n \in Node, Replace(n) PROVE AloneInv'
  <2>1. /\ phase[n] = "down" /\ away[n] > AskTime
        /\ volume'[n] = "empty" /\ config'[n] = NoSet
        /\ UNCHANGED <<phase, hasData, answers, stable, flight, away>>
    BY <1>1, <1>4 DEF Replace, TypeOK
  <2>2. \A m \in Peers(n) : config'[m] = config[m] /\ volume'[m] = volume[m]
    BY <1>1, <1>4 DEF Replace, TypeOK
  <2>3. HeardInv(n)'
    BY <1>1, <2>1, Between DEF HeardInv, AskInTime, NodeInv, RoundOver, FlagFits
  <2>4. \A m \in Peers(n) : phase[m] = "asking" => ~SetStays(m, n)
    <3>1. \A m \in Node : phase[m] = "asking" => flight[m] \in 0..AskTime
      BY <1>1, TimeAssumption DEF TypeOK, HeardInv, AskInTime
    <3>2. away[n] \in Int
      BY <1>1, TimeAssumption DEF TypeOK
    <3>3. QED
      BY <2>1, <3>1, <3>2, TimeAssumption DEF SetStays
  <2>5. QED
    BY <1>1, <2>1, <2>2, <2>3, <2>4, OthersAlone
<1>5. ASSUME NEW n \in Node, NEW p \in Peers(n), Reply(n, p) \/ NoReply(n, p)
      PROVE  AloneInv'
  BY <1>1, <1>5, AnswerAlone
<1>6. ASSUME NEW n \in Node, Decide(n) PROVE AloneInv'
  BY <1>1, <1>6, DecideAlone
<1>7. ASSUME NEW n \in Node, Initiate(n) PROVE AloneInv'
  BY <1>1, <1>7, InitiateAlone
<1>8. ASSUME NEW n \in Node, CommandFails(n) \/ \E p \in Peers(n) : Join(n, p)
      PROVE  AloneInv'
  <2>1. /\ EndRound(n) /\ phase' = [phase EXCEPT ![n] = "idle"]
        /\ phase[n] # "down" /\ UNCHANGED <<hasData, volume, config, away>>
    BY <1>8 DEF CommandFails, Join
  <2>2. stable' = [stable EXCEPT ![n] = Stopped] \/ UNCHANGED stable
    BY <1>8 DEF CommandFails, Join
  <2>3. \A m \in Peers(n) :
          /\ phase'[m] = phase[m] /\ answers'[m] = answers[m]
          /\ stable'[m] = stable[m] /\ flight'[m] = flight[m]
    BY <1>1, <2>1, <2>2 DEF EndRound, TypeOK
  <2>4. phase'[n] = "idle" /\ answers'[n] = NoAnswers /\ flight'[n] = 0
    BY <1>1, <2>1 DEF EndRound, TypeOK
  <2>5. HeardInv(n)'
    BY <1>1, <2>1, <2>4, Between DEF HeardInv, AskInTime, FlagFits
  <2>6. QED
    BY <1>1, <2>1, <2>3, <2>4, <2>5, OthersAlone DEF SetStays
<1>9. ASSUME NEW n \in Node, NEW p \in Peers(n), Deliver(n, p) PROVE AloneInv'
  BY <1>1, <1>9, DeliverAlone
<1>10. CASE Tick
  BY <1>1, <1>10, TickAlone
<1>11. CASE UNCHANGED vars
  <2>1. \A n \in Node : HeardInv(n)'
    BY <1>1, <1>11
    DEF vars, HeardInv, AskInTime, FlagFits, BlankStands, BeatsAll, LateSetsShow,
        NoneWaived, PeerWins, Hopeless, TooYoung, SetStays
  <2>2. NoRival'
    BY <1>11 DEF vars, AloneInv, NoRival, NoneWaived
  <2>3. QED
    BY <1>1, <2>1, <2>2 DEF AloneInv
<1>12. ASSUME NEW n \in Node, LandStray(n) PROVE FALSE
  BY <1>12 DEF LandStray
<1>13. QED
  BY <1>2, <1>3, <1>4, <1>5, <1>6, <1>7, <1>8, <1>9, <1>10, <1>11, <1>12
  DEF Next, NodeStep

\* No step takes back that a command landed late.
LEMMA LapsesStay == [Next]_vars => lapses \subseteq lapses'
BY DEF Next, NodeStep, Boot, Initialise, Ready, LeaveLoop, Ask, Reply, NoReply, Decide,
       DecideJoin, DecideWait, DecideHold, DecideInitiate, Probe, Initiate, LandStray,
       Join, CommandFails, Deliver, Stop, Replace, Tick, vars, landVars

LEMMA StepLanded == LandedInv /\ [Next]_vars => LandedInv'
BY StepIInv, StepAlone, LapsesStay DEF LandedInv

LEMMA InitLanded == Init => LandedInv
BY InitAlone DEF LandedInv, AloneInv

\* Until a replSetInitiate lands late, whoever is about to initiate after every
\* peer answered does so beside no set: no peer has come to hold one since its
\* answer, however late the answers are and whoever was waived elsewhere.
THEOREM InitiatesAloneHolds == Spec => []InitiatesAlone
<1>1. LandedInv => InitiatesAlone
  BY DEF LandedInv, AloneInv, NoRival, InitiatesAlone
<1>2. QED
  BY <1>1, StepLanded, InitLanded, PTL DEF Spec

\* A blank node that initiates beat peers that are all blank, and stayed so.
LEMMA AloneSparesUserData == LandedInv => UserDataInitiates
<1> SUFFICES ASSUME AloneInv, NEW n \in Node, Founding(n),
                    Truthful(n), volume[n] # "user", NEW p \in Peers(n)
             PROVE  volume[p] # "user"
  BY DEF LandedInv, UserDataInitiates
<1>1. ~hasData[n]
  BY DEF Truthful
<1>2. answers[n][p] \in NoSetStanding /\ ~PeerWins(n, p)
  BY DEF AloneInv, HeardInv, BeatsAll, Founding, Initiating
<1>3. answers[n][p] = "NoSetBlank"
  BY <1>1, <1>2 DEF PeerWins
<1>4. config[p] = NoSet
  BY DEF AloneInv, NoRival
<1>5. QED
  BY <1>3, <1>4 DEF AloneInv, HeardInv, BlankStands

\* "The node holding user data initiates": until a replSetInitiate lands late, a
\* node that founds the set without user data of its own, after hearing every
\* peer, leaves nobody's user data to be replaced by initial sync.
THEOREM UserDataInitiatesHolds == Spec => []UserDataInitiates
<1>1. QED
  BY StepLanded, InitLanded, AloneSparesUserData, PTL DEF Spec

-----------------------------------------------------------------------------
(* One set is formed.                                                      *)

FormVars == <<config, members, lapses # {}>>

LEMMA FormsStep ==
  ASSUME LandedInv, [Next]_vars
  PROVE  [Formation!Next]_FormVars
<1> USE DEF FormVars, landVars
<1>1. CASE UNCHANGED <<config, members, lapses>>
  BY <1>1
<1>2. ASSUME NEW n \in Node, Initiate(n) PROVE [Formation!Next]_FormVars
  <2>1. CASE UNCHANGED <<config, setVars, lapses>>
    BY <2>1 DEF setVars
  <2>2. ASSUME NEW s \in SetIds, Found(n, s), lapses' = lapses \cup LapsesNow(n)
        PROVE  Formation!Next
    <3>1. \/ lapses' # {}
          \/ lapses' = lapses /\ \A p \in Node : config[p] = NoSet
      <4> SUFFICES ASSUME lapses' = {}
                   PROVE  \A p \in Node : config[p] = NoSet
        BY <2>2
      <4>1. lapses = {} /\ flight[n] + AskTime < Dwell /\ NoneWaived(n)
        BY <2>2 DEF LapsesNow
      <4>2. flight[n] \in Nat /\ AloneInv
        BY <4>1, TimeAssumption DEF LandedInv, IInv, TypeOK
      <4>3. flight[n] < Dwell
        BY <4>1, <4>2, TimeAssumption
      <4>4. Founding(n)
        BY <1>2, <2>2, <4>1, <4>3 DEF Founding, Initiating, Initiate, Found
      <4>5. QED
        BY <2>2, <4>2, <4>4 DEF AloneInv, NoRival, Found
    <3>2. Formation!Found(n, s)
      BY <2>2, <3>1 DEF Found, Formation!Found
    <3>3. QED
      BY <3>2 DEF Formation!Next
  <2>3. QED
    BY <1>2, <2>1, <2>2 DEF Initiate
<1>3. ASSUME NEW n \in Node, LandStray(n) PROVE Formation!Next
  <2>1. \E s \in SetIds : Formation!Found(n, s)
    BY <1>3 DEF LandStray, Found, Formation!Found
  <2>2. QED
    BY <2>1 DEF Formation!Next
<1>4. ASSUME NEW n \in Node, NEW m \in Peers(n), Join(n, m) \/ Deliver(n, m)
      PROVE  Formation!Next
  <2>1. Formation!Admit(n, m) \/ Formation!Adopt(n, m)
    BY <1>4 DEF Join, Leads, Deliver, setVars, Formation!Admit, Formation!Adopt
  <2>2. QED
    BY <2>1 DEF Formation!Next
<1>5. ASSUME NEW n \in Node, Replace(n) PROVE Formation!Next
  <2>1. Formation!Lose(n)
    BY <1>5 DEF Replace, setVars, Formation!Lose
  <2>2. QED
    BY <2>1 DEF Formation!Next
<1>6. ASSUME NEW n \in Node, Decide(n) PROVE UNCHANGED <<config, members, lapses>>
  BY <1>6 DEF Decide, DecideJoin, DecideWait, DecideHold, DecideInitiate, Probe, setVars
<1>7. ASSUME NEW n \in Node, Boot(n) \/ Initialise(n) \/ Ready(n) \/ LeaveLoop(n) \/ Ask(n)
                               \/ CommandFails(n) \/ Stop(n)
      PROVE  UNCHANGED <<config, members, lapses>>
  BY <1>7 DEF Boot, Initialise, Ready, LeaveLoop, Ask, CommandFails, Stop, nodeVars, setVars
<1>8. ASSUME NEW n \in Node, NEW p \in Peers(n), Reply(n, p) \/ NoReply(n, p)
      PROVE  UNCHANGED <<config, members, lapses>>
  BY <1>8 DEF Reply, NoReply, nodeVars, setVars
<1>9. CASE Tick \/ UNCHANGED vars
  BY <1>9 DEF Tick, vars, nodeVars, setVars
<1>10. QED
  BY <1>1, <1>2, <1>3, <1>4, <1>5, <1>6, <1>7, <1>8, <1>9 DEF Next, NodeStep

\* orchestrate, decide and the commands they issue implement SetFormation: every
\* set is founded where no node holds a config, up to the first one whose command
\* landed late or was decided on with a peer waived, however late answers and
\* decisions are and whoever restarts in between.
THEOREM FormsOneSetHolds == Spec => FormsOneSet
<1>1. Init => Formation!Init
  BY DEF Init, Formation!Init
<1>2. QED
  BY <1>1, StepLanded, InitLanded, FormsStep, PTL
  DEF Spec, FormsOneSet, Formation!Spec, FormVars

\* What every implementation of SetFormation inherits.
LEMMA FormationKeepsOne ==
  FormsOneSet => [](Formation!TypeOK /\ Formation!OneSet)
<1> DEFINE Inv == Formation!TypeOK /\ Formation!OneSet
<1>1. Formation!Init => Inv
  BY DEF Formation!Init, Formation!TypeOK, Formation!OneSet
<1>2. Inv /\ [Formation!Next]_FormVars => Inv'
  <2> SUFFICES ASSUME Formation!TypeOK, Formation!OneSet, [Formation!Next]_FormVars
               PROVE  Formation!TypeOK' /\ Formation!OneSet'
    OBVIOUS
  <2>1. CASE UNCHANGED FormVars
    BY <2>1 DEF FormVars, Formation!TypeOK, Formation!OneSet
  <2>2. ASSUME NEW n \in Node, NEW s \in SetIds, Formation!Found(n, s)
        PROVE  Formation!TypeOK' /\ Formation!OneSet'
    <3>1. /\ config' = [config EXCEPT ![n] = s] /\ members' = [members EXCEPT ![s] = {n}]
          /\ s # NoSet
          /\ \/ (lapses # {})' = TRUE
             \/ (lapses # {})' = (lapses # {}) /\ \A p \in Node : config[p] = NoSet
      BY <2>2, SetIdAssumption DEF Formation!Found
    <3>2. QED
      BY <3>1 DEF Formation!TypeOK, Formation!OneSet
  <2>3. ASSUME NEW n \in Node, NEW m \in Node, Formation!Admit(n, m)
        PROVE  Formation!TypeOK' /\ Formation!OneSet'
    <3>1. /\ config' = config /\ config[m] \in SetIds
          /\ members' = [members EXCEPT ![config[m]] = @ \cup {n}]
          /\ (lapses # {})' = (lapses # {})
      BY <2>3 DEF Formation!Admit, Formation!TypeOK
    <3>2. QED
      BY <3>1 DEF Formation!TypeOK, Formation!OneSet
  <2>4. ASSUME NEW n \in Node, NEW m \in Node, Formation!Adopt(n, m)
        PROVE  Formation!TypeOK' /\ Formation!OneSet'
    <3>1. /\ config' = [config EXCEPT ![n] = config[m]] /\ members' = members
          /\ config[m] \in SetIds /\ config[n] = NoSet /\ n \in members[config[m]]
          /\ (lapses # {})' = (lapses # {})
      BY <2>4 DEF Formation!Adopt, Formation!TypeOK
    <3>2. QED
      BY <3>1 DEF Formation!TypeOK, Formation!OneSet
  <2>5. ASSUME NEW n \in Node, Formation!Lose(n)
        PROVE  Formation!TypeOK' /\ Formation!OneSet'
    <3>1. /\ config' = [config EXCEPT ![n] = NoSet] /\ members' = members
          /\ (lapses # {})' = (lapses # {})
      BY <2>5 DEF Formation!Lose
    <3>2. QED
      BY <3>1 DEF Formation!TypeOK, Formation!OneSet
  <2>6. QED
    BY <2>1, <2>2, <2>3, <2>4, <2>5 DEF Formation!Next
<1> HIDE DEF Inv
<1>3. FormsOneSet => []Inv
  BY <1>1, <1>2, PTL DEF FormsOneSet, Formation!Spec, FormVars
<1>4. QED
  BY <1>3 DEF Inv

\* There are never two sets with a live config, and whoever holds a set's config
\* is listed by it, until a command lands late or with a peer waived: a node that
\* joins late, restarts or loses its volume does not end up in a set of its own.
THEOREM OneSetHolds == Spec => []OneSet
<1>1. Formation!TypeOK /\ Formation!OneSet => OneSet
  BY DEF OneSet
<1>2. QED
  BY <1>1, FormsOneSetHolds, FormationKeepsOne, PTL

===============================================================================
