--------------------------- MODULE MembershipProofs ---------------------------
(***************************************************************************)
(* Proofs about Membership: type correctness, that a prune spares whoever  *)
(* is up, and that a config edited in the term it was read in changes as   *)
(* its author meant, for any number of nodes, any dwell and any number of  *)
(* faults.                                                                 *)
(***************************************************************************)
EXTENDS Membership, TLAPS

-----------------------------------------------------------------------------
(* The inductive invariants. *)

\* A running container has its name.
NamedWhenUp(n) == Up(n) => Registered(n)

\* Who is about to be dropped is down or came back.
Spares(n) == task[n].op = "drop" => ~Up(task[n].about) \/ task[n].back

SpareInv == TypeOK /\ \A n \in Node : NamedWhenUp(n) /\ Spares(n)

\* A node knows the term of its config, and a primary's config is of the term
\* it was elected for: it is elected for a term once.
OfTerm(n) ==
  /\ cfg[n].term <= term[n]
  /\ n \in leads => cfg[n].term = term[n]

\* Only who has something to write holds a config, and a prune is local.
Holds(n) ==
  /\ task[n].op = "none" => task[n].config = NoConfig
  /\ task[n].op = "drop" => task[n].at = n

\* What was read from a primary in its present term is its config still, or one
\* it has written over.
ReadAt(n) ==
  LET p == task[n].at
      read == task[n].config IN
  read # NoConfig =>
    /\ read.term <= term[p]
    /\ p \in leads /\ read.term = cfg[p].term
         => read.version < cfg[p].version \/ read = cfg[p]

EditInv == TypeOK /\ \A n \in Node : OfTerm(n) /\ Holds(n) /\ ReadAt(n)

-----------------------------------------------------------------------------
(* Type correctness. *)

USE NodeAssumption, BoundAssumption

LEMMA NoTaskType == \A n \in Node : NoTask(n) \in Task
BY DEF NoTask, Task, Config, NoConfig

LEMMA TaskRead ==
  ASSUME NEW t \in Task, NEW c \in Config
  PROVE  [t EXCEPT !.config = c] \in Task
BY DEF Task

LEMMA TaskBack ==
  ASSUME NEW t \in Task, NEW n \in Node
  PROVE  [t EXCEPT !.back = @ \/ t.about = n] \in Task
BY DEF Task

LEMMA RoundType ==
  /\ NoRound \in Round
  /\ \A r \in Round, m \in Node : [r EXCEPT !.left = @ \ {m}] \in Round
BY DEF Round, NoRound

LEMMA ConfigTerm ==
  ASSUME NEW c \in Config, NEW t \in Nat
  PROVE  [c EXCEPT !.term = t] \in Config
BY DEF Config

LEMMA AdvanceType ==
  \A age \in Fresh..PruneDwell :
    /\ Advance(age) \in Fresh..PruneDwell
    /\ age >= -1 => Advance(age) >= -1
    /\ age < 0 => Advance(age) < 0
BY DEF Advance, Fresh, Stopped

LEMMA FaultType ==
  ASSUME TypeOK, NEW expected, FaultUnless(expected)
  PROVE  faults' \in 0..MaxFaults
BY DEF TypeOK, FaultUnless, Fault

LEMMA InitType == Init => TypeOK
<1> SUFFICES ASSUME Init PROVE TypeOK
  OBVIOUS
<1>1. loop \in [Node -> {"down", "seeking", "member"}] /\ term \in [Node -> Nat]
  BY DEF Init
<1>2. cfg \in [Node -> Config]
  BY DEF Init, Config, NoConfig
<1>3. leads \subseteq Node /\ polled \subseteq Node /\ faults \in 0..MaxFaults
  BY DEF Init
<1>4. absent \in [Node -> Fresh..PruneDwell] /\ goneFor \in [Node -> [Node -> -1..PruneDwell]]
  BY DEF Init, Fresh, Stopped
<1>5. round \in [Node -> Round]
  BY DEF Init, Round, NoRound
<1>6. task \in [Node -> Task]
  BY NoTaskType DEF Init
<1>7. QED
  BY <1>1, <1>2, <1>3, <1>4, <1>5, <1>6 DEF TypeOK, JudgesOthers, Init, NoRound

\* The primary is never among the members its round is still to visit.
LEMMA NobodyJudgesItself ==
  ASSUME TypeOK, [Next]_vars, NEW n \in Node
  PROVE  n \notin round'[n].left
<1>1. round \in [Node -> Round] /\ n \notin round[n].left
  BY DEF TypeOK, JudgesOthers
<1>2. ASSUME NEW m \in Node,
             round' = [round EXCEPT ![m] = NoRound] \/ \E k \in Node : round' = Rest(m, k)
      PROVE  n \notin round'[n].left
  <2>1. CASE round' = [round EXCEPT ![m] = NoRound]
    BY <1>1, <2>1 DEF NoRound
  <2>2. ASSUME NEW k \in Node, round' = Rest(m, k) PROVE n \notin round'[n].left
    BY <1>1, <2>2 DEF Rest, Round
  <2>3. QED
    BY <1>2, <2>1, <2>2
<1>3. ASSUME NEW m \in Node, Sample(m) PROVE n \notin round'[n].left
  BY <1>1, <1>3 DEF Sample, TypeOK
<1>4. \/ UNCHANGED round
      \/ \E m \in Node :
           \/ Sample(m) \/ round' = [round EXCEPT ![m] = NoRound]
           \/ \E k \in Node : round' = Rest(m, k)
  <2>1. ASSUME NEW m \in Node, WrapperStep(m)
        PROVE  \/ UNCHANGED round
               \/ Sample(m) \/ round' = [round EXCEPT ![m] = NoRound]
               \/ \E k \in Node : round' = Rest(m, k)
    BY <2>1, Zenon
    DEF WrapperStep, LeaveLoop, SampleFails, ReadToPrune, Write, WriteUnanswered,
        WriteRefused, ReadToJoin, VisitHealthy, VisitSick, wrapVars
  <2>2. ASSUME NEW m \in Node,
               \/ Boot(m) \/ Stop(m) \/ LoseName(m) \/ Elect(m) \/ StepDown(m)
               \/ \E k \in Node : Heartbeat(m, k)
        PROVE  UNCHANGED round \/ round' = [round EXCEPT ![m] = NoRound]
    BY <2>2, Zenon DEF Boot, Stop, LoseName, Elect, StepDown, Heartbeat, wrapVars
  <2>3. QED
    BY <2>1, <2>2 DEF Next, Tick, vars, wrapVars
<1>5. QED
  BY <1>1, <1>2, <1>3, <1>4

LEMMA TypeStep == TypeOK /\ [Next]_vars => TypeOK'
<1> SUFFICES ASSUME TypeOK, [Next]_vars PROVE TypeOK'
  OBVIOUS
<1>0. JudgesOthers'
  BY NobodyJudgesItself DEF JudgesOthers
<1> USE <1>0 DEF TypeOK, netVars, wrapVars
<1>1. ASSUME NEW n \in Node, LeaveLoop(n) PROVE TypeOK'
  BY <1>1 DEF LeaveLoop
<1>2. ASSUME NEW n \in Node, Sample(n) \/ SampleFails(n) PROVE TypeOK'
  <2>1. polled' \subseteq Node
    BY <1>2 DEF Sample, SampleFails, PollDue
  <2>2. faults' \in 0..MaxFaults
    BY <1>2, FaultType DEF Sample, SampleFails, Fault
  <2>3. round' \in [Node -> Round]
    <3>1. cfg[n].members \subseteq Node
      BY DEF Config
    <3>2. ASSUME NEW sick \in SUBSET (cfg[n].members \ {n})
          PROVE  [left |-> cfg[n].members \ {n}, sick |-> sick] \in Round
      BY <3>1 DEF Round
    <3>3. CASE Sample(n)
      BY <3>2, <3>3 DEF Sample
    <3>4. CASE SampleFails(n)
      BY <3>4 DEF SampleFails
    <3>5. QED
      BY <1>2, <3>3, <3>4
  <2>4. UNCHANGED <<loop, cfg, term, leads, absent, goneFor, task>>
    BY <1>2 DEF Sample, SampleFails
  <2>5. QED
    BY <2>1, <2>2, <2>3, <2>4
<1>3. ASSUME NEW n \in Node, ReadToPrune(n) PROVE TypeOK'
  <2>1. [task[n] EXCEPT !.config = cfg[n]] \in Task
    BY TaskRead
  <2>2. task' \in [Node -> Task]
    BY <1>3, <2>1, NoTaskType DEF ReadToPrune
  <2>3. round' \in [Node -> Round]
    BY <1>3, RoundType DEF ReadToPrune
  <2>4. faults' \in 0..MaxFaults
    BY <1>3 DEF ReadToPrune, Fault
  <2>5. QED
    BY <1>3, <2>2, <2>3, <2>4 DEF ReadToPrune
<1>4. ASSUME NEW n \in Node, Write(n) \/ WriteUnanswered(n) \/ WriteRefused(n)
      PROVE  TypeOK'
  <2>1. task' \in [Node -> Task]
    BY <1>4, NoTaskType DEF Write, WriteUnanswered, WriteRefused
  <2>2. faults' \in 0..MaxFaults
    BY <1>4, FaultType DEF Write, WriteUnanswered, WriteRefused, Fault
  <2>3. cfg' \in [Node -> Config]
    <3>1. /\ task[n].at \in Node /\ task[n].config.version \in Nat
          /\ task[n].config.members \subseteq Node
      BY DEF Task, Config
    <3>2. [term |-> term[task[n].at], version |-> NextVersion(n), members |-> Edited(n)]
            \in Config
      BY <3>1 DEF Config, NextVersion, Edited
    <3>3. QED
      BY <1>4, <3>1, <3>2 DEF Write, WriteUnanswered, WriteRefused, Installs
  <2>4. goneFor' \in [Node -> [Node -> -1..PruneDwell]]
    BY <1>4 DEF Write, WriteUnanswered, WriteRefused, Stopped
  <2>5. round' \in [Node -> Round]
    BY <1>4, RoundType DEF Write, WriteUnanswered, WriteRefused
  <2>6. UNCHANGED <<loop, term, leads, absent, polled>>
    BY <1>4 DEF Write, WriteUnanswered, WriteRefused
  <2>7. QED
    BY <2>1, <2>2, <2>3, <2>4, <2>5, <2>6
<1>5. ASSUME NEW n \in Node, NEW m \in Node, ReadToJoin(n, m) PROVE TypeOK'
  <2>1. [NoTask(n) EXCEPT !.op = "add", !.at = m, !.config = cfg[m]] \in Task
    BY DEF NoTask, Task
  <2>2. task' \in [Node -> Task]
    BY <1>5, <2>1 DEF ReadToJoin
  <2>3. QED
    BY <1>5, <2>2 DEF ReadToJoin
<1>6. ASSUME NEW n \in Node, NEW m \in Node, VisitHealthy(n, m) PROVE TypeOK'
  <2>1. round' \in [Node -> Round]
    BY <1>6, RoundType DEF VisitHealthy, Rest
  <2>2. goneFor' \in [Node -> [Node -> -1..PruneDwell]]
    BY <1>6 DEF VisitHealthy, Stopped
  <2>3. QED
    BY <1>6, <2>1, <2>2 DEF VisitHealthy
<1>7. ASSUME NEW n \in Node, NEW m \in Node, NEW gone \in BOOLEAN, VisitSick(n, m, gone)
      PROVE  TypeOK'
  <2>1. [NoTask(n) EXCEPT !.op = "drop", !.about = m] \in Task
    BY DEF NoTask, Task, Config, NoConfig
  <2>2. task' \in [Node -> Task]
    BY <1>7, <2>1 DEF VisitSick
  <2>3. Observed(n, m, gone) \in -1..PruneDwell
    BY DEF Observed, Stopped
  <2>4. goneFor' \in [Node -> [Node -> -1..PruneDwell]] /\ round' \in [Node -> Round]
    <3>1. goneFor' = [goneFor EXCEPT ![n][m] = Observed(n, m, gone)] /\ round' = Rest(n, m)
      BY <1>7 DEF VisitSick
    <3>2. QED
      BY <2>3, <3>1, RoundType DEF Rest
  <2>5. faults' \in 0..MaxFaults
    BY <1>7, FaultType DEF VisitSick
  <2>6. QED
    BY <1>7, <2>2, <2>4, <2>5 DEF VisitSick
<1>8. ASSUME NEW n \in Node, Boot(n) PROVE TypeOK'
  <2>1. ASSUME NEW p \in Node
        PROVE  [task[p] EXCEPT !.back = @ \/ task[p].about = n] \in Task
    BY TaskBack
  <2>2. task' \in [Node -> Task]
    BY <1>8, <2>1 DEF Boot
  <2>3. absent' \in [Node -> Fresh..PruneDwell]
    BY <1>8 DEF Boot, Fresh
  <2>4. QED
    BY <1>8, <2>2, <2>3 DEF Boot
<1>9. ASSUME NEW n \in Node, Stop(n) PROVE TypeOK'
  <2>1. task' \in [Node -> Task]
    BY <1>9, NoTaskType DEF Stop
  <2>2. QED
    BY <1>9, <2>1 DEF Stop, Fault, Round, NoRound, Stopped
<1>10. ASSUME NEW n \in Node, LoseName(n) PROVE TypeOK'
  BY <1>10 DEF LoseName, Fault, Fresh
<1>11. ASSUME NEW n \in Node, Elect(n) PROVE TypeOK'
  <2> PICK voters \in SUBSET {m \in cfg[n].members : Up(m)} : \E last \in voters :
        /\ FaultUnless(leads = {})
        /\ leads' = leads \cup {n}
        /\ term' = [m \in Node |-> IF m \in voters THEN term[last] + 1 ELSE term[m]]
        /\ cfg' = [cfg EXCEPT ![n].term = term[last] + 1]
        /\ UNCHANGED <<loop, absent, wrapVars>>
    BY <1>11 DEF Elect
  <2> PICK last \in voters :
        /\ FaultUnless(leads = {})
        /\ leads' = leads \cup {n}
        /\ term' = [m \in Node |-> IF m \in voters THEN term[last] + 1 ELSE term[m]]
        /\ cfg' = [cfg EXCEPT ![n].term = term[last] + 1]
        /\ UNCHANGED <<loop, absent, wrapVars>>
    OBVIOUS
  <2>1. term[last] \in Nat
    BY DEF Config
  <2>2. cfg' \in [Node -> Config]
    <3>1. cfg' = [cfg EXCEPT ![n] = [cfg[n] EXCEPT !.term = term[last] + 1]]
      OBVIOUS
    <3>2. [cfg[n] EXCEPT !.term = term[last] + 1] \in Config
      <4>1. cfg[n] \in Config /\ term[last] + 1 \in Nat
        BY <2>1
      <4>2. QED
        BY ONLY <4>1, ConfigTerm
    <3>3. QED
      BY <3>1, <3>2
  <2>3. faults' \in 0..MaxFaults
    BY FaultType
  <2>4. QED
    BY <2>1, <2>2, <2>3
<1>12. ASSUME NEW n \in Node, StepDown(n) PROVE TypeOK'
  BY <1>12, FaultType DEF StepDown
<1>13. ASSUME NEW n \in Node, NEW m \in Node, Heartbeat(n, m) PROVE TypeOK'
  BY <1>13 DEF Heartbeat
<1>14. CASE Tick
  BY <1>14, AdvanceType DEF Tick, Fresh
<1>15. CASE UNCHANGED vars
  BY <1>15 DEF vars
<1>16. QED
  BY <1>1, <1>2, <1>3, <1>4, <1>5, <1>6, <1>7, <1>8, <1>9, <1>10, <1>11, <1>12, <1>13,
     <1>14, <1>15 DEF Next, WrapperStep

\* The configs, clocks, rounds and tasks stay within their types, whatever the
\* number of nodes and faults: no clock passes the dwell it is compared with.
THEOREM TypeCorrect == Spec => []TypeOK
<1>1. QED
  BY InitType, TypeStep, PTL DEF Spec

-----------------------------------------------------------------------------
(* A prune spares whoever is up. *)

LEMMA InitSpares == Init => SpareInv
<1> SUFFICES ASSUME Init PROVE SpareInv
  OBVIOUS
<1>1. TypeOK
  BY InitType
<1>2. \A n \in Node : NamedWhenUp(n) /\ Spares(n)
  BY DEF Init, NamedWhenUp, Spares, Up, Registered, NoTask, Stopped
<1>3. QED
  BY <1>1, <1>2 DEF SpareInv

\* A step that brings nobody up and takes nobody's name.
LEMMA QuietSpares ==
  ASSUME SpareInv, TypeOK',
         \A n \in Node : Up(n)' => Up(n),
         \A n \in Node : absent[n] < 0 /\ Up(n) => absent'[n] < 0,
         \A n \in Node :
           task'[n] = task[n] \/ task'[n].op # "drop"
             \/ (task'[n].about \in Node /\ ~Up(task'[n].about))
  PROVE  SpareInv'
<1> SUFFICES ASSUME NEW n \in Node PROVE NamedWhenUp(n)' /\ Spares(n)'
  BY DEF SpareInv
<1>1. NamedWhenUp(n) /\ Spares(n)
  BY DEF SpareInv
<1>2. NamedWhenUp(n)'
  BY <1>1 DEF NamedWhenUp, Registered
<1>3. Spares(n)'
  <2>1. task[n].about \in Node
    BY DEF SpareInv, TypeOK, Task
  <2>2. QED
    BY <1>1, <2>1 DEF Spares
<1>4. QED
  BY <1>2, <1>3

\* A member is dropped on proof alone, and only a name nobody holds gets it.
LEMMA VisitProven ==
  ASSUME SpareInv, NEW n \in Node, NEW m \in Node, NEW gone \in BOOLEAN,
         VisitSick(n, m, gone), Observed(n, m, gone) >= PruneDwell
  PROVE  ~Up(m)
<1>1. gone
  BY DEF Observed, Stopped
<1>2. ~Registered(m)
  BY <1>1 DEF VisitSick, Proves
<1>3. QED
  BY <1>2 DEF SpareInv, NamedWhenUp

LEMMA SpareStep == SpareInv /\ [Next]_vars => SpareInv'
<1> SUFFICES ASSUME SpareInv, [Next]_vars PROVE SpareInv'
  OBVIOUS
<1> USE DEF netVars, wrapVars
<1>1. TypeOK /\ TypeOK'
  BY TypeStep DEF SpareInv
<1>2. ASSUME NEW n \in Node, LeaveLoop(n) PROVE SpareInv'
  <2>1. \A m \in Node : Up(m)' => Up(m)
    BY <1>1, <1>2 DEF LeaveLoop, Up, TypeOK
  <2>2. QED
    BY <1>1, <1>2, <2>1, QuietSpares DEF LeaveLoop
<1>3. ASSUME NEW n \in Node,
             \/ Sample(n) \/ SampleFails(n) \/ StepDown(n) \/ Elect(n)
             \/ \E m \in Node : VisitHealthy(n, m) \/ Heartbeat(n, m)
      PROVE  SpareInv'
  <2>1. UNCHANGED <<loop, absent, task>>
    BY <1>3 DEF Sample, SampleFails, StepDown, Elect, VisitHealthy, Heartbeat
  <2>2. QED
    BY <1>1, <2>1, QuietSpares DEF Up
<1>4. ASSUME NEW n \in Node, ReadToPrune(n) PROVE SpareInv'
  <2>1. UNCHANGED <<loop, absent>>
    BY <1>4 DEF ReadToPrune
  <2>2. \/ task' = [task EXCEPT ![n] = NoTask(n)]
        \/ task' = [task EXCEPT ![n] = [task[n] EXCEPT !.config = cfg[n]]]
    BY <1>4 DEF ReadToPrune
  <2>3. CASE task' = [task EXCEPT ![n] = NoTask(n)]
    <3>1. \A m \in Node : task'[m] = task[m] \/ task'[m].op # "drop"
      BY <1>1, <2>3 DEF TypeOK, NoTask
    <3>2. QED
      BY <1>1, <2>1, <3>1, QuietSpares DEF Up
  <2>4. CASE task' = [task EXCEPT ![n] = [task[n] EXCEPT !.config = cfg[n]]]
    <3>1. \A m \in Node :
            /\ task'[m].op = task[m].op
            /\ task'[m].about = task[m].about
            /\ task'[m].back = task[m].back
      BY <1>1, <2>4 DEF TypeOK, Task
    <3>2. QED
      BY <1>1, <2>1, <3>1 DEF SpareInv, NamedWhenUp, Spares, Up, Registered
  <2>5. QED
    BY <2>2, <2>3, <2>4
<1>5. ASSUME NEW n \in Node, Write(n) \/ WriteUnanswered(n) \/ WriteRefused(n)
      PROVE  SpareInv'
  <2>1. UNCHANGED <<loop, absent>> /\ task' = [task EXCEPT ![n] = NoTask(n)]
    BY <1>5 DEF Write, WriteUnanswered, WriteRefused
  <2>2. \A m \in Node : task'[m] = task[m] \/ task'[m].op # "drop"
    BY <1>1, <2>1 DEF TypeOK, NoTask
  <2>3. QED
    BY <1>1, <2>1, <2>2, QuietSpares DEF Up
<1>6. ASSUME NEW n \in Node, NEW p \in Node, ReadToJoin(n, p) PROVE SpareInv'
  <2>1. UNCHANGED <<loop, absent>>
    BY <1>6 DEF ReadToJoin
  <2>2. \A m \in Node : task'[m] = task[m] \/ task'[m].op # "drop"
    BY <1>1, <1>6 DEF ReadToJoin, TypeOK, NoTask
  <2>3. QED
    BY <1>1, <2>1, <2>2, QuietSpares DEF Up
<1>7. ASSUME NEW n \in Node, NEW m \in Node, NEW gone \in BOOLEAN, VisitSick(n, m, gone)
      PROVE  SpareInv'
  <2>1. UNCHANGED <<loop, absent>>
    BY <1>7 DEF VisitSick
  <2>2. \A p \in Node :
          task'[p] = task[p] \/ task'[p].op # "drop"
            \/ (task'[p].about \in Node /\ ~Up(task'[p].about))
    <3>1. CASE Observed(n, m, gone) >= PruneDwell
      <4>1. ~Up(m)
        BY <1>7, <3>1, VisitProven
      <4>2. task' = [task EXCEPT ![n] = [NoTask(n) EXCEPT !.op = "drop", !.about = m]]
        BY <1>7, <3>1 DEF VisitSick
      <4>3. [NoTask(n) EXCEPT !.op = "drop", !.about = m].about = m
        BY DEF NoTask
      <4>4. QED
        BY <1>1, <4>1, <4>2, <4>3 DEF TypeOK
    <3>2. CASE ~(Observed(n, m, gone) >= PruneDwell)
      BY <1>1, <1>7, <3>2 DEF VisitSick, TypeOK
    <3>3. QED
      BY <3>1, <3>2
  <2>3. QED
    BY <1>1, <2>1, <2>2, QuietSpares DEF Up
<1>8. ASSUME NEW n \in Node, Boot(n) PROVE SpareInv'
  <2> SUFFICES ASSUME NEW p \in Node PROVE NamedWhenUp(p)' /\ Spares(p)'
    BY <1>1 DEF SpareInv
  <2>1. NamedWhenUp(p) /\ Spares(p)
    BY DEF SpareInv
  <2>2. NamedWhenUp(p)'
    BY <1>1, <1>8, <2>1 DEF Boot, NamedWhenUp, Up, Registered, Fresh, TypeOK
  <2>3. task[p] \in Task /\ task'[p] = [task[p] EXCEPT !.back = @ \/ task[p].about = n]
    BY <1>1, <1>8 DEF Boot, TypeOK
  <2>4. /\ task'[p].op = task[p].op
        /\ task'[p].about = task[p].about
        /\ task'[p].back = (task[p].back \/ task[p].about = n)
    BY ONLY <2>3 DEF Task
  <2>5. \A m \in Node : m # n => (Up(m)' <=> Up(m))
    BY <1>1, <1>8 DEF Boot, Up, TypeOK
  <2>6. task[p].about \in Node
    BY <2>3 DEF Task
  <2>7. Spares(p)'
    BY <2>1, <2>4, <2>5, <2>6 DEF Spares
  <2>8. QED
    BY <2>2, <2>7
<1>9. ASSUME NEW n \in Node, Stop(n) PROVE SpareInv'
  <2>1. \A m \in Node : Up(m)' => Up(m)
    BY <1>1, <1>9 DEF Stop, Up, TypeOK
  <2>2. \A m \in Node : task'[m] = task[m] \/ task'[m].op # "drop"
    BY <1>1, <1>9 DEF Stop, TypeOK, NoTask
  <2>3. QED
    BY <1>1, <1>9, <2>1, <2>2, QuietSpares DEF Stop
<1>10. ASSUME NEW n \in Node, LoseName(n) PROVE SpareInv'
  <2>1. \A m \in Node : Up(m) => absent'[m] = absent[m]
    BY <1>1, <1>10 DEF LoseName, TypeOK
  <2>2. QED
    BY <1>1, <1>10, <2>1, QuietSpares DEF LoseName, Up
<1>11. CASE Tick
  <2>1. \A n \in Node : absent[n] < 0 => absent'[n] < 0
    BY <1>1, <1>11, AdvanceType DEF Tick, TypeOK
  <2>2. UNCHANGED <<loop, task>>
    BY <1>11 DEF Tick
  <2>3. QED
    BY <1>1, <2>1, <2>2, QuietSpares DEF Up
<1>12. CASE UNCHANGED vars
  BY <1>1, <1>12, QuietSpares DEF vars, Up
<1>13. QED
  BY <1>2, <1>3, <1>4, <1>5, <1>6, <1>7, <1>8, <1>9, <1>10, <1>11, <1>12
  DEF Next, WrapperStep

\* "A crash, a partition, a redeploy window keeps the member": a member is about
\* to be dropped only while it is down, or when it came back after its name was
\* proved gone, however many primaries prune at once.
THEOREM PruneSparesTheLivingHolds == Spec => []PruneSparesTheLiving
<1>1. SpareInv => PruneSparesTheLiving
  BY DEF SpareInv, Spares, PruneSparesTheLiving
<1>2. QED
  BY <1>1, InitSpares, SpareStep, PTL DEF Spec

-----------------------------------------------------------------------------
(* An edit means what it meant when its config was read. *)

LEMMA InitEdits == Init => EditInv
<1> SUFFICES ASSUME Init PROVE EditInv
  OBVIOUS
<1>1. TypeOK
  BY InitType
<1>2. \A n \in Node : OfTerm(n)
  BY DEF Init, OfTerm, NoConfig
<1>3. \A n \in Node : Holds(n) /\ ReadAt(n)
  BY DEF Init, Holds, ReadAt, NoTask
<1>4. QED
  BY <1>1, <1>2, <1>3 DEF EditInv

\* What a step owes a task it leaves as it is: the primary asked is where it
\* was, or of a later term, or no primary any more, or has written over.
LEMMA ReadStays ==
  ASSUME EditInv, NEW n \in Node,
         task'[n].config = task[n].config, task'[n].at = task[n].at,
         LET p == task[n].at IN
           /\ term'[p] \in Nat /\ term[p] <= term'[p]
           /\ p \in leads' =>
                \/ cfg'[p].term > term[p]
                \/ p \in leads /\ cfg'[p] = cfg[p]
                \/ /\ p \in leads /\ cfg'[p].term = cfg[p].term
                   /\ cfg'[p].version > cfg[p].version /\ cfg'[p].version \in Nat
  PROVE  ReadAt(n)'
<1> DEFINE p == task[n].at
           read == task[n].config
<1>1. /\ p \in Node /\ term[p] \in Nat /\ cfg[p].version \in Nat /\ cfg[p].term \in Nat
      /\ read.version \in Nat /\ read.term \in Nat
  BY DEF EditInv, TypeOK, Task, Config
<1>2. read # NoConfig =>
        /\ read.term <= term[p]
        /\ p \in leads /\ read.term = cfg[p].term
             => read.version < cfg[p].version \/ read = cfg[p]
  BY DEF EditInv, ReadAt
<1> SUFFICES ASSUME read # NoConfig
             PROVE  /\ read.term <= term'[p]
                    /\ p \in leads' /\ read.term = cfg'[p].term
                         => read.version < cfg'[p].version \/ read = cfg'[p]
  BY DEF ReadAt
<1>3. read.term <= term[p]
  BY <1>2
<1>4. read.term <= term'[p]
  BY <1>1, <1>3
<1>5. ASSUME p \in leads', read.term = cfg'[p].term
      PROVE  read.version < cfg'[p].version \/ read = cfg'[p]
  <2>1. CASE cfg'[p].term > term[p]
    BY <1>1, <1>3, <1>5, <2>1
  <2>2. CASE p \in leads /\ cfg'[p] = cfg[p]
    BY <1>2, <1>5, <2>2
  <2>3. CASE /\ p \in leads /\ cfg'[p].term = cfg[p].term
             /\ cfg'[p].version > cfg[p].version /\ cfg'[p].version \in Nat
    <3>1. read.version < cfg[p].version \/ read = cfg[p]
      BY <1>2, <1>5, <2>3
    <3>2. read.version <= cfg[p].version
      BY <1>1, <3>1
    <3>3. QED
      BY <1>1, <2>3, <3>2
  <2>4. QED
    BY <1>5, <2>1, <2>2, <2>3
<1>6. QED
  BY <1>4, <1>5

\* Steps that touch no config, no term and no leadership, and no task either, or
\* only to drop it, to note a return, or to begin a prune.
LEMMA QuietEdits ==
  ASSUME EditInv, TypeOK', UNCHANGED <<cfg, term, leads>>,
         \A n \in Node :
           \/ /\ task'[n].op = task[n].op /\ task'[n].at = task[n].at
              /\ task'[n].config = task[n].config
           \/ /\ task'[n].config = NoConfig
              /\ task'[n].op = "drop" => task'[n].at = n
  PROVE  EditInv'
<1> SUFFICES ASSUME NEW n \in Node PROVE OfTerm(n)' /\ Holds(n)' /\ ReadAt(n)'
  BY DEF EditInv
<1>1. OfTerm(n) /\ Holds(n) /\ ReadAt(n)
  BY DEF EditInv
<1>2. OfTerm(n)'
  BY <1>1 DEF OfTerm
<1>3. Holds(n)' /\ ReadAt(n)'
  BY <1>1 DEF Holds, ReadAt
<1>4. QED
  BY <1>2, <1>3

\* Reading what a primary holds now, or what the node itself holds.
LEMMA ReadEdits ==
  ASSUME EditInv, TypeOK', UNCHANGED <<cfg, term, leads>>, NEW n \in Node,
         task'[n].op # "none", task'[n].config = cfg[task'[n].at],
         task'[n].op = "drop" => task'[n].at = n,
         \A m \in Node : m # n => task'[m] = task[m]
  PROVE  EditInv'
<1> SUFFICES ASSUME NEW m \in Node PROVE OfTerm(m)' /\ Holds(m)' /\ ReadAt(m)'
  BY DEF EditInv
<1>1. OfTerm(m) /\ Holds(m) /\ ReadAt(m)
  BY DEF EditInv
<1>2. OfTerm(m)'
  BY <1>1 DEF OfTerm
<1>3. CASE m # n
  BY <1>1, <1>2, <1>3 DEF Holds, ReadAt
<1>4. CASE m = n
  <2>1. task'[n].at \in Node
    BY DEF TypeOK, Task
  <2>2. cfg[task'[n].at].term <= term[task'[n].at]
    BY <2>1 DEF EditInv, OfTerm
  <2>3. QED
    BY <1>2, <1>4, <2>2 DEF Holds, ReadAt
<1>5. QED
  BY <1>3, <1>4

\* Whoever is elected is elected for a term it had not heard of.
LEMMA ElectEdits ==
  ASSUME EditInv, TypeOK', NEW n \in Node, Elect(n)
  PROVE  EditInv'
<1> PICK voters \in SUBSET {m \in cfg[n].members : Up(m)} : \E last \in voters :
      /\ \A m \in voters : term[m] <= term[last]
      /\ n \in voters
      /\ voters \cap leads = {}
      /\ leads' = leads \cup {n}
      /\ term' = [m \in Node |-> IF m \in voters THEN term[last] + 1 ELSE term[m]]
      /\ cfg' = [cfg EXCEPT ![n].term = term[last] + 1]
      /\ UNCHANGED <<loop, absent, wrapVars>>
  BY DEF Elect
<1> PICK last \in voters :
      /\ \A m \in voters : term[m] <= term[last]
      /\ n \in voters
      /\ voters \cap leads = {}
      /\ leads' = leads \cup {n}
      /\ term' = [m \in Node |-> IF m \in voters THEN term[last] + 1 ELSE term[m]]
      /\ cfg' = [cfg EXCEPT ![n].term = term[last] + 1]
      /\ UNCHANGED <<loop, absent, wrapVars>>
  OBVIOUS
<1>1. TypeOK /\ last \in Node /\ voters \subseteq Node /\ term[last] \in Nat
  BY DEF EditInv, TypeOK, Config
<1>2. cfg[n] \in Config /\ cfg' = [cfg EXCEPT ![n] = [cfg[n] EXCEPT !.term = term[last] + 1]]
  BY <1>1 DEF TypeOK
<1>3. /\ cfg'[n].term = term[last] + 1
      /\ \A m \in Node : m # n => cfg'[m] = cfg[m]
  BY <1>1, <1>2 DEF TypeOK, Config
<1>4. /\ term'[n] = term[last] + 1
      /\ \A m \in Node :
           /\ term[m] \in Nat /\ term'[m] \in Nat
           /\ term[m] <= term'[m]
           /\ m \in leads => term'[m] = term[m]
  BY <1>1 DEF TypeOK
<1>5. ASSUME NEW m \in Node PROVE OfTerm(m)'
  <2>1. OfTerm(m) /\ cfg[m].term \in Nat
    BY <1>1 DEF EditInv, TypeOK, Config
  <2>2. CASE m = n
    BY <1>3, <1>4, <2>2 DEF OfTerm
  <2>3. CASE m # n
    BY <1>3, <1>4, <2>1, <2>3 DEF OfTerm
  <2>4. QED
    BY <2>2, <2>3
<1>6. UNCHANGED task
  BY DEF wrapVars
<1>7. ASSUME NEW m \in Node PROVE Holds(m)' /\ ReadAt(m)'
  <2>1. Holds(m) /\ task[m].at \in Node
    BY <1>1 DEF EditInv, TypeOK, Task
  <2>2. Holds(m)'
    BY <1>6, <2>1 DEF Holds
  <2>3. CASE task[m].at = n
    <3>1. cfg'[n].term > term[n]
      BY <1>1, <1>3, <1>4
    <3>2. QED
      BY <1>4, <1>6, <2>2, <2>3, <3>1, ReadStays
  <2>4. CASE task[m].at # n
    BY <1>3, <1>4, <1>6, <2>1, <2>2, <2>4, ReadStays
  <2>5. QED
    BY <2>3, <2>4
<1>8. QED
  BY <1>5, <1>7 DEF EditInv

LEMMA HeartbeatEdits ==
  ASSUME EditInv, TypeOK', NEW n \in Node, NEW m \in Node, Heartbeat(n, m)
  PROVE  EditInv'
<1>1. TypeOK /\ UNCHANGED task
  BY DEF EditInv, Heartbeat, wrapVars
<1>2. \A p \in Node : p # n =>
        /\ cfg'[p] = cfg[p] /\ term'[p] = term[p]
        /\ p \in leads' => p \in leads
  BY <1>1 DEF Heartbeat, TypeOK
<1>3. /\ term'[n] = (IF term[m] > term[n] THEN term[m] ELSE term[n])
      /\ n \in leads' => n \in leads /\ ~(term[m] > term[n]) /\ cfg'[n] = cfg[n]
      /\ cfg'[n] = cfg[n] \/ (cfg'[n] = cfg[m])
  BY <1>1 DEF Heartbeat, TypeOK
<1>4. \A p \in Node : term[p] \in Nat /\ term'[p] \in Nat /\ cfg[p].term \in Nat
  BY <1>1 DEF TypeOK, Config
<1>5. \A p \in Node : term[p] <= term'[p]
  BY <1>2, <1>3, <1>4
<1>6. ASSUME NEW p \in Node PROVE OfTerm(p)'
  <2>1. OfTerm(p) /\ OfTerm(m)
    BY DEF EditInv
  <2>2. CASE p = n
    <3>1. cfg'[n].term <= term'[n]
      BY <1>3, <1>4, <2>1, <2>2 DEF OfTerm
    <3>2. n \in leads' => cfg'[n].term = term'[n]
      BY <1>3, <2>1, <2>2 DEF OfTerm
    <3>3. QED
      BY <2>2, <3>1, <3>2 DEF OfTerm
  <2>3. CASE p # n
    BY <1>2, <2>1, <2>3 DEF OfTerm
  <2>4. QED
    BY <2>2, <2>3
<1>7. ASSUME NEW p \in Node PROVE Holds(p)' /\ ReadAt(p)'
  <2>1. Holds(p) /\ task[p].at \in Node
    BY <1>1 DEF EditInv, TypeOK, Task
  <2>2. Holds(p)'
    BY <1>1, <2>1 DEF Holds
  <2>3. QED
    BY <1>1, <1>2, <1>3, <1>4, <1>5, <2>1, <2>2, ReadStays
<1>8. QED
  BY <1>6, <1>7 DEF EditInv

\* A write that lands is of the primary's term and of a later version.
LEMMA WriteEdits ==
  ASSUME EditInv, TypeOK', NEW n \in Node, Installs(n), UNCHANGED <<term, leads>>,
         task' = [task EXCEPT ![n] = NoTask(n)]
  PROVE  EditInv'
<1> DEFINE p == task[n].at
<1>1. TypeOK /\ p \in Node /\ task[n].config.version \in Nat
  BY DEF EditInv, TypeOK, Task, Config
<1>2. p \in leads /\ NextVersion(n) > cfg[p].version /\ NextVersion(n) \in Nat
  BY <1>1 DEF Installs, Accepts, NextVersion
<1>3. /\ cfg'[p].term = term[p] /\ cfg'[p].version = NextVersion(n)
      /\ \A m \in Node : m # p => cfg'[m] = cfg[m]
  BY <1>1 DEF Installs, TypeOK
<1>4. cfg[p].term = term[p] /\ term[p] \in Nat
  BY <1>1, <1>2 DEF EditInv, OfTerm, TypeOK
<1>5. ASSUME NEW m \in Node PROVE OfTerm(m)'
  <2>1. OfTerm(m)
    BY DEF EditInv
  <2>2. QED
    BY <1>3, <1>4, <2>1 DEF OfTerm
<1>6. ASSUME NEW m \in Node PROVE Holds(m)' /\ ReadAt(m)'
  <2>1. Holds(m) /\ task[m].at \in Node /\ term[task[m].at] \in Nat
    BY <1>1 DEF EditInv, TypeOK, Task
  <2>2. CASE m = n
    BY <1>1, <2>2 DEF TypeOK, Holds, ReadAt, NoTask
  <2>3. CASE m # n
    <3>1. task'[m] = task[m]
      BY <1>1, <2>3 DEF TypeOK
    <3>2. Holds(m)'
      BY <2>1, <3>1 DEF Holds
    <3>3. CASE task[m].at = p
      BY <1>2, <1>3, <1>4, <2>1, <3>1, <3>2, <3>3, ReadStays
    <3>4. CASE task[m].at # p
      BY <1>3, <2>1, <3>1, <3>2, <3>4, ReadStays
    <3>5. QED
      BY <3>3, <3>4
  <2>4. QED
    BY <2>2, <2>3
<1>7. QED
  BY <1>5, <1>6 DEF EditInv

LEMMA EditStep == EditInv /\ [Next]_vars => EditInv'
<1> SUFFICES ASSUME EditInv, [Next]_vars PROVE EditInv'
  OBVIOUS
<1> USE DEF netVars, wrapVars
<1>1. TypeOK /\ TypeOK'
  BY TypeStep DEF EditInv
<1>2. ASSUME NEW n \in Node,
             \/ LeaveLoop(n) \/ Sample(n) \/ SampleFails(n) \/ LoseName(n)
             \/ \E m \in Node : VisitHealthy(n, m)
      PROVE  EditInv'
  <2>1. UNCHANGED <<cfg, term, leads, task>>
    BY <1>2 DEF LeaveLoop, Sample, SampleFails, LoseName, VisitHealthy
  <2>2. QED
    BY <1>1, <2>1, QuietEdits
<1>3. ASSUME NEW n \in Node, WriteRefused(n) PROVE EditInv'
  <2>1. UNCHANGED <<cfg, term, leads>> /\ task' = [task EXCEPT ![n] = NoTask(n)]
    BY <1>3 DEF WriteRefused
  <2>2. \A m \in Node :
          task'[m] = task[m] \/ (task'[m].config = NoConfig /\ task'[m].op # "drop")
    BY <1>1, <2>1 DEF TypeOK, NoTask
  <2>3. QED
    BY <1>1, <2>1, <2>2, QuietEdits
<1>4. ASSUME NEW n \in Node, ReadToPrune(n) PROVE EditInv'
  <2>1. UNCHANGED <<cfg, term, leads>> /\ task[n].op = "drop" /\ task[n].at = n
    BY <1>4 DEF ReadToPrune, EditInv, Holds
  <2>2. CASE task' = [task EXCEPT ![n] = NoTask(n)]
    <3>1. \A m \in Node :
            task'[m] = task[m] \/ (task'[m].config = NoConfig /\ task'[m].op # "drop")
      BY <1>1, <2>2 DEF TypeOK, NoTask
    <3>2. QED
      BY <1>1, <2>1, <3>1, QuietEdits
  <2>3. CASE task' = [task EXCEPT ![n] = [task[n] EXCEPT !.config = cfg[n]]]
    <3>1. /\ task'[n].op = "drop" /\ task'[n].at = n /\ task'[n].config = cfg[n]
          /\ \A m \in Node : m # n => task'[m] = task[m]
      BY <1>1, <2>1, <2>3 DEF TypeOK, Task
    <3>2. QED
      BY <1>1, <2>1, <3>1, ReadEdits
  <2>4. QED
    BY <1>4, <2>2, <2>3 DEF ReadToPrune
<1>5. ASSUME NEW n \in Node, Write(n) \/ WriteUnanswered(n) PROVE EditInv'
  BY <1>1, <1>5, WriteEdits DEF Write, WriteUnanswered
<1>6. ASSUME NEW n \in Node, NEW m \in Node, ReadToJoin(n, m) PROVE EditInv'
  <2>1. UNCHANGED <<cfg, term, leads>>
    BY <1>6 DEF ReadToJoin
  <2>2. /\ task'[n].op = "add" /\ task'[n].at = m /\ task'[n].config = cfg[m]
        /\ \A p \in Node : p # n => task'[p] = task[p]
    BY <1>1, <1>6 DEF ReadToJoin, TypeOK, NoTask
  <2>3. QED
    BY <1>1, <2>1, <2>2, ReadEdits
<1>7. ASSUME NEW n \in Node, NEW m \in Node, NEW gone \in BOOLEAN, VisitSick(n, m, gone)
      PROVE  EditInv'
  <2>1. /\ UNCHANGED <<cfg, term, leads>>
        /\ \/ UNCHANGED task
           \/ task' = [task EXCEPT ![n] = [NoTask(n) EXCEPT !.op = "drop", !.about = m]]
    BY <1>1, <1>7 DEF VisitSick, TypeOK
  <2>2. \A p \in Node :
          task'[p] = task[p] \/ (task'[p].config = NoConfig /\ task'[p].at = p)
    <3>1. LET drop == [NoTask(n) EXCEPT !.op = "drop", !.about = m] IN
            drop.config = NoConfig /\ drop.at = n
      BY DEF NoTask
    <3>2. QED
      BY <1>1, <2>1, <3>1 DEF TypeOK
  <2>3. QED
    BY <1>1, <2>1, <2>2, QuietEdits
<1>8. ASSUME NEW n \in Node, Boot(n) PROVE EditInv'
  <2>1. UNCHANGED <<cfg, term, leads>>
    BY <1>8 DEF Boot
  <2>2. ASSUME NEW p \in Node
        PROVE  /\ task'[p].op = task[p].op /\ task'[p].at = task[p].at
               /\ task'[p].config = task[p].config
    <3>1. task[p] \in Task /\ task'[p] = [task[p] EXCEPT !.back = @ \/ task[p].about = n]
      BY <1>1, <1>8 DEF Boot, TypeOK
    <3>2. QED
      BY ONLY <3>1 DEF Task
  <2>3. QED
    BY <1>1, <2>1, <2>2, QuietEdits
<1>9. ASSUME NEW n \in Node, Stop(n) \/ StepDown(n) PROVE EditInv'
  <2>1. /\ UNCHANGED <<cfg, term>> /\ leads' \subseteq leads
        /\ UNCHANGED task \/ task' = [task EXCEPT ![n] = NoTask(n)]
    BY <1>9 DEF Stop, StepDown
  <2>2. \A m \in Node :
          task'[m] = task[m] \/ (task'[m].config = NoConfig /\ task'[m].op = "none")
    BY <1>1, <2>1 DEF TypeOK, NoTask
  <2>3. ASSUME NEW m \in Node PROVE OfTerm(m)' /\ Holds(m)' /\ ReadAt(m)'
    <3>1. OfTerm(m) /\ Holds(m) /\ ReadAt(m)
      BY DEF EditInv
    <3>2. OfTerm(m)' /\ Holds(m)'
      BY <2>1, <2>2, <3>1 DEF OfTerm, Holds
    <3>3. ReadAt(m)'
      BY <2>1, <2>2, <3>1 DEF ReadAt
    <3>4. QED
      BY <3>2, <3>3
  <2>4. QED
    BY <1>1, <2>3 DEF EditInv
<1>10. ASSUME NEW n \in Node, Elect(n) PROVE EditInv'
  BY <1>1, <1>10, ElectEdits
<1>11. ASSUME NEW n \in Node, NEW m \in Node, Heartbeat(n, m) PROVE EditInv'
  BY <1>1, <1>11, HeartbeatEdits
<1>12. CASE Tick
  BY <1>1, <1>12, QuietEdits DEF Tick
<1>13. CASE UNCHANGED vars
  BY <1>1, <1>13, QuietEdits DEF vars
<1>14. QED
  BY <1>2, <1>3, <1>4, <1>5, <1>6, <1>7, <1>8, <1>9, <1>10, <1>11, <1>12, <1>13
  DEF Next, WrapperStep

\* While a node stays primary only a write changes its config.
LEMMA OnlyWritesInstall ==
  ASSUME TypeOK, Next, NEW p \in leads \cap leads', cfg'[p] # cfg[p]
  PROVE  \E n \in Node :
           Installs(n) /\ task[n].at = p /\ task' = [task EXCEPT ![n] = NoTask(n)]
<1> USE DEF netVars
<1>1. p \in Node
  BY DEF TypeOK
<1>2. PICK n \in Node :
        Write(n) \/ WriteUnanswered(n) \/ Elect(n) \/ \E m \in Node : Heartbeat(n, m)
  <2>1. ~Tick
    BY DEF Tick
  <2>2. ASSUME NEW n \in Node PROVE ~(Boot(n) \/ Stop(n) \/ LoseName(n) \/ StepDown(n))
    BY DEF Boot, Stop, LoseName, StepDown
  <2>3. ASSUME NEW n \in Node, WrapperStep(n) PROVE Write(n) \/ WriteUnanswered(n)
    <3>1. ~(LeaveLoop(n) \/ Sample(n) \/ SampleFails(n) \/ ReadToPrune(n) \/ WriteRefused(n))
      BY DEF LeaveLoop, Sample, SampleFails, ReadToPrune, WriteRefused
    <3>2. \A m \in Node : ~ReadToJoin(n, m) /\ ~VisitHealthy(n, m)
      BY DEF ReadToJoin, VisitHealthy
    <3>3. \A m \in Node, gone \in BOOLEAN : ~VisitSick(n, m, gone)
      BY DEF VisitSick
    <3>4. QED
      BY <2>3, <3>1, <3>2, <3>3 DEF WrapperStep
  <2>4. QED
    BY <2>1, <2>2, <2>3 DEF Next
<1>3. ~Elect(n)
  <2> SUFFICES ASSUME Elect(n) PROVE FALSE
    OBVIOUS
  <2>1. n \notin leads /\ \A m \in Node : m # n => cfg'[m] = cfg[m]
    BY DEF Elect, TypeOK
  <2>2. QED
    BY <1>1, <2>1
<1>4. ASSUME NEW m \in Node, Heartbeat(n, m) PROVE FALSE
  BY <1>1, <1>4 DEF Heartbeat, TypeOK
<1>5. Installs(n) /\ task' = [task EXCEPT ![n] = NoTask(n)]
  BY <1>2, <1>3, <1>4 DEF Write, WriteUnanswered
<1>6. task[n].at = p
  BY <1>1, <1>5 DEF Installs, TypeOK
<1>7. QED
  BY <1>5, <1>6

\* A primary's config changes only by the edit of one author, and as that author
\* meant it to when the config was read in the term it is written in: whatever
\* landed in between, mongod takes the write only if nothing did.
THEOREM EditsAsMeantHolds == Spec => EditsAsMeant
<1> DEFINE Meant ==
      \A p \in leads \cap leads' :
        cfg'[p].version # cfg[p].version =>
          \E n \in Node :
            /\ task[n].op # "none" /\ task'[n].op = "none" /\ task[n].at = p
            /\ task[n].config.term = cfg[p].term =>
                 cfg'[p].members =
                   IF task[n].op = "add" THEN cfg[p].members \cup {n}
                   ELSE cfg[p].members \ {task[n].about}
<1>1. EditInv /\ [Next]_vars => [Meant]_vars
  <2> SUFFICES ASSUME EditInv, Next, NEW p \in leads \cap leads',
                      cfg'[p].version # cfg[p].version
               PROVE  \E n \in Node :
                        /\ task[n].op # "none" /\ task'[n].op = "none" /\ task[n].at = p
                        /\ task[n].config.term = cfg[p].term =>
                             cfg'[p].members =
                               IF task[n].op = "add" THEN cfg[p].members \cup {n}
                               ELSE cfg[p].members \ {task[n].about}
    BY DEF vars
  <2>1. TypeOK /\ p \in Node
    BY DEF EditInv, TypeOK
  <2>2. PICK n \in Node :
          Installs(n) /\ task[n].at = p /\ task' = [task EXCEPT ![n] = NoTask(n)]
    BY <2>1, OnlyWritesInstall
  <2>3. /\ task[n].config # NoConfig /\ Holds(n) /\ ReadAt(n)
        /\ task[n].config.version \in Nat /\ cfg[p].version \in Nat
    BY <2>1, <2>2 DEF Installs, EditInv, TypeOK, Task, Config
  <2>4. task[n].op # "none" /\ task'[n].op = "none"
    BY <2>1, <2>2, <2>3 DEF Holds, TypeOK, NoTask
  <2>5. cfg'[p].members = Edited(n) /\ NextVersion(n) > cfg[p].version
    BY <2>1, <2>2 DEF Installs, Accepts, TypeOK
  <2>6. ASSUME task[n].config.term = cfg[p].term PROVE task[n].config = cfg[p]
    BY <2>2, <2>3, <2>5, <2>6 DEF ReadAt, NextVersion
  <2>7. QED
    BY <2>2, <2>4, <2>5, <2>6 DEF Edited
<1>2. QED
  BY <1>1, InitEdits, EditStep, PTL DEF Spec, EditsAsMeant

=============================================================================
