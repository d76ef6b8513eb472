------------------------- MODULE PrimaryDutiesProofs -------------------------
(***************************************************************************)
(* Proofs about the two loops in which a wrapper looks after the set while *)
(* it is the primary's: ReplicationMonitor, for any number of members and  *)
(* faults and any dwell, and Fcv, for any number of members, releases and  *)
(* faults.                                                                 *)
(***************************************************************************)
EXTENDS ReplicationMonitor, Fcv, TLAPS

-----------------------------------------------------------------------------
(* ReplicationMonitor: type correctness.                                   *)

LEMMA FaultType == TypeOK /\ (Fault \/ UNCHANGED faults) => faults' \in 0..MaxFaults
BY BoundAssumption DEF TypeOK, Fault

LEMMA TimeType == Dwell \in Nat \ {0} /\ Dwell \in 0..Dwell
BY DwellAssumption

\* A member enters a state, and the primary is whoever is in PRIMARY.
LEMMA EntersType ==
  ASSUME TypeOK, NEW m \in Nodes, NEW s \in States, Enters(m, s)
  PROVE  /\ state' \in [Nodes -> States] /\ held' \in [Nodes -> 0..Dwell]
         /\ state'[m] = s /\ held'[m] = 0
         /\ \A o \in Nodes \ {m} : state'[o] = state[o] /\ held'[o] = held[o]
BY TimeType DEF TypeOK, Enters

\* Who has missed a member leave is a set of members for each wrapper.
LEMMA RelapsedType ==
  ASSUME TypeOK, NEW m \in Nodes, NEW s
  PROVE  /\ Relapsed(m, s) \in [Nodes -> SUBSET Nodes]
         /\ \A n \in Nodes : Relapsed(m, s)[n] =
              IF clock[n][m].state = s THEN lapsed[n] \cup {m} ELSE lapsed[n]
BY DEF TypeOK, Relapsed

LEMMA EndedType ==
  ASSUME TypeOK, NEW K, Ended(K)
  PROVE  /\ same' \in [Nodes -> SUBSET Keys]
         /\ \A n \in Nodes : same'[n] = same[n] \ K
BY DEF TypeOK, Ended

LEMMA ObservedType ==
  ASSUME TypeOK, NEW n \in Nodes, NEW m \in Nodes
  PROVE  Observed(n, m) \in [state : States, age : 0..Dwell]
<1>1. /\ seen[n].state[m] \in States
      /\ clock[n][m] \in [state : States, age : 0..Dwell]
  BY DEF TypeOK
<1>2. 0 \in 0..Dwell /\ NoClock \in [state : States, age : 0..Dwell]
  BY TimeType DEF NoClock, States
<1>3. QED
  BY <1>1, <1>2 DEF Observed

LEMMA SignalsType ==
  ASSUME TypeOK, NEW n \in Nodes, NEW b \in BOOLEAN
  PROVE  Signals(n, b) \subseteq Keys
BY DEF Signals, StuckSignals, FallingSignals, Keys, OplogKeys, StuckKeys

LEMMA WorldType ==
  ASSUME TypeOK, \E n \in Nodes : Change(n) \/ Elect(n)
  PROVE  TypeOK'
<1>1. ASSUME NEW m \in Nodes, Change(m) PROVE TypeOK'
  <2>1. PICK s \in (Reported \cup {"absent"}) \ {state[m]} :
          Enters(m, s) /\ lapsed' = Relapsed(m, s)
    BY <1>1 DEF Change
  <2>2. s \in States /\ s # "PRIMARY" /\ state[m] # "PRIMARY"
    BY <1>1, <2>1 DEF States, Reported, Stuck, Change, TypeOK
  <2>3. same' \in [Nodes -> SUBSET Keys]
    BY <1>1, EndedType DEF Change
  <2>4. faults' \in 0..MaxFaults
    BY <1>1, FaultType DEF Change
  <2>5. UNCHANGED <<primary, behind, oplog, memory, unread>>
    BY <1>1 DEF Change
  <2>6. QED
    BY <2>1, <2>2, <2>3, <2>4, <2>5, EntersType, RelapsedType DEF TypeOK, memory
<1>2. ASSUME NEW n \in Nodes, Elect(n) PROVE TypeOK'
  <2>1. /\ Enters(n, "PRIMARY") /\ "PRIMARY" \in States /\ primary = NoNode /\ primary' = n
        /\ lapsed' = Relapsed(n, "PRIMARY")
    BY <1>2 DEF Elect, States
  <2>2. same' \in [Nodes -> SUBSET Keys]
    BY <1>2, EndedType DEF Elect
  <2>3. UNCHANGED <<behind, oplog, memory, unread, faults>>
    BY <1>2 DEF Elect
  <2>4. \A m \in Nodes : state'[m] = "PRIMARY" <=> primary' = m
    BY <2>1, EntersType, NodeAssumption DEF TypeOK
  <2>5. QED
    BY <2>1, <2>2, <2>3, <2>4, EntersType, RelapsedType DEF TypeOK, memory
<1>3. QED
  BY <1>1, <1>2

LEMMA LeaveType ==
  ASSUME TypeOK, StepDown \/ \E n \in Nodes : Stop(n)
  PROVE  TypeOK'
<1>1. CASE StepDown
  <2>1. /\ primary \in Nodes /\ Enters(primary, "SECONDARY") /\ primary' = NoNode
        /\ "SECONDARY" \in States /\ lapsed' = Relapsed(primary, "SECONDARY")
    BY <1>1 DEF StepDown, TypeOK, States, Reported
  <2>2. same' \in [Nodes -> SUBSET Keys]
    BY <1>1, EndedType DEF StepDown
  <2>3. faults' \in 0..MaxFaults
    BY <1>1, FaultType DEF StepDown
  <2>4. UNCHANGED <<behind, oplog, memory, unread>>
    BY <1>1 DEF StepDown
  <2>5. \A m \in Nodes : state'[m] = "PRIMARY" <=> primary' = m
    <3>1. /\ state'[primary] = "SECONDARY"
          /\ \A o \in Nodes \ {primary} : state'[o] = state[o]
      BY <2>1, EntersType
    <3>2. \A m \in Nodes : primary' # m
      BY <2>1, NodeAssumption
    <3>3. QED
      BY <3>1, <3>2 DEF TypeOK
  <2>6. QED
    BY <2>1, <2>2, <2>3, <2>4, <2>5, EntersType, RelapsedType DEF TypeOK, memory
<1>2. ASSUME NEW n \in Nodes, Stop(n) PROVE TypeOK'
  <2>1. Enters(n, "DOWN") /\ "DOWN" \in States
    BY <1>2 DEF Stop, States, Reported
  <2>2. faults' \in 0..MaxFaults
    BY <1>2, FaultType DEF Stop
  <2>3. \A m \in Nodes : state'[m] = "PRIMARY" <=> primary' = m
    BY <1>2, <2>1, EntersType, NodeAssumption DEF TypeOK, Stop
  <2>4. NothingSeen \in [state : [Nodes -> States], behind : SUBSET Nodes]
    BY DEF NothingSeen, States
  <2>5. [m \in Nodes |-> NoClock] \in [Nodes -> [state : States, age : 0..Dwell]]
    BY TimeType DEF NoClock, States
  <2>6. same' \in [Nodes -> SUBSET Keys]
    BY <1>2 DEF Stop, TypeOK
  <2>7. lapsed' \in [Nodes -> SUBSET Nodes]
    BY <1>2, RelapsedType DEF Stop
  <2>8. QED
    BY <1>2, <2>1, <2>2, <2>3, <2>4, <2>5, <2>6, <2>7, EntersType DEF TypeOK, Stop
<1>3. QED
  BY <1>1, <1>2

LEMMA PollType ==
  ASSUME TypeOK, NEW n \in Nodes, Poll(n)
  PROVE  TypeOK'
<1> USE DEF world, history
<1>1. CASE Hello(n)
  BY <1>1 DEF Hello, TypeOK
<1>2. CASE ReadStatus(n)
  BY <1>2 DEF ReadStatus, TypeOK
<1>3. CASE StatusFails(n)
  BY <1>3, FaultType DEF StatusFails, TypeOK
<1>4. CASE Conclude(n)
  <2>1. PICK readable \in BOOLEAN :
          /\ IF readable THEN UNCHANGED faults ELSE Fault
          /\ alerted' = [alerted EXCEPT ![n] = Signals(n, SizeBounded(readable))]
          /\ unread' = IF readable THEN unread \ {n} ELSE unread \cup {n}
    BY <1>4 DEF Conclude
  <2>2. Signals(n, SizeBounded(readable)) \subseteq Keys
    BY SignalsType DEF SizeBounded
  <2>3. alerted' \in [Nodes -> SUBSET Keys] /\ alerted'[n] \subseteq Keys
    BY <2>1, <2>2 DEF TypeOK
  <2>4. same' \in [Nodes -> SUBSET Keys] /\ unread' \subseteq Nodes
    BY <1>4, <2>1, <2>3 DEF Conclude, TypeOK
  <2>5. faults' \in 0..MaxFaults
    BY <2>1, FaultType
  <2>6. [m \in Nodes |-> Observed(n, m)] \in [Nodes -> [state : States, age : 0..Dwell]]
    BY ObservedType
  <2>7. NothingSeen \in [state : [Nodes -> States], behind : SUBSET Nodes]
    BY DEF NothingSeen, States
  <2>8. clock' \in [Nodes -> [Nodes -> [state : States, age : 0..Dwell]]]
    BY <1>4, <2>6 DEF Conclude, TypeOK
  <2>9. lapsed' \in [Nodes -> SUBSET Nodes]
    BY <1>4 DEF Conclude, TypeOK
  <2>10. seen' \in [Nodes -> [state : [Nodes -> States], behind : SUBSET Nodes]]
    BY <1>4, <2>7 DEF Conclude, TypeOK
  <2>11. QED
    BY <1>4, <2>3, <2>4, <2>5, <2>8, <2>9, <2>10 DEF Conclude, TypeOK
<1>5. QED
  BY <1>1, <1>2, <1>3, <1>4 DEF Poll

\* What a tick does to a clock.
Older(c) == IF c.state # "absent" /\ c.age < Dwell THEN [c EXCEPT !.age = @ + 1] ELSE c

LEMMA OlderType ==
  ASSUME NEW c \in [state : States, age : 0..Dwell]
  PROVE  /\ Older(c) \in [state : States, age : 0..Dwell]
         /\ Older(c).state = c.state /\ Older(c).age <= c.age + 1
BY TimeType DEF Older

LEMMA TickType ==
  ASSUME TypeOK, Tick
  PROVE  TypeOK' /\ \A n, m \in Nodes : clock'[n][m] = Older(clock[n][m])
<1>1. held' \in [Nodes -> 0..Dwell]
  BY TimeType DEF TypeOK, Tick
<1>2. \A n, m \in Nodes : clock'[n][m] = Older(clock[n][m])
  BY DEF Tick, Older
<1>3. clock' \in [Nodes -> [Nodes -> [state : States, age : 0..Dwell]]]
  <2>1. clock' = [n \in Nodes |-> [m \in Nodes |-> Older(clock[n][m])]]
    BY DEF Tick, Older
  <2>2. QED
    BY <2>1, OlderType DEF TypeOK
<1>4. faults' \in 0..MaxFaults
  BY FaultType DEF Tick
<1>5. QED
  BY <1>1, <1>2, <1>3, <1>4 DEF TypeOK, Tick, history

LEMMA TypeStep == TypeOK /\ [Next]_vars => TypeOK'
<1> SUFFICES ASSUME TypeOK, [Next]_vars PROVE TypeOK'
  OBVIOUS
<1>1. CASE Load
  BY <1>1, EndedType, FaultType DEF Load, TypeOK, memory
<1>2. CASE UNCHANGED vars
  BY <1>2 DEF vars, world, memory, history, TypeOK
<1>3. QED
  BY <1>1, <1>2, WorldType, LeaveType, PollType, TickType DEF Next

LEMMA TypeInit == Init => TypeOK
<1> SUFFICES ASSUME Init PROVE TypeOK
  OBVIOUS
<1>1. NothingSeen \in [state : [Nodes -> States], behind : SUBSET Nodes]
  BY DEF NothingSeen, States
<1>2. NoClock \in [state : States, age : 0..Dwell]
  BY TimeType DEF NoClock, States
<1>3. QED
  BY <1>1, <1>2, TimeType, FirstAssumption, BoundAssumption DEF Init, TypeOK, States, Reported

\* Memories, clocks and reports stay within their bounds, and exactly the
\* primary is in the state PRIMARY (replication_monitor.rs: MemberStateTracker).
THEOREM MonitorType == Spec => []TypeOK
BY TypeInit, TypeStep, PTL DEF Spec

-----------------------------------------------------------------------------
(* ReplicationMonitor: a report is not repeated.                           *)

\* What a wrapper that is about to conclude has read: still true of m.
SeenStuck(n, m) == round[n] = "oplog" => seen[n].state[m] = state[m]
SeenFalling(n, m) ==
  round[n] = "oplog" =>
    /\ seen[n].state[m] = "SECONDARY" /\ m \in seen[n].behind
    /\ \E p \in Nodes : seen[n].state[p] = "PRIMARY"

\* What a wrapper has reported and has been true since is still true, and its
\* next conclusion will find it so again; the wrapper has it on record unless
\* its last round could not read the oplog.
Lasts(n, k) ==
  /\ k \in alerted[n] \/ (n \in unread /\ k \in OplogKeys)
  /\ k = Window => oplog = "short"
  /\ \A m \in Nodes : k = <<"stuck", m>> =>
       /\ m # n /\ state[m] \in Stuck
       /\ clock[n][m].state = state[m] /\ clock[n][m].age = Dwell
       /\ SeenStuck(n, m)
  /\ \A m \in Nodes : k = <<"falling", m>> =>
       /\ m # n /\ state[m] = "SECONDARY" /\ m \in behind /\ oplog # "young" /\ primary \in Nodes
       /\ SeenFalling(n, m)

SameLasts == \A n \in Nodes : \A k \in same[n] : Lasts(n, k)

\* The keys are told apart, and every key is of one of the three kinds.
LEMMA KeyKinds ==
  /\ \A m, o \in Nodes : <<"stuck", m>> # <<"falling", o>>
  /\ \A m \in Nodes : <<"stuck", m>> \notin OplogKeys /\ <<"falling", m>> \in OplogKeys
  /\ Window \in OplogKeys
  /\ \A m \in Nodes : Window # <<"stuck", m>> /\ Window # <<"falling", m>>
  /\ \A k \in Keys : k = Window \/ \E m \in Nodes : k = <<"stuck", m>> \/ k = <<"falling", m>>
BY DEF OplogKeys, StuckKeys, Keys, Window

\* A step that leaves a wrapper's memory alone, and of the set only what no
\* standing report is about.
LEMMA StillLasts ==
  ASSUME TypeOK, TypeOK', SameLasts, NEW n \in Nodes, NEW k \in same[n],
         alerted'[n] = alerted[n], n \in unread' <=> n \in unread, seen'[n] = seen[n],
         round'[n] = round[n] \/ round'[n] # "oplog",
         \A m \in Nodes : clock[n][m].age = Dwell => clock'[n][m] = clock[n][m],
         k \in OplogKeys => UNCHANGED <<oplog, behind, primary>>,
         \A m \in Nodes : k \in KeysOf(m) => state'[m] = state[m]
  PROVE  Lasts(n, k)'
<1>1. Lasts(n, k)
  BY DEF SameLasts
<1>2. k = Window => oplog' = "short"
  BY <1>1, KeyKinds DEF Lasts
<1>3. ASSUME NEW m \in Nodes, k = <<"stuck", m>>
      PROVE  /\ m # n /\ state'[m] \in Stuck
             /\ clock'[n][m].state = state'[m] /\ clock'[n][m].age = Dwell
             /\ SeenStuck(n, m)'
  <2>1. state'[m] = state[m]
    BY <1>3 DEF KeysOf
  <2>2. QED
    BY <1>1, <1>3, <2>1 DEF Lasts, SeenStuck
<1>4. ASSUME NEW m \in Nodes, k = <<"falling", m>>
      PROVE  /\ m # n /\ state'[m] = "SECONDARY" /\ m \in behind' /\ oplog' # "young"
             /\ primary' \in Nodes /\ SeenFalling(n, m)'
  <2>1. state'[m] = state[m] /\ UNCHANGED <<oplog, behind, primary>>
    BY <1>4, KeyKinds DEF KeysOf
  <2>2. QED
    BY <1>1, <1>4, <2>1 DEF Lasts, SeenFalling
<1>5. QED
  BY <1>1, <1>2, <1>3, <1>4 DEF Lasts

LEMMA SetLasts ==
  ASSUME TypeOK, TypeOK', SameLasts,
         StepDown \/ Load \/ \E n \in Nodes : Change(n) \/ Elect(n)
  PROVE  SameLasts'
<1> DEFINE P(K) ==
             /\ Ended(K) /\ UNCHANGED <<memory, unread>>
             /\ OplogKeys \subseteq K \/ UNCHANGED <<oplog, behind, primary>>
             /\ UNCHANGED state \/ \E m \in Nodes, s \in States : KeysOf(m) \subseteq K /\ Enters(m, s)
<1>1. PICK K : P(K)
  <2>1. CASE StepDown
    <3>1. primary \in Nodes /\ "SECONDARY" \in States
      BY <2>1 DEF StepDown, TypeOK, States, Reported
    <3>2. P(OplogKeys \cup KeysOf(primary))
      BY <2>1, <3>1 DEF StepDown
    <3>3. QED
      BY <3>2
  <2>2. CASE Load
    <3>1. P(OplogKeys)
      BY <2>2 DEF Load
    <3>2. QED
      BY <3>1
  <2>3. ASSUME NEW n \in Nodes, Change(n) PROVE P(KeysOf(n))
    BY <2>3 DEF Change, States
  <2>4. ASSUME NEW n \in Nodes, Elect(n) PROVE P(OplogKeys \cup KeysOf(n))
    <3>1. "PRIMARY" \in States
      BY DEF States
    <3>2. QED
      BY <2>4, <3>1 DEF Elect
  <2>5. ASSUME NEW n \in Nodes, Change(n) \/ Elect(n) PROVE \E K : P(K)
    BY <2>3, <2>4, <2>5
  <2>6. QED
    BY <2>1, <2>2, <2>5
<1>2. ASSUME NEW n \in Nodes, NEW k \in same'[n] PROVE Lasts(n, k)'
  <2>1. k \in same[n] \ K
    BY <1>1, EndedType
  <2>2. \A m \in Nodes : k \in KeysOf(m) => state'[m] = state[m]
    BY <1>1, <2>1, EntersType
  <2>3. alerted'[n] = alerted[n] /\ seen'[n] = seen[n] /\ round'[n] = round[n] /\ clock' = clock
    BY <1>1 DEF memory
  <2>4. n \in unread' <=> n \in unread
    BY <1>1
  <2>5. QED
    BY <1>1, <2>1, <2>2, <2>3, <2>4, StillLasts
<1>3. QED
  BY <1>2 DEF SameLasts

LEMMA StopLasts ==
  ASSUME TypeOK, TypeOK', SameLasts, NEW s \in Nodes, Stop(s)
  PROVE  SameLasts'
<1>1. ASSUME NEW n \in Nodes, NEW k \in same'[n] PROVE Lasts(n, k)'
  <2>1. /\ n # s /\ k \in same[n] /\ k \notin KeysOf(s)
        /\ primary = s => k \notin OplogKeys
    BY <1>1 DEF Stop, TypeOK
  <2>2. /\ alerted'[n] = alerted[n] /\ seen'[n] = seen[n] /\ round'[n] = round[n]
        /\ clock'[n] = clock[n] /\ (n \in unread' <=> n \in unread)
    BY <2>1 DEF Stop, TypeOK
  <2>3. Enters(s, "DOWN") /\ "DOWN" \in States
    BY DEF Stop, States, Reported
  <2>4. \A m \in Nodes : k \in KeysOf(m) => state'[m] = state[m]
    BY <2>1, <2>3, EntersType
  <2>5. k \in OplogKeys => UNCHANGED <<oplog, behind, primary>>
    BY <2>1 DEF Stop
  <2>6. QED
    BY <2>1, <2>2, <2>4, <2>5, StillLasts
<1>2. QED
  BY <1>1 DEF SameLasts

LEMMA TickLasts ==
  ASSUME TypeOK, TypeOK', SameLasts, Tick
  PROVE  SameLasts'
<1>1. ASSUME NEW n \in Nodes, NEW k \in same'[n] PROVE Lasts(n, k)'
  <2>1. UNCHANGED <<same, unread, alerted, seen, round, oplog, behind, primary, state>>
    BY DEF Tick, history
  <2>2. \A m \in Nodes : clock[n][m].age = Dwell => clock'[n][m] = clock[n][m]
    <3>1. \A m \in Nodes : clock'[n][m] = Older(clock[n][m])
      BY TickType
    <3>2. ~(Dwell < Dwell)
      BY TimeType
    <3>3. QED
      BY <3>1, <3>2 DEF Older
  <2>3. QED
    BY <2>1, <2>2, StillLasts
<1>2. QED
  BY <1>1 DEF SameLasts

LEMMA EarlyPollLasts ==
  ASSUME TypeOK, TypeOK', SameLasts, NEW p \in Nodes, Hello(p) \/ ReadStatus(p) \/ StatusFails(p)
  PROVE  SameLasts'
<1>0. UNCHANGED <<same, unread, alerted, clock, oplog, behind, primary, state>>
  BY DEF Hello, ReadStatus, StatusFails, world, history
<1>1. ASSUME NEW n \in Nodes, NEW k \in same'[n] PROVE Lasts(n, k)'
  <2>1. k \in same[n]
    BY <1>0
  <2>2. CASE n # p \/ ~ReadStatus(p)
    <3>1. seen'[n] = seen[n] /\ (round'[n] = round[n] \/ round'[n] # "oplog")
      BY <2>2 DEF Hello, ReadStatus, StatusFails, TypeOK
    <3>2. QED
      BY <1>0, <2>1, <3>1, StillLasts
  <2>3. CASE n = p /\ ReadStatus(p)
    <3>1. seen'[n].state = state /\ seen'[n].behind = behind
      BY <2>3 DEF ReadStatus, TypeOK
    <3>2. Lasts(n, k)
      BY <2>1 DEF SameLasts
    <3>3. primary \in Nodes => \E m \in Nodes : seen'[n].state[m] = "PRIMARY"
      BY <3>1 DEF TypeOK
    <3>4. QED
      BY <1>0, <3>1, <3>2, <3>3 DEF Lasts, SeenStuck, SeenFalling
  <2>4. QED
    BY <2>2, <2>3
<1>2. QED
  BY <1>1 DEF SameLasts

\* What has been reported before is found again by the round that ends.
LEMMA FoundAgain ==
  ASSUME TypeOK, NEW n \in Nodes, round[n] = "oplog", NEW k, Lasts(n, k), NEW readable \in BOOLEAN,
         readable \/ k \notin OplogKeys, k \in Keys
  PROVE  k \in Signals(n, SizeBounded(readable))
<1>1. CASE k = Window
  BY <1>1, KeyKinds DEF Lasts, Signals, SizeBounded
<1>2. ASSUME NEW m \in Nodes, k = <<"stuck", m>> PROVE k \in StuckSignals(n)
  <2>1. /\ m # n /\ state[m] \in Stuck /\ seen[n].state[m] = state[m]
        /\ clock[n][m].state = state[m] /\ clock[n][m].age = Dwell
    BY <1>2 DEF Lasts, SeenStuck
  <2>2. Observed(n, m) = clock[n][m]
    BY <2>1 DEF Observed, Stuck
  <2>3. Observed(n, m).age >= Dwell
    BY <2>1, <2>2, TimeType
  <2>4. QED
    BY <1>2, <2>1, <2>3 DEF StuckSignals
<1>3. ASSUME NEW m \in Nodes, k = <<"falling", m>>
      PROVE  k \in FallingSignals(n) /\ SizeBounded(readable)
  BY <1>3, KeyKinds DEF Lasts, SeenFalling, FallingSignals, SizeBounded
<1>4. QED
  BY <1>1, <1>2, <1>3, KeyKinds DEF Signals

LEMMA ConcludeLasts ==
  ASSUME TypeOK, TypeOK', SameLasts, NEW p \in Nodes, Conclude(p)
  PROVE  SameLasts'
<1>1. PICK readable \in BOOLEAN :
        /\ alerted' = [alerted EXCEPT ![p] = Signals(p, SizeBounded(readable))]
        /\ unread' = IF readable THEN unread \ {p} ELSE unread \cup {p}
  BY DEF Conclude
<1>2. /\ UNCHANGED <<primary, state, behind, oplog>>
      /\ round[p] = "oplog" /\ round'[p] = "sleep"
      /\ \A m \in Nodes : clock'[p][m] = Observed(p, m)
      /\ alerted'[p] = Signals(p, SizeBounded(readable))
  BY <1>1 DEF Conclude, world, TypeOK
<1>3. ASSUME NEW n \in Nodes \ {p}, NEW k \in same'[n] PROVE Lasts(n, k)'
  <2>1. /\ k \in same[n] /\ alerted'[n] = alerted[n] /\ seen'[n] = seen[n] /\ round'[n] = round[n]
        /\ clock'[n] = clock[n] /\ (n \in unread' <=> n \in unread)
    BY <1>1 DEF Conclude, TypeOK
  <2>2. QED
    BY <1>2, <2>1, StillLasts
<1>4. ASSUME NEW k \in same[p] PROVE Lasts(p, k)'
  <2>1. Lasts(p, k) /\ k \in Keys
    BY DEF SameLasts, TypeOK
  <2>2. k \in alerted'[p] \/ (p \in unread' /\ k \in OplogKeys)
    BY <1>1, <1>2, <2>1, FoundAgain
  <2>3. ASSUME NEW m \in Nodes, k = <<"stuck", m>>
        PROVE  clock'[p][m] = clock[p][m]
    BY <1>2, <2>1, <2>3 DEF Lasts, SeenStuck, Observed, Stuck
  <2>4. QED
    BY <1>2, <2>1, <2>2, <2>3 DEF Lasts, SeenStuck, SeenFalling
<1>5. ASSUME NEW k \in alerted'[p], Holds(k), seen[p].state = state PROVE Lasts(p, k)'
  <2>1. k = Window => oplog = "short"
    BY <1>5, KeyKinds DEF Holds
  <2>2. ASSUME NEW m \in Nodes, k = <<"stuck", m>>
        PROVE  /\ m # p /\ state[m] \in Stuck
               /\ clock'[p][m].state = state[m] /\ clock'[p][m].age = Dwell
    <3>1. k \in StuckSignals(p)
      BY <1>2, <2>2, KeyKinds DEF Signals, FallingSignals
    <3>2. /\ m # p /\ seen[p].state[m] \in Stuck /\ Observed(p, m).age >= Dwell
      BY <2>2, <3>1 DEF StuckSignals
    <3>3. Observed(p, m).age \in 0..Dwell /\ Observed(p, m).state = seen[p].state[m]
      BY <3>2, ObservedType DEF Observed, Stuck
    <3>4. QED
      BY <1>2, <1>5, <3>2, <3>3, TimeType
  <2>3. ASSUME NEW m \in Nodes, k = <<"falling", m>>
        PROVE  /\ m # p /\ state[m] = "SECONDARY" /\ m \in behind /\ oplog # "young"
               /\ primary \in Nodes
    <3>1. k \in FallingSignals(p)
      BY <1>2, <2>3, KeyKinds DEF Signals, StuckSignals
    <3>2. m # p /\ \E o \in Nodes : state[o] = "PRIMARY"
      BY <1>5, <2>3, <3>1 DEF FallingSignals
    <3>3. state[m] = "SECONDARY" /\ m \in behind /\ oplog # "young"
      BY <1>5, <2>3, KeyKinds DEF Holds
    <3>4. QED
      BY <3>2, <3>3 DEF TypeOK
  <2>4. QED
    BY <1>2, <2>1, <2>2, <2>3 DEF Lasts, SeenStuck, SeenFalling
<1>6. ASSUME NEW k \in same'[p] PROVE Lasts(p, k)'
  <2>1. k \in same[p] \/ (k \in alerted'[p] /\ Holds(k) /\ seen[p].state = state)
    BY <1>6 DEF Conclude, TypeOK
  <2>2. QED
    BY <1>4, <1>5, <2>1
<1>7. QED
  BY <1>3, <1>6 DEF SameLasts

LEMMA LastsStep == TypeOK /\ SameLasts /\ [Next]_vars => SameLasts'
<1> SUFFICES ASSUME TypeOK, SameLasts, [Next]_vars PROVE SameLasts'
  OBVIOUS
<1>1. TypeOK'
  BY TypeStep
<1>2. CASE UNCHANGED vars
  BY <1>2 DEF vars, world, memory, history, SameLasts, Lasts, SeenStuck, SeenFalling
<1>3. QED
  BY <1>1, <1>2, SetLasts, StopLasts, TickLasts, EarlyPollLasts, ConcludeLasts DEF Next, Poll

LEMMA LastsInit == Init => SameLasts
BY DEF Init, SameLasts

\* A signal that has been reported and is true since is not reported again,
\* but for an oplog signal after a round that could not read the oplog
\* (rs.rs: replication_health_round).
THEOREM ReportedOnceHolds == Spec => ReportedOnce
<1>1. SameLasts => \A n \in Nodes :
        News(n) \cap same[n] \subseteq IF n \in unread THEN OplogKeys ELSE {}
  BY DEF SameLasts, Lasts, News
<1>2. QED
  BY <1>1, TypeInit, TypeStep, LastsInit, LastsStep, PTL DEF Spec, ReportedOnce

-----------------------------------------------------------------------------
(* ReplicationMonitor: who is reported as stuck is stuck.                  *)

\* A clock that names the state of its member tells the truth, or the member was
\* back in that state before it was seen out of it.
ClocksTrue ==
  \A n, m \in Nodes :
    m \notin lapsed[n] /\ clock[n][m].state = state[m] => clock[n][m].age <= held[m]

LEMMA WatchTypes ==
  ASSUME TypeOK
  PROVE  /\ \A m \in Nodes : held[m] \in 0..Dwell /\ state[m] \in States
         /\ \A n, m \in Nodes : clock[n][m] \in [state : States, age : 0..Dwell]
BY DEF TypeOK

\* A member that enters a state starts its time there; a clock that already
\* names that state is put on record.
LEMMA EntersTrue ==
  ASSUME TypeOK, ClocksTrue, NEW o \in Nodes, NEW s \in States, Enters(o, s),
         NEW n \in Nodes, clock'[n] = clock[n], lapsed'[n] = Relapsed(o, s)[n], NEW m \in Nodes,
         m \notin lapsed'[n], clock'[n][m].state = state'[m]
  PROVE  clock'[n][m].age <= held'[m]
<1>1. state'[o] = s /\ \A k \in Nodes \ {o} : state'[k] = state[k] /\ held'[k] = held[k]
  BY EntersType
<1>2. lapsed'[n] = IF clock[n][o].state = s THEN lapsed[n] \cup {o} ELSE lapsed[n]
  BY DEF Relapsed
<1>3. m # o
  BY <1>1, <1>2
<1>4. QED
  BY <1>1, <1>2, <1>3 DEF ClocksTrue

LEMMA SetTrue ==
  ASSUME TypeOK, ClocksTrue, StepDown \/ Load \/ \E n \in Nodes : Change(n) \/ Elect(n)
  PROVE  ClocksTrue'
<1>1. CASE Load
  BY <1>1 DEF Load, memory, ClocksTrue
<1>2. CASE StepDown \/ \E n \in Nodes : Change(n) \/ Elect(n)
  <2>1. PICK o \in Nodes, s \in States : Enters(o, s) /\ lapsed' = Relapsed(o, s)
    <3>1. CASE StepDown
      BY <3>1 DEF StepDown, TypeOK, States, Reported
    <3>2. ASSUME NEW n \in Nodes, Change(n)
          PROVE  \E s \in States : Enters(n, s) /\ lapsed' = Relapsed(n, s)
      BY <3>2 DEF Change, States
    <3>3. ASSUME NEW n \in Nodes, Elect(n)
          PROVE  "PRIMARY" \in States /\ Enters(n, "PRIMARY") /\ lapsed' = Relapsed(n, "PRIMARY")
      BY <3>3 DEF Elect, States
    <3>4. QED
      BY <1>2, <3>1, <3>2, <3>3
  <2>2. clock' = clock
    BY <1>2 DEF StepDown, Change, Elect, memory
  <2>3. QED
    BY <2>1, <2>2, EntersTrue DEF ClocksTrue
<1>3. QED
  BY <1>1, <1>2

LEMMA StopTrue ==
  ASSUME TypeOK, TypeOK', ClocksTrue, NEW o \in Nodes, Stop(o)
  PROVE  ClocksTrue'
<1>1. Enters(o, "DOWN") /\ "DOWN" \in States
  BY DEF Stop, States, Reported
<1>2. \A m \in Nodes : clock'[o][m].age = 0
  BY DEF Stop, TypeOK, NoClock
<1>3. \A n \in Nodes \ {o} : clock'[n] = clock[n] /\ lapsed'[n] = Relapsed(o, "DOWN")[n]
  BY RelapsedType DEF Stop, TypeOK
<1>4. \A m \in Nodes : held'[m] \in 0..Dwell
  BY WatchTypes, DwellAssumption DEF TypeOK
<1>5. ASSUME NEW n \in Nodes, NEW m \in Nodes, m \notin lapsed'[n], clock'[n][m].state = state'[m]
      PROVE  clock'[n][m].age <= held'[m]
  <2>1. CASE n = o
    BY <1>2, <1>4, <2>1
  <2>2. CASE n # o
    BY <1>1, <1>3, <1>5, <2>2, EntersTrue
  <2>3. QED
    BY <2>1, <2>2
<1>6. QED
  BY <1>5 DEF ClocksTrue

LEMMA TickTrue ==
  ASSUME TypeOK, ClocksTrue, Tick
  PROVE  ClocksTrue'
<1>1. UNCHANGED <<state, lapsed>>
      /\ \A m \in Nodes : held'[m] = IF held[m] < Dwell THEN held[m] + 1 ELSE held[m]
  BY DEF Tick, history
<1>2. ASSUME NEW n \in Nodes, NEW m \in Nodes, m \notin lapsed[n], clock'[n][m].state = state[m]
      PROVE  clock'[n][m].age <= held'[m]
  <2>1. /\ clock[n][m] \in [state : States, age : 0..Dwell] /\ held[m] \in 0..Dwell
        /\ clock'[n][m] = Older(clock[n][m])
    BY WatchTypes, TickType
  <2>2. /\ clock'[n][m].state = clock[n][m].state /\ clock'[n][m].age \in 0..Dwell
        /\ clock'[n][m].age <= clock[n][m].age + 1
    BY <2>1, OlderType
  <2>3. clock[n][m].age <= held[m]
    BY <1>2, <2>2 DEF ClocksTrue
  <2>4. QED
    BY <1>1, <2>1, <2>2, <2>3, TimeType
<1>3. QED
  BY <1>1, <1>2 DEF ClocksTrue

\* A round goes on with a clock only if it has read the state the clock names,
\* and then it keeps on record who was out of it.
LEMMA ConcludeTrue ==
  ASSUME TypeOK, ClocksTrue, NEW p \in Nodes, Conclude(p)
  PROVE  ClocksTrue'
<1>1. /\ UNCHANGED <<state, held>>
      /\ \A m \in Nodes : clock'[p][m] = Observed(p, m)
      /\ \A m \in Nodes :
           m \in lapsed'[p] <=> m \in lapsed[p] /\ seen[p].state[m] = clock[p][m].state
      /\ \A n \in Nodes \ {p} : clock'[n] = clock[n] /\ lapsed'[n] = lapsed[n]
  BY DEF Conclude, world, TypeOK
<1>2. ASSUME NEW m \in Nodes, m \notin lapsed'[p], Observed(p, m).state = state[m]
      PROVE  Observed(p, m).age <= held[m]
  <2>1. held[m] \in 0..Dwell
    BY WatchTypes
  <2>2. CASE Observed(p, m).age = 0
    BY <2>1, <2>2
  <2>3. CASE Observed(p, m) = clock[p][m] /\ seen[p].state[m] = clock[p][m].state
    BY <1>1, <1>2, <2>3 DEF ClocksTrue
  <2>4. QED
    BY <2>2, <2>3 DEF Observed, NoClock
<1>3. QED
  BY <1>1, <1>2 DEF ClocksTrue

LEMMA TrueStep ==
  ASSUME TypeOK, ClocksTrue, [Next]_vars
  PROVE  ClocksTrue'
<1>1. TypeOK'
  BY TypeStep
<1>2. ASSUME NEW p \in Nodes, Hello(p) \/ ReadStatus(p) \/ StatusFails(p) PROVE ClocksTrue'
  BY <1>2 DEF Hello, ReadStatus, StatusFails, world, history, ClocksTrue
<1>3. CASE UNCHANGED vars
  BY <1>3 DEF vars, world, memory, history, ClocksTrue
<1>4. QED
  BY <1>1, <1>2, <1>3, SetTrue, StopTrue, TickTrue, ConcludeTrue DEF Next, Poll

LEMMA TrueInit == Init => ClocksTrue
BY DwellAssumption DEF Init, ClocksTrue, NoClock

\* A report of a stuck member comes out of a clock that has run for the dwell.
LEMMA ReportIsTrue ==
  ASSUME TypeOK, ClocksTrue, [Next]_vars, NEW n \in Nodes, NEW m \in Nodes,
         <<"stuck", m>> \in News(n), m \notin lapsed[n], state[m] = seen[n].state[m]
  PROVE  held[m] >= Dwell
<1>1. ASSUME NEW p \in Nodes, Conclude(p), n # p PROVE FALSE
  BY <1>1 DEF Conclude, TypeOK, News
<1>2. CASE Conclude(n)
  <2>1. PICK readable \in BOOLEAN : alerted'[n] = Signals(n, SizeBounded(readable))
    BY <1>2 DEF Conclude, TypeOK
  <2>2. <<"stuck", m>> \in StuckSignals(n)
    BY <2>1, KeyKinds DEF News, Signals, FallingSignals
  <2>3. seen[n].state[m] \in Stuck /\ Observed(n, m).age >= Dwell
    BY <2>2 DEF StuckSignals
  <2>4. clock[n][m].state = state[m] /\ clock[n][m].age >= Dwell
    BY <2>3, TimeType DEF Observed, Stuck
  <2>5. clock[n][m].age <= held[m]
    BY <2>4 DEF ClocksTrue
  <2>6. QED
    BY <2>4, <2>5, WatchTypes, TimeType
<1>3. CASE StepDown \/ Load \/ Tick \/ UNCHANGED vars
  BY <1>3 DEF StepDown, Load, Tick, vars, memory, News
<1>4. ASSUME NEW o \in Nodes, Change(o) \/ Stop(o) \/ Elect(o) \/ Hello(o) \/ ReadStatus(o) \/ StatusFails(o)
      PROVE  FALSE
  BY <1>4 DEF Change, Stop, Elect, Hello, ReadStatus, StatusFails, memory, News, TypeOK
<1>5. ~(\E o \in Nodes : Change(o) \/ Stop(o) \/ Elect(o) \/ Hello(o) \/ ReadStatus(o) \/ StatusFails(o))
  BY <1>4
<1>6. QED
  BY <1>1, <1>2, <1>3, <1>5 DEF Next, Poll

\* Whoever reports a member as stuck is right, for as many polls as are missed,
\* unless the member was out of that state and back before it was seen out of
\* it, or left it after it was read (MemberStateTracker: observe, retain_known).
THEOREM StuckIsTrueHolds == Spec => StuckIsTrue
<1>1. TypeOK /\ ClocksTrue /\ [Next]_vars => ClocksTrue'
  BY TrueStep
<1>2. TypeOK /\ ClocksTrue /\ [Next]_vars =>
        \A n, m \in Nodes :
          /\ <<"stuck", m>> \in News(n)
          /\ m \notin lapsed[n] /\ state[m] = seen[n].state[m]
          => held[m] >= Dwell
  BY ReportIsTrue
<1>3. QED
  BY <1>1, <1>2, TypeInit, TypeStep, TrueInit, PTL DEF Spec, StuckIsTrue

-----------------------------------------------------------------------------
(* Fcv: the inductive invariant.                                           *)

\* Binaries are never more than one release away from the FCV.
Near(n) == version - 1 <= binary[n] /\ binary[n] <= version + 1

\* A transition goes to the next release, and everybody has this one.
Transition == target # 0 => target = version + 1 /\ \A n \in Nodes : version <= binary[n]

\* A round that can still raise the FCV has been answered by members that have
\* the release it would raise it to, unless they were rolled back to this one.
Answered(n) ==
  fcvRound[n] = "peers" /\ version < binary[n] =>
    \A m \in Nodes \ ({n} \cup ask[n]) :
      version <= binary[m] /\ (binary[n] <= binary[m] \/ m \in rolled)

FcvInv ==
  /\ FcvTypeOK
  /\ \A n \in Nodes : Near(n) /\ Answered(n)
  /\ Transition
  /\ NobodyEvicted

-----------------------------------------------------------------------------
(* Fcv: type correctness.                                                  *)

\* Whoever goes down takes the primaryship and the transition along.
LEMMA DownType ==
  ASSUME FcvTypeOK, NEW n \in Nodes, Down(n)
  PROVE  /\ up' \subseteq Nodes
         /\ primary' \in up' \cup {NoNode}
         /\ driver' \in up' \cup {NoNode}
         /\ driver' # NoNode => target # 0 /\ driver' = primary'
         /\ fcvRound' \in [Nodes -> {"sleep", "status", "peers"}]
         /\ ask' \in [Nodes -> SUBSET Nodes]
         /\ UNCHANGED <<version, target>>
BY DEF FcvTypeOK, Down

\* Nobody is asked about itself, whatever ends its round.
LEMMA AsksStep == FcvTypeOK /\ [FcvNext]_fcvVars => AsksOthers'
<1> SUFFICES ASSUME FcvTypeOK, [FcvNext]_fcvVars PROVE AsksOthers'
  OBVIOUS
<1>0. ask \in [Nodes -> SUBSET Nodes] /\ \A k \in Nodes : k \notin ask[k]
  BY DEF FcvTypeOK, AsksOthers
<1>1. CASE UNCHANGED ask
  BY <1>0, <1>1 DEF AsksOthers
<1>2. ASSUME NEW n \in Nodes, Down(n) \/ Sleep(n) PROVE AsksOthers'
  BY <1>0, <1>2 DEF Down, Sleep, AsksOthers
<1>3. ASSUME NEW n \in Nodes, ask' = [ask EXCEPT ![n] = ToAsk(n)] PROVE AsksOthers'
  BY <1>0, <1>3 DEF ToAsk, AsksOthers
<1>4. ASSUME NEW n \in Nodes, NEW m \in Nodes, ask' = [ask EXCEPT ![n] = @ \ {m}] PROVE AsksOthers'
  BY <1>0, <1>4 DEF AsksOthers
<1>5. ASSUME NEW n \in Nodes, Deploy(n) \/ RollBack(n) \/ Crash(n) \/ Evict(n) PROVE AsksOthers'
  BY <1>2, <1>5 DEF Deploy, RollBack, Crash, Evict
<1>6. ASSUME NEW n \in Nodes, RoundStep(n) PROVE AsksOthers'
  BY <1>1, <1>2, <1>3, <1>4, <1>6 DEF RoundStep, ReadFcv, ReadHealth, AskPeer, Raise
<1>7. ASSUME NEW n \in Nodes, Boot(n) \/ Promote(n) PROVE UNCHANGED ask
  BY <1>7 DEF Boot, Promote
<1>8. StandDown \/ Complete \/ UNCHANGED fcvVars => UNCHANGED ask
  BY DEF StandDown, Complete, fcvVars
<1>9. QED
  BY <1>1, <1>5, <1>6, <1>7, <1>8 DEF FcvNext

LEMMA DeployType ==
  ASSUME FcvTypeOK, NEW n \in Nodes, Deploy(n), AsksOthers'
  PROVE  FcvTypeOK'
<1>1. binary[n] \in 1..Newest /\ binary[n] + 1 \in 1..Newest
  BY NewestAssumption, BoundAssumption DEF FcvTypeOK, Deploy
<1>2. binary' \in [Nodes -> 1..Newest]
  BY <1>1 DEF FcvTypeOK, Deploy
<1>3. QED
  BY <1>2, DownType DEF FcvTypeOK, Deploy

LEMMA RollBackType ==
  ASSUME FcvTypeOK, NEW n \in Nodes, RollBack(n), AsksOthers'
  PROVE  FcvTypeOK'
<1>1. binary[n] \in 1..Newest /\ binary[n] - 1 \in 1..Newest
  BY NewestAssumption, BoundAssumption DEF FcvTypeOK, RollBack
<1>2. binary' \in [Nodes -> 1..Newest]
  BY <1>1 DEF FcvTypeOK, RollBack
<1>3. rolled' \subseteq Nodes
  BY DEF FcvTypeOK, RollBack
<1>4. faults' \in 0..MaxFaults
  BY NewestAssumption, BoundAssumption DEF FcvTypeOK, RollBack, Fault
<1>5. QED
  BY <1>2, <1>3, <1>4, DownType DEF FcvTypeOK, RollBack

LEMMA RoundType ==
  ASSUME FcvTypeOK, NEW n \in Nodes, RoundStep(n), AsksOthers'
  PROVE  FcvTypeOK'
<1> USE NewestAssumption, BoundAssumption DEF FcvTypeOK, setVars, fcv, Sleep, FaultUnless, Fault
<1>1. CASE ReadFcv(n)
  BY <1>1 DEF ReadFcv
<1>2. CASE ReadHealth(n)
  BY <1>2 DEF ReadHealth, ToAsk
<1>3. ASSUME NEW m \in Nodes, AskPeer(n, m) PROVE FcvTypeOK'
  BY <1>3 DEF AskPeer
<1>4. CASE Raise(n)
  <2>1. CASE n = primary /\ driver = NoNode /\ binary[n] > version
    <3>1. binary[n] \in 1..Newest /\ version \in 1..Newest
      OBVIOUS
    <3>2. target' \in (version' + 1)..Newest /\ target' # 0 /\ driver' = primary'
      BY <1>4, <2>1, <3>1 DEF Raise
    <3>3. QED
      BY <1>4, <2>1, <3>2, NodeAssumption DEF Raise
  <2>2. CASE ~(n = primary /\ driver = NoNode /\ binary[n] > version)
    BY <1>4, <2>2 DEF Raise
  <2>3. QED
    BY <2>1, <2>2
<1>5. QED
  BY <1>1, <1>2, <1>3, <1>4 DEF RoundStep

LEMMA FcvTypeStep == FcvTypeOK /\ [FcvNext]_fcvVars => FcvTypeOK'
<1> SUFFICES ASSUME FcvTypeOK, [FcvNext]_fcvVars, AsksOthers' PROVE FcvTypeOK'
  BY AsksStep
<1> USE NewestAssumption, BoundAssumption DEF Fault, FaultUnless
<1>1. CASE StandDown
  BY <1>1 DEF FcvTypeOK, StandDown
<1>2. CASE Complete
  <2>1. target \in (version + 1)..Newest /\ version \in 1..Newest
    BY <1>2 DEF Complete, FcvTypeOK
  <2>2. version' \in 1..Newest /\ target' = 0 /\ driver' = NoNode
    BY <1>2, <2>1 DEF Complete
  <2>3. QED
    BY <1>2, <2>2 DEF Complete, FcvTypeOK, setVars
<1>3. ASSUME NEW n \in Nodes, Crash(n) PROVE FcvTypeOK'
  BY <1>3, DownType DEF Crash, FcvTypeOK
<1>4. ASSUME NEW n \in Nodes, Boot(n) PROVE FcvTypeOK'
  BY <1>4 DEF Boot, FcvTypeOK, fcv
<1>5. ASSUME NEW n \in Nodes, Evict(n) PROVE FcvTypeOK'
  BY <1>5, DownType DEF Evict, FcvTypeOK
<1>6. ASSUME NEW n \in Nodes, Promote(n) PROVE FcvTypeOK'
  BY <1>6 DEF Promote, FcvTypeOK, fcv
<1>7. CASE UNCHANGED fcvVars
  BY <1>7 DEF fcvVars, setVars, fcv, FcvTypeOK
<1>8. QED
  BY <1>1, <1>2, <1>3, <1>4, <1>5, <1>6, <1>7, DeployType, RollBackType, RoundType DEF FcvNext

LEMMA FcvTypeInit == FcvInit => FcvTypeOK
BY NodeAssumption, NewestAssumption, BoundAssumption DEF FcvInit, FcvTypeOK, AsksOthers

\* Rounds, transitions and images stay within their bounds, and only the
\* primary carries a transition out.
THEOREM FcvTypeCorrect == FcvSpec => []FcvTypeOK
BY FcvTypeInit, FcvTypeStep, PTL DEF FcvSpec

-----------------------------------------------------------------------------
(* Fcv: nobody is evicted.                                                 *)

FcvFacts == FcvInv /\ FcvTypeOK'

\* The rest of the invariant, about the state a step leads to.
FcvGoal == (\A n \in Nodes : Near(n) /\ Answered(n))' /\ Transition' /\ NobodyEvicted'

\* A step that leaves images, FCV and roll-backs alone, and takes no peer off
\* a list but one that has the release, except to end the round.
LEMMA Harmless ==
  ASSUME FcvFacts, UNCHANGED <<binary, version, target, rolled>>,
         \A n \in Nodes : fcvRound'[n] = "peers" =>
           \A m \in Nodes \ ({n} \cup ask'[n]) :
             \/ fcvRound[n] = "peers" /\ m \notin ask[n]
             \/ binary[n] <= binary[m]
  PROVE  FcvGoal
<1>1. ASSUME NEW n \in Nodes PROVE Near(n)'
  BY DEF FcvFacts, FcvInv, Near
<1>2. ASSUME NEW n \in Nodes PROVE Answered(n)'
  <2> SUFFICES ASSUME fcvRound'[n] = "peers", version < binary[n],
                      NEW m \in Nodes \ ({n} \cup ask'[n])
               PROVE  version <= binary[m] /\ (binary[n] <= binary[m] \/ m \in rolled)
    BY DEF Answered
  <2>1. binary[n] \in Nat /\ binary[m] \in Nat /\ version \in Nat
    BY DEF FcvFacts, FcvInv, FcvTypeOK
  <2>2. CASE binary[n] <= binary[m]
    BY <2>1, <2>2
  <2>3. CASE fcvRound[n] = "peers" /\ m \notin ask[n]
    BY <2>3 DEF FcvFacts, FcvInv, Answered
  <2>4. QED
    BY <2>2, <2>3
<1>3. Transition' /\ NobodyEvicted'
  BY DEF FcvFacts, FcvInv, Transition, NobodyEvicted, CanRun
<1>4. QED
  BY <1>1, <1>2, <1>3 DEF FcvGoal

\* A wrapper that goes down ends its round; nobody else's changes.
LEMMA DownRounds ==
  ASSUME FcvTypeOK, NEW n \in Nodes, Down(n)
  PROVE  /\ fcvRound'[n] # "peers"
         /\ \A m \in Nodes \ {n} : fcvRound'[m] = fcvRound[m] /\ ask'[m] = ask[m]
BY DEF FcvTypeOK, Down

LEMMA DeployKeeps ==
  ASSUME FcvFacts, NEW n \in Nodes, Deploy(n)
  PROVE  FcvGoal
<1>1. /\ FcvTypeOK
      /\ UNCHANGED <<version, target>>
      /\ rolled' = rolled \ {n}
      /\ binary'[n] = binary[n] + 1 /\ binary[n] <= version
      /\ \A m \in Nodes \ {n} : binary'[m] = binary[m]
  BY DEF FcvFacts, FcvInv, FcvTypeOK, Deploy, Down
<1>2. \A m \in Nodes : binary[m] \in Nat /\ Near(m) /\ Answered(m)
  BY DEF FcvFacts, FcvInv, FcvTypeOK
<1>3. version \in Nat /\ target \in Nat
  BY DEF FcvFacts, FcvInv, FcvTypeOK
<1>4. ASSUME NEW m \in Nodes PROVE Near(m)'
  BY <1>1, <1>2, <1>3 DEF Near
<1>5. ASSUME NEW m \in Nodes PROVE Answered(m)'
  <2> SUFFICES ASSUME fcvRound'[m] = "peers", version < binary'[m],
                      NEW o \in Nodes \ ({m} \cup ask'[m])
               PROVE  version <= binary'[o] /\ (binary'[m] <= binary'[o] \/ o \in rolled')
    BY <1>1 DEF Answered
  <2>1. m # n /\ fcvRound[m] = "peers" /\ ask'[m] = ask[m] /\ binary'[m] = binary[m]
    BY <1>1, DownRounds DEF Deploy
  <2>2. version <= binary[o] /\ (binary[m] <= binary[o] \/ o \in rolled)
    BY <1>2, <2>1 DEF Answered
  <2>3. QED
    BY <1>1, <1>2, <1>3, <2>1, <2>2 DEF Near
<1>6. Transition'
  BY <1>1, <1>2, <1>3 DEF FcvFacts, FcvInv, Transition
<1>7. NobodyEvicted'
  <2> SUFFICES ASSUME NEW m \in Nodes, m \notin rolled' PROVE CanRun(m)'
    BY DEF NobodyEvicted
  <2>1. CASE m = n
    BY <1>1, <1>2, <1>3, <2>1 DEF FcvFacts, FcvInv, Transition, Near, CanRun
  <2>2. CASE m # n
    BY <1>1, <1>2, <1>3, <2>2 DEF FcvFacts, FcvInv, NobodyEvicted, CanRun
  <2>3. QED
    BY <2>1, <2>2
<1>8. QED
  BY <1>4, <1>5, <1>6, <1>7 DEF FcvGoal

LEMMA RollBackKeeps ==
  ASSUME FcvFacts, NEW n \in Nodes, RollBack(n)
  PROVE  FcvGoal
<1>1. /\ FcvTypeOK
      /\ UNCHANGED <<version, target>>
      /\ rolled' = IF HasAnswered(n) THEN rolled \cup {n} ELSE rolled
      /\ binary'[n] = binary[n] - 1 /\ version < binary[n]
      /\ \A m \in Nodes \ {n} : binary'[m] = binary[m]
  BY DEF FcvFacts, FcvInv, FcvTypeOK, RollBack, Down
<1>2. \A m \in Nodes : binary[m] \in Nat /\ Near(m) /\ Answered(m)
  BY DEF FcvFacts, FcvInv, FcvTypeOK
<1>3. version \in Nat /\ target \in Nat
  BY DEF FcvFacts, FcvInv, FcvTypeOK
<1>4. ASSUME NEW m \in Nodes PROVE Near(m)'
  BY <1>1, <1>2, <1>3 DEF Near
<1>5. ASSUME NEW m \in Nodes PROVE Answered(m)'
  <2> SUFFICES ASSUME fcvRound'[m] = "peers", version < binary'[m],
                      NEW o \in Nodes \ ({m} \cup ask'[m])
               PROVE  version <= binary'[o] /\ (binary'[m] <= binary'[o] \/ o \in rolled')
    BY <1>1 DEF Answered
  <2>1. m # n /\ fcvRound[m] = "peers" /\ ask'[m] = ask[m] /\ binary'[m] = binary[m]
    BY <1>1, DownRounds DEF RollBack
  <2>2. version <= binary[o] /\ (binary[m] <= binary[o] \/ o \in rolled)
    BY <1>2, <2>1 DEF Answered
  <2>3. o = n => HasAnswered(n)
    BY <2>1 DEF HasAnswered
  <2>4. QED
    BY <1>1, <1>2, <1>3, <2>1, <2>2, <2>3
<1>6. Transition'
  BY <1>1, <1>2, <1>3 DEF FcvFacts, FcvInv, Transition
<1>7. NobodyEvicted'
  <2> SUFFICES ASSUME NEW m \in Nodes, m \notin rolled' PROVE CanRun(m)'
    BY DEF NobodyEvicted
  <2>1. CASE m = n
    <3>1. target = 0
      BY <1>1, <2>1 DEF HasAnswered
    <3>2. QED
      BY <1>1, <1>2, <1>3, <2>1, <3>1 DEF CanRun
  <2>2. CASE m # n
    BY <1>1, <1>2, <1>3, <2>2 DEF FcvFacts, FcvInv, NobodyEvicted, CanRun
  <2>3. QED
    BY <2>1, <2>2
<1>8. QED
  BY <1>4, <1>5, <1>6, <1>7 DEF FcvGoal

\* The raise itself: everybody had answered.
LEMMA RaiseKeeps ==
  ASSUME FcvFacts, NEW n \in Nodes, Raise(n)
  PROVE  FcvGoal
<1>1. /\ FcvTypeOK
      /\ fcvRound[n] = "peers" /\ ask[n] = {}
      /\ UNCHANGED <<binary, version, rolled>>
      /\ fcvRound'[n] = "sleep"
      /\ \A m \in Nodes \ {n} : fcvRound'[m] = fcvRound[m] /\ ask'[m] = ask[m]
  BY DEF FcvFacts, FcvInv, FcvTypeOK, Raise, Sleep, setVars
<1>2. CASE UNCHANGED target
  BY <1>1, <1>2, Harmless
<1>3. CASE target' = binary[n] /\ version < binary[n]
  <2>1. \A m \in Nodes : binary[m] \in Nat /\ Near(m) /\ Answered(m)
    BY DEF FcvFacts, FcvInv, FcvTypeOK
  <2>2. version \in Nat
    BY DEF FcvFacts, FcvInv, FcvTypeOK
  <2>3. \A m \in Nodes \ {n} : version <= binary[m] /\ (binary[n] <= binary[m] \/ m \in rolled)
    BY <1>1, <1>3, <2>1 DEF Answered
  <2>4. Transition'
    BY <1>1, <1>3, <2>1, <2>2, <2>3 DEF Transition, Near
  <2>5. NobodyEvicted'
    BY <1>1, <1>3, <2>1, <2>2, <2>3 DEF FcvFacts, FcvInv, NobodyEvicted, CanRun
  <2>6. ASSUME NEW m \in Nodes PROVE Near(m)' /\ Answered(m)'
    BY <1>1, <2>1 DEF Near, Answered
  <2>7. QED
    BY <2>4, <2>5, <2>6 DEF FcvGoal
<1>4. QED
  BY <1>2, <1>3 DEF Raise

LEMMA RoundKeeps ==
  ASSUME FcvFacts, NEW n \in Nodes, RoundStep(n)
  PROVE  FcvGoal
<1> FcvTypeOK
  BY DEF FcvFacts, FcvInv
<1>1. CASE ReadFcv(n)
  <2>1. \A m \in Nodes : fcvRound'[m] = "peers" => fcvRound[m] = "peers" /\ ask'[m] = ask[m]
    BY <1>1 DEF ReadFcv, FcvTypeOK
  <2>2. QED
    BY <1>1, <2>1, Harmless DEF ReadFcv, setVars, fcv
<1>2. CASE ReadHealth(n)
  <2>1. \A m \in Nodes \ {n} : fcvRound'[m] = fcvRound[m] /\ ask'[m] = ask[m]
    BY <1>2 DEF ReadHealth, Sleep, FcvTypeOK
  <2>2. fcvRound'[n] = "peers" => ask'[n] = Nodes \ {n}
    BY <1>2 DEF ReadHealth, Sleep, ToAsk, FcvTypeOK
  <2>3. QED
    BY <1>2, <2>1, <2>2, Harmless DEF ReadHealth, setVars, fcv
<1>3. ASSUME NEW p \in Nodes, AskPeer(n, p) PROVE FcvGoal
  <2>1. \A m \in Nodes \ {n} : fcvRound'[m] = fcvRound[m] /\ ask'[m] = ask[m]
    BY <1>3 DEF AskPeer, Sleep, FcvTypeOK
  <2>2. CASE Current(n, p) /\ ask' = [ask EXCEPT ![n] = @ \ {p}] /\ UNCHANGED fcvRound
    <3>1. binary[n] <= binary[p]
      BY <2>2 DEF Current, FcvTypeOK
    <3>2. ask'[n] = ask[n] \ {p} /\ fcvRound' = fcvRound
      BY <2>2 DEF FcvTypeOK
    <3>3. UNCHANGED <<binary, version, target, rolled>>
      BY <1>3 DEF AskPeer, setVars, fcv
    <3>4. QED
      BY <2>1, <3>1, <3>2, <3>3, Harmless
  <2>3. CASE Sleep(n)
    <3>1. fcvRound'[n] # "peers"
      BY <2>3 DEF Sleep, FcvTypeOK
    <3>2. QED
      BY <1>3, <2>1, <3>1, Harmless DEF AskPeer, setVars, fcv
  <2>4. QED
    BY <1>3, <2>2, <2>3 DEF AskPeer
<1>4. QED
  BY <1>1, <1>2, <1>3, RaiseKeeps DEF RoundStep

LEMMA CompleteKeeps ==
  ASSUME FcvFacts, Complete
  PROVE  FcvGoal
<1>1. target # 0 /\ version' = target /\ target' = 0 /\ UNCHANGED <<binary, fcvRound, ask, rolled>>
  BY DEF FcvFacts, FcvInv, FcvTypeOK, Complete, setVars
<1>2. target = version + 1 /\ \A n \in Nodes : version <= binary[n]
  BY <1>1 DEF FcvFacts, FcvInv, Transition
<1>3. version \in Nat /\ \A n \in Nodes : binary[n] \in Nat /\ Near(n)
  BY DEF FcvFacts, FcvInv, FcvTypeOK
<1>4. ASSUME NEW n \in Nodes PROVE Near(n)' /\ Answered(n)'
  BY <1>1, <1>2, <1>3 DEF Near, Answered
<1>5. Transition' /\ NobodyEvicted'
  BY <1>1, <1>2, <1>3 DEF FcvFacts, FcvInv, Transition, NobodyEvicted, CanRun
<1>6. QED
  BY <1>4, <1>5 DEF FcvGoal

LEMMA FcvInvStep == FcvInv /\ [FcvNext]_fcvVars => FcvInv'
<1> SUFFICES ASSUME FcvInv, [FcvNext]_fcvVars PROVE FcvInv'
  OBVIOUS
<1>1. FcvTypeOK /\ FcvTypeOK'
  BY FcvTypeStep DEF FcvInv
<1> FcvFacts
  BY <1>1 DEF FcvFacts
<1> SUFFICES FcvGoal
  BY <1>1 DEF FcvGoal, FcvInv
<1>2. CASE StandDown
  BY <1>2, Harmless DEF StandDown
<1>3. ASSUME NEW n \in Nodes, Down(n), UNCHANGED <<binary, rolled>> PROVE FcvGoal
  <2>1. \A m \in Nodes : fcvRound'[m] = "peers" => fcvRound[m] = "peers" /\ ask'[m] = ask[m]
    BY <1>1, <1>3, DownRounds
  <2>2. QED
    BY <1>3, <2>1, Harmless DEF Down
<1>4. ASSUME NEW n \in Nodes, Crash(n) \/ Evict(n) PROVE FcvGoal
  BY <1>3, <1>4 DEF Crash, Evict
<1>5. ASSUME NEW n \in Nodes, Boot(n) \/ Promote(n) PROVE FcvGoal
  BY <1>5, Harmless DEF Boot, Promote, fcv
<1>6. CASE UNCHANGED fcvVars
  BY <1>6, Harmless DEF fcvVars, setVars, fcv
<1>7. QED
  BY <1>2, <1>4, <1>5, <1>6, DeployKeeps, RollBackKeeps, RoundKeeps, CompleteKeeps DEF FcvNext

LEMMA FcvInvInit == FcvInit => FcvInv
<1> SUFFICES ASSUME FcvInit PROVE FcvInv
  OBVIOUS
<1>1. FcvTypeOK
  BY FcvTypeInit
<1>2. QED
  BY <1>1 DEF FcvInit, FcvInv, Near, Answered, Transition, NobodyEvicted, CanRun

\* However deployments, roll-backs, crashes and elections fall between the
\* reads of a round and its command, a raise finds every member able to run
\* what it raises the FCV to, but for those rolled back after they answered
\* (fcv.rs: decide, raise).
THEOREM NobodyEvictedHolds == FcvSpec => []NobodyEvicted
<1>1. FcvInv => NobodyEvicted
  BY DEF FcvInv
<1>2. QED
  BY <1>1, FcvInvInit, FcvInvStep, PTL DEF FcvSpec
===============================================================================
