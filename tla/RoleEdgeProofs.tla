---------------------------- MODULE RoleEdgeProofs ----------------------------
(***************************************************************************)
(* Proofs about RoleEdge, for any set of members and servers, any number   *)
(* of faults and any `rise` and `fall`: how long a server that is no       *)
(* longer fit stays routed to, and what it takes to pull one that is.      *)
(***************************************************************************)
EXTENDS RoleEdge, TLAPS

-----------------------------------------------------------------------------
(* The inductive invariants.                                               *)

\* The check under way, or the next one, may still come out good although
\* Watched does not serve: its hello is, or has been, of before a step-down.
MayPass == Watched \in writable \/ check[Watched] = "status"

\* The checks of Watched begun and ended since it last served.
Ended == IF check[Watched] = "none" THEN unfit ELSE unfit - 1

\* As long as a check may pass none has, so all that ended count against a
\* server that is up.  After the one that did the count starts over, once.  A
\* server that is down does not come up on the strength of it.
Counting ==
  unfit > 0 =>
    /\ ~Serves(Watched)
    /\ mark[Watched].up => Ended <= mark[Watched].against + Fall
    /\ mark[Watched].up /\ MayPass => Ended <= mark[Watched].against
    /\ ~mark[Watched].up /\ MayPass /\ Ended > 0 => mark[Watched].against = 0

\* What counts against a server that has served throughout are lost checks.
Blameless ==
  /\ steady \/ began => Serves(Watched)
  /\ mark[Watched].up /\ steady => mark[Watched].against <= dropped

IInv == TypeOK /\ dropped <= faults /\ Counting /\ Blameless

-----------------------------------------------------------------------------
(* How a result changes a mark.                                            *)

\* The marks HAProxy can hold of a server, as TypeOK has them.
Marks == {m \in [up : BOOLEAN, against : 0..(Rise + Fall)] :
            m.against < IF m.up THEN Fall ELSE Rise}

\* The marks that follow a bad and a good result, and those results.
Worse(s) == Marked(s, FALSE)
Better(s) == Marked(s, TRUE)
Fails(s) == Result(s, FALSE)
Passes(s) == Result(s, TRUE)

LEMMA Results ==
  ASSUME NEW s \in Servers
  PROVE  /\ Fails(s) => /\ check' = [check EXCEPT ![s] = "none"]
                        /\ mark' = [mark EXCEPT ![s] = Worse(s)]
                        /\ UNCHANGED <<setVars, unfit, steady, began, dropped>>
         /\ Passes(s) => /\ check' = [check EXCEPT ![s] = "none"]
                         /\ mark' = [mark EXCEPT ![s] = Better(s)]
                         /\ IF s = Watched THEN steady' = began /\ dropped' = 0
                            ELSE UNCHANGED <<steady, dropped>>
                         /\ UNCHANGED <<setVars, unfit, began>>
BY DEF Fails, Passes, Result, Worse, Better

LEMMA HelloCases ==
  ASSUME NEW s \in Servers, ReadHello(s)
  PROVE  /\ check[s] = "hello" /\ faults' = faults
         /\ \/ s \notin writable /\ Fails(s)
            \/ /\ s \in writable
               /\ check' = [check EXCEPT ![s] = "status"]
               /\ UNCHANGED <<setVars, mark, history>>
BY Zenon DEF ReadHello, Fails

LEMMA StatusCases ==
  ASSUME NEW s \in Servers, ReadStatus(s)
  PROVE  /\ check[s] = "status" /\ faults' = faults
         /\ \/ s \in running /\ s \in view /\ Passes(s)
            \/ ~(s \in running /\ s \in view) /\ Fails(s)
<1>1. CASE s \in running /\ s \in view
  <2>1. (s \in running /\ ~Fenced(s)) = TRUE
    BY <1>1 DEF Fenced
  <2>2. QED
    BY <1>1, <2>1, Zenon DEF ReadStatus, Passes
<1>2. CASE ~(s \in running /\ s \in view)
  <2>1. (s \in running /\ ~Fenced(s)) = FALSE
    BY <1>2 DEF Fenced
  <2>2. QED
    BY <1>2, <2>1, Zenon DEF ReadStatus, Fails
<1>3. QED
  BY <1>1, <1>2

LEMMA MarkTypes ==
  TypeOK => /\ mark \in [Servers -> Marks]
            /\ \A s \in Servers : /\ mark[s] \in Marks /\ mark[s].up \in BOOLEAN
                                  /\ mark[s].against \in Nat
BY CountAssumption DEF TypeOK, Marks

LEMMA MarkMade ==
  ASSUME NEW u \in BOOLEAN, NEW a \in Nat, u => a < Fall, ~u => a < Rise
  PROVE  [up |-> u, against |-> a] \in Marks
BY CountAssumption DEF Marks

\* A bad result counts against a server that is up, and may mark it down.
LEMMA MarkedBad ==
  ASSUME NEW s \in Servers, mark[s] \in Marks, NEW r, r = Worse(s)
  PROVE  /\ r \in Marks /\ r.against \in Nat
         /\ ~mark[s].up => ~r.up /\ r.against = 0
         /\ mark[s].up /\ r.up => r.against = mark[s].against + 1
         /\ mark[s].up /\ ~r.up => r.against = 0 /\ mark[s].against + 1 >= Fall
<1> DEFINE m == mark[s]
<1>0. /\ m \in [up : BOOLEAN, against : 0..(Rise + Fall)] /\ m.against \in Nat
      /\ m.up => m.against < Fall
      /\ ~m.up => m.against < Rise
      /\ Rise \in Nat /\ Fall \in Nat /\ Rise > 0 /\ Fall > 0
  BY CountAssumption DEF Marks
<1>1. CASE ~m.up
  <2>1. r = [up |-> FALSE, against |-> 0]
    BY <1>0, <1>1 DEF Worse, Marked, Counted
  <2>2. r \in Marks
    BY <1>0, <2>1, MarkMade
  <2>3. ~r.up /\ r.against = 0
    BY <2>1
  <2>4. QED
    BY <1>1, <2>2, <2>3
<1>2. CASE m.up /\ m.against + 1 < Fall
  <2>1. r = [up |-> TRUE, against |-> m.against + 1]
    BY <1>0, <1>2 DEF Worse, Marked, Counted
  <2>2. r \in Marks
    <3> DEFINE a == m.against + 1
    <3>1. a \in Nat /\ a < Fall
      BY <1>0, <1>2
    <3>2. r = [up |-> TRUE, against |-> a]
      BY <2>1
    <3> HIDE DEF a
    <3>3. QED
      BY <3>1, <3>2, MarkMade
  <2>3. r.up /\ r.against = m.against + 1
    BY <2>1
  <2>4. QED
    BY <1>0, <1>2, <2>2, <2>3
<1>3. CASE m.up /\ ~(m.against + 1 < Fall)
  <2>1. r = [up |-> FALSE, against |-> 0]
    BY <1>0, <1>3 DEF Worse, Marked, Counted
  <2>2. r \in Marks
    BY <1>0, <2>1, MarkMade
  <2>3. ~r.up /\ r.against = 0
    BY <2>1
  <2>4. QED
    BY <1>0, <1>3, <2>2, <2>3
<1>4. QED
  BY <1>0, <1>1, <1>2, <1>3

\* A good result counts for a server that is down, and may mark it up.
LEMMA MarkedGood ==
  ASSUME NEW s \in Servers, mark[s] \in Marks, NEW r, r = Better(s)
  PROVE  /\ r \in Marks /\ r.against \in Nat
         /\ r.up => r.against = 0
         /\ mark[s].up => r.up
         /\ ~mark[s].up /\ r.up => mark[s].against + 1 >= Rise
<1> DEFINE m == mark[s]
<1>0. /\ m \in [up : BOOLEAN, against : 0..(Rise + Fall)] /\ m.against \in Nat
      /\ m.up => m.against < Fall
      /\ ~m.up => m.against < Rise
      /\ Rise \in Nat /\ Fall \in Nat /\ Rise > 0 /\ Fall > 0
  BY CountAssumption DEF Marks
<1>1. CASE m.up
  <2>1. r = [up |-> TRUE, against |-> 0]
    BY <1>0, <1>1 DEF Better, Marked, Counted
  <2>2. r \in Marks
    BY <1>0, <2>1, MarkMade
  <2>3. r.up /\ r.against = 0
    BY <2>1
  <2>4. QED
    BY <1>1, <2>2, <2>3
<1>2. CASE ~m.up /\ m.against + 1 < Rise
  <2>1. r = [up |-> FALSE, against |-> m.against + 1]
    BY <1>0, <1>2 DEF Better, Marked, Counted
  <2>2. r \in Marks
    <3> DEFINE a == m.against + 1
    <3>1. a \in Nat /\ a < Rise
      BY <1>0, <1>2
    <3>2. r = [up |-> FALSE, against |-> a]
      BY <2>1
    <3> HIDE DEF a
    <3>3. QED
      BY <3>1, <3>2, MarkMade
  <2>3. ~r.up /\ r.against = m.against + 1
    BY <2>1
  <2>4. QED
    BY <1>0, <1>2, <2>2, <2>3
<1>3. CASE ~m.up /\ ~(m.against + 1 < Rise)
  <2>1. r = [up |-> TRUE, against |-> 0]
    BY <1>0, <1>3 DEF Better, Marked, Counted
  <2>2. r \in Marks
    BY <1>0, <2>1, MarkMade
  <2>3. r.up /\ r.against = 0
    BY <2>1
  <2>4. QED
    BY <1>0, <1>3, <2>2, <2>3
<1>4. QED
  BY <1>0, <1>1, <1>2, <1>3

-----------------------------------------------------------------------------
(* What the steps have in common.                                          *)

LEMMA Ranges ==
  TypeOK => /\ unfit \in Nat /\ dropped \in Nat /\ faults \in Nat /\ MaxFaults \in Nat
            /\ Rise \in Nat /\ Rise >= 2 /\ Fall \in Nat /\ Fall >= 1
            /\ Watched \in Servers /\ Watched \in Members
            /\ check[Watched] \in {"none", "hello", "status"}
BY CountAssumption, MemberAssumption DEF TypeOK

\* The set moves on, and takes no writes at Watched that it did not take before
\* unless Watched serves.
LEMMA SetMoves ==
  ASSUME IInv, Observe, Serves(Watched)' \/ (Watched \in writable' => Watched \in writable)
  PROVE  Counting' /\ Blameless'
<1>1. unfit' > 0 => ~Serves(Watched)' /\ unfit' = unfit
  BY DEF Observe
<1>2. unfit' > 0 /\ MayPass' => MayPass
  BY <1>1 DEF MayPass, Observe
<1>3. unfit' > 0 => Ended' = Ended
  BY <1>1 DEF Ended, Observe
<1>4. Counting'
  BY <1>1, <1>2, <1>3 DEF IInv, Counting, Observe
<1>5. Blameless'
  BY DEF IInv, Blameless, Observe
<1>6. QED
  BY <1>4, <1>5

\* A bad result, of a check that was answered or lost.
LEMMA BadResult ==
  ASSUME IInv, NEW s \in Servers, check[s] # "none",
         check' = [check EXCEPT ![s] = "none"], mark' = [mark EXCEPT ![s] = Worse(s)],
         UNCHANGED <<writable, view, unfit, steady, began>>,
         dropped' \in Nat, dropped' >= dropped,
         s = Watched /\ steady => dropped' = dropped + 1
  PROVE  mark' \in [Servers -> Marks] /\ Counting' /\ Blameless'
<1>0. /\ TypeOK /\ Counting /\ Blameless
      /\ mark \in [Servers -> Marks] /\ mark[s] \in Marks
      /\ check \in [Servers -> {"none", "hello", "status"}]
      /\ mark[Watched].against \in Nat
  BY MarkTypes, Ranges DEF IInv, TypeOK
<1>1. mark' \in [Servers -> Marks]
  BY <1>0, MarkedBad
<1>2. CASE s # Watched
  <2>1. mark'[Watched] = mark[Watched] /\ check'[Watched] = check[Watched]
    BY <1>0, <1>2, Ranges
  <2>2. Counting'
    BY <1>0, <2>1 DEF Counting, Ended, MayPass, Serves
  <2>3. Blameless'
    BY <1>0, <2>1, Ranges DEF Blameless, Serves
  <2>4. QED
    BY <1>1, <2>2, <2>3
<1>3. CASE s = Watched
  <2>1. mark'[Watched] = Worse(s) /\ check'[Watched] = "none"
    BY <1>0, <1>3
  <2>2. unfit > 0 => Ended' = Ended + 1 /\ Ended \in Nat
    BY <1>0, <1>3, <2>1, Ranges DEF Ended
  <2>3. MayPass' => MayPass
    BY <2>1 DEF MayPass
  <2> HIDE DEF Ended, MayPass
  <2>4. Counting'
    BY <1>0, <1>3, <2>1, <2>2, <2>3, MarkedBad, Ranges DEF Counting, Serves
  <2>5. Blameless'
    BY <1>0, <1>3, <2>1, MarkedBad, Ranges DEF Blameless, Serves
  <2>6. QED
    BY <1>1, <2>4, <2>5
<1>4. QED
  BY <1>2, <1>3

\* A good one: if Watched does not serve, its status is of after the majority
\* was back and its hello of before the step-down.
LEMMA GoodResult ==
  ASSUME IInv, NEW s \in Servers, check[s] = "status", s \in view, Passes(s)
  PROVE  mark' \in [Servers -> Marks] /\ Counting' /\ Blameless'
<1>0. /\ TypeOK /\ Counting /\ Blameless
      /\ mark \in [Servers -> Marks] /\ mark[s] \in Marks
      /\ check \in [Servers -> {"none", "hello", "status"}]
      /\ mark[Watched].against \in Nat
  BY MarkTypes, Ranges DEF IInv, TypeOK
<1>1. /\ check' = [check EXCEPT ![s] = "none"] /\ mark' = [mark EXCEPT ![s] = Better(s)]
      /\ UNCHANGED <<writable, view, unfit, began>>
      /\ IF s = Watched THEN steady' = began /\ dropped' = 0 ELSE UNCHANGED <<steady, dropped>>
  BY Results DEF setVars
<1>2. mark' \in [Servers -> Marks]
  BY <1>0, <1>1, MarkedGood
<1>3. CASE s # Watched
  <2>1. mark'[Watched] = mark[Watched] /\ check'[Watched] = check[Watched]
    BY <1>0, <1>1, <1>3, Ranges
  <2>2. Counting'
    BY <1>0, <1>1, <2>1 DEF Counting, Ended, MayPass, Serves
  <2>3. Blameless'
    BY <1>0, <1>1, <1>3, <2>1, Ranges DEF Blameless, Serves
  <2>4. QED
    BY <1>2, <2>2, <2>3
<1>4. CASE s = Watched
  <2>1. mark'[Watched] = Better(s) /\ check'[Watched] = "none"
    BY <1>0, <1>1, <1>4
  <2>2. unfit > 0 => Ended' = Ended + 1 /\ Ended \in Nat
    BY <1>0, <1>1, <1>4, <2>1, Ranges DEF Ended
  <2>3. MayPass
    BY <1>4 DEF MayPass
  <2>4. unfit > 0 => ~MayPass'
    BY <1>0, <1>1, <1>4, <2>1 DEF MayPass, Counting, Serves
  <2> HIDE DEF Ended, MayPass
  <2>5. Counting'
    <3> SUFFICES ASSUME unfit' > 0
                 PROVE  ~Serves(Watched)' /\ (mark'[Watched].up => Ended' <= mark'[Watched].against + Fall)
      BY <1>1, <2>4 DEF Counting
    <3>1. ~Serves(Watched)'
      BY <1>0, <1>1 DEF Counting, Serves
    <3>2. ASSUME mark'[Watched].up PROVE Ended <= Fall - 1
      <4>1. CASE mark[Watched].up
        <5>1. Ended <= mark[Watched].against
          BY <1>0, <1>1, <2>3, <4>1 DEF Counting
        <5>2. mark[Watched].against < Fall
          BY <1>0, <1>4, <4>1 DEF Marks
        <5>3. QED
          BY <1>0, <1>1, <2>2, <5>1, <5>2, Ranges
      <4>2. CASE ~mark[Watched].up
        BY <1>0, <1>1, <1>4, <2>1, <2>2, <2>3, <3>2, <4>2, MarkedGood, Ranges DEF Counting
      <4>3. QED
        BY <4>1, <4>2
    <3>3. QED
      BY <1>0, <1>1, <1>4, <2>1, <2>2, <3>1, <3>2, MarkedGood, Ranges
  <2>6. Blameless'
    BY <1>0, <1>1, <1>4, <2>1, MarkedGood, Ranges DEF Blameless, Serves
  <2>7. QED
    BY <1>2, <2>5, <2>6
<1>5. QED
  BY <1>3, <1>4

-----------------------------------------------------------------------------
(* The steps.                                                              *)

LEMMA InvInit == Init => IInv
<1> SUFFICES ASSUME Init PROVE IInv
  OBVIOUS
<1>0. Rise \in Nat /\ Fall \in Nat /\ Fall >= 1 /\ Rise >= 2 /\ MaxFaults \in Nat
  BY CountAssumption
<1>1. [up |-> TRUE, against |-> Fall - 1] \in Marks
  BY <1>0 DEF Marks
<1>2. mark \in [Servers -> Marks]
  BY <1>1 DEF Init
<1>3. writable \subseteq running /\ latest \in Members
  BY MemberAssumption DEF Init
<1>4. TypeOK
  <2>1. cut \in Members \cup {NoMember} /\ running \subseteq Members /\ view \subseteq Members
    BY DEF Init
  <2>2. check \in [Servers -> {"none", "hello", "status"}]
    BY DEF Init
  <2>3. unfit \in 0..(2 * Fall + 1) /\ dropped \in 0..MaxFaults /\ faults \in 0..MaxFaults
    BY <1>0 DEF Init
  <2>4. steady \in BOOLEAN /\ began \in BOOLEAN
    BY DEF Init
  <2>5. QED
    BY <1>2, <1>3, <2>1, <2>2, <2>3, <2>4 DEF TypeOK, Marks
<1>5. QED
  BY <1>0, <1>4 DEF IInv, Init, Counting, Blameless

\* What the history variables may be after Observe.
LEMMA ObserveType ==
  TypeOK /\ Observe => /\ steady' \in BOOLEAN /\ began' \in BOOLEAN
                       /\ unfit' \in 0..(2 * Fall + 1)
                       /\ check' = check /\ mark' = mark /\ dropped' = dropped
<1> SUFFICES ASSUME TypeOK, Observe
             PROVE  /\ steady' \in BOOLEAN /\ began' \in BOOLEAN
                    /\ unfit' \in 0..(2 * Fall + 1)
                    /\ check' = check /\ mark' = mark /\ dropped' = dropped
  OBVIOUS
<1>1. steady' \in BOOLEAN /\ began' \in BOOLEAN
  BY DEF Observe
<1>2. unfit' \in 0..(2 * Fall + 1)
  BY CountAssumption DEF Observe, TypeOK
<1>3. QED
  BY <1>1, <1>2 DEF Observe

LEMMA FaultType ==
  TypeOK => /\ Fault => faults' \in 0..MaxFaults /\ faults' = faults + 1
            /\ \A e : FaultUnless(e) => faults' \in 0..MaxFaults /\ faults' >= faults
BY CountAssumption DEF TypeOK, Fault, FaultUnless

LEMMA InvStep == IInv /\ [Next]_vars => IInv'
<1> SUFFICES ASSUME IInv, [Next]_vars PROVE IInv'
  OBVIOUS
<1>0. TypeOK /\ Counting /\ Blameless /\ dropped <= faults
  BY DEF IInv
<1>1. ASSUME NEW n \in Members, Elect(n) PROVE IInv'
  <2>1. Observe /\ faults' \in 0..MaxFaults /\ faults' >= faults
    BY <1>0, <1>1, FaultType, Ranges DEF Elect, TypeOK
  <2>2. /\ running' \subseteq Members /\ cut' \in Members \cup {NoMember}
        /\ writable' \subseteq running' /\ latest' \in Members /\ view' \subseteq Members
    BY <1>0, <1>1 DEF Elect, TypeOK
  <2>3. Serves(Watched)' \/ (Watched \in writable' => Watched \in writable)
    BY <1>1 DEF Elect, Serves
  <2>4. QED
    BY <1>0, <2>1, <2>2, <2>3, SetMoves, ObserveType, Ranges DEF IInv, TypeOK
<1>2. ASSUME NEW n \in Members, StandDown(n) PROVE IInv'
  <2>1. Observe /\ faults' \in 0..MaxFaults /\ faults' >= faults
    BY <1>0, <1>2, FaultType, Ranges DEF StandDown, TypeOK
  <2>2. /\ running' \subseteq Members /\ cut' \in Members \cup {NoMember}
        /\ writable' \subseteq running' /\ latest' \in Members /\ view' \subseteq Members
    BY <1>0, <1>2 DEF StandDown, TypeOK
  <2>3. Serves(Watched)' \/ (Watched \in writable' => Watched \in writable)
    BY <1>2 DEF StandDown, Serves
  <2>4. QED
    BY <1>0, <2>1, <2>2, <2>3, SetMoves, ObserveType, Ranges DEF IInv, TypeOK
<1>3. ASSUME NEW n \in Members, Notice(n) PROVE IInv'
  <2>1. Observe /\ faults' \in 0..MaxFaults /\ faults' >= faults
    BY <1>0, <1>3, FaultType, Ranges DEF Notice, TypeOK
  <2>2. /\ running' \subseteq Members /\ cut' \in Members \cup {NoMember}
        /\ writable' \subseteq running' /\ latest' \in Members /\ view' \subseteq Members
    BY <1>0, <1>3 DEF Notice, TypeOK
  <2>3. Serves(Watched)' \/ (Watched \in writable' => Watched \in writable)
    BY <1>3 DEF Notice, Serves
  <2>4. QED
    BY <1>0, <2>1, <2>2, <2>3, SetMoves, ObserveType, Ranges DEF IInv, TypeOK
<1>4. ASSUME NEW n \in Members, Crash(n) PROVE IInv'
  <2>1. Observe /\ faults' \in 0..MaxFaults /\ faults' >= faults
    BY <1>0, <1>4, FaultType, Ranges DEF Crash, TypeOK
  <2>2. /\ running' \subseteq Members /\ cut' \in Members \cup {NoMember}
        /\ writable' \subseteq running' /\ latest' \in Members /\ view' \subseteq Members
    BY <1>0, <1>4 DEF Crash, TypeOK
  <2>3. Serves(Watched)' \/ (Watched \in writable' => Watched \in writable)
    BY <1>4 DEF Crash, Serves
  <2>4. QED
    BY <1>0, <2>1, <2>2, <2>3, SetMoves, ObserveType, Ranges DEF IInv, TypeOK
<1>5. ASSUME NEW n \in Members, Start(n) PROVE IInv'
  <2>1. Observe /\ faults' \in 0..MaxFaults /\ faults' >= faults
    BY <1>0, <1>5, FaultType, Ranges DEF Start, TypeOK
  <2>2. /\ running' \subseteq Members /\ cut' \in Members \cup {NoMember}
        /\ writable' \subseteq running' /\ latest' \in Members /\ view' \subseteq Members
    BY <1>0, <1>5 DEF Start, TypeOK
  <2>3. Serves(Watched)' \/ (Watched \in writable' => Watched \in writable)
    BY <1>5 DEF Start, Serves
  <2>4. QED
    BY <1>0, <2>1, <2>2, <2>3, SetMoves, ObserveType, Ranges DEF IInv, TypeOK
<1>6. ASSUME (\E n \in Members : Cut(n)) \/ Heal PROVE IInv'
  <2>1. /\ UNCHANGED <<running, writable, latest, view, check, mark, history>>
        /\ cut' \in Members \cup {NoMember} /\ faults' \in 0..MaxFaults /\ faults' >= faults
    BY <1>0, <1>6, FaultType, Ranges DEF Cut, Heal, TypeOK
  <2>2. QED
    BY <1>0, <2>1, Ranges DEF history, IInv, TypeOK, Counting, Blameless, Ended, MayPass, Serves
<1>7. ASSUME NEW s \in Servers, BeginCheck(s) PROVE IInv'
  <2>1. /\ check[s] = "none" /\ check' = [check EXCEPT ![s] = "hello"]
        /\ UNCHANGED <<running, cut, writable, latest, view, mark, steady, dropped, faults>>
    BY <1>7 DEF BeginCheck, setVars
  <2>2. check' \in [Servers -> {"none", "hello", "status"}]
    BY <1>0, <2>1 DEF TypeOK
  <2>3. CASE s # Watched
    <3>1. check'[Watched] = check[Watched] /\ UNCHANGED <<unfit, began>>
      BY <1>0, <1>7, <2>1, <2>3, Ranges DEF BeginCheck, TypeOK
    <3>2. QED
      BY <1>0, <2>1, <2>2, <3>1 DEF IInv, TypeOK, Counting, Blameless, Ended, MayPass, Serves
  <2>4. CASE s = Watched
    <3>1. /\ began' = Serves(Watched)
          /\ unfit' = IF Serves(Watched) THEN 0 ELSE IF unfit > 2 * Fall THEN unfit ELSE unfit + 1
      BY <1>7, <2>4 DEF BeginCheck
    <3>2. check'[Watched] = "hello" /\ check[Watched] = "none"
      BY <1>0, <2>1, <2>4 DEF TypeOK
    <3>3. unfit' \in 0..(2 * Fall + 1) /\ began' \in BOOLEAN
      BY <1>0, <3>1, Ranges DEF TypeOK, Serves
    <3>4. TypeOK'
      BY <1>0, <2>1, <2>2, <3>3 DEF TypeOK
    <3>5. Counting'
      <4> SUFFICES ASSUME unfit' > 0 PROVE Counting'
        BY DEF Counting
      <4>1. ~Serves(Watched) /\ ~Serves(Watched)'
        BY <2>1, <3>1 DEF Serves
      <4>2. Ended' <= Ended /\ Ended' \in Nat /\ Ended \in Nat /\ (Ended' > 0 => unfit > 0)
        BY <1>0, <3>1, <3>2, <4>1, Ranges DEF Ended
      <4>3. MayPass' => MayPass
        BY <2>1, <3>2 DEF MayPass
      <4>4. mark'[Watched] = mark[Watched] /\ mark[Watched].against \in Nat
        BY <1>0, <2>1, MarkTypes, Ranges
      <4>5. unfit = 0 => Ended' = 0
        BY <4>2, <1>0, Ranges
      <4> HIDE DEF Ended, MayPass
      <4>6. QED
        BY <1>0, <4>1, <4>2, <4>3, <4>4, <4>5, Ranges DEF Counting
    <3>6. Blameless'
      BY <1>0, <2>1, <3>1 DEF Blameless, Serves
    <3>7. QED
      BY <1>0, <2>1, <3>4, <3>5, <3>6 DEF IInv
  <2>5. QED
    BY <2>3, <2>4
<1>8. ASSUME NEW s \in Servers, ReadHello(s) PROVE IInv'
  <2>0. check[s] = "hello" /\ faults' = faults
    BY <1>8, HelloCases
  <2>1. CASE s \in writable /\ check' = [check EXCEPT ![s] = "status"]
             /\ UNCHANGED <<setVars, mark, history>>
    <3>1. check' \in [Servers -> {"none", "hello", "status"}]
      BY <1>0, <2>1 DEF TypeOK
    <3>2. (MayPass' => MayPass) /\ Ended' = Ended
      BY <1>0, <2>0, <2>1, Ranges DEF MayPass, Ended, setVars, history, TypeOK
    <3> HIDE DEF MayPass, Ended
    <3>3. QED
      BY <1>0, <2>0, <2>1, <3>1, <3>2 DEF setVars, history, IInv, TypeOK, Counting,
         Blameless, Serves
  <2>2. CASE s \notin writable /\ Fails(s)
    <3>1. ~(s = Watched /\ steady)
      BY <1>0, <2>2 DEF Blameless, Serves
    <3>2. mark' \in [Servers -> Marks] /\ Counting' /\ Blameless'
      BY <1>0, <2>0, <2>2, <3>1, BadResult, Results, Ranges DEF setVars
    <3>3. QED
      BY <1>0, <2>0, <2>2, <3>2, Results DEF setVars, IInv, TypeOK, Marks
  <2>3. QED
    BY <1>8, <2>1, <2>2, HelloCases
<1>9. ASSUME NEW s \in Servers, ReadStatus(s) PROVE IInv'
  <2>0. check[s] = "status" /\ faults' = faults
    BY <1>9, StatusCases
  <2>1. CASE s \in running /\ s \in view /\ Passes(s)
    <3>1. mark' \in [Servers -> Marks] /\ Counting' /\ Blameless'
      BY <1>0, <2>0, <2>1, GoodResult DEF IInv
    <3>2. QED
      BY <1>0, <2>0, <2>1, <3>1, Results, Ranges DEF setVars, IInv, TypeOK, Marks
  <2>2. CASE ~(s \in running /\ s \in view) /\ Fails(s)
    <3>1. ~(s = Watched /\ steady)
      BY <1>0, <2>2 DEF Blameless, Serves, TypeOK
    <3>2. mark' \in [Servers -> Marks] /\ Counting' /\ Blameless'
      BY <1>0, <2>0, <2>2, <3>1, BadResult, Results, Ranges DEF setVars
    <3>3. QED
      BY <1>0, <2>0, <2>2, <3>2, Results DEF setVars, IInv, TypeOK, Marks
  <2>3. QED
    BY <1>9, <2>1, <2>2, StatusCases
<1>10. ASSUME NEW s \in Servers, LoseCheck(s) PROVE IInv'
  <2>1. /\ check[s] # "none" /\ check' = [check EXCEPT ![s] = "none"]
        /\ mark' = [mark EXCEPT ![s] = Worse(s)]
        /\ UNCHANGED <<running, cut, writable, latest, view, unfit, steady, began>>
        /\ dropped' = IF s = Watched THEN dropped + 1 ELSE dropped
        /\ faults' = faults + 1 /\ faults' \in 0..MaxFaults
    BY <1>0, <1>10, FaultType DEF LoseCheck, Worse, setVars
  <2>2. dropped' \in Nat /\ dropped' >= dropped /\ dropped' <= faults' /\ dropped' <= MaxFaults
    BY <1>0, <2>1, Ranges
  <2>3. mark' \in [Servers -> Marks] /\ Counting' /\ Blameless'
    BY <1>0, <2>1, <2>2, BadResult
  <2>4. QED
    BY <1>0, <2>1, <2>2, <2>3, Ranges DEF IInv, TypeOK, Marks
<1>11. CASE UNCHANGED vars
  BY <1>0, <1>11 DEF vars, setVars, history, IInv, TypeOK, Counting, Blameless, Ended, MayPass, Serves
<1>12. QED
  BY <1>1, <1>2, <1>3, <1>4, <1>5, <1>6, <1>7, <1>8, <1>9, <1>10, <1>11 DEF Next, SetStep, Check

-----------------------------------------------------------------------------
(* The theorems.                                                           *)

\* The variables are always of the types TypeOK declares: no count reaches the
\* one that changes the mark, and no more checks are lost than faults happen.
THEOREM TypeCorrect == Spec => []TypeOK
<1>1. IInv => TypeOK
  BY DEF IInv
<1>2. QED
  BY <1>1, InvInit, InvStep, PTL DEF Spec

\* A server that is no longer the primary, or is fenced by /role, is marked down
\* after twice `fall` checks at the latest, whatever falls between the two reads
\* of a check.
THEOREM PulledInTimeHolds == Spec => []PulledInTime
<1>1. IInv => PulledInTime
  <2> SUFFICES ASSUME IInv, mark[Watched].up PROVE unfit <= 2 * Fall
    BY DEF PulledInTime
  <2>1. mark[Watched].against < Fall /\ mark[Watched].against \in Nat
    BY MarkTypes, Ranges DEF IInv, Marks
  <2>2. unfit > 0 => Ended < 2 * Fall /\ unfit <= Ended + 1
    BY <2>1, Ranges DEF IInv, Counting, Ended
  <2>3. unfit \in Nat /\ Fall \in Nat /\ Ended \in Int
    BY Ranges DEF IInv, Ended
  <2> HIDE DEF Ended
  <2>4. QED
    BY <2>2, <2>3
<1>2. QED
  BY <1>1, InvInit, InvStep, PTL DEF Spec

\* "So one slow or dropped check can no longer RST every client connection on a
\* healthy primary": of a server that has served throughout only Fall lost
\* checks in a row take the mark.
THEOREM BlipSparesHolds == Spec => BlipSpares
<1> DEFINE Spared == mark[Watched].up /\ ~mark'[Watched].up /\ steady => dropped' >= Fall
<1>1. IInv /\ [Next]_vars => [Spared]_vars
  <2> SUFFICES ASSUME IInv, Next, mark[Watched].up, ~mark'[Watched].up, steady
               PROVE  dropped' >= Fall
    BY DEF vars
  <2>0. /\ TypeOK /\ Serves(Watched) /\ mark[Watched].against <= dropped
        /\ mark \in [Servers -> Marks] /\ mark[Watched] \in Marks
    BY MarkTypes, Ranges DEF IInv, Blameless
  <2>1. PICK s \in Servers : ReadHello(s) \/ ReadStatus(s) \/ LoseCheck(s)
    BY DEF Next, SetStep, Check, Elect, StandDown, Notice, Start, Heal, Cut, Crash, Observe, BeginCheck
  <2>2. s = Watched
    BY <2>0, <2>1, Ranges, HelloCases, StatusCases, Results DEF LoseCheck, history
  <2>3. ~ReadHello(s)
    BY <2>0, <2>2 DEF ReadHello, Serves
  <2>4. ~ReadStatus(s)
    <3> SUFFICES ASSUME ReadStatus(s) PROVE FALSE
      OBVIOUS
    <3>1. Passes(s)
      BY <2>0, <2>2, StatusCases DEF Serves, TypeOK
    <3>2. mark'[Watched] = Better(s)
      BY <2>0, <2>2, <3>1, Results
    <3>3. QED
      BY <2>0, <2>2, <3>2, MarkedGood
  <2>5. mark'[Watched] = Worse(s) /\ dropped' = dropped + 1
    BY <2>0, <2>1, <2>2, <2>3, <2>4 DEF LoseCheck, Worse
  <2>6. mark[Watched].against + 1 >= Fall
    BY <2>0, <2>2, <2>5, MarkedBad
  <2>7. QED
    BY <2>0, <2>5, <2>6, MarkTypes, Ranges
<1>2. Spec => [][Spared]_vars
  BY <1>1, InvInit, InvStep, PTL DEF Spec
<1>3. QED
  BY <1>2 DEF BlipSpares
===============================================================================
