------------------------------- MODULE RoleEdge -------------------------------
(***************************************************************************)
(* Where writes go.  HAProxy asks every server it lists for /role, again   *)
(* and again, and routes to those it has marked up: two good answers in a  *)
(* row mark a server up, two bad ones mark it down and reset its sessions  *)
(* (haproxy template::generate_config).  /role reads `hello`, and of a     *)
(* writable primary then replSetGetStatus, for the fence: a primary whose  *)
(* own view lacks a majority answers 503 (health_server::role).  Between   *)
(* the two reads, and between a read and the mark, the set moves on.       *)
(*                                                                         *)
(* External: mongod (elections, heartbeats, step-downs, a partition that   *)
(* cuts one member off from the others, though not from the edge) and      *)
(* HAProxy's own counting of checks.                                       *)
(***************************************************************************)
EXTENDS Integers, FiniteSets

CONSTANTS
  Members,   \* the replica set
  Servers,   \* the members the edge lists in MONGO_NODES
  Watched,   \* the server the history variables are about
  NoMember,  \* nobody is cut off
  Rise,      \* good checks in a row that mark a server up
  Fall,      \* bad checks in a row that mark it down
  MaxFaults  \* bound: partitions, crashes, step-downs, lost checks

ASSUME MemberAssumption ==
  /\ IsFiniteSet(Members) /\ NoMember \notin Members
  /\ Servers \subseteq Members /\ Watched \in Servers
\* With `rise 1` a single answer of two moments would bring a server back that
\* had long been pulled.
ASSUME CountAssumption == Rise \in Nat \ {0, 1} /\ Fall \in Nat \ {0} /\ MaxFaults \in Nat

VARIABLES
  running,   \* the members whose container is up
  cut,       \* the member the others cannot reach
  writable,  \* the members whose mongod takes writes
  latest,    \* the member elected last
  view,      \* the members whose own view has a majority
  check,     \* the check of each server under way
  mark,      \* what HAProxy holds of each server
  unfit,     \* history: checks of Watched begun since it last served as the primary
  steady,    \* history: Watched has served since its last good check began ...
  began,     \* ... or since the one under way did
  dropped,   \* history: checks of Watched lost since a good one
  faults

setVars == <<running, cut, writable, latest, view>>
history == <<unfit, steady, began, dropped>>
vars == <<setVars, check, mark, history, faults>>

TypeOK ==
  /\ running \subseteq Members
  /\ cut \in Members \cup {NoMember}
  /\ writable \subseteq running
  /\ latest \in Members
  /\ view \subseteq Members
  /\ check \in [Servers -> {"none", "hello", "status"}]
  /\ mark \in [Servers -> {m \in [up : BOOLEAN, against : 0..(Rise + Fall)] :
                             m.against < IF m.up THEN Fall ELSE Rise}]
  /\ unfit \in 0..(2 * Fall + 1)
  /\ steady \in BOOLEAN /\ began \in BOOLEAN
  /\ dropped \in 0..MaxFaults
  /\ faults \in 0..MaxFaults

Fault == faults < MaxFaults /\ faults' = faults + 1
FaultUnless(expected) == IF expected THEN UNCHANGED faults ELSE Fault

IsMajority(S) == 2 * Cardinality(S) > Cardinality(Members)
Side(n) == IF n = cut THEN {n} ELSE running \ {cut}
Serves(n) == n \in writable \cap view

\* Watched is the primary.  HAProxy starts with its servers up, one bad check
\* from down.
Init ==
  /\ running = Members /\ cut = NoMember
  /\ latest = Watched /\ writable = {latest}
  /\ view = Members
  /\ check = [s \in Servers |-> "none"]
  /\ mark = [s \in Servers |-> [up |-> TRUE, against |-> Fall - 1]]
  /\ unfit = 0 /\ steady = FALSE /\ began = FALSE /\ dropped = 0
  /\ faults = 0

-----------------------------------------------------------------------------
(* The set. *)

\* Every change of the set is followed by this: has Watched served throughout?
Observe ==
  /\ steady' = (steady /\ Serves(Watched)')
  /\ began' = (began /\ Serves(Watched)')
  /\ unfit' = IF Serves(Watched)' THEN 0 ELSE unfit
  /\ UNCHANGED <<check, mark, dropped>>

Elect(n) ==
  /\ n \in running \ writable
  /\ IsMajority(Side(n)) /\ Side(n) \cap writable = {}
  /\ writable' = writable \cup {n} /\ latest' = n
  /\ view' = view \cup {n}
  /\ UNCHANGED <<running, cut, faults>>
  /\ Observe

\* A primary that misses its majority, or hears of a later one, stands down.
StandDown(n) ==
  /\ n \in writable
  /\ FaultUnless(n \notin view \/ (n # latest /\ latest \in Side(n) /\ n \in Side(n)))
  /\ writable' = writable \ {n}
  /\ UNCHANGED <<running, cut, latest, view>>
  /\ Observe

\* Heartbeats that fail, or succeed again.
Notice(n) ==
  /\ n \in running
  /\ view' = IF IsMajority(Side(n)) THEN view \cup {n} ELSE view \ {n}
  /\ view' # view
  /\ UNCHANGED <<running, cut, writable, latest, faults>>
  /\ Observe

Cut(n) ==
  /\ cut = NoMember /\ cut' = n /\ Fault
  /\ UNCHANGED <<running, writable, latest, view, check, mark, history>>

Heal ==
  /\ cut # NoMember /\ cut' = NoMember
  /\ UNCHANGED <<running, writable, latest, view, check, mark, history, faults>>

Crash(n) ==
  /\ n \in running /\ Fault
  /\ running' = running \ {n} /\ writable' = writable \ {n}
  /\ UNCHANGED <<cut, latest, view>>
  /\ Observe

Start(n) ==
  /\ n \notin running
  /\ running' = running \cup {n}
  /\ view' = view \ {n}
  /\ UNCHANGED <<cut, writable, latest, faults>>
  /\ Observe

-----------------------------------------------------------------------------
(* A check: GET /role. *)

BeginCheck(s) ==
  /\ check[s] = "none"
  /\ check' = [check EXCEPT ![s] = "hello"]
  /\ IF s = Watched
     THEN /\ unfit' = IF Serves(s) THEN 0 ELSE IF unfit > 2 * Fall THEN unfit ELSE unfit + 1
          /\ began' = Serves(s)
     ELSE UNCHANGED <<unfit, began>>
  /\ UNCHANGED <<setVars, mark, steady, dropped, faults>>

\* A result that agrees with the mark starts the count over.
Counted(s, good, needed) ==
  IF good = mark[s].up THEN [mark[s] EXCEPT !.against = 0]
  ELSE IF mark[s].against + 1 < needed THEN [mark[s] EXCEPT !.against = @ + 1]
  ELSE [up |-> good, against |-> 0]

\* Broken: one bad check marks a server down.
MarkedAtOnce(s, good) == Counted(s, good, IF good THEN Rise ELSE 1)

\* Broken: a check more than `fall 2`.
MarkedLate(s, good) == Counted(s, good, IF good THEN Rise ELSE Fall + 1)

\* Broken: a server once down stays down.
MarkedForGood(s, good) ==
  IF good /\ ~mark[s].up THEN mark[s] ELSE Counted(s, good, IF good THEN Rise ELSE Fall)

\* "default-server fall 2 rise 2".
Marked(s, good) == Counted(s, good, IF good THEN Rise ELSE Fall)

Result(s, good) ==
  /\ check' = [check EXCEPT ![s] = "none"]
  /\ mark' = [mark EXCEPT ![s] = Marked(s, good)]
  /\ IF s = Watched /\ good THEN steady' = began /\ dropped' = 0
     ELSE UNCHANGED <<steady, dropped>>
  /\ UNCHANGED <<setVars, unfit, began>>

\* `hello`: a container that is down, or no writable primary, is a bad answer.
ReadHello(s) ==
  /\ check[s] = "hello"
  /\ \/ s \notin writable /\ Result(s, FALSE)
     \/ /\ s \in writable
        /\ check' = [check EXCEPT ![s] = "status"]
        /\ UNCHANGED <<setVars, mark, history>>
  /\ UNCHANGED faults

\* Broken: without the fence, whatever hello said stands.
FencedNever(s) == FALSE

\* has_majority of what replSetGetStatus says; it is not asked who is primary.
Fenced(s) == s \notin view

ReadStatus(s) ==
  /\ check[s] = "status"
  /\ Result(s, s \in running /\ ~Fenced(s))
  /\ UNCHANGED faults

\* Slow, or dropped: `timeout check`.
LoseCheck(s) ==
  /\ check[s] # "none" /\ Fault
  /\ check' = [check EXCEPT ![s] = "none"]
  /\ mark' = [mark EXCEPT ![s] = Marked(s, FALSE)]
  /\ dropped' = IF s = Watched THEN dropped + 1 ELSE dropped
  /\ UNCHANGED <<setVars, unfit, steady, began>>

-----------------------------------------------------------------------------
Check(s) == BeginCheck(s) \/ ReadHello(s) \/ ReadStatus(s)

\* What mongod and the platform do of themselves.
SetStep ==
  \/ Heal
  \/ \E n \in Members : Elect(n) \/ StandDown(n) \/ Notice(n) \/ Start(n)

Next ==
  \/ SetStep
  \/ \E n \in Members : Cut(n) \/ Crash(n)
  \/ \E s \in Servers : Check(s) \/ LoseCheck(s)

Spec == Init /\ [][Next]_vars

\* HAProxy keeps checking and /role keeps answering; partitions heal, stopped
\* containers start, and mongod elects, notices and stands down.
Fairness ==
  /\ WF_vars(SetStep /\ UNCHANGED faults)
  /\ \A s \in Servers : WF_vars(Check(s))

FairSpec == Spec /\ Fairness

-----------------------------------------------------------------------------
(* Properties. *)

Routed == {s \in Servers : mark[s].up}

\* "So one slow or dropped check can no longer RST every client connection on
\* a healthy primary": a server that has served as the primary ever since its
\* last good check began is marked down only once Fall checks were lost.
BlipSpares ==
  [][mark[Watched].up /\ ~mark'[Watched].up /\ steady => dropped' >= Fall]_vars

\* A node that is no longer the primary, or is fenced, loses its sessions within
\* Fall checks.  Twice as many are needed when one of them falls on a change: its
\* hello may be of before a step-down, its status of after the majority is back,
\* and its 200 true at neither moment.
PulledInTime == mark[Watched].up => unfit <= 2 * Fall

\* However elections, partitions and checks fall together, the edge ends up
\* routing to the one primary, as far as it lists it, and to nobody else.
EdgeSettles ==
  <>[](Routed = writable \cap Servers /\ Cardinality(writable) = 1)
===============================================================================
