-------------------------- MODULE ReplicationMonitor --------------------------
(***************************************************************************)
(* Telling an operator that a member will need a full resync               *)
(* (replication_monitor.rs and rs::replication_health_round).  Every poll  *)
(* the wrapper of the primary reads replSetGetStatus, then its own oplog's *)
(* window and fill, keeps how long each member has been in its state, and  *)
(* reports what crosses a threshold, once while it lasts.  Each wrapper has*)
(* a memory of its own, which it keeps while another node is the primary.  *)
(*                                                                         *)
(* External: the members' states as heartbeats show them, the election of  *)
(* a primary, the load that makes a member lag and an oplog short.         *)
(*                                                                         *)
(* One Tick is POLL_INTERVAL.  Faults are changes of the members and of the*)
(* oplog, failed reads and missed polls.                                   *)
(***************************************************************************)
EXTENDS WatchedSet

CONSTANTS
  First,   \* the primary at the start
  Dwell    \* STUCK_STATE_DWELL

ASSUME FirstAssumption == First \in Nodes
ASSUME DwellAssumption == Dwell \in Nat \ {0}

VARIABLES
  state,    \* the state of each member; "absent": not in the config
  held,     \* for how long it has been in it
  behind,   \* the members whose lag is past the warn ratio of the window
  oplog,    \* young: nothing truncated yet; short: full, below the floor
  round,    \* where each wrapper is in its poll
  seen,     \* what it has read
  clock,    \* MemberStateTracker: the state recorded, and since when
  alerted,  \* what it has reported and still finds true
  polled,   \* the wrappers that have ended a round since the last Tick
  same,     \* history: what a wrapper has reported and has been true since
  unread,   \* history: the wrappers whose last round could not read the oplog
  lapsed    \* history: who was out of the state a wrapper counts the time of,
            \* and back in it before the wrapper had seen that

world == <<primary, state, held, behind, oplog>>
memory == <<round, seen, clock, alerted, polled>>
history == <<same, unread, lapsed>>
vars == <<world, memory, history, faults>>

Stuck == {"RECOVERING", "STARTUP2"}
Reported == {"SECONDARY", "DOWN"} \cup Stuck
States == {"PRIMARY", "absent"} \cup Reported

Window == <<"window", NoNode>>
OplogKeys == {Window} \cup {<<"falling", m>> : m \in Nodes}
StuckKeys == {<<"stuck", m>> : m \in Nodes}
Keys == OplogKeys \cup StuckKeys
KeysOf(m) == {<<"stuck", m>>, <<"falling", m>>}

NoClock == [state |-> "absent", age |-> 0]
NothingSeen == [state |-> [m \in Nodes |-> "absent"], behind |-> {}]

TypeOK ==
  /\ primary \in Nodes \cup {NoNode}
  /\ state \in [Nodes -> States]
  /\ \A m \in Nodes : state[m] = "PRIMARY" <=> primary = m
  /\ held \in [Nodes -> 0..Dwell]
  /\ behind \subseteq Nodes
  /\ oplog \in {"young", "long", "short"}
  /\ round \in [Nodes -> {"sleep", "status", "oplog"}]
  /\ seen \in [Nodes -> [state : [Nodes -> States], behind : SUBSET Nodes]]
  /\ clock \in [Nodes -> [Nodes -> [state : States, age : 0..Dwell]]]
  /\ alerted \in [Nodes -> SUBSET Keys]
  /\ polled \subseteq Nodes
  /\ same \in [Nodes -> SUBSET Keys]
  /\ unread \subseteq Nodes
  /\ lapsed \in [Nodes -> SUBSET Nodes]
  /\ faults \in 0..MaxFaults

Init ==
  /\ primary = First
  /\ state = [m \in Nodes |-> IF m = primary THEN "PRIMARY" ELSE "SECONDARY"]
  /\ held = [m \in Nodes |-> Dwell]
  /\ behind = {} /\ oplog = "young"
  /\ round = [n \in Nodes |-> "sleep"]
  /\ seen = [n \in Nodes |-> NothingSeen]
  /\ clock = [n \in Nodes |-> [m \in Nodes |-> NoClock]]
  /\ alerted = [n \in Nodes |-> {}]
  /\ polled = {}
  /\ same = [n \in Nodes |-> {}] /\ unread = {} /\ lapsed = [n \in Nodes |-> {}]
  /\ faults = 0

-----------------------------------------------------------------------------
(* The set. *)

\* What is under K has changed: a report of it is news again.
Ended(K) == same' = [n \in Nodes |-> same[n] \ K]

Enters(m, s) ==
  /\ state' = [state EXCEPT ![m] = s]
  /\ held' = [held EXCEPT ![m] = 0]

\* m enters s: a wrapper whose clock names s has missed that m had left it.
Relapsed(m, s) ==
  [n \in Nodes |-> IF clock[n][m].state = s THEN lapsed[n] \cup {m} ELSE lapsed[n]]

\* Also out of the config, by a prune or by hand, and into it again.
Change(m) ==
  /\ m # primary
  /\ Fault
  /\ \E s \in (Reported \cup {"absent"}) \ {state[m]} :
       Enters(m, s) /\ lapsed' = Relapsed(m, s)
  /\ Ended(KeysOf(m))
  /\ UNCHANGED <<primary, behind, oplog, memory, unread>>

\* The container stops, and the wrapper's memory with it.
Stop(n) ==
  /\ Fault
  /\ Enters(n, "DOWN")
  /\ primary' = IF primary = n THEN NoNode ELSE primary
  /\ round' = [round EXCEPT ![n] = "sleep"]
  /\ seen' = [seen EXCEPT ![n] = NothingSeen]
  /\ clock' = [clock EXCEPT ![n] = [m \in Nodes |-> NoClock]]
  /\ alerted' = [alerted EXCEPT ![n] = {}]
  /\ same' = [k \in Nodes |->
       IF k = n THEN {} ELSE same[k] \ (KeysOf(n) \cup IF primary = n THEN OplogKeys ELSE {})]
  /\ unread' = unread \ {n}
  /\ lapsed' = [Relapsed(n, "DOWN") EXCEPT ![n] = {}]
  /\ UNCHANGED <<behind, oplog, polled>>

StepDown ==
  /\ primary # NoNode /\ Fault
  /\ primary' = NoNode
  /\ Enters(primary, "SECONDARY") /\ lapsed' = Relapsed(primary, "SECONDARY")
  /\ Ended(OplogKeys \cup KeysOf(primary))
  /\ UNCHANGED <<behind, oplog, memory, unread>>

Elect(n) ==
  /\ primary = NoNode /\ state[n] = "SECONDARY"
  /\ primary' = n
  /\ Enters(n, "PRIMARY") /\ lapsed' = Relapsed(n, "PRIMARY")
  /\ Ended(OplogKeys \cup KeysOf(n))
  /\ UNCHANGED <<behind, oplog, memory, unread, faults>>

Load ==
  /\ Fault
  /\ \/ \E m \in Nodes : m \notin behind /\ behind' = behind \cup {m} /\ UNCHANGED oplog
     \/ \E m \in behind : behind' = behind \ {m} /\ UNCHANGED oplog
     \/ \E o \in {"long", "short"} \ {oplog} : oplog' = o /\ UNCHANGED behind
  /\ Ended(OplogKeys)
  /\ UNCHANGED <<primary, state, held, memory, unread, lapsed>>

-----------------------------------------------------------------------------
(* A poll of the wrapper (member_duties, replication_health_round). *)

\* hello says it is the primary; the prune comes first.
Hello(n) ==
  /\ round[n] = "sleep" /\ n = primary
  /\ round' = [round EXCEPT ![n] = "status"]
  /\ UNCHANGED <<world, seen, clock, alerted, polled, history, faults>>

ReadStatus(n) ==
  /\ round[n] = "status"
  /\ round' = [round EXCEPT ![n] = "oplog"]
  /\ seen' = [seen EXCEPT ![n] = [state |-> state, behind |-> behind]]
  /\ UNCHANGED <<world, clock, alerted, polled, history, faults>>

\* Broken: without a status, nothing is known to be wrong.
StatusFailsClean(n) ==
  /\ round[n] = "status" /\ Fault
  /\ round' = [round EXCEPT ![n] = "sleep"]
  /\ alerted' = [alerted EXCEPT ![n] = {}]
  /\ UNCHANGED <<world, seen, clock, polled, history>>

\* The round ends, and the memory stays as it was.
StatusFails(n) ==
  /\ round[n] = "status" /\ Fault
  /\ round' = [round EXCEPT ![n] = "sleep"]
  /\ UNCHANGED <<world, seen, clock, alerted, polled, history>>

\* Broken: the clock of a host that has left the config is kept.
ObservedForever(n, m) ==
  LET s == seen[n].state[m] IN
  IF s \in {clock[n][m].state, "absent"} THEN clock[n][m] ELSE [state |-> s, age |-> 0]

\* Broken: every poll starts the clock again.
ObservedAfresh(n, m) == [state |-> seen[n].state[m], age |-> 0]

\* Broken: this observation counts as an interval of its own.
ObservedLonger(n, m) ==
  LET s == seen[n].state[m] IN
  IF s = "absent" THEN NoClock
  ELSE IF s = clock[n][m].state THEN [state |-> s, age |-> clock[n][m].age + 1]
  ELSE [state |-> s, age |-> 0]

\* observe and retain_known: another state starts the clock again, and a host
\* that is not a member loses its own.
Observed(n, m) ==
  LET s == seen[n].state[m] IN
  IF s = "absent" THEN NoClock
  ELSE IF s = clock[n][m].state THEN clock[n][m] ELSE [state |-> s, age |-> 0]

StuckSignals(n) ==
  {<<"stuck", m>> : m \in {o \in Nodes \ {n} :
     seen[n].state[o] \in Stuck /\ Observed(n, o).age >= Dwell}}

\* Lag counts against the primary that the status names, and only in a
\* reachable secondary.
FallingSignals(n) ==
  {<<"falling", m>> : m \in {o \in Nodes \ {n} :
     /\ seen[n].state[o] = "SECONDARY" /\ o \in seen[n].behind
     /\ \E p \in Nodes : seen[n].state[p] = "PRIMARY"}}

\* oplog_window and oplog_fill: neither a young oplog's window nor one that
\* cannot be read says how far a member may lag.
SizeBounded(readable) == readable /\ oplog # "young"

\* derive_signals; `bounded`: the oplog is known to be full.
Signals(n, bounded) ==
  StuckSignals(n)
    \cup (IF bounded THEN FallingSignals(n) ELSE {})
    \cup (IF bounded /\ oplog = "short" THEN {Window} ELSE {})

\* What the set is like, whether or not anybody has seen it.
Holds(k) ==
  \/ k = Window /\ oplog = "short"
  \/ \E m \in Nodes \ {primary} :
       \/ k = <<"stuck", m>> /\ state[m] \in Stuck
       \/ k = <<"falling", m>> /\ state[m] = "SECONDARY" /\ m \in behind /\ oplog # "young"

\* Window and fill are read, or one of them cannot be, and the round ends.  The
\* reports that a round does not find again are forgotten.
Conclude(n) ==
  /\ round[n] = "oplog"
  /\ \E readable \in BOOLEAN :
       /\ IF readable THEN UNCHANGED faults ELSE Fault
       /\ alerted' = [alerted EXCEPT ![n] = Signals(n, SizeBounded(readable))]
       /\ unread' = IF readable THEN unread \ {n} ELSE unread \cup {n}
  /\ same' = [same EXCEPT ![n] =
       @ \cup {k \in alerted'[n] \ alerted[n] : Holds(k) /\ seen[n].state = state}]
  /\ clock' = [clock EXCEPT ![n] = [m \in Nodes |-> Observed(n, m)]]
  /\ lapsed' = [lapsed EXCEPT ![n] = {m \in @ : seen[n].state[m] = clock[n][m].state}]
  /\ round' = [round EXCEPT ![n] = "sleep"]
  /\ seen' = [seen EXCEPT ![n] = NothingSeen]
  /\ polled' = polled \cup {n}
  /\ UNCHANGED world

\* A round that outlasts the interval, or that failed, costs a fault.
Tick ==
  /\ IF primary \in polled \cup {NoNode} THEN UNCHANGED faults ELSE Fault
  /\ held' = [m \in Nodes |-> IF held[m] < Dwell THEN held[m] + 1 ELSE held[m]]
  /\ clock' = [n \in Nodes |-> [m \in Nodes |->
       IF clock[n][m].state # "absent" /\ clock[n][m].age < Dwell
       THEN [clock[n][m] EXCEPT !.age = @ + 1] ELSE clock[n][m]]]
  /\ polled' = {}
  /\ UNCHANGED <<primary, state, behind, oplog, round, seen, alerted, history>>

Poll(n) == Hello(n) \/ ReadStatus(n) \/ StatusFails(n) \/ Conclude(n)

Next ==
  \/ StepDown \/ Load \/ Tick
  \/ \E n \in Nodes : Change(n) \/ Stop(n) \/ Elect(n) \/ Poll(n)

Spec == Init /\ [][Next]_vars

\* Time passes, wrappers poll and reads succeed, a set without a primary elects.
Fairness ==
  /\ WF_vars(Tick /\ UNCHANGED faults)
  /\ WF_vars(\E n \in Nodes : Elect(n))
  /\ \A n \in Nodes : WF_vars(Poll(n) /\ UNCHANGED faults)

FairSpec == Spec /\ Fairness

-----------------------------------------------------------------------------
(* Properties. *)

News(n) == alerted'[n] \ alerted[n]

\* A signal that a wrapper has reported and that is true since is not reported
\* again: through failed reads of the status, other members' incidents and terms
\* of another primary.  After a round that could not read the oplog, the oplog
\* signals may be; the others may not.
ReportedOnce ==
  [][\A n \in Nodes :
       News(n) \cap same[n] \subseteq IF n \in unread THEN OplogKeys ELSE {}]_vars

\* "A signal fires once when it starts being true and stays quiet on every
\* following poll while it remains true."
ReportedOnceEver == [][\A n \in Nodes : News(n) \cap same[n] = {}]_vars

\* Who reports a member as stuck is right, however rounds, missed polls, terms
\* of another primary, removals from the config and returns to it fall, unless
\* the member left that state and was back before the wrapper had seen it gone,
\* or left it while the round was under way.
StuckIsTrue ==
  [][\A n, m \in Nodes :
       /\ <<"stuck", m>> \in News(n)
       /\ m \notin lapsed[n] /\ state[m] = seen[n].state[m]
       => held[m] >= Dwell]_vars

\* "How long a member has *continuously* held that state", whoever was watching.
StuckIsTrueAcrossGaps ==
  [][\A n, m \in Nodes :
       <<"stuck", m>> \in News(n) /\ state[m] = seen[n].state[m] => held[m] >= Dwell]_vars

\* Whatever fails or changes hands in between, in the end the primary has
\* reported exactly what is wrong, so the next incident is news.
AlertsFollow ==
  <>[](primary # NoNode => \A k \in Keys : k \in alerted[primary] <=> Holds(k))
===============================================================================
