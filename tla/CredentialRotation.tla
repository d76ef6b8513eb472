------------------------- MODULE CredentialRotation -------------------------
(***************************************************************************)
(* A rotation of the root password and of the internal key over the        *)
(* members of a replica set: POST /credentials/rotate (credentials::rotate *)
(* and apply), the pin each phase leaves on the volume (auth_pin), the     *)
(* supervisor that restarts mongod on the new keyfile (process_manager),   *)
(* the background Member phase (credentials::reconcile), the credential    *)
(* resolver, and what a boot renders from the pin.                         *)
(*                                                                         *)
(* External: the platform that drives the phases in their order, may lose  *)
(* any response, and may turn the rotation round; mongod's elections and   *)
(* replication of the user document.                                       *)
(*                                                                         *)
(* There are two root passwords, and the key derived from a password is    *)
(* written as the password: a keyfile is the sequence of the keys it       *)
(* lists.  The pool's own credential is SessionRecovery's subject: a       *)
(* command is refused here only when the code probes for that.             *)
(***************************************************************************)
EXTENDS Integers, Sequences, FiniteSets

CONSTANTS
  Nodes,         \* the members
  NoNode,        \* nobody is primary
  MaxRotations,  \* bound: rotations asked for, each undoing the one before
  MaxFaults      \* bound: crashes, lost responses, refused hand-offs

ASSUME NodeAssumption == IsFiniteSet(Nodes) /\ Nodes # {} /\ NoNode \notin Nodes
ASSUME BoundAssumption == MaxRotations \in Nat \ {0} /\ MaxFaults \in Nat

VARIABLES
  pin,       \* .railway-mongo-auth-pin on each volume
  pending,   \* .railway_rotation: the rotation staged, 0 if no file
  wrapper,   \* the wrapper's process: down, rendering (before mongod), up
  loaded,    \* LOADED_KEYFILE, in its memory
  notified,  \* RESTART_MONGO holds a permit
  sup,       \* process_manager::supervise
  op,        \* the request that holds ROTATION
  res,       \* auth_pin::resolver
  mongod,    \* the keyfile mongod runs with, NoKey when it does not run
  root,      \* the changes of the root password this member has applied
  primary,   \* the primary, or NoNode
  rotation,  \* the rotation the platform drives
  phase,     \* its phase
  done,      \* the members that have answered it
  turn,      \* the member it is being asked of, NoNode between two
  variable,  \* MONGO_INITDB_ROOT_PASSWORD as the platform stamps it
  faults     \* faults so far

volume == <<pin, pending>>
process == <<wrapper, loaded, notified, sup, op, res>>
set == <<mongod, root, primary>>
platform == <<rotation, phase, done, turn, variable>>
vars == <<volume, process, set, platform, faults>>

\* Passwords 1 and 2; the i-th change makes it Pw(i).
Password == {1, 2}
Pw(i) == 1 + (i % 2)
NoKey == << >>
Keyfile == {<<1>>, <<2>>, <<1, 2>>, <<2, 1>>}
KeysOf(keyfile) == {keyfile[i] : i \in DOMAIN keyfile}
Overlap(left, right) == KeysOf(left) \cap KeysOf(right) # {}

\* The request of rotation r.
Request(r) == [current |-> Pw(r - 1), new |-> Pw(r)]
TargetKeyfile(r, overlap) ==
  IF overlap THEN <<Request(r).current, Request(r).new>> ELSE <<Request(r).new>>

Phases == <<"prepare", "database", "member", "keyPrepare", "keyCommit", "verify", "done">>
KeyPhases == {"keyPrepare", "keyCommit"}

NoOp == [at |-> "idle", phase |-> "done", r |-> 0, asked |-> FALSE]
NoWatch == [at |-> "idle", target |-> NoKey]
NoResolver == [at |-> "off", active |-> 1, proven |-> FALSE, env |-> 1, keyfile |-> NoKey]

TypeOK ==
  /\ pin \in [Nodes -> [password : Password, keyfile : Keyfile]]
  /\ pending \in [Nodes -> 0..MaxRotations]
  /\ wrapper \in [Nodes -> {"down", "rendering", "up"}]
  /\ loaded \in [Nodes -> Keyfile \cup {NoKey}]
  /\ notified \in [Nodes -> BOOLEAN]
  /\ sup \in [Nodes -> [at : {"idle", "handoff", "stop", "stepped", "spawn"},
                        target : Keyfile \cup {NoKey}]]
  /\ op \in [Nodes -> [at : {"idle", "start", "majority", "pinPassword", "check", "pinKey",
                             "wait", "verifyPasswords", "reply"},
                       phase : KeyPhases \cup {"prepare", "database", "member", "verify", "done"},
                       r : 0..MaxRotations, asked : BOOLEAN]]
  /\ res \in [Nodes -> [at : {"off", "rest", "pin"}, active : Password, proven : BOOLEAN,
                        env : Password, keyfile : Keyfile \cup {NoKey}]]
  /\ mongod \in [Nodes -> Keyfile \cup {NoKey}]
  /\ root \in [Nodes -> 0..MaxRotations]
  /\ primary \in Nodes \cup {NoNode}
  /\ rotation \in 1..MaxRotations
  /\ phase \in {Phases[i] : i \in 1..7}
  /\ done \subseteq Nodes
  /\ turn \in Nodes \cup {NoNode}
  /\ variable \in Password
  /\ faults \in 0..MaxFaults

\* A set at rest on the first password, when the platform asks for another.
Init ==
  /\ pin = [n \in Nodes |-> [password |-> 1, keyfile |-> <<1>>]]
  /\ pending = [n \in Nodes |-> 0]
  /\ wrapper = [n \in Nodes |-> "up"]
  /\ loaded = [n \in Nodes |-> <<1>>]
  /\ notified = [n \in Nodes |-> FALSE]
  /\ sup = [n \in Nodes |-> NoWatch]
  /\ op = [n \in Nodes |-> NoOp]
  /\ res = [n \in Nodes |-> NoResolver]
  /\ mongod = [n \in Nodes |-> <<1>>]
  /\ root = [n \in Nodes |-> 0]
  /\ primary \in Nodes
  /\ rotation = 1 /\ phase = "prepare" /\ done = {} /\ turn = NoNode /\ variable = 1
  /\ faults = 0

-----------------------------------------------------------------------------
(* The set, as a member sees it.                                           *)

Running(n) == mongod[n] # NoKey
Reaches(n, m) == Running(n) /\ Running(m) /\ Overlap(mongod[n], mongod[m])
Reached(n) == {m \in Nodes : Reaches(n, m)}
Majority(S) == 2 * Cardinality(S) > Cardinality(Nodes)

\* Mongo::probe_local_password.
Works(n, pw) == Running(n) /\ Pw(root[n]) = pw

\* Members whose container is down may have lost their name with it.
MayBeGone(n) == {m \in Nodes \ {n} : wrapper[m] = "down"}

\* healthy_set, `gone` being left out of what must be healthy.
HealthySet(n, gone) ==
  /\ Nodes \ gone \subseteq Reached(n)
  /\ primary \in Nodes \ gone
  /\ Majority(Reached(n))

SetReady(n) == \E gone \in SUBSET MayBeGone(n) : HealthySet(n, gone)
SetUnready(n) == ~HealthySet(n, {})

-----------------------------------------------------------------------------
(* The pin.                                                                *)

WritePin(n, password, keyfile) ==
  pin' = [pin EXCEPT ![n] = [password |-> password, keyfile |-> keyfile]]

\* Broken: it writes the keyfile the caller started out with.
WritePasswordPinAsBooted(n, password, fallback) == WritePin(n, password, fallback)

\* The keyfile on the volume stays: every volume of the set has one.
WritePasswordPin(n, password, fallback) == WritePin(n, password, pin[n].keyfile)

-----------------------------------------------------------------------------
(* The phases.  A request holds ROTATION from "start" until its answer.    *)

Holds(n, at, ofPhases) == op[n].at = at /\ op[n].phase \in ofPhases
Goto(n, at) == op' = [op EXCEPT ![n].at = at]
Fail(n) == op' = [op EXCEPT ![n] = NoOp]
New(n) == Request(op[n].r).new
Current(n) == Request(op[n].r).current
Target(n) == TargetKeyfile(op[n].r, op[n].phase = "keyPrepare")

\* The platform calls a member that has not answered the phase, and again
\* until it has, with either password: one of the two is the pin's.
\* `database` goes to the primary.
Send(n) ==
  /\ phase # "done" /\ n \notin done
  /\ phase # "database" => turn \in {n, NoNode}
  /\ phase = "database" => n = primary
  /\ wrapper[n] = "up" /\ op[n] = NoOp
  /\ op' = [op EXCEPT ![n] = [at |-> "start", phase |-> phase, r |-> rotation, asked |-> TRUE]]
  /\ turn' = n
  /\ UNCHANGED <<volume, wrapper, loaded, notified, sup, res, set,
                 rotation, phase, done, variable, faults>>

\* reconcile: a staged rotation left lying for 30 s has its Member phase run.
Reconcile(n) ==
  /\ wrapper[n] = "up" /\ op[n] = NoOp
  /\ pending[n] # 0
  /\ pin[n].password # Request(pending[n]).new /\ Works(n, Request(pending[n]).new)
  /\ op' = [op EXCEPT ![n] =
       [at |-> "start", phase |-> "member", r |-> pending[n], asked |-> FALSE]]
  /\ UNCHANGED <<volume, wrapper, loaded, notified, sup, res, set, platform, faults>>

Prepare(n) ==
  /\ Holds(n, "start", {"prepare"})
  /\ pending' = [pending EXCEPT ![n] = op[n].r]
  /\ Goto(n, "reply")
  /\ UNCHANGED <<pin, wrapper, loaded, notified, sup, res, set, platform, faults>>

\* Broken: a repeated request changes the password again.
DatabaseAgain(n) ==
  /\ Holds(n, "start", {"database"})
  /\ primary = n
  /\ Goto(n, "majority") /\ root' = [root EXCEPT ![n] = @ + 1]
  /\ UNCHANGED <<volume, wrapper, loaded, notified, sup, res, mongod, primary, platform, faults>>

\* The stored user is changed unless it has the new password already.
Database(n) ==
  /\ Holds(n, "start", {"database"})
  /\ IF ~Works(n, New(n)) /\ Works(n, Current(n)) /\ primary = n
     THEN Goto(n, "majority") /\ root' = [root EXCEPT ![n] = @ + 1]
     ELSE /\ IF Works(n, New(n)) THEN Goto(n, "reply") ELSE Fail(n)
          /\ root' = root
  /\ UNCHANGED <<volume, wrapper, loaded, notified, sup, res, mongod, primary, platform, faults>>

\* updateUser waits for a majority, and fails with the primary that ran it.
Acknowledged(n) ==
  /\ op[n].at = "majority"
  /\ \/ primary = n /\ Majority({m \in Nodes : root[m] = root[n]}) /\ Goto(n, "reply")
     \/ primary # n /\ Fail(n)
  /\ UNCHANGED <<volume, wrapper, loaded, notified, sup, res, set, platform, faults>>

Member(n) ==
  /\ Holds(n, "start", {"member"})
  /\ IF Works(n, New(n)) THEN Goto(n, "pinPassword") ELSE Fail(n)
  /\ UNCHANGED <<volume, wrapper, loaded, notified, sup, res, set, platform, faults>>

MemberPin(n) ==
  /\ op[n].at = "pinPassword"
  /\ WritePasswordPin(n, New(n), loaded[n])
  /\ Goto(n, "reply")
  /\ UNCHANGED <<pending, wrapper, loaded, notified, sup, res, set, platform, faults>>

\* Broken: a pin that has the target already counts for a restart under way.
KeyOnceAsked(n) ==
  /\ Holds(n, "start", KeyPhases)
  /\ IF Works(n, New(n))
     THEN Goto(n, IF pin[n].keyfile = Target(n) THEN "wait" ELSE "check") ELSE Fail(n)
  /\ UNCHANGED <<volume, wrapper, loaded, notified, sup, res, set, platform, faults>>

\* KeyPrepare and KeyCommit: nothing to do but wait if the target is loaded.
Key(n) ==
  /\ Holds(n, "start", KeyPhases)
  /\ IF Works(n, New(n)) THEN Goto(n, IF loaded[n] = Target(n) THEN "wait" ELSE "check") ELSE Fail(n)
  /\ UNCHANGED <<volume, wrapper, loaded, notified, sup, res, set, platform, faults>>

KeyCheck(n) ==
  /\ op[n].at = "check"
  /\ \/ SetReady(n) /\ Goto(n, "pinKey")
     \/ SetUnready(n) /\ Fail(n)
  /\ UNCHANGED <<volume, wrapper, loaded, notified, sup, res, set, platform, faults>>

\* The restart intent, and the restart asked for.
KeyPin(n) ==
  /\ op[n].at = "pinKey"
  /\ WritePin(n, New(n), Target(n))
  /\ notified' = [notified EXCEPT ![n] = TRUE]
  /\ Goto(n, "wait")
  /\ UNCHANGED <<pending, wrapper, loaded, sup, res, set, platform, faults>>

KeyLoaded(n) ==
  /\ op[n].at = "wait"
  /\ loaded[n] = Target(n) /\ SetReady(n)
  /\ Goto(n, "reply")
  /\ UNCHANGED <<volume, wrapper, loaded, notified, sup, res, set, platform, faults>>

\* The 35 s run out on a restart the supervisor has turned down.
KeyRefused(n) ==
  /\ op[n].at = "wait"
  /\ loaded[n] # Target(n) /\ ~notified[n] /\ sup[n].at = "idle"
  /\ Fail(n)
  /\ UNCHANGED <<volume, wrapper, loaded, notified, sup, res, set, platform, faults>>

Verify(n) ==
  /\ Holds(n, "start", {"verify"})
  /\ \/ loaded[n] = Target(n) /\ pin[n].keyfile = Target(n) /\ SetReady(n)
        /\ Goto(n, "verifyPasswords")
     \/ ~(loaded[n] = Target(n) /\ pin[n].keyfile = Target(n) /\ ~SetUnready(n)) /\ Fail(n)
  /\ UNCHANGED <<volume, wrapper, loaded, notified, sup, res, set, platform, faults>>

VerifyPasswords(n) ==
  /\ op[n].at = "verifyPasswords"
  /\ IF Works(n, New(n)) /\ pin[n].password = New(n)
     THEN pending' = [pending EXCEPT ![n] = 0] /\ Goto(n, "reply")
     ELSE pending' = pending /\ Fail(n)
  /\ UNCHANGED <<pin, wrapper, loaded, notified, sup, res, set, platform, faults>>

\* The answer reaches the platform, if it still waits for this one.
Reply(n) ==
  /\ op[n].at = "reply"
  /\ IF op[n].asked /\ op[n].r = rotation /\ op[n].phase = phase
     THEN done' = done \cup {n} /\ turn' = NoNode
     ELSE UNCHANGED <<done, turn>>
  /\ Fail(n)
  /\ UNCHANGED <<volume, wrapper, loaded, notified, sup, res, set, rotation, phase, variable, faults>>

\* The response is lost, or the 35 s run out, wherever the request is.
Drop(n) ==
  /\ faults < MaxFaults
  /\ op[n] # NoOp
  /\ Fail(n) /\ faults' = faults + 1
  /\ UNCHANGED <<volume, wrapper, loaded, notified, sup, res, set, platform>>

Operation(n) ==
  \/ Prepare(n) \/ Database(n) \/ Acknowledged(n) \/ Member(n) \/ MemberPin(n)
  \/ Key(n) \/ KeyCheck(n) \/ KeyPin(n) \/ KeyLoaded(n) \/ KeyRefused(n)
  \/ Verify(n) \/ VerifyPasswords(n) \/ Reply(n)

-----------------------------------------------------------------------------
(* The platform.                                                           *)

Successor(p) == Phases[1 + CHOOSE i \in 1..6 : Phases[i] = p]

\* A phase is over when every member has answered it.  A resolver is between
\* mongod's answer and its write for less than that.
Proceed ==
  /\ phase # "done"
  /\ IF phase = "database" THEN done # {} ELSE done = Nodes
  /\ \A n \in Nodes : res[n].at # "pin"
  /\ phase' = Successor(phase) /\ done' = {} /\ turn' = NoNode
  /\ variable' = IF phase = "verify" THEN Pw(rotation) ELSE variable
  /\ UNCHANGED <<volume, process, set, rotation, faults>>

\* The members refuse a password the set no longer holds: from the top again.
Repeat ==
  /\ phase \in {"member"} \cup KeyPhases
  /\ primary # NoNode /\ Pw(root[primary]) # Request(rotation).new
  /\ phase' = "prepare" /\ done' = {} /\ turn' = NoNode
  /\ UNCHANGED <<volume, process, set, rotation, variable, faults>>

\* Compensation: back to the password before, from wherever it is.
TurnBack ==
  /\ rotation < MaxRotations
  /\ rotation' = rotation + 1 /\ phase' = "prepare" /\ done' = {} /\ turn' = NoNode
  /\ UNCHANGED <<volume, process, set, variable, faults>>

-----------------------------------------------------------------------------
(* The supervisor: a restart on the keyfile the pin asks for.              *)

\* Broken: it does not look whether the keyfile is loaded by now.
NoticeAnyway(n) ==
  /\ wrapper[n] = "up" /\ notified[n] /\ sup[n].at = "idle"
  /\ notified' = [notified EXCEPT ![n] = FALSE]
  /\ sup' = [sup EXCEPT ![n] = [at |-> "handoff", target |-> pin[n].keyfile]]
  /\ UNCHANGED <<volume, wrapper, loaded, op, res, set, platform, faults>>

Notice(n) ==
  /\ wrapper[n] = "up" /\ notified[n] /\ sup[n].at = "idle"
  /\ notified' = [notified EXCEPT ![n] = FALSE]
  /\ sup' = IF loaded[n] = pin[n].keyfile THEN sup
            ELSE [sup EXCEPT ![n] = [at |-> "handoff", target |-> pin[n].keyfile]]
  /\ UNCHANGED <<volume, wrapper, loaded, op, res, set, platform, faults>>

\* Someone who has caught up can take over.
Successors(n) == {m \in Reached(n) \ {n} : root[m] = root[n]}

\* A secondary is stopped as it is; a primary once it has stepped down, after
\* which it does not stand for 60 s.  Otherwise nothing is restarted.
Handoff(n) ==
  /\ sup[n].at = "handoff"
  /\ \/ primary # n /\ sup' = [sup EXCEPT ![n].at = "stop"] /\ primary' = primary
     \/ primary = n /\ Successors(n) # {}
        /\ sup' = [sup EXCEPT ![n].at = "stepped"] /\ primary' = NoNode
     \/ primary = n /\ Successors(n) = {} /\ sup' = [sup EXCEPT ![n] = NoWatch] /\ primary' = primary
  /\ UNCHANGED <<volume, wrapper, loaded, notified, op, res, mongod, root, platform, faults>>

\* The hand-off outlasts its 20 s.
HandoffFails(n) ==
  /\ sup[n].at = "handoff" /\ faults < MaxFaults
  /\ sup' = [sup EXCEPT ![n] = NoWatch]
  /\ faults' = faults + 1
  /\ UNCHANGED <<volume, wrapper, loaded, notified, op, res, set, platform>>

StopMongod(n) ==
  /\ sup[n].at \in {"stop", "stepped"}
  /\ sup' = [sup EXCEPT ![n].at = "spawn"]
  /\ mongod' = [mongod EXCEPT ![n] = NoKey]
  /\ primary' = IF primary = n THEN NoNode ELSE primary
  /\ UNCHANGED <<volume, wrapper, loaded, notified, op, res, root, platform, faults>>

SpawnMongod(n) ==
  /\ sup[n].at = "spawn"
  /\ mongod' = [mongod EXCEPT ![n] = sup[n].target]
  /\ loaded' = [loaded EXCEPT ![n] = sup[n].target]
  /\ sup' = [sup EXCEPT ![n] = NoWatch]
  /\ UNCHANGED <<volume, wrapper, notified, op, res, root, primary, platform, faults>>

Supervise(n) == Notice(n) \/ Handoff(n) \/ StopMongod(n) \/ SpawnMongod(n)

-----------------------------------------------------------------------------
(* The resolver, one probe at a time.                                      *)

\* A staged password that works is taken for the active one.
ResolvePending(n) ==
  /\ res[n].at = "rest" /\ pending[n] # 0
  /\ LET pw == Request(pending[n]).new IN
     /\ pw # res[n].active /\ Works(n, pw)
     /\ res' = [res EXCEPT ![n].active = pw, ![n].proven = FALSE]
  /\ UNCHANGED <<volume, wrapper, loaded, notified, sup, op, set, platform, faults>>

ResolveActive(n) ==
  /\ res[n].at = "rest" /\ ~res[n].proven /\ Works(n, res[n].active)
  /\ res' = [res EXCEPT ![n].at = "pin", ![n].proven = TRUE]
  /\ UNCHANGED <<volume, wrapper, loaded, notified, sup, op, set, platform, faults>>

\* Broken: the variable is adopted because it was edited.
ResolveEnvUnproven(n) ==
  /\ res[n].at = "rest" /\ res[n].env # res[n].active
  /\ res' = [res EXCEPT ![n].at = "pin", ![n].proven = TRUE, ![n].active = res[n].env]
  /\ UNCHANGED <<volume, wrapper, loaded, notified, sup, op, set, platform, faults>>

ResolveEnv(n) ==
  /\ res[n].at = "rest" /\ res[n].env # res[n].active /\ Works(n, res[n].env)
  /\ res' = [res EXCEPT ![n].at = "pin", ![n].proven = TRUE, ![n].active = res[n].env]
  /\ UNCHANGED <<volume, wrapper, loaded, notified, sup, op, set, platform, faults>>

\* It returns once nothing disagrees any more.
ResolvePin(n) ==
  /\ res[n].at = "pin"
  /\ WritePasswordPin(n, res[n].active, res[n].keyfile)
  /\ res' = IF res[n].env = res[n].active THEN [res EXCEPT ![n] = NoResolver]
            ELSE [res EXCEPT ![n].at = "rest"]
  /\ UNCHANGED <<pending, wrapper, loaded, notified, sup, op, set, platform, faults>>

Resolve(n) == ResolvePending(n) \/ ResolveActive(n) \/ ResolveEnv(n) \/ ResolvePin(n)

-----------------------------------------------------------------------------
(* Crash and boot.                                                         *)

Crash(n) ==
  /\ wrapper[n] # "down" /\ faults < MaxFaults
  /\ wrapper' = [wrapper EXCEPT ![n] = "down"]
  /\ loaded' = [loaded EXCEPT ![n] = NoKey]
  /\ notified' = [notified EXCEPT ![n] = FALSE]
  /\ sup' = [sup EXCEPT ![n] = NoWatch]
  /\ op' = [op EXCEPT ![n] = NoOp]
  /\ res' = [res EXCEPT ![n] = NoResolver]
  /\ mongod' = [mongod EXCEPT ![n] = NoKey]
  /\ primary' = IF primary = n THEN NoNode ELSE primary
  /\ faults' = faults + 1
  /\ UNCHANGED <<volume, root, platform>>

\* What discover_live_set_keyfile can bring back for one of the passwords: the
\* keyfile of a peer whose mongod accepts it.  A peer may not answer in time.
Handed(n, passwords) ==
  {loaded[m] : m \in {o \in Nodes \ {n} : wrapper[o] = "up" /\ \E pw \in passwords : Works(o, pw)}}

Candidates(n) ==
  {variable, pin[n].password}
    \cup (IF pending[n] = 0 THEN {} ELSE {Request(pending[n]).new, Request(pending[n]).current})

\* Broken: the live key replaces a restart intent it agrees with, too.
DisjointNever(current, keyfile) == TRUE

\* keys_overlap, which spares an unfinished pass.
Disjoint(current, keyfile) == ~Overlap(current, keyfile)

\* reconcile_keyfile_at_boot.
Boot(n) ==
  /\ wrapper[n] = "down"
  /\ wrapper' = [wrapper EXCEPT ![n] = "rendering"]
  /\ \/ pin' = pin
     \/ /\ pending[n] # 0 \/ pin[n].password # variable
        /\ \E keyfile \in Handed(n, Candidates(n)) :
             /\ Disjoint(pin[n].keyfile, keyfile)
             /\ WritePin(n, pin[n].password, keyfile)
  /\ UNCHANGED <<pending, loaded, notified, sup, op, res, set, platform, faults>>

\* read_pin, resolve_boot_credentials, the keyfile rendered and mongod spawned.
Render(n) ==
  /\ wrapper[n] = "rendering"
  /\ wrapper' = [wrapper EXCEPT ![n] = "up"]
  /\ loaded' = [loaded EXCEPT ![n] = pin[n].keyfile]
  /\ mongod' = [mongod EXCEPT ![n] = pin[n].keyfile]
  /\ res' = [res EXCEPT ![n] = [at |-> "rest", active |-> pin[n].password, proven |-> FALSE,
                                env |-> variable, keyfile |-> pin[n].keyfile]]
  /\ UNCHANGED <<volume, notified, sup, op, root, primary, platform, faults>>

-----------------------------------------------------------------------------
(* mongod.                                                                 *)

\* A candidate needs a majority that is not ahead of it.
Elect(n) ==
  /\ primary = NoNode /\ sup[n].at # "stepped"
  /\ Majority({m \in Reached(n) : root[m] <= root[n]})
  /\ primary' = n
  /\ UNCHANGED <<volume, process, mongod, root, platform, faults>>

\* A primary that has lost its majority steps down.
Lapse ==
  /\ primary # NoNode /\ ~Majority(Reached(primary))
  /\ primary' = NoNode
  /\ UNCHANGED <<volume, process, mongod, root, platform, faults>>

\* Catches up with the primary, or rolls back to it.
Replicate(n) ==
  /\ primary # NoNode /\ Reaches(n, primary)
  /\ root[n] # root[primary]
  /\ root' = [root EXCEPT ![n] = root[primary]]
  /\ UNCHANGED <<volume, process, mongod, primary, platform, faults>>

NodeStep(n) ==
  \/ Send(n) \/ Reconcile(n) \/ Operation(n) \/ Drop(n)
  \/ Supervise(n) \/ HandoffFails(n) \/ Resolve(n)
  \/ Crash(n) \/ Boot(n) \/ Render(n)
  \/ Elect(n) \/ Replicate(n)

Next == Proceed \/ Repeat \/ TurnBack \/ Lapse \/ \E n \in Nodes : NodeStep(n)

Spec == Init /\ [][Next]_vars

\* Every task is scheduled, the platform retries, mongod elects and replicates.
\* Faults and compensation stay free.
Fairness ==
  /\ WF_vars(Proceed) /\ WF_vars(Repeat) /\ WF_vars(Lapse)
  /\ WF_vars(\E n \in Nodes : Elect(n))
  /\ \A n \in Nodes :
       /\ WF_vars(Send(n)) /\ WF_vars(Operation(n)) /\ WF_vars(Supervise(n))
       /\ WF_vars(Reconcile(n)) /\ WF_vars(Resolve(n))
       /\ WF_vars(Boot(n) \/ Render(n)) /\ WF_vars(Replicate(n))

FairSpec == Spec /\ Fairness

-----------------------------------------------------------------------------
(* Properties.                                                             *)

\* What a member accepts others with: the keyfile it runs, or the one its
\* next start renders.
Accepted(n) == IF Running(n) THEN mongod[n] ELSE pin[n].keyfile

\* In no interleaving of passes, crashes, lost responses and compensation is
\* there a member that, restarted or left as it is, would be shut out by one
\* that is restarted or left as it is: the two passes of credentials.rs and
\* the pin as restart intent.
RestartsAgree ==
  \A n, m \in Nodes :
    \A k \in {Accepted(n), pin[n].keyfile}, l \in {Accepted(m), pin[m].keyfile} : Overlap(k, l)

\* Two members are never down at once for a rotation's sake: the health check
\* before a restart, and the supervisor's second look at what is loaded, keep
\* a repeated request from costing the set its majority.
OneRestart ==
  rotation = 1 => Cardinality({n \in Nodes : sup[n].at \in {"stop", "stepped", "spawn"}}) <= 1

\* What Verify has confirmed on every member stays: the pin, the keyfile
\* mongod runs with and the root password are the new ones and nothing is
\* staged, whatever the resolver and the background Member phase do later.
Settled ==
  phase = "done" =>
    \A n \in Nodes :
      /\ pin[n] = [password |-> Pw(rotation), keyfile |-> <<Pw(rotation)>>]
      /\ Accepted(n) = <<Pw(rotation)>>
      /\ pending[n] = 0

\* The rolling change implements the abstract one (see SharedKey).
Shared == INSTANCE SharedKey WITH
  Members <- Nodes, Keys <- Password, key <- [n \in Nodes |-> KeysOf(Accepted(n))]
RefinesSharedKey == Shared!Spec

\* Once the platform stops turning back, the rotation it is in completes: no
\* refused hand-off, lost response or crash leaves a phase no retry can pass.
Completes == <>[](phase = "done")
=============================================================================
