----------------------- MODULE CredentialRotationProofs -----------------------
(***************************************************************************)
(* Proofs about CredentialRotation, for any members and faults: type       *)
(* correctness; for a rotation and its way back, that no two members are   *)
(* ever without a key in common, and that the rolling change implements    *)
(* SharedKey; and, for a first rotation, that one member is restarted at a *)
(* time and that what is verified stays.                                   *)
(***************************************************************************)
EXTENDS CredentialRotation, FiniteSetTheorems, TLAPS

-----------------------------------------------------------------------------
(* The inductive invariants.                                               *)

\* n carries out a request of the platform.
Live(n) == op[n].at # "idle" /\ op[n].asked

\* A container that does not run has a wrapper that does nothing; one that does
\* has loaded a keyfile, which mongod runs with if it runs.
Quiet(n) ==
  /\ wrapper[n] # "up" => loaded[n] = NoKey /\ sup[n].at = "idle" /\ op[n].at = "idle"
  /\ wrapper[n] = "up" => loaded[n] # NoKey
  /\ mongod[n] \in {NoKey, loaded[n]}
  /\ sup[n].at = "idle" <=> sup[n].target = NoKey

\* What nobody asked for is a Member phase.  A request of an earlier rotation is
\* left behind before its member has answered the present one at all.
InTime(n) ==
  /\ op[n].at # "idle" /\ ~op[n].asked => op[n].phase = "member"
  /\ Live(n) => /\ op[n].r \in 1..rotation
                /\ op[n].r < rotation => phase = "prepare" /\ n \notin done

\* Past the first phase there is no request of an earlier rotation.
InOrder(n) ==
  Live(n) /\ op[n].phase # "prepare" => \A k \in Nodes : Live(k) => op[n].r <= op[k].r

\* Nobody applies a change that is not asked for, or of a rotation some member
\* has not begun.
RootsAsked ==
  \A m \in Nodes :
    root[m] <= rotation /\ \A n \in Nodes : Live(n) => root[m] <= op[n].r

TypeInv ==
  /\ TypeOK
  /\ \A n \in Nodes : Quiet(n) /\ InTime(n) /\ InOrder(n)
  /\ RootsAsked

\* The keyfiles n runs with, is about to be restarted on, or would start with.
InUse(n) == {pin[n].keyfile, loaded[n], sup[n].target} \ {NoKey}

\* Every one of them lists the key.
Lists(n, key) == \A keyfile \in InUse(n) : key \in KeysOf(keyfile)

Agreeing ==
  \A n, m \in Nodes : \A k \in InUse(n), l \in InUse(m) : Overlap(k, l)

\* A member that has loaded the first pass of rotation r, or is about to, has
\* nothing ahead of it that lacks the new key.
Follows(n, r) ==
  /\ loaded[n] = TargetKeyfile(r, TRUE) => Lists(n, Pw(r))
  /\ sup[n].target = TargetKeyfile(r, TRUE) => Pw(r) \in KeysOf(pin[n].keyfile)

\* The first pass of the way back has left nothing on a member still busy with
\* the rotation.
NotYetBack(n) ==
  rotation = 1 \/ (Live(n) /\ op[n].r = 1) => TargetKeyfile(2, TRUE) \notin InUse(n)

\* Who restarts, or waits for a restart, is in one of the two passes; the other
\* phases have stages of their own.
AtStage(n) ==
  /\ op[n].at \in {"check", "pinKey", "wait"} => op[n].phase \in KeyPhases
  /\ op[n].at \in {"majority", "pinPassword", "verifyPasswords"} => op[n].phase \notin KeyPhases

\* Everybody has the new key while some member goes over to it alone, and
\* whoever has answered the first pass has it.
Passes(n) ==
  /\ op[n].at # "idle" /\ op[n].phase = "keyCommit" => \A m \in Nodes : Lists(m, Pw(op[n].r))
  /\ op[n].at = "reply" /\ op[n].phase = "keyPrepare" => Lists(n, Pw(op[n].r))
  /\ phase = "keyPrepare" /\ n \in done => Lists(n, Pw(rotation))
  /\ phase \in {"keyCommit", "verify", "done"} => Lists(n, Pw(rotation))

KeyInv ==
  /\ TypeInv
  /\ Agreeing
  /\ \A n \in Nodes :
       /\ Follows(n, rotation) /\ (Live(n) => Follows(n, op[n].r))
       /\ NotYetBack(n)
       /\ AtStage(n) /\ Passes(n)

-----------------------------------------------------------------------------
(* Types.                                                                  *)

Stages == {"idle", "start", "majority", "pinPassword", "check", "pinKey", "wait",
           "verifyPasswords", "reply"}
PhaseNames == KeyPhases \cup {"prepare", "database", "member", "verify", "done"}
Requests == [at : Stages, phase : PhaseNames, r : 0..MaxRotations, asked : BOOLEAN]
Keyfiles == Keyfile \cup {NoKey}
Watches == [at : {"idle", "handoff", "stop", "stepped", "spawn"}, target : Keyfiles]
Resolvers == [at : {"off", "rest", "pin"}, active : Password, proven : BOOLEAN,
              env : Password, keyfile : Keyfiles]
Pins == [password : Password, keyfile : Keyfile]

Types ==
  /\ pin \in [Nodes -> Pins]
  /\ pending \in [Nodes -> 0..MaxRotations]
  /\ wrapper \in [Nodes -> {"down", "rendering", "up"}]
  /\ loaded \in [Nodes -> Keyfiles]
  /\ notified \in [Nodes -> BOOLEAN]
  /\ sup \in [Nodes -> Watches]
  /\ op \in [Nodes -> Requests]
  /\ res \in [Nodes -> Resolvers]
  /\ mongod \in [Nodes -> Keyfiles]
  /\ root \in [Nodes -> 0..MaxRotations]
  /\ primary \in Nodes \cup {NoNode}
  /\ rotation \in 1..MaxRotations
  /\ phase \in PhaseNames
  /\ done \subseteq Nodes
  /\ turn \in Nodes \cup {NoNode}
  /\ variable \in Password
  /\ faults \in 0..MaxFaults

LEMMA PhaseNumbers ==
  /\ Phases[1] = "prepare" /\ Phases[2] = "database" /\ Phases[3] = "member"
  /\ Phases[4] = "keyPrepare" /\ Phases[5] = "keyCommit" /\ Phases[6] = "verify"
  /\ Phases[7] = "done"
BY DEF Phases

LEMMA PhaseSet == {Phases[i] : i \in 1..7} = PhaseNames
<1>1. 1..7 = {1, 2, 3, 4, 5, 6, 7}
  OBVIOUS
<1>2. QED
  BY <1>1, PhaseNumbers DEF PhaseNames, KeyPhases

LEMMA TypesAreTypeOK == TypeOK <=> Types
BY PhaseSet DEF TypeOK, Types, Stages, PhaseNames, Requests, Keyfiles, Watches, Resolvers, Pins

LEMMA TypesAreTypeOKNext == (TypeOK <=> Types)'
BY PhaseSet DEF TypeOK, Types, Stages, PhaseNames, Requests, Keyfiles, Watches, Resolvers, Pins

\* The phase that follows, and the one it follows.
LEMMA NextPhase ==
  ASSUME NEW p \in PhaseNames, p # "done"
  PROVE  /\ Successor(p) \in PhaseNames
         /\ Successor(p) = "database" <=> p = "prepare"
         /\ Successor(p) = "member" <=> p = "database"
         /\ Successor(p) = "keyPrepare" <=> p = "member"
         /\ Successor(p) = "keyCommit" <=> p = "keyPrepare"
         /\ Successor(p) = "verify" <=> p = "keyCommit"
         /\ Successor(p) = "done" <=> p = "verify"
<1>1. 1..6 = {1, 2, 3, 4, 5, 6}
  OBVIOUS
<1>2. \E i \in 1..6 : Phases[i] = p
  BY <1>1, PhaseNumbers DEF PhaseNames, KeyPhases
<1>3. PICK i \in 1..6 : i = (CHOOSE j \in 1..6 : Phases[j] = p) /\ Phases[i] = p
  BY <1>2
<1>4. Successor(p) = Phases[1 + i]
  BY <1>3 DEF Successor
<1>5. QED
  BY <1>1, <1>3, <1>4, PhaseNumbers DEF PhaseNames, KeyPhases

\* The i-th change is to another password.
LEMMA Passwords ==
  ASSUME NEW i \in Nat
  PROVE  /\ Pw(i) \in Password
         /\ i > 0 => Pw(i - 1) \in Password /\ Pw(i - 1) # Pw(i)
         /\ i > 0 => Request(i).new = Pw(i) /\ Request(i).current = Pw(i - 1)
BY DEF Pw, Password, Request

LEMMA IdleOp == NoOp \in Requests /\ NoOp.at = "idle"
<1>1. 0 \in 0..MaxRotations
  BY BoundAssumption
<1>2. QED
  BY <1>1 DEF NoOp, Requests, Stages, PhaseNames

LEMMA OpMoves ==
  ASSUME NEW o \in Requests, NEW a \in Stages
  PROVE  /\ [o EXCEPT !.at = a] \in Requests
         /\ [o EXCEPT !.at = a].at = a
         /\ [o EXCEPT !.at = a].phase = o.phase
         /\ [o EXCEPT !.at = a].r = o.r
         /\ [o EXCEPT !.at = a].asked = o.asked
BY DEF Requests

LEMMA OpFields ==
  ASSUME NEW o \in Requests
  PROVE  o.at \in Stages /\ o.phase \in PhaseNames /\ o.r \in 0..MaxRotations /\ o.asked \in BOOLEAN
BY DEF Requests

\* What a step of its own makes of a request.
LEMMA Gone ==
  ASSUME op \in [Nodes -> Requests], NEW n \in Nodes, NEW a \in Stages, Goto(n, a)
  PROVE  /\ op' \in [Nodes -> Requests]
         /\ op'[n].at = a /\ op'[n].phase = op[n].phase /\ op'[n].r = op[n].r
         /\ op'[n].asked = op[n].asked
         /\ \A m \in Nodes : m # n => op'[m] = op[m]
<1> DEFINE o == [op[n] EXCEPT !.at = a]
<1>1. op' = [op EXCEPT ![n] = o]
  BY DEF Goto
<1>2. /\ o \in Requests /\ o.at = a /\ o.phase = op[n].phase /\ o.r = op[n].r
      /\ o.asked = op[n].asked
  BY OpMoves
<1> HIDE DEF o
<1>3. QED
  BY <1>1, <1>2

LEMMA Failed ==
  ASSUME op \in [Nodes -> Requests], NEW n \in Nodes, Fail(n)
  PROVE  /\ op' \in [Nodes -> Requests]
         /\ op'[n].at = "idle"
         /\ \A m \in Nodes : m # n => op'[m] = op[m]
BY IdleOp DEF Fail

-----------------------------------------------------------------------------
(* Keyfiles.                                                               *)

LEMMA KeysOfOne == \A k : KeysOf(<<k>>) = {k} /\ <<k>> # NoKey
<1> TAKE k
<1>1. DOMAIN <<k>> = {1} /\ <<k>>[1] = k
  OBVIOUS
<1>2. <<k>> # << >>
  OBVIOUS
<1>3. QED
  BY <1>1, <1>2 DEF KeysOf, NoKey

LEMMA KeysOfTwo == \A k, l : KeysOf(<<k, l>>) = {k, l} /\ <<k, l>> # NoKey
<1> TAKE k, l
<1>1. DOMAIN <<k, l>> = {1, 2} /\ <<k, l>>[1] = k /\ <<k, l>>[2] = l
  OBVIOUS
<1>2. <<k, l>> # << >>
  OBVIOUS
<1>3. QED
  BY <1>1, <1>2 DEF KeysOf, NoKey

\* A keyfile lists a key, and the keyfile of both lists all of them.
LEMMA KeyfileKeys ==
  /\ \A keyfile \in Keyfile : KeysOf(keyfile) # {} /\ KeysOf(keyfile) \subseteq Password
  /\ NoKey \notin Keyfile
BY KeysOfOne, KeysOfTwo DEF Keyfile, Password

LEMMA Targets ==
  ASSUME NEW r \in Nat, r > 0
  PROVE  /\ TargetKeyfile(r, TRUE) \in Keyfile /\ KeysOf(TargetKeyfile(r, TRUE)) = Password
         /\ TargetKeyfile(r, FALSE) \in Keyfile /\ KeysOf(TargetKeyfile(r, FALSE)) = {Pw(r)}
<1>1. /\ TargetKeyfile(r, TRUE) = <<Pw(r - 1), Pw(r)>>
      /\ TargetKeyfile(r, FALSE) = <<Pw(r)>>
  BY Passwords DEF TargetKeyfile
<1>2. Pw(r - 1) \in Password /\ Pw(r) \in Password /\ Pw(r - 1) # Pw(r)
  BY Passwords
<1>3. {Pw(r - 1), Pw(r)} = Password
  BY <1>2 DEF Password
<1>4. <<Pw(r - 1), Pw(r)>> \in Keyfile /\ <<Pw(r)>> \in Keyfile
  BY <1>2 DEF Password, Keyfile
<1>5. QED
  BY <1>1, <1>3, <1>4, KeysOfOne, KeysOfTwo

LEMMA WatchTypes ==
  /\ NoWatch \in Watches /\ NoWatch.at = "idle" /\ NoWatch.target = NoKey
  /\ \A w \in Watches, a \in {"stop", "stepped", "spawn"} :
       /\ [w EXCEPT !.at = a] \in Watches
       /\ [w EXCEPT !.at = a].at = a /\ [w EXCEPT !.at = a].target = w.target
  /\ \A k \in Keyfiles : LET w == [at |-> "handoff", target |-> k] IN
       w \in Watches /\ w.at = "handoff" /\ w.target = k
  /\ \A w \in Watches : w.target \in Keyfiles
BY DEF NoWatch, Watches, Keyfiles

LEMMA ResolverTypes ==
  /\ NoResolver \in Resolvers
  /\ \A s \in Resolvers :
       /\ s.keyfile \in Keyfiles /\ s.active \in Password /\ s.env \in Password
       /\ \A pw \in Password : [s EXCEPT !.active = pw, !.proven = FALSE] \in Resolvers
       /\ [s EXCEPT !.at = "pin", !.proven = TRUE] \in Resolvers
       /\ [s EXCEPT !.at = "pin", !.proven = TRUE, !.active = s.env] \in Resolvers
       /\ [s EXCEPT !.at = "rest"] \in Resolvers
  /\ \A pw, env \in Password, k \in Keyfiles :
       [at |-> "rest", active |-> pw, proven |-> FALSE, env |-> env, keyfile |-> k] \in Resolvers
BY DEF NoResolver, Resolvers, Password, Keyfiles

LEMMA PinTypes ==
  /\ \A q \in Pins : q.password \in Password /\ q.keyfile \in Keyfile
  /\ \A pw \in Password, k \in Keyfile : LET q == [password |-> pw, keyfile |-> k] IN
       q \in Pins /\ q.password = pw /\ q.keyfile = k
BY DEF Pins

LEMMA PinWritten ==
  ASSUME pin \in [Nodes -> Pins], NEW n \in Nodes, NEW pw \in Password, NEW k \in Keyfile,
         WritePin(n, pw, k)
  PROVE  /\ pin' \in [Nodes -> Pins]
         /\ pin'[n].keyfile = k
         /\ \A m \in Nodes : m # n => pin'[m] = pin[m]
<1> DEFINE q == [password |-> pw, keyfile |-> k]
<1>1. pin' = [pin EXCEPT ![n] = q]
  BY DEF WritePin
<1>2. q \in Pins /\ q.keyfile = k
  BY PinTypes
<1> HIDE DEF q
<1>3. QED
  BY <1>1, <1>2

-----------------------------------------------------------------------------
(* Every step keeps the types.                                             *)

LEMMA LiveRequest ==
  ASSUME TypeInv, NEW n \in Nodes, op[n].at # "idle", op[n].phase # "member"
  PROVE  /\ Live(n) /\ op[n].r \in Nat /\ op[n].r > 0
         /\ op[n].r <= rotation /\ op[n].r \in 1..MaxRotations
         /\ op[n].phase # "prepare" => \A k \in Nodes : Live(k) => op[n].r <= op[k].r
         /\ \A m \in Nodes : root[m] <= op[n].r
<1>1. Live(n)
  BY DEF TypeInv, InTime, Live
<1>2. op[n].r \in 1..rotation /\ rotation \in 1..MaxRotations
  BY <1>1, TypesAreTypeOK DEF TypeInv, InTime, Types
<1>3. op[n].r \in Nat /\ op[n].r > 0 /\ op[n].r <= rotation /\ op[n].r \in 1..MaxRotations
  BY <1>2, BoundAssumption
<1>4. QED
  BY <1>1, <1>3 DEF TypeInv, InOrder, RootsAsked

\* The next change is one that is asked for.
LEMMA NextChange ==
  ASSUME TypeInv, NEW n \in Nodes, op[n].at # "idle", op[n].phase = "database",
         Works(n, Current(n))
  PROVE  root[n] + 1 <= op[n].r /\ root[n] + 1 \in 0..MaxRotations
<1>1. /\ op[n].r \in Nat /\ op[n].r > 0 /\ op[n].r \in 1..MaxRotations /\ root[n] <= op[n].r
  BY LiveRequest
<1>2. root[n] \in Nat
  BY TypesAreTypeOK DEF TypeInv, Types
<1>3. Pw(root[n]) = Pw(op[n].r - 1) /\ Pw(op[n].r - 1) # Pw(op[n].r)
  BY <1>1, Passwords DEF Works, Current
<1>4. root[n] # op[n].r
  BY <1>3
<1>5. QED
  BY <1>1, <1>2, <1>4, BoundAssumption

LEMMA RequestTypesStep ==
  ASSUME TypeInv, NEW n \in Nodes, Send(n) \/ Reconcile(n)
  PROVE  Types'
<1>1. Types
  BY TypesAreTypeOK DEF TypeInv
<1>2. CASE Send(n)
  <2> DEFINE o == [at |-> "start", phase |-> phase, r |-> rotation, asked |-> TRUE]
  <2>1. rotation \in 0..MaxRotations
    BY <1>1 DEF Types
  <2>2. o \in Requests
    BY <1>1, <2>1 DEF Types, Requests, Stages
  <2>3. op' = [op EXCEPT ![n] = o]
    BY <1>2 DEF Send
  <2> HIDE DEF o
  <2>4. op' \in [Nodes -> Requests]
    BY <1>1, <2>2, <2>3 DEF Types
  <2>5. QED
    BY <1>1, <1>2, <2>4 DEF Types, Send, volume, set
<1>3. CASE Reconcile(n)
  <2> DEFINE o == [at |-> "start", phase |-> "member", r |-> pending[n], asked |-> FALSE]
  <2>1. o \in Requests
    BY <1>1 DEF Types, Requests, Stages, PhaseNames
  <2>2. op' = [op EXCEPT ![n] = o]
    BY <1>3 DEF Reconcile
  <2> HIDE DEF o
  <2>3. op' \in [Nodes -> Requests]
    BY <1>1, <2>1, <2>2 DEF Types
  <2>4. QED
    BY <1>1, <1>3, <2>3 DEF Types, Reconcile, volume, set, platform
<1>4. QED
  BY <1>2, <1>3

\* A step of a request leaves it at a stage, or ends it.
LEMMA OperationOp ==
  ASSUME TypeInv, NEW n \in Nodes, Operation(n) \/ Drop(n)
  PROVE  Fail(n) \/ \E a \in Stages : Goto(n, a)
BY DEF Operation, Drop, Prepare, Database, Acknowledged, Member, MemberPin, Key, KeyCheck,
       KeyPin, KeyLoaded, KeyRefused, Verify, VerifyPasswords, Reply, Stages

LEMMA OperationOpType ==
  ASSUME TypeInv, NEW n \in Nodes, Operation(n) \/ Drop(n)
  PROVE  op' \in [Nodes -> Requests]
<1>1. op \in [Nodes -> Requests]
  BY TypesAreTypeOK DEF TypeInv, Types
<1>2. QED
  BY <1>1, OperationOp, Gone, Failed

LEMMA OperationTypes ==
  ASSUME TypeInv, NEW n \in Nodes, Operation(n) \/ Drop(n)
  PROVE  Types'
<1>1. Types /\ op' \in [Nodes -> Requests]
  BY TypesAreTypeOK, OperationOpType DEF TypeInv
<1>2. op[n] \in Requests /\ op[n].r \in 0..MaxRotations
  BY <1>1, OpFields DEF Types
<1>3. CASE Prepare(n)
  BY <1>1, <1>2, <1>3 DEF Types, Prepare, set, platform
<1>4. CASE Database(n)
  <2>1. root' \in [Nodes -> 0..MaxRotations]
    <3>1. CASE root' = root
      BY <1>1, <3>1 DEF Types
    <3>2. CASE root' # root
      <4>1. /\ op[n].at # "idle" /\ op[n].phase = "database" /\ Works(n, Current(n))
            /\ root' = [root EXCEPT ![n] = @ + 1]
        BY <1>4, <3>2 DEF Database, Holds
      <4>2. QED
        BY <1>1, <4>1, NextChange DEF Types
    <3>3. QED
      BY <3>1, <3>2
  <2>2. QED
    BY <1>1, <1>4, <2>1 DEF Types, Database, volume, platform
<1>5. CASE Acknowledged(n) \/ Member(n) \/ Key(n) \/ KeyCheck(n) \/ KeyLoaded(n)
           \/ KeyRefused(n) \/ Verify(n)
  <2>1. UNCHANGED <<volume, wrapper, loaded, notified, sup, res, set, platform, faults>>
    BY <1>5 DEF Acknowledged, Member, Key, KeyCheck, KeyLoaded, KeyRefused, Verify
  <2>2. QED
    BY <1>1, <2>1 DEF Types, volume, set, platform
<1>6. CASE MemberPin(n)
  <2>1. New(n) \in Password
    BY <1>2, BoundAssumption DEF New, Request, Pw, Password
  <2>2. pin \in [Nodes -> Pins] /\ pin[n].keyfile \in Keyfile
    BY <1>1, PinTypes DEF Types
  <2>3. pin' \in [Nodes -> Pins]
    BY <1>6, <2>1, <2>2, PinWritten DEF MemberPin, WritePasswordPin
  <2>4. QED
    BY <1>1, <1>6, <2>3 DEF Types, MemberPin, set, platform
<1>7. CASE KeyPin(n)
  <2>1. New(n) \in Password
    BY <1>2, BoundAssumption DEF New, Request, Pw, Password
  <2>2. Target(n) \in Keyfile
    BY <1>2, Passwords, KeysOfOne DEF Target, TargetKeyfile, Request, Keyfile, Pw
  <2>3. pin' \in [Nodes -> Pins]
    BY <1>1, <1>7, <2>1, <2>2, PinWritten DEF KeyPin, Types
  <2>4. notified' \in [Nodes -> BOOLEAN]
    BY <1>1, <1>7 DEF KeyPin, Types
  <2>5. QED
    BY <1>1, <1>7, <2>3, <2>4 DEF Types, KeyPin, set, platform
<1>8. CASE VerifyPasswords(n)
  <2>1. pending' \in [Nodes -> 0..MaxRotations]
    BY <1>1, <1>8, BoundAssumption DEF VerifyPasswords, Types
  <2>2. QED
    BY <1>1, <1>8, <2>1 DEF Types, VerifyPasswords, set, platform
<1>9. CASE Reply(n)
  <2>1. done' \subseteq Nodes /\ turn' \in Nodes \cup {NoNode}
    BY <1>1, <1>9 DEF Reply, Types
  <2>2. QED
    BY <1>1, <1>9, <2>1 DEF Types, Reply, volume, set
<1>10. CASE Drop(n)
  <2>1. faults' \in 0..MaxFaults
    BY <1>1, <1>10, BoundAssumption DEF Drop, Types
  <2>2. QED
    BY <1>1, <1>10, <2>1 DEF Types, Drop, volume, set, platform
<1>11. QED
  BY <1>3, <1>4, <1>5, <1>6, <1>7, <1>8, <1>9, <1>10 DEF Operation

\* What the supervisor's steps make of its watch.
LEMMA Watched ==
  ASSUME sup \in [Nodes -> Watches], NEW n \in Nodes, NEW a \in {"stop", "stepped", "spawn"},
         sup' = [sup EXCEPT ![n].at = a]
  PROVE  /\ sup' \in [Nodes -> Watches]
         /\ sup'[n].at = a /\ sup'[n].target = sup[n].target
         /\ \A m \in Nodes : m # n => sup'[m] = sup[m]
<1> DEFINE w == [sup[n] EXCEPT !.at = a]
<1>1. sup' = [sup EXCEPT ![n] = w]
  OBVIOUS
<1>2. w \in Watches /\ w.at = a /\ w.target = sup[n].target
  BY WatchTypes
<1> HIDE DEF w
<1>3. QED
  BY <1>1, <1>2

LEMMA WatchEnds ==
  ASSUME sup \in [Nodes -> Watches], NEW n \in Nodes, sup' = [sup EXCEPT ![n] = NoWatch]
  PROVE  /\ sup' \in [Nodes -> Watches]
         /\ sup'[n].at = "idle" /\ sup'[n].target = NoKey
         /\ \A m \in Nodes : m # n => sup'[m] = sup[m]
BY WatchTypes

LEMMA NoticeWatch ==
  ASSUME TypeInv, NEW n \in Nodes, Notice(n)
  PROVE  /\ sup' \in [Nodes -> Watches]
         /\ \/ sup'[n].at = "handoff" /\ sup'[n].target = pin[n].keyfile
            \/ sup'[n] = sup[n]
         /\ \A m \in Nodes : m # n => sup'[m] = sup[m]
<1>1. sup \in [Nodes -> Watches] /\ pin[n].keyfile \in Keyfiles
  BY TypesAreTypeOK, PinTypes DEF TypeInv, Types, Keyfiles
<1>2. CASE sup' = sup
  BY <1>1, <1>2
<1>3. CASE sup' # sup
  <2> DEFINE w == [at |-> "handoff", target |-> pin[n].keyfile]
  <2>1. sup' = [sup EXCEPT ![n] = w]
    BY <1>3 DEF Notice
  <2>2. w \in Watches /\ w.at = "handoff" /\ w.target = pin[n].keyfile
    BY <1>1, WatchTypes
  <2> HIDE DEF w
  <2>3. QED
    BY <1>1, <2>1, <2>2
<1>4. QED
  BY <1>2, <1>3

LEMMA SuperviseTypes ==
  ASSUME TypeInv, NEW n \in Nodes, Supervise(n) \/ HandoffFails(n)
  PROVE  Types'
<1>1. Types /\ sup \in [Nodes -> Watches] /\ mongod \in [Nodes -> Keyfiles]
      /\ loaded \in [Nodes -> Keyfiles] /\ primary \in Nodes \cup {NoNode}
  BY TypesAreTypeOK DEF TypeInv, Types
<1>2. CASE Notice(n)
  <2>1. sup' \in [Nodes -> Watches]
    BY <1>2, NoticeWatch
  <2>2. notified' \in [Nodes -> BOOLEAN]
    BY <1>1, <1>2 DEF Notice, Types
  <2>3. QED
    BY <1>1, <1>2, <2>1, <2>2 DEF Types, Notice, volume, set, platform
<1>3. CASE Handoff(n)
  <2>1. sup' \in [Nodes -> Watches] /\ primary' \in Nodes \cup {NoNode}
    BY <1>1, <1>3, Watched, WatchEnds DEF Handoff
  <2>2. QED
    BY <1>1, <1>3, <2>1 DEF Types, Handoff, volume, platform
<1>4. CASE StopMongod(n)
  <2>1. sup' \in [Nodes -> Watches] /\ primary' \in Nodes \cup {NoNode}
    BY <1>1, <1>4, Watched DEF StopMongod
  <2>2. mongod' \in [Nodes -> Keyfiles]
    BY <1>1, <1>4 DEF StopMongod, Keyfiles
  <2>3. QED
    BY <1>1, <1>4, <2>1, <2>2 DEF Types, StopMongod, volume, platform
<1>5. CASE SpawnMongod(n)
  <2>1. sup' \in [Nodes -> Watches] /\ sup[n].target \in Keyfiles
    BY <1>1, <1>5, WatchEnds, WatchTypes DEF SpawnMongod
  <2>2. mongod' \in [Nodes -> Keyfiles] /\ loaded' \in [Nodes -> Keyfiles]
    BY <1>1, <1>5, <2>1 DEF SpawnMongod
  <2>3. QED
    BY <1>1, <1>5, <2>1, <2>2 DEF Types, SpawnMongod, volume, platform
<1>6. CASE HandoffFails(n)
  <2>1. sup' \in [Nodes -> Watches]
    BY <1>1, <1>6, WatchEnds DEF HandoffFails
  <2>2. faults' \in 0..MaxFaults
    BY <1>1, <1>6, BoundAssumption DEF HandoffFails, Types
  <2>3. QED
    BY <1>1, <1>6, <2>1, <2>2 DEF Types, HandoffFails, volume, set, platform
<1>7. QED
  BY <1>2, <1>3, <1>4, <1>5, <1>6 DEF Supervise

LEMMA ResolveTypes ==
  ASSUME TypeInv, NEW n \in Nodes, Resolve(n)
  PROVE  Types'
<1>1. Types /\ res \in [Nodes -> Resolvers] /\ res[n] \in Resolvers /\ pin \in [Nodes -> Pins]
  BY TypesAreTypeOK DEF TypeInv, Types
<1> DEFINE s == res[n]
<1>2. \/ UNCHANGED pin
      \/ res[n].at = "pin" /\ WritePasswordPin(n, res[n].active, res[n].keyfile)
  BY DEF Resolve, ResolvePending, ResolveActive, ResolveEnv, ResolvePin, volume
<1>3. pin' \in [Nodes -> Pins]
  BY <1>1, <1>2, ResolverTypes, PinTypes, PinWritten DEF WritePasswordPin
<1>4. res' \in [Nodes -> Resolvers]
  <2>1. CASE ResolvePending(n)
    <3> DEFINE t == [s EXCEPT !.active = Request(pending[n]).new, !.proven = FALSE]
    <3>1. Request(pending[n]).new \in Password
      BY <1>1, BoundAssumption DEF Types, Request, Pw, Password
    <3>2. t \in Resolvers
      BY <1>1, <3>1, ResolverTypes
    <3>3. res' = [res EXCEPT ![n] = t]
      BY <2>1 DEF ResolvePending
    <3> HIDE DEF t
    <3>4. QED
      BY <1>1, <3>2, <3>3
  <2>2. CASE ResolveActive(n)
    <3> DEFINE t == [s EXCEPT !.at = "pin", !.proven = TRUE]
    <3>1. t \in Resolvers
      BY <1>1, ResolverTypes
    <3>2. res' = [res EXCEPT ![n] = t]
      BY <2>2 DEF ResolveActive
    <3> HIDE DEF t
    <3>3. QED
      BY <1>1, <3>1, <3>2
  <2>3. CASE ResolveEnv(n)
    <3> DEFINE t == [s EXCEPT !.at = "pin", !.proven = TRUE, !.active = s.env]
    <3>1. t \in Resolvers
      BY <1>1, ResolverTypes
    <3>2. res' = [res EXCEPT ![n] = t]
      BY <2>3 DEF ResolveEnv
    <3> HIDE DEF t
    <3>3. QED
      BY <1>1, <3>1, <3>2
  <2>4. CASE ResolvePin(n)
    <3> DEFINE t == IF s.env = s.active THEN NoResolver ELSE [s EXCEPT !.at = "rest"]
    <3>1. t \in Resolvers
      BY <1>1, ResolverTypes
    <3>2. res' = [res EXCEPT ![n] = t]
      BY <2>4 DEF ResolvePin
    <3> HIDE DEF t
    <3>3. QED
      BY <1>1, <3>1, <3>2
  <2>5. QED
    BY <2>1, <2>2, <2>3, <2>4 DEF Resolve
<1>5. UNCHANGED <<pending, wrapper, loaded, notified, sup, op, set, platform, faults>>
  BY DEF Resolve, ResolvePending, ResolveActive, ResolveEnv, ResolvePin, volume
<1>6. QED
  BY <1>1, <1>3, <1>4, <1>5 DEF Types, set, platform

\* A keyfile that is handed over is one a peer runs with.
LEMMA HandedKeyfiles ==
  ASSUME TypeInv, NEW n \in Nodes, NEW passwords, NEW keyfile \in Handed(n, passwords)
  PROVE  keyfile \in Keyfile /\ \E m \in Nodes : keyfile = loaded[m]
<1>1. PICK m \in Nodes : keyfile = loaded[m] /\ wrapper[m] = "up"
  BY DEF Handed
<1>2. loaded[m] \in Keyfiles /\ loaded[m] # NoKey
  BY <1>1, TypesAreTypeOK DEF TypeInv, Types, Quiet
<1>3. QED
  BY <1>1, <1>2 DEF Keyfiles

LEMMA RestartTypes ==
  ASSUME TypeInv, NEW n \in Nodes, Crash(n) \/ Boot(n) \/ Render(n)
  PROVE  Types'
<1>1. Types /\ pin \in [Nodes -> Pins] /\ pin[n] \in Pins /\ loaded \in [Nodes -> Keyfiles]
  BY TypesAreTypeOK DEF TypeInv, Types
<1>2. CASE Crash(n)
  <2>1. op' \in [Nodes -> Requests] /\ sup' \in [Nodes -> Watches] /\ res' \in [Nodes -> Resolvers]
    BY <1>1, <1>2, IdleOp, WatchTypes, ResolverTypes DEF Types, Crash
  <2>2. loaded' \in [Nodes -> Keyfiles] /\ mongod' \in [Nodes -> Keyfiles]
    BY <1>1, <1>2 DEF Types, Crash, Keyfiles
  <2>3. notified' \in [Nodes -> BOOLEAN]
    BY <1>1, <1>2 DEF Types, Crash
  <2>4. wrapper' \in [Nodes -> {"down", "rendering", "up"}]
    BY <1>1, <1>2 DEF Types, Crash
  <2>5. primary' \in Nodes \cup {NoNode} /\ faults' \in 0..MaxFaults
    BY <1>1, <1>2, BoundAssumption DEF Types, Crash
  <2>6. QED
    BY <1>1, <1>2, <2>1, <2>2, <2>3, <2>4, <2>5 DEF Types, Crash, volume, platform
<1>3. CASE Boot(n)
  <2>1. wrapper' \in [Nodes -> {"down", "rendering", "up"}]
    BY <1>1, <1>3 DEF Types, Boot
  <2>2. pin' \in [Nodes -> Pins]
    <3>1. CASE UNCHANGED pin
      BY <1>1, <3>1
    <3>2. CASE ~UNCHANGED pin
      <4>1. PICK keyfile \in Handed(n, Candidates(n)) : WritePin(n, pin[n].password, keyfile)
        BY <1>3, <3>2 DEF Boot
      <4>2. keyfile \in Keyfile /\ pin[n].password \in Password
        BY <1>1, HandedKeyfiles, PinTypes
      <4>3. QED
        BY <1>1, <4>1, <4>2, PinWritten
    <3>3. QED
      BY <3>1, <3>2
  <2>3. QED
    BY <1>1, <1>3, <2>1, <2>2 DEF Types, Boot, set, platform
<1>4. CASE Render(n)
  <2> DEFINE s == [at |-> "rest", active |-> pin[n].password, proven |-> FALSE,
                   env |-> variable, keyfile |-> pin[n].keyfile]
  <2>1. pin[n].keyfile \in Keyfiles /\ pin[n].password \in Password /\ variable \in Password
    BY <1>1, PinTypes DEF Types, Keyfiles
  <2>2. s \in Resolvers
    BY <2>1, ResolverTypes
  <2>3. res' = [res EXCEPT ![n] = s]
    BY <1>4 DEF Render
  <2> HIDE DEF s
  <2>4. res' \in [Nodes -> Resolvers]
    BY <1>1, <2>2, <2>3 DEF Types
  <2>5. loaded' \in [Nodes -> Keyfiles] /\ mongod' \in [Nodes -> Keyfiles]
        /\ wrapper' \in [Nodes -> {"down", "rendering", "up"}]
    BY <1>1, <1>4, <2>1 DEF Types, Render
  <2>6. QED
    BY <1>1, <1>4, <2>4, <2>5 DEF Types, Render, volume, platform
<1>5. QED
  BY <1>2, <1>3, <1>4

LEMMA SetTypes ==
  ASSUME TypeInv, NEW n \in Nodes, Elect(n) \/ Lapse \/ Replicate(n)
  PROVE  Types'
<1>1. Types
  BY TypesAreTypeOK DEF TypeInv
<1>2. primary' \in Nodes \cup {NoNode}
  BY <1>1 DEF Types, Elect, Lapse, Replicate
<1>3. root' \in [Nodes -> 0..MaxRotations]
  BY <1>1 DEF Types, Elect, Lapse, Replicate
<1>4. UNCHANGED <<volume, process, mongod, platform, faults>>
  BY DEF Elect, Lapse, Replicate
<1>5. QED
  BY <1>1, <1>2, <1>3, <1>4 DEF Types, volume, process, platform

LEMMA PlatformTypes ==
  ASSUME TypeInv, Proceed \/ Repeat \/ TurnBack
  PROVE  Types'
<1>1. Types
  BY TypesAreTypeOK DEF TypeInv
<1>2. UNCHANGED <<volume, process, set, faults>> /\ done' = {} /\ turn' = NoNode
  BY DEF Proceed, Repeat, TurnBack
<1>3. phase' \in PhaseNames
  BY <1>1, NextPhase DEF Proceed, Repeat, TurnBack, Types, PhaseNames
<1>4. rotation' \in 1..MaxRotations
  BY <1>1, BoundAssumption DEF Proceed, Repeat, TurnBack, Types
<1>5. variable' \in Password
  BY <1>1, Passwords DEF Proceed, Repeat, TurnBack, Types
<1>6. QED
  BY <1>1, <1>2, <1>3, <1>4, <1>5 DEF Types, volume, process, set

LEMMA TypesStep ==
  ASSUME TypeInv, Next
  PROVE  TypeOK'
<1>1. Types'
  BY RequestTypesStep, OperationTypes, SuperviseTypes, ResolveTypes, RestartTypes, SetTypes,
     PlatformTypes, NodeAssumption DEF Next, NodeStep
<1>2. QED
  BY <1>1, TypesAreTypeOKNext

-----------------------------------------------------------------------------
(* Every step keeps the order of the requests.                             *)

\* Requests go on or end; none begins.
Lessens ==
  \A m \in Nodes :
    op'[m].at # "idle" =>
      /\ op[m].at # "idle"
      /\ op'[m].phase = op[m].phase /\ op'[m].r = op[m].r /\ op'[m].asked = op[m].asked

\* Every step but the platform's and those that begin a request.
Working(n) ==
  \/ Operation(n) \/ Drop(n) \/ Supervise(n) \/ HandoffFails(n) \/ Resolve(n)
  \/ Crash(n) \/ Boot(n) \/ Render(n) \/ Elect(n) \/ Lapse \/ Replicate(n)

LEMMA OperationGoesOn ==
  ASSUME TypeInv, NEW n \in Nodes, Operation(n) \/ Drop(n)
  PROVE  Lessens
<1>1. op \in [Nodes -> Requests] /\ NoOp.at = "idle"
  BY TypesAreTypeOK, IdleOp DEF TypeInv, Types
<1>2. Fail(n) \/ \E a \in Stages : Goto(n, a)
  BY OperationOp
<1>3. CASE Drop(n)
  BY <1>1, <1>3, Failed DEF Drop, Lessens
<1>4. CASE Operation(n)
  <2>1. op[n].at # "idle"
    BY <1>4 DEF Operation, Prepare, Database, Acknowledged, Member, MemberPin, Key, KeyCheck,
       KeyPin, KeyLoaded, KeyRefused, Verify, VerifyPasswords, Reply, Holds
  <2>2. QED
    BY <1>1, <1>2, <2>1, Gone, Failed DEF Lessens
<1>5. QED
  BY <1>3, <1>4

LEMMA WorkingLessens ==
  ASSUME TypeInv, NEW n \in Nodes, Working(n)
  PROVE  Lessens
<1>1. CASE Operation(n) \/ Drop(n)
  BY <1>1, OperationGoesOn
<1>2. CASE Crash(n)
  <2>1. op \in [Nodes -> Requests] /\ NoOp.at = "idle"
    BY TypesAreTypeOK, IdleOp DEF TypeInv, Types
  <2>2. QED
    BY <1>2, <2>1 DEF Crash, Lessens
<1>3. CASE ~(Operation(n) \/ Drop(n) \/ Crash(n))
  <2>1. UNCHANGED op
    BY <1>3 DEF Working, Supervise, Notice, Handoff, StopMongod, SpawnMongod, HandoffFails,
       Resolve, ResolvePending, ResolveActive, ResolveEnv, ResolvePin, Boot, Render,
       Elect, Lapse, Replicate, process
  <2>2. QED
    BY <2>1 DEF Lessens
<1>4. QED
  BY <1>1, <1>2, <1>3

LEMMA QuietStep ==
  ASSUME TypeInv, TypeOK', Next
  PROVE  \A m \in Nodes : Quiet(m)'
<1>1. Types /\ Types' /\ (\A m \in Nodes : Quiet(m)) /\ NoKey \notin Keyfile
  BY TypesAreTypeOK, TypesAreTypeOKNext, KeyfileKeys DEF TypeInv
<1>2. /\ op \in [Nodes -> Requests] /\ sup \in [Nodes -> Watches]
      /\ wrapper \in [Nodes -> {"down", "rendering", "up"}]
      /\ loaded \in [Nodes -> Keyfiles] /\ mongod \in [Nodes -> Keyfiles]
      /\ \A m \in Nodes : pin[m].keyfile \in Keyfile /\ pin[m].keyfile # NoKey
  BY <1>1, PinTypes DEF Types
<1>3. ASSUME NEW n \in Nodes, Send(n) \/ Reconcile(n) PROVE \A m \in Nodes : Quiet(m)'
  <2>1. /\ wrapper[n] = "up" /\ \A m \in Nodes : m # n => op'[m] = op[m]
        /\ UNCHANGED <<wrapper, loaded, sup, mongod>>
    BY <1>2, <1>3 DEF Send, Reconcile, set
  <2>2. QED
    BY <1>1, <2>1 DEF Quiet
<1>4. ASSUME Lessens, UNCHANGED <<wrapper, loaded, sup, mongod>> PROVE \A m \in Nodes : Quiet(m)'
  BY <1>1, <1>4 DEF Quiet, Lessens
<1>5. ASSUME NEW n \in Nodes, Notice(n) PROVE \A m \in Nodes : Quiet(m)'
  <2>1. UNCHANGED <<wrapper, loaded, op, mongod>> /\ wrapper[n] = "up"
    BY <1>5 DEF Notice, set
  <2>2. /\ (sup'[n].at = "handoff" /\ sup'[n].target # NoKey) \/ sup'[n] = sup[n]
        /\ \A m \in Nodes : m # n => sup'[m] = sup[m]
    BY <1>2, <1>5, NoticeWatch
  <2>3. QED
    BY <1>1, <2>1, <2>2 DEF Quiet
<1>6. ASSUME NEW n \in Nodes, Handoff(n) \/ HandoffFails(n) PROVE \A m \in Nodes : Quiet(m)'
  <2>1. UNCHANGED <<wrapper, loaded, op, mongod>> /\ sup[n].at # "idle"
    BY <1>6 DEF Handoff, HandoffFails, set
  <2>2. /\ \/ sup'[n].at # "idle" /\ sup'[n].target = sup[n].target
           \/ sup'[n].at = "idle" /\ sup'[n].target = NoKey
        /\ \A m \in Nodes : m # n => sup'[m] = sup[m]
    BY <1>2, <1>6, Watched, WatchEnds DEF Handoff, HandoffFails
  <2>3. QED
    BY <1>1, <2>1, <2>2 DEF Quiet
<1>7. ASSUME NEW n \in Nodes, StopMongod(n) PROVE \A m \in Nodes : Quiet(m)'
  <2>1. UNCHANGED <<wrapper, loaded, op>> /\ mongod' = [mongod EXCEPT ![n] = NoKey]
        /\ sup[n].at # "idle"
    BY <1>7 DEF StopMongod
  <2>2. /\ sup'[n].at # "idle" /\ sup'[n].target = sup[n].target
        /\ \A m \in Nodes : m # n => sup'[m] = sup[m]
    BY <1>2, <1>7, Watched DEF StopMongod
  <2>3. QED
    BY <1>1, <1>2, <2>1, <2>2 DEF Quiet
<1>8. ASSUME NEW n \in Nodes, SpawnMongod(n) PROVE \A m \in Nodes : Quiet(m)'
  <2>1. /\ UNCHANGED <<wrapper, op>> /\ sup[n].at # "idle"
        /\ mongod' = [mongod EXCEPT ![n] = sup[n].target]
        /\ loaded' = [loaded EXCEPT ![n] = sup[n].target]
    BY <1>8 DEF SpawnMongod
  <2>2. /\ sup'[n].at = "idle" /\ sup'[n].target = NoKey
        /\ \A m \in Nodes : m # n => sup'[m] = sup[m]
    BY <1>2, <1>8, WatchEnds DEF SpawnMongod
  <2>3. QED
    BY <1>1, <1>2, <2>1, <2>2 DEF Quiet
<1>9. ASSUME NEW n \in Nodes, Crash(n) PROVE \A m \in Nodes : Quiet(m)'
  BY <1>1, <1>2, <1>9, IdleOp, WatchTypes DEF Quiet, Crash
<1>10. ASSUME NEW n \in Nodes, Boot(n) PROVE \A m \in Nodes : Quiet(m)'
  BY <1>1, <1>2, <1>10 DEF Quiet, Boot, set
<1>11. ASSUME NEW n \in Nodes, Render(n) PROVE \A m \in Nodes : Quiet(m)'
  BY <1>1, <1>2, <1>11 DEF Quiet, Render
<1>12. ASSUME NEW n \in Nodes, Operation(n) \/ Drop(n) PROVE \A m \in Nodes : Quiet(m)'
  <2>1. UNCHANGED <<wrapper, loaded, sup, mongod>>
    BY <1>12 DEF Operation, Drop, Prepare, Database, Acknowledged, Member, MemberPin, Key, KeyCheck,
       KeyPin, KeyLoaded, KeyRefused, Verify, VerifyPasswords, Reply, set
  <2>2. QED
    BY <1>4, <1>12, <2>1, OperationGoesOn
<1>13. ASSUME NEW n \in Nodes, Resolve(n) \/ Elect(n) \/ Replicate(n) PROVE \A m \in Nodes : Quiet(m)'
  <2>1. UNCHANGED <<wrapper, loaded, sup, mongod, op>>
    BY <1>13 DEF Resolve, ResolvePending, ResolveActive, ResolveEnv, ResolvePin, Elect, Replicate,
       set, process
  <2>2. QED
    BY <1>1, <2>1 DEF Quiet
<1>14. ASSUME Proceed \/ Repeat \/ TurnBack \/ Lapse PROVE \A m \in Nodes : Quiet(m)'
  <2>1. UNCHANGED <<wrapper, loaded, sup, mongod, op>>
    BY <1>14 DEF Proceed, Repeat, TurnBack, Lapse, set, process
  <2>2. QED
    BY <1>1, <2>1 DEF Quiet
<1>15. QED
  BY <1>3, <1>5, <1>6, <1>7, <1>8, <1>9, <1>10, <1>11, <1>12, <1>13, <1>14
  DEF Next, NodeStep, Supervise

LEMMA WorkingOrder ==
  ASSUME TypeInv, NEW n \in Nodes, Working(n)
  PROVE  \A m \in Nodes : InTime(m)' /\ InOrder(m)'
<1>1. Lessens
  BY WorkingLessens
<1>2. UNCHANGED <<rotation, phase>>
  BY DEF Working, Operation, Prepare, Database, Acknowledged, Member, MemberPin, Key, KeyCheck,
     KeyPin, KeyLoaded, KeyRefused, Verify, VerifyPasswords, Reply, Drop, Supervise, Notice, Handoff,
     StopMongod, SpawnMongod, HandoffFails, Resolve, ResolvePending, ResolveActive, ResolveEnv,
     ResolvePin, Crash, Boot, Render, Elect, Lapse, Replicate, platform
<1>3. done' = done \/ (done' = done \cup {n} /\ op'[n].at = "idle")
  <2>1. CASE Reply(n)
    <3>1. op'[n].at = "idle"
      BY <2>1, TypesAreTypeOK, Failed DEF Reply, TypeInv, Types
    <3>2. QED
      BY <2>1, <3>1 DEF Reply
  <2>2. CASE Working(n) /\ ~Reply(n) /\ ~Operation(n)
    <3>1. done' = done
      BY <2>2 DEF Working, Drop, Supervise, Notice, Handoff, StopMongod, SpawnMongod, HandoffFails,
         Resolve, ResolvePending, ResolveActive, ResolveEnv, ResolvePin, Crash, Boot, Render,
         Elect, Lapse, Replicate, platform
    <3>2. QED
      BY <3>1
  <2>3. CASE Operation(n) /\ ~Reply(n)
    <3>1. done' = done
      BY <2>3 DEF Operation, Prepare, Database, Acknowledged, Member, MemberPin, Key, KeyCheck,
         KeyPin, KeyLoaded, KeyRefused, Verify, VerifyPasswords, platform
    <3>2. QED
      BY <3>1
  <2>4. QED
    BY <2>1, <2>2, <2>3
<1>4. \A m \in Nodes : InTime(m) /\ InOrder(m)
  BY DEF TypeInv
<1>5. QED
  BY <1>1, <1>2, <1>3, <1>4 DEF Lessens, InTime, InOrder, Live

LEMMA BegunOrder ==
  ASSUME TypeInv, NEW n \in Nodes, Send(n) \/ Reconcile(n)
  PROVE  \A m \in Nodes : InTime(m)' /\ InOrder(m)'
<1>1. UNCHANGED <<rotation, phase, done>> /\ op \in [Nodes -> Requests] /\ rotation \in 1..MaxRotations
  BY TypesAreTypeOK DEF Send, Reconcile, platform, TypeInv, Types
<1>2. \A m \in Nodes : InTime(m) /\ InOrder(m)
  BY DEF TypeInv
<1>3. CASE Send(n)
  <2>1. /\ op'[n].at = "start" /\ op'[n].phase = phase /\ op'[n].r = rotation /\ op'[n].asked
        /\ \A m \in Nodes : m # n => op'[m] = op[m]
    BY <1>1, <1>3 DEF Send
  <2>2. \A m \in Nodes : Live(m)' => op'[m].r \in 1..rotation
    BY <1>1, <1>2, <2>1, BoundAssumption DEF Live, InTime
  <2>3. \A m \in Nodes : InTime(m)'
    BY <1>1, <1>2, <2>1, <2>2 DEF Live, InTime
  <2>4. ASSUME NEW m \in Nodes, Live(m)', op'[m].phase # "prepare", NEW k \in Nodes, Live(k)'
        PROVE  op'[m].r <= op'[k].r
    <3>1. op'[m].r \in 1..rotation /\ op'[k].r \in 1..rotation
      BY <2>2, <2>4
    <3>2. CASE k = n
      BY <1>1, <2>1, <3>1, <3>2, BoundAssumption
    <3>3. CASE k # n /\ m # n
      BY <1>2, <2>1, <2>4, <3>3 DEF InOrder, Live
    <3>4. CASE k # n /\ m = n
      <4>1. ~(op[k].r < rotation) /\ op[k] = op'[k]
        BY <1>2, <2>1, <2>4, <3>4 DEF InTime, Live
      <4>2. QED
        BY <1>1, <2>1, <3>1, <3>4, <4>1, BoundAssumption
    <3>5. QED
      BY <3>2, <3>3, <3>4
  <2>5. QED
    BY <2>3, <2>4 DEF InOrder
<1>4. CASE Reconcile(n)
  <2>1. /\ op'[n].phase = "member" /\ ~op'[n].asked
        /\ \A m \in Nodes : m # n => op'[m] = op[m]
    BY <1>1, <1>4 DEF Reconcile
  <2>2. QED
    BY <1>1, <1>2, <2>1 DEF InTime, InOrder, Live
<1>5. QED
  BY <1>3, <1>4

LEMMA PlatformOrder ==
  ASSUME TypeInv, Proceed \/ Repeat \/ TurnBack
  PROVE  \A m \in Nodes : InTime(m)' /\ InOrder(m)'
<1>1. UNCHANGED op /\ done' = {} /\ rotation \in 1..MaxRotations
  BY TypesAreTypeOK DEF Proceed, Repeat, TurnBack, process, TypeInv, Types
<1>2. \A m \in Nodes : InTime(m) /\ InOrder(m)
  BY DEF TypeInv
<1>3. \A m \in Nodes : InOrder(m)'
  BY <1>1, <1>2 DEF InOrder, Live
<1>4. CASE Proceed
  <2>1. rotation' = rotation /\ (phase = "prepare" => done = Nodes)
    BY <1>4 DEF Proceed
  <2>2. \A m \in Nodes : Live(m) => ~(op[m].r < rotation)
    BY <1>2, <2>1 DEF InTime
  <2>3. QED
    BY <1>1, <1>2, <1>3, <2>1, <2>2 DEF InTime, Live
<1>5. CASE Repeat
  BY <1>1, <1>2, <1>3, <1>5 DEF Repeat, InTime, Live
<1>6. CASE TurnBack
  BY <1>1, <1>2, <1>3, <1>6, BoundAssumption DEF TurnBack, InTime, Live
<1>7. QED
  BY <1>4, <1>5, <1>6

LEMMA RootsStep ==
  ASSUME TypeInv, TypeOK', Next
  PROVE  RootsAsked'
<1>1. /\ root \in [Nodes -> 0..MaxRotations] /\ op \in [Nodes -> Requests]
      /\ rotation \in 1..MaxRotations /\ RootsAsked
  BY TypesAreTypeOK DEF TypeInv, Types
<1>2. ASSUME NEW n \in Nodes, Working(n), UNCHANGED <<root, rotation>> PROVE RootsAsked'
  <2>1. Lessens
    BY <1>2, WorkingLessens
  <2>2. QED
    BY <1>1, <1>2, <2>1 DEF RootsAsked, Lessens, Live
<1>3. ASSUME NEW n \in Nodes, Database(n) PROVE RootsAsked'
  <2>1. CASE root' = root
    BY <1>2, <1>3, <2>1 DEF Working, Operation, Database, platform
  <2>2. CASE root' # root
    <3>1. /\ op[n].at # "idle" /\ op[n].phase = "database" /\ Works(n, Current(n))
          /\ root' = [root EXCEPT ![n] = @ + 1] /\ UNCHANGED rotation
      BY <1>3, <2>2 DEF Database, Holds, platform
    <3>2. root'[n] = root[n] + 1 /\ root'[n] <= op[n].r /\ op[n].r <= rotation
      BY <1>1, <3>1, NextChange, LiveRequest
    <3>3. \A k \in Nodes : Live(k) => op[n].r <= op[k].r /\ op[k].r \in 1..rotation
      BY <3>1, LiveRequest DEF TypeInv, InTime
    <3>4. Lessens
      BY <1>3, WorkingLessens DEF Working, Operation
    <3>5. op[n].r \in 1..MaxRotations
      BY <3>1, LiveRequest
    <3>6. root'[n] <= rotation /\ \A k \in Nodes : Live(k) => root'[n] <= op[k].r
      BY <1>1, <3>2, <3>3, <3>5, BoundAssumption
    <3>7. \A m \in Nodes : m # n => root'[m] = root[m]
      BY <3>1
    <3>8. QED
      BY <1>1, <3>1, <3>4, <3>6, <3>7 DEF RootsAsked, Lessens, Live
  <2>3. QED
    BY <2>1, <2>2
<1>4. ASSUME NEW n \in Nodes, Replicate(n) PROVE RootsAsked'
  <2>1. primary \in Nodes /\ UNCHANGED <<op, rotation>> /\ root' = [root EXCEPT ![n] = root[primary]]
    BY <1>4, TypesAreTypeOK DEF Replicate, process, platform, TypeInv, Types
  <2>2. QED
    BY <1>1, <2>1 DEF RootsAsked, Live
<1>5. ASSUME NEW n \in Nodes, Send(n) PROVE RootsAsked'
  <2>1. /\ op'[n].r = rotation /\ UNCHANGED <<root, rotation>>
        /\ \A m \in Nodes : m # n => op'[m] = op[m]
    BY <1>1, <1>5 DEF Send, set
  <2>2. QED
    BY <1>1, <2>1 DEF RootsAsked, Live
<1>6. ASSUME NEW n \in Nodes, Reconcile(n) PROVE RootsAsked'
  <2>1. /\ ~op'[n].asked /\ UNCHANGED <<root, rotation>>
        /\ \A m \in Nodes : m # n => op'[m] = op[m]
    BY <1>1, <1>6 DEF Reconcile, set, platform
  <2>2. QED
    BY <1>1, <2>1 DEF RootsAsked, Live
<1>7. ASSUME Proceed \/ Repeat \/ TurnBack PROVE RootsAsked'
  <2>1. UNCHANGED <<root, op>> /\ (rotation' = rotation \/ rotation' = rotation + 1)
    BY <1>7 DEF Proceed, Repeat, TurnBack, set, process
  <2>2. \A m \in Nodes : root[m] \in Nat /\ root[m] <= rotation
    BY <1>1, BoundAssumption DEF RootsAsked
  <2>3. \A m \in Nodes : root[m] <= rotation'
    BY <1>1, <2>1, <2>2, BoundAssumption
  <2>4. QED
    BY <1>1, <2>1, <2>3 DEF RootsAsked, Live
<1>8. ASSUME NEW n \in Nodes, Working(n), ~Database(n), ~Replicate(n) PROVE RootsAsked'
  <2>1. UNCHANGED <<root, rotation>>
    BY <1>8 DEF Working, Operation, Prepare, Acknowledged, Member, MemberPin, Key, KeyCheck,
       KeyPin, KeyLoaded, KeyRefused, Verify, VerifyPasswords, Reply, Drop, Supervise, Notice, Handoff,
       StopMongod, SpawnMongod, HandoffFails, Resolve, ResolvePending, ResolveActive, ResolveEnv,
       ResolvePin, Crash, Boot, Render, Elect, Lapse, platform, set
  <2>2. QED
    BY <1>2, <1>8, <2>1
<1>9. QED
  BY <1>3, <1>4, <1>5, <1>6, <1>7, <1>8, NodeAssumption DEF Next, NodeStep, Working

LEMMA TypeInvStep == TypeInv /\ [Next]_vars => TypeInv'
<1> SUFFICES ASSUME TypeInv, [Next]_vars PROVE TypeInv'
  OBVIOUS
<1>1. CASE Next
  <2>1. TypeOK'
    BY <1>1, TypesStep
  <2>2. (\A m \in Nodes : Quiet(m)') /\ RootsAsked'
    BY <1>1, <2>1, QuietStep, RootsStep
  <2>3. \A m \in Nodes : InTime(m)' /\ InOrder(m)'
    BY <1>1, WorkingOrder, BegunOrder, PlatformOrder, NodeAssumption DEF Next, NodeStep, Working
  <2>4. QED
    BY <2>1, <2>2, <2>3 DEF TypeInv
<1>2. CASE UNCHANGED vars
  BY <1>2, PhaseSet DEF TypeInv, TypeOK, Quiet, InTime, InOrder, RootsAsked, Live, vars, volume, process, set,
     platform
<1>3. QED
  BY <1>1, <1>2

LEMMA TypeInvInit == Init => TypeInv
<1> SUFFICES ASSUME Init PROVE TypeInv
  OBVIOUS
<1>1. Types
  <2>1. [password |-> 1, keyfile |-> <<1>>] \in Pins
    BY DEF Pins, Password, Keyfile
  <2>2. 1 \in 1..MaxRotations /\ 0 \in 0..MaxRotations /\ 0 \in 0..MaxFaults
    BY BoundAssumption
  <2>3. pin \in [Nodes -> Pins]
    BY <2>1 DEF Init
  <2>4. QED
    BY <2>2, <2>3, IdleOp, WatchTypes, ResolverTypes
    DEF Init, Types, Keyfiles, Keyfile, PhaseNames, KeyPhases, Password
<1>2. /\ \A m \in Nodes : /\ op[m].at = "idle" /\ sup[m].at = "idle" /\ sup[m].target = NoKey
                          /\ wrapper[m] = "up" /\ loaded[m] = <<1>> /\ mongod[m] = <<1>>
                          /\ root[m] = 0
      /\ rotation = 1
  BY IdleOp, WatchTypes DEF Init
<1>3. \A m \in Nodes : Quiet(m)
  BY <1>2, KeysOfOne DEF Quiet
<1>4. (\A m \in Nodes : InTime(m) /\ InOrder(m)) /\ RootsAsked
  BY <1>2 DEF InTime, InOrder, RootsAsked, Live
<1>5. QED
  BY <1>1, <1>3, <1>4, TypesAreTypeOK DEF TypeInv

\* The variables are always of the types TypeOK declares: in particular nobody
\* is handed an empty keyfile, and no password change is applied that the
\* rotation has not asked for.
THEOREM TypeCorrect == Spec => []TypeOK
<1>1. TypeInv => TypeOK
  BY DEF TypeInv
<1>2. QED
  BY <1>1, TypeInvInit, TypeInvStep, PTL DEF Spec

-----------------------------------------------------------------------------
(* A rotation and its way back.                                            *)

\* The keyfiles of the two directions.
LEMMA Turns ==
  /\ TargetKeyfile(1, TRUE) = <<1, 2>> /\ TargetKeyfile(1, FALSE) = <<2>>
  /\ TargetKeyfile(2, TRUE) = <<2, 1>>
  /\ TargetKeyfile(2, TRUE) \notin {TargetKeyfile(1, TRUE), TargetKeyfile(1, FALSE), <<1>>, NoKey}
  /\ TargetKeyfile(1, TRUE) \notin {<<1>>, NoKey}
<1>1. Pw(0) = 1 /\ Pw(1) = 2 /\ Pw(2) = 1
  BY DEF Pw
<1>2. /\ TargetKeyfile(1, TRUE) = <<1, 2>> /\ TargetKeyfile(1, FALSE) = <<2>>
      /\ TargetKeyfile(2, TRUE) = <<2, 1>>
  BY <1>1 DEF TargetKeyfile, Request
<1>3. /\ <<2, 1>> # <<1, 2>> /\ <<2, 1>> # <<2>> /\ <<2, 1>> # <<1>> /\ <<1, 2>> # <<1>>
      /\ <<2, 1>> # << >> /\ <<1, 2>> # << >>
  OBVIOUS
<1>4. QED
  BY <1>2, <1>3 DEF NoKey

LEMMA InUseKeyfiles ==
  ASSUME TypeInv, NEW n \in Nodes
  PROVE  /\ InUse(n) \subseteq Keyfile
         /\ pin[n].keyfile \in InUse(n)
         /\ loaded[n] # NoKey => loaded[n] \in InUse(n)
         /\ sup[n].target # NoKey => sup[n].target \in InUse(n)
BY TypesAreTypeOK, PinTypes, WatchTypes, KeyfileKeys DEF TypeInv, Types, InUse, Keyfiles

LEMMA Rotations ==
  ASSUME TypeInv
  PROVE  /\ rotation \in Nat /\ rotation > 0 /\ rotation <= MaxRotations
         /\ \A n \in Nodes : Live(n) => op[n].r \in Nat /\ op[n].r > 0 /\ op[n].r <= rotation
BY TypesAreTypeOK, BoundAssumption DEF TypeInv, Types, InTime

\* A keyfile is kept, dropped, or handed on from the pin to the restart to mongod.
HandsOn(n) ==
  /\ pin'[n].keyfile = pin[n].keyfile
  /\ \/ loaded'[n] = loaded[n] /\ sup'[n].target \in {sup[n].target, NoKey, pin[n].keyfile}
     \/ loaded'[n] \in {NoKey, pin[n].keyfile, sup[n].target} /\ sup'[n].target = NoKey

LEMMA HandedOn ==
  ASSUME NEW n \in Nodes, HandsOn(n)
  PROVE  /\ InUse(n)' \subseteq InUse(n)
         /\ \A r \in Nat : r > 0 /\ Follows(n, r) => Follows(n, r)'
<1>1. InUse(n)' \subseteq InUse(n)
  BY DEF HandsOn, InUse
<1>2. ASSUME NEW r \in Nat, r > 0, Follows(n, r) PROVE Follows(n, r)'
  <2> DEFINE both == TargetKeyfile(r, TRUE)
  <2>1. Pw(r) \in KeysOf(both) /\ both # NoKey
    BY <1>2, Targets, Passwords, KeyfileKeys
  <2> HIDE DEF both
  <2>2. ASSUME loaded'[n] = both PROVE Lists(n, Pw(r))'
    <3>1. CASE loaded'[n] = loaded[n]
      BY <1>1, <1>2, <2>2, <3>1 DEF Follows, Lists, both
    <3>2. CASE loaded'[n] # loaded[n]
      <4>1. /\ sup'[n].target = NoKey /\ pin'[n].keyfile = pin[n].keyfile
            /\ both = pin[n].keyfile \/ both = sup[n].target
        BY <2>1, <2>2, <3>2 DEF HandsOn
      <4>2. InUse(n)' \subseteq {pin[n].keyfile, both}
        BY <2>2, <4>1 DEF InUse
      <4>3. Pw(r) \in KeysOf(pin[n].keyfile)
        BY <1>2, <2>1, <4>1 DEF Follows, both
      <4>4. QED
        BY <2>1, <4>2, <4>3 DEF Lists
    <3>3. QED
      BY <3>1, <3>2
  <2>3. ASSUME sup'[n].target = both PROVE Pw(r) \in KeysOf(pin'[n].keyfile)
    BY <1>2, <2>1, <2>3 DEF HandsOn, Follows, both
  <2>4. QED
    BY <2>2, <2>3 DEF Follows, both
<1>3. QED
  BY <1>1, <1>2

\* Every step that writes no new keyfile.
LEMMA PassedOn ==
  ASSUME KeyInv, TypeInv', Lessens, \A m \in Nodes : HandsOn(m),
         UNCHANGED <<rotation, phase>>,
         \A m \in Nodes : AtStage(m)',
         \A m \in Nodes :
           op'[m].at = "reply" /\ op[m].phase = "keyPrepare" =>
             op[m].at = "reply" \/ Lists(m, Pw(op[m].r)),
         \A m \in done' \ done : m \in Nodes /\ phase = "keyPrepare" => Lists(m, Pw(rotation))
  PROVE  KeyInv'
<1>1. \A m \in Nodes : InUse(m)' \subseteq InUse(m)
  BY HandedOn
<1>2. \A key : \A m \in Nodes : Lists(m, key) => Lists(m, key)'
  BY <1>1 DEF Lists
<1>3. Agreeing'
  BY <1>1 DEF KeyInv, Agreeing, Overlap
<1>4. ASSUME NEW n \in Nodes
      PROVE  (Follows(n, rotation) /\ (Live(n) => Follows(n, op[n].r)))'
  <2>1. Live(n)' => Live(n) /\ op'[n].r = op[n].r
    BY DEF Lessens, Live
  <2>2. /\ Follows(n, rotation) /\ (Live(n) => Follows(n, op[n].r))
        /\ rotation \in Nat /\ rotation > 0 /\ (Live(n) => op[n].r \in Nat /\ op[n].r > 0)
    BY Rotations DEF KeyInv
  <2>3. (rotation' = rotation) /\ Follows(n, rotation)'
    BY <2>2, HandedOn DEF Follows
  <2>4. QED
    BY <2>1, <2>2, <2>3, HandedOn DEF Follows
<1>5. \A n \in Nodes : NotYetBack(n)'
  <2>1. \A n \in Nodes : NotYetBack(n)
    BY DEF KeyInv
  <2>2. QED
    BY <1>1, <2>1 DEF NotYetBack, Lessens, Live
<1>6. \A n \in Nodes : Passes(n)'
  <2>1. \A n \in Nodes : Passes(n)
    BY DEF KeyInv
  <2>2. QED
    BY <1>2, <2>1 DEF Passes, Lessens
<1>7. QED
  BY <1>3, <1>4, <1>5, <1>6 DEF KeyInv

\* The keyfile of a pass goes with whatever anybody has.
LEMMA PassAgrees ==
  ASSUME KeyInv, NEW n \in Nodes, op[n].at = "pinKey", NEW m \in Nodes, NEW l \in InUse(m)
  PROVE  Overlap(Target(n), l)
<1>1. op[n].phase \in KeyPhases /\ Passes(n)
  BY DEF KeyInv, AtStage
<1>2. op[n].r \in Nat /\ op[n].r > 0
  BY <1>1, LiveRequest DEF KeyInv, KeyPhases
<1>3. KeysOf(l) # {} /\ KeysOf(l) \subseteq Password
  BY InUseKeyfiles, KeyfileKeys DEF KeyInv
<1>4. CASE op[n].phase = "keyPrepare"
  <2>1. KeysOf(Target(n)) = Password
    BY <1>2, <1>4, Targets DEF Target
  <2>2. QED
    BY <1>3, <2>1 DEF Overlap
<1>5. CASE op[n].phase = "keyCommit"
  <2>1. KeysOf(Target(n)) = {Pw(op[n].r)}
    BY <1>2, <1>5, Targets DEF Target
  <2>2. Pw(op[n].r) \in KeysOf(l)
    BY <1>1, <1>5 DEF Passes, Lists
  <2>3. QED
    BY <2>1, <2>2 DEF Overlap
<1>6. QED
  BY <1>1, <1>4, <1>5 DEF KeyPhases

LEMMA KeyPinStep ==
  ASSUME KeyInv, TypeInv', MaxRotations <= 2, NEW n \in Nodes, KeyPin(n)
  PROVE  KeyInv'
<1> DEFINE r == op[n].r
           new == Target(n)
<1>1. op[n].at = "pinKey" /\ op[n].phase \in KeyPhases /\ TypeInv
  BY DEF KeyPin, KeyInv, AtStage
<1>2. /\ Live(n) /\ r \in Nat /\ r > 0 /\ r <= rotation
      /\ \A k \in Nodes : Live(k) => r <= op[k].r
  BY <1>1, LiveRequest DEF KeyPhases
<1>3. r < rotation => phase = "prepare" /\ n \notin done
  BY <1>1, <1>2 DEF TypeInv, InTime
<1>4. rotation \in Nat /\ rotation > 0 /\ rotation <= 2
  BY <1>1, Rotations, BoundAssumption
<1>5. /\ new \in {TargetKeyfile(r, TRUE), TargetKeyfile(r, FALSE)}
      /\ new \in Keyfile /\ Pw(r) \in KeysOf(new)
  BY <1>2, Targets, Passwords DEF Target
<1>6. /\ pin'[n].keyfile = new /\ \A m \in Nodes : m # n => pin'[m] = pin[m]
      /\ UNCHANGED <<loaded, sup, rotation, phase, done>>
  <2>1. pin \in [Nodes -> Pins] /\ New(n) \in Password
    BY <1>1, <1>2, Passwords, TypesAreTypeOK DEF TypeInv, Types, New, Request
  <2>2. QED
    BY <1>5, <2>1, PinWritten DEF KeyPin, platform
<1>7. /\ op'[n].at = "wait" /\ op'[n].phase = op[n].phase /\ op'[n].r = r
      /\ op'[n].asked = op[n].asked /\ \A m \in Nodes : m # n => op'[m] = op[m]
  BY <1>1, TypesAreTypeOK, Gone DEF KeyPin, TypeInv, Types, Stages
<1> HIDE DEF new, r
<1>8. /\ InUse(n)' \subseteq InUse(n) \cup {new}
      /\ \A m \in Nodes : m # n => InUse(m)' = InUse(m)
  BY <1>6 DEF InUse
<1>9. ASSUME NEW m \in Nodes, NEW l \in InUse(m)' PROVE l \in InUse(m) \/ l = new
  BY <1>8, <1>9
<1>10. \A m \in Nodes : \A l \in InUse(m) : Overlap(new, l) /\ Overlap(l, new)
  BY <1>1, PassAgrees DEF new, Overlap
<1>11. Overlap(new, new)
  BY <1>5 DEF Overlap
<1>12. Agreeing'
  <2> SUFFICES ASSUME NEW a \in Nodes, NEW b \in Nodes, NEW k \in InUse(a)', NEW l \in InUse(b)'
               PROVE  KeysOf(k) \cap KeysOf(l) # {}
    BY DEF Agreeing, Overlap
  <2>1. CASE k = new \/ l = new
    BY <1>9, <1>10, <1>11, <2>1 DEF Overlap
  <2>2. CASE k # new /\ l # new
    BY <1>9, <2>2 DEF KeyInv, Agreeing, Overlap
  <2>3. QED
    BY <2>1, <2>2
<1>13. \A key : Lists(n, key) /\ key \in KeysOf(new) => Lists(n, key)'
  BY <1>8 DEF Lists
<1>14. \A key : \A m \in Nodes : m # n => (Lists(m, key)' <=> Lists(m, key))
  BY <1>8 DEF Lists
<1>15. Follows(n, r)'
  <2>1. Follows(n, r)
    BY <1>2 DEF KeyInv, r
  <2>2. r' = r
    BY <1>7 DEF r
  <2>3. QED
    BY <1>5, <1>6, <1>13, <2>1, <2>2 DEF Follows
<1>16. Follows(n, rotation)'
  <2>1. CASE r = rotation
    BY <1>6, <1>7, <1>15, <2>1 DEF Follows, r
  <2>2. CASE r # rotation
    <3>1. r = 1 /\ rotation = 2
      BY <1>2, <1>4, <2>2
    <3>2. TargetKeyfile(2, TRUE) \notin InUse(n)
      BY <1>2, <3>1 DEF KeyInv, NotYetBack, r
    <3>3. loaded[n] # TargetKeyfile(2, TRUE) /\ sup[n].target # TargetKeyfile(2, TRUE)
      BY <1>1, <3>2, Turns, InUseKeyfiles
    <3>4. QED
      BY <1>6, <3>1, <3>3 DEF Follows
  <2>3. QED
    BY <2>1, <2>2
<1>17. ASSUME NEW m \in Nodes
       PROVE  (Follows(m, rotation) /\ (Live(m) => Follows(m, op[m].r)))'
  <2>1. CASE m = n
    BY <1>7, <1>15, <1>16, <2>1 DEF Follows, r
  <2>2. CASE m # n
    <3>1. Follows(m, rotation) /\ (Live(m) => Follows(m, op[m].r))
      BY DEF KeyInv
    <3>2. QED
      BY <1>6, <1>7, <1>14, <2>2, <3>1 DEF Follows, Live
  <2>3. QED
    BY <2>1, <2>2
<1>18. ASSUME NEW m \in Nodes PROVE NotYetBack(m)' /\ AtStage(m)'
  <2>1. NotYetBack(m) /\ AtStage(m)
    BY DEF KeyInv
  <2>2. CASE m # n
    BY <1>6, <1>7, <1>8, <2>1, <2>2 DEF NotYetBack, AtStage, Live
  <2>3. CASE m = n
    <3>1. AtStage(n)'
      BY <1>1, <1>7 DEF AtStage
    <3>2. ASSUME rotation = 1 \/ r = 1 PROVE TargetKeyfile(2, TRUE) \notin InUse(n)'
      <4>1. r = 1
        BY <1>2, <1>4, <3>2
      <4>2. TargetKeyfile(2, TRUE) \notin InUse(n)
        BY <1>2, <2>1, <2>3, <4>1 DEF NotYetBack, r
      <4>3. new # TargetKeyfile(2, TRUE)
        BY <1>5, <4>1, Turns
      <4>4. QED
        BY <1>8, <4>2, <4>3
    <3>3. QED
      BY <1>6, <1>7, <2>3, <3>1, <3>2 DEF NotYetBack
  <2>4. QED
    BY <2>2, <2>3
<1>19. ASSUME NEW m \in Nodes PROVE Passes(m)'
  <2>1. Passes(m) /\ Passes(n)
    BY DEF KeyInv
  <2>2. ASSUME op'[m].at # "idle", op'[m].phase = "keyCommit", NEW k \in Nodes
        PROVE  Lists(k, Pw(op[m].r))'
    <3>1. op[m].at # "idle" /\ op[m].phase = "keyCommit" /\ op'[m].r = op[m].r
      BY <1>1, <1>7, <2>2 DEF r
    <3>2. Lists(k, Pw(op[m].r))
      BY <2>1, <3>1 DEF Passes
    <3>3. op[m].r = r
      <4>1. Live(m) /\ op[m].r \in Nat /\ op[m].r <= r
        BY <1>1, <1>2, <3>1, LiveRequest DEF r
      <4>2. QED
        BY <1>2, <4>1
    <3>4. QED
      BY <1>5, <1>13, <1>14, <3>1, <3>2, <3>3 DEF Lists
  <2>3. op'[m].at = "reply" => m # n
    BY <1>7
  <2>4. m = n /\ (n \in done \/ phase # "prepare") => r = rotation
    BY <1>2, <1>3, <1>4
  <2>5. phase = "keyPrepare" /\ m \in done => Lists(m, Pw(rotation))'
    BY <1>5, <1>6, <1>13, <1>14, <2>1, <2>4 DEF Passes, Lists
  <2>6. phase \in {"keyCommit", "verify", "done"} => Lists(m, Pw(rotation))'
    BY <1>5, <1>6, <1>13, <1>14, <2>1, <2>4 DEF Passes, Lists
  <2>7. op'[m].at = "reply" /\ op'[m].phase = "keyPrepare" => Lists(m, Pw(op[m].r))'
    BY <1>7, <1>14, <2>1, <2>3 DEF Passes, Lists
  <2>8. QED
    BY <1>6, <2>2, <2>5, <2>6, <2>7 DEF Passes, Lists
<1>20. QED
  BY <1>12, <1>17, <1>18, <1>19 DEF KeyInv

LEMMA KeptFiles ==
  ASSUME NEW n \in Nodes, pin'[n].keyfile = pin[n].keyfile, loaded'[n] = loaded[n],
         sup'[n] = sup[n]
  PROVE  HandsOn(n) /\ InUse(n)' = InUse(n) /\ \A r : Follows(n, r)' <=> Follows(n, r)
BY DEF HandsOn, InUse, Follows, Lists

\* A password is pinned beside the keyfile there is.
LEMMA PasswordPinned ==
  ASSUME TypeInv, NEW n \in Nodes, NEW pw \in Password, NEW k, WritePasswordPin(n, pw, k)
  PROVE  \A m \in Nodes : pin'[m].keyfile = pin[m].keyfile
<1>1. pin \in [Nodes -> Pins] /\ pin[n].keyfile \in Keyfile
  BY TypesAreTypeOK, PinTypes DEF TypeInv, Types
<1>2. QED
  BY <1>1, PinWritten DEF WritePasswordPin

LEMMA OperationKeys ==
  ASSUME KeyInv, TypeInv', NEW n \in Nodes, Operation(n) \/ Drop(n), ~KeyPin(n)
  PROVE  KeyInv'
<1>1. TypeInv /\ op \in [Nodes -> Requests] /\ op[n].r \in 0..MaxRotations
  BY TypesAreTypeOK, OpFields DEF KeyInv, TypeInv, Types
<1>2. Lessens
  BY <1>1, OperationGoesOn
<1>3. UNCHANGED <<loaded, sup, rotation, phase>>
  BY DEF Operation, Drop, Prepare, Database, Acknowledged, Member, MemberPin, Key, KeyCheck,
     KeyPin, KeyLoaded, KeyRefused, Verify, VerifyPasswords, Reply, platform
<1>4. \A m \in Nodes : pin'[m].keyfile = pin[m].keyfile
  <2>1. CASE MemberPin(n)
    <3>1. New(n) \in Password
      BY <1>1, BoundAssumption DEF New, Request, Pw, Password
    <3>2. QED
      BY <1>1, <2>1, <3>1, PasswordPinned DEF MemberPin
  <2>2. CASE ~MemberPin(n)
    <3>1. UNCHANGED pin
      BY <2>2 DEF Operation, Drop, Prepare, Database, Acknowledged, Member, Key, KeyCheck,
         KeyLoaded, KeyRefused, Verify, VerifyPasswords, Reply, volume
    <3>2. QED
      BY <3>1
  <2>3. QED
    BY <2>1, <2>2
<1>5. \A m \in Nodes : HandsOn(m)
  BY <1>3, <1>4, KeptFiles
<1>6. Fail(n) \/ \E a \in Stages : Goto(n, a)
  BY <1>1, OperationOp
<1>7. \A m \in Nodes : m # n => op'[m] = op[m]
  BY <1>1, <1>6, Gone, Failed
<1>8. \A m \in Nodes : AtStage(m)'
  <2>1. AtStage(n)
    BY DEF KeyInv
  <2>2. CASE Key(n) \/ KeyCheck(n)
    <3>1. op[n].phase \in KeyPhases /\ \E a \in {"check", "pinKey", "wait", "idle"} : Goto(n, a) \/ Fail(n)
      BY <2>1, <2>2 DEF Key, KeyCheck, Holds, AtStage
    <3>2. op'[n].at \in {"check", "pinKey", "wait", "idle"}
          /\ (op'[n].at # "idle" => op'[n].phase = op[n].phase)
      BY <1>1, <3>1, Gone, Failed DEF Stages
    <3>3. QED
      BY <1>7, <3>1, <3>2 DEF AtStage, KeyInv
  <2>3. CASE Database(n) \/ Member(n) \/ Verify(n)
    <3>1. op[n].phase \notin KeyPhases
      BY <2>3 DEF Database, Member, Verify, Holds, KeyPhases
    <3>2. Fail(n) \/ \E a \in {"majority", "pinPassword", "verifyPasswords", "reply"} : Goto(n, a)
      BY <2>3 DEF Database, Member, Verify
    <3>3. op'[n].at \in {"majority", "pinPassword", "verifyPasswords", "reply", "idle"}
          /\ (op'[n].at # "idle" => op'[n].phase = op[n].phase)
      BY <1>1, <3>2, Gone, Failed DEF Stages
    <3>4. QED
      BY <1>7, <3>1, <3>3 DEF AtStage, KeyInv
  <2>4. CASE ~(Key(n) \/ KeyCheck(n) \/ Database(n) \/ Member(n) \/ Verify(n))
    <3>1. Fail(n) \/ Goto(n, "reply")
      BY <2>4 DEF Operation, Drop, Prepare, Acknowledged, MemberPin, KeyLoaded, KeyRefused,
         VerifyPasswords, Reply
    <3>2. op'[n].at \in {"reply", "idle"}
      BY <1>1, <3>1, Gone, Failed DEF Stages
    <3>3. QED
      BY <1>7, <3>2 DEF AtStage, KeyInv
  <2>5. QED
    BY <2>2, <2>3, <2>4
<1>9. op'[n].at = "reply" /\ op[n].phase = "keyPrepare" =>
        op[n].at = "reply" \/ Lists(n, Pw(op[n].r))
  <2>1. CASE KeyLoaded(n) /\ op[n].phase = "keyPrepare"
    <3>1. loaded[n] = TargetKeyfile(op[n].r, TRUE) /\ op[n].at = "wait"
      BY <2>1 DEF KeyLoaded, Target
    <3>2. Live(n)
      BY <1>1, <2>1, <3>1, LiveRequest
    <3>3. QED
      BY <3>1, <3>2 DEF KeyInv, Follows
  <2>2. CASE ~KeyLoaded(n) /\ op[n].phase = "keyPrepare"
    <3>1. \/ Fail(n)
          \/ \E a \in Stages \ {"reply"} : Goto(n, a)
          \/ Acknowledged(n) \/ MemberPin(n) \/ VerifyPasswords(n)
      BY <2>2 DEF Operation, Drop, Prepare, Database, Member, Key, KeyCheck,
         KeyRefused, Verify, Reply, Stages, Holds
    <3>2. op[n].at \notin {"majority", "pinPassword", "verifyPasswords"}
      BY <2>2 DEF KeyInv, AtStage, KeyPhases
    <3>3. QED
      BY <1>1, <3>1, <3>2, Gone, Failed DEF Acknowledged, MemberPin, VerifyPasswords
  <2>3. QED
    BY <2>1, <2>2
<1>10. \A m \in done' \ done : m \in Nodes /\ phase = "keyPrepare" => Lists(m, Pw(rotation))
  <2>1. CASE Reply(n)
    <3>1. done' \subseteq done \cup {n}
      BY <2>1 DEF Reply
    <3>2. n \in done' \ done => op[n].at = "reply" /\ op[n].r = rotation /\ op[n].phase = phase
      BY <2>1 DEF Reply
    <3>3. Passes(n)
      BY DEF KeyInv
    <3>4. QED
      BY <3>1, <3>2, <3>3 DEF Passes
  <2>2. CASE ~Reply(n)
    <3>1. done' = done
      BY <2>2 DEF Operation, Drop, Prepare, Database, Acknowledged, Member, MemberPin, Key, KeyCheck,
         KeyPin, KeyLoaded, KeyRefused, Verify, VerifyPasswords, platform
    <3>2. QED
      BY <3>1
  <2>3. QED
    BY <2>1, <2>2
<1>11. QED
  BY <1>2, <1>3, <1>5, <1>7, <1>8, <1>9, <1>10, PassedOn

\* A step that is no request's and writes no pin.
LEMMA OthersKeys ==
  ASSUME KeyInv, TypeInv', NEW n \in Nodes, Working(n), ~Operation(n), ~Drop(n),
         \A m \in Nodes : HandsOn(m)
  PROVE  KeyInv'
<1>1. TypeInv
  BY DEF KeyInv
<1>2. Lessens
  BY <1>1, WorkingLessens
<1>3. UNCHANGED <<rotation, phase, done>>
  BY DEF Working, Supervise, Notice, Handoff, StopMongod, SpawnMongod, HandoffFails,
     Resolve, ResolvePending, ResolveActive, ResolveEnv, ResolvePin, Crash, Boot, Render,
     Elect, Lapse, Replicate, platform
<1>4. \A m \in Nodes : op'[m].at = "idle" \/ op'[m] = op[m]
  <2>1. CASE Crash(n)
    BY <1>1, <2>1, TypesAreTypeOK, IdleOp DEF Crash, TypeInv, Types
  <2>2. CASE ~Crash(n)
    <3>1. UNCHANGED op
      BY <2>2 DEF Working, Supervise, Notice, Handoff, StopMongod, SpawnMongod, HandoffFails,
         Resolve, ResolvePending, ResolveActive, ResolveEnv, ResolvePin, Boot, Render,
         Elect, Lapse, Replicate, process
    <3>2. QED
      BY <3>1
  <2>3. QED
    BY <2>1, <2>2
<1>5. \A m \in Nodes : AtStage(m)'
  BY <1>4 DEF KeyInv, AtStage
<1>6. QED
  BY <1>2, <1>3, <1>4, <1>5, PassedOn

LEMMA SupervisorHandsOn ==
  ASSUME TypeInv, NEW n \in Nodes, Supervise(n) \/ HandoffFails(n)
  PROVE  \A m \in Nodes : HandsOn(m)
<1>1. sup \in [Nodes -> Watches] /\ loaded \in [Nodes -> Keyfiles] /\ UNCHANGED pin
  BY TypesAreTypeOK DEF TypeInv, Types, Supervise, Notice, Handoff, StopMongod, SpawnMongod,
     HandoffFails, volume
<1>2. CASE Notice(n)
  <2>1. UNCHANGED loaded
    BY <1>2 DEF Notice
  <2>2. QED
    BY <1>1, <1>2, <2>1, NoticeWatch DEF HandsOn
<1>3. CASE Handoff(n) \/ HandoffFails(n) \/ StopMongod(n)
  <2>1. UNCHANGED loaded
    BY <1>3 DEF Handoff, HandoffFails, StopMongod
  <2>2. /\ sup'[n].target \in {sup[n].target, NoKey}
        /\ \A m \in Nodes : m # n => sup'[m] = sup[m]
    BY <1>1, <1>3, Watched, WatchEnds DEF Handoff, HandoffFails, StopMongod
  <2>3. QED
    BY <1>1, <2>1, <2>2 DEF HandsOn
<1>4. CASE SpawnMongod(n)
  <2>1. loaded' = [loaded EXCEPT ![n] = sup[n].target]
    BY <1>4 DEF SpawnMongod
  <2>2. /\ sup'[n].target = NoKey
        /\ \A m \in Nodes : m # n => sup'[m] = sup[m]
    BY <1>1, <1>4, WatchEnds DEF SpawnMongod
  <2>3. QED
    BY <1>1, <2>1, <2>2 DEF HandsOn
<1>5. QED
  BY <1>2, <1>3, <1>4 DEF Supervise

LEMMA RestartHandsOn ==
  ASSUME KeyInv, NEW n \in Nodes, Crash(n) \/ Boot(n) \/ Render(n)
  PROVE  \A m \in Nodes : HandsOn(m)
<1>1. TypeInv /\ sup \in [Nodes -> Watches] /\ loaded \in [Nodes -> Keyfiles]
  BY TypesAreTypeOK DEF KeyInv, TypeInv, Types
<1>2. CASE Crash(n)
  <2>1. UNCHANGED pin
    BY <1>2 DEF Crash, volume
  <2>2. QED
    BY <1>1, <1>2, <2>1, WatchTypes DEF Crash, HandsOn
<1>3. CASE Boot(n)
  <2>1. UNCHANGED <<loaded, sup>>
    BY <1>3 DEF Boot
  <2>2. ASSUME NEW passwords, NEW keyfile \in Handed(n, passwords)
        PROVE  ~Disjoint(pin[n].keyfile, keyfile)
    <3>1. PICK m \in Nodes : keyfile = loaded[m] /\ loaded[m] # NoKey
      BY <1>1, HandedKeyfiles, KeyfileKeys
    <3>2. keyfile \in InUse(m) /\ pin[n].keyfile \in InUse(n)
      BY <1>1, <3>1, InUseKeyfiles
    <3>3. QED
      BY <3>2 DEF KeyInv, Agreeing, Disjoint
  <2>3. UNCHANGED pin
    BY <1>3, <2>2 DEF Boot
  <2>4. QED
    BY <2>1, <2>3, KeptFiles
<1>4. CASE Render(n)
  <2>1. /\ UNCHANGED <<pin, sup>> /\ loaded' = [loaded EXCEPT ![n] = pin[n].keyfile]
        /\ wrapper[n] # "up"
    BY <1>4 DEF Render, volume
  <2>2. sup[n].target = NoKey
    BY <1>1, <2>1 DEF TypeInv, Quiet
  <2>3. QED
    BY <1>1, <2>1, <2>2 DEF HandsOn
<1>5. QED
  BY <1>2, <1>3, <1>4

LEMMA WorkingKeys ==
  ASSUME KeyInv, TypeInv', MaxRotations <= 2, NEW n \in Nodes, Working(n)
  PROVE  KeyInv'
<1>1. CASE Operation(n) \/ Drop(n)
  BY <1>1, OperationKeys, KeyPinStep
<1>2. CASE ~(Operation(n) \/ Drop(n))
  <2>1. TypeInv
    BY DEF KeyInv
  <2>2. CASE Supervise(n) \/ HandoffFails(n) \/ Crash(n) \/ Boot(n) \/ Render(n)
    BY <1>2, <2>1, <2>2, SupervisorHandsOn, RestartHandsOn, OthersKeys
  <2>3. CASE Resolve(n)
    <3>1. UNCHANGED <<loaded, sup>>
      BY <2>3 DEF Resolve, ResolvePending, ResolveActive, ResolveEnv, ResolvePin
    <3>2. \A m \in Nodes : pin'[m].keyfile = pin[m].keyfile
      <4>1. \/ UNCHANGED pin
            \/ WritePasswordPin(n, res[n].active, res[n].keyfile)
        BY <2>3 DEF Resolve, ResolvePending, ResolveActive, ResolveEnv, ResolvePin, volume
      <4>2. res[n].active \in Password
        BY <2>1, TypesAreTypeOK, ResolverTypes DEF TypeInv, Types
      <4>3. QED
        BY <2>1, <4>1, <4>2, PasswordPinned
    <3>3. QED
      BY <1>2, <3>1, <3>2, KeptFiles, OthersKeys
  <2>4. CASE Elect(n) \/ Lapse \/ Replicate(n)
    <3>1. UNCHANGED <<pin, loaded, sup>>
      BY <2>4 DEF Elect, Lapse, Replicate, volume, process
    <3>2. QED
      BY <1>2, <3>1, KeptFiles, OthersKeys
  <2>5. QED
    BY <1>2, <2>2, <2>3, <2>4 DEF Working
<1>3. QED
  BY <1>1, <1>2

LEMMA BegunKeys ==
  ASSUME KeyInv, TypeInv', NEW n \in Nodes, Send(n) \/ Reconcile(n)
  PROVE  KeyInv'
<1>1. /\ UNCHANGED <<pin, loaded, sup, rotation, phase, done>>
      /\ op \in [Nodes -> Requests]
  BY TypesAreTypeOK DEF Send, Reconcile, volume, platform, KeyInv, TypeInv, Types
<1>2. /\ op'[n].at = "start" /\ \A m \in Nodes : m # n => op'[m] = op[m]
      /\ \/ op'[n].phase = phase /\ op'[n].r = rotation
         \/ op'[n].phase = "member" /\ ~op'[n].asked
  BY <1>1 DEF Send, Reconcile
<1>3. \A m \in Nodes : InUse(m)' = InUse(m)
  BY <1>1 DEF InUse
<1>4. Agreeing'
  BY <1>3 DEF KeyInv, Agreeing
<1>5. ASSUME NEW m \in Nodes
      PROVE  (Follows(m, rotation) /\ (Live(m) => Follows(m, op[m].r)))'
  <2>1. Follows(m, rotation) /\ (Live(m) => Follows(m, op[m].r))
    BY DEF KeyInv
  <2>2. Follows(m, rotation)'
    BY <1>1, <1>3, <2>1 DEF Follows, Lists
  <2>3. m # n => (Live(m) => Follows(m, op[m].r))'
    BY <1>1, <1>2, <1>3, <2>1 DEF Follows, Lists, Live
  <2>4. m = n => (Live(m) => Follows(m, op[m].r))'
    BY <1>1, <1>2, <2>2 DEF Follows, Lists, Live
  <2>5. QED
    BY <2>2, <2>3, <2>4
<1>6. \A m \in Nodes : NotYetBack(m)' /\ AtStage(m)'
  <2>1. \A m \in Nodes : NotYetBack(m) /\ AtStage(m)
    BY DEF KeyInv
  <2>2. QED
    BY <1>1, <1>2, <1>3, <2>1 DEF NotYetBack, AtStage, Live
<1>7. \A m \in Nodes : Passes(m)'
  <2>1. \A m \in Nodes : Passes(m)
    BY DEF KeyInv
  <2>2. \A key : \A m \in Nodes : Lists(m, key)' <=> Lists(m, key)
    BY <1>3 DEF Lists
  <2>3. ASSUME NEW m \in Nodes, op'[m].at # "idle", op'[m].phase = "keyCommit", NEW k \in Nodes
        PROVE  Lists(k, Pw(op'[m].r))
    BY <1>2, <2>1, <2>3 DEF Passes
  <2>4. ASSUME NEW m \in Nodes, op'[m].at = "reply" PROVE op'[m] = op[m]
    BY <1>2, <2>4
  <2>5. QED
    BY <1>1, <2>1, <2>2, <2>3, <2>4 DEF Passes, Lists
<1>8. QED
  BY <1>4, <1>5, <1>6, <1>7 DEF KeyInv

LEMMA PlatformKeys ==
  ASSUME KeyInv, TypeInv', MaxRotations <= 2, Proceed \/ Repeat \/ TurnBack
  PROVE  KeyInv'
<1>1. UNCHANGED <<pin, loaded, sup, op>> /\ done' = {}
  BY DEF Proceed, Repeat, TurnBack, volume, process
<1>2. \A m \in Nodes : InUse(m)' = InUse(m)
  BY <1>1 DEF InUse
<1>3. Agreeing' /\ \A m \in Nodes : AtStage(m)'
  BY <1>1, <1>2 DEF KeyInv, Agreeing, AtStage
<1>4. \A key : \A m \in Nodes : Lists(m, key)' <=> Lists(m, key)
  BY <1>2 DEF Lists
<1>5. \A r : \A m \in Nodes : Follows(m, r)' <=> Follows(m, r)
  BY <1>1, <1>4 DEF Follows
<1>6. /\ rotation \in Nat /\ rotation > 0 /\ phase \in PhaseNames
      /\ \A m \in Nodes : Live(m) => op[m].r \in Nat /\ op[m].r > 0 /\ op[m].r <= rotation
  BY Rotations, TypesAreTypeOK DEF KeyInv, TypeInv, Types
<1>7. \A m \in Nodes : /\ Follows(m, rotation) /\ (Live(m) => Follows(m, op[m].r))
                       /\ NotYetBack(m) /\ Passes(m)
  BY DEF KeyInv
<1>8. CASE Proceed \/ Repeat
  <2>1. rotation' = rotation
    BY <1>8 DEF Proceed, Repeat
  <2>2. \A m \in Nodes : /\ (Follows(m, rotation) /\ (Live(m) => Follows(m, op[m].r)))'
                         /\ NotYetBack(m)'
    BY <1>1, <1>2, <1>5, <1>7, <2>1 DEF Follows, NotYetBack, Live, Lists
  <2>3. ASSUME phase' \in {"keyCommit", "verify", "done"}, NEW m \in Nodes
        PROVE  Lists(m, Pw(rotation))
    <3>1. Proceed
      BY <1>8, <2>3 DEF Repeat
    <3>2. phase \in {"keyCommit", "verify"} \/ (phase = "keyPrepare" /\ done = Nodes)
      BY <1>6, <2>3, <3>1, NextPhase DEF Proceed
    <3>3. QED
      BY <1>7, <3>2 DEF Passes
  <2>4. ASSUME NEW m \in Nodes PROVE Passes(m)'
    BY <1>1, <1>4, <1>7, <2>1, <2>3 DEF Passes, Lists
  <2>5. QED
    BY <1>3, <2>2, <2>4 DEF KeyInv
<1>9. CASE TurnBack
  <2>1. rotation = 1 /\ rotation' = 2 /\ phase' = "prepare"
    BY <1>6, <1>9, BoundAssumption DEF TurnBack
  <2>2. ASSUME NEW m \in Nodes PROVE Follows(m, 2) /\ NotYetBack(m)'
    <3>1. TargetKeyfile(2, TRUE) \notin InUse(m)
      BY <1>7, <2>1 DEF NotYetBack
    <3>2. loaded[m] # TargetKeyfile(2, TRUE) /\ sup[m].target # TargetKeyfile(2, TRUE)
      BY <3>1, Turns, InUseKeyfiles DEF KeyInv
    <3>3. QED
      BY <1>2, <3>1, <3>2 DEF Follows, NotYetBack
  <2>3. ASSUME NEW m \in Nodes PROVE (Follows(m, rotation) /\ (Live(m) => Follows(m, op[m].r)))'
    <3>1. Follows(m, rotation)'
      BY <1>5, <2>1, <2>2 DEF Follows, Lists
    <3>2. (Live(m) => Follows(m, op[m].r))'
      BY <1>1, <1>5, <1>7 DEF Follows, Lists, Live
    <3>3. QED
      BY <3>1, <3>2
  <2>4. \A m \in Nodes : Passes(m)'
    BY <1>1, <1>4, <1>7, <2>1 DEF Passes, Lists
  <2>5. QED
    BY <1>3, <2>2, <2>3, <2>4 DEF KeyInv
<1>10. QED
  BY <1>8, <1>9

LEMMA KeyInvInit == Init => KeyInv
<1> SUFFICES ASSUME Init PROVE KeyInv
  OBVIOUS
<1>1. TypeInv
  BY TypeInvInit
<1>2. /\ \A m \in Nodes : /\ op[m].at = "idle" /\ sup[m].target = NoKey
                          /\ loaded[m] = <<1>> /\ pin[m].keyfile = <<1>>
      /\ rotation = 1 /\ phase = "prepare"
  BY IdleOp, WatchTypes DEF Init
<1>3. \A m \in Nodes : InUse(m) \subseteq {<<1>>}
  BY <1>2 DEF InUse
<1>4. Agreeing
  BY <1>3, KeysOfOne DEF Agreeing, Overlap
<1>5. \A m \in Nodes : Follows(m, 1) /\ NotYetBack(m)
  BY <1>2, <1>3, Turns DEF Follows, NotYetBack
<1>6. \A m \in Nodes : ~Live(m) /\ AtStage(m) /\ Passes(m)
  BY <1>2 DEF Live, AtStage, Passes
<1>7. QED
  BY <1>1, <1>2, <1>4, <1>5, <1>6 DEF KeyInv

LEMMA KeyInvStep ==
  ASSUME MaxRotations <= 2
  PROVE  KeyInv /\ [Next]_vars => KeyInv'
<1> SUFFICES ASSUME KeyInv, [Next]_vars PROVE KeyInv'
  OBVIOUS
<1>1. TypeInv'
  BY TypeInvStep DEF KeyInv
<1>2. CASE Next
  BY <1>1, <1>2, WorkingKeys, BegunKeys, PlatformKeys, NodeAssumption DEF Next, NodeStep, Working
<1>3. CASE UNCHANGED vars
  BY <1>1, <1>3 DEF KeyInv, Agreeing, Follows, Lists, InUse, Live, NotYetBack, AtStage, Passes,
     vars, volume, process, set, platform
<1>4. QED
  BY <1>2, <1>3

LEMMA KeysInUse ==
  ASSUME KeyInv, NEW n \in Nodes
  PROVE  Accepted(n) \in InUse(n) /\ pin[n].keyfile \in InUse(n)
BY InUseKeyfiles DEF KeyInv, TypeInv, Quiet, Accepted, Running

\* In no interleaving of the passes of a rotation and its way back, with any
\* crashes, lost responses, repeated requests and refused hand-offs, is there a
\* member that, restarted or left as it is, would be shut out by another: the
\* two passes of credentials.rs and the pin as restart intent.
THEOREM RestartsAgreeHolds ==
  ASSUME MaxRotations <= 2
  PROVE  Spec => []RestartsAgree
<1>1. KeyInv => RestartsAgree
  BY KeysInUse DEF RestartsAgree, KeyInv, Agreeing
<1>2. KeyInv /\ [Next]_vars => KeyInv'
  BY KeyInvStep
<1>3. QED
  BY <1>1, <1>2, KeyInvInit, PTL DEF Spec

-----------------------------------------------------------------------------
(* The rolling change implements SharedKey.                                *)

\* No step touches the keyfiles of two members.
LEMMA OneAtATime ==
  ASSUME TypeInv, Next
  PROVE  \E n \in Nodes : \A m \in Nodes \ {n} :
           pin'[m] = pin[m] /\ mongod'[m] = mongod[m]
<1>1. pin \in [Nodes -> Pins] /\ mongod \in [Nodes -> Keyfiles]
  BY TypesAreTypeOK DEF TypeInv, Types
<1>2. CASE Proceed \/ Repeat \/ TurnBack \/ Lapse
  <2>1. UNCHANGED <<pin, mongod>>
    BY <1>2 DEF Proceed, Repeat, TurnBack, Lapse, volume, set
  <2>2. QED
    BY <2>1, NodeAssumption
<1>3. ASSUME NEW n \in Nodes, NodeStep(n)
      PROVE  \A m \in Nodes \ {n} : pin'[m] = pin[m] /\ mongod'[m] = mongod[m]
  <2>1. UNCHANGED pin \/ \E pw, k : WritePin(n, pw, k)
    <3>1. CASE Operation(n)
      BY <3>1 DEF Operation, Prepare, Database, Acknowledged, Member, MemberPin, Key, KeyCheck,
         KeyPin, KeyLoaded, KeyRefused, Verify, VerifyPasswords, Reply, WritePasswordPin, volume
    <3>2. CASE Supervise(n) \/ Resolve(n) \/ Boot(n)
      BY <3>2 DEF Supervise, Notice, Handoff, StopMongod, SpawnMongod, Resolve, ResolvePending,
         ResolveActive, ResolveEnv, ResolvePin, WritePasswordPin, Boot, volume
    <3>3. CASE ~(Operation(n) \/ Supervise(n) \/ Resolve(n) \/ Boot(n))
      BY <1>3, <3>3 DEF NodeStep, Send, Reconcile, Drop, HandoffFails, Crash, Render, Elect, Replicate, volume
    <3>4. QED
      BY <3>1, <3>2, <3>3
  <2>2. UNCHANGED mongod \/ \E k : mongod' = [mongod EXCEPT ![n] = k]
    <3>1. CASE Operation(n)
      BY <3>1 DEF Operation, Prepare, Database, Acknowledged, Member, MemberPin, Key, KeyCheck,
         KeyPin, KeyLoaded, KeyRefused, Verify, VerifyPasswords, Reply, set
    <3>2. CASE ~Operation(n)
      BY <1>3, <3>2 DEF NodeStep, Supervise, Notice, Handoff, StopMongod, SpawnMongod, Resolve,
         ResolvePending, ResolveActive, ResolveEnv, ResolvePin, Boot, Send, Reconcile, Drop,
         HandoffFails, Crash, Render, Elect, Replicate, set
    <3>3. QED
      BY <3>1, <3>2
  <2>3. QED
    BY <1>1, <2>1, <2>2 DEF WritePin
<1>4. QED
  BY <1>2, <1>3 DEF Next

\* Every member accepts some key, and one of every other member's.
AcceptsKeys ==
  \A n \in Nodes : /\ KeysOf(Accepted(n)) \in (SUBSET Password) \ {{}}
                   /\ \A m \in Nodes : Overlap(Accepted(n), Accepted(m))

LEMMA AcceptedKeys == KeyInv => AcceptsKeys
<1> SUFFICES ASSUME KeyInv, NEW n \in Nodes
             PROVE  /\ KeysOf(Accepted(n)) \in (SUBSET Password) \ {{}}
                    /\ \A m \in Nodes : Overlap(Accepted(n), Accepted(m))
  BY DEF AcceptsKeys
<1>1. Accepted(n) \in Keyfile
  BY KeysInUse, InUseKeyfiles DEF KeyInv
<1>2. QED
  BY <1>1, KeyfileKeys, KeysInUse DEF KeyInv, Agreeing

\* A step of the rotation changes what one member accepts, to keys that every
\* other member shares, or it changes no keys.
LEMMA ImplementsChange ==
  ASSUME KeyInv, AcceptsKeys', [Next]_vars
  PROVE  [Shared!Next]_[n \in Nodes |-> KeysOf(Accepted(n))]
<1>1. CASE UNCHANGED vars
  BY <1>1 DEF vars, volume, set, Accepted, Running
<1>2. CASE Next
  <2>1. PICK n \in Nodes : \A m \in Nodes \ {n} : pin'[m] = pin[m] /\ mongod'[m] = mongod[m]
    BY <1>2, OneAtATime DEF KeyInv
  <2>2. \A m \in Nodes \ {n} : Accepted(m)' = Accepted(m)
    BY <2>1 DEF Accepted, Running
  <2> DEFINE K == KeysOf(Accepted(n)')
             key == [m \in Nodes |-> KeysOf(Accepted(m))]
  <2>3. (\A m \in Nodes : /\ KeysOf(Accepted(m)) \in (SUBSET Password) \ {{}}
                          /\ \A o \in Nodes : Overlap(Accepted(m), Accepted(o)))'
    BY DEF AcceptsKeys
  <2>4. K \in (SUBSET Password) \ {{}}
    BY <2>3
  <2>5. \A o \in Nodes \ {n} : K \cap KeysOf(Accepted(o)) # {}
    BY <2>2, <2>3 DEF Overlap
  <2>6. [m \in Nodes |-> KeysOf(Accepted(m))]' = [key EXCEPT ![n] = K]
    BY <2>2
  <2>7. Shared!Change(n, K)
    BY <2>5, <2>6 DEF Shared!Change, Shared!Shares
  <2>8. QED
    BY <2>4, <2>7 DEF Shared!Next
<1>3. QED
  BY <1>1, <1>2

\* A rotation and its way back is a change of keys one member at a time, each to
\* keys that all others share.
THEOREM RefinesSharedKeyHolds ==
  ASSUME MaxRotations <= 2
  PROVE  Spec => RefinesSharedKey
<1>1. Init => Shared!Init
  <2> SUFFICES ASSUME Init PROVE Shared!Init
    OBVIOUS
  <2>1. \A n \in Nodes : KeysOf(Accepted(n)) = {1}
    BY KeysOfOne DEF Init, Accepted, Running
  <2>2. QED
    BY <2>1 DEF Shared!Init, Password
<1>2. KeyInv /\ [Next]_vars => KeyInv'
  BY KeyInvStep
<1>3. KeyInv => AcceptsKeys
  BY AcceptedKeys
<1>4. KeyInv /\ AcceptsKeys' /\ [Next]_vars => [Shared!Next]_[n \in Nodes |-> KeysOf(Accepted(n))]
  BY ImplementsChange
<1>5. QED
  BY <1>1, <1>2, <1>3, <1>4, KeyInvInit, PTL DEF Spec, RefinesSharedKey, Shared!Spec

-----------------------------------------------------------------------------
(* What SharedKey promises of whatever implements it, for any members and  *)
(* keys and any number of rotations.                                       *)

\* One Change gives its member keys that everyone else shares, and leaves the
\* keys of the others.
LEMMA ChangeKeeps ==
  ASSUME Shared!TypeOK, Shared!Agreement,
         NEW n \in Nodes, NEW K \in (SUBSET Password) \ {{}}, Shared!Change(n, K)
  PROVE  Shared!TypeOK' /\ Shared!Agreement'
<1> DEFINE keys == [m \in Nodes |-> KeysOf(Accepted(m))]
<1>1. keys \in [Nodes -> (SUBSET Password) \ {{}}] /\ \A m, o \in Nodes : keys[m] \cap keys[o] # {}
  BY DEF Shared!TypeOK, Shared!Agreement, Shared!Shares
<1>2. keys' = [keys EXCEPT ![n] = K] /\ \A o \in Nodes \ {n} : K \cap keys[o] # {}
  BY DEF Shared!Change, Shared!Shares
<1> HIDE DEF keys
<1>3. keys' \in [Nodes -> (SUBSET Password) \ {{}}]
  BY <1>1, <1>2
<1>4. ASSUME NEW m \in Nodes, NEW o \in Nodes PROVE keys'[m] \cap keys'[o] # {}
  <2>1. CASE m = n \/ o = n
    BY <1>1, <1>2, <2>1
  <2>2. CASE m # n /\ o # n
    BY <1>1, <1>2, <2>2
  <2>3. QED
    BY <2>1, <2>2
<1>5. QED
  BY <1>3, <1>4 DEF keys, Shared!TypeOK, Shared!Agreement, Shared!Shares

\* Whatever changes its keys as SharedKey says never leaves a member without a
\* key or without one that another has.
LEMMA AgreementOfRefinement == RefinesSharedKey => [](Shared!TypeOK /\ Shared!Agreement)
<1>1. Shared!Init => Shared!TypeOK /\ Shared!Agreement
  BY DEF Shared!Init, Shared!TypeOK, Shared!Agreement, Shared!Shares
<1>2. Shared!TypeOK /\ Shared!Agreement /\ [Shared!Next]_[n \in Nodes |-> KeysOf(Accepted(n))]
        => (Shared!TypeOK /\ Shared!Agreement)'
  <2> SUFFICES ASSUME Shared!TypeOK, Shared!Agreement,
                      [Shared!Next]_[n \in Nodes |-> KeysOf(Accepted(n))]
               PROVE  (Shared!TypeOK /\ Shared!Agreement)'
    OBVIOUS
  <2>1. CASE Shared!Next
    BY <2>1, ChangeKeeps DEF Shared!Next
  <2>2. CASE UNCHANGED [n \in Nodes |-> KeysOf(Accepted(n))]
    BY <2>2 DEF Shared!TypeOK, Shared!Agreement
  <2>3. QED
    BY <2>1, <2>2
<1>3. QED
  BY <1>1, <1>2, PTL DEF RefinesSharedKey, Shared!Spec

\* During a rotation and its way back, whatever crashes or loses an answer, no
\* member is ever without a key that mongod accepts or without one that another
\* accepts too: what keys_overlap and the two passes over the keyfiles are for.
THEOREM AgreementHolds ==
  ASSUME MaxRotations <= 2
  PROVE  Spec => [](Shared!TypeOK /\ Shared!Agreement)
<1>1. Spec => RefinesSharedKey
  BY RefinesSharedKeyHolds
<1>2. QED
  BY <1>1, AgreementOfRefinement, PTL

-----------------------------------------------------------------------------
(* The first rotation, as long as the Database phase is answered for a     *)
(* change that a majority has.                                             *)

\* Every member has the new password, and the passes over the keyfiles begin.
Late == phase \in KeyPhases \cup {"verify", "done"}

\* The keyfile of a member before and after it has answered the phase.
KeyBefore ==
  IF phase = "keyCommit" THEN <<1, 2>> ELSE IF phase \in {"verify", "done"} THEN <<2>> ELSE <<1>>
KeyAfter == IF phase = "keyPrepare" THEN <<1, 2>> ELSE IF phase = "keyCommit" THEN <<2>> ELSE KeyBefore

\* A request is one of the first rotation's, and of a phase that can have one:
\* a pass over the keyfiles is asked of one member at a time.
OpFirst(n) ==
  /\ pending[n] \in {0, 1}
  /\ op[n].at # "idle" => op[n].r = 1
  /\ op[n].at \in {"check", "pinKey", "wait"} => op[n].phase \in KeyPhases
  /\ op[n].at = "majority" => op[n].phase = "database"
  /\ op[n].at = "pinPassword" => op[n].phase = "member"
  /\ op[n].at = "verifyPasswords" => op[n].phase = "verify"
  /\ op[n].at # "idle" /\ op[n].phase \in KeyPhases => op[n].phase = phase /\ turn = n
  /\ op[n].at # "idle" /\ op[n].phase \in {"prepare", "database"} =>
       ~Late /\ ~(phase = "member" /\ n \in done)
  /\ op[n].at # "idle" /\ op[n].phase = "verify" => phase \in {"verify", "done"}
  /\ Live(n) /\ op[n].phase = "member" => phase # "database" /\ ~(phase = "prepare" /\ n \in done)

\* n has answered the Member phase, or is about to: mongod took the new password.
Confirmed(n) ==
  \/ phase = "member"
       /\ (n \in done \/ (Live(n) /\ op[n].phase = "member" /\ op[n].at \in {"pinPassword", "reply"}))
  \/ Late

RootFirst(n) == Confirmed(n) => root[n] = 1

\* Only the member whose turn it is in a pass is restarted, or between two
\* keyfiles at all.
KeyFirst(n) ==
  IF phase \in KeyPhases /\ turn = n
  THEN /\ n \notin done
       /\ pin[n].keyfile \in {KeyBefore, KeyAfter} /\ loaded[n] \in {KeyBefore, KeyAfter, NoKey}
       /\ loaded[n] = KeyAfter => pin[n].keyfile = KeyAfter
       /\ sup[n].at # "idle" =>
            sup[n].target = KeyAfter /\ pin[n].keyfile = KeyAfter /\ loaded[n] # KeyAfter
       /\ op[n].at \in {"wait", "reply"} /\ op[n].phase \in KeyPhases => pin[n].keyfile = KeyAfter
       /\ op[n].at = "reply" /\ op[n].phase \in KeyPhases => loaded[n] = KeyAfter
  ELSE /\ sup[n].at = "idle"
       /\ pin[n].keyfile = IF n \in done THEN KeyAfter ELSE KeyBefore
       /\ loaded[n] \in {pin[n].keyfile, NoKey}

\* What Verify has confirmed, and that a resolver that has had mongod's answer
\* since the Member phase has it for the new password.
PasswordFirst(n) ==
  /\ Late /\ res[n].at = "pin" => res[n].active = 2
  /\ phase = "done" \/ (phase = "verify" /\ n \in done)
       \/ (op[n].at = "reply" /\ op[n].phase = "verify")
     => pin[n].password = 2 /\ pending[n] = 0

\* The members that have the new password; once they are a majority, only one of
\* them leads.
Changed == {n \in Nodes : root[n] = 1}
ChangedLeads == Majority(Changed) => primary \in Changed \cup {NoNode}

FirstInv ==
  rotation = 1 =>
    /\ turn \notin done
    /\ ChangedLeads
    /\ \A n \in Nodes : OpFirst(n) /\ RootFirst(n) /\ KeyFirst(n) /\ PasswordFirst(n)

\* Assumed: the answer that ends the Database phase stands for a majority.
\* Database waits for one when it makes the change (updateUser's write concern)
\* and not when a repeated request finds it made by one that was lost.
Durable == rotation = 1 /\ phase = "member" => Majority(Changed)

\* Nobody loses the new password once it has confirmed it.
NoLoss == \A n \in Nodes : Confirmed(n) => root[n] <= root'[n]

\* One step of the first rotation.
InFirst ==
  TypeInv /\ TypeInv' /\ FirstInv /\ rotation = 1 /\ rotation' = 1 /\ NoLoss /\ ChangedLeads'

\* What concerns n stays: its part of the platform's state, too.
SameTurn(n) ==
  phase' = phase /\ (n \in done' <=> n \in done) /\ (phase \in KeyPhases => (turn' = n <=> turn = n))
SameKeyfiles(n) ==
  pin'[n].keyfile = pin[n].keyfile /\ loaded'[n] = loaded[n] /\ sup'[n] = sup[n]

LEMMA FirstRequest ==
  /\ Request(1).new = 2 /\ Request(1).current = 1 /\ Pw(1) = 2 /\ Pw(0) = 1
  /\ TargetKeyfile(1, TRUE) = <<1, 2>> /\ TargetKeyfile(1, FALSE) = <<2>>
BY DEF Request, Pw, TargetKeyfile

LEMMA FirstRoots ==
  ASSUME TypeInv, rotation = 1
  PROVE  \A n \in Nodes : root[n] \in {0, 1} /\ (Works(n, 2) => root[n] = 1)
                          /\ \A pw : root[n] = 1 /\ Works(n, pw) => pw = 2
<1>1. \A n \in Nodes : root[n] \in Nat /\ root[n] <= 1
  BY TypesAreTypeOK DEF TypeInv, Types, RootsAsked
<1>2. \A n \in Nodes : root[n] \in {0, 1}
  BY <1>1
<1>3. QED
  BY <1>2, FirstRequest DEF Works

\* The keyfiles the passes go through.
LEMMA FirstKeyfiles ==
  /\ phase \in KeyPhases => KeyBefore # KeyAfter
  /\ phase \notin KeyPhases => KeyBefore = KeyAfter
  /\ KeyBefore # NoKey /\ KeyAfter # NoKey
  /\ Overlap(KeyBefore, KeyAfter) /\ Overlap(KeyAfter, KeyBefore)
  /\ Overlap(KeyBefore, KeyBefore) /\ Overlap(KeyAfter, KeyAfter)
<1>1. <<1>> # <<1, 2>> /\ <<1, 2>> # <<2>>
  OBVIOUS
<1>2. /\ <<1>> # NoKey /\ <<2>> # NoKey /\ <<1, 2>> # NoKey
      /\ KeysOf(<<1>>) = {1} /\ KeysOf(<<2>>) = {2} /\ KeysOf(<<1, 2>>) = {1, 2}
  BY KeysOfOne, KeysOfTwo
<1>3. QED
  BY <1>1, <1>2 DEF KeyBefore, KeyAfter, KeyPhases, Overlap

LEMMA OpStays ==
  ASSUME InFirst, NEW n \in Nodes, op'[n] = op[n], pending'[n] = pending[n], SameTurn(n)
  PROVE  OpFirst(n)'
BY DEF InFirst, FirstInv, OpFirst, Live, SameTurn, Late, KeyPhases

LEMMA RootStays ==
  ASSUME InFirst, NEW n \in Nodes, SameTurn(n),
         op'[n] = op[n] \/ ~(op'[n].at \in {"pinPassword", "reply"} /\ op'[n].phase = "member")
  PROVE  RootFirst(n)'
<1>1. root[n] \in {0, 1} /\ root'[n] \in {0, 1} /\ (Confirmed(n) => root[n] <= root'[n])
  <2>1. (root[n] \in Nat)' /\ (root[n] <= rotation)'
    BY TypesAreTypeOKNext DEF InFirst, TypeInv, Types, RootsAsked
  <2>2. QED
    BY <2>1, FirstRoots DEF InFirst, NoLoss
<1>2. RootFirst(n)
  BY DEF InFirst, FirstInv
<1>3. Confirmed(n) => root'[n] = 1
  BY <1>1, <1>2 DEF RootFirst
<1>4. Confirmed(n)' => Confirmed(n)
  BY DEF Confirmed, Live, SameTurn, Late, KeyPhases
<1>5. QED
  BY <1>3, <1>4 DEF RootFirst

LEMMA KeyStays ==
  ASSUME InFirst, NEW n \in Nodes, SameTurn(n), SameKeyfiles(n),
         op'[n] = op[n] \/ ~(op'[n].at \in {"wait", "reply"} /\ op'[n].phase \in KeyPhases)
  PROVE  KeyFirst(n)'
<1>1. KeyFirst(n)
  BY DEF InFirst, FirstInv
<1>2. KeyBefore' = KeyBefore /\ KeyAfter' = KeyAfter
  BY DEF SameTurn, KeyBefore, KeyAfter
<1>3. QED
  BY <1>1, <1>2 DEF KeyFirst, SameTurn, SameKeyfiles

LEMMA PasswordStays ==
  ASSUME InFirst, NEW n \in Nodes, SameTurn(n), pending'[n] = pending[n],
         pin'[n].password \in {pin[n].password, 2},
         res'[n] = res[n] \/ res'[n].at # "pin",
         op'[n] = op[n] \/ ~(op'[n].at = "reply" /\ op'[n].phase = "verify")
  PROVE  PasswordFirst(n)'
<1>1. PasswordFirst(n)
  BY DEF InFirst, FirstInv
<1>2. QED
  BY <1>1 DEF PasswordFirst, SameTurn, Late, KeyPhases

FirstHolds(n) == OpFirst(n) /\ RootFirst(n) /\ KeyFirst(n) /\ PasswordFirst(n)

LEMMA OthersStay ==
  ASSUME InFirst, NEW n \in Nodes, SameTurn(n), SameKeyfiles(n), op'[n] = op[n],
         pin'[n] = pin[n], pending'[n] = pending[n], res'[n] = res[n]
  PROVE  FirstHolds(n)'
BY OpStays, RootStays, KeyStays, PasswordStays DEF FirstHolds

\* What a request of the first rotation asks for.
LEMMA FirstTarget ==
  ASSUME InFirst, NEW n \in Nodes, op[n].at # "idle"
  PROVE  /\ New(n) = 2 /\ Current(n) = 1 /\ op[n].r = 1
         /\ op[n].phase \in KeyPhases => Target(n) = KeyAfter /\ turn = n /\ op[n].phase = phase
                                        /\ n \notin done /\ op[n].asked
<1>1. OpFirst(n) /\ turn \notin done
  BY DEF InFirst, FirstInv
<1>2. op[n].r = 1 /\ (op[n].phase \in KeyPhases => op[n].phase = phase /\ turn = n)
  BY <1>1 DEF OpFirst
<1>3. New(n) = 2 /\ Current(n) = 1
  BY <1>2, FirstRequest DEF New, Current
<1>4. op[n].phase \in KeyPhases => Target(n) = KeyAfter
  BY <1>2, FirstRequest DEF Target, KeyAfter, KeyPhases, TargetKeyfile
<1>5. op[n].phase \in KeyPhases => op[n].asked
  BY <1>1 DEF InFirst, TypeInv, InTime, KeyPhases
<1>6. QED
  BY <1>1, <1>2, <1>3, <1>4, <1>5

\* A step of a request concerns its member alone.
LEMMA OperationOthers ==
  ASSUME InFirst, NEW n \in Nodes, Operation(n) \/ Drop(n), NEW m \in Nodes, m # n
  PROVE  FirstHolds(m)'
<1>1. op' \in [Nodes -> Requests] /\ op \in [Nodes -> Requests] /\ pin \in [Nodes -> Pins]
      /\ pending \in [Nodes -> 0..MaxRotations]
  BY OperationOpType, TypesAreTypeOK DEF InFirst, TypeInv, Types
<1>2. op'[m] = op[m]
  BY <1>1, OperationOp, Gone, Failed DEF InFirst
<1>3. pin'[m] = pin[m] /\ pending'[m] = pending[m]
  BY <1>1 DEF Operation, Drop, Prepare, Database, Acknowledged, Member, MemberPin, Key, KeyCheck,
       KeyPin, KeyLoaded, KeyRefused, Verify, VerifyPasswords, Reply, WritePasswordPin, WritePin, volume
<1>4. UNCHANGED <<loaded, sup, res>>
  BY DEF Operation, Drop, Prepare, Database, Acknowledged, Member, MemberPin, Key, KeyCheck,
       KeyPin, KeyLoaded, KeyRefused, Verify, VerifyPasswords, Reply, volume
<1>5. SameTurn(m)
  <2>1. CASE Reply(n)
    <3>1. phase' = phase /\ (m \in done' <=> m \in done)
      BY <2>1 DEF Reply
    <3>2. ASSUME phase \in KeyPhases PROVE turn' = m <=> turn = m
      <4>1. CASE op[n].phase = phase
        <5>1. turn = n
          BY <2>1, <3>2, <4>1, FirstTarget DEF Reply
        <5>2. QED
          BY <2>1, <5>1, NodeAssumption DEF Reply
      <4>2. CASE op[n].phase # phase
        BY <2>1, <4>2 DEF Reply
      <4>3. QED
        BY <4>1, <4>2
    <3>3. QED
      BY <3>1, <3>2 DEF SameTurn
  <2>2. CASE ~Reply(n)
    BY <2>2 DEF SameTurn, Operation, Drop, Prepare, Database, Acknowledged, Member, MemberPin, Key,
         KeyCheck, KeyPin, KeyLoaded, KeyRefused, Verify, VerifyPasswords, platform
  <2>3. QED
    BY <2>1, <2>2
<1>6. QED
  BY <1>2, <1>3, <1>4, <1>5, OthersStay DEF SameKeyfiles

\* A request that is at no stage of note leaves alone what the invariant says
\* of those that are.
LEMMA StepOfRequest ==
  ASSUME InFirst, NEW n \in Nodes, UNCHANGED <<loaded, sup, res>>,
         phase' = phase, done' = done, turn' = turn,
         op'[n].at # "idle" => /\ op'[n].r = op[n].r /\ op'[n].phase = op[n].phase
                               /\ op'[n].asked = op[n].asked /\ op[n].at # "idle",
         pin'[n].keyfile = pin[n].keyfile, pin'[n].password \in {pin[n].password, 2},
         pending'[n] = pending[n],
         op'[n].at \in {"check", "wait"} => op[n].phase \in KeyPhases,
         op'[n].at # "pinKey" \/ op[n].at = "check",
         op[n].phase = "member" => root' = root,
         op'[n].at = "majority" => op[n].phase = "database",
         op'[n].at = "pinPassword" => op[n].phase = "member" /\ root[n] = 1,
         op'[n].at = "verifyPasswords" => op[n].phase = "verify",
         op'[n].at = "wait" => loaded[n] = KeyAfter,
         op'[n].at = "reply" =>
           \/ op[n].phase \in {"prepare", "database"}
           \/ op[n].at = "pinPassword"
           \/ op[n].at = "wait" /\ loaded[n] = KeyAfter
  PROVE  FirstHolds(n)'
<1>1. SameTurn(n) /\ SameKeyfiles(n)
  BY DEF SameTurn, SameKeyfiles
<1>2. OpFirst(n) /\ RootFirst(n) /\ KeyFirst(n)
  BY DEF InFirst, FirstInv
<1>3. OpFirst(n)'
  BY <1>2 DEF OpFirst, Live, Late, KeyPhases
<1>4. RootFirst(n)'
  <2>1. CASE op'[n].at \in {"pinPassword", "reply"} /\ op'[n].phase = "member"
    <3>1. op[n].phase = "member" /\ root' = root
      BY <2>1
    <3>2. CASE op'[n].at = "pinPassword"
      BY <3>1, <3>2 DEF RootFirst
    <3>3. CASE op'[n].at = "reply"
      <4>1. op[n].at = "pinPassword"
        BY <1>2, <3>1, <3>3 DEF OpFirst, KeyPhases
      <4>2. Confirmed(n)' => Confirmed(n)
        BY <1>1, <3>1, <4>1, <2>1 DEF Confirmed, Live, Late, SameTurn
      <4>3. QED
        BY <1>2, <3>1, <4>2 DEF RootFirst
    <3>4. QED
      BY <2>1, <3>2, <3>3
  <2>2. CASE ~(op'[n].at \in {"pinPassword", "reply"} /\ op'[n].phase = "member")
    BY <1>1, <2>2, RootStays
  <2>3. QED
    BY <2>1, <2>2
<1>5. KeyFirst(n)'
  <2>1. CASE op'[n].at \in {"wait", "reply"} /\ op'[n].phase \in KeyPhases
    <3>1. op[n].at # "idle" /\ op[n].phase \in KeyPhases /\ turn = n /\ phase \in KeyPhases
      BY <2>1, FirstTarget
    <3>2. loaded[n] = KeyAfter
      BY <1>2, <2>1, <3>1 DEF OpFirst, KeyPhases
    <3>3. pin[n].keyfile = KeyAfter
      BY <1>2, <3>1, <3>2 DEF KeyFirst
    <3>4. KeyBefore' = KeyBefore /\ KeyAfter' = KeyAfter
      BY DEF KeyBefore, KeyAfter
    <3>5. QED
      BY <1>2, <3>1, <3>2, <3>3, <3>4 DEF KeyFirst
  <2>2. CASE ~(op'[n].at \in {"wait", "reply"} /\ op'[n].phase \in KeyPhases)
    BY <1>1, <2>2, KeyStays
  <2>3. QED
    BY <2>1, <2>2
<1>6. PasswordFirst(n)'
  BY <1>1, <1>2, PasswordStays DEF OpFirst, Live, KeyPhases
<1>7. QED
  BY <1>3, <1>4, <1>5, <1>6 DEF FirstHolds

LEMMA StagesFirst ==
  ASSUME InFirst, NEW n \in Nodes,
         Database(n) \/ Acknowledged(n) \/ Member(n) \/ MemberPin(n) \/ Key(n) \/ KeyCheck(n)
           \/ KeyLoaded(n) \/ KeyRefused(n) \/ Verify(n) \/ Drop(n)
  PROVE  FirstHolds(n)'
<1>1. op \in [Nodes -> Requests] /\ pin \in [Nodes -> Pins] /\ pin[n].keyfile \in Keyfile
  BY TypesAreTypeOK, PinTypes DEF InFirst, TypeInv, Types
<1>2. OpFirst(n)
  BY DEF InFirst, FirstInv
<1>3. op[n].at # "idle" => New(n) = 2 /\ (op[n].phase \in KeyPhases => Target(n) = KeyAfter)
  BY FirstTarget
<1>4. Works(n, 2) => root[n] = 1
  BY FirstRoots DEF InFirst
<1>5. /\ UNCHANGED <<loaded, sup, res>> /\ phase' = phase /\ done' = done /\ turn' = turn
      /\ pending' = pending /\ (op[n].phase = "member" => root' = root)
  BY DEF Database, Acknowledged, Member, MemberPin, Key, KeyCheck, KeyLoaded, KeyRefused, Verify,
         Drop, Holds, volume, set, platform
<1>6. pin'[n].keyfile = pin[n].keyfile /\ pin'[n].password \in {pin[n].password, 2}
  <2>1. CASE MemberPin(n)
    <3>1. op[n].at = "pinPassword" /\ WritePin(n, 2, pin[n].keyfile)
      BY <1>3, <2>1 DEF MemberPin, WritePasswordPin
    <3>2. pin'[n] = [password |-> 2, keyfile |-> pin[n].keyfile]
      BY <1>1, <3>1 DEF WritePin
    <3>3. QED
      BY <3>2
  <2>2. CASE ~MemberPin(n)
    <3>1. pin' = pin
      BY <2>2 DEF Database, Acknowledged, Member, Key, KeyCheck, KeyLoaded, KeyRefused, Verify,
           Drop, volume
    <3>2. QED
      BY <3>1
  <2>3. QED
    BY <2>1, <2>2
<1>7. ASSUME op'[n].at = "idle" PROVE FirstHolds(n)'
  BY <1>5, <1>6, <1>7, StepOfRequest
<1>8. CASE Database(n)
  <2>1. CASE Goto(n, "majority") \/ Goto(n, "reply")
    <3>1. op'[n].at \in {"majority", "reply"} /\ op'[n].r = op[n].r /\ op'[n].phase = op[n].phase /\ op'[n].asked = op[n].asked
      BY <1>1, <2>1, Gone DEF Stages
    <3>2. op[n].at # "idle" /\ op[n].phase = "database"
      BY <1>8 DEF Database, Holds
    <3>3. QED
      BY <1>5, <1>6, <3>1, <3>2, StepOfRequest
  <2>2. CASE Fail(n)
    BY <1>1, <1>7, <2>2, Failed
  <2>3. QED
    BY <1>8, <2>1, <2>2 DEF Database
<1>9. CASE Acknowledged(n)
  <2>1. CASE Goto(n, "reply")
    <3>1. op'[n].at = "reply" /\ op'[n].r = op[n].r /\ op'[n].phase = op[n].phase /\ op'[n].asked = op[n].asked
      BY <1>1, <2>1, Gone DEF Stages
    <3>2. op[n].at = "majority" /\ op[n].phase = "database"
      BY <1>2, <1>9 DEF Acknowledged, OpFirst
    <3>3. QED
      BY <1>5, <1>6, <3>1, <3>2, StepOfRequest
  <2>2. CASE Fail(n)
    BY <1>1, <1>7, <2>2, Failed
  <2>3. QED
    BY <1>9, <2>1, <2>2 DEF Acknowledged
<1>10. CASE Member(n)
  <2>1. CASE Goto(n, "pinPassword") /\ Works(n, New(n))
    <3>1. op'[n].at = "pinPassword" /\ op'[n].r = op[n].r /\ op'[n].phase = op[n].phase /\ op'[n].asked = op[n].asked
      BY <1>1, <2>1, Gone DEF Stages
    <3>2. op[n].at # "idle" /\ op[n].phase = "member" /\ root[n] = 1
      BY <1>3, <1>4, <1>10, <2>1 DEF Member, Holds
    <3>3. QED
      BY <1>5, <1>6, <3>1, <3>2, StepOfRequest
  <2>2. CASE Fail(n)
    BY <1>1, <1>7, <2>2, Failed
  <2>3. QED
    BY <1>10, <2>1, <2>2 DEF Member
<1>11. CASE MemberPin(n)
  <2>1. op'[n].at = "reply" /\ op'[n].r = op[n].r /\ op'[n].phase = op[n].phase /\ op'[n].asked = op[n].asked
    BY <1>1, <1>11, Gone DEF Stages, MemberPin
  <2>3. op[n].at = "pinPassword"
    BY <1>11 DEF MemberPin
  <2>4. QED
    BY <1>5, <1>6, <2>1, <2>3, StepOfRequest
<1>12. CASE Key(n)
  <2>1. op[n].at # "idle" /\ op[n].phase \in KeyPhases /\ Target(n) = KeyAfter
    BY <1>3, <1>12 DEF Key, Holds
  <2>2. CASE (Goto(n, "wait") /\ loaded[n] = Target(n)) \/ Goto(n, "check")
    <3>1. /\ op'[n].at \in {"wait", "check"} /\ (op'[n].at = "wait" => loaded[n] = KeyAfter)
          /\ op'[n].r = op[n].r /\ op'[n].phase = op[n].phase /\ op'[n].asked = op[n].asked
      BY <1>1, <2>1, <2>2, Gone DEF Stages
    <3>2. QED
      BY <1>5, <1>6, <2>1, <3>1, StepOfRequest
  <2>3. CASE Fail(n)
    BY <1>1, <1>7, <2>3, Failed
  <2>4. QED
    BY <1>12, <2>2, <2>3 DEF Key
<1>13. CASE KeyCheck(n)
  <2>1. CASE Goto(n, "pinKey")
    <3>1. op'[n].at = "pinKey" /\ op'[n].r = op[n].r /\ op'[n].phase = op[n].phase /\ op'[n].asked = op[n].asked
      BY <1>1, <2>1, Gone DEF Stages
    <3>2. op[n].at = "check"
      BY <1>13 DEF KeyCheck
    <3>3. QED
      BY <1>5, <1>6, <3>1, <3>2, StepOfRequest
  <2>2. CASE Fail(n)
    BY <1>1, <1>7, <2>2, Failed
  <2>3. QED
    BY <1>13, <2>1, <2>2 DEF KeyCheck
<1>14. CASE KeyLoaded(n)
  <2>1. op'[n].at = "reply" /\ op'[n].r = op[n].r /\ op'[n].phase = op[n].phase /\ op'[n].asked = op[n].asked
    BY <1>1, <1>14, Gone DEF Stages, KeyLoaded
  <2>2. op[n].at = "wait" /\ loaded[n] = KeyAfter
    BY <1>2, <1>3, <1>14 DEF OpFirst, Live, KeyLoaded
  <2>3. QED
    BY <1>5, <1>6, <2>1, <2>2, StepOfRequest
<1>15. CASE Verify(n)
  <2>1. CASE Goto(n, "verifyPasswords")
    <3>1. op'[n].at = "verifyPasswords" /\ op'[n].r = op[n].r /\ op'[n].phase = op[n].phase /\ op'[n].asked = op[n].asked
      BY <1>1, <2>1, Gone DEF Stages
    <3>2. op[n].at # "idle" /\ op[n].phase = "verify"
      BY <1>15 DEF Verify, Holds
    <3>3. QED
      BY <1>5, <1>6, <3>1, <3>2, StepOfRequest
  <2>2. CASE Fail(n)
    BY <1>1, <1>7, <2>2, Failed
  <2>3. QED
    BY <1>15, <2>1, <2>2 DEF Verify
<1>16. CASE KeyRefused(n) \/ Drop(n)
  BY <1>1, <1>7, <1>16, Failed DEF KeyRefused, Drop
<1>17. QED
  BY <1>8, <1>9, <1>10, <1>11, <1>12, <1>13, <1>14, <1>15, <1>16

\* Staging a rotation, before any member has answered the Member phase.
LEMMA PrepareFirst ==
  ASSUME InFirst, NEW n \in Nodes, Prepare(n)
  PROVE  FirstHolds(n)'
<1>1. op \in [Nodes -> Requests] /\ pending \in [Nodes -> 0..MaxRotations] /\ Goto(n, "reply")
  BY TypesAreTypeOK DEF InFirst, TypeInv, Types, Prepare
<1>2. /\ op[n].at = "start" /\ op[n].phase = "prepare" /\ op[n].r = 1
      /\ UNCHANGED <<pin, loaded, sup, res, phase, done, turn>>
  BY FirstTarget DEF Prepare, Holds, platform
<1>3. op'[n].at = "reply" /\ op'[n].r = op[n].r /\ op'[n].phase = "prepare"
  BY <1>1, <1>2, Gone DEF Stages
<1>4. pending'[n] = 1
  BY <1>1, <1>2 DEF Prepare
<1>5. SameTurn(n) /\ SameKeyfiles(n)
  BY <1>2 DEF SameTurn, SameKeyfiles
<1>6. OpFirst(n) /\ PasswordFirst(n)
  BY DEF InFirst, FirstInv
<1>7. OpFirst(n)'
  BY <1>2, <1>3, <1>4, <1>6 DEF OpFirst, Live, Late, KeyPhases
<1>8. RootFirst(n)' /\ KeyFirst(n)'
  BY <1>3, <1>5, RootStays, KeyStays DEF KeyPhases
<1>9. PasswordFirst(n)'
  BY <1>2, <1>3, <1>6 DEF PasswordFirst, OpFirst, Late, KeyPhases
<1>10. QED
  BY <1>7, <1>8, <1>9 DEF FirstHolds

\* The restart intent, of the member whose turn it is.
LEMMA KeyPinFirst ==
  ASSUME InFirst, NEW n \in Nodes, KeyPin(n)
  PROVE  FirstHolds(n)'
<1>1. op \in [Nodes -> Requests] /\ pin \in [Nodes -> Pins] /\ Goto(n, "wait")
  BY TypesAreTypeOK DEF InFirst, TypeInv, Types, KeyPin
<1>2. OpFirst(n) /\ KeyFirst(n)
  BY DEF InFirst, FirstInv
<1>3. /\ op[n].at = "pinKey" /\ op[n].phase \in KeyPhases /\ op[n].r = 1
      /\ UNCHANGED <<loaded, sup, res, pending, phase, done, turn>>
  BY <1>2, FirstTarget DEF KeyPin, OpFirst, platform
<1>4. op'[n].at = "wait" /\ op'[n].r = op[n].r /\ op'[n].phase = op[n].phase
  BY <1>1, Gone DEF Stages
<1>5. turn = n /\ phase = op[n].phase /\ Target(n) = KeyAfter /\ New(n) = 2
  BY <1>3, FirstTarget
<1>6. pin'[n] = [password |-> 2, keyfile |-> KeyAfter]
  BY <1>1, <1>5 DEF KeyPin, WritePin
<1>7. SameTurn(n)
  BY <1>3 DEF SameTurn
<1>8. OpFirst(n)'
  BY <1>2, <1>3, <1>4, <1>5 DEF OpFirst, Live, Late, KeyPhases
<1>9. RootFirst(n)'
  BY <1>4, <1>7, RootStays
<1>10. KeyFirst(n)'
  <2>1. KeyBefore' = KeyBefore /\ KeyAfter' = KeyAfter
    BY <1>3 DEF KeyBefore, KeyAfter
  <2>2. QED
    BY <1>2, <1>3, <1>4, <1>5, <1>6, <2>1 DEF KeyFirst
<1>11. PasswordFirst(n)'
  BY <1>3, <1>4, <1>6, <1>7, PasswordStays
<1>12. QED
  BY <1>8, <1>9, <1>10, <1>11 DEF FirstHolds

\* What Verify has confirmed of the passwords, and the end of what was staged.
LEMMA VerifyFirst ==
  ASSUME InFirst, NEW n \in Nodes, VerifyPasswords(n)
  PROVE  FirstHolds(n)'
<1>1. op \in [Nodes -> Requests] /\ pending \in [Nodes -> 0..MaxRotations]
  BY TypesAreTypeOK DEF InFirst, TypeInv, Types
<1>2. OpFirst(n) /\ PasswordFirst(n)
  BY DEF InFirst, FirstInv
<1>3. /\ op[n].at = "verifyPasswords" /\ op[n].phase = "verify" /\ op[n].r = 1 /\ New(n) = 2
      /\ UNCHANGED <<pin, loaded, sup, res, phase, done, turn>>
  BY <1>2, FirstTarget DEF VerifyPasswords, OpFirst, platform
<1>4. SameTurn(n) /\ SameKeyfiles(n)
  BY <1>3 DEF SameTurn, SameKeyfiles
<1>5. CASE Goto(n, "reply") /\ pending' = [pending EXCEPT ![n] = 0] /\ pin[n].password = New(n)
  <2>1. op'[n].at = "reply" /\ op'[n].r = 1 /\ op'[n].phase = "verify"
    BY <1>1, <1>3, <1>5, Gone DEF Stages
  <2>2. pending'[n] = 0 /\ pin'[n].password = 2
    BY <1>1, <1>3, <1>5
  <2>3. OpFirst(n)'
    BY <1>2, <1>3, <2>1, <2>2 DEF OpFirst, Live, Late, KeyPhases
  <2>4. RootFirst(n)' /\ KeyFirst(n)'
    BY <1>4, <2>1, RootStays, KeyStays DEF KeyPhases
  <2>5. PasswordFirst(n)'
    BY <1>2, <1>3, <2>2 DEF PasswordFirst, Late, KeyPhases
  <2>6. QED
    BY <2>3, <2>4, <2>5 DEF FirstHolds
<1>6. CASE Fail(n) /\ pending' = pending
  <2>1. op'[n].at = "idle"
    BY <1>1, <1>6, Failed
  <2>2. QED
    BY <1>3, <1>6, <2>1, StepOfRequest
<1>7. QED
  BY <1>5, <1>6 DEF VerifyPasswords

\* An answer: of a pass, from the member whose restart is over.
LEMMA ReplyFirst ==
  ASSUME InFirst, NEW n \in Nodes, Reply(n)
  PROVE  FirstHolds(n)'
<1>1. op'[n].at = "idle"
  BY Failed, TypesAreTypeOK DEF InFirst, TypeInv, Types, Reply
<1>2. OpFirst(n) /\ RootFirst(n) /\ KeyFirst(n) /\ PasswordFirst(n)
  BY DEF InFirst, FirstInv
<1>3. UNCHANGED <<pin, pending, loaded, sup, res, phase, root>> /\ op[n].at = "reply"
  BY DEF Reply, volume, set
<1>4. KeyBefore' = KeyBefore /\ KeyAfter' = KeyAfter
  BY <1>3 DEF KeyBefore, KeyAfter
<1>5. CASE op[n].asked /\ op[n].phase = phase /\ done' = done \cup {n} /\ turn' = NoNode
  <2>1. OpFirst(n)'
    BY <1>1, <1>2, <1>3 DEF OpFirst, Live
  <2>2. RootFirst(n)'
    BY <1>1, <1>2, <1>3, <1>5 DEF RootFirst, Confirmed, Live, Late, KeyPhases
  <2>3. KeyFirst(n)'
    <3>1. turn' # n /\ n \in done'
      BY <1>5, NodeAssumption
    <3>2. CASE phase \in KeyPhases
      <4>1. turn = n
        BY <1>3, <1>5, <3>2, FirstTarget
      <4>2. sup[n].at = "idle" /\ pin[n].keyfile = KeyAfter /\ loaded[n] = KeyAfter
        BY <1>2, <1>3, <1>5, <3>2, <4>1 DEF KeyFirst
      <4>3. QED
        BY <1>3, <1>4, <3>1, <4>2 DEF KeyFirst
    <3>3. CASE phase \notin KeyPhases
      BY <1>2, <1>3, <1>4, <3>1, <3>3, FirstKeyfiles DEF KeyFirst
    <3>4. QED
      BY <3>2, <3>3
  <2>4. PasswordFirst(n)'
    BY <1>1, <1>2, <1>3, <1>5 DEF PasswordFirst, Late, KeyPhases
  <2>5. QED
    BY <2>1, <2>2, <2>3, <2>4 DEF FirstHolds
<1>6. CASE done' = done /\ turn' = turn
  BY <1>1, <1>3, <1>6, StepOfRequest
<1>7. QED
  BY <1>5, <1>6 DEF Reply

LEMMA OperationFirst ==
  ASSUME InFirst, NEW n \in Nodes, Operation(n) \/ Drop(n)
  PROVE  FirstInv'
<1>1. \A m \in Nodes : FirstHolds(m)'
  BY OperationOthers, StagesFirst, PrepareFirst, KeyPinFirst, VerifyFirst, ReplyFirst DEF Operation
<1>2. (turn \notin done)'
  <2>1. turn \notin done
    BY DEF InFirst, FirstInv
  <2>2. CASE Reply(n)
    <3>1. done \subseteq Nodes
      BY TypesAreTypeOK DEF InFirst, TypeInv, Types
    <3>2. QED
      BY <2>1, <2>2, <3>1, NodeAssumption DEF Reply
  <2>3. CASE ~Reply(n)
    <3>1. UNCHANGED <<turn, done>>
      BY <2>3 DEF Operation, Drop, Prepare, Database, Acknowledged, Member, MemberPin, Key,
         KeyCheck, KeyPin, KeyLoaded, KeyRefused, Verify, VerifyPasswords, platform
    <3>2. QED
      BY <2>1, <3>1
  <2>4. QED
    BY <2>2, <2>3
<1>3. QED
  BY <1>1, <1>2 DEF FirstHolds, FirstInv, InFirst

\* A member is asked the phase it has not answered, in a pass the one whose
\* turn it is.
LEMMA SendFirst ==
  ASSUME InFirst, NEW n \in Nodes, Send(n)
  PROVE  FirstInv'
<1>1. op \in [Nodes -> Requests] /\ rotation = 1 /\ op[n].at = "idle"
  BY TypesAreTypeOK, IdleOp DEF InFirst, TypeInv, Types, Send
<1>2. \A m \in Nodes : OpFirst(m) /\ RootFirst(m) /\ KeyFirst(m) /\ PasswordFirst(m)
  BY DEF InFirst, FirstInv
<1>3. /\ UNCHANGED <<pin, pending, loaded, sup, res, phase, done>> /\ turn' = n /\ n \notin done
      /\ phase # "done" /\ (phase # "database" => turn \in {n, NoNode})
  BY DEF Send, volume
<1>4. /\ op'[n].at = "start" /\ op'[n].phase = phase /\ op'[n].r = 1
      /\ \A m \in Nodes : m # n => op'[m] = op[m]
  BY <1>1 DEF Send
<1>5. ASSUME NEW m \in Nodes, m # n PROVE FirstHolds(m)'
  <2>1. phase \in KeyPhases => turn # m /\ turn' # m
    BY <1>3, <1>5, NodeAssumption DEF KeyPhases
  <2>2. SameTurn(m) /\ SameKeyfiles(m)
    BY <1>3, <2>1 DEF SameTurn, SameKeyfiles
  <2>3. QED
    BY <1>3, <1>4, <1>5, <2>2, OthersStay
<1>6. FirstHolds(n)'
  <2>1. OpFirst(n)'
    BY <1>2, <1>3, <1>4 DEF OpFirst, Live, Late, KeyPhases
  <2>2. RootFirst(n)'
    <3>1. CASE Late \/ (phase = "member" /\ n \in done)
      <4>1. root[n] = 1
        BY <1>2, <3>1 DEF RootFirst, Confirmed, Live
      <4>2. root' = root
        BY DEF Send, set
      <4>3. QED
        BY <1>4, <4>1, <4>2 DEF RootFirst
    <3>2. CASE ~(Late \/ (phase = "member" /\ n \in done))
      BY <1>3, <1>4, <3>2 DEF RootFirst, Confirmed, Live, Late, KeyPhases
    <3>3. QED
      BY <3>1, <3>2
  <2>3. KeyFirst(n)'
    <3>1. KeyBefore' = KeyBefore /\ KeyAfter' = KeyAfter
      BY <1>3 DEF KeyBefore, KeyAfter
    <3>2. KeyFirst(n)
      BY <1>2
    <3>3. CASE phase \in KeyPhases
      BY <1>3, <1>4, <3>1, <3>2, <3>3, FirstKeyfiles DEF KeyFirst
    <3>4. CASE phase \notin KeyPhases
      BY <1>3, <3>1, <3>2, <3>4 DEF KeyFirst
    <3>5. QED
      BY <3>3, <3>4
  <2>4. PasswordFirst(n)'
    <3>1. PasswordFirst(n)
      BY <1>2
    <3>2. QED
      BY <1>3, <1>4, <3>1 DEF PasswordFirst, Late, KeyPhases
  <2>5. QED
    BY <2>1, <2>2, <2>3, <2>4 DEF FirstHolds
<1>7. QED
  BY <1>3, <1>5, <1>6 DEF FirstHolds, FirstInv, InFirst

\* What is staged is the first rotation, and its Member phase is what it was.
LEMMA ReconcileFirst ==
  ASSUME InFirst, NEW n \in Nodes, Reconcile(n)
  PROVE  FirstInv'
<1>1. op \in [Nodes -> Requests] /\ OpFirst(n)
  BY TypesAreTypeOK DEF InFirst, TypeInv, Types, FirstInv
<1>2. UNCHANGED <<pin, pending, loaded, sup, res, phase, done, turn>> /\ pending[n] # 0
  BY DEF Reconcile, volume, platform
<1>3. /\ op'[n].at = "start" /\ op'[n].phase = "member" /\ op'[n].r = 1 /\ ~op'[n].asked
      /\ \A m \in Nodes : m # n => op'[m] = op[m]
  BY <1>1, <1>2 DEF Reconcile, OpFirst
<1>4. \A m \in Nodes : SameTurn(m) /\ SameKeyfiles(m)
  BY <1>2 DEF SameTurn, SameKeyfiles
<1>5. \A m \in Nodes : m # n => FirstHolds(m)'
  BY <1>2, <1>3, <1>4, OthersStay
<1>6. OpFirst(n)'
  BY <1>1, <1>2, <1>3 DEF OpFirst, Live, KeyPhases
<1>7. RootFirst(n)' /\ KeyFirst(n)' /\ PasswordFirst(n)'
  BY <1>2, <1>3, <1>4, RootStays, KeyStays, PasswordStays
<1>8. QED
  BY <1>2, <1>5, <1>6, <1>7 DEF FirstHolds, FirstInv, InFirst

\* Only the member whose turn it is is restarted, and on the keyfile its pass
\* goes over to.
LEMMA SuperviseFirst ==
  ASSUME InFirst, NEW n \in Nodes, Supervise(n) \/ HandoffFails(n)
  PROVE  FirstInv'
<1>1. /\ sup \in [Nodes -> Watches] /\ loaded \in [Nodes -> Keyfiles] /\ pin \in [Nodes -> Pins]
      /\ Quiet(n) /\ KeyFirst(n)
  BY TypesAreTypeOK DEF InFirst, TypeInv, Types, FirstInv
<1>2. UNCHANGED <<pin, pending, op, res, phase, done, turn>>
  BY DEF Supervise, HandoffFails, Notice, Handoff, StopMongod, SpawnMongod, volume, platform
<1>3. /\ \A m \in Nodes : SameTurn(m)
      /\ KeyBefore' = KeyBefore /\ KeyAfter' = KeyAfter
  BY <1>2 DEF SameTurn, KeyBefore, KeyAfter
<1>4. \A m \in Nodes : m # n => sup'[m] = sup[m] /\ loaded'[m] = loaded[m]
  <2>1. \A m \in Nodes : m # n => sup'[m] = sup[m]
    BY <1>1, Watched, WatchEnds, NoticeWatch
    DEF InFirst, Supervise, HandoffFails, Handoff, StopMongod, SpawnMongod
  <2>2. \A m \in Nodes : m # n => loaded'[m] = loaded[m]
    BY <1>1 DEF Supervise, HandoffFails, Notice, Handoff, StopMongod, SpawnMongod
  <2>3. QED
    BY <2>1, <2>2
<1>5. \A m \in Nodes : m # n => FirstHolds(m)'
  BY <1>2, <1>3, <1>4, OthersStay DEF SameKeyfiles
<1>6. OpFirst(n)' /\ RootFirst(n)' /\ PasswordFirst(n)'
  BY <1>2, <1>3, OpStays, RootStays, PasswordStays
<1>7. KeyFirst(n)'
  <2>1. CASE sup'[n] = sup[n] /\ loaded'[n] = loaded[n]
    BY <1>2, <1>3, <2>1, KeyStays DEF SameKeyfiles
  <2>2. CASE sup'[n].at = "idle" /\ loaded'[n] = loaded[n]
    BY <1>1, <1>2, <1>3, <2>2 DEF KeyFirst
  <2>3. CASE sup[n].at # "idle" /\ sup'[n].target = sup[n].target /\ loaded'[n] = loaded[n]
    BY <1>1, <1>2, <1>3, <2>3 DEF KeyFirst
  <2>4. CASE sup'[n].at = "handoff" /\ sup'[n].target = pin[n].keyfile /\ loaded' = loaded
             /\ loaded[n] \notin {pin[n].keyfile, NoKey}
    BY <1>1, <1>2, <1>3, <2>4 DEF KeyFirst
  <2>5. CASE sup[n].at # "idle" /\ sup'[n].at = "idle" /\ loaded'[n] = sup[n].target
    BY <1>1, <1>2, <1>3, <2>5, FirstKeyfiles DEF KeyFirst
  <2>6. CASE Notice(n)
    <3>1. loaded[n] # NoKey /\ loaded' = loaded
      BY <1>1, <2>6 DEF Notice, Quiet
    <3>2. CASE loaded[n] = pin[n].keyfile
      BY <2>1, <2>6, <3>1, <3>2 DEF Notice
    <3>3. CASE loaded[n] # pin[n].keyfile
      BY <2>1, <2>4, <2>6, <3>1, <3>3, NoticeWatch DEF InFirst
    <3>4. QED
      BY <3>2, <3>3
  <2>7. CASE Handoff(n) \/ HandoffFails(n)
    BY <1>1, <2>2, <2>3, <2>7, Watched, WatchEnds DEF Handoff, HandoffFails
  <2>8. CASE StopMongod(n)
    BY <1>1, <2>3, <2>8, Watched DEF StopMongod
  <2>9. CASE SpawnMongod(n)
    <3>1. loaded'[n] = sup[n].target /\ sup[n].at # "idle" /\ sup'[n].at = "idle"
      BY <1>1, <2>9, WatchEnds DEF SpawnMongod
    <3>2. QED
      BY <2>5, <3>1
  <2>10. QED
    BY <2>6, <2>7, <2>8, <2>9 DEF Supervise
<1>8. QED
  BY <1>2, <1>5, <1>6, <1>7 DEF FirstHolds, FirstInv, InFirst

\* The resolver writes a password mongod has accepted since the Member phase.
LEMMA ResolveFirst ==
  ASSUME InFirst, NEW n \in Nodes, Resolve(n)
  PROVE  FirstInv'
<1>1. /\ res \in [Nodes -> Resolvers] /\ pin \in [Nodes -> Pins] /\ pin[n].keyfile \in Keyfile
      /\ res[n].active \in Password
  BY TypesAreTypeOK, PinTypes, ResolverTypes DEF InFirst, TypeInv, Types
<1>2. UNCHANGED <<pending, op, loaded, sup, phase, done, turn, root>>
  BY DEF Resolve, ResolvePending, ResolveActive, ResolveEnv, ResolvePin, volume, set, platform
<1>3. \A m \in Nodes : m # n => res'[m] = res[m] /\ pin'[m] = pin[m]
  BY <1>1 DEF Resolve, ResolvePending, ResolveActive, ResolveEnv, ResolvePin, WritePasswordPin,
              WritePin, volume
<1>4. pin'[n].keyfile = pin[n].keyfile
  <2>1. CASE ResolvePin(n)
    BY <1>1, <2>1, PasswordPinned DEF ResolvePin, InFirst
  <2>2. CASE ~ResolvePin(n)
    BY <2>2 DEF Resolve, ResolvePending, ResolveActive, ResolveEnv, volume
  <2>3. QED
    BY <2>1, <2>2
<1>5. \A m \in Nodes : SameTurn(m) /\ SameKeyfiles(m)
  BY <1>2, <1>3, <1>4 DEF SameTurn, SameKeyfiles
<1>6. \A m \in Nodes : m # n => FirstHolds(m)'
  BY <1>2, <1>3, <1>5, OthersStay
<1>7. OpFirst(n)' /\ RootFirst(n)' /\ KeyFirst(n)'
  BY <1>2, <1>5, OpStays, RootStays, KeyStays
<1>8. PasswordFirst(n)'
  <2>1. PasswordFirst(n) /\ RootFirst(n) /\ OpFirst(n)
    BY DEF InFirst, FirstInv
  <2>2. \A pw : root[n] = 1 /\ Works(n, pw) => pw = 2
    BY FirstRoots DEF InFirst
  <2>3. CASE ResolvePending(n)
    <3>1. res'[n].at # "pin" /\ pin' = pin
      BY <1>1, <2>3 DEF ResolvePending, Resolvers, volume
    <3>2. QED
      BY <1>2, <1>5, <3>1, PasswordStays
  <2>4. CASE ResolveActive(n) \/ ResolveEnv(n)
    <3>1. res'[n].at = "pin" /\ Works(n, res'[n].active) /\ pin' = pin
      BY <1>1, <2>4 DEF ResolveActive, ResolveEnv, Resolvers, volume
    <3>2. Late => res'[n].active = 2
      BY <2>1, <2>2, <3>1 DEF RootFirst, Confirmed, Live
    <3>3. QED
      BY <1>2, <2>1, <3>1, <3>2 DEF PasswordFirst, Late, KeyPhases
  <2>5. CASE ResolvePin(n)
    <3>1. pin'[n].password = res[n].active /\ res[n].at = "pin"
      BY <1>1, <2>5 DEF ResolvePin, WritePasswordPin, WritePin
    <3>2. res'[n].at # "pin"
      BY <1>1, <2>5 DEF ResolvePin, NoResolver, Resolvers
    <3>3. CASE Late
      BY <1>2, <1>5, <2>1, <3>1, <3>2, <3>3, PasswordStays DEF PasswordFirst
    <3>4. CASE ~Late
      <4>1. ~(op[n].at = "reply" /\ op[n].phase = "verify") /\ phase \notin {"verify", "done"}
        BY <2>1, <3>4 DEF OpFirst, Live, Late
      <4>2. QED
        BY <1>2, <3>2, <4>1 DEF PasswordFirst, Late
    <3>5. QED
      BY <3>3, <3>4
  <2>6. QED
    BY <2>3, <2>4, <2>5 DEF Resolve
<1>9. QED
  BY <1>2, <1>6, <1>7, <1>8 DEF FirstHolds, FirstInv, InFirst

\* Two keyfiles the members have now are never disjoint.
LEMMA FilesOverlap ==
  ASSUME InFirst, NEW n \in Nodes, NEW m \in Nodes, loaded[m] # NoKey
  PROVE  Overlap(pin[n].keyfile, loaded[m])
<1>1. KeyFirst(n) /\ KeyFirst(m)
  BY DEF InFirst, FirstInv
<1>2. pin[n].keyfile \in {KeyBefore, KeyAfter} /\ loaded[m] \in {KeyBefore, KeyAfter}
  BY <1>1 DEF KeyFirst
<1>3. QED
  BY <1>2, FirstKeyfiles

\* A boot starts from the keyfile there is.
LEMMA RestartFirst ==
  ASSUME InFirst, NEW n \in Nodes, Crash(n) \/ Boot(n) \/ Render(n)
  PROVE  FirstInv'
<1>1. /\ res \in [Nodes -> Resolvers] /\ sup \in [Nodes -> Watches] /\ loaded \in [Nodes -> Keyfiles]
      /\ op \in [Nodes -> Requests]
      /\ Quiet(n) /\ OpFirst(n) /\ RootFirst(n) /\ KeyFirst(n) /\ PasswordFirst(n)
  BY TypesAreTypeOK DEF InFirst, TypeInv, Types, FirstInv
<1>2. UNCHANGED <<pending, phase, done, turn>>
  BY DEF Crash, Boot, Render, volume, platform
<1>3. pin' = pin
  <2>1. CASE Boot(n)
    <3>1. ASSUME NEW keyfile \in Handed(n, Candidates(n)) PROVE ~Disjoint(pin[n].keyfile, keyfile)
      <4>1. keyfile \in Keyfile /\ \E m \in Nodes : keyfile = loaded[m]
        BY HandedKeyfiles DEF InFirst
      <4>2. QED
        BY <4>1, KeyfileKeys, FilesOverlap DEF Disjoint
    <3>2. QED
      BY <2>1, <3>1 DEF Boot
  <2>2. CASE ~Boot(n)
    BY <2>2 DEF Crash, Render, volume
  <2>3. QED
    BY <2>1, <2>2
<1>4. /\ \A m \in Nodes : SameTurn(m)
      /\ KeyBefore' = KeyBefore /\ KeyAfter' = KeyAfter
  BY <1>2 DEF SameTurn, KeyBefore, KeyAfter
<1>5. \A m \in Nodes : m # n =>
        op'[m] = op[m] /\ res'[m] = res[m] /\ sup'[m] = sup[m] /\ loaded'[m] = loaded[m]
  BY <1>1 DEF Crash, Boot, Render
<1>6. \A m \in Nodes : m # n => FirstHolds(m)'
  BY <1>2, <1>3, <1>4, <1>5, OthersStay DEF SameKeyfiles
<1>7. ASSUME Crash(n) PROVE FirstHolds(n)'
  <2>1. op'[n].at = "idle" /\ sup'[n].at = "idle" /\ loaded'[n] = NoKey /\ res'[n].at # "pin"
    BY <1>1, <1>7, IdleOp, WatchTypes DEF Crash, NoResolver
  <2>2. OpFirst(n)'
    BY <1>1, <1>2, <2>1 DEF OpFirst, Live
  <2>3. RootFirst(n)' /\ PasswordFirst(n)'
    BY <1>2, <1>3, <1>4, <2>1, RootStays, PasswordStays
  <2>4. KeyFirst(n)'
    BY <1>1, <1>2, <1>3, <1>4, <2>1, FirstKeyfiles DEF KeyFirst
  <2>5. QED
    BY <2>2, <2>3, <2>4 DEF FirstHolds
<1>8. ASSUME Boot(n) PROVE FirstHolds(n)'
  BY <1>2, <1>3, <1>4, <1>8, OthersStay DEF SameKeyfiles, Boot
<1>9. ASSUME Render(n) PROVE FirstHolds(n)'
  <2>1. op'[n] = op[n] /\ sup'[n] = sup[n] /\ loaded'[n] = pin[n].keyfile /\ res'[n].at # "pin"
    BY <1>1, <1>9 DEF Render
  <2>2. op[n].at = "idle" /\ sup[n].at = "idle"
    BY <1>1, <1>9 DEF Render, Quiet
  <2>3. OpFirst(n)' /\ RootFirst(n)' /\ PasswordFirst(n)'
    BY <1>2, <1>3, <1>4, <2>1, OpStays, RootStays, PasswordStays
  <2>4. KeyFirst(n)'
    BY <1>1, <1>2, <1>3, <1>4, <2>1, <2>2 DEF KeyFirst
  <2>5. QED
    BY <2>3, <2>4 DEF FirstHolds
<1>10. QED
  BY <1>2, <1>6, <1>7, <1>8, <1>9 DEF FirstHolds, FirstInv, InFirst

LEMMA SetFirst ==
  ASSUME InFirst, NEW n \in Nodes, Elect(n) \/ Lapse \/ Replicate(n)
  PROVE  FirstInv'
<1>1. UNCHANGED <<pin, pending, loaded, sup, op, res, phase, done, turn>>
  BY DEF Elect, Lapse, Replicate, volume, process, platform
<1>2. \A m \in Nodes : FirstHolds(m)'
  BY <1>1, OthersStay DEF SameTurn, SameKeyfiles
<1>3. QED
  BY <1>1, <1>2 DEF FirstHolds, FirstInv, InFirst

\* A phase is over with the answer of every member, and no pass is begun while
\* a member is between two keyfiles.
LEMMA ProceedFirst ==
  ASSUME InFirst, Proceed
  PROVE  FirstInv'
<1>1. /\ done \subseteq Nodes /\ turn \in Nodes \cup {NoNode} /\ phase \in PhaseNames
      /\ phase # "done" /\ turn \notin done
      /\ \A m \in Nodes : OpFirst(m) /\ RootFirst(m) /\ KeyFirst(m) /\ PasswordFirst(m)
  BY TypesAreTypeOK DEF InFirst, TypeInv, Types, FirstInv, Proceed
<1>2. /\ UNCHANGED <<pin, pending, loaded, sup, op, res, root>>
      /\ phase' = Successor(phase) /\ done' = {} /\ turn' = NoNode
      /\ phase # "database" => done = Nodes
      /\ \A m \in Nodes : res[m].at # "pin"
  BY DEF Proceed, volume, process, set
<1>3. /\ phase' \in PhaseNames
      /\ phase' = "keyCommit" <=> phase = "keyPrepare"
      /\ phase' = "keyPrepare" <=> phase = "member"
      /\ phase' = "verify" <=> phase = "keyCommit"
      /\ phase' = "done" <=> phase = "verify"
      /\ phase' = "member" <=> phase = "database"
      /\ phase' = "database" <=> phase = "prepare"
  BY <1>1, <1>2, NextPhase
<1>4. (turn \notin done)'
  BY <1>2
<1>5. ASSUME NEW m \in Nodes PROVE FirstHolds(m)'
  <2>1. ~(phase \in KeyPhases /\ turn = m)
    BY <1>1, <1>2 DEF KeyPhases
  <2>2. op[m].at # "idle" => op[m].phase \notin KeyPhases
    BY <1>1, <2>1 DEF OpFirst
  <2>3. Late' => (Late \/ phase = "member") /\ m \in done
    BY <1>2, <1>3 DEF Late, KeyPhases
  <2>4. OpFirst(m)'
    BY <1>1, <1>2, <1>3, <2>2, <2>3 DEF OpFirst, Live, Late, KeyPhases
  <2>5. RootFirst(m)'
    BY <1>1, <1>2, <1>3, <2>3 DEF RootFirst, OpFirst, Confirmed, Live, Late
  <2>6. KeyFirst(m)'
    <3>1. sup[m].at = "idle" /\ loaded[m] \in {pin[m].keyfile, NoKey}
          /\ pin[m].keyfile = IF m \in done THEN KeyAfter ELSE KeyBefore
      BY <1>1, <2>1 DEF KeyFirst
    <3>2. pin[m].keyfile = KeyBefore'
      <4>1. CASE phase = "database"
        BY <1>2, <1>3, <3>1, <4>1 DEF KeyAfter, KeyBefore, KeyPhases, PhaseNames
      <4>2. CASE phase # "database"
        BY <1>1, <1>2, <1>3, <3>1, <4>2 DEF KeyAfter, KeyBefore, KeyPhases, PhaseNames
      <4>3. QED
        BY <4>1, <4>2
    <3>3. QED
      BY <1>2, <3>1, <3>2, NodeAssumption DEF KeyFirst
  <2>7. PasswordFirst(m)'
    BY <1>1, <1>2, <1>3, <2>3 DEF PasswordFirst
  <2>8. QED
    BY <2>4, <2>5, <2>6, <2>7 DEF FirstHolds
<1>6. QED
  BY <1>4, <1>5 DEF FirstHolds, FirstInv, InFirst

\* The platform begins again only before the passes: they find every member
\* on the new password.
LEMMA RepeatFirst ==
  ASSUME InFirst, Repeat
  PROVE  FirstInv'
<1>1. \A m \in Nodes : OpFirst(m) /\ RootFirst(m) /\ KeyFirst(m) /\ PasswordFirst(m)
  BY DEF InFirst, FirstInv
<1>2. /\ UNCHANGED <<pin, pending, loaded, sup, op, res, root>>
      /\ phase' = "prepare" /\ done' = {} /\ turn' = NoNode
      /\ phase \in {"member"} \cup KeyPhases
  BY DEF Repeat, volume, process, set
<1>3. phase = "member"
  <2>1. primary \in Nodes /\ Pw(root[primary]) # Request(1).new
    BY TypesAreTypeOK DEF InFirst, TypeInv, Types, Repeat
  <2>2. root[primary] # 1
    BY <2>1, FirstRequest
  <2>3. ~Late
    BY <1>1, <2>1, <2>2 DEF RootFirst, Confirmed, Live
  <2>4. QED
    BY <1>2, <2>3 DEF Late, KeyPhases
<1>4. \A m \in Nodes : op[m].at # "idle" => op[m].phase \notin KeyPhases /\ op[m].phase # "verify"
  BY <1>1, <1>3 DEF OpFirst, Live, KeyPhases
<1>5. ASSUME NEW m \in Nodes PROVE FirstHolds(m)'
  <2>1. OpFirst(m)'
    BY <1>1, <1>2, <1>4 DEF OpFirst, Live, Late, KeyPhases
  <2>2. RootFirst(m)'
    BY <1>1, <1>2 DEF RootFirst, Confirmed, Live, Late, KeyPhases
  <2>3. KeyFirst(m)'
    BY <1>1, <1>2, <1>3 DEF KeyFirst, KeyBefore, KeyAfter, KeyPhases
  <2>4. PasswordFirst(m)'
    BY <1>2, <1>4 DEF PasswordFirst, Late, KeyPhases
  <2>5. QED
    BY <2>1, <2>2, <2>3, <2>4 DEF FirstHolds
<1>6. QED
  BY <1>2, <1>5 DEF FirstHolds, FirstInv, InFirst

\* A change of the stored password is the primary's, or comes from it.
LEMMA RootMoves ==
  ASSUME Next
  PROVE  \/ root' = root /\ primary' \in {primary, NoNode}
         \/ \E n \in Nodes :
              \/ Elect(n) \/ Replicate(n)
              \/ primary = n /\ primary' = primary /\ root' = [root EXCEPT ![n] = @ + 1]
<1>1. ASSUME NEW n \in Nodes, Database(n), root' # root
      PROVE  primary = n /\ primary' = primary /\ root' = [root EXCEPT ![n] = @ + 1]
  BY <1>1 DEF Database
<1>2. ASSUME NEW n \in Nodes, Operation(n) \/ Drop(n), ~Database(n) \/ root' = root
      PROVE  root' = root /\ primary' = primary
  BY <1>2 DEF Operation, Drop, Prepare, Database, Acknowledged, Member, MemberPin, Key, KeyCheck,
     KeyPin, KeyLoaded, KeyRefused, Verify, VerifyPasswords, Reply, set
<1>3. ASSUME NEW n \in Nodes, Supervise(n) \/ HandoffFails(n)
      PROVE  root' = root /\ primary' \in {primary, NoNode}
  BY <1>3 DEF Supervise, Notice, Handoff, StopMongod, SpawnMongod, HandoffFails, set
<1>4. ASSUME NEW n \in Nodes, Send(n) \/ Reconcile(n) \/ Resolve(n) \/ Boot(n) \/ Render(n)
      PROVE  root' = root /\ primary' = primary
  BY <1>4 DEF Send, Reconcile, Resolve, ResolvePending, ResolveActive, ResolveEnv, ResolvePin,
     Boot, Render, set
<1>5. ASSUME Proceed \/ Repeat \/ TurnBack \/ Lapse \/ \E n \in Nodes : Crash(n)
      PROVE  root' = root /\ primary' \in {primary, NoNode}
  BY <1>5 DEF Proceed, Repeat, TurnBack, Lapse, Crash, set
<1>6. QED
  BY <1>1, <1>2, <1>3, <1>4, <1>5 DEF Next, NodeStep

\* Who has the new password keeps it while they are a majority, and one of them
\* leads: a candidate is not behind a majority, which meets theirs.
LEMMA MajorityKeeps ==
  ASSUME TypeInv, TypeInv', ChangedLeads, rotation = 1, rotation' = 1, Next
  PROVE  ChangedLeads' /\ (Majority(Changed) => Changed \subseteq Changed')
<1>1. /\ \A n \in Nodes : root[n] \in {0, 1} /\ root'[n] \in {0, 1}
      /\ root \in [Nodes -> 0..MaxRotations] /\ primary \in Nodes \cup {NoNode}
  <2>1. \A n \in Nodes : root'[n] \in Nat /\ root'[n] <= 1
    BY TypesAreTypeOKNext DEF TypeInv, Types, RootsAsked
  <2>2. \A n \in Nodes : root'[n] \in {0, 1}
    BY <2>1
  <2>3. QED
    BY <2>2, FirstRoots, TypesAreTypeOK DEF TypeInv, Types
<1>2. IsFiniteSet(Nodes) /\ Cardinality(Nodes) \in Nat
  BY NodeAssumption, FS_CardinalityType
<1>3. CASE root' = root /\ primary' \in {primary, NoNode}
  BY <1>3 DEF ChangedLeads, Changed, Majority
<1>4. ASSUME NEW n \in Nodes, Elect(n) PROVE ChangedLeads' /\ Changed' = Changed
  <2> DEFINE Behind == {m \in Reached(n) : root[m] <= root[n]}
  <2>1. /\ root' = root /\ primary' = n
        /\ 2 * Cardinality(Behind) > Cardinality(Nodes)
    BY <1>4 DEF Elect, Majority
  <2>2. Behind \subseteq Nodes /\ Changed \subseteq Nodes
    BY DEF Reached, Changed
  <2>3. ASSUME Majority(Changed) PROVE n \in Changed
    <3>1. Cardinality(Behind) + Cardinality(Changed) > Cardinality(Nodes)
      <4>1. Cardinality(Behind) \in Nat /\ Cardinality(Changed) \in Nat
        BY <1>2, <2>2, FS_Subset, FS_CardinalityType
      <4>2. QED
        BY <1>2, <2>1, <2>3, <4>1 DEF Majority
    <3>2. Behind \cap Changed # {}
      BY <1>2, <2>2, <3>1, FS_MajoritiesIntersect
    <3>3. QED
      BY <1>1, <3>2 DEF Changed
  <2>4. QED
    BY <2>1, <2>3 DEF ChangedLeads, Changed, Majority
<1>5. ASSUME NEW n \in Nodes, primary = n, primary' = primary, root' = [root EXCEPT ![n] = @ + 1]
      PROVE  ChangedLeads' /\ Changed \subseteq Changed'
  <2>1. root'[n] = 1 /\ \A m \in Nodes : m # n => root'[m] = root[m]
    BY <1>1, <1>5
  <2>2. QED
    BY <1>5, <2>1 DEF ChangedLeads, Changed
<1>6. ASSUME NEW n \in Nodes, Replicate(n)
      PROVE  ChangedLeads' /\ (Majority(Changed) => Changed \subseteq Changed')
  <2>1. /\ primary \in Nodes /\ primary # NoNode /\ primary' = primary /\ primary # n
        /\ root'[n] = root[primary] /\ \A m \in Nodes : m # n => root'[m] = root[m]
    BY <1>1, <1>6 DEF Replicate
  <2>2. CASE root[primary] = 1
    BY <2>1, <2>2 DEF ChangedLeads, Changed
  <2>3. CASE root[primary] # 1
    <3>1. ~Majority(Changed)
      BY <2>1, <2>3, NodeAssumption DEF ChangedLeads, Changed
    <3>2. Changed' \subseteq Changed /\ Changed \subseteq Nodes
      BY <2>1, <2>3 DEF Changed
    <3>3. ~Majority(Changed')
      <4>1. IsFiniteSet(Changed) /\ Cardinality(Changed) \in Nat
        BY <1>2, <3>2, FS_Subset, FS_CardinalityType
      <4>2. Cardinality(Changed') \in Nat /\ Cardinality(Changed') <= Cardinality(Changed)
        BY <3>2, <4>1, FS_Subset, FS_CardinalityType
      <4>3. QED
        BY <1>2, <3>1, <4>1, <4>2 DEF Majority
    <3>4. QED
      BY <3>1, <3>3 DEF ChangedLeads, Majority
  <2>4. QED
    BY <2>2, <2>3
<1>7. QED
  BY <1>3, <1>4, <1>5, <1>6, RootMoves

\* Whoever has confirmed the new password is one of a majority.
LEMMA NobodyLoses ==
  ASSUME TypeInv, TypeInv', FirstInv, Durable, rotation = 1, rotation' = 1, Next
  PROVE  NoLoss /\ ChangedLeads'
<1>1. ChangedLeads' /\ (Majority(Changed) => Changed \subseteq Changed')
  BY MajorityKeeps DEF FirstInv
<1>2. ASSUME NEW n \in Nodes, Confirmed(n) PROVE root[n] = 1 /\ root'[n] = 1
  <2>1. root[n] = 1
    BY <1>2 DEF FirstInv, RootFirst
  <2>2. Majority(Changed)
    <3>1. CASE phase = "member"
      BY <3>1 DEF Durable
    <3>2. CASE Late
      <4>1. Changed = Nodes
        BY <3>2 DEF FirstInv, RootFirst, Confirmed, Changed
      <4>2. Cardinality(Nodes) \in Nat /\ Cardinality(Nodes) # 0
        BY NodeAssumption, FS_CardinalityType, FS_EmptySet
      <4>3. QED
        BY <4>1, <4>2 DEF Majority
    <3>3. QED
      BY <1>2, <3>1, <3>2 DEF Confirmed
  <2>3. QED
    BY <1>1, <2>1, <2>2 DEF Changed
<1>3. QED
  BY <1>1, <1>2 DEF NoLoss

LEMMA FirstStep ==
  ASSUME TypeInv, TypeInv', FirstInv, [Next]_vars, Durable
  PROVE  FirstInv'
<1>1. CASE UNCHANGED vars
  BY <1>1 DEF vars, volume, process, set, platform, FirstInv, ChangedLeads, Changed, Majority, OpFirst, RootFirst, Confirmed, Live, KeyFirst,
       PasswordFirst, Late, KeyBefore, KeyAfter
<1>2. CASE rotation' # 1
  BY <1>2 DEF FirstInv
<1>3. CASE Next /\ ~UNCHANGED vars /\ rotation' = 1
  <2>1. rotation = 1
    <3>1. rotation \in Nat /\ rotation > 0
      BY TypesAreTypeOK, BoundAssumption DEF TypeInv, Types
    <3>2. rotation' \in {rotation, rotation + 1}
      <4>1. CASE TurnBack
        BY <4>1 DEF TurnBack
      <4>2. ASSUME NEW n \in Nodes, Operation(n) \/ Drop(n) PROVE rotation' = rotation
        BY <4>2 DEF Operation, Drop, Prepare, Database, Acknowledged, Member, MemberPin, Key, KeyCheck,
           KeyPin, KeyLoaded, KeyRefused, Verify, VerifyPasswords, Reply, platform
      <4>3. ASSUME NEW n \in Nodes, Supervise(n) \/ HandoffFails(n) \/ Resolve(n)
            PROVE  rotation' = rotation
        BY <4>3 DEF Supervise, Notice, Handoff, StopMongod, SpawnMongod, HandoffFails, Resolve,
           ResolvePending, ResolveActive, ResolveEnv, ResolvePin, platform
      <4>4. ASSUME NEW n \in Nodes, Send(n) \/ Reconcile(n) \/ Crash(n) \/ Boot(n) \/ Render(n)
                                     \/ Elect(n) \/ Replicate(n)
            PROVE  rotation' = rotation
        BY <4>4 DEF Send, Reconcile, Crash, Boot, Render, Elect, Replicate, platform
      <4>5. CASE Proceed \/ Repeat \/ Lapse
        BY <4>5 DEF Proceed, Repeat, Lapse, platform
      <4>6. QED
        BY <1>3, <4>1, <4>2, <4>3, <4>4, <4>5 DEF Next, NodeStep
    <3>3. QED
      BY <1>3, <3>1, <3>2
  <2>2. InFirst
    BY <1>3, <2>1, NobodyLoses DEF InFirst
  <2>3. ~TurnBack
    BY <1>3, <2>1 DEF TurnBack
  <2>4. CASE Lapse
    BY <2>2, <2>4, NodeAssumption, SetFirst
  <2>5. QED
    BY <1>3, <2>2, <2>3, <2>4, ProceedFirst, RepeatFirst, SendFirst, ReconcileFirst, OperationFirst,
       SuperviseFirst, ResolveFirst, RestartFirst, SetFirst DEF Next, NodeStep
<1>4. QED
  BY <1>1, <1>2, <1>3

LEMMA FirstInit == Init => FirstInv
<1> SUFFICES ASSUME Init PROVE FirstInv
  OBVIOUS
<1>1. \A n \in Nodes : /\ op[n].at = "idle" /\ sup[n].at = "idle" /\ res[n].at # "pin"
                       /\ pending[n] = 0 /\ pin[n].keyfile = <<1>> /\ loaded[n] = <<1>>
  BY IdleOp, WatchTypes DEF Init, NoResolver
<1>2. phase = "prepare" /\ turn \notin done /\ done = {}
  BY DEF Init
<1>3. KeyBefore = <<1>>
  BY <1>2 DEF KeyBefore
<1>4. ASSUME NEW n \in Nodes PROVE OpFirst(n) /\ RootFirst(n) /\ KeyFirst(n) /\ PasswordFirst(n)
  BY <1>1, <1>2, <1>3 DEF OpFirst, RootFirst, Confirmed, Live, KeyFirst, PasswordFirst, Late, KeyPhases
<1>5. ~Majority(Changed)
  <2>1. Changed = {}
    BY DEF Init, Changed
  <2>2. Cardinality(Changed) = 0 /\ Cardinality(Nodes) \in Nat
    BY <2>1, NodeAssumption, FS_EmptySet, FS_CardinalityType
  <2>3. QED
    BY <2>2 DEF Majority
<1>6. QED
  BY <1>2, <1>4, <1>5 DEF FirstInv, ChangedLeads

\* In the first rotation two members are never down at once for its sake, if its
\* Database phase ends with a majority that has the new password: for any
\* members, crashes, lost responses and refused hand-offs.  From a change that
\* only the primary has, a roll-back could send the platform back to the first
\* phase when members have confirmed the password already.
THEOREM OneRestartHolds == Spec /\ []Durable => []OneRestart
<1>1. TypeInv /\ FirstInv => OneRestart
  <2> DEFINE Down == {n \in Nodes : sup[n].at \in {"stop", "stepped", "spawn"}}
  <2> SUFFICES ASSUME TypeInv, FirstInv, rotation = 1 PROVE Cardinality(Down) <= 1
    BY DEF OneRestart
  <2>1. Down \subseteq {turn}
    <3>1. ASSUME NEW n \in Down PROVE n = turn
      <4>1. KeyFirst(n) /\ sup[n].at # "idle"
        BY DEF FirstInv
      <4>2. QED
        BY <4>1 DEF KeyFirst
    <3>2. QED
      BY <3>1
  <2> HIDE DEF Down
  <2>2. IsFiniteSet({turn}) /\ Cardinality({turn}) = 1
    BY FS_Singleton
  <2>3. IsFiniteSet(Down) /\ Cardinality(Down) <= Cardinality({turn})
    BY <2>1, <2>2, FS_Subset
  <2>4. QED
    BY <2>2, <2>3
<1>2. TypeInv /\ TypeInv' /\ FirstInv /\ [Next]_vars /\ Durable => FirstInv'
  BY FirstStep
<1>3. QED
  BY <1>1, <1>2, TypeInvInit, TypeInvStep, FirstInit, PTL DEF Spec

\* What Verify has confirmed of the first rotation stays confirmed, whatever
\* the resolver, the background Member phase and crashes do later, on the same
\* assumption.
THEOREM SettledHolds == Spec /\ []Durable => [](rotation = 1 => Settled)
<1>1. TypeInv /\ FirstInv => (rotation = 1 => Settled)
  <2> SUFFICES ASSUME TypeInv, FirstInv, rotation = 1, phase = "done", NEW n \in Nodes
               PROVE  /\ pin[n] = [password |-> Pw(rotation), keyfile |-> <<Pw(rotation)>>]
                      /\ Accepted(n) = <<Pw(rotation)>>
                      /\ pending[n] = 0
    BY DEF Settled
  <2>1. KeyFirst(n) /\ PasswordFirst(n) /\ Quiet(n) /\ pin[n] \in Pins
    BY TypesAreTypeOK DEF TypeInv, FirstInv, Types
  <2>2. KeyBefore = <<2>> /\ KeyAfter = <<2>>
    BY DEF KeyBefore, KeyAfter
  <2>3. pin[n].keyfile = <<2>> /\ loaded[n] \in {<<2>>, NoKey} /\ pin[n].password = 2 /\ pending[n] = 0
    BY <2>1, <2>2 DEF KeyFirst, PasswordFirst, KeyPhases
  <2>4. pin[n] = [password |-> 2, keyfile |-> <<2>>]
    BY <2>1, <2>3 DEF Pins
  <2>5. Accepted(n) = <<2>>
    BY <2>1, <2>3 DEF Accepted, Running, Quiet
  <2>6. QED
    BY <2>3, <2>4, <2>5, FirstRequest
<1>2. TypeInv /\ TypeInv' /\ FirstInv /\ [Next]_vars /\ Durable => FirstInv'
  BY FirstStep
<1>3. QED
  BY <1>1, <1>2, TypeInvInit, TypeInvStep, FirstInit, PTL DEF Spec

===============================================================================
