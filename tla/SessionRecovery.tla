--------------------------- MODULE SessionRecovery ---------------------------
(***************************************************************************)
(* The pooled client of one mongo::Mongo handle, and how concurrent        *)
(* callers keep it working: Mongo::admin adopts a staged password once     *)
(* mongod accepts it, Mongo::recovering runs the command, RecoveryPolicy   *)
(* decides whether its failure replaces the pool, Mongo::rebuild replaces  *)
(* it.  Nothing is held from one await to the next, so the callers         *)
(* interleave between any two of these steps.                              *)
(*                                                                         *)
(* External: mongod (whether it answers, the root password it stores, the  *)
(* sessions it logs out) and the phases of a password rotation.            *)
(*                                                                         *)
(* Passwords are numbered in the order they are rotated in, 0 standing for *)
(* "no root user yet".  Pool.generation is only compared with the one a     *)
(* caller fetched, so the model records for each caller whether the pool   *)
(* has been replaced since.  The sockets of the pool share their fate.     *)
(* Time is discrete: one Tick is one REBUILD_BACKOFF_MIN.                  *)
(***************************************************************************)
EXTENDS Integers, FiniteSets

CONSTANTS
  Callers,       \* the tasks that use the handle
  Pollers,       \* those that only issue authenticated commands
  Threshold,     \* TRANSPORT_FAILURES_BEFORE_REBUILD
  MaxBackoff,    \* REBUILD_BACKOFF_MAX, in REBUILD_BACKOFF_MINs
  LastPassword,  \* bound: passwords 1..LastPassword, LastPassword - 1 rotations
  MaxFaults      \* bound: outages and logouts

ASSUME CallerAssumption == IsFiniteSet(Callers) /\ Pollers \subseteq Callers
ASSUME BoundAssumption ==
  /\ Threshold \in Nat \ {0}
  /\ MaxBackoff \in Nat \ {0}
  /\ LastPassword \in Nat \ {0}
  /\ MaxFaults \in Nat

VARIABLES
  call,       \* what each caller is doing
  pool,       \* Pool.client: its password and the state of its sockets
  password,   \* Mongo.password
  policy,     \* RecoveryPolicy
  up,         \* mongod answers
  rootPw,     \* the password mongod stores for the root user
  staged,     \* the password in .railway_rotation, 0 if there is no such file
  pin,        \* the password of the pin on disk
  faults,     \* faults so far
  suspect,    \* history: a caller saw a command fail on the pool as it is now
  worked      \* history: no authentication failure noted since the last proof

server == <<up, rootPw, staged, pin, faults>>
vars == <<call, pool, password, policy, server, suspect, worked>>

Password == 0..LastPassword
Sockets == {"none", "live", "loggedOut"}
Client == [password : Password, sockets : Sockets]
Fresh(pw) == [password |-> pw, sockets |-> "none"]

\* needs: the command needs an authenticated session; staged: the candidate
\* to probe or adopt; observed: the pool is still the one fetched; client:
\* the client fetched, when it is not.
Idle == [at |-> "idle", needs |-> FALSE, staged |-> 0, observed |-> FALSE,
         client |-> Fresh(0), outcome |-> "none"]
NoWindow == [fails |-> 0, backoff |-> 1, pending |-> "none", wait |-> 0]

Call ==
  [at : {"idle", "probe", "adopt", "fetch", "run", "note",
         "rebuild", "refetch", "rerun", "renote"},
   needs : BOOLEAN, staged : Password, observed : BOOLEAN, client : Client,
   outcome : {"none", "answered", "shut", "auth", "transport"}]
Policy ==
  [fails : 0..Threshold, backoff : 1..MaxBackoff,
   pending : {"none", "auth", "transport"}, wait : 0..MaxBackoff]

TypeOK ==
  /\ call \in [Callers -> Call]
  /\ pool \in Client
  /\ password \in 1..LastPassword
  /\ policy \in Policy
  /\ up \in BOOLEAN
  /\ rootPw \in Password /\ staged \in Password /\ pin \in Password
  /\ faults \in 0..MaxFaults
  /\ suspect \in BOOLEAN
  /\ worked \in BOOLEAN

Init ==
  /\ call = [c \in Callers |-> Idle]
  /\ pool = Fresh(1) /\ password = 1
  /\ policy = NoWindow
  /\ up = TRUE /\ rootPw \in {0, 1} /\ staged = 0 /\ pin = 0 /\ faults = 0
  /\ suspect = FALSE /\ worked = FALSE

-----------------------------------------------------------------------------
(* The pool.                                                               *)

\* What the calls become when the pool is replaced: one whose command is out
\* keeps the old client.
Overtaken(calls) == [c \in Callers |->
  [calls[c] EXCEPT
    !.observed = FALSE,
    !.client = IF calls[c].observed /\ calls[c].at \in {"run", "rerun"} THEN pool ELSE @]]

\* A fresh client for password pw becomes the pool, with no socket yet.
Replace(pw, calls) ==
  /\ pool' = Fresh(pw)
  /\ suspect' = FALSE
  /\ call' = Overtaken(calls)

\* Mongo::swap_password: whatever generation it finds.
SwapPassword(pw, calls) == Replace(pw, calls) /\ password' = pw

\* The candidate works: probe_local_password on a throwaway connection.
Accepted(pw) == up /\ rootPw = pw

Goto(c, at) == call' = [call EXCEPT ![c].at = at]

\* The call of c, at a point where all it holds is its command.
Onward(c, at) == [Idle EXCEPT !.at = at, !.needs = call[c].needs]

-----------------------------------------------------------------------------
(* One call of Mongo::admin.                                               *)

\* The staged password is read, and probed if it is not the active one.
Begin(c, needs) ==
  /\ call[c].at = "idle"
  /\ c \in Pollers => needs
  /\ call' = [call EXCEPT ![c] =
       [Idle EXCEPT !.needs = needs,
                    !.staged = IF staged = password THEN 0 ELSE staged,
                    !.at = IF staged \in {0, password} THEN "fetch" ELSE "probe"]]
  /\ UNCHANGED <<pool, password, policy, server, suspect, worked>>

Probe(c) ==
  /\ call[c].at = "probe"
  /\ Goto(c, IF Accepted(call[c].staged) THEN "adopt" ELSE "fetch")
  /\ UNCHANGED <<pool, password, policy, server, suspect, worked>>

Adopt(c) ==
  /\ call[c].at = "adopt"
  /\ SwapPassword(call[c].staged, [call EXCEPT ![c] = Onward(c, "fetch")])
  /\ UNCHANGED <<policy, server, worked>>

\* Mongo::pooled.
Fetch(c) ==
  /\ call[c].at \in {"fetch", "refetch"}
  /\ call' = [call EXCEPT ![c] =
       [Onward(c, IF call[c].at = "fetch" THEN "run" ELSE "rerun") EXCEPT !.observed = TRUE]]
  /\ UNCHANGED <<pool, password, policy, server, suspect, worked>>

ClientOf(c) == IF call[c].observed THEN pool ELSE call[c].client

\* What mongod and the driver make of a command, as classify reads it.  A
\* client with no open socket opens one, which authenticates; hello and ping
\* are answered on a logged-out one.
Answer(client, needs) ==
  CASE ~up -> "transport"
    [] up /\ client.sockets = "none" -> IF client.password = rootPw THEN "answered" ELSE "auth"
    [] up /\ client.sockets = "live" -> "answered"
    [] up /\ client.sockets = "loggedOut" -> IF needs THEN "auth" ELSE "answered"

Opened(client, answer) ==
  IF up /\ client.sockets = "none" /\ answer = "answered"
  THEN [client EXCEPT !.sockets = "live"] ELSE client

\* The command is answered, or fails.  On a client that has been replaced it
\* may also find it shut down, which classify takes for a verdict.
Run(c) ==
  /\ call[c].at \in {"run", "rerun"}
  /\ LET answer == Answer(ClientOf(c), call[c].needs) IN
     /\ \E outcome \in {answer} \cup (IF call[c].observed THEN {} ELSE {"shut"}) :
          call' = [call EXCEPT ![c].at = IF @ = "run" THEN "note" ELSE "renote",
                               ![c].client = Fresh(0),
                               ![c].outcome = outcome]
     /\ IF call[c].observed
        THEN /\ pool' = Opened(pool, answer)
             /\ suspect' = (suspect \/ answer # "answered")
        ELSE UNCHANGED <<pool, suspect>>
  /\ UNCHANGED <<password, policy, server, worked>>

-----------------------------------------------------------------------------
(* RecoveryPolicy.                                                         *)

\* RecoveryPolicy::proven, after a success or a verdict of the server.
\* Only an authenticated one proves the credential.
Proven(p, needs) ==
  IF p.pending = "auth" /\ ~needs THEN [p EXCEPT !.fails = 0] ELSE NoWindow

\* RecoveryPolicy::on_failure, first half: one more failure is counted.
Counted(p, kind) ==
  IF kind = "transport" /\ p.fails < Threshold THEN [p EXCEPT !.fails = @ + 1] ELSE p

\* Broken: a window holds back the other kind too; a window never ends.
ShouldRebuildNoKind(p, kind) ==
  (kind = "transport" => p.fails >= Threshold) /\ ~(p.pending # "none" /\ p.wait > 0)

ShouldRebuildOnce(p, kind) ==
  (kind = "transport" => p.fails >= Threshold) /\ p.pending # kind

\* Its verdict on the counted failure: a run of transport failures, or any
\* authentication failure, unless a window for the same kind is open.
ShouldRebuild(p, kind) ==
  /\ kind = "transport" => p.fails >= Threshold
  /\ ~(p.pending = kind /\ p.wait > 0)

\* Broken: the back-off is not capped.
ArmedUncapped(p, kind) ==
  LET backoff == IF p.pending = kind THEN 2 * p.backoff ELSE 1
  IN [fails |-> 0, backoff |-> backoff, pending |-> kind, wait |-> backoff]

\* The window a rebuild for this kind arms.
Armed(p, kind) ==
  LET longer == IF 2 * p.backoff < MaxBackoff THEN 2 * p.backoff ELSE MaxBackoff
      backoff == IF p.pending = kind THEN longer ELSE 1
  IN [fails |-> 0, backoff |-> backoff, pending |-> kind, wait |-> backoff]

AfterFailure(p, kind) ==
  LET q == Counted(p, kind) IN IF ShouldRebuild(q, kind) THEN Armed(q, kind) ELSE q

-----------------------------------------------------------------------------
(* Mongo::recovering.                                                      *)

Return(c) == call' = [call EXCEPT ![c] = Idle]

Note(c) ==
  /\ call[c].at \in {"note", "renote"}
  /\ LET o == call[c].outcome
         failed == o \in {"auth", "transport"}
     IN
     /\ policy' = IF failed THEN AfterFailure(policy, o) ELSE Proven(policy, call[c].needs)
     /\ worked' = IF o = "answered" /\ call[c].needs THEN TRUE ELSE worked /\ o # "auth"
     /\ IF failed /\ call[c].at = "note" /\ ShouldRebuild(Counted(policy, o), o)
        THEN Goto(c, "rebuild")
        ELSE Return(c)
  /\ UNCHANGED <<pool, password, server, suspect>>

\* Only an authentication failure is retried once the pool is rebuilt.
Rebuilt(c) == [call EXCEPT ![c] =
  IF call[c].outcome = "auth" THEN Onward(c, "refetch") ELSE Idle]

\* Broken: the pool is replaced whatever generation it is.
RebuildAnyway(c) ==
  /\ call[c].at = "rebuild"
  /\ Replace(password, Rebuilt(c))
  /\ UNCHANGED <<password, policy, server, worked>>

\* Mongo::rebuild does nothing when the pool is already past the generation
\* the caller saw fail.
Rebuild(c) ==
  /\ call[c].at = "rebuild"
  /\ IF call[c].observed THEN Replace(password, Rebuilt(c))
     ELSE call' = Rebuilt(c) /\ UNCHANGED <<pool, suspect>>
  /\ UNCHANGED <<password, policy, server, worked>>

\* Instant::now against the end of the window.
Tick ==
  /\ policy.wait > 0
  /\ policy' = [policy EXCEPT !.wait = @ - 1]
  /\ UNCHANGED <<call, pool, password, server, suspect, worked>>

-----------------------------------------------------------------------------
(* mongod and the rotation, external.                                      *)

\* What happens to the sockets happens to those of the replaced clients too.
EverySocket(become) ==
  /\ pool' = [pool EXCEPT !.sockets = become[@]]
  /\ call' = [c \in Callers |-> [call[c] EXCEPT !.client.sockets = become[@]]]

Closed == [s \in Sockets |-> "none"]
LoggedOut == [s \in Sockets |-> IF s = "live" THEN "loggedOut" ELSE s]

\* The entrypoint creates the root user.
CreateUser ==
  /\ up /\ rootPw = 0
  /\ rootPw' = 1
  /\ UNCHANGED <<call, pool, password, policy, up, staged, pin, faults, suspect, worked>>

\* mongod hangs, or stops and its sockets with it.
Fail ==
  /\ up /\ faults < MaxFaults
  /\ up' = FALSE /\ faults' = faults + 1
  /\ EverySocket(Closed) \/ UNCHANGED <<pool, call>>
  /\ UNCHANGED <<password, policy, rootPw, staged, pin, suspect, worked>>

Recover ==
  /\ ~up
  /\ up' = TRUE
  /\ UNCHANGED <<call, pool, password, policy, rootPw, staged, pin, faults, suspect, worked>>

\* A write to admin.system.users logs the open sessions out.
Invalidate ==
  /\ up /\ faults < MaxFaults
  /\ EverySocket(LoggedOut)
  /\ faults' = faults + 1
  /\ UNCHANGED <<password, policy, up, rootPw, staged, pin, suspect, worked>>

\* Prepare stages the next password on this member.
Prepare ==
  /\ staged = 0 /\ rootPw \in 1..(LastPassword - 1)
  /\ staged' = rootPw + 1
  /\ UNCHANGED <<call, pool, password, policy, up, rootPw, pin, faults, suspect, worked>>

\* updateUser, run on the primary, reaches this member.
UpdateUser ==
  /\ up /\ staged = rootPw + 1
  /\ rootPw' = staged
  /\ EverySocket(LoggedOut) \/ UNCHANGED <<pool, call>>
  /\ UNCHANGED <<password, policy, up, staged, pin, faults, suspect, worked>>

\* Operation::Member, from the coordinator or from reconcile.
Member ==
  /\ Accepted(staged) /\ staged # 0
  /\ SwapPassword(staged, call)
  /\ pin' = staged
  /\ UNCHANGED <<policy, up, rootPw, staged, faults, worked>>

\* Operation::Verify ends the rotation on this member.
Verify ==
  /\ Accepted(staged) /\ staged # 0 /\ pin = staged
  /\ staged' = 0
  /\ UNCHANGED <<call, pool, password, policy, up, rootPw, pin, faults, suspect, worked>>

-----------------------------------------------------------------------------
CallerStep(c) ==
  \/ \E needs \in BOOLEAN : Begin(c, needs)
  \/ Probe(c) \/ Adopt(c) \/ Fetch(c) \/ Run(c) \/ Note(c) \/ Rebuild(c)

Rotation == Prepare \/ UpdateUser \/ Member \/ Verify

Next ==
  \/ \E c \in Callers : CallerStep(c)
  \/ Tick
  \/ CreateUser \/ Fail \/ Recover \/ Invalidate
  \/ Rotation

Spec == Init /\ [][Next]_vars

\* Every await of a call ends (each is under a timeout), the pollers start
\* another call, time passes, the entrypoint creates the root user, and an
\* outage ends.  No phase of a rotation is promised.
Fairness ==
  /\ \A c \in Callers :
       /\ WF_vars(Probe(c)) /\ WF_vars(Adopt(c)) /\ WF_vars(Fetch(c))
       /\ WF_vars(Run(c)) /\ WF_vars(Note(c)) /\ WF_vars(Rebuild(c))
  /\ \A c \in Pollers : WF_vars(Begin(c, TRUE))
  /\ WF_vars(Tick) /\ WF_vars(CreateUser) /\ WF_vars(Recover)

FairSpec == Spec /\ Fairness

-----------------------------------------------------------------------------
(* Properties.                                                             *)

Rebuilds(c) == call[c].at = "rebuild" /\ call'[c].at # "rebuild" /\ pool' # pool

\* Mongo::rebuild: callers that saw the same client fail agree on one
\* replacement; a pool that no caller has seen fail is never thrown away by
\* a rebuild, however late the caller that asks for it.
FreshPoolSpared ==
  [][\A c \in Callers : Rebuilds(c) => suspect]_vars

\* "Only a proven staged credential may replace it": the active password becomes
\* one that mongod has accepted, if not any more.
AdoptsTheProven ==
  [][password' # password => password' \in 1..rootPw]_vars

\* The same at the moment it is adopted, so that adopting a staged password never
\* locks the handle out.
AdoptsTheAccepted ==
  [][password' # password => password' = rootPw]_vars

FirstRefusal(c) == call'[c] # call[c] /\ worked /\ ~worked'

\* RecoveryPolicy: the first authentication failure noted after the
\* credential last worked always leads to a rebuild and a retry, when it is
\* the first try of its command that failed.
FirstTryRecovers ==
  [][\A c \in Callers :
       FirstRefusal(c) /\ call[c].at = "note" => call'[c].at = "rebuild"]_vars

\* The same for every attempt, as RecoveryPolicy states it.
FirstFailureRecovers ==
  [][\A c \in Callers : FirstRefusal(c) => call'[c].at = "rebuild"]_vars

\* Mongo::rebuild: a caller whose command failed authentication on a pool
\* that has been replaced since retries on the pool it finds.
LosersRetry ==
  [][\A c \in Callers :
       call[c].at = "note" /\ call[c].outcome = "auth" /\ call'[c].at = "idle"
         => call[c].observed]_vars

\* The next command of a poller finds a working session.
Works ==
  /\ up
  /\ \/ pool.sockets = "live"
     \/ pool.sockets = "none" /\ pool.password = rootPw

\* Mongo::recovering as a whole: once mongod stops failing, the handle ends
\* up with a working client for good, whatever sessions were logged out and
\* through a rotation.
Recovers == <>[]Works

=============================================================================
