------------------------ MODULE SessionRecoveryProofs ------------------------
(***************************************************************************)
(* Proofs about SessionRecovery, for any number of callers, rotations and  *)
(* faults: type correctness, that a rebuild never throws away a pool that  *)
(* no caller has seen fail, that the first failure of a credential that    *)
(* worked is answered with one, and that the handle only ever adopts a     *)
(* password that mongod has accepted.                                      *)
(***************************************************************************)
EXTENDS SessionRecovery, TLAPS

-----------------------------------------------------------------------------
(* The inductive invariant.                                                *)

Failed == {"auth", "transport"}

\* A call that probes or adopts a staged password has one.
Candidate(c) == call[c].at \in {"probe", "adopt"} => call[c].staged # 0

\* A caller that is to rebuild has a failure to show for it, and what it saw
\* fail, if it is still the pool, is suspect.
Blamed(c) ==
  /\ call[c].at = "rebuild" => call[c].outcome \in Failed
  /\ call[c].at \in {"note", "renote", "rebuild"} /\ call[c].observed
       /\ call[c].outcome \in Failed => suspect

IInv == TypeOK /\ \A c \in Callers : Candidate(c) /\ Blamed(c)

USE DEF Password

-----------------------------------------------------------------------------
(* What the operators return.                                              *)

LEMMA FreshType == \A pw \in Password : Fresh(pw) \in Client
BY DEF Fresh, Client, Sockets

LEMMA ZeroPassword == 0 \in Password /\ 1..LastPassword \subseteq Password
BY BoundAssumption

LEMMA IdleType == Idle \in Call
BY ZeroPassword, FreshType DEF Idle, Call

LEMMA OnwardType ==
  ASSUME TypeOK, NEW c \in Callers, NEW at \in {"fetch", "run", "refetch", "rerun"}
  PROVE  /\ Onward(c, at) \in Call
         /\ Onward(c, at).at = at
BY IdleType DEF TypeOK, Onward, Idle, Call

\* Being overtaken leaves a call where it is and takes its generation.
LEMMA OvertakenType ==
  ASSUME TypeOK, NEW calls \in [Callers -> Call]
  PROVE  /\ Overtaken(calls) \in [Callers -> Call]
         /\ \A c \in Callers :
              /\ ~Overtaken(calls)[c].observed
              /\ Overtaken(calls)[c].at = calls[c].at
              /\ Overtaken(calls)[c].staged = calls[c].staged
              /\ Overtaken(calls)[c].outcome = calls[c].outcome
<1> DEFINE O(r, client) == [r EXCEPT !.observed = FALSE, !.client = client]
<1>1. ASSUME NEW r \in Call, NEW client \in Client
      PROVE  /\ O(r, client) \in Call
             /\ ~O(r, client).observed
             /\ O(r, client).at = r.at
             /\ O(r, client).staged = r.staged
             /\ O(r, client).outcome = r.outcome
  BY DEF Call
<1>2. ASSUME NEW c \in Callers
      PROVE  \E client \in Client : Overtaken(calls)[c] = O(calls[c], client)
  <2>1. calls[c] \in Call /\ calls[c].client \in Client /\ pool \in Client
    BY DEF TypeOK, Call
  <2>2. Overtaken(calls)[c] = O(calls[c],
          IF calls[c].observed /\ calls[c].at \in {"run", "rerun"}
          THEN pool ELSE calls[c].client)
    BY <2>1 DEF Overtaken
  <2>3. QED
    BY <2>1, <2>2
<1>3. Overtaken(calls) = [c \in Callers |-> Overtaken(calls)[c]]
  BY DEF Overtaken
<1>4. ASSUME NEW c \in Callers PROVE calls[c] \in Call
  OBVIOUS
<1> HIDE DEF O
<1>5. QED
  BY <1>1, <1>2, <1>3, <1>4

LEMMA ReplaceType ==
  ASSUME TypeOK, NEW calls \in [Callers -> Call], NEW pw \in Password, Replace(pw, calls)
  PROVE  pool' \in Client /\ suspect' \in BOOLEAN /\ call' \in [Callers -> Call]
BY OvertakenType, FreshType DEF Replace

\* The sockets of the clients change, and nothing else of a call.
LEMMA EverySocketType ==
  ASSUME TypeOK, NEW become \in [Sockets -> Sockets], EverySocket(become)
  PROVE  /\ pool' \in Client
         /\ call' \in [Callers -> Call]
         /\ \A c \in Callers :
              /\ call'[c].at = call[c].at
              /\ call'[c].observed = call[c].observed
              /\ call'[c].staged = call[c].staged
              /\ call'[c].outcome = call[c].outcome
<1>1. ASSUME NEW client \in Client
      PROVE  [client EXCEPT !.sockets = become[@]] \in Client
  BY DEF Client
<1>2. ASSUME NEW r \in Call
      PROVE  [r EXCEPT !.client.sockets = become[@]]
               = [r EXCEPT !.client = [r.client EXCEPT !.sockets = become[@]]]
  BY DEF Call, Client
<1>3. ASSUME NEW r \in Call
      PROVE [r.client EXCEPT !.sockets = become[@]] \in Client
  BY <1>1 DEF Call
<1> DEFINE U(r, client) == [r EXCEPT !.client = client]
<1>4. ASSUME NEW r \in Call, NEW client \in Client
      PROVE  /\ U(r, client) \in Call
             /\ U(r, client).at = r.at
             /\ U(r, client).observed = r.observed
             /\ U(r, client).staged = r.staged
             /\ U(r, client).outcome = r.outcome
  BY DEF Call
<1>5. ASSUME NEW c \in Callers
      PROVE  call[c] \in Call /\ \E client \in Client : call'[c] = U(call[c], client)
  <2>1. call[c] \in Call
    BY DEF TypeOK
  <2>2. call'[c] = [call[c] EXCEPT !.client.sockets = become[@]]
    BY DEF EverySocket
  <2>3. QED
    BY <1>2, <1>3, <2>1, <2>2
<1>6. pool' \in Client
  BY <1>1 DEF TypeOK, EverySocket
<1>7. call' = [c \in Callers |-> call'[c]]
  BY DEF EverySocket
<1> HIDE DEF U
<1>8. QED
  BY <1>4, <1>5, <1>6, <1>7

LEMMA ChangeType == Closed \in [Sockets -> Sockets] /\ LoggedOut \in [Sockets -> Sockets]
BY DEF Closed, LoggedOut, Sockets

LEMMA PolicyType ==
  ASSUME NEW p \in Policy, NEW kind \in Failed, NEW needs \in BOOLEAN
  PROVE  AfterFailure(p, kind) \in Policy /\ Proven(p, needs) \in Policy
<1>1. Counted(p, kind) \in Policy
  BY BoundAssumption DEF Counted, Policy
<1>2. ASSUME NEW q \in Policy PROVE Armed(q, kind) \in Policy
  BY BoundAssumption DEF Armed, Policy, Failed
<1>3. Proven(p, needs) \in Policy
  BY BoundAssumption DEF Proven, NoWindow, Policy
<1>4. QED
  BY <1>1, <1>2, <1>3 DEF AfterFailure

LEMMA RebuiltType ==
  ASSUME TypeOK, NEW c \in Callers
  PROVE  /\ Rebuilt(c) \in [Callers -> Call]
         /\ Rebuilt(c)[c].at \in {"idle", "refetch"}
         /\ \A d \in Callers \ {c} : Rebuilt(c)[d] = call[d]
BY IdleType, OnwardType DEF TypeOK, Rebuilt, Idle

\* A command that is out is answered or fails.
LEMMA AnswerType ==
  ASSUME TypeOK, NEW c \in Callers
  PROVE  Answer(ClientOf(c), call[c].needs) \in {"answered"} \cup Failed
<1>1. ClientOf(c) \in Client /\ call[c].needs \in BOOLEAN
  BY DEF TypeOK, ClientOf, Call
<1>2. ClientOf(c).sockets \in Sockets
  BY <1>1 DEF Client
<1>3. QED
  BY <1>1, <1>2 DEF Answer, Sockets, Failed, TypeOK

-----------------------------------------------------------------------------
(* The invariant holds initially and is preserved.                         *)

LEMMA IInvInit == Init => IInv
<1> SUFFICES ASSUME Init PROVE IInv
  OBVIOUS
<1>1. call \in [Callers -> Call]
  BY IdleType DEF Init
<1>2. policy \in Policy
  BY BoundAssumption DEF Init, NoWindow, Policy
<1>3. pool \in Client
  BY FreshType, BoundAssumption DEF Init
<1>4. /\ password \in 1..LastPassword
      /\ rootPw \in Password /\ staged \in Password /\ pin \in Password
      /\ faults \in 0..MaxFaults
  BY BoundAssumption DEF Init
<1>5. up \in BOOLEAN /\ suspect \in BOOLEAN /\ worked \in BOOLEAN
  BY DEF Init
<1>6. TypeOK
  BY <1>1, <1>2, <1>3, <1>4, <1>5 DEF TypeOK
<1>7. QED
  BY <1>6 DEF Init, IInv, Candidate, Blamed, Idle

LEMMA BeginIInv ==
  ASSUME IInv, NEW c \in Callers, NEW needs \in BOOLEAN, Begin(c, needs)
  PROVE  IInv'
<1> DEFINE next == [Idle EXCEPT !.needs = needs,
                                !.staged = IF staged = password THEN 0 ELSE staged,
                                !.at = IF staged \in {0, password} THEN "fetch" ELSE "probe"]
<1>1. (IF staged = password THEN 0 ELSE staged) \in Password
  BY ZeroPassword DEF IInv, TypeOK
<1>2. next \in Call
  BY <1>1, IdleType DEF Call
<1>3. /\ next.at \in {"fetch", "probe"}
      /\ next.at = "probe" => next.staged # 0
  BY DEF Idle
<1>4. call' = [call EXCEPT ![c] = next]
  BY DEF Begin
<1> HIDE DEF next
<1>5. TypeOK'
  BY <1>2, <1>4 DEF Begin, IInv, TypeOK, server
<1>6. QED
  BY <1>3, <1>4, <1>5 DEF Begin, IInv, TypeOK, Candidate, Blamed

LEMMA ProbeIInv ==
  ASSUME IInv, NEW c \in Callers, Probe(c)
  PROVE  IInv'
<1>1. PICK at \in {"adopt", "fetch"} : call' = [call EXCEPT ![c].at = at]
  BY DEF Probe, Goto
<1>2. call' \in [Callers -> Call]
  BY <1>1 DEF IInv, TypeOK, Call
<1>3. \A d \in Callers : call'[d] = IF d = c THEN [call[d] EXCEPT !.at = at] ELSE call[d]
  BY <1>1 DEF IInv, TypeOK
<1>4. TypeOK'
  BY <1>2 DEF Probe, IInv, TypeOK, server
<1>5. call'[c].at = at /\ call'[c].staged = call[c].staged
  BY <1>3 DEF IInv, TypeOK, Call
<1>6. QED
  BY <1>3, <1>4, <1>5 DEF Probe, IInv, Candidate, Blamed

LEMMA AdoptIInv ==
  ASSUME IInv, NEW c \in Callers, Adopt(c)
  PROVE  IInv'
<1> DEFINE calls == [call EXCEPT ![c] = Onward(c, "fetch")]
<1>1. TypeOK /\ call[c].staged \in 1..LastPassword /\ call[c].staged \in Password
  BY BoundAssumption DEF Adopt, IInv, TypeOK, Candidate, Call
<1>2. calls \in [Callers -> Call] /\ calls[c].at = "fetch"
      /\ \A d \in Callers \ {c} : calls[d] = call[d]
  BY <1>1, OnwardType DEF TypeOK
<1>3. Replace(call[c].staged, calls) /\ password' = call[c].staged
  BY DEF Adopt, SwapPassword
<1> HIDE DEF calls
<1>4. TypeOK'
  BY <1>1, <1>2, <1>3, ReplaceType DEF Adopt, TypeOK, server
<1>5. QED
  BY <1>1, <1>2, <1>3, <1>4, OvertakenType DEF Replace, IInv, Candidate, Blamed

LEMMA FetchIInv ==
  ASSUME IInv, NEW c \in Callers, Fetch(c)
  PROVE  IInv'
<1>1. PICK at \in {"run", "rerun"} :
        call' = [call EXCEPT ![c] = [Onward(c, at) EXCEPT !.observed = TRUE]]
  BY DEF Fetch
<1>2. Onward(c, at) \in Call /\ Onward(c, at).at = at
  BY OnwardType DEF IInv
<1>3. /\ [Onward(c, at) EXCEPT !.observed = TRUE] \in Call
      /\ [Onward(c, at) EXCEPT !.observed = TRUE].at = at
  BY <1>2 DEF Call
<1>4. call' \in [Callers -> Call] /\ call'[c].at = at
      /\ \A d \in Callers \ {c} : call'[d] = call[d]
  BY <1>1, <1>3 DEF IInv, TypeOK
<1>5. TypeOK'
  BY <1>4 DEF Fetch, IInv, TypeOK, server
<1>6. QED
  BY <1>4, <1>5 DEF Fetch, IInv, Candidate, Blamed

LEMMA RunIInv ==
  ASSUME IInv, NEW c \in Callers, Run(c)
  PROVE  IInv'
<1> DEFINE answer == Answer(ClientOf(c), call[c].needs)
           next(outcome) == [call[c] EXCEPT !.at = IF @ = "run" THEN "note" ELSE "renote",
                                            !.client = Fresh(0),
                                            !.outcome = outcome]
<1>1. answer \in {"answered"} \cup Failed
  BY AnswerType DEF IInv
<1>2. PICK outcome \in {answer} \cup (IF call[c].observed THEN {} ELSE {"shut"}) :
        call' = [call EXCEPT ![c] = next(outcome)]
  BY DEF Run, IInv, TypeOK
<1>3. outcome \in {"answered", "shut"} \cup Failed
  BY <1>1, <1>2
<1>4. call[c] \in Call /\ Fresh(0) \in Client
  BY FreshType, ZeroPassword DEF IInv, TypeOK
<1>5. /\ next(outcome) \in Call
      /\ next(outcome).at \in {"note", "renote"}
      /\ next(outcome).observed = call[c].observed
      /\ next(outcome).outcome = outcome
  BY <1>3, <1>4 DEF Call, Failed
<1>6. IF call[c].observed
      THEN pool' = Opened(pool, answer) /\ suspect' = (suspect \/ answer # "answered")
      ELSE UNCHANGED <<pool, suspect>>
  BY DEF Run
<1>7. UNCHANGED <<password, policy, server, worked>>
  BY DEF Run
<1> HIDE DEF answer, next
<1>8. call' \in [Callers -> Call] /\ call'[c] = next(outcome)
      /\ \A d \in Callers \ {c} : call'[d] = call[d]
  BY <1>2, <1>5 DEF IInv, TypeOK
<1>9. pool' \in Client /\ suspect' \in BOOLEAN
  BY <1>6 DEF IInv, TypeOK, Opened, Client, Sockets
<1>10. TypeOK'
  BY <1>7, <1>8, <1>9 DEF IInv, TypeOK, server
<1>11. call[c].observed /\ outcome \in Failed => suspect'
  BY <1>2, <1>6 DEF Failed
<1>12. suspect => suspect'
  BY <1>6
<1>13. QED
  BY <1>5, <1>8, <1>10, <1>11, <1>12 DEF IInv, Candidate, Blamed

LEMMA NoteIInv ==
  ASSUME IInv, NEW c \in Callers, Note(c)
  PROVE  IInv'
<1> DEFINE o == call[c].outcome
<1>1. call[c] \in Call /\ call[c].needs \in BOOLEAN /\ policy \in Policy
  BY DEF IInv, TypeOK, Call
<1>2. policy' = (IF o \in Failed THEN AfterFailure(policy, o) ELSE Proven(policy, call[c].needs))
  BY DEF Note, Failed
<1>3. policy' \in Policy
  <2>1. CASE o \in Failed
    BY <1>1, <1>2, <2>1, PolicyType
  <2>2. CASE o \notin Failed
    BY <1>1, <1>2, <2>2, PolicyType DEF Failed
  <2>3. QED
    BY <2>1, <2>2
<1>4. worked' \in BOOLEAN
  BY <1>1 DEF Note, IInv, TypeOK
<1>5. UNCHANGED <<pool, password, server, suspect>>
  BY DEF Note
<1>6. CASE call[c].at = "note" /\ o \in Failed /\ Goto(c, "rebuild")
  <2>1. /\ [call[c] EXCEPT !.at = "rebuild"] \in Call
        /\ [call[c] EXCEPT !.at = "rebuild"].at = "rebuild"
        /\ [call[c] EXCEPT !.at = "rebuild"].observed = call[c].observed
        /\ [call[c] EXCEPT !.at = "rebuild"].outcome = o
    BY <1>1 DEF Call
  <2>2. /\ call' \in [Callers -> Call]
        /\ call'[c] = [call[c] EXCEPT !.at = "rebuild"]
        /\ \A d \in Callers \ {c} : call'[d] = call[d]
    BY <1>6, <2>1 DEF Goto, IInv, TypeOK
  <2>3. TypeOK'
    BY <1>3, <1>4, <1>5, <2>2 DEF IInv, TypeOK, server
  <2>4. QED
    BY <1>5, <1>6, <2>1, <2>2, <2>3 DEF IInv, Candidate, Blamed
<1>7. CASE Return(c)
  <2>1. /\ call' \in [Callers -> Call]
        /\ call'[c] = Idle
        /\ \A d \in Callers \ {c} : call'[d] = call[d]
    BY <1>7, IdleType DEF Return, IInv, TypeOK
  <2>2. TypeOK'
    BY <1>3, <1>4, <1>5, <2>1 DEF IInv, TypeOK, server
  <2>3. QED
    BY <1>5, <2>1, <2>2 DEF IInv, Candidate, Blamed, Idle
<1>8. QED
  BY <1>6, <1>7 DEF Note, Failed

LEMMA RebuildIInv ==
  ASSUME IInv, NEW c \in Callers, Rebuild(c)
  PROVE  IInv'
<1>1. TypeOK /\ password \in Password
  BY BoundAssumption DEF IInv, TypeOK
<1>2. /\ Rebuilt(c) \in [Callers -> Call]
      /\ Rebuilt(c)[c].at \in {"idle", "refetch"}
      /\ \A d \in Callers \ {c} : Rebuilt(c)[d] = call[d]
  BY <1>1, RebuiltType
<1>3. UNCHANGED <<password, policy, server, worked>>
  BY DEF Rebuild
<1>4. CASE Replace(password, Rebuilt(c))
  <2>1. TypeOK'
    BY <1>1, <1>2, <1>3, <1>4, ReplaceType DEF TypeOK, server
  <2>2. QED
    BY <1>1, <1>2, <1>4, <2>1, OvertakenType DEF Replace, IInv, Candidate, Blamed
<1>5. CASE call' = Rebuilt(c) /\ UNCHANGED <<pool, suspect>>
  <2>1. TypeOK'
    BY <1>1, <1>2, <1>3, <1>5 DEF TypeOK, server
  <2>2. QED
    BY <1>2, <1>5, <2>1 DEF IInv, Candidate, Blamed
<1>6. QED
  BY <1>4, <1>5 DEF Rebuild

\* Steps that leave every call where it is, with what it saw.
LEMMA SameCallsIInv ==
  ASSUME IInv, TypeOK', suspect' = suspect,
         \A c \in Callers : /\ call'[c].at = call[c].at
                            /\ call'[c].observed = call[c].observed
                            /\ call'[c].staged = call[c].staged
                            /\ call'[c].outcome = call[c].outcome
  PROVE  IInv'
BY DEF IInv, Candidate, Blamed

LEMMA ServerIInv ==
  ASSUME IInv, CreateUser \/ Fail \/ Recover \/ Invalidate \/ Prepare \/ UpdateUser \/ Verify
  PROVE  IInv'
<1>1. /\ pool' \in Client
      /\ call' \in [Callers -> Call]
      /\ \A c \in Callers : /\ call'[c].at = call[c].at
                            /\ call'[c].observed = call[c].observed
                            /\ call'[c].staged = call[c].staged
                            /\ call'[c].outcome = call[c].outcome
  <2>1. CASE EverySocket(Closed) \/ EverySocket(LoggedOut)
    BY <2>1, ChangeType, EverySocketType DEF IInv
  <2>2. CASE UNCHANGED <<call, pool>>
    BY <2>2 DEF IInv, TypeOK
  <2>3. QED
    BY <2>1, <2>2 DEF CreateUser, Fail, Recover, Invalidate, Prepare, UpdateUser, Verify
<1>2. UNCHANGED <<password, policy, suspect, worked>>
  BY DEF CreateUser, Fail, Recover, Invalidate, Prepare, UpdateUser, Verify
<1>3. up' \in BOOLEAN
  BY DEF CreateUser, Fail, Recover, Invalidate, Prepare, UpdateUser, Verify, IInv, TypeOK
<1>4. rootPw' \in Password /\ staged' \in Password /\ pin' \in Password /\ faults' \in 0..MaxFaults
  <2>1. CASE CreateUser \/ UpdateUser
    BY <2>1, BoundAssumption DEF CreateUser, UpdateUser, IInv, TypeOK
  <2>2. CASE Fail \/ Invalidate \/ Recover
    BY <2>2, BoundAssumption DEF Fail, Invalidate, Recover, IInv, TypeOK
  <2>3. CASE Prepare \/ Verify
    BY <2>3, BoundAssumption DEF Prepare, Verify, IInv, TypeOK
  <2>4. QED
    BY <2>1, <2>2, <2>3
<1>5. TypeOK'
  BY <1>1, <1>2, <1>3, <1>4 DEF IInv, TypeOK
<1>6. QED
  BY <1>1, <1>2, <1>5, SameCallsIInv

LEMMA TickIInv == ASSUME IInv, Tick PROVE IInv'
<1>1. policy' \in Policy
  BY BoundAssumption DEF Tick, IInv, TypeOK, Policy
<1>2. TypeOK'
  BY <1>1 DEF Tick, IInv, TypeOK, server
<1>3. QED
  BY <1>2, SameCallsIInv DEF Tick

LEMMA MemberIInv == ASSUME IInv, Member PROVE IInv'
<1>1. TypeOK /\ call \in [Callers -> Call] /\ staged \in Password /\ staged \in 1..LastPassword
  BY BoundAssumption DEF Member, IInv, TypeOK
<1>2. Replace(staged, call) /\ password' = staged
  BY DEF Member, SwapPassword
<1>3. TypeOK'
  BY <1>1, <1>2, ReplaceType DEF Member, TypeOK
<1>4. QED
  BY <1>1, <1>2, <1>3, OvertakenType DEF Replace, IInv, Candidate, Blamed

LEMMA IInvStep == IInv /\ [Next]_vars => IInv'
<1> SUFFICES ASSUME IInv, [Next]_vars PROVE IInv'
  OBVIOUS
<1>1. CASE UNCHANGED vars
  BY <1>1 DEF vars, server, IInv, TypeOK, Candidate, Blamed
<1>2. ASSUME NEW c \in Callers, CallerStep(c) PROVE IInv'
  BY <1>2, BeginIInv, ProbeIInv, AdoptIInv, FetchIInv, RunIInv, NoteIInv, RebuildIInv DEF CallerStep
<1>3. QED
  BY <1>1, <1>2, TickIInv, ServerIInv, MemberIInv DEF Next, Rotation

\* The variables keep their types: every back-off stays within its maximum
\* and every failure count within the threshold, in any order of the calls.
THEOREM TypeCorrect == Spec => []TypeOK
<1>1. IInv => TypeOK
  BY DEF IInv
<1>2. QED
  BY <1>1, IInvInit, IInvStep, PTL DEF Spec

-----------------------------------------------------------------------------
(* One rebuild per generation.                                             *)

\* Only its own Rebuild takes a call away from "rebuild".
LEMMA OnlyRebuild ==
  ASSUME IInv, [Next]_vars, NEW c \in Callers,
         call[c].at = "rebuild", call'[c].at # "rebuild"
  PROVE  Rebuild(c)
<1>1. ASSUME NEW d \in Callers, CallerStep(d), ~Rebuild(d), d = c PROVE FALSE
  BY <1>1 DEF CallerStep, Begin, Probe, Adopt, Fetch, Run, Note
<1>2. ASSUME NEW d \in Callers, CallerStep(d), d # c PROVE FALSE
  <2>1. CASE \/ \E needs \in BOOLEAN : Begin(d, needs)
             \/ Probe(d) \/ Fetch(d) \/ Run(d) \/ Note(d)
    BY <1>2, <2>1 DEF Begin, Probe, Fetch, Run, Note, Goto, Return, IInv, TypeOK
  <2>2. CASE Adopt(d)
    <3> DEFINE calls == [call EXCEPT ![d] = Onward(d, "fetch")]
    <3>1. calls \in [Callers -> Call] /\ calls[c] = call[c]
      BY <1>2, OnwardType DEF IInv, TypeOK
    <3>2. call' = Overtaken(calls)
      BY <2>2 DEF Adopt, SwapPassword, Replace
    <3> HIDE DEF calls
    <3>3. QED
      BY <3>1, <3>2, OvertakenType DEF IInv
  <2>3. CASE Rebuild(d)
    <3>1. Rebuilt(d) \in [Callers -> Call] /\ Rebuilt(d)[c] = call[c]
      BY <1>2, RebuiltType DEF IInv
    <3>2. call' = Overtaken(Rebuilt(d)) \/ call' = Rebuilt(d)
      BY <2>3 DEF Rebuild, Replace
    <3>3. QED
      BY <3>1, <3>2, OvertakenType DEF IInv
  <2>4. QED
    BY <1>2, <2>1, <2>2, <2>3 DEF CallerStep
<1>3. ASSUME Member PROVE FALSE
  <2>1. call' = Overtaken(call) /\ call \in [Callers -> Call]
    BY <1>3 DEF Member, SwapPassword, Replace, IInv, TypeOK
  <2>2. QED
    BY <2>1, OvertakenType DEF IInv
<1>4. ASSUME Fail \/ Invalidate \/ UpdateUser PROVE FALSE
  BY <1>4, ChangeType, EverySocketType DEF Fail, Invalidate, UpdateUser, IInv
<1>5. ASSUME Tick \/ CreateUser \/ Recover \/ Prepare \/ Verify \/ UNCHANGED vars PROVE FALSE
  BY <1>5 DEF Tick, CreateUser, Recover, Prepare, Verify, vars
<1>6. QED
  BY <1>1, <1>2, <1>3, <1>4, <1>5 DEF Next, Rotation

\* However many callers saw a client fail, and however late each of them asks
\* for its replacement, a pool that none of them has seen fail is not thrown
\* away by a rebuild (Mongo::rebuild).
THEOREM FreshPoolIsSpared == Spec => FreshPoolSpared
<1>1. ASSUME IInv, [Next]_vars, NEW c \in Callers, Rebuilds(c) PROVE suspect
  <2>1. Rebuild(c)
    BY <1>1, OnlyRebuild DEF Rebuilds
  <2>2. call[c].observed
    BY <1>1, <2>1 DEF Rebuild, Rebuilds
  <2>3. QED
    BY <1>1, <2>1, <2>2 DEF Rebuild, IInv, Blamed
<1>2. IInv /\ [Next]_vars => [\A c \in Callers : Rebuilds(c) => suspect]_vars
  BY <1>1
<1>3. QED
  BY <1>2, IInvInit, IInvStep, PTL DEF Spec, FreshPoolSpared

-----------------------------------------------------------------------------
(* What is adopted was accepted.                                           *)

\* A call about to adopt a password has seen mongod accept it, and the passwords
\* of mongod are numbered in the order it takes them.
Accept(c) == call[c].at = "adopt" => call[c].staged \in 1..rootPw

Adoptable == \A c \in Callers : Accept(c)

LEMMA AdoptableStep ==
  ASSUME IInv, IInv', Adoptable, [Next]_vars
  PROVE  Adoptable'
<1>1. rootPw \in Nat /\ rootPw' \in Nat /\ rootPw <= rootPw'
  <2>1. CASE CreateUser \/ UpdateUser
    BY <2>1, BoundAssumption DEF CreateUser, UpdateUser, IInv, TypeOK, Password
  <2>2. CASE UNCHANGED rootPw
    BY <2>2, BoundAssumption DEF IInv, TypeOK, Password
  <2>3. QED
    BY <2>1, <2>2 DEF Next, CallerStep, Rotation, Begin, Probe, Adopt, Fetch, Run, Note, Rebuild,
       Tick, Fail, Recover, Invalidate, Prepare, Member, Verify, vars, server
<1>3. ASSUME NEW c \in Callers,
             call'[c].at = call[c].at, call'[c].staged = call[c].staged
      PROVE  Accept(c)'
  <2>1. call[c].at = "adopt" => call[c].staged \in 1..rootPw
    BY DEF Accept, Adoptable
  <2>2. call[c].staged \in 1..rootPw => call[c].staged \in 1..rootPw'
    BY <1>1
  <2>3. QED
    BY <1>3, <2>1, <2>2 DEF Accept
<1>4. ASSUME NEW c \in Callers, call'[c].at # "adopt"
      PROVE  Accept(c)'
  BY <1>4 DEF Accept
<1>5. ASSUME NEW d \in Callers, CallerStep(d), NEW c \in Callers PROVE Accept(c)'
  <2>1. ASSUME NEW needs \in BOOLEAN, Begin(d, needs) PROVE Accept(c)'
    <3>1. CASE c # d
      BY <2>1, <3>1, <1>3 DEF Begin, IInv, TypeOK
    <3>2. CASE c = d
      <4>1. call'[c].at \in {"fetch", "probe"}
        BY <2>1, <3>2 DEF Begin, Idle, IInv, TypeOK
      <4>2. QED
        BY <4>1, <1>4
    <3>3. QED
      BY <3>1, <3>2
  <2>2. CASE Probe(d)
    <3>1. CASE c # d
      BY <2>2, <3>1, <1>3 DEF Probe, Goto, IInv, TypeOK
    <3>2. CASE c = d
      <4>1. call'[c] = [call[c] EXCEPT !.at =
              IF Accepted(call[c].staged) THEN "adopt" ELSE "fetch"] /\ call[c] \in Call
        BY <2>2, <3>2 DEF Probe, Goto, IInv, TypeOK
      <4>2. call'[c].staged = call[c].staged /\ call[c].staged \in Password /\ call[c].staged # 0
            /\ call'[c].at = (IF Accepted(call[c].staged) THEN "adopt" ELSE "fetch")
        BY <2>2, <3>2, <4>1 DEF Probe, Call, Candidate, IInv
      <4>3. QED
        BY <1>1, <4>2 DEF Accept, Accepted
    <3>3. QED
      BY <3>1, <3>2
  <2>3. CASE Adopt(d)
    <3> DEFINE calls == [call EXCEPT ![d] = Onward(d, "fetch")]
    <3>1. calls \in [Callers -> Call] /\ calls[d].at = "fetch" /\ (c # d => calls[c] = call[c])
      BY OnwardType DEF IInv, TypeOK
    <3>2. call' = Overtaken(calls)
      BY <2>3 DEF Adopt, SwapPassword, Replace
    <3> HIDE DEF calls
    <3>3. call'[c].at = calls[c].at /\ call'[c].staged = calls[c].staged
      BY <3>1, <3>2, OvertakenType DEF IInv
    <3>4. QED
      BY <3>1, <3>3, <1>3, <1>4
  <2>4. CASE Rebuild(d)
    <3>1. /\ Rebuilt(d) \in [Callers -> Call] /\ Rebuilt(d)[d].at \in {"idle", "refetch"}
          /\ c # d => Rebuilt(d)[c] = call[c]
      BY RebuiltType DEF IInv
    <3>2. call' = Overtaken(Rebuilt(d)) \/ call' = Rebuilt(d)
      BY <2>4 DEF Rebuild, Replace
    <3>3. call'[c].at = Rebuilt(d)[c].at /\ call'[c].staged = Rebuilt(d)[c].staged
      BY <3>1, <3>2, OvertakenType DEF IInv
    <3>4. QED
      BY <3>1, <3>3, <1>3, <1>4
  <2>5. CASE Fetch(d) \/ Run(d) \/ Note(d)
    <3>1. CASE c # d
      BY <2>5, <3>1, <1>3 DEF Fetch, Run, Note, Goto, Return, IInv, TypeOK
    <3>2. CASE c = d /\ Fetch(d)
      BY <3>2, <1>4, OnwardType DEF Fetch, IInv, TypeOK, Call
    <3>3. CASE c = d /\ Run(d)
      BY <3>3, <1>4 DEF Run, IInv, TypeOK, Call
    <3>4. CASE c = d /\ Note(d)
      BY <3>4, <1>4 DEF Note, Goto, Return, Idle, IInv, TypeOK, Call
    <3>5. QED
      BY <2>5, <3>1, <3>2, <3>3, <3>4
  <2>6. QED
    BY <1>5, <2>1, <2>2, <2>3, <2>4, <2>5 DEF CallerStep
<1>6. ASSUME Member, NEW c \in Callers PROVE Accept(c)'
  BY <1>3, <1>6, OvertakenType DEF Member, SwapPassword, Replace, IInv, TypeOK
<1>7. ASSUME Fail \/ Invalidate \/ UpdateUser, NEW c \in Callers PROVE Accept(c)'
  BY <1>3, <1>7, ChangeType, EverySocketType DEF Fail, Invalidate, UpdateUser, IInv
<1>8. ASSUME Tick \/ CreateUser \/ Recover \/ Prepare \/ Verify \/ UNCHANGED vars,
             NEW c \in Callers
      PROVE  Accept(c)'
  BY <1>3, <1>8 DEF Tick, CreateUser, Recover, Prepare, Verify, vars
<1>9. QED
  BY <1>5, <1>6, <1>7, <1>8 DEF Next, Rotation, Adoptable

\* Whatever the callers, the rotations and the faults, a password becomes the
\* active one only if mongod has accepted it before: no staged or edited one that
\* is still to come, though it may be gone again (Mongo::admin, Operation::Member).
THEOREM AdoptsTheProvenHolds == Spec => AdoptsTheProven
<1>1. Init => Adoptable
  BY DEF Init, Adoptable, Accept, Idle
<1>2. ASSUME IInv, Adoptable, [Next]_vars, password' # password PROVE password' \in 1..rootPw
  <2>1. CASE Member
    <3>1. password' = staged /\ staged # 0 /\ rootPw = staged /\ UNCHANGED rootPw
      BY <2>1 DEF Member, SwapPassword, Accepted
    <3>2. staged \in 0..LastPassword
      BY <1>2 DEF IInv, TypeOK
    <3>3. QED
      BY <3>1, <3>2, BoundAssumption
  <2>2. ASSUME NEW c \in Callers, Adopt(c) PROVE password' \in 1..rootPw
    BY <1>2, <2>2 DEF Adopt, SwapPassword, Adoptable, Accept
  <2>3. QED
    BY <1>2, <2>1, <2>2 DEF Next, CallerStep, Rotation, Begin, Probe, Fetch, Run, Note, Rebuild,
       Tick, CreateUser, Fail, Recover, Invalidate, Prepare, UpdateUser, Verify, vars
<1>3. IInv /\ Adoptable /\ [Next]_vars => [password' # password => password' \in 1..rootPw]_vars
  BY <1>2
<1>4. IInv /\ IInv' /\ Adoptable /\ [Next]_vars => Adoptable'
  BY AdoptableStep
<1>5. QED
  BY <1>1, <1>3, <1>4, IInvInit, IInvStep, PTL DEF Spec, AdoptsTheProven

-----------------------------------------------------------------------------
(* The first failure of a credential that worked.                          *)

\* The window of an authentication failure does not outlive the next proof.
NoWindowLeft == worked => policy.pending # "auth"

\* No window is then in its way: the failure is answered with a rebuild.
LEMMA FirstFailure ==
  ASSUME NEW p, p.pending # "auth"
  PROVE  ShouldRebuild(Counted(p, "auth"), "auth")
BY DEF Counted, ShouldRebuild

LEMMA NoWindowLeftStep ==
  ASSUME IInv, NoWindowLeft, [Next]_vars
  PROVE  NoWindowLeft'
<1>1. ASSUME NEW c \in Callers, Note(c) PROVE NoWindowLeft'
  <2> DEFINE o == call[c].outcome
  <2>1. policy \in Policy /\ o \in {"answered", "shut", "none"} \cup Failed
    BY DEF IInv, TypeOK, Call, Failed
  <2>2. CASE o = "auth"
    BY <1>1, <2>2 DEF Note, NoWindowLeft
  <2>3. CASE o = "transport"
    <3>1. policy' = AfterFailure(policy, "transport") /\ worked' = worked
      BY <1>1, <2>3 DEF Note, IInv, TypeOK
    <3>2. QED
      BY <2>1, <3>1 DEF AfterFailure, Counted, Armed, NoWindowLeft, Policy
  <2>4. CASE o \notin Failed
    <3>1. policy' = Proven(policy, call[c].needs)
      BY <1>1, <2>4 DEF Note, Failed
    <3>2. CASE worked'
      <4>1. policy.pending # "auth" \/ call[c].needs
        BY <1>1, <2>4, <3>2 DEF Note, NoWindowLeft, IInv, TypeOK
      <4>2. policy' = NoWindow
        BY <3>1, <4>1 DEF Proven
      <4>3. QED
        BY <4>2 DEF NoWindow, NoWindowLeft
    <3>3. QED
      BY <3>2 DEF NoWindowLeft
  <2>5. QED
    BY <2>1, <2>2, <2>3, <2>4 DEF Failed
<1>2. CASE Tick
  BY <1>2 DEF Tick, NoWindowLeft, IInv, TypeOK, Policy
<1>3. CASE UNCHANGED <<policy, worked>>
  BY <1>3 DEF NoWindowLeft
<1>4. QED
  BY <1>1, <1>2, <1>3 DEF Next, CallerStep, Rotation, Begin, Probe, Adopt, Fetch, Run, Rebuild,
     CreateUser, Fail, Recover, Invalidate, Prepare, UpdateUser, Member, Verify, vars, server

\* For any callers, rotations and faults, the first authentication failure
\* noted after the credential last worked leads to a rebuild and a retry, when it
\* is the first try of its command that failed (RecoveryPolicy).
THEOREM FirstTryRecoversHolds == Spec => FirstTryRecovers
<1>1. Init => NoWindowLeft
  BY DEF Init, NoWindowLeft
<1>2. ASSUME IInv, NoWindowLeft, [Next]_vars, NEW c \in Callers, FirstRefusal(c), call[c].at = "note"
      PROVE  call'[c].at = "rebuild"
  <2>1. PICK d \in Callers : Note(d)
    BY <1>2 DEF FirstRefusal, Next, CallerStep, Rotation, Begin, Probe, Adopt, Fetch, Run, Rebuild,
       Tick, CreateUser, Fail, Recover, Invalidate, Prepare, UpdateUser, Member, Verify, vars, server
  <2>2. d = c
    BY <1>2, <2>1 DEF FirstRefusal, Note, Goto, Return, IInv, TypeOK
  <2>3. call[c].outcome = "auth"
    BY <1>2, <2>1, <2>2 DEF FirstRefusal, Note, IInv, TypeOK
  <2>4. ShouldRebuild(Counted(policy, "auth"), "auth")
    BY <1>2, FirstFailure DEF FirstRefusal, NoWindowLeft
  <2>5. QED
    BY <1>2, <2>1, <2>2, <2>3, <2>4 DEF Note, Goto, IInv, TypeOK, Call
<1>3. IInv /\ NoWindowLeft /\ [Next]_vars
        => [\A c \in Callers : FirstRefusal(c) /\ call[c].at = "note" => call'[c].at = "rebuild"]_vars
  BY <1>2
<1>4. IInv /\ NoWindowLeft /\ [Next]_vars => NoWindowLeft'
  BY NoWindowLeftStep
<1>5. QED
  BY <1>1, <1>3, <1>4, IInvInit, IInvStep, PTL DEF Spec, FirstTryRecovers

===============================================================================
