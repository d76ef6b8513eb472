-------------------------- MODULE StandaloneRevert --------------------------
(***************************************************************************)
(* One volume through its lives as a set member and as a standalone: what  *)
(* a container does between its start and its mongod (main::main), which   *)
(* container may touch the volume (volume_lock), the record of a member    *)
(* boot and the oplog replay of a revert (standalone_recovery), the pin    *)
(* the resolver writes (auth_pin), and the clearing of what the set left   *)
(* behind (Mongo::drop_stale_replset_config).                              *)
(*                                                                         *)
(* External: the platform (deployments, their overlap on the volume, the   *)
(* variables that choose the mode), mongod (what it writes, what a boot    *)
(* without --replSet drops, what a replay restores).                       *)
(*                                                                         *)
(* The root password never changes here (CredentialRotation does that):    *)
(* of the pin only matters whether it names a keyfile.  `local` stands for *)
(* the set's config and its oplog, which come and go together.             *)
(***************************************************************************)
EXTENDS Integers, FiniteSets

CONSTANTS
  Boxes,      \* the containers, used again once they are gone
  NoBox,      \* nobody holds the lock, or has the dbpath open
  MaxDeploys,   \* bound: deployments
  MaxFaults   \* bound: crashes and failed steps

ASSUME BoxAssumption == IsFiniteSet(Boxes) /\ NoBox \notin Boxes
ASSUME BoundAssumption == MaxDeploys \in Nat /\ MaxFaults \in Nat

VARIABLES
  box,      \* what each container is doing
  current,  \* the container of the current deployment
  lock,     \* who holds the volume's runtime lock
  engine,   \* whose mongod has the dbpath open (WiredTiger's mongod.lock)
  vol,      \* what is on the volume
  ahead,    \* acknowledged writes that only the oplog holds: none,
            \* "recorded" if the volume named itself a member's, else "unrecorded"
  lost,     \* history: acknowledged writes a boot has dropped, by `ahead`
  unguarded,  \* history: a container went on without the lock
  deploys, faults

bounds == <<deploys, faults>>
vars == <<box, current, lock, engine, vol, ahead, lost, unguarded, bounds>>

Modes == {"replset", "standalone"}

\* hasData, key: read once, at boot; duty, stale, images: standalone_duties.
Gone == [at |-> "gone", mode |-> "standalone", hasData |-> FALSE, key |-> FALSE,
         proven |-> FALSE, duty |-> "none", stale |-> FALSE, images |-> FALSE]

Volume == [data : BOOLEAN, marker : BOOLEAN, pinned : BOOLEAN, keyfile : BOOLEAN,
           local : BOOLEAN, preimages : BOOLEAN, unclean : BOOLEAN]

TypeOK ==
  /\ box \in [Boxes ->
       [at : {"gone", "down", "lock", "inspect", "mark", "decide", "recover", "replay",
              "checkpoint", "clear", "spawn", "up"},
        mode : Modes, hasData : BOOLEAN, key : BOOLEAN, proven : BOOLEAN,
        duty : {"none", "count", "local", "preimages", "done"}, stale : BOOLEAN, images : BOOLEAN]]
  /\ current \in Boxes
  /\ lock \in {b \in Boxes : box[b].at \notin {"gone", "down", "lock"}} \cup {NoBox}
  /\ engine \in {b \in Boxes : box[b].at \in {"replay", "checkpoint", "up"}} \cup {NoBox}
  /\ vol \in Volume
  /\ ahead \in {"none", "recorded", "unrecorded"}
  /\ unguarded \in BOOLEAN
  /\ lost \subseteq {"recorded", "unrecorded"}
  /\ deploys \in 0..MaxDeploys /\ faults \in 0..MaxFaults

Empty == [data |-> FALSE, marker |-> FALSE, pinned |-> FALSE, keyfile |-> FALSE,
          local |-> FALSE, preimages |-> FALSE, unclean |-> FALSE]
\* A volume that has only run standalone, and a member's from an image that
\* wrote no marker.
Adopted == [Empty EXCEPT !.data = TRUE, !.pinned = TRUE]
Unmarked == [Adopted EXCEPT !.keyfile = TRUE, !.local = TRUE, !.preimages = TRUE, !.unclean = TRUE]

Init ==
  /\ vol \in {Empty, Adopted, Unmarked}
  /\ ahead = IF vol = Unmarked THEN "recorded" ELSE "none"
  /\ current \in Boxes
  /\ \E m \in Modes : box = [b \in Boxes |-> IF b = current
                               THEN [Gone EXCEPT !.at = "lock", !.mode = m] ELSE Gone]
  /\ lock = NoBox /\ engine = NoBox
  /\ lost = {} /\ unguarded = FALSE
  /\ deploys = 0 /\ faults = 0

-----------------------------------------------------------------------------
(* The boot.                                                               *)

Standalone(b) == box[b].mode = "standalone"
At(b, at) == box[b].at = at
Goto(b, at) == box' = [box EXCEPT ![b].at = at]
Fault == faults < MaxFaults /\ faults' = faults + 1 /\ deploys' = deploys

\* Broken: mongod outlives the wrapper.
ReleasedLock(b) ==
  /\ lock' = IF lock = b THEN NoBox ELSE lock
  /\ engine' = engine

\* What a container that ends leaves to the kernel: its lock, its mongod.
Released(b) ==
  /\ lock' = IF lock = b THEN NoBox ELSE lock
  /\ engine' = IF engine = b THEN NoBox ELSE engine
\* The restart policy starts it again, as long as it is the current one.
Ended(b) == [Gone EXCEPT !.mode = box[b].mode, !.at = IF b = current THEN "down" ELSE "gone"]

Restart(b) ==
  /\ At(b, "down") /\ b = current
  /\ Goto(b, "lock")
  /\ UNCHANGED <<current, lock, engine, vol, ahead, lost, unguarded, bounds>>

\* Broken: the handle is dropped on return, and the lock with it.
AcquireBriefly(b) ==
  /\ At(b, "lock") /\ lock = NoBox
  /\ lock' = lock
  /\ Goto(b, "inspect")
  /\ UNCHANGED <<current, engine, vol, ahead, lost, unguarded, bounds>>

\* Waits for the container before it; held until the process ends.
Acquire(b) ==
  /\ At(b, "lock") /\ lock = NoBox
  /\ lock' = b
  /\ Goto(b, "inspect")
  /\ UNCHANGED <<current, engine, vol, ahead, lost, unguarded, bounds>>

\* The lock file cannot be opened: fail open.
OpenFails(b) ==
  /\ At(b, "lock") /\ Fault
  /\ Goto(b, "inspect") /\ unguarded' = TRUE
  /\ UNCHANGED <<current, lock, engine, vol, ahead, lost>>

\* The holder outlasts RUNTIME_LOCK_WAIT_SECONDS: fail closed.
LockTimesOut(b) ==
  /\ At(b, "lock") /\ lock # NoBox
  /\ box' = [box EXCEPT ![b] = Ended(b)]
  /\ UNCHANGED <<current, lock, engine, vol, ahead, lost, unguarded, bounds>>

\* datadir_is_initialized, read_pin, resolve_boot_credentials: a standalone
\* boot resolves no keyfile, whatever the pin says.
Inspect(b) ==
  /\ At(b, "inspect")
  /\ box' = [box EXCEPT ![b].hasData = vol.data, ![b].key = ~Standalone(b),
                        ![b].at = IF Standalone(b) THEN "decide" ELSE "mark"]
  /\ UNCHANGED <<current, lock, engine, vol, ahead, lost, unguarded, bounds>>

\* mark_replset_boot; a failure is logged and the boot goes on.
Mark(b) ==
  /\ At(b, "mark")
  /\ Goto(b, "spawn")
  /\ \/ vol' = [vol EXCEPT !.marker = TRUE] /\ UNCHANGED bounds
     \/ vol' = vol /\ Fault
  /\ UNCHANGED <<current, lock, engine, ahead, lost, unguarded>>

\* replay_needed.
ReplayNeeded(b) == box[b].hasData /\ (vol.marker \/ vol.keyfile)

\* A record without a dataset is void.
Decide(b) ==
  /\ At(b, "decide")
  /\ Goto(b, IF ReplayNeeded(b) THEN "recover" ELSE "spawn")
  /\ vol' = IF box[b].hasData THEN vol ELSE [vol EXCEPT !.marker = FALSE]
  /\ UNCHANGED <<current, lock, engine, ahead, lost, unguarded, bounds>>

-----------------------------------------------------------------------------
(* The recovery boot: replay_oplog_as_standalone.                          *)

\* It holds the dbpath like any mongod.
Recover(b) ==
  /\ At(b, "recover") /\ engine = NoBox
  /\ engine' = b
  /\ Goto(b, "replay")
  /\ UNCHANGED <<current, lock, vol, ahead, lost, unguarded, bounds>>

\* Broken: a missing oplog is an error like any other.
ReplayOrFail(b) ==
  /\ At(b, "replay")
  /\ IF vol.local THEN Goto(b, "checkpoint") /\ UNCHANGED <<lock, engine>>
     ELSE box' = [box EXCEPT ![b] = Ended(b)] /\ Released(b)
  /\ UNCHANGED <<current, vol, ahead, lost, unguarded, bounds>>

\* It answers, so the oplog is replayed; or it has found none and exits.
Replay(b) ==
  /\ At(b, "replay")
  /\ IF vol.local THEN Goto(b, "checkpoint") /\ UNCHANGED engine
     ELSE Goto(b, "clear") /\ engine' = NoBox
  /\ UNCHANGED <<current, lock, vol, ahead, lost, unguarded, bounds>>

\* stop_cleanly: the checkpoint of its shutdown is taken before it goes.
Checkpoint(b) ==
  /\ At(b, "checkpoint")
  /\ engine' = NoBox
  /\ Goto(b, "clear")
  /\ ahead' = "none" /\ vol' = [vol EXCEPT !.unclean = FALSE]
  /\ UNCHANGED <<current, lock, lost, unguarded, bounds>>

\* Any other exit stops the container, with the data dir as it was.
RecoveryFails(b) ==
  /\ box[b].at \in {"replay", "checkpoint"} /\ Fault
  /\ box' = [box EXCEPT ![b] = Ended(b)]
  /\ Released(b)
  /\ UNCHANGED <<current, vol, ahead, lost, unguarded>>

\* clear_replset_marker; a failure is logged.
Clear(b) ==
  /\ At(b, "clear")
  /\ Goto(b, "spawn")
  /\ \/ vol' = [vol EXCEPT !.marker = FALSE] /\ UNCHANGED bounds
     \/ vol' = vol /\ Fault
  /\ UNCHANGED <<current, lock, engine, ahead, lost, unguarded>>

-----------------------------------------------------------------------------
(* The mongod that serves.                                                 *)

\* Pre-images whose oplog is gone, after an unclean stop.
Segfaults(b) == ~Standalone(b) /\ vol.preimages /\ ~vol.local /\ vol.unclean

\* Without --replSet mongod keeps what its checkpoint holds and nothing else.
Spawn(b) ==
  /\ At(b, "spawn") /\ engine = NoBox /\ ~Segfaults(b)
  /\ engine' = b
  /\ box' = [box EXCEPT ![b].at = "up", ![b].duty = IF Standalone(b) THEN "count" ELSE "none"]
  /\ vol' = [vol EXCEPT !.data = TRUE, !.unclean = TRUE]
  /\ IF Standalone(b) /\ ahead # "none"
     THEN lost' = lost \cup {ahead} /\ ahead' = "none"
     ELSE UNCHANGED <<lost, ahead>>
  /\ UNCHANGED <<current, lock, unguarded, bounds>>

\* The entrypoint's mongod aborts: another has the dbpath open, or it cannot
\* get over its startup recovery.
Abort(b) ==
  /\ \/ box[b].at \in {"spawn", "recover"} /\ engine # NoBox
     \/ At(b, "spawn") /\ Segfaults(b)
  /\ box' = [box EXCEPT ![b] = Ended(b)]
  /\ lock' = IF lock = b THEN NoBox ELSE lock
  /\ UNCHANGED <<current, engine, vol, ahead, lost, unguarded, bounds>>

\* The set forms, or delivers its config: the volume has an oplog from now on.
Form(b) ==
  /\ At(b, "up") /\ ~Standalone(b) /\ ~vol.local
  /\ vol' = [vol EXCEPT !.local = TRUE, !.preimages = TRUE]
  /\ UNCHANGED <<box, current, lock, engine, ahead, lost, unguarded, bounds>>

\* A client's write, and the stable checkpoint that catches up with it.
Write(b) ==
  /\ At(b, "up") /\ ~Standalone(b) /\ vol.local
  /\ ahead' = IF ahead = "unrecorded" \/ ~(vol.marker \/ vol.keyfile)
              THEN "unrecorded" ELSE "recorded"
  /\ UNCHANGED <<box, current, lock, engine, vol, lost, unguarded, bounds>>

Stable(b) ==
  /\ At(b, "up") /\ ~Standalone(b) /\ ahead # "none"
  /\ ahead' = "none"
  /\ UNCHANGED <<box, current, lock, engine, vol, lost, unguarded, bounds>>

\* write_password_pin: the keyfile of the pin there is, else this boot's.
PinnedKeyfile(b) == vol.keyfile \/ box[b].key

\* The resolver proves the password, once per boot.
Prove(b) ==
  /\ At(b, "up") /\ ~box[b].proven
  /\ box' = [box EXCEPT ![b].proven = TRUE]
  /\ vol' = [vol EXCEPT !.pinned = TRUE, !.keyfile = PinnedKeyfile(b)]
  /\ UNCHANGED <<current, lock, engine, ahead, lost, unguarded, bounds>>

-----------------------------------------------------------------------------
(* standalone_duties: drop_stale_replset_config.                           *)

\* Broken: only the config says whether there is something to drop.
CountConfig(b) ==
  /\ At(b, "up") /\ box[b].duty = "count"
  /\ box' = [box EXCEPT ![b].stale = vol.local, ![b].images = vol.preimages,
                        ![b].duty = IF vol.local THEN "local" ELSE "done"]
  /\ UNCHANGED <<current, lock, engine, vol, ahead, lost, unguarded, bounds>>

\* What there is to drop is counted first.
Count(b) ==
  /\ At(b, "up") /\ box[b].duty = "count"
  /\ box' = [box EXCEPT ![b].stale = vol.local, ![b].images = vol.preimages,
                        ![b].duty = IF vol.local \/ vol.preimages THEN "local" ELSE "done"]
  /\ UNCHANGED <<current, lock, engine, vol, ahead, lost, unguarded, bounds>>

DropLocal(b) ==
  /\ At(b, "up") /\ box[b].duty = "local"
  /\ box' = [box EXCEPT ![b].duty = "preimages"]
  /\ vol' = [vol EXCEPT !.local = @ /\ ~box[b].stale]
  /\ UNCHANGED <<current, lock, engine, ahead, lost, unguarded, bounds>>

DropPreimages(b) ==
  /\ At(b, "up") /\ box[b].duty = "preimages"
  /\ box' = [box EXCEPT ![b].duty = "done"]
  /\ vol' = [vol EXCEPT !.preimages = @ /\ ~box[b].images]
  /\ UNCHANGED <<current, lock, engine, ahead, lost, unguarded, bounds>>

\* Any step of it fails: logged, and not tried again before the next boot.
DutyFails(b) ==
  /\ At(b, "up") /\ box[b].duty \in {"count", "local", "preimages"} /\ Fault
  /\ box' = [box EXCEPT ![b].duty = "none"]
  /\ UNCHANGED <<current, lock, engine, vol, ahead, lost, unguarded>>

-----------------------------------------------------------------------------
(* The platform.                                                           *)

\* A clean stop: of the container that is replaced, or of one to be restarted.
Stop(b) ==
  /\ At(b, "up") /\ b # current
  /\ box' = [box EXCEPT ![b] = Ended(b)]
  /\ vol' = [vol EXCEPT !.unclean = FALSE]
  /\ Released(b)
  /\ UNCHANGED <<current, ahead, lost, unguarded, bounds>>

\* One that is replaced before it serves is killed.
Kill(b) ==
  /\ b # current /\ box[b].at \notin {"gone", "up"}
  /\ box' = [box EXCEPT ![b] = Gone]
  /\ Released(b)
  /\ UNCHANGED <<current, vol, ahead, lost, unguarded, bounds>>

\* SIGKILL, OOM, host loss: wrapper and mongod are gone together.
Crash(b) ==
  /\ box[b].at \notin {"gone", "down", "lock"} /\ Fault
  /\ box' = [box EXCEPT ![b] = Ended(b)]
  /\ Released(b)
  /\ UNCHANGED <<current, vol, ahead, lost, unguarded>>

\* A deployment in mode m; the container before it may still be up.
Deploy(b, m) ==
  /\ At(b, "gone") /\ b # current
  /\ deploys < MaxDeploys /\ deploys' = deploys + 1
  /\ current' = b
  /\ box' = [box EXCEPT ![b] = [Gone EXCEPT !.at = "lock", !.mode = m],
                        ![current] = IF @.at = "down" THEN Gone ELSE @]
  /\ UNCHANGED <<lock, engine, vol, ahead, lost, unguarded, faults>>

BootStep(b) ==
  \/ Restart(b) \/ Acquire(b) \/ Inspect(b) \/ Mark(b) \/ Decide(b)
  \/ Recover(b) \/ Replay(b) \/ Checkpoint(b) \/ Clear(b) \/ Spawn(b) \/ Abort(b)
Duty(b) == Count(b) \/ DropLocal(b) \/ DropPreimages(b)

Next ==
  \E b \in Boxes :
    \/ BootStep(b) \/ OpenFails(b) \/ LockTimesOut(b) \/ RecoveryFails(b)
    \/ Form(b) \/ Write(b) \/ Stable(b) \/ Prove(b)
    \/ Duty(b) \/ DutyFails(b)
    \/ Stop(b) \/ Kill(b) \/ Crash(b) \/ \E m \in Modes : Deploy(b, m)

Spec == Init /\ [][Next]_vars

\* A container gets on with its boot, the restart policy and the platform with
\* theirs: what is replaced is stopped in the end.
Fairness ==
  \A b \in Boxes : WF_vars(BootStep(b)) /\ WF_vars(Stop(b) \/ Kill(b))

FairSpec == Spec /\ Fairness

-----------------------------------------------------------------------------
(* Properties.                                                             *)

\* A write the set acknowledged on a volume with a member's record on it, the
\* marker or a pinned keyfile, is still there whatever is deployed over it and
\* wherever a boot, a replay or a shutdown checkpoint is cut short: no mongod
\* opens the volume without --replSet before the oplog is replayed.  The lock
\* is part of it: an overlapping container could clear the marker of a boot
\* under way.
NoWriteLost == "recorded" \in lost => unguarded

\* Once standalone_duties is through, nothing is left of the set's life that a
\* conversion would find, also when an earlier run of it was cut short between
\* its two drops.
DutiesLeaveNothing ==
  \A b \in Boxes :
    At(b, "up") /\ Standalone(b) /\ box[b].duty = "done" => ~vol.local /\ ~vol.preimages

\* A deployment without RS_SEEDS comes up in the end, whatever the volume went
\* through: the one before it lets go of the volume, and a replay that cannot
\* be needed does not stop it.
StandaloneServes == <>[](Standalone(current) => At(current, "up"))

\* auth_pin.rs: a standalone boot retires the pinned keyfile once its password
\* is proven, so a keyfile in the pin always means that the last proven boot
\* ran as a set member.
KeyfileRetired ==
  \A b \in Boxes : At(b, "up") /\ Standalone(b) /\ box[b].proven => ~vol.keyfile

\* mongo.rs: the pre-images go with the local database, because one left
\* behind makes the next --replSet boot after an unclean stop segfault.
NoSegfault == \A b \in Boxes : At(b, "spawn") /\ engine = NoBox => ~Segfaults(b)
=============================================================================
