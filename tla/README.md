# mongo-ha in TLA+

Specifications, model-checking configurations and proofs kept beside the
`mongo-ha` repository: a wrapper (`mongo-wrapper`) that runs next to each
`mongod`, turns a group of containers into one replica set and keeps it one, and
an HAProxy edge (`haproxy`) that follows the primary. Paths below are relative
to the repository; `rs.rs` etc. stand for `mongo-wrapper/src/rs.rs` etc.

## 1. The system

| Part | State it keeps | Operations | Talks to |
|---|---|---|---|
| **Bootstrap** `rs::orchestrate`, `decide`, `GoneTracker`, `peers.rs`, `dns_probe.rs` | `stable_since`, `gone_since` per peer, the round's answers; `has_data`; mongod's local config | ask every peer, probe silent names, decide join / wait / hold / initiate, issue one command | peers' health servers (HTTP), resolver, own mongod, the set's primary |
| **Membership** `rs::member_duties`, `prune_round`, `add_self_through_primary`, `mongo::next_config` | prune clocks; the set's config (term, version, members) | read a config, edit it, write it back | own mongod, the primary |
| **Boot order** `main.rs`, `config.rs`, `startup_dns.rs` | lock, pins, markers on the volume | lock, reconcile keyfile, discover keyfile, replay or keep set data, spawn | everything on the volume, peers |
| **Standalone revert** `standalone_recovery.rs`, `mongo::drop_stale_replset_config` | HA record and markers, the pin | replay the oplog once, drop the set's config and pre-images | a temporary mongod |
| **Credentials** `credentials.rs`, `auth_pin.rs`, `keyfile.rs` | pin, pending password, loaded keyfile | preflight, prepare, database, member, key prepare, key commit, verify, reconcile | platform driver, peers, own mongod |
| **Sessions** `mongo.rs` | pooled client and its generation, failure counters, back-off | classify a failure, rebuild once per generation, swap password | mongod |
| **Health server** `health_server.rs`, `health_auth.rs` | probe permits, failure log | `/health`, `/role`, `/rs/state`, `/rs/keyfile`, `/switchover` | peers, HAProxy, own mongod |
| **Supervisor** `process_manager.rs`, `demote_on_shutdown.rs` | child process, restart request | wait for exit, signal or restart; step down first | mongod, runtime |
| **FCV** `fcv.rs` | none | compare member versions, raise the compatibility version | members |
| **Volume lock** `volume_lock.rs` | lock file | acquire, wait, fail open | other containers on the volume |
| **Replication monitor** `replication_monitor.rs` | state dwell per member, alerted signals | derive signals, deduplicate | telemetry |
| **Edge** `haproxy/src` | server health (fall/rise) | check `/role`, route | health servers |
| Telemetry, logging, kernel compatibility, passthrough, packaging | – | – | – |

What makes it hard: every node runs the bootstrap loop alone, on answers that
age while it waits for others; containers stop and restart between any two
awaits and forget their clocks but not their volumes; a peer that is silent may
be slow, partitioned, redeploying or deleted; configs are read, edited and
written back while elections and other writers move on; rolling operations
(rotation, redeploy, switchover) leave the nodes in mixed states; markers on a
volume are written around crashes.

What makes each part correct:

* Bootstrap: at most one node initiates, never beside an existing set, never
  past user data; and every node that exists becomes a member.
* Membership: only a name proved gone is dropped, concurrent edits do not undo
  one another, deleted members leave, and seekers get in.
* Standalone revert: no recorded write is lost between modes, the duties leave
  nothing of the set behind, and a standalone comes up whatever was cut short.
* Credentials: at every moment any two members share a key, running or about to
  start; a rotation completes, and what it has confirmed stays.
* Sessions: one rebuild per generation, none while back-off runs, no failure
  that stays for ever.
* Switchover and role: the node that asked wins, no hand-off loses a write, and
  there is a primary in the end; a node unfit to serve is pulled in time, a blip
  spares a healthy one, and the edge ends up on one primary.
* FCV: never raised while a member cannot serve it. Lock: one mongod per volume.
* Monitor: an alert fires once while it lasts, is true, and ends with its cause
  (as far as section 5 allows).

`PROJECT.json` lists the hazards of the code at their lines.

## 2. Plan

| # | Module | What it is for | Status |
|---|---|---|---|
| 1 | `Bootstrap`, `MCBootstrap` | the initiate-or-join decision | done |
| 2 | `BootstrapProofs` | types, one initiator, the first set founded alone and not instead of user data | done |
| 3 | `Membership`, `MCMembership`, `MembershipProofs` | self-adds and prunes over one config | done |
| 4 | `StandaloneRevert`, `StandaloneRevertProofs` | lock, markers, replay, pin and crash points on one volume | done |
| 5 | `CredentialRotation`, `CredentialRotationProofs` | two-pass rotation over all members with crashes and compensation | done |
| 6 | `SharedKey` | abstract: a change of keys nobody is shut out by; shown to be implemented by 5 | done |
| 7 | `SessionRecovery`, `SessionRecoveryProofs` | the pooled client and `RecoveryPolicy` under concurrent callers | done |
| 8 | `Switchover`, `SwitchoverProofs` | freeze, step-down, wait, unfreeze; planned stops | done |
| 9 | `RoleEdge`, `RoleEdgeProofs` | `/role` and its fence, the edge's checks and routing | done |
| 10 | `WatchedSet`, `Fcv` | raising the compatibility version during a deploy | done |
| 11 | `ReplicationMonitor`, `PrimaryDutiesProofs` | the clocks and the deduplication of the alerts; the proofs about 10 and 11 | done |
| 12 | `SetFormation` | abstract: a set is formed where none exists, nodes adopt it and never change sets; `Bootstrap` shown to implement it up to the first command that lands late or with a peer waived | done |

The volume lock is part of `StandaloneRevert`, the supervisor part of
`CredentialRotation` (its restart arm) and of `Switchover` (its signals).
Every invariant and every action property a run checks has a theorem (section
6); the liveness properties are model-checked only.

## 3. Modules

### `Bootstrap`, `SetFormation`

One node's loop is `phase`: `down`, `starting` (until `wait_for_final_mongod`
returns), `idle` (between rounds), `asking` (queries are out), `joining` or
`initiating` (a command is out), `member`. What survives a restart is `volume`
(empty, initialised but blank, or user data) and `config` (the set whose config
the local database holds). `hasData` is read in `Boot`, before anything is
spawned, as `main.rs` does.

| Code | Model |
|---|---|
| `main.rs` 116 `datadir_is_initialized` | `Boot` |
| `rs.rs` 75-94 | `Initialise` (external), `Ready` |
| `orchestrate` 450-479 | `LeaveLoop`, `Ask` |
| `query_peers`, `local_rs_state`, `standing_of` | `Reply`, `NoReply`, `StandingOf` |
| 488-505, `GoneTracker` | `Probe`, `Observed`, `Waived`, `Counted` |
| `decide` | `JoinExisting`, `PeerWins`, `SafeToInitiate` |
| 507-617 | `DecideJoin`, `DecideWait`, `DecideHold`, `DecideInitiate` |
| `rs_initiate`, `add_self_through_primary` and their error arms | `Initiate`, `Found`, `Join`, `CommandFails` |
| a `replSetInitiate` given up after `RECONFIG_TIMEOUT` | `CommandFails`, then `LandStray` |
| mongod, platform | `Leads`, `Deliver`, `Stop`, `Replace` |

Answers land one at a time, and each may be old when the round decides; the
command lands later still, and one that was given up after its 30 s may land
when its node is several rounds further (`stray`). Time is discrete: `Tick`
advances every clock, and a clock stops growing at the one value the code
compares it with. A round asks for at most `AskTime` and lasts at most
`RoundTime`; how either compares with the dwell is left open, as the code leaves
it. `Replace` takes longer than the questions of a round, as a redeploy does.

No property of the formation of a set holds of every behaviour: the code does not
bound a round by the dwell, and it waives peers. `lapses` is a history of the ways
in which a set has been founded irregularly: `late`, at a time when a peer that
began to ask meanwhile may have waited out the dwell on what it heard; `waiver`,
with a peer waived in the round that decided. `OneInitiator` speaks of the rounds
that have not outlasted the dwell, whatever happened before; `InitiatesAlone` and
`UserDataInitiates` hold until a command lands `late`; `FormsOneSet` and `OneSet`
until one lands in either way.

`add_self_through_primary` is one step here; its read and its write are separate
in `Membership`. A node asks only the declared peers, so a set among undeclared
nodes is out of sight, in the code as in the model. Two simplifications: the silent
peers of a round are probed in one step (the code probes them one after the other
with one `now`, 489-505), and a `Join` that timed out does not land later.

`SetFormation` is what forming a set promises, whoever decides on it: a set is
founded only where nobody is in one, then lists nodes, which adopt its config and
lose it only with their volume. A set may also be founded regardless of others,
and from then on (`irregular`) nothing is promised. `Bootstrap` implements it
(`FormsOneSet`), and is irregular only when `lapses` says so. A waived peer may
come back and initiate itself; that is the price of the waiver, which `rs.rs`
20-27 pays for a deleted member not to freeze every later boot.

### `Membership`

`cfg[n]` is the config in n's local database: term, version, members. `loop[n]`
is the wrapper: `seeking` in `orchestrate`, `member` once in `member_duties`.
`task[n]` is the change n is carrying out, with the config it read; `round[n]`
is the prune round, with the members still to visit and those seen without a
heartbeat.

| Code | Model |
|---|---|
| `orchestrate` 450-479 | `LeaveLoop`, and `ReadToJoin` for a node not listed |
| `add_self_through_primary` 388-422 | `ReadToJoin`, then `Write`, `WriteUnanswered` or `WriteRefused` |
| `member_duties` 635-684 | `PollDue`, `Tick` |
| `prune_round` 700-705 | `Sample`, `SampleFails` |
| 706-719 | `VisitHealthy`, `VisitSick`, `Observed`, `Proves` |
| 720-748 | `ReadToPrune`, then the same three writes |
| `next_config`, `config_with_member_added`, `..._removed` | `NextVersion`, `Edited` |
| `rs_reconfig` | `Installs` |

mongod is external and modelled by what the code relies on: `Elect` needs a
majority of the config and no newer config among the voters, `Heartbeat` carries
terms and configs, `Accepts` is the safe reconfig (committed old config, later
version, one member at most, a majority that is up). A write may land without
an answer. One `Tick` is one poll interval: each primary has one prune round in
it, a primary that cannot reach a majority steps down within it (10 s against a
prune dwell of 300 s), and a name that comes back stays for a whole interval
before it is lost again, so that a violation is never the fault of a name that
flickered between two polls. `Edited` has no error path: a config whose members
or version cannot be read (`mongo.rs` 1146-1175) ends a task as `WriteRefused`
does.

### `SessionRecovery`

One `mongo::Mongo` handle and the tasks that share it. `call[c]` is where a
caller stands between two awaits: `probe` and `adopt` are `admin`'s look at the
staged password, `fetch` is before `pooled`, `run` is with the command out,
`note` with its outcome, `rebuild` after a verdict to replace the client, and
`refetch`, `rerun`, `renote` are the retry. `pool` is the pooled client: the
password it authenticates with and the fate of its sockets. `policy` is
`RecoveryPolicy`, its window as the time left.

| Code | Model |
|---|---|
| `admin` 676-699 | `Begin`, `Probe`, `Adopt` (`swap_password`) |
| `recovering` 624-631 | `Fetch`, `Run` |
| `classify` | the outcomes of `Run`: `answered` stands for success and verdict |
| 633-637, 643-651, `note_success`, `note_failure` | `Note`, for the first try and the retry |
| `proven`, `on_failure` | `Proven`, `Counted`, `ShouldRebuild`, `Armed`, `AfterFailure` |
| `rebuild` 582-601 and 638-641 | `Rebuild` |
| `credentials.rs` phases, as this handle sees them | `Prepare`, `UpdateUser`, `Member`, `Verify` |

A generation is only compared with the one a caller fetched, so the model keeps
`call[c].observed`, true until the pool is replaced, instead of a counter. A
caller whose command is out when that happens keeps the old client. mongod and
the driver are external: an unopened client authenticates when it opens a
socket, a logged-out socket refuses what needs authentication and answers
`hello`, and a replaced client may be found shut down, which `classify` takes for
a verdict. The credential resolver's own swap (`auth_pin.rs` 263-272) makes the
same test and the same step as `admin`'s and is not a third actor here.

### `CredentialRotation`, `SharedKey`

A rotation of the root password and the internal key over all members. On each
volume `pin` and `pending`; in each wrapper's memory `loaded` (the keyfile mongod
was started with), `notified` (the permit of `RESTART_MONGO`), `sup` (where the
supervisor is), `op` (the request that holds the `ROTATION` mutex, with the
await it stands at) and `res` (the resolver). A keyfile is the sequence of keys
it lists; the key derived from a password is written as that password.

| Code | Model |
|---|---|
| `credentials::rotate`, `apply` | `Send`, `Prepare`, `Database`, `Member`, `Key`, `KeyCheck`, `KeyPin`, `KeyLoaded`, `KeyRefused`, `Verify`, `VerifyPasswords`, `Reply`, `Drop` |
| `healthy_set` | `HealthySet`, `SetReady`, `SetUnready` |
| `reconcile` | `Reconcile`, then the `Member` steps |
| `auth_pin::write_password_pin`, `write_pin` | `WritePasswordPin`, `WritePin` |
| `auth_pin::resolver` | `ResolvePending`, `ResolveActive`, `ResolveEnv`, `ResolvePin` |
| `process_manager::supervise`, the restart arm | `Notice`, `Handoff`, `HandoffFails`, `StopMongod`, `SpawnMongod` |
| `main.rs`, `keyfile.rs`, boot | `Boot` (`reconcile_keyfile_at_boot`), `Render` |
| platform | `Proceed`, `Repeat`, `TurnBack`, `Crash` |
| mongod | `Elect`, `Lapse`, `Replicate`, `Acknowledged` |

The platform is modelled as the code expects it: phases in order, key phases one
member at a time, any of them sent again until answered, the variable stamped
after `Verify`, and, with `TurnBack`, the rotation undone from wherever it is.
`Proceed` waits for the answer of every member, except in the Database phase, so
that no member misses a pass and boots later with a keyfile of the pass before:
of `reconcile_keyfile_at_boot` the model has every branch, but no run gets a member
to replace its keyfile by a peer's (394) for that reason. `Proceed` also waits
while a resolver is between mongod's answer and its write, a moment against a
phase; so a resolver's write is never carried across phases. A probe of the
resolver and what it sets in memory are one step, and so are the awaits of the
Database phase (probe, swap, hello, `updateUser`; `credentials.rs` 168-192).

`SharedKey` is what a key change promises: one member at a time goes over to
keys that every other member shares. `CredentialRotation` implements it with
`key[n]` the keys n is running, or would start with.

`OneRestart` is stated for the first rotation. Turned back while a restart is
out, two members may be in restarts of different rotations. Left out: members
whose volume has no pin, members dropped from the platform's list, a secondary
elected between the hello and the SIGTERM of the restart arm, and the pool's own
credential (`SessionRecovery`).

### `StandaloneRevert`

One volume, and the containers that are started on it one deployment after
another and may overlap. `box[b].at` is where a container stands in `main.rs`:
waiting for the lock, inspecting the volume, writing the member marker, deciding
about a replay, in the recovery boot, clearing the marker, spawning mongod, up.
`vol` is what is on disk. `ahead` says whether there are acknowledged writes that
only the oplog holds, `lost` which of them a boot without `--replSet` dropped.

| Code | Model |
|---|---|
| `volume_lock.rs` | `Acquire`, `OpenFails`, `LockTimesOut`, `Released` |
| `main.rs`: data dir, pin, marker | `Inspect`, `Mark`, `Decide` |
| `standalone_recovery.rs` | `ReplayNeeded`, `Recover`, `Replay`, `Checkpoint`, `RecoveryFails`, `Clear` |
| `mongo::drop_stale_replset_config`, called by `standalone_duties` | `Count`, `DropLocal`, `DropPreimages`, `DutyFails` |
| the resolver's pin | `Prove`, `PinnedKeyfile` |
| mongod, set, platform | `Spawn`, `Abort`, `Segfaults`, `Form`, `Write`, `Stable`, `Stop`, `Kill`, `Crash`, `Deploy` |

A lock file that cannot be opened lets the boot go on without it (fail open, as
the code says); `unguarded` records it and `NoWriteLost` does not speak about
such a run. Volumes start empty, as an adopted standalone's, or as a member's
from an image that wrote no marker.

### `Switchover`

`/switchover` and planned stops on one replica set. `handler[n]` is the request
n serves: freezing the others one by one, waiting for the step-down, waiting for
the promotion, lifting the freezes. `drain` is the step-down the primary carries
out, `frozen[n]` how long n's mongod will not stand, `fresh` who holds every
write of the last primary, `handed` whether it left by a step-down.

| Code | Model |
|---|---|
| `health_server::switchover` | `Ask`, `FreezeOne`, `AskStepDown`, `StepDownRefused`, `StopWaiting`, `UnfreezeOne` |
| its deadline, a caller that hangs up | `Cancel` |
| `process_manager::supervise`, signal arm; `demote_on_shutdown.rs` | `Terminate`, `DemoteFails`, `Exit` |
| `mongo::step_down`, `freeze` | `StepsDown`, `CatchupExpires`, `FreezeFor` |
| mongod, platform | `Write`, `Replicate`, `Elect`, `StandDown`, `Crash`, `Start` |

One `Tick` is ten seconds: 30 s freezes are 3, the catch-up window 1, the
deadline 4, the wait for promotion 2, the demotion's step-down period 6. A step
that is due does not wait for a `Tick`.

Two things the model shows and no property claims. A step-down that is retried,
ten seconds at a time, outlasts the freezes, and then a member that was frozen
may win; so `HandsToTarget` holds until the freezes have had their 30 s. And a
request that is cancelled leaves its freezes; they expire. Left out: a second
request on a node that serves one (the handler takes no lock, so the code allows
it; here two requests are two nodes'), the demotion's own deadline, and partitions
(they are in `RoleEdge`). The 45 s deadline is rounded to 4 ticks.

### `RoleEdge`

| Code | Model |
|---|---|
| `health_server::role` | `ReadHello`, then `ReadStatus` |
| `rs::has_majority` | `Fenced` |
| `haproxy/src/template.rs`: `httpchk`, `fall 2 rise 2`, `timeout check` | `BeginCheck`, `Counted`, `Marked`, `LoseCheck` |
| mongod, network, platform | `Elect`, `StandDown`, `Notice`, `Cut`, `Heal`, `Crash`, `Start` |

Between the two reads, and between a read and the mark, the set moves on. The
history variables follow one server, `Watched`. Two nodes can be routed at once
for a moment (an old primary not yet marked down, a new one already up): the
old one is fenced, or refuses writes, and its sessions are reset within the
bound of `PulledInTime`. That bound is `2 * Fall`, not `Fall`: a check that
falls on a change may take its `hello` from before a step-down and its status
from after the majority is back, and be a 200 that was true at neither moment.

### `Fcv`

| Code | Model |
|---|---|
| `fcv::round` | `ReadFcv`, `ReadHealth`, `AskPeer` |
| `decide` | `ToAsk`, `Current` |
| `raise` | `Raise` |
| platform | `Deploy`, `RollBack`, `Crash`, `Boot` |
| mongod | `Evict` (a binary below the FCV cannot run), `Promote`, `StandDown`, `Complete` |

Each read of a round is a step. A member rolled back after it answered can be
evicted by the raise that counted on its answer (section 5, 11); `NobodyEvicted`
is about the others and leaves those out (`rolled`).
`Fcv` and `ReplicationMonitor` share `WatchedSet` (the members, the primary, the
faults) and no other name, so that one module can prove about both.
Left out: the standalone role, which raises without asking anybody.

### `ReplicationMonitor`

| Code | Model |
|---|---|
| `rs::member_duties`, `replication_health_round` | `Hello`, `ReadStatus`, `StatusFails`, `Conclude` |
| `MemberStateTracker::observe`, `retain_known` | `Observed` |
| `derive_signals` | `StuckSignals`, `FallingSignals`, `Signals` |
| `mongo::oplog_window`, `oplog_fill` | `SizeBounded` |
| the set | `Change`, `Stop`, `StepDown`, `Elect`, `Load` |

One `Tick` is `POLL_INTERVAL`. Every wrapper keeps its own memory, also while
another node is the primary; so a wrapper that is primary again may keep silent
about an incident it reported in its earlier term.

Two histories mark where a property of the alerts ends, and section 5 has the
statements that go further. `same[n]` is what n has reported and has been true
since. `unread` holds the wrappers whose last round could not read the oplog: it
forgets the oplog signals it reported (`rs.rs` 775-790, 832), and they fire again
while still true. `ReportedOnce` allows that and nothing else. `lapsed[n]` names
the members that left the state n's clock names and entered it again before n had
seen them in another: between two polls, while a poll failed, or while another
node was the primary. `StuckIsTrue` leaves those out, and what changes during the
round itself; what remains is that removal from the config, failed reads, slow
rounds and terms of another primary do not let a clock run on from a stay that
was seen to end.

## 4. Runs

| Run | Instance | Shows |
|---|---|---|
| `bootstrap_two` | 2 nodes, n2 on user data, Dwell 3, RoundTime 3, AskTime 1, 3 faults | `TypeOK`, `OneInitiator`, `InitiatesAlone`, `UserDataInitiates`, `FormsOneSet` |
| `bootstrap_joins` | 3 nodes, n3 deleted, 1 fault, fair | `EveryoneJoins` |
| `membership_ghost` | 3 founders, one deleted, and a fourth node joining, 1 fault, fair | `EditsAsMeant`, `DeletedLeave` |
| `membership_rejoin` | 3 founders, one mid-redeploy with its name lost or not yet, 1 fault, fair | `TypeOK`, `PruneSparesTheLiving`, `SeekersJoin` |
| `session_pool` | 2 callers, one polling, 1 fault, 1 rotation, fair | `TypeOK`, `FreshPoolSpared`, `FirstTryRecovers`, `Recovers` |
| `rotation` | 3 members, 1 rotation, 2 faults | `TypeOK`, `OneRestart`, `Settled`, `RefinesSharedKey` |
| `rotation_back` | 2 members, a rotation and its way back, 1 fault, fair | `RestartsAgree`, `Completes` |
| `revert` | 2 containers, 3 deployments after the first, 2 faults, fair | `TypeOK`, `NoWriteLost`, `DutiesLeaveNothing`, `StandaloneServes` |
| `switchover` | 3 members, 2 requests, or 1 in the middle of a deployment, 1 fault, fair | `TypeOK`, `HandsToTarget`, `HandoffKeepsWrites`, `Settles` |
| `edge` | 3 members, 2 of them listed, 3 faults, fair | `TypeOK`, `PulledInTime`, `BlipSpares`, `EdgeSettles` |
| `fcv` | 3 members, two releases, 2 faults, fair | `FcvTypeOK`, `NobodyEvicted`, `FcvFollows` |
| `monitor` | 2 wrappers, Dwell 2, 3 faults, fair | `TypeOK`, `ReportedOnce`, `StuckIsTrue`, `AlertsFollow` |

What counts as a fault; `MaxFaults` bounds their number in every run. What
happens without being one (a silent peer that is down, a refused write, a
member that cannot be frozen because it is the primary) is not counted.

| Module | Faults |
|---|---|
| `Bootstrap`, `Membership` | a stop, a replaced volume, a lost name, a lost answer, a failed command, a step-down |
| `SessionRecovery` | an outage, a logout |
| `CredentialRotation` | a crash, a lost response, a hand-off that outlasts its time |
| `StandaloneRevert` | a crash, a failed marker write or drop, a failed replay, a lock file that cannot be opened |
| `Switchover` | a stop, a crash, a lost call, a request that believes in an old primary |
| `RoleEdge` | a partition, a crash, a step-down, a lost check |
| `Fcv` | a crash, a step-down, a roll-back, a failed read |
| `ReplicationMonitor` | a change of a member or of the oplog, a stop, a step-down, a failed read, a missed poll |

Why the bounds are enough to be worth something:

* Bootstrap: two nodes already have every pair of decisions, restarts and
  waivers, and `OneInitiator` is proved for any number; in `bootstrap_joins` and
  the membership runs the third node is the one that is deleted or away, beside
  a majority that survives its loss. Dwells of 1 to 4 put every order of
  "before, at, after" between the clocks; `bootstrap_two` has a command that may
  last as long as the dwell, so that it lands both in time and late. Three set
  identities are more than any bounded run forms, and interchangeable (a
  symmetry set in `bootstrap_two`).
* Membership: in `membership_ghost` the deleted founder, the joiner and the
  primary are three writers' worth of change on one config. A history with two
  elections between a read and its write is beyond the instances; `EditsAsMeant`
  is proved for any (section 6), which is how its condition on the term was
  found.
* Sessions: one rotation; what is adopted in a longer row of them is proved
  (section 6). `Threshold` 2 instead of 5 and a longest back-off of 2 instead of 10
  shortest ones keep "one more failure", "the failure that counts", "a first
  window", "a doubled window" and "a window at its maximum" apart. A third
  caller adds no new relation to a pool than "holds it" and "holds an earlier
  one", and the theorems do not depend on their number.
* Rotation: three members are the least of which one may be down without the
  set losing its majority, so that passes go on around it; they are
  interchangeable and a symmetry set in `rotation`, which checks safety only.
  Turning back multiplies the states and is checked with two.
* Revert: member, standalone, member again and standalone again is the longest
  alternation that adds anything, and two containers are all that overlap.
* Switchover: two requests that freeze each other need a third member to win or
  not to. Two counts of `rise` and `fall` in the edge are the real ones. Two
  releases in `fcv` let a second raise start from a finished or an interrupted
  first. A second wrapper in `monitor` is what gives an alert two memories.

Fairness. `Bootstrap`: weak fairness of each node's loop, of `Tick` and of
heartbeats; the tokio runtime schedules the loop, every await in it has a
timeout, and time passes. Restarts are fair because the platform restarts
containers. `Membership`: the same, and elections; `StepDown` is fair only when
the majority is gone. `SessionRecovery`: every await of a call ends, because it
is under a timeout; the polling caller starts another authenticated call, as the
monitor and health tasks do; the entrypoint creates the root user and an outage
ends; no phase of a rotation is fair. `CredentialRotation`: every task is
scheduled, the platform repeats a phase until it is answered, mongod elects and
replicates; turning back is not fair. `StandaloneRevert`: a container gets on
with its boot, what is replaced is stopped or killed in the end, as the platform
does it; neither writes nor checkpoints nor new deployments are fair.
`Switchover`: tasks, timers, elections and restarts; not that a member ever
catches up, and not a request. `RoleEdge`: HAProxy goes on checking, partitions
heal, mongod elects and notices; no check of which a part is a fault. `Fcv`: the
rounds, and a platform that brings every member to the newest release and
restarts what stopped. `ReplicationMonitor`: time, polls whose reads succeed,
and elections. Faults are never fair, and there are finitely many.

## 5. Divergences between documents and code

The configurations below are not among the runs: each checks one statement of a
document or a comment that the modelled code does not keep, and TLC prints a
trace. `tlc -config <configuration> <module>.tla` shows it.

1. `MCBootstrapHasData.cfg` of `MCBootstrap`, `UserDataAlwaysInitiates`: *the
   node holding user data initiates* (`rs.rs` 34-36). `has_data` is any
   initialised data directory (`config.rs` 179-184). A fresh node that restarts
   before a set exists claims data and, with the better seed rank, initiates
   beside the adopted volume. `UserDataInitiates` is what holds: the claim for
   nodes whose own flag is truthful.
2. `MCBootstrapSlow.cfg` of `MCBootstrap`, `OneInitiatorEver`: *exactly one wins*
   (`rs.rs` 37). It needs a round that has not outlasted the dwell, and the code
   does not see to that: the default dwell is 15 s and `replSetInitiate` may take
   30 s. `OneInitiator` is what holds.
3. `MCMembershipProven.cfg` of `MCMembership`, `PruneIsProven`: *the proof must
   hold uninterrupted* (`rs.rs` 174-175). A round that observes nothing leaves
   the clock running. The trace: a proof, the member registers again, the
   primary's `replSetGetStatus` fails for the whole interval, the member's name
   is lost anew, and the next proof is a dwell old.
4. `MCMembershipUndone.cfg` of `MCMembership`, `PruneIsUndone`: *a wrong prune is
   undone by the member itself* (`rs.rs` 44-46). It is when the member finds
   itself removed on its first look; `membership_rejoin` shows that. When its
   first look precedes the removal, it has left the join loop for good.
5. `MCSessionLosers.cfg` of `MCSessionRecovery`, `LosersRetry`: *a caller that
   lost the race … retries on the pool it finds* (`mongo.rs` 578-580). It does
   when the winner's retry has been noted by then; before that the window is
   open and the loser returns its error.
6. `MCSessionFirst.cfg` of `MCSessionRecovery`, `FirstFailureRecovers`: *the
   first auth failure after the credential last worked always rebuilds at once*
   (`mongo.rs` 272-274). The verdict on a failed retry is discarded (648). The
   trace: a caller's retry is refused before the root user exists, another
   caller's command succeeds once it does, and the first then notes its failure.
   `FirstTryRecovers` is what holds.
7. `MCFcvInterrupted.cfg` of `MCFcv`, `FcvCompletes`: *the next round retries
   anything short of the target* (`fcv.rs` 272). While the FCV document names a
   target, a round reads a transition under way and waits (`fcv.rs` 111); when
   the primary that drove it is gone, every later round waits for nobody.
   `FcvFollows` is what holds.
8. `MCRevertKeyfile.cfg` of `MCStandaloneRevert`, `KeyfileRetired`: *a standalone
   boot retires the pinned keyfile once its password is proven* (`auth_pin.rs`
   55-57). `write_password_pin` keeps the keyfile of the pin it finds (87), so
   the keyfile stays and every later standalone boot decides for a replay;
   `Replay` without an oplog is a quiet exit, and `StandaloneServes` holds
   because of that.
9. `MCRevertTorn.cfg` of `MCStandaloneRevert`, `NoSegfault`: the pre-images are
   dropped with `local` because *one left behind makes the next `--replSet` boot
   after an UNCLEAN standalone stop segfault* (`mongo.rs` 966-968). The two drops
   are two commands. The trace: `local` is dropped, the container is
   killed before the pre-images are, and the next deployment is a member's.
   The next standalone boot would finish the work
   (`DutiesLeaveNothing`), a member's does not look.
10. `MCMonitorGap.cfg` of `MCReplicationMonitor`, `StuckIsTrueAcrossGaps`: *how
    long each member has continuously reported its CURRENT state*
    (`replication_monitor.rs` 82-83). A wrapper that loses primaryship keeps its
    clocks and looks no more; when it is primary again and finds the member in
    the same state, the time between counts, whatever the member did in it. (The
    configuration keeps to members that stay two polls in every state, so that
    nothing but the gap explains the trace. Without that, a member that recovers
    and relapses between two polls is counted as stuck throughout as well.)
    `StuckIsTrue` is what holds.
11. `MCFcvRolledBack.cfg` of `MCFcv`, `NobodyEvictedAtAll`: FCV is raised *only
    once every member is healthy and reports the same binary series — a raised
    FCV evicts a member still on the old binary* (`fcv.rs` 15-17). The members are
    asked before the raise (`fcv.rs` 230) and not again with it. The trace: a
    member answers with the new series, is rolled back while the round asks the
    next one, and the raise evicts it. `NobodyEvicted` is what holds.
12. `MCMonitorUnreadable.cfg` of `MCReplicationMonitor`, `ReportedOnceEver`: *a
    signal fires once when it starts being true and stays quiet on every following
    poll while it remains true* (`rs.rs` 760-762). A round that cannot read the
    oplog's window or fill (775-790) concludes without the oplog signals and
    replaces what was alerted by what it found (832), so the next round that can
    read them reports them anew. `ReportedOnce` is what holds.
13. `MCSessionOvertaken.cfg` of `MCSessionRecovery`, `AdoptsTheAccepted`: *only a
    proven staged credential may replace it* (`mongo.rs` 683-684), read as one
    that is proven when it is installed. Proof and swap are two awaits (687, 694).
    The trace: a caller is held up between them while one rotation ends and the
    next changes the password, and then installs the one left behind. When that
    happens after the second rotation's `Verify`, no staged file is left to adopt
    from, and the handle keeps a password mongod refuses; so `Recovers` is claimed
    and checked for one rotation only. `AdoptsTheProven`, that what is adopted was
    accepted before, is what holds.

## 6. Proofs

`BootstrapProofs`, for every finite set of nodes, every bound and every number
of faults:

* `TypeCorrect`: `Spec => []TypeOK`.
* `OneInitiatorHolds`: `Spec => []OneInitiator`.

`OneInitiator` is not inductive: nothing in it says what the two nodes heard.
`IInv` adds, for each node: a decision clock runs only in a loop that runs
(`ClockNeedsLoop`); answers do not outlive their round (`RoundOver`); what a peer
said of its data in this round still holds, unless the peer restarted, and then
its decision clock is younger than this round (`CurrentAnswers`); and a node that
is initiating has held its decision for the dwell, and each peer either lost the
tie-break or has a clock younger than this round (`Committed`). Two initiators
in rounds shorter than the dwell would both have clocks of a whole dwell, longer
than either round, so each heard the other's true standing and beat it, which one
order of distinct ranks does not allow. `LocalStep` reduces each single-node
action to its own node; `DecideIInv` and `TickIInv` are the two steps that need
arguments of their own.

* `InitiatesAloneHolds`, `UserDataInitiatesHolds`: `Spec => []InitiatesAlone` and
  `Spec => []UserDataInitiates`.

`AloneInv` adds to `IInv` that a running node whose `has_data` is false holds no
user data but by initial sync (`FlagFits`), that a peer which answered "no data"
has gained none but with a set (`BlankStands`), and that who initiates unwaived
has beaten everybody (`BeatsAll`). What makes it hard is a peer that answers "no
set" and joins one while the round still asks others. `LateSetsShow` is the
invariant for that: such a round is `Hopeless`, because the node that founded
that set has told, or will tell before the time for questions is up, of a set or
of winning, or because the asking node's own decision is too young (`TooYoung`).
That argument needs the command that founded the set to have landed in time, which
is what `late` records; the strengthening is therefore `LandedInv`, which has
`AloneInv` until then, and `LapsesStay` says that the history is not rewritten.

* `FormsOneSetHolds`: `Spec => FormsOneSet`. While `lapses` is empty, `LandedInv`
  makes `Initiate` a `Found` among empty configs: the node that initiates is alone
  without a set. Otherwise it is an irregular `Found`. Everything else maps to the
  action of the same meaning or to a stutter (`FormsStep`).
* `OneSetHolds`: `Spec => []OneSet`, of `Bootstrap`: what `SetFormation` keeps
  (`FormationKeepsOne`: `OneSet` is inductive with the type, since a regular
  `Found` finds every config empty) and the refinement together.

None of these assumes anything about the times: a dwell shorter than a round is
among the instances.

The assumptions are those on the constants (`NodeAssumption`, `RankAssumption`,
`TimeAssumption`, `BoundAssumption`, `SetIdAssumption`): a host has one position
in the seed list, and dwells are natural numbers. Every run evaluates them.

`SessionRecoveryProofs`, for every finite set of callers, every bound and every
number of faults:

* `TypeCorrect`: `Spec => []TypeOK`.
* `FreshPoolIsSpared`: `Spec => FreshPoolSpared`.
* `FirstTryRecoversHolds`: `Spec => FirstTryRecovers`. As long as no failure of
  the credential has been noted since it last worked, no window of one is open
  (`NoWindowLeft`), so `RecoveryPolicy` holds nothing back.
* `AdoptsTheProvenHolds`: `Spec => AdoptsTheProven`, for any number of rotations.
  A call about to adopt a password has seen mongod accept it (`Adoptable`), and
  the passwords of mongod are numbered in the order it takes them. That it still
  accepts it cannot be claimed (section 5, 13).

`IInv` adds to the types that a call at `probe` or `adopt` has a candidate
(`Candidate`, without which the types are not inductive: the active password
would become "none"), and that a caller about to rebuild has a failure to show,
of which the pool is suspect as long as it is the one the caller fetched
(`Blamed`). `OvertakenType` and `EverySocketType` say what a replacement and a
change of all sockets leave alone of a call.

`MembershipProofs`, for every finite set of nodes, every dwell and every number
of faults:

* `TypeCorrect`: `Spec => []TypeOK`.
* `PruneSparesTheLivingHolds`: `Spec => []PruneSparesTheLiving`. `SpareInv` adds
  that a running container has its name (`NamedWhenUp`), which is what lets the
  loss of a name prove that a container is gone.
* `EditsAsMeantHolds`: `Spec => EditsAsMeant`. `EditInv` adds that a primary's
  config is of the term it was elected for (`OfTerm`), that a prune is written
  where it was read (`Holds`), and that a config read from a primary in its
  present term is its config still or has a lower version (`ReadAt`); mongod
  refuses a version that is not later.

The proof of the last found a limit of what is claimed. `next_config` drops
`term` (`mongo.rs` 1131-1133), so mongod takes a config read in an earlier term
of the same primary when its version happens to be the next one. With four nodes
and four faults there is a history in which a primary reads its config for a
prune while an uncommitted add is in it, loses the election to a node that
prunes the same member and never had the add, is elected again, and its old
write brings the rolled-back member back. `EditsAsMeant` therefore speaks about
the members only for a config written in the term it was read in; that one
author's edit at a time changes the config holds without that condition.

`StandaloneRevertProofs`, for any containers, deployments and faults:

* `TypeCorrect`: `Spec => []TypeOK`.
* `DutiesLeaveNothingHolds`: `Spec => []DutiesLeaveNothing`. `DutyInv` adds that
  only one mongod has the files open (`OneEngine`, WiredTiger's own lock) and
  that what the duties have counted or dropped is what there is (`Counted`).
* `NoWriteLostHolds`: `Spec => []NoWriteLost`. `WriteInv` speaks only of
  histories in which no container gave up the lock: then who is past the lock
  holds it (`Locked`), a recorded write that the data lacks has an oplog and a
  record of it (`AheadOfData`), what a boot has read still is so when it decides
  and nothing recorded is ahead past the replay (`Cleared`), and each step is of
  the mode it belongs to (`Staged`).

`SwitchoverProofs`, for every finite set of members, all times and any number of
requests and faults:

* `TypeCorrect`: `Spec => []TypeOK`; with `Asked`, a request always has a primary
  to step down. `FreezesOthers` is part of the type: a request never freezes the
  node it is to make the primary, nor the primary.
* `HandoffKeepsWritesHolds`: `Spec => HandoffKeepsWrites`. `Handed` says that
  after a hand-off a majority holds every write; whoever wins needs votes of a
  majority none of which is ahead of it, and two majorities meet
  (`TwoMajorities`).
* `HandsToTargetHolds`: `Spec => HandsToTarget`. `Undisturbed` says, for the first
  switchover as long as nothing fails, which members are held at each of its
  stages, and that the time their freezes have left and the time it has used make
  up the whole freeze. `TimeAssumption` has `FreezeTime <= DemoteTime`
  (30 s and 60 s in the code), which bounds the clocks.

`RoleEdgeProofs`, for any members and listed servers and any number of faults:

* `TypeCorrect`: `Spec => []TypeOK`.
* `PulledInTimeHolds`: `Spec => []PulledInTime`. `Counting` relates the checks
  ended since the server last served to the count against it: a check whose two
  reads are of different moments can pass once, and starts the count over once.
  `CountAssumption` has `Rise > 1` (the template has `rise 2`); with `rise 1`
  such a check would bring back a server that was already pulled.
* `BlipSparesHolds`: `Spec => BlipSpares`. `Blameless`: what counts against a
  server that has served throughout are lost checks.

`PrimaryDutiesProofs`, about the two loops of a primary, for every finite set of
nodes and any number of faults; first `Fcv`, for any number of releases:

* `FcvTypeCorrect`: `FcvSpec => []FcvTypeOK`.
* `NobodyEvictedHolds`: `FcvSpec => []NobodyEvicted`. `FcvInv` adds that images
  are never more than a release away from the FCV (`Near`), that a transition
  goes to the next one (`Transition`), and that whoever answered a round which
  can still raise the FCV can run what it would raise to, unless rolled back
  (`Answered`).

Then `ReplicationMonitor`, for every dwell:

* `MonitorType`: `Spec => []TypeOK`.
* `ReportedOnceHolds`: `Spec => ReportedOnce`. `SameLasts`: what a wrapper has
  reported and has been true since is true, is so in what an unfinished round has
  read, so that its next conclusion finds it again, and is in its `alerted`,
  unless it is an oplog signal and the last round could not read the oplog.
* `StuckIsTrueHolds`: `Spec => StuckIsTrue`. `ClocksTrue` says that a clock that
  names the state of its member is no older than the member's stay in it, unless
  the member is in `lapsed`. Nothing is assumed about how long a member stays in a
  state.

`CredentialRotationProofs`, for every finite set of members and any number of
faults:

* `TypeCorrect`: `Spec => []TypeOK`, for any number of rotations. The types are
  not inductive alone: `Database` counts the changes of the root password, and
  only the order of the requests bounds the count. `TypeInv` adds that a request
  of an earlier rotation is left behind before its member answers the present
  one (`InTime`), that past the first phase no such request is left
  (`InOrder`), that nobody has applied a change that some request still under
  way does not know of (`RootsAsked`), and what a stopped container does not do
  (`Quiet`).
* `RestartsAgreeHolds`: `Spec => []RestartsAgree`, for a rotation and its way
  back. `KeyInv` states agreement of all keyfiles a member runs with, is about to
  be restarted on or would start with (`InUse`, `Agreeing`), because any of the
  three may be what it accepts next. That the next pin agrees with all of them
  rests on the order of the passes: who has the first pass of a rotation loaded
  has nothing ahead that lacks the new key (`Follows`), everybody lists the new
  key before anybody goes over to it alone (`Passes`), and the first pass of the
  way back is nowhere before it is asked for (`NotYetBack`).
* `RefinesSharedKeyHolds`: `Spec => RefinesSharedKey` under the same assumption:
  no step touches the keyfiles of two members (`OneAtATime`), and what the one
  accepts afterwards every other shares.
* `AgreementHolds`: `Spec => [](Shared!TypeOK /\ Shared!Agreement)` under the same
  assumption: no two members are ever without a key in common. It is what
  `SharedKey` keeps (`AgreementOfRefinement`: `Agreement` is inductive with the
  type, for a `Change` touches one member, and only to keys all others share),
  brought down to the rotation by `RefinesSharedKeyHolds`.

The assumption of the last three is `MaxRotations <= 2`, and it is needed: with
four rotations in a row and two faults, TLC follows a history of two members to a
state that violates `RestartsAgree`. The second rotation's hand-off to
`<<2, 1>>` is held up on n2 while the platform turns back twice. n2 still has
`<<1, 2>>` loaded from the first rotation, so the third one's `KeyPrepare` is
answered there at once (`credentials.rs` compares with `LOADED_KEYFILE` and not
with the pin) and its `KeyCommit` pins `<<2>>`. Now the old hand-off goes through
and loads `<<2, 1>>`; the fourth rotation's `KeyPrepare` is again answered at
once, with `<<2>>` still pinned, and its `KeyCommit` pins `<<1>>` on n1. In the
code a hand-off gives up after 20 s, far less than the rotations in between take.
The model has no clock there, so nothing is claimed of three rotations or more.

* `OneRestartHolds`: `Spec /\ []Durable => []OneRestart`, and `SettledHolds`:
  `Spec /\ []Durable => [](rotation = 1 => Settled)`, both about the first
  rotation. `FirstInv` follows each member through it. Its requests are of a
  phase that can have one (`OpFirst`); a member that has answered the Member
  phase, or is about to, has the new password (`RootFirst`); only the member
  whose turn it is in a pass is between two keyfiles or being restarted, and
  what its pin, its memory and its supervisor hold are the keyfiles before and
  after that pass in an order a restart cannot undo (`KeyFirst`); and what
  Verify confirmed no resolver writes over (`PasswordFirst`). `ChangedLeads`
  keeps it so: once a majority has the new password, only one of them is
  elected (a candidate is not behind a majority, and two majorities meet), so
  that nobody rolls it back (`MajorityKeeps`) and the platform does not start
  again in the middle of a pass.

`Durable` says that the answer which ends the Database phase stands for a majority
that has the change. `updateUser` waits for one; but a repeated request that finds
the new password working on the primary is answered at once
(`credentials.rs`, `apply`), and when the first one's wait was cut short the
change may be the primary's alone. If that primary is lost, members that have
confirmed the password roll it back and the platform starts again while late
requests are out. On three members with two faults that breaks `FirstInv` and
neither property (run `rotation`, which assumes nothing). With five members and
some ten faults there is, by hand, a history of the model that breaks
`OneRestart`: two `Database` requests held up over two roll-backs change the
password when the passes have begun. In the code a request ends after 35 s; the
model has no clock there, so nothing is claimed of that case at other sizes.

Only model-checked: the liveness properties (`EveryoneJoins`, `DeletedLeave`,
`SeekersJoin`, `Recovers`, `Completes`, `StandaloneServes`, `Settles`,
`EdgeSettles`, `FcvFollows`, `AlertsFollow`). The prover handles neither fairness
nor `ENABLED`. Nothing here needs induction over recursive data.

## 7. Not modelled

* Telemetry and logging: nothing waits for them. `kernel_compat.rs` and
  `passthrough.rs`: decisions made once, without state. Packaging and test
  drivers.
* DNS packets, HTTP bodies, BSON and the generated configuration's text: what is
  modelled is the verdict each yields.
* A query task that panics (`rs.rs` 317) drops a peer from the answers; no panic
  is reachable there and it is left out.
* `startup_dns.rs` delays the spawn of mongod and changes nothing else; a first
  boot that adopts the keyfile of a live set (`discover_live_set_keyfile` on a
  volume without a pin) is left out with the volumes that have none.
* The respawn of the health server's task and the authentication of requests;
  the loop of the edge that reports a missing primary.
* Components composed: each of `RoleEdge`, `Switchover` and `CredentialRotation`
  has an environment of its own for mongod's elections; one model of all three
  is beyond the checker at the sizes where their interleavings matter.
