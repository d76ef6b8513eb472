------------------------ MODULE StandaloneRevertProofs ------------------------
(***************************************************************************)
(* Proofs about StandaloneRevert, for any number of containers,            *)
(* deployments and faults: type correctness, that no recorded write is     *)
(* lost between the modes, and that the duties of a standalone leave       *)
(* nothing of the set behind.                                              *)
(***************************************************************************)
EXTENDS StandaloneRevert, TLAPS

-----------------------------------------------------------------------------
(* The inductive invariants.                                               *)

\* Past the lock, and with the dbpath open.
Inside(b) == box[b].at \notin {"gone", "down", "lock"}
Serving(b) == box[b].at \in {"replay", "checkpoint", "up"}

\* Two mongods never have the dbpath open at once, locked or not.
OneEngine == \A b \in Boxes : Serving(b) => engine = b

\* What a standalone's duties have counted is what there is, and what they have
\* dropped is gone: nobody else has the dbpath open.
Counted(b) ==
  At(b, "up") /\ Standalone(b) =>
    /\ box[b].duty = "local" => box[b].stale = vol.local
    /\ box[b].duty \in {"local", "preimages"} => box[b].images = vol.preimages
    /\ box[b].duty \in {"preimages", "done"} => ~vol.local
    /\ box[b].duty = "done" => ~vol.preimages

DutyInv == TypeOK /\ OneEngine /\ \A b \in Boxes : Counted(b)

\* Who is past the lock holds it.
Locked == \A b \in Boxes : Inside(b) => lock = b

\* Writes are ahead only where there is an oplog, and recorded only where there
\* is a record.
AheadOfData ==
  /\ ahead # "none" => vol.local /\ vol.data
  /\ ahead = "recorded" => vol.marker \/ vol.keyfile

\* What a standalone boot has read of the data is still so when it decides; past
\* the decision no recorded write is ahead unless its replay is to come, and
\* past the replay none is.
Cleared(b) ==
  Standalone(b) =>
    /\ At(b, "decide") => box[b].hasData = vol.data
    /\ At(b, "spawn") => ahead # "recorded"
    /\ box[b].at \in {"clear", "up"} => ahead = "none"

\* mongod has made a dataset of whatever it was started on.
HasData(b) == At(b, "up") => vol.data

\* Which steps are a member's and which a standalone's.
Staged(b) ==
  /\ At(b, "mark") => ~Standalone(b)
  /\ \/ box[b].at \in {"decide", "recover", "replay", "checkpoint", "clear"}
     \/ At(b, "up") /\ box[b].duty \in {"count", "local", "preimages"}
     => Standalone(b)

WriteInv ==
  TypeOK /\ (~unguarded => /\ Locked
                           /\ AheadOfData
                           /\ \A b \in Boxes : Cleared(b) /\ HasData(b) /\ Staged(b)
                           /\ "recorded" \notin lost)

-----------------------------------------------------------------------------
(* Type correctness.                                                       *)

\* The states of a container, as TypeOK has them.
BoxState ==
  [at : {"gone", "down", "lock", "inspect", "mark", "decide", "recover", "replay",
         "checkpoint", "clear", "spawn", "up"},
   mode : Modes, hasData : BOOLEAN, key : BOOLEAN, proven : BOOLEAN,
   duty : {"none", "count", "local", "preimages", "done"}, stale : BOOLEAN, images : BOOLEAN]

Outside == {"gone", "down", "lock"}
Engaged == {"replay", "checkpoint", "up"}

LEMMA BoxTypes ==
  TypeOK => box \in [Boxes -> BoxState] /\ \A b \in Boxes : box[b] \in BoxState
BY DEF TypeOK, BoxState

LEMMA GoneType == Gone \in BoxState /\ Gone.at = "gone"
BY DEF Gone, BoxState, Modes

LEMMA EndedType ==
  ASSUME NEW b \in Boxes, box[b] \in BoxState
  PROVE  Ended(b) \in BoxState /\ Ended(b).at \in {"gone", "down"}
BY DEF Ended, Gone, BoxState, Modes

\* A step of one container, which holds the lock, or the dbpath, only where it
\* is past the lock, or has a mongod.
LEMMA OneBoxType ==
  ASSUME TypeOK, NEW b \in Boxes, NEW s \in BoxState,
         box' = [box EXCEPT ![b] = s],
         lock' \in {lock, b, NoBox}, lock' = b => s.at \notin Outside,
         engine' \in {engine, b, NoBox}, engine' = b => s.at \in Engaged,
         current' = current, vol' \in Volume,
         ahead' \in {"none", "recorded", "unrecorded"}, lost' \subseteq {"recorded", "unrecorded"},
         unguarded' \in BOOLEAN, deploys' = deploys, faults' \in 0..MaxFaults
  PROVE  TypeOK'
<1>1. box' \in [Boxes -> BoxState] /\ box'[b] = s /\ \A c \in Boxes \ {b} : box'[c] = box[c]
  BY BoxTypes
<1>2. lock' \in {c \in Boxes : box'[c].at \notin Outside} \cup {NoBox}
  BY <1>1, BoxAssumption DEF TypeOK, Outside
<1>3. engine' \in {c \in Boxes : box'[c].at \in Engaged} \cup {NoBox}
  BY <1>1, BoxAssumption DEF TypeOK, Engaged
<1>4. QED
  BY <1>1, <1>2, <1>3 DEF TypeOK, BoxState, Outside, Engaged

LEMMA VolumeType ==
  ASSUME NEW v \in Volume, NEW x \in BOOLEAN
  PROVE  /\ [v EXCEPT !.marker = x] \in Volume
         /\ [v EXCEPT !.local = x] \in Volume
         /\ [v EXCEPT !.preimages = x] \in Volume
         /\ [v EXCEPT !.unclean = x] \in Volume
BY DEF Volume

LEMMA PairType ==
  ASSUME NEW v \in Volume, NEW x \in BOOLEAN, NEW y \in BOOLEAN
  PROVE  /\ [v EXCEPT !.pinned = x, !.keyfile = y] \in Volume
         /\ [v EXCEPT !.data = x, !.unclean = y] \in Volume
         /\ [v EXCEPT !.data = x, !.pinned = y] \in Volume
BY DEF Volume

LEMMA ReadType ==
  ASSUME NEW r \in BoxState, NEW x \in BOOLEAN, NEW y \in BOOLEAN
  PROVE  /\ \A at \in {"decide", "mark"} :
              [r EXCEPT !.hasData = x, !.key = y, !.at = at] \in BoxState
         /\ \A duty \in {"local", "done"} :
              [r EXCEPT !.stale = x, !.images = y, !.duty = duty] \in BoxState
         /\ [r EXCEPT !.proven = x] \in BoxState
BY DEF BoxState

LEMMA VolumeFields ==
  ASSUME NEW v \in Volume
  PROVE  /\ v.data \in BOOLEAN /\ v.marker \in BOOLEAN /\ v.pinned \in BOOLEAN
         /\ v.keyfile \in BOOLEAN /\ v.local \in BOOLEAN /\ v.preimages \in BOOLEAN
BY DEF Volume

LEMMA BoxFields ==
  ASSUME NEW r \in BoxState
  PROVE  /\ r.key \in BOOLEAN /\ r.stale \in BOOLEAN /\ r.images \in BOOLEAN
         /\ r.hasData \in BOOLEAN /\ r.proven \in BOOLEAN
BY DEF BoxState

LEMMA TypeInit == Init => TypeOK
<1> SUFFICES ASSUME Init PROVE TypeOK
  OBVIOUS
<1>1. vol \in Volume
  <2>1. Empty \in Volume
    BY DEF Empty, Volume
  <2>2. Adopted \in Volume
    BY <2>1, PairType DEF Adopted
  <2>3. Unmarked \in Volume
    BY <2>2 DEF Unmarked, Adopted, Empty, Volume
  <2>4. QED
    BY <2>1, <2>2, <2>3 DEF Init
<1>2. PICK m \in Modes : box = [b \in Boxes |-> IF b = current
                                  THEN [Gone EXCEPT !.at = "lock", !.mode = m] ELSE Gone]
  BY DEF Init
<1>3. [Gone EXCEPT !.at = "lock", !.mode = m] \in BoxState
  BY DEF Gone, BoxState, Modes
<1>4. box \in [Boxes -> BoxState]
  BY <1>2, <1>3, GoneType
<1>5. /\ current \in Boxes /\ lock = NoBox /\ engine = NoBox
      /\ lost = {} /\ unguarded = FALSE /\ deploys = 0 /\ faults = 0
  BY DEF Init
<1>6. ahead \in {"none", "recorded", "unrecorded"}
  BY DEF Init
<1>7. 0 \in 0..MaxDeploys /\ 0 \in 0..MaxFaults
  BY BoundAssumption
<1>8. QED
  BY <1>1, <1>4, <1>5, <1>6, <1>7 DEF TypeOK, BoxState

LEMMA TypeStep == TypeOK /\ [Next]_vars => TypeOK'
<1> SUFFICES ASSUME TypeOK, [Next]_vars PROVE TypeOK'
  OBVIOUS
<1>0. /\ vol \in Volume
      /\ ahead \in {"none", "recorded", "unrecorded"} /\ lost \subseteq {"recorded", "unrecorded"}
      /\ unguarded \in BOOLEAN /\ faults \in 0..MaxFaults
      /\ \A b \in Boxes : box[b] \in BoxState
      /\ \A b \in Boxes : (lock = b => box[b].at \notin Outside)
      /\ \A b \in Boxes : (engine = b => box[b].at \in Engaged)
      /\ \A b \in Boxes : b # NoBox
  BY BoxTypes, BoxAssumption DEF TypeOK, Outside, Engaged
<1>00. Fault => faults' \in 0..MaxFaults /\ deploys' = deploys
  BY <1>0, BoundAssumption DEF Fault
<1>1. ASSUME NEW b \in Boxes, Restart(b) PROVE TypeOK'
  <2> DEFINE s == [box[b] EXCEPT !.at = "lock"]
  <2>1. s \in BoxState
    BY <1>0 DEF BoxState, Volume
  <2>2. box' = [box EXCEPT ![b] = s] /\ current' = current
    BY <1>0, <1>1 DEF Restart, At, Goto
  <2>3. lock' \in {lock, b, NoBox} /\ (lock' = b => s.at \notin Outside)
    BY <1>0, <1>1, <2>1 DEF Restart, At, Outside, Released, BoxState
  <2>4. engine' \in {engine, b, NoBox} /\ (engine' = b => s.at \in Engaged)
    BY <1>0, <1>1, <2>1 DEF Restart, At, Engaged, Released, BoxState
  <2>5. vol' \in Volume
    BY <1>0, <1>1, VolumeType DEF Restart
  <2>6. /\ ahead' \in {"none", "recorded", "unrecorded"} /\ lost' \subseteq {"recorded", "unrecorded"}
        /\ unguarded' \in BOOLEAN /\ deploys' = deploys /\ faults' \in 0..MaxFaults
    BY <1>0, <1>00, <1>1 DEF Restart, bounds
  <2> HIDE DEF s
  <2>7. QED
    BY <2>1, <2>2, <2>3, <2>4, <2>5, <2>6, OneBoxType
<1>2. ASSUME NEW b \in Boxes, Acquire(b) PROVE TypeOK'
  <2> DEFINE s == [box[b] EXCEPT !.at = "inspect"]
  <2>1. s \in BoxState
    BY <1>0 DEF BoxState, Volume
  <2>2. box' = [box EXCEPT ![b] = s] /\ current' = current
    BY <1>0, <1>2 DEF Acquire, At, Goto
  <2>3. lock' \in {lock, b, NoBox} /\ (lock' = b => s.at \notin Outside)
    BY <1>0, <1>2, <2>1 DEF Acquire, At, Outside, Released, BoxState
  <2>4. engine' \in {engine, b, NoBox} /\ (engine' = b => s.at \in Engaged)
    BY <1>0, <1>2, <2>1 DEF Acquire, At, Engaged, Released, BoxState
  <2>5. vol' \in Volume
    BY <1>0, <1>2, VolumeType DEF Acquire
  <2>6. /\ ahead' \in {"none", "recorded", "unrecorded"} /\ lost' \subseteq {"recorded", "unrecorded"}
        /\ unguarded' \in BOOLEAN /\ deploys' = deploys /\ faults' \in 0..MaxFaults
    BY <1>0, <1>00, <1>2 DEF Acquire, bounds
  <2> HIDE DEF s
  <2>7. QED
    BY <2>1, <2>2, <2>3, <2>4, <2>5, <2>6, OneBoxType
<1>3. ASSUME NEW b \in Boxes, Inspect(b) PROVE TypeOK'
  <2> DEFINE s == [box[b] EXCEPT !.hasData = vol.data, !.key = ~Standalone(b),
                                  !.at = IF Standalone(b) THEN "decide" ELSE "mark"]
  <2>1. s \in BoxState
    <3>1. vol.data \in BOOLEAN /\ (~Standalone(b)) \in BOOLEAN
      BY <1>0, VolumeFields
    <3>2. QED
      BY <1>0, <3>1, ReadType
  <2>2. box' = [box EXCEPT ![b] = s] /\ current' = current
    BY <1>0, <1>3 DEF Inspect, At
  <2>3. lock' \in {lock, b, NoBox} /\ (lock' = b => s.at \notin Outside)
    BY <1>0, <1>3, <2>1 DEF Inspect, At, Outside, Released, BoxState
  <2>4. engine' \in {engine, b, NoBox} /\ (engine' = b => s.at \in Engaged)
    BY <1>0, <1>3, <2>1 DEF Inspect, At, Engaged, Released, BoxState
  <2>5. vol' \in Volume
    BY <1>0, <1>3, VolumeType DEF Inspect
  <2>6. /\ ahead' \in {"none", "recorded", "unrecorded"} /\ lost' \subseteq {"recorded", "unrecorded"}
        /\ unguarded' \in BOOLEAN /\ deploys' = deploys /\ faults' \in 0..MaxFaults
    BY <1>0, <1>00, <1>3 DEF Inspect, bounds
  <2> HIDE DEF s
  <2>7. QED
    BY <2>1, <2>2, <2>3, <2>4, <2>5, <2>6, OneBoxType
<1>4. ASSUME NEW b \in Boxes, Mark(b) PROVE TypeOK'
  <2> DEFINE s == [box[b] EXCEPT !.at = "spawn"]
  <2>1. s \in BoxState
    BY <1>0 DEF BoxState, Volume
  <2>2. box' = [box EXCEPT ![b] = s] /\ current' = current
    BY <1>0, <1>4 DEF Mark, At, Goto
  <2>3. lock' \in {lock, b, NoBox} /\ (lock' = b => s.at \notin Outside)
    BY <1>0, <1>4, <2>1 DEF Mark, At, Outside, Released, BoxState
  <2>4. engine' \in {engine, b, NoBox} /\ (engine' = b => s.at \in Engaged)
    BY <1>0, <1>4, <2>1 DEF Mark, At, Engaged, Released, BoxState
  <2>5. vol' \in Volume
    BY <1>0, <1>4, VolumeType DEF Mark
  <2>6. /\ ahead' \in {"none", "recorded", "unrecorded"} /\ lost' \subseteq {"recorded", "unrecorded"}
        /\ unguarded' \in BOOLEAN /\ deploys' = deploys /\ faults' \in 0..MaxFaults
    BY <1>0, <1>00, <1>4 DEF Mark, bounds
  <2> HIDE DEF s
  <2>7. QED
    BY <2>1, <2>2, <2>3, <2>4, <2>5, <2>6, OneBoxType
<1>5. ASSUME NEW b \in Boxes, Decide(b) PROVE TypeOK'
  <2> DEFINE s == [box[b] EXCEPT !.at = IF ReplayNeeded(b) THEN "recover" ELSE "spawn"]
  <2>1. s \in BoxState
    BY <1>0 DEF BoxState, Volume
  <2>2. box' = [box EXCEPT ![b] = s] /\ current' = current
    BY <1>0, <1>5 DEF Decide, At, Goto
  <2>3. lock' \in {lock, b, NoBox} /\ (lock' = b => s.at \notin Outside)
    BY <1>0, <1>5, <2>1 DEF Decide, At, Outside, Released, BoxState
  <2>4. engine' \in {engine, b, NoBox} /\ (engine' = b => s.at \in Engaged)
    BY <1>0, <1>5, <2>1 DEF Decide, At, Engaged, Released, BoxState
  <2>5. vol' \in Volume
    BY <1>0, <1>5, VolumeType DEF Decide
  <2>6. /\ ahead' \in {"none", "recorded", "unrecorded"} /\ lost' \subseteq {"recorded", "unrecorded"}
        /\ unguarded' \in BOOLEAN /\ deploys' = deploys /\ faults' \in 0..MaxFaults
    BY <1>0, <1>00, <1>5 DEF Decide, bounds
  <2> HIDE DEF s
  <2>7. QED
    BY <2>1, <2>2, <2>3, <2>4, <2>5, <2>6, OneBoxType
<1>6. ASSUME NEW b \in Boxes, Recover(b) PROVE TypeOK'
  <2> DEFINE s == [box[b] EXCEPT !.at = "replay"]
  <2>1. s \in BoxState
    BY <1>0 DEF BoxState, Volume
  <2>2. box' = [box EXCEPT ![b] = s] /\ current' = current
    BY <1>0, <1>6 DEF Recover, At, Goto
  <2>3. lock' \in {lock, b, NoBox} /\ (lock' = b => s.at \notin Outside)
    BY <1>0, <1>6, <2>1 DEF Recover, At, Outside, Released, BoxState
  <2>4. engine' \in {engine, b, NoBox} /\ (engine' = b => s.at \in Engaged)
    BY <1>0, <1>6, <2>1 DEF Recover, At, Engaged, Released, BoxState
  <2>5. vol' \in Volume
    BY <1>0, <1>6, VolumeType DEF Recover
  <2>6. /\ ahead' \in {"none", "recorded", "unrecorded"} /\ lost' \subseteq {"recorded", "unrecorded"}
        /\ unguarded' \in BOOLEAN /\ deploys' = deploys /\ faults' \in 0..MaxFaults
    BY <1>0, <1>00, <1>6 DEF Recover, bounds
  <2> HIDE DEF s
  <2>7. QED
    BY <2>1, <2>2, <2>3, <2>4, <2>5, <2>6, OneBoxType
<1>7. ASSUME NEW b \in Boxes, Replay(b) PROVE TypeOK'
  <2> DEFINE s == [box[b] EXCEPT !.at = IF vol.local THEN "checkpoint" ELSE "clear"]
  <2>1. s \in BoxState
    BY <1>0 DEF BoxState, Volume
  <2>2. box' = [box EXCEPT ![b] = s] /\ current' = current
    BY <1>0, <1>7 DEF Replay, At, Goto
  <2>3. lock' \in {lock, b, NoBox} /\ (lock' = b => s.at \notin Outside)
    BY <1>0, <1>7, <2>1 DEF Replay, At, Outside, Released, BoxState
  <2>4. engine' \in {engine, b, NoBox} /\ (engine' = b => s.at \in Engaged)
    BY <1>0, <1>7, <2>1 DEF Replay, At, Engaged, Released, BoxState
  <2>5. vol' \in Volume
    BY <1>0, <1>7, VolumeType DEF Replay
  <2>6. /\ ahead' \in {"none", "recorded", "unrecorded"} /\ lost' \subseteq {"recorded", "unrecorded"}
        /\ unguarded' \in BOOLEAN /\ deploys' = deploys /\ faults' \in 0..MaxFaults
    BY <1>0, <1>00, <1>7 DEF Replay, bounds
  <2> HIDE DEF s
  <2>7. QED
    BY <2>1, <2>2, <2>3, <2>4, <2>5, <2>6, OneBoxType
<1>8. ASSUME NEW b \in Boxes, Checkpoint(b) PROVE TypeOK'
  <2> DEFINE s == [box[b] EXCEPT !.at = "clear"]
  <2>1. s \in BoxState
    BY <1>0 DEF BoxState, Volume
  <2>2. box' = [box EXCEPT ![b] = s] /\ current' = current
    BY <1>0, <1>8 DEF Checkpoint, At, Goto
  <2>3. lock' \in {lock, b, NoBox} /\ (lock' = b => s.at \notin Outside)
    BY <1>0, <1>8, <2>1 DEF Checkpoint, At, Outside, Released, BoxState
  <2>4. engine' \in {engine, b, NoBox} /\ (engine' = b => s.at \in Engaged)
    BY <1>0, <1>8, <2>1 DEF Checkpoint, At, Engaged, Released, BoxState
  <2>5. vol' \in Volume
    BY <1>0, <1>8, VolumeType DEF Checkpoint
  <2>6. /\ ahead' \in {"none", "recorded", "unrecorded"} /\ lost' \subseteq {"recorded", "unrecorded"}
        /\ unguarded' \in BOOLEAN /\ deploys' = deploys /\ faults' \in 0..MaxFaults
    BY <1>0, <1>00, <1>8 DEF Checkpoint, bounds
  <2> HIDE DEF s
  <2>7. QED
    BY <2>1, <2>2, <2>3, <2>4, <2>5, <2>6, OneBoxType
<1>9. ASSUME NEW b \in Boxes, Clear(b) PROVE TypeOK'
  <2> DEFINE s == [box[b] EXCEPT !.at = "spawn"]
  <2>1. s \in BoxState
    BY <1>0 DEF BoxState, Volume
  <2>2. box' = [box EXCEPT ![b] = s] /\ current' = current
    BY <1>0, <1>9 DEF Clear, At, Goto
  <2>3. lock' \in {lock, b, NoBox} /\ (lock' = b => s.at \notin Outside)
    BY <1>0, <1>9, <2>1 DEF Clear, At, Outside, Released, BoxState
  <2>4. engine' \in {engine, b, NoBox} /\ (engine' = b => s.at \in Engaged)
    BY <1>0, <1>9, <2>1 DEF Clear, At, Engaged, Released, BoxState
  <2>5. vol' \in Volume
    BY <1>0, <1>9, VolumeType DEF Clear
  <2>6. /\ ahead' \in {"none", "recorded", "unrecorded"} /\ lost' \subseteq {"recorded", "unrecorded"}
        /\ unguarded' \in BOOLEAN /\ deploys' = deploys /\ faults' \in 0..MaxFaults
    BY <1>0, <1>00, <1>9 DEF Clear, bounds
  <2> HIDE DEF s
  <2>7. QED
    BY <2>1, <2>2, <2>3, <2>4, <2>5, <2>6, OneBoxType
<1>10. ASSUME NEW b \in Boxes, Spawn(b) PROVE TypeOK'
  <2> DEFINE s == [box[b] EXCEPT !.at = "up", !.duty = IF Standalone(b) THEN "count" ELSE "none"]
  <2>1. s \in BoxState
    BY <1>0 DEF BoxState, Volume, Standalone
  <2>2. box' = [box EXCEPT ![b] = s] /\ current' = current
    BY <1>0, <1>10 DEF Spawn, At
  <2>3. lock' \in {lock, b, NoBox} /\ (lock' = b => s.at \notin Outside)
    BY <1>0, <1>10, <2>1 DEF Spawn, At, Outside, Released, BoxState
  <2>4. engine' \in {engine, b, NoBox} /\ (engine' = b => s.at \in Engaged)
    BY <1>0, <1>10, <2>1 DEF Spawn, At, Engaged, Released, BoxState
  <2>5. vol' \in Volume
    BY <1>0, <1>10, VolumeType DEF Spawn, Volume, BoxState
  <2>6. /\ ahead' \in {"none", "recorded", "unrecorded"} /\ lost' \subseteq {"recorded", "unrecorded"}
        /\ unguarded' \in BOOLEAN /\ deploys' = deploys /\ faults' \in 0..MaxFaults
    BY <1>0, <1>00, <1>10 DEF Spawn, bounds
  <2> HIDE DEF s
  <2>7. QED
    BY <2>1, <2>2, <2>3, <2>4, <2>5, <2>6, OneBoxType
<1>11. ASSUME NEW b \in Boxes, Abort(b) PROVE TypeOK'
  <2> DEFINE s == Ended(b)
  <2>1. s \in BoxState /\ s.at \in {"gone", "down"}
    BY <1>0, EndedType, GoneType
  <2>2. box' = [box EXCEPT ![b] = s] /\ current' = current
    BY <1>0, <1>11 DEF Abort, At
  <2>3. lock' \in {lock, b, NoBox} /\ (lock' = b => s.at \notin Outside)
    BY <1>0, <1>11, <2>1 DEF Abort, At, Outside, Released, BoxState
  <2>4. engine' \in {engine, b, NoBox} /\ (engine' = b => s.at \in Engaged)
    BY <1>0, <1>11, <2>1 DEF Abort, At, Engaged, Released, BoxState
  <2>5. vol' \in Volume
    BY <1>0, <1>11, VolumeType DEF Abort
  <2>6. /\ ahead' \in {"none", "recorded", "unrecorded"} /\ lost' \subseteq {"recorded", "unrecorded"}
        /\ unguarded' \in BOOLEAN /\ deploys' = deploys /\ faults' \in 0..MaxFaults
    BY <1>0, <1>00, <1>11 DEF Abort, bounds
  <2> HIDE DEF s
  <2>7. QED
    BY <2>1, <2>2, <2>3, <2>4, <2>5, <2>6, OneBoxType
<1>12. ASSUME NEW b \in Boxes, OpenFails(b) PROVE TypeOK'
  <2> DEFINE s == [box[b] EXCEPT !.at = "inspect"]
  <2>1. s \in BoxState
    BY <1>0 DEF BoxState, Volume
  <2>2. box' = [box EXCEPT ![b] = s] /\ current' = current
    BY <1>0, <1>12 DEF OpenFails, At, Goto
  <2>3. lock' \in {lock, b, NoBox} /\ (lock' = b => s.at \notin Outside)
    BY <1>0, <1>12, <2>1 DEF OpenFails, At, Outside, Released, BoxState
  <2>4. engine' \in {engine, b, NoBox} /\ (engine' = b => s.at \in Engaged)
    BY <1>0, <1>12, <2>1 DEF OpenFails, At, Engaged, Released, BoxState
  <2>5. vol' \in Volume
    BY <1>0, <1>12, VolumeType DEF OpenFails
  <2>6. /\ ahead' \in {"none", "recorded", "unrecorded"} /\ lost' \subseteq {"recorded", "unrecorded"}
        /\ unguarded' \in BOOLEAN /\ deploys' = deploys /\ faults' \in 0..MaxFaults
    BY <1>0, <1>00, <1>12 DEF OpenFails, bounds
  <2> HIDE DEF s
  <2>7. QED
    BY <2>1, <2>2, <2>3, <2>4, <2>5, <2>6, OneBoxType
<1>13. ASSUME NEW b \in Boxes, LockTimesOut(b) PROVE TypeOK'
  <2> DEFINE s == Ended(b)
  <2>1. s \in BoxState /\ s.at \in {"gone", "down"}
    BY <1>0, EndedType, GoneType
  <2>2. box' = [box EXCEPT ![b] = s] /\ current' = current
    BY <1>0, <1>13 DEF LockTimesOut, At
  <2>3. lock' \in {lock, b, NoBox} /\ (lock' = b => s.at \notin Outside)
    BY <1>0, <1>13, <2>1 DEF LockTimesOut, At, Outside, Released, BoxState
  <2>4. engine' \in {engine, b, NoBox} /\ (engine' = b => s.at \in Engaged)
    BY <1>0, <1>13, <2>1 DEF LockTimesOut, At, Engaged, Released, BoxState
  <2>5. vol' \in Volume
    BY <1>0, <1>13, VolumeType DEF LockTimesOut
  <2>6. /\ ahead' \in {"none", "recorded", "unrecorded"} /\ lost' \subseteq {"recorded", "unrecorded"}
        /\ unguarded' \in BOOLEAN /\ deploys' = deploys /\ faults' \in 0..MaxFaults
    BY <1>0, <1>00, <1>13 DEF LockTimesOut, bounds
  <2> HIDE DEF s
  <2>7. QED
    BY <2>1, <2>2, <2>3, <2>4, <2>5, <2>6, OneBoxType
<1>14. ASSUME NEW b \in Boxes, RecoveryFails(b) PROVE TypeOK'
  <2> DEFINE s == Ended(b)
  <2>1. s \in BoxState /\ s.at \in {"gone", "down"}
    BY <1>0, EndedType, GoneType
  <2>2. box' = [box EXCEPT ![b] = s] /\ current' = current
    BY <1>0, <1>14 DEF RecoveryFails, At
  <2>3. lock' \in {lock, b, NoBox} /\ (lock' = b => s.at \notin Outside)
    BY <1>0, <1>14, <2>1 DEF RecoveryFails, At, Outside, Released, BoxState
  <2>4. engine' \in {engine, b, NoBox} /\ (engine' = b => s.at \in Engaged)
    BY <1>0, <1>14, <2>1 DEF RecoveryFails, At, Engaged, Released, BoxState
  <2>5. vol' \in Volume
    BY <1>0, <1>14, VolumeType DEF RecoveryFails
  <2>6. /\ ahead' \in {"none", "recorded", "unrecorded"} /\ lost' \subseteq {"recorded", "unrecorded"}
        /\ unguarded' \in BOOLEAN /\ deploys' = deploys /\ faults' \in 0..MaxFaults
    BY <1>0, <1>00, <1>14 DEF RecoveryFails, bounds
  <2> HIDE DEF s
  <2>7. QED
    BY <2>1, <2>2, <2>3, <2>4, <2>5, <2>6, OneBoxType
<1>15. ASSUME NEW b \in Boxes, Prove(b) PROVE TypeOK'
  <2> DEFINE s == [box[b] EXCEPT !.proven = TRUE]
  <2>1. s \in BoxState
    BY <1>0, ReadType
  <2>2. box' = [box EXCEPT ![b] = s] /\ current' = current
    BY <1>0, <1>15 DEF Prove, At
  <2>3. lock' \in {lock, b, NoBox} /\ (lock' = b => s.at \notin Outside)
    BY <1>0, <1>15, <2>1 DEF Prove, At, Outside, Released, BoxState
  <2>4. engine' \in {engine, b, NoBox} /\ (engine' = b => s.at \in Engaged)
    BY <1>0, <1>15, <2>1 DEF Prove, At, Engaged, Released, BoxState
  <2>5. vol' \in Volume
    <3>1. PinnedKeyfile(b) \in BOOLEAN
      BY DEF PinnedKeyfile
    <3>2. QED
      BY <1>0, <1>15, <3>1, PairType DEF Prove
  <2>6. /\ ahead' \in {"none", "recorded", "unrecorded"} /\ lost' \subseteq {"recorded", "unrecorded"}
        /\ unguarded' \in BOOLEAN /\ deploys' = deploys /\ faults' \in 0..MaxFaults
    BY <1>0, <1>00, <1>15 DEF Prove, bounds
  <2> HIDE DEF s
  <2>7. QED
    BY <2>1, <2>2, <2>3, <2>4, <2>5, <2>6, OneBoxType
<1>16. ASSUME NEW b \in Boxes, Count(b) PROVE TypeOK'
  <2> DEFINE s == [box[b] EXCEPT !.stale = vol.local, !.images = vol.preimages,
                 !.duty = IF vol.local \/ vol.preimages THEN "local" ELSE "done"]
  <2>1. s \in BoxState
    BY <1>0, VolumeFields, ReadType
  <2>2. box' = [box EXCEPT ![b] = s] /\ current' = current
    BY <1>0, <1>16 DEF Count, At
  <2>3. lock' \in {lock, b, NoBox} /\ (lock' = b => s.at \notin Outside)
    BY <1>0, <1>16, <2>1 DEF Count, At, Outside, Released, BoxState
  <2>4. engine' \in {engine, b, NoBox} /\ (engine' = b => s.at \in Engaged)
    BY <1>0, <1>16, <2>1 DEF Count, At, Engaged, Released, BoxState
  <2>5. vol' \in Volume
    BY <1>0, <1>16, VolumeType DEF Count
  <2>6. /\ ahead' \in {"none", "recorded", "unrecorded"} /\ lost' \subseteq {"recorded", "unrecorded"}
        /\ unguarded' \in BOOLEAN /\ deploys' = deploys /\ faults' \in 0..MaxFaults
    BY <1>0, <1>00, <1>16 DEF Count, bounds
  <2> HIDE DEF s
  <2>7. QED
    BY <2>1, <2>2, <2>3, <2>4, <2>5, <2>6, OneBoxType
<1>17. ASSUME NEW b \in Boxes, DropLocal(b) PROVE TypeOK'
  <2> DEFINE s == [box[b] EXCEPT !.duty = "preimages"]
  <2>1. s \in BoxState
    BY <1>0 DEF BoxState, Volume
  <2>2. box' = [box EXCEPT ![b] = s] /\ current' = current
    BY <1>0, <1>17 DEF DropLocal, At
  <2>3. lock' \in {lock, b, NoBox} /\ (lock' = b => s.at \notin Outside)
    BY <1>0, <1>17, <2>1 DEF DropLocal, At, Outside, Released, BoxState
  <2>4. engine' \in {engine, b, NoBox} /\ (engine' = b => s.at \in Engaged)
    BY <1>0, <1>17, <2>1 DEF DropLocal, At, Engaged, Released, BoxState
  <2>5. vol' \in Volume
    <3> DEFINE x == vol.local /\ ~box[b].stale
    <3>1. vol' = [vol EXCEPT !.local = x]
      BY <1>17 DEF DropLocal
    <3>2. x \in BOOLEAN
      OBVIOUS
    <3> HIDE DEF x
    <3>3. QED
      BY <1>0, <3>1, <3>2, VolumeType
  <2>6. /\ ahead' \in {"none", "recorded", "unrecorded"} /\ lost' \subseteq {"recorded", "unrecorded"}
        /\ unguarded' \in BOOLEAN /\ deploys' = deploys /\ faults' \in 0..MaxFaults
    BY <1>0, <1>00, <1>17 DEF DropLocal, bounds
  <2> HIDE DEF s
  <2>7. QED
    BY <2>1, <2>2, <2>3, <2>4, <2>5, <2>6, OneBoxType
<1>18. ASSUME NEW b \in Boxes, DropPreimages(b) PROVE TypeOK'
  <2> DEFINE s == [box[b] EXCEPT !.duty = "done"]
  <2>1. s \in BoxState
    BY <1>0 DEF BoxState, Volume
  <2>2. box' = [box EXCEPT ![b] = s] /\ current' = current
    BY <1>0, <1>18 DEF DropPreimages, At
  <2>3. lock' \in {lock, b, NoBox} /\ (lock' = b => s.at \notin Outside)
    BY <1>0, <1>18, <2>1 DEF DropPreimages, At, Outside, Released, BoxState
  <2>4. engine' \in {engine, b, NoBox} /\ (engine' = b => s.at \in Engaged)
    BY <1>0, <1>18, <2>1 DEF DropPreimages, At, Engaged, Released, BoxState
  <2>5. vol' \in Volume
    <3> DEFINE x == vol.preimages /\ ~box[b].images
    <3>1. vol' = [vol EXCEPT !.preimages = x]
      BY <1>18 DEF DropPreimages
    <3>2. x \in BOOLEAN
      OBVIOUS
    <3> HIDE DEF x
    <3>3. QED
      BY <1>0, <3>1, <3>2, VolumeType
  <2>6. /\ ahead' \in {"none", "recorded", "unrecorded"} /\ lost' \subseteq {"recorded", "unrecorded"}
        /\ unguarded' \in BOOLEAN /\ deploys' = deploys /\ faults' \in 0..MaxFaults
    BY <1>0, <1>00, <1>18 DEF DropPreimages, bounds
  <2> HIDE DEF s
  <2>7. QED
    BY <2>1, <2>2, <2>3, <2>4, <2>5, <2>6, OneBoxType
<1>19. ASSUME NEW b \in Boxes, DutyFails(b) PROVE TypeOK'
  <2> DEFINE s == [box[b] EXCEPT !.duty = "none"]
  <2>1. s \in BoxState
    BY <1>0 DEF BoxState, Volume
  <2>2. box' = [box EXCEPT ![b] = s] /\ current' = current
    BY <1>0, <1>19 DEF DutyFails, At
  <2>3. lock' \in {lock, b, NoBox} /\ (lock' = b => s.at \notin Outside)
    BY <1>0, <1>19, <2>1 DEF DutyFails, At, Outside, Released, BoxState
  <2>4. engine' \in {engine, b, NoBox} /\ (engine' = b => s.at \in Engaged)
    BY <1>0, <1>19, <2>1 DEF DutyFails, At, Engaged, Released, BoxState
  <2>5. vol' \in Volume
    BY <1>0, <1>19, VolumeType DEF DutyFails
  <2>6. /\ ahead' \in {"none", "recorded", "unrecorded"} /\ lost' \subseteq {"recorded", "unrecorded"}
        /\ unguarded' \in BOOLEAN /\ deploys' = deploys /\ faults' \in 0..MaxFaults
    BY <1>0, <1>00, <1>19 DEF DutyFails, bounds
  <2> HIDE DEF s
  <2>7. QED
    BY <2>1, <2>2, <2>3, <2>4, <2>5, <2>6, OneBoxType
<1>20. ASSUME NEW b \in Boxes, Stop(b) PROVE TypeOK'
  <2> DEFINE s == Ended(b)
  <2>1. s \in BoxState /\ s.at \in {"gone", "down"}
    BY <1>0, EndedType, GoneType
  <2>2. box' = [box EXCEPT ![b] = s] /\ current' = current
    BY <1>0, <1>20 DEF Stop, At
  <2>3. lock' \in {lock, b, NoBox} /\ (lock' = b => s.at \notin Outside)
    BY <1>0, <1>20, <2>1 DEF Stop, At, Outside, Released, BoxState
  <2>4. engine' \in {engine, b, NoBox} /\ (engine' = b => s.at \in Engaged)
    BY <1>0, <1>20, <2>1 DEF Stop, At, Engaged, Released, BoxState
  <2>5. vol' \in Volume
    BY <1>0, <1>20, VolumeType DEF Stop
  <2>6. /\ ahead' \in {"none", "recorded", "unrecorded"} /\ lost' \subseteq {"recorded", "unrecorded"}
        /\ unguarded' \in BOOLEAN /\ deploys' = deploys /\ faults' \in 0..MaxFaults
    BY <1>0, <1>00, <1>20 DEF Stop, bounds
  <2> HIDE DEF s
  <2>7. QED
    BY <2>1, <2>2, <2>3, <2>4, <2>5, <2>6, OneBoxType
<1>21. ASSUME NEW b \in Boxes, Kill(b) PROVE TypeOK'
  <2> DEFINE s == Gone
  <2>1. s \in BoxState /\ s.at \in {"gone", "down"}
    BY <1>0, EndedType, GoneType
  <2>2. box' = [box EXCEPT ![b] = s] /\ current' = current
    BY <1>0, <1>21 DEF Kill, At
  <2>3. lock' \in {lock, b, NoBox} /\ (lock' = b => s.at \notin Outside)
    BY <1>0, <1>21, <2>1 DEF Kill, At, Outside, Released, BoxState
  <2>4. engine' \in {engine, b, NoBox} /\ (engine' = b => s.at \in Engaged)
    BY <1>0, <1>21, <2>1 DEF Kill, At, Engaged, Released, BoxState
  <2>5. vol' \in Volume
    BY <1>0, <1>21, VolumeType DEF Kill
  <2>6. /\ ahead' \in {"none", "recorded", "unrecorded"} /\ lost' \subseteq {"recorded", "unrecorded"}
        /\ unguarded' \in BOOLEAN /\ deploys' = deploys /\ faults' \in 0..MaxFaults
    BY <1>0, <1>00, <1>21 DEF Kill, bounds
  <2> HIDE DEF s
  <2>7. QED
    BY <2>1, <2>2, <2>3, <2>4, <2>5, <2>6, OneBoxType
<1>22. ASSUME NEW b \in Boxes, Crash(b) PROVE TypeOK'
  <2> DEFINE s == Ended(b)
  <2>1. s \in BoxState /\ s.at \in {"gone", "down"}
    BY <1>0, EndedType, GoneType
  <2>2. box' = [box EXCEPT ![b] = s] /\ current' = current
    BY <1>0, <1>22 DEF Crash, At
  <2>3. lock' \in {lock, b, NoBox} /\ (lock' = b => s.at \notin Outside)
    BY <1>0, <1>22, <2>1 DEF Crash, At, Outside, Released, BoxState
  <2>4. engine' \in {engine, b, NoBox} /\ (engine' = b => s.at \in Engaged)
    BY <1>0, <1>22, <2>1 DEF Crash, At, Engaged, Released, BoxState
  <2>5. vol' \in Volume
    BY <1>0, <1>22, VolumeType DEF Crash
  <2>6. /\ ahead' \in {"none", "recorded", "unrecorded"} /\ lost' \subseteq {"recorded", "unrecorded"}
        /\ unguarded' \in BOOLEAN /\ deploys' = deploys /\ faults' \in 0..MaxFaults
    BY <1>0, <1>00, <1>22 DEF Crash, bounds
  <2> HIDE DEF s
  <2>7. QED
    BY <2>1, <2>2, <2>3, <2>4, <2>5, <2>6, OneBoxType
<1>23. ASSUME NEW b \in Boxes, Form(b) PROVE TypeOK'
  BY <1>23 DEF Form, TypeOK, Volume, bounds
<1>24. ASSUME NEW b \in Boxes, Write(b) PROVE TypeOK'
  BY <1>24 DEF Write, TypeOK, Volume, bounds
<1>25. ASSUME NEW b \in Boxes, Stable(b) PROVE TypeOK'
  BY <1>25 DEF Stable, TypeOK, Volume, bounds
<1>26. ASSUME NEW b \in Boxes, NEW m \in Modes, Deploy(b, m) PROVE TypeOK'
  <2> DEFINE s == [Gone EXCEPT !.at = "lock", !.mode = m]
             last == IF At(current, "down") THEN Gone ELSE box[current]
  <2>1. s \in BoxState /\ s.at = "lock"
    BY DEF Gone, BoxState, Modes
  <2>2. current \in Boxes /\ last \in BoxState
    BY <1>0, GoneType DEF TypeOK
  <2>3. /\ box' = [box EXCEPT ![b] = s, ![current] = last]
        /\ b # current /\ box[b].at = "gone" /\ current' = b
    BY <1>26, <1>0 DEF Deploy, At
  <2> HIDE DEF s
  <2>4. /\ box' \in [Boxes -> BoxState] /\ box'[b] = s /\ box'[current] = last
        /\ \A c \in Boxes \ {b, current} : box'[c] = box[c]
    BY <1>0, <2>1, <2>2, <2>3, BoxTypes
  <2>5. lock' \in {c \in Boxes : box'[c].at \notin Outside} \cup {NoBox}
    BY <1>26, <1>0, <2>1, <2>2, <2>3, <2>4, GoneType DEF Deploy, TypeOK, Outside, At
  <2>6. engine' \in {c \in Boxes : box'[c].at \in Engaged} \cup {NoBox}
    BY <1>26, <1>0, <2>1, <2>2, <2>3, <2>4, GoneType DEF Deploy, TypeOK, Engaged, At
  <2>7. deploys' \in 0..MaxDeploys
    BY <1>26, BoundAssumption DEF Deploy, TypeOK
  <2>8. QED
    BY <1>26, <2>3, <2>4, <2>5, <2>6, <2>7 DEF Deploy, TypeOK, BoxState, Outside, Engaged
<1>27. CASE UNCHANGED vars
  BY <1>27 DEF vars, bounds, TypeOK
<1>28. QED
  BY <1>1, <1>2, <1>3, <1>4, <1>5, <1>6, <1>7, <1>8, <1>9, <1>10, <1>11, <1>12, <1>13, <1>14, <1>15, <1>16, <1>17, <1>18, <1>19, <1>20, <1>21, <1>22, <1>23, <1>24, <1>25, <1>26, <1>27
  DEF Next, BootStep, Duty
\* The variables are always of the types TypeOK declares: in particular only a
\* container past volume_lock's wait holds the lock, and only one with a mongod
\* has the dbpath open.
THEOREM TypeCorrect == Spec => []TypeOK
BY TypeInit, TypeStep, PTL DEF Spec

-----------------------------------------------------------------------------
(* The duties of a standalone.                                             *)

\* A step of one container that does not serve after it, and leaves what the
\* set has written where it is.
LEMMA QuietStep ==
  ASSUME TypeOK, OneEngine, \A c \in Boxes : Counted(c),
         NEW b \in Boxes, NEW s, box' = [box EXCEPT ![b] = s],
         s.at # "up", s.at \in Engaged => engine' = b,
         engine' # engine => engine \in {b, NoBox},
         vol'.local = vol.local, vol'.preimages = vol.preimages
  PROVE  OneEngine' /\ \A c \in Boxes : Counted(c)'
<1>1. box'[b] = s /\ \A c \in Boxes \ {b} : box'[c] = box[c]
  BY BoxTypes
<1>2. OneEngine'
  BY <1>1, BoxAssumption DEF OneEngine, Serving, Engaged
<1>3. \A c \in Boxes : Counted(c)'
  BY <1>1 DEF Counted, At, Standalone
<1>4. QED
  BY <1>2, <1>3

\* A step of the one container whose mongod has the dbpath open: what it
\* changes concerns its own duties only.
LEMMA ServingStep ==
  ASSUME TypeOK, OneEngine, NEW b \in Boxes, At(b, "up"),
         NEW s, box' = [box EXCEPT ![b] = s], s.at = "up", engine' = engine, Counted(b)'
  PROVE  OneEngine' /\ \A c \in Boxes : Counted(c)'
<1>1. box'[b] = s /\ \A c \in Boxes \ {b} : box'[c] = box[c]
  BY BoxTypes
<1>2. engine = b
  BY DEF OneEngine, Serving, At
<1>3. OneEngine'
  BY <1>1, <1>2 DEF OneEngine, Serving
<1>4. \A c \in Boxes \ {b} : box'[c].at # "up"
  BY <1>1, <1>2 DEF OneEngine, Serving
<1>5. QED
  BY <1>3, <1>4 DEF Counted, At

LEMMA DutyStep == DutyInv /\ [Next]_vars => DutyInv'
<1> SUFFICES ASSUME DutyInv, [Next]_vars PROVE OneEngine' /\ \A c \in Boxes : Counted(c)'
  BY TypeStep DEF DutyInv
<1>0. /\ TypeOK /\ OneEngine /\ \A c \in Boxes : Counted(c)
      /\ \A b \in Boxes : box[b] \in BoxState /\ b # NoBox
      /\ vol \in Volume
  BY BoxTypes, BoxAssumption DEF DutyInv, TypeOK
<1>1. ASSUME NEW b \in Boxes, Restart(b) PROVE OneEngine' /\ \A c \in Boxes : Counted(c)'
  <2> DEFINE s == [box[b] EXCEPT !.at = "lock"]
  <2>1. s.at = "lock"
    BY <1>0 DEF BoxState
  <2>2. /\ box' = [box EXCEPT ![b] = s]
        /\ vol'.local = vol.local /\ vol'.preimages = vol.preimages
    BY <1>0, <1>1 DEF Restart, Goto, At, Volume
  <2>3. (s.at \in Engaged => engine' = b) /\ (engine' # engine => engine \in {b, NoBox})
    BY <1>0, <1>1, <2>1 DEF Restart, Goto, At, Released, Engaged, OneEngine, Serving
  <2> HIDE DEF s
  <2>4. QED
    BY <1>0, <2>1, <2>2, <2>3, QuietStep
<1>2. ASSUME NEW b \in Boxes, Acquire(b) PROVE OneEngine' /\ \A c \in Boxes : Counted(c)'
  <2> DEFINE s == [box[b] EXCEPT !.at = "inspect"]
  <2>1. s.at = "inspect"
    BY <1>0 DEF BoxState
  <2>2. /\ box' = [box EXCEPT ![b] = s]
        /\ vol'.local = vol.local /\ vol'.preimages = vol.preimages
    BY <1>0, <1>2 DEF Acquire, Goto, At, Volume
  <2>3. (s.at \in Engaged => engine' = b) /\ (engine' # engine => engine \in {b, NoBox})
    BY <1>0, <1>2, <2>1 DEF Acquire, Goto, At, Released, Engaged, OneEngine, Serving
  <2> HIDE DEF s
  <2>4. QED
    BY <1>0, <2>1, <2>2, <2>3, QuietStep
<1>3. ASSUME NEW b \in Boxes, Inspect(b) PROVE OneEngine' /\ \A c \in Boxes : Counted(c)'
  <2> DEFINE s == [box[b] EXCEPT !.hasData = vol.data, !.key = ~Standalone(b),
                                  !.at = IF Standalone(b) THEN "decide" ELSE "mark"]
  <2>1. s.at \in {"decide", "mark"}
    BY <1>0 DEF BoxState
  <2>2. /\ box' = [box EXCEPT ![b] = s]
        /\ vol'.local = vol.local /\ vol'.preimages = vol.preimages
    BY <1>0, <1>3 DEF Inspect, Goto, At, Volume
  <2>3. (s.at \in Engaged => engine' = b) /\ (engine' # engine => engine \in {b, NoBox})
    BY <1>0, <1>3, <2>1 DEF Inspect, Goto, At, Released, Engaged, OneEngine, Serving
  <2> HIDE DEF s
  <2>4. QED
    BY <1>0, <2>1, <2>2, <2>3, QuietStep
<1>4. ASSUME NEW b \in Boxes, Mark(b) PROVE OneEngine' /\ \A c \in Boxes : Counted(c)'
  <2> DEFINE s == [box[b] EXCEPT !.at = "spawn"]
  <2>1. s.at = "spawn"
    BY <1>0 DEF BoxState
  <2>2. /\ box' = [box EXCEPT ![b] = s]
        /\ vol'.local = vol.local /\ vol'.preimages = vol.preimages
    BY <1>0, <1>4 DEF Mark, Goto, At, Volume
  <2>3. (s.at \in Engaged => engine' = b) /\ (engine' # engine => engine \in {b, NoBox})
    BY <1>0, <1>4, <2>1 DEF Mark, Goto, At, Released, Engaged, OneEngine, Serving
  <2> HIDE DEF s
  <2>4. QED
    BY <1>0, <2>1, <2>2, <2>3, QuietStep
<1>5. ASSUME NEW b \in Boxes, Decide(b) PROVE OneEngine' /\ \A c \in Boxes : Counted(c)'
  <2> DEFINE s == [box[b] EXCEPT !.at = IF ReplayNeeded(b) THEN "recover" ELSE "spawn"]
  <2>1. s.at \in {"recover", "spawn"}
    BY <1>0 DEF BoxState
  <2>2. /\ box' = [box EXCEPT ![b] = s]
        /\ vol'.local = vol.local /\ vol'.preimages = vol.preimages
    BY <1>0, <1>5 DEF Decide, Goto, At, Volume
  <2>3. (s.at \in Engaged => engine' = b) /\ (engine' # engine => engine \in {b, NoBox})
    BY <1>0, <1>5, <2>1 DEF Decide, Goto, At, Released, Engaged, OneEngine, Serving
  <2> HIDE DEF s
  <2>4. QED
    BY <1>0, <2>1, <2>2, <2>3, QuietStep
<1>6. ASSUME NEW b \in Boxes, Recover(b) PROVE OneEngine' /\ \A c \in Boxes : Counted(c)'
  <2> DEFINE s == [box[b] EXCEPT !.at = "replay"]
  <2>1. s.at = "replay"
    BY <1>0 DEF BoxState
  <2>2. /\ box' = [box EXCEPT ![b] = s]
        /\ vol'.local = vol.local /\ vol'.preimages = vol.preimages
    BY <1>0, <1>6 DEF Recover, Goto, At, Volume
  <2>3. (s.at \in Engaged => engine' = b) /\ (engine' # engine => engine \in {b, NoBox})
    BY <1>0, <1>6, <2>1 DEF Recover, Goto, At, Released, Engaged, OneEngine, Serving
  <2> HIDE DEF s
  <2>4. QED
    BY <1>0, <2>1, <2>2, <2>3, QuietStep
<1>7. ASSUME NEW b \in Boxes, Replay(b) PROVE OneEngine' /\ \A c \in Boxes : Counted(c)'
  <2> DEFINE s == [box[b] EXCEPT !.at = IF vol.local THEN "checkpoint" ELSE "clear"]
  <2>1. s.at = IF vol.local THEN "checkpoint" ELSE "clear"
    BY <1>0 DEF BoxState
  <2>2. /\ box' = [box EXCEPT ![b] = s]
        /\ vol'.local = vol.local /\ vol'.preimages = vol.preimages
    BY <1>0, <1>7 DEF Replay, Goto, At, Volume
  <2>3. (s.at \in Engaged => engine' = b) /\ (engine' # engine => engine \in {b, NoBox})
    BY <1>0, <1>7, <2>1 DEF Replay, Goto, At, Released, Engaged, OneEngine, Serving
  <2> HIDE DEF s
  <2>4. QED
    BY <1>0, <2>1, <2>2, <2>3, QuietStep
<1>8. ASSUME NEW b \in Boxes, Checkpoint(b) PROVE OneEngine' /\ \A c \in Boxes : Counted(c)'
  <2> DEFINE s == [box[b] EXCEPT !.at = "clear"]
  <2>1. s.at = "clear"
    BY <1>0 DEF BoxState
  <2>2. /\ box' = [box EXCEPT ![b] = s]
        /\ vol'.local = vol.local /\ vol'.preimages = vol.preimages
    BY <1>0, <1>8 DEF Checkpoint, Goto, At, Volume
  <2>3. (s.at \in Engaged => engine' = b) /\ (engine' # engine => engine \in {b, NoBox})
    BY <1>0, <1>8, <2>1 DEF Checkpoint, Goto, At, Released, Engaged, OneEngine, Serving
  <2> HIDE DEF s
  <2>4. QED
    BY <1>0, <2>1, <2>2, <2>3, QuietStep
<1>9. ASSUME NEW b \in Boxes, Clear(b) PROVE OneEngine' /\ \A c \in Boxes : Counted(c)'
  <2> DEFINE s == [box[b] EXCEPT !.at = "spawn"]
  <2>1. s.at = "spawn"
    BY <1>0 DEF BoxState
  <2>2. /\ box' = [box EXCEPT ![b] = s]
        /\ vol'.local = vol.local /\ vol'.preimages = vol.preimages
    BY <1>0, <1>9 DEF Clear, Goto, At, Volume
  <2>3. (s.at \in Engaged => engine' = b) /\ (engine' # engine => engine \in {b, NoBox})
    BY <1>0, <1>9, <2>1 DEF Clear, Goto, At, Released, Engaged, OneEngine, Serving
  <2> HIDE DEF s
  <2>4. QED
    BY <1>0, <2>1, <2>2, <2>3, QuietStep
<1>10. ASSUME NEW b \in Boxes, Abort(b) PROVE OneEngine' /\ \A c \in Boxes : Counted(c)'
  <2> DEFINE s == Ended(b)
  <2>1. s.at \in {"gone", "down"}
    BY <1>0, EndedType, GoneType
  <2>2. /\ box' = [box EXCEPT ![b] = s]
        /\ vol'.local = vol.local /\ vol'.preimages = vol.preimages
    BY <1>0, <1>10 DEF Abort, Goto, At, Volume
  <2>3. (s.at \in Engaged => engine' = b) /\ (engine' # engine => engine \in {b, NoBox})
    BY <1>0, <1>10, <2>1 DEF Abort, Goto, At, Released, Engaged, OneEngine, Serving
  <2> HIDE DEF s
  <2>4. QED
    BY <1>0, <2>1, <2>2, <2>3, QuietStep
<1>11. ASSUME NEW b \in Boxes, OpenFails(b) PROVE OneEngine' /\ \A c \in Boxes : Counted(c)'
  <2> DEFINE s == [box[b] EXCEPT !.at = "inspect"]
  <2>1. s.at = "inspect"
    BY <1>0 DEF BoxState
  <2>2. /\ box' = [box EXCEPT ![b] = s]
        /\ vol'.local = vol.local /\ vol'.preimages = vol.preimages
    BY <1>0, <1>11 DEF OpenFails, Goto, At, Volume
  <2>3. (s.at \in Engaged => engine' = b) /\ (engine' # engine => engine \in {b, NoBox})
    BY <1>0, <1>11, <2>1 DEF OpenFails, Goto, At, Released, Engaged, OneEngine, Serving
  <2> HIDE DEF s
  <2>4. QED
    BY <1>0, <2>1, <2>2, <2>3, QuietStep
<1>12. ASSUME NEW b \in Boxes, LockTimesOut(b) PROVE OneEngine' /\ \A c \in Boxes : Counted(c)'
  <2> DEFINE s == Ended(b)
  <2>1. s.at \in {"gone", "down"}
    BY <1>0, EndedType, GoneType
  <2>2. /\ box' = [box EXCEPT ![b] = s]
        /\ vol'.local = vol.local /\ vol'.preimages = vol.preimages
    BY <1>0, <1>12 DEF LockTimesOut, Goto, At, Volume
  <2>3. (s.at \in Engaged => engine' = b) /\ (engine' # engine => engine \in {b, NoBox})
    BY <1>0, <1>12, <2>1 DEF LockTimesOut, Goto, At, Released, Engaged, OneEngine, Serving
  <2> HIDE DEF s
  <2>4. QED
    BY <1>0, <2>1, <2>2, <2>3, QuietStep
<1>13. ASSUME NEW b \in Boxes, RecoveryFails(b) PROVE OneEngine' /\ \A c \in Boxes : Counted(c)'
  <2> DEFINE s == Ended(b)
  <2>1. s.at \in {"gone", "down"}
    BY <1>0, EndedType, GoneType
  <2>2. /\ box' = [box EXCEPT ![b] = s]
        /\ vol'.local = vol.local /\ vol'.preimages = vol.preimages
    BY <1>0, <1>13 DEF RecoveryFails, Goto, At, Volume
  <2>3. (s.at \in Engaged => engine' = b) /\ (engine' # engine => engine \in {b, NoBox})
    BY <1>0, <1>13, <2>1 DEF RecoveryFails, Goto, At, Released, Engaged, OneEngine, Serving
  <2> HIDE DEF s
  <2>4. QED
    BY <1>0, <2>1, <2>2, <2>3, QuietStep
<1>14. ASSUME NEW b \in Boxes, Stop(b) PROVE OneEngine' /\ \A c \in Boxes : Counted(c)'
  <2> DEFINE s == Ended(b)
  <2>1. s.at \in {"gone", "down"}
    BY <1>0, EndedType, GoneType
  <2>2. /\ box' = [box EXCEPT ![b] = s]
        /\ vol'.local = vol.local /\ vol'.preimages = vol.preimages
    BY <1>0, <1>14 DEF Stop, Goto, At, Volume
  <2>3. (s.at \in Engaged => engine' = b) /\ (engine' # engine => engine \in {b, NoBox})
    BY <1>0, <1>14, <2>1 DEF Stop, Goto, At, Released, Engaged, OneEngine, Serving
  <2> HIDE DEF s
  <2>4. QED
    BY <1>0, <2>1, <2>2, <2>3, QuietStep
<1>15. ASSUME NEW b \in Boxes, Kill(b) PROVE OneEngine' /\ \A c \in Boxes : Counted(c)'
  <2> DEFINE s == Gone
  <2>1. s.at \in {"gone", "down"}
    BY <1>0, EndedType, GoneType
  <2>2. /\ box' = [box EXCEPT ![b] = s]
        /\ vol'.local = vol.local /\ vol'.preimages = vol.preimages
    BY <1>0, <1>15 DEF Kill, Goto, At, Volume
  <2>3. (s.at \in Engaged => engine' = b) /\ (engine' # engine => engine \in {b, NoBox})
    BY <1>0, <1>15, <2>1 DEF Kill, Goto, At, Released, Engaged, OneEngine, Serving
  <2> HIDE DEF s
  <2>4. QED
    BY <1>0, <2>1, <2>2, <2>3, QuietStep
<1>16. ASSUME NEW b \in Boxes, Crash(b) PROVE OneEngine' /\ \A c \in Boxes : Counted(c)'
  <2> DEFINE s == Ended(b)
  <2>1. s.at \in {"gone", "down"}
    BY <1>0, EndedType, GoneType
  <2>2. /\ box' = [box EXCEPT ![b] = s]
        /\ vol'.local = vol.local /\ vol'.preimages = vol.preimages
    BY <1>0, <1>16 DEF Crash, Goto, At, Volume
  <2>3. (s.at \in Engaged => engine' = b) /\ (engine' # engine => engine \in {b, NoBox})
    BY <1>0, <1>16, <2>1 DEF Crash, Goto, At, Released, Engaged, OneEngine, Serving
  <2> HIDE DEF s
  <2>4. QED
    BY <1>0, <2>1, <2>2, <2>3, QuietStep
<1>20. ASSUME NEW b \in Boxes, Spawn(b) PROVE OneEngine' /\ \A c \in Boxes : Counted(c)'
  <2>1. /\ box'[b].at = "up" /\ box'[b].mode = box[b].mode
        /\ box'[b].duty \in {"count", "none"}
        /\ \A c \in Boxes \ {b} : box'[c] = box[c]
    BY <1>0, <1>20, BoxTypes DEF Spawn, BoxState
  <2>2. engine = NoBox /\ engine' = b
    BY <1>20 DEF Spawn
  <2>3. \A c \in Boxes : ~Serving(c)
    BY <1>0, <2>2 DEF OneEngine
  <2>4. OneEngine'
    BY <2>1, <2>2, <2>3 DEF OneEngine, Serving
  <2>5. \A c \in Boxes : Counted(c)'
    BY <2>1, <2>3 DEF Counted, At, Serving
  <2>6. QED
    BY <2>4, <2>5
<1>21. ASSUME NEW b \in Boxes, Prove(b) PROVE OneEngine' /\ \A c \in Boxes : Counted(c)'
  <2> DEFINE s == [box[b] EXCEPT !.proven = TRUE]
  <2>1. s.at = box[b].at /\ s.mode = box[b].mode
    BY <1>0 DEF BoxState
  <2>2. At(b, "up") /\ box' = [box EXCEPT ![b] = s] /\ engine' = engine
    BY <1>21 DEF Prove
  <2>3. box'[b] = s
    BY <1>0, <2>2, BoxTypes
  <2>4. Counted(b)'
    BY <1>0, <1>21, <2>3 DEF Prove, Counted, At, Standalone, BoxState, Volume
  <2> HIDE DEF s
  <2>5. QED
    BY <1>0, <2>1, <2>2, <2>4, ServingStep DEF At
<1>22. ASSUME NEW b \in Boxes, Count(b) PROVE OneEngine' /\ \A c \in Boxes : Counted(c)'
  <2> DEFINE s == [box[b] EXCEPT !.stale = vol.local, !.images = vol.preimages,
                                  !.duty = IF vol.local \/ vol.preimages THEN "local" ELSE "done"]
  <2>1. s.at = box[b].at /\ s.mode = box[b].mode
    BY <1>0 DEF BoxState
  <2>2. At(b, "up") /\ box' = [box EXCEPT ![b] = s] /\ engine' = engine
    BY <1>22 DEF Count
  <2>3. box'[b] = s
    BY <1>0, <2>2, BoxTypes
  <2>4. Counted(b)'
    <3>1. /\ s.stale = vol.local /\ s.images = vol.preimages
          /\ s.duty = IF vol.local \/ vol.preimages THEN "local" ELSE "done"
      BY <1>0 DEF BoxState
    <3>2. vol' = vol
      BY <1>22 DEF Count
    <3> HIDE DEF s
    <3>3. QED
      BY <2>3, <3>1, <3>2 DEF Counted
  <2> HIDE DEF s
  <2>5. QED
    BY <1>0, <2>1, <2>2, <2>4, ServingStep DEF At
<1>23. ASSUME NEW b \in Boxes, DropLocal(b) PROVE OneEngine' /\ \A c \in Boxes : Counted(c)'
  <2> DEFINE s == [box[b] EXCEPT !.duty = "preimages"]
  <2>1. s.at = box[b].at /\ s.mode = box[b].mode
    BY <1>0 DEF BoxState
  <2>2. At(b, "up") /\ box' = [box EXCEPT ![b] = s] /\ engine' = engine
    BY <1>23 DEF DropLocal
  <2>3. box'[b] = s
    BY <1>0, <2>2, BoxTypes
  <2>4. Counted(b)'
    <3>1. s.duty = "preimages" /\ s.images = box[b].images
      BY <1>0 DEF BoxState
    <3>2. Standalone(b)' => Standalone(b)
      BY <2>1, <2>3 DEF Standalone
    <3>3. vol'.local = (vol.local /\ ~box[b].stale) /\ vol'.preimages = vol.preimages
      BY <1>0, <1>23 DEF DropLocal, Volume
    <3>4. Standalone(b) => box[b].stale = vol.local /\ box[b].images = vol.preimages
      BY <1>0, <1>23 DEF DropLocal, Counted
    <3> HIDE DEF s
    <3>5. QED
      BY <2>3, <3>1, <3>2, <3>3, <3>4 DEF Counted
  <2> HIDE DEF s
  <2>5. QED
    BY <1>0, <2>1, <2>2, <2>4, ServingStep DEF At
<1>24. ASSUME NEW b \in Boxes, DropPreimages(b) PROVE OneEngine' /\ \A c \in Boxes : Counted(c)'
  <2> DEFINE s == [box[b] EXCEPT !.duty = "done"]
  <2>1. s.at = box[b].at /\ s.mode = box[b].mode
    BY <1>0 DEF BoxState
  <2>2. At(b, "up") /\ box' = [box EXCEPT ![b] = s] /\ engine' = engine
    BY <1>24 DEF DropPreimages
  <2>3. box'[b] = s
    BY <1>0, <2>2, BoxTypes
  <2>4. Counted(b)'
    BY <1>0, <1>24, <2>3 DEF DropPreimages, Counted, At, Standalone, BoxState, Volume
  <2> HIDE DEF s
  <2>5. QED
    BY <1>0, <2>1, <2>2, <2>4, ServingStep DEF At
<1>25. ASSUME NEW b \in Boxes, DutyFails(b) PROVE OneEngine' /\ \A c \in Boxes : Counted(c)'
  <2> DEFINE s == [box[b] EXCEPT !.duty = "none"]
  <2>1. s.at = box[b].at /\ s.mode = box[b].mode
    BY <1>0 DEF BoxState
  <2>2. At(b, "up") /\ box' = [box EXCEPT ![b] = s] /\ engine' = engine
    BY <1>25 DEF DutyFails
  <2>3. box'[b] = s
    BY <1>0, <2>2, BoxTypes
  <2>4. Counted(b)'
    BY <1>0, <1>25, <2>3 DEF DutyFails, Counted, At, Standalone, BoxState, Volume
  <2> HIDE DEF s
  <2>5. QED
    BY <1>0, <2>1, <2>2, <2>4, ServingStep DEF At
<1>26. ASSUME NEW b \in Boxes, Form(b) PROVE OneEngine' /\ \A c \in Boxes : Counted(c)'
  <2>1. engine = b /\ ~Standalone(b)
    BY <1>0, <1>26 DEF Form, At, OneEngine, Serving
  <2>2. \A c \in Boxes \ {b} : ~At(c, "up")
    BY <1>0, <2>1 DEF OneEngine, Serving, At
  <2>3. QED
    BY <1>0, <1>26, <2>1, <2>2 DEF Form, OneEngine, Serving, Counted, At, Standalone
<1>27. ASSUME NEW b \in Boxes, Write(b) \/ Stable(b) PROVE OneEngine' /\ \A c \in Boxes : Counted(c)'
  BY <1>0, <1>27 DEF Write, Stable, OneEngine, Serving, Counted, At, Standalone
<1>28. ASSUME NEW b \in Boxes, NEW m \in Modes, Deploy(b, m) PROVE OneEngine' /\ \A c \in Boxes : Counted(c)'
  <2>1. /\ box'[b].at = "lock"
        /\ box'[current] = box[current] \/ box'[current].at = "gone"
        /\ \A c \in Boxes \ {b, current} : box'[c] = box[c]
    BY <1>0, <1>28, BoxTypes, GoneType DEF Deploy, TypeOK, Gone, At
  <2>2. \A c \in Boxes : box'[c].at \in Engaged => box'[c] = box[c]
    BY <2>1 DEF Engaged
  <2>3. engine' = engine /\ vol' = vol
    BY <1>28 DEF Deploy
  <2>4. OneEngine'
    BY <1>0, <2>2, <2>3 DEF OneEngine, Serving, Engaged
  <2>5. \A c \in Boxes : Counted(c)'
    BY <1>0, <2>2, <2>3 DEF Counted, At, Standalone, Engaged
  <2>6. QED
    BY <2>4, <2>5
<1>29. CASE UNCHANGED vars
  BY <1>0, <1>29 DEF vars, OneEngine, Serving, Counted, At, Standalone
<1>30. QED
  BY <1>1, <1>2, <1>3, <1>4, <1>5, <1>6, <1>7, <1>8, <1>9, <1>10, <1>11, <1>12, <1>13, <1>14, <1>15, <1>16, <1>20, <1>21, <1>22, <1>23, <1>24, <1>25, <1>26, <1>27, <1>28, <1>29
  DEF Next, BootStep, Duty

\* A standalone whose duties are done has neither an oplog nor pre-images left:
\* drop_stale_replset_config, also after an earlier run of it was cut short
\* between its two drops, and whatever containers overlap on the volume.
THEOREM DutiesLeaveNothingHolds == Spec => []DutiesLeaveNothing
<1>1. Init => DutyInv
  <2> SUFFICES ASSUME Init PROVE OneEngine /\ \A c \in Boxes : Counted(c)
    BY TypeInit DEF DutyInv
  <2>1. \A b \in Boxes : box[b].at \in {"gone", "lock"}
    BY GoneType DEF Init, Gone
  <2>2. QED
    BY <2>1 DEF OneEngine, Serving, Counted, At
<1>2. DutyInv => DutiesLeaveNothing
  BY DEF DutyInv, Counted, DutiesLeaveNothing
<1>3. QED
  BY <1>1, <1>2, DutyStep, PTL DEF Spec

-----------------------------------------------------------------------------
(* The writes of a member.                                                 *)

\* What WriteInv says of the volume and of the containers.
Volumes == AheadOfData /\ "recorded" \notin lost
Settled(b) == Cleared(b) /\ HasData(b) /\ Staged(b)
Guarded == Locked /\ Volumes /\ \A b \in Boxes : Settled(b)

LEMMA WriteParts == WriteInv <=> TypeOK /\ (~unguarded => Guarded)
BY DEF WriteInv, Guarded, Volumes, Settled

\* A step of the container that holds the lock: the others are still waiting.
LEMMA HolderStep ==
  ASSUME TypeOK, Guarded, NEW b \in Boxes, Inside(b),
         NEW s, box' = [box EXCEPT ![b] = s],
         s.at \notin Outside => lock' = b, Volumes', Settled(b)'
  PROVE  Guarded'
<1>1. box'[b] = s /\ \A c \in Boxes \ {b} : box'[c] = box[c]
  BY BoxTypes
<1>2. \A c \in Boxes \ {b} : ~Inside(c)
  BY DEF Guarded, Locked
<1>3. \A c \in Boxes \ {b} : box'[c].at \in Outside
  BY <1>1, <1>2 DEF Inside, Outside
<1>4. Locked'
  BY <1>1, <1>3 DEF Locked, Inside, Outside
<1>5. \A c \in Boxes \ {b} : Settled(c)'
  BY <1>3 DEF Settled, Cleared, HasData, Staged, At, Outside
<1>6. QED
  BY <1>4, <1>5 DEF Guarded

\* A step of a container that waits, or stops waiting, touches nothing but itself.
LEMMA WaiterStep ==
  ASSUME TypeOK, Guarded, NEW b \in Boxes, ~Inside(b),
         NEW s, box' = [box EXCEPT ![b] = s], lock' = lock,
         s.at \in Outside, vol' = vol, ahead' = ahead, lost' = lost
  PROVE  Guarded'
<1>1. box'[b] = s /\ \A c \in Boxes \ {b} : box'[c] = box[c]
  BY BoxTypes
<1>2. Locked'
  BY <1>1 DEF Guarded, Locked, Inside, Outside
<1>3. Settled(b)'
  BY <1>1 DEF Settled, Cleared, HasData, Staged, At, Outside
<1>4. \A c \in Boxes \ {b} : Settled(c)'
  BY <1>1 DEF Guarded, Settled, Cleared, HasData, Staged, At, Standalone
<1>5. Volumes'
  BY DEF Guarded, Volumes, AheadOfData
<1>6. QED
  BY <1>2, <1>3, <1>4, <1>5 DEF Guarded

LEMMA WriteStep == WriteInv /\ [Next]_vars => WriteInv'
<1> SUFFICES ASSUME WriteInv, [Next]_vars, ~unguarded' PROVE Guarded'
  BY TypeStep, WriteParts, WriteParts DEF WriteInv, Guarded, Volumes, Settled
<1>g. ~unguarded
  BY DEF Next, BootStep, Duty, Restart, Acquire, Inspect, Mark, Decide, Recover, Replay,
     Checkpoint, Clear, Spawn, Abort, OpenFails, LockTimesOut, RecoveryFails, Form, Write,
     Stable, Prove, Count, DropLocal, DropPreimages, DutyFails, Stop, Kill, Crash, Deploy, vars
<1>0. /\ TypeOK /\ Locked /\ AheadOfData /\ "recorded" \notin lost
      /\ Guarded /\ \A c \in Boxes : Settled(c)
      /\ \A b \in Boxes : box[b] \in BoxState /\ b # NoBox
      /\ vol \in Volume
  BY <1>g, BoxTypes, BoxAssumption, WriteParts DEF Guarded, Volumes, TypeOK
<1>1. ASSUME NEW b \in Boxes, Restart(b) PROVE Guarded'
  <2> DEFINE s == [box[b] EXCEPT !.at = "lock"]
  <2>1. s.at = "lock"
    BY <1>0 DEF BoxState
  <2>2. ~Inside(b) /\ box' = [box EXCEPT ![b] = s]
    BY <1>1 DEF Restart, Goto, At, Inside
  <2>3. lock' = lock /\ vol' = vol /\ ahead' = ahead /\ lost' = lost
    BY <1>1 DEF Restart
  <2> HIDE DEF s
  <2>4. QED
    BY <1>0, <2>1, <2>2, <2>3, WaiterStep DEF Outside
<1>2. ASSUME NEW b \in Boxes, LockTimesOut(b) PROVE Guarded'
  <2> DEFINE s == Ended(b)
  <2>1. s.at \in {"gone", "down"}
    BY <1>0, EndedType, GoneType
  <2>2. ~Inside(b) /\ box' = [box EXCEPT ![b] = s]
    BY <1>2 DEF LockTimesOut, Goto, At, Inside
  <2>3. lock' = lock /\ vol' = vol /\ ahead' = ahead /\ lost' = lost
    BY <1>2 DEF LockTimesOut
  <2> HIDE DEF s
  <2>4. QED
    BY <1>0, <2>1, <2>2, <2>3, WaiterStep DEF Outside
<1>3. ASSUME NEW b \in Boxes, Acquire(b) PROVE Guarded'
  <2>1. /\ box'[b].at = "inspect" /\ box'[b].mode = box[b].mode
        /\ \A c \in Boxes \ {b} : box'[c] = box[c]
    BY <1>0, <1>3, BoxTypes DEF Acquire, Goto, BoxState
  <2>2. lock = NoBox /\ lock' = b /\ vol' = vol /\ ahead' = ahead /\ lost' = lost
    BY <1>3 DEF Acquire
  <2>3. Locked'
    BY <1>0, <2>1, <2>2 DEF Locked, Inside
  <2>4. \A c \in Boxes : Settled(c)'
    BY <1>0, <2>1, <2>2 DEF Settled, Cleared, HasData, Staged, At, Standalone
  <2>5. QED
    BY <1>0, <2>2, <2>3, <2>4 DEF Guarded, Volumes, AheadOfData
<1>4. ASSUME NEW b \in Boxes, Inspect(b) PROVE Guarded'
  <2> DEFINE s == [box[b] EXCEPT !.hasData = vol.data, !.key = ~Standalone(b),
                                  !.at = IF Standalone(b) THEN "decide" ELSE "mark"]
  <2>1. Inside(b) /\ box' = [box EXCEPT ![b] = s] /\ lock' = lock
    BY <1>4 DEF Inspect, Goto, At, Inside
  <2>2. box'[b] = s
    BY <1>0, <2>1, BoxTypes
  <2>3. lock' = b
    BY <1>0, <2>1 DEF Locked
  <2>4. Volumes'
    BY <1>0, <1>4 DEF Inspect, Volumes, AheadOfData, Volume, Settled, Cleared, Staged, At
  <2>5. Settled(b)'
    <3>1. /\ s.at = (IF Standalone(b) THEN "decide" ELSE "mark")
          /\ s.mode = box[b].mode /\ s.hasData = vol.data
      BY <1>0 DEF BoxState
    <3>2. vol' = vol
      BY <1>4 DEF Inspect
    <3> HIDE DEF s
    <3>3. QED
      BY <2>2, <3>1, <3>2 DEF Settled, Cleared, HasData, Staged, At, Standalone
  <2> HIDE DEF s
  <2>6. QED
    BY <1>0, <2>1, <2>3, <2>4, <2>5, HolderStep
<1>5. ASSUME NEW b \in Boxes, Mark(b) PROVE Guarded'
  <2> DEFINE s == [box[b] EXCEPT !.at = "spawn"]
  <2>1. Inside(b) /\ box' = [box EXCEPT ![b] = s] /\ lock' = lock
    BY <1>5 DEF Mark, Goto, At, Inside
  <2>2. box'[b] = s
    BY <1>0, <2>1, BoxTypes
  <2>3. lock' = b
    BY <1>0, <2>1 DEF Locked
  <2>4. Volumes'
    BY <1>0, <1>5 DEF Mark, Volumes, AheadOfData, Volume, Settled, Cleared, Staged, At
  <2>5. Settled(b)'
    BY <1>0, <1>5, <2>2 DEF Mark, Settled, Cleared, HasData, Staged, At, Standalone, AheadOfData,
       BoxState, Volume
  <2> HIDE DEF s
  <2>6. QED
    BY <1>0, <2>1, <2>3, <2>4, <2>5, HolderStep
<1>6. ASSUME NEW b \in Boxes, Decide(b) PROVE Guarded'
  <2> DEFINE s == [box[b] EXCEPT !.at = IF ReplayNeeded(b) THEN "recover" ELSE "spawn"]
  <2>1. Inside(b) /\ box' = [box EXCEPT ![b] = s] /\ lock' = lock
    BY <1>6 DEF Decide, Goto, At, Inside
  <2>2. box'[b] = s
    BY <1>0, <2>1, BoxTypes
  <2>3. lock' = b
    BY <1>0, <2>1 DEF Locked
  <2>4. Volumes'
    BY <1>0, <1>6 DEF Decide, Volumes, AheadOfData, Volume, Settled, Cleared, Staged, At, ReplayNeeded
  <2>5. Settled(b)'
    BY <1>0, <1>6, <2>2 DEF Decide, Settled, Cleared, HasData, Staged, At, Standalone, AheadOfData,
       BoxState, Volume, ReplayNeeded
  <2> HIDE DEF s
  <2>6. QED
    BY <1>0, <2>1, <2>3, <2>4, <2>5, HolderStep
<1>7. ASSUME NEW b \in Boxes, Recover(b) PROVE Guarded'
  <2> DEFINE s == [box[b] EXCEPT !.at = "replay"]
  <2>1. Inside(b) /\ box' = [box EXCEPT ![b] = s] /\ lock' = lock
    BY <1>7 DEF Recover, Goto, At, Inside
  <2>2. box'[b] = s
    BY <1>0, <2>1, BoxTypes
  <2>3. lock' = b
    BY <1>0, <2>1 DEF Locked
  <2>4. Volumes'
    BY <1>0, <1>7 DEF Recover, Volumes, AheadOfData, Volume, Settled, Cleared, Staged, At
  <2>5. Settled(b)'
    BY <1>0, <1>7, <2>2 DEF Recover, Settled, Cleared, HasData, Staged, At, Standalone, AheadOfData,
       BoxState, Volume
  <2> HIDE DEF s
  <2>6. QED
    BY <1>0, <2>1, <2>3, <2>4, <2>5, HolderStep
<1>8. ASSUME NEW b \in Boxes, Replay(b) PROVE Guarded'
  <2> DEFINE s == [box[b] EXCEPT !.at = IF vol.local THEN "checkpoint" ELSE "clear"]
  <2>1. Inside(b) /\ box' = [box EXCEPT ![b] = s] /\ lock' = lock
    BY <1>8 DEF Replay, Goto, At, Inside
  <2>2. box'[b] = s
    BY <1>0, <2>1, BoxTypes
  <2>3. lock' = b
    BY <1>0, <2>1 DEF Locked
  <2>4. Volumes'
    BY <1>0, <1>8 DEF Replay, Volumes, AheadOfData, Volume, Settled, Cleared, Staged, At
  <2>5. Settled(b)'
    BY <1>0, <1>8, <2>2 DEF Replay, Settled, Cleared, HasData, Staged, At, Standalone, AheadOfData,
       BoxState, Volume
  <2> HIDE DEF s
  <2>6. QED
    BY <1>0, <2>1, <2>3, <2>4, <2>5, HolderStep
<1>9. ASSUME NEW b \in Boxes, Checkpoint(b) PROVE Guarded'
  <2> DEFINE s == [box[b] EXCEPT !.at = "clear"]
  <2>1. Inside(b) /\ box' = [box EXCEPT ![b] = s] /\ lock' = lock
    BY <1>9 DEF Checkpoint, Goto, At, Inside
  <2>2. box'[b] = s
    BY <1>0, <2>1, BoxTypes
  <2>3. lock' = b
    BY <1>0, <2>1 DEF Locked
  <2>4. Volumes'
    BY <1>0, <1>9 DEF Checkpoint, Volumes, AheadOfData, Volume, Settled, Cleared, Staged, At
  <2>5. Settled(b)'
    BY <1>0, <1>9, <2>2 DEF Checkpoint, Settled, Cleared, HasData, Staged, At, Standalone, AheadOfData,
       BoxState, Volume
  <2> HIDE DEF s
  <2>6. QED
    BY <1>0, <2>1, <2>3, <2>4, <2>5, HolderStep
<1>10. ASSUME NEW b \in Boxes, Clear(b) PROVE Guarded'
  <2> DEFINE s == [box[b] EXCEPT !.at = "spawn"]
  <2>1. Inside(b) /\ box' = [box EXCEPT ![b] = s] /\ lock' = lock
    BY <1>10 DEF Clear, Goto, At, Inside
  <2>2. box'[b] = s
    BY <1>0, <2>1, BoxTypes
  <2>3. lock' = b
    BY <1>0, <2>1 DEF Locked
  <2>4. Volumes'
    BY <1>0, <1>10 DEF Clear, Volumes, AheadOfData, Volume, Settled, Cleared, Staged, At
  <2>5. Settled(b)'
    BY <1>0, <1>10, <2>2 DEF Clear, Settled, Cleared, HasData, Staged, At, Standalone, AheadOfData,
       BoxState, Volume
  <2> HIDE DEF s
  <2>6. QED
    BY <1>0, <2>1, <2>3, <2>4, <2>5, HolderStep
<1>11. ASSUME NEW b \in Boxes, Spawn(b) PROVE Guarded'
  <2> DEFINE s == [box[b] EXCEPT !.at = "up", !.duty = IF Standalone(b) THEN "count" ELSE "none"]
  <2>1. Inside(b) /\ box' = [box EXCEPT ![b] = s] /\ lock' = lock
    BY <1>11 DEF Spawn, Goto, At, Inside
  <2>2. box'[b] = s
    BY <1>0, <2>1, BoxTypes
  <2>3. lock' = b
    BY <1>0, <2>1 DEF Locked
  <2>4. Volumes'
    BY <1>0, <1>11 DEF Spawn, Volumes, AheadOfData, Volume, Settled, Cleared, Staged, At
  <2>5. Settled(b)'
    <3>1. /\ s.at = "up" /\ s.mode = box[b].mode
          /\ s.duty = IF Standalone(b) THEN "count" ELSE "none"
      BY <1>0 DEF BoxState
    <3>2. vol'.data = TRUE
      BY <1>0, <1>11 DEF Spawn, Volume
    <3>3. Standalone(b) => ahead' = "none"
      BY <1>11 DEF Spawn
    <3> HIDE DEF s
    <3>4. QED
      BY <2>2, <3>1, <3>2, <3>3 DEF Settled, Cleared, HasData, Staged, At, Standalone
  <2> HIDE DEF s
  <2>6. QED
    BY <1>0, <2>1, <2>3, <2>4, <2>5, HolderStep
<1>12. ASSUME NEW b \in Boxes, Prove(b) PROVE Guarded'
  <2> DEFINE s == [box[b] EXCEPT !.proven = TRUE]
  <2>1. Inside(b) /\ box' = [box EXCEPT ![b] = s] /\ lock' = lock
    BY <1>12 DEF Prove, Goto, At, Inside
  <2>2. box'[b] = s
    BY <1>0, <2>1, BoxTypes
  <2>3. lock' = b
    BY <1>0, <2>1 DEF Locked
  <2>4. Volumes'
    BY <1>0, <1>12 DEF Prove, Volumes, AheadOfData, Volume, Settled, Cleared, Staged, At, PinnedKeyfile
  <2>5. Settled(b)'
    BY <1>0, <1>12, <2>2 DEF Prove, Settled, Cleared, HasData, Staged, At, Standalone, AheadOfData,
       BoxState, Volume, PinnedKeyfile
  <2> HIDE DEF s
  <2>6. QED
    BY <1>0, <2>1, <2>3, <2>4, <2>5, HolderStep
<1>13. ASSUME NEW b \in Boxes, Count(b) PROVE Guarded'
  <2> DEFINE s == [box[b] EXCEPT !.stale = vol.local, !.images = vol.preimages,
                                  !.duty = IF vol.local \/ vol.preimages THEN "local" ELSE "done"]
  <2>1. Inside(b) /\ box' = [box EXCEPT ![b] = s] /\ lock' = lock
    BY <1>13 DEF Count, Goto, At, Inside
  <2>2. box'[b] = s
    BY <1>0, <2>1, BoxTypes
  <2>3. lock' = b
    BY <1>0, <2>1 DEF Locked
  <2>4. Volumes'
    BY <1>0, <1>13 DEF Count, Volumes, AheadOfData, Volume, Settled, Cleared, Staged, At
  <2>5. Settled(b)'
    <3>1. s.at = "up" /\ s.mode = box[b].mode
      BY <1>0, <1>13 DEF BoxState, Count, At
    <3>2. /\ Standalone(b) /\ ahead = "none" /\ vol.data
          /\ vol' = vol /\ ahead' = ahead
      BY <1>0, <1>13 DEF Count, Settled, Cleared, HasData, Staged, At
    <3> HIDE DEF s
    <3>3. QED
      BY <2>2, <3>1, <3>2 DEF Settled, Cleared, HasData, Staged, At, Standalone
  <2> HIDE DEF s
  <2>6. QED
    BY <1>0, <2>1, <2>3, <2>4, <2>5, HolderStep
<1>14. ASSUME NEW b \in Boxes, DropLocal(b) PROVE Guarded'
  <2> DEFINE s == [box[b] EXCEPT !.duty = "preimages"]
  <2>1. Inside(b) /\ box' = [box EXCEPT ![b] = s] /\ lock' = lock
    BY <1>14 DEF DropLocal, Goto, At, Inside
  <2>2. box'[b] = s
    BY <1>0, <2>1, BoxTypes
  <2>3. lock' = b
    BY <1>0, <2>1 DEF Locked
  <2>4. Volumes'
    BY <1>0, <1>14 DEF DropLocal, Volumes, AheadOfData, Volume, Settled, Cleared, Staged, At
  <2>5. Settled(b)'
    BY <1>0, <1>14, <2>2 DEF DropLocal, Settled, Cleared, HasData, Staged, At, Standalone, AheadOfData,
       BoxState, Volume
  <2> HIDE DEF s
  <2>6. QED
    BY <1>0, <2>1, <2>3, <2>4, <2>5, HolderStep
<1>15. ASSUME NEW b \in Boxes, DropPreimages(b) PROVE Guarded'
  <2> DEFINE s == [box[b] EXCEPT !.duty = "done"]
  <2>1. Inside(b) /\ box' = [box EXCEPT ![b] = s] /\ lock' = lock
    BY <1>15 DEF DropPreimages, Goto, At, Inside
  <2>2. box'[b] = s
    BY <1>0, <2>1, BoxTypes
  <2>3. lock' = b
    BY <1>0, <2>1 DEF Locked
  <2>4. Volumes'
    BY <1>0, <1>15 DEF DropPreimages, Volumes, AheadOfData, Volume, Settled, Cleared, Staged, At
  <2>5. Settled(b)'
    BY <1>0, <1>15, <2>2 DEF DropPreimages, Settled, Cleared, HasData, Staged, At, Standalone, AheadOfData,
       BoxState, Volume
  <2> HIDE DEF s
  <2>6. QED
    BY <1>0, <2>1, <2>3, <2>4, <2>5, HolderStep
<1>16. ASSUME NEW b \in Boxes, DutyFails(b) PROVE Guarded'
  <2> DEFINE s == [box[b] EXCEPT !.duty = "none"]
  <2>1. Inside(b) /\ box' = [box EXCEPT ![b] = s] /\ lock' = lock
    BY <1>16 DEF DutyFails, Goto, At, Inside
  <2>2. box'[b] = s
    BY <1>0, <2>1, BoxTypes
  <2>3. lock' = b
    BY <1>0, <2>1 DEF Locked
  <2>4. Volumes'
    BY <1>0, <1>16 DEF DutyFails, Volumes, AheadOfData, Volume, Settled, Cleared, Staged, At
  <2>5. Settled(b)'
    BY <1>0, <1>16, <2>2 DEF DutyFails, Settled, Cleared, HasData, Staged, At, Standalone, AheadOfData,
       BoxState, Volume
  <2> HIDE DEF s
  <2>6. QED
    BY <1>0, <2>1, <2>3, <2>4, <2>5, HolderStep
<1>17. ASSUME NEW b \in Boxes, RecoveryFails(b) PROVE Guarded'
  <2> DEFINE s == Ended(b)
  <2>1. s.at \in {"gone", "down"}
    BY <1>0, EndedType
  <2>2. Inside(b) /\ box' = [box EXCEPT ![b] = s]
    BY <1>17 DEF RecoveryFails, At, Inside
  <2>3. box'[b] = s
    BY <1>0, <2>2, BoxTypes
  <2>4. Volumes'
    BY <1>0, <1>17 DEF RecoveryFails, Volumes, AheadOfData, Volume
  <2>5. Settled(b)'
    BY <2>1, <2>3 DEF Settled, Cleared, HasData, Staged, At
  <2> HIDE DEF s
  <2>6. QED
    BY <1>0, <2>1, <2>2, <2>4, <2>5, HolderStep DEF Outside
<1>18. ASSUME NEW b \in Boxes, Stop(b) PROVE Guarded'
  <2> DEFINE s == Ended(b)
  <2>1. s.at \in {"gone", "down"}
    BY <1>0, EndedType
  <2>2. Inside(b) /\ box' = [box EXCEPT ![b] = s]
    BY <1>18 DEF Stop, At, Inside
  <2>3. box'[b] = s
    BY <1>0, <2>2, BoxTypes
  <2>4. Volumes'
    BY <1>0, <1>18 DEF Stop, Volumes, AheadOfData, Volume
  <2>5. Settled(b)'
    BY <2>1, <2>3 DEF Settled, Cleared, HasData, Staged, At
  <2> HIDE DEF s
  <2>6. QED
    BY <1>0, <2>1, <2>2, <2>4, <2>5, HolderStep DEF Outside
<1>19. ASSUME NEW b \in Boxes, Abort(b) PROVE Guarded'
  <2> DEFINE s == Ended(b)
  <2>1. s.at \in {"gone", "down"}
    BY <1>0, EndedType, GoneType
  <2>2. /\ box' = [box EXCEPT ![b] = s]
        /\ vol' = vol /\ ahead' = ahead /\ lost' = lost
    BY <1>19 DEF Abort
  <2>3. box'[b] = s
    BY <1>0, <2>2, BoxTypes
  <2>4. Volumes'
    BY <1>0, <2>2 DEF Volumes, AheadOfData
  <2>5. Settled(b)'
    BY <2>1, <2>3 DEF Settled, Cleared, HasData, Staged, At
  <2>6. ~Inside(b) => lock' = lock
    BY <1>0, <1>19 DEF Abort, Released, Inside, TypeOK
  <2> HIDE DEF s
  <2>7. CASE Inside(b)
    BY <1>0, <2>1, <2>2, <2>4, <2>5, <2>7, HolderStep DEF Outside
  <2>8. CASE ~Inside(b)
    BY <1>0, <2>1, <2>2, <2>6, <2>8, WaiterStep DEF Outside
  <2>9. QED
    BY <2>7, <2>8
<1>20. ASSUME NEW b \in Boxes, Kill(b) PROVE Guarded'
  <2> DEFINE s == Gone
  <2>1. s.at \in {"gone", "down"}
    BY <1>0, EndedType, GoneType
  <2>2. /\ box' = [box EXCEPT ![b] = s]
        /\ vol' = vol /\ ahead' = ahead /\ lost' = lost
    BY <1>20 DEF Kill
  <2>3. box'[b] = s
    BY <1>0, <2>2, BoxTypes
  <2>4. Volumes'
    BY <1>0, <2>2 DEF Volumes, AheadOfData
  <2>5. Settled(b)'
    BY <2>1, <2>3 DEF Settled, Cleared, HasData, Staged, At
  <2>6. ~Inside(b) => lock' = lock
    BY <1>0, <1>20 DEF Kill, Released, Inside, TypeOK
  <2> HIDE DEF s
  <2>7. CASE Inside(b)
    BY <1>0, <2>1, <2>2, <2>4, <2>5, <2>7, HolderStep DEF Outside
  <2>8. CASE ~Inside(b)
    BY <1>0, <2>1, <2>2, <2>6, <2>8, WaiterStep DEF Outside
  <2>9. QED
    BY <2>7, <2>8
<1>21. ASSUME NEW b \in Boxes, Crash(b) PROVE Guarded'
  <2> DEFINE s == Ended(b)
  <2>1. s.at \in {"gone", "down"}
    BY <1>0, EndedType, GoneType
  <2>2. /\ box' = [box EXCEPT ![b] = s]
        /\ vol' = vol /\ ahead' = ahead /\ lost' = lost
    BY <1>21 DEF Crash
  <2>3. box'[b] = s
    BY <1>0, <2>2, BoxTypes
  <2>4. Volumes'
    BY <1>0, <2>2 DEF Volumes, AheadOfData
  <2>5. Settled(b)'
    BY <2>1, <2>3 DEF Settled, Cleared, HasData, Staged, At
  <2>6. ~Inside(b) => lock' = lock
    BY <1>0, <1>21 DEF Crash, Released, Inside, TypeOK
  <2> HIDE DEF s
  <2>7. CASE Inside(b)
    BY <1>0, <2>1, <2>2, <2>4, <2>5, <2>7, HolderStep DEF Outside
  <2>8. CASE ~Inside(b)
    BY <1>0, <2>1, <2>2, <2>6, <2>8, WaiterStep DEF Outside
  <2>9. QED
    BY <2>7, <2>8
<1>22. ASSUME NEW b \in Boxes, Form(b) PROVE Guarded'
  <2>1. /\ Inside(b) /\ At(b, "up") /\ vol.data
        /\ box' = [box EXCEPT ![b] = box[b]] /\ box' = box /\ lock' = lock
    BY <1>0, <1>22, BoxTypes DEF Form, At, Inside, Settled, HasData
  <2>2. ~Standalone(b)
    BY <1>0, <1>22 DEF Form, Settled, Cleared
  <2>3. lock' = b
    BY <1>0, <2>1 DEF Locked
  <2>4. Volumes'
    BY <1>0, <1>22, <2>1 DEF Form, Volumes, AheadOfData, Volume
  <2>5. vol'.data = vol.data
    BY <1>0, <1>22 DEF Form, Volume
  <2>6. Settled(b)'
    BY <1>0, <2>1, <2>2, <2>5 DEF Settled, Cleared, HasData, Staged, At, Standalone
  <2>7. QED
    BY <1>0, <2>1, <2>3, <2>4, <2>6, HolderStep
<1>23. ASSUME NEW b \in Boxes, Write(b) PROVE Guarded'
  <2>1. /\ Inside(b) /\ At(b, "up") /\ vol.data
        /\ box' = [box EXCEPT ![b] = box[b]] /\ box' = box /\ lock' = lock
    BY <1>0, <1>23, BoxTypes DEF Write, At, Inside, Settled, HasData
  <2>2. ~Standalone(b)
    BY <1>0, <1>23 DEF Write, Settled, Cleared
  <2>3. lock' = b
    BY <1>0, <2>1 DEF Locked
  <2>4. Volumes'
    BY <1>0, <1>23, <2>1 DEF Write, Volumes, AheadOfData, Volume
  <2>5. vol'.data = vol.data
    BY <1>0, <1>23 DEF Write, Volume
  <2>6. Settled(b)'
    BY <1>0, <2>1, <2>2, <2>5 DEF Settled, Cleared, HasData, Staged, At, Standalone
  <2>7. QED
    BY <1>0, <2>1, <2>3, <2>4, <2>6, HolderStep
<1>24. ASSUME NEW b \in Boxes, Stable(b) PROVE Guarded'
  <2>1. /\ Inside(b) /\ At(b, "up") /\ vol.data
        /\ box' = [box EXCEPT ![b] = box[b]] /\ box' = box /\ lock' = lock
    BY <1>0, <1>24, BoxTypes DEF Stable, At, Inside, Settled, HasData
  <2>2. ~Standalone(b)
    BY <1>0, <1>24 DEF Stable, Settled, Cleared
  <2>3. lock' = b
    BY <1>0, <2>1 DEF Locked
  <2>4. Volumes'
    BY <1>0, <1>24, <2>1 DEF Stable, Volumes, AheadOfData, Volume
  <2>5. vol'.data = vol.data
    BY <1>0, <1>24 DEF Stable, Volume
  <2>6. Settled(b)'
    BY <1>0, <2>1, <2>2, <2>5 DEF Settled, Cleared, HasData, Staged, At, Standalone
  <2>7. QED
    BY <1>0, <2>1, <2>3, <2>4, <2>6, HolderStep
<1>25. ASSUME NEW b \in Boxes, NEW m \in Modes, Deploy(b, m) PROVE Guarded'
  <2>1. /\ box'[b].at = "lock"
        /\ box'[current] = box[current] \/ box'[current].at = "gone"
        /\ \A c \in Boxes \ {b, current} : box'[c] = box[c]
    BY <1>0, <1>25, BoxTypes, GoneType DEF Deploy, TypeOK, Gone, At
  <2>2. \A c \in Boxes : box'[c].at \notin Outside => box'[c] = box[c]
    BY <2>1 DEF Outside
  <2>3. lock' = lock /\ vol' = vol /\ ahead' = ahead /\ lost' = lost
    BY <1>25 DEF Deploy
  <2>4. Locked'
    BY <1>0, <2>2, <2>3 DEF Locked, Inside, Outside
  <2>5. \A c \in Boxes : Settled(c)'
    BY <1>0, <2>2, <2>3 DEF Settled, Cleared, HasData, Staged, At, Standalone, Outside
  <2>6. QED
    BY <1>0, <2>3, <2>4, <2>5 DEF Guarded, Volumes, AheadOfData
<1>26. CASE UNCHANGED vars
  BY <1>0, <1>26 DEF vars, Guarded, Locked, Inside, Volumes, AheadOfData, Settled, Cleared, HasData,
     Staged, At, Standalone
<1>27. ASSUME NEW b \in Boxes, OpenFails(b) PROVE Guarded'
  BY <1>27 DEF OpenFails
<1>28. QED
  BY <1>1, <1>2, <1>3, <1>4, <1>5, <1>6, <1>7, <1>8, <1>9, <1>10, <1>11, <1>12, <1>13, <1>14, <1>15, <1>16, <1>17, <1>18, <1>19, <1>20, <1>21, <1>22, <1>23, <1>24, <1>25, <1>26, <1>27
  DEF Next, BootStep, Duty

\* No recorded write is lost as long as every container went through the lock:
\* mark_replset_boot, replay_needed, replay_oplog_as_standalone and the volume
\* lock together, whatever is deployed over what and wherever it is cut short.
THEOREM NoWriteLostHolds == Spec => []NoWriteLost
<1>1. Init => WriteInv
  <2> SUFFICES ASSUME Init PROVE Guarded
    BY TypeInit, WriteParts
  <2>1. \A b \in Boxes : box[b].at \in Outside
    BY GoneType DEF Init, Gone, Outside
  <2>2. \A b \in Boxes : Settled(b) /\ ~Inside(b)
    BY <2>1 DEF Settled, Cleared, HasData, Staged, At, Inside, Outside
  <2>3. AheadOfData
    BY DEF Init, AheadOfData, Unmarked, Adopted, Empty
  <2>4. QED
    BY <2>2, <2>3 DEF Guarded, Locked, Volumes, Init
<1>2. WriteInv => NoWriteLost
  BY DEF WriteInv, NoWriteLost, TypeOK
<1>3. QED
  BY <1>1, <1>2, WriteStep, PTL DEF Spec
=============================================================================
