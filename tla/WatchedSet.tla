------------------------------ MODULE WatchedSet ------------------------------
(***************************************************************************)
(* A replica set as Fcv and ReplicationMonitor look after it, each in a    *)
(* loop of its own beside mongod: members, at most one primary, and a      *)
(* number of faults.  The two have no name of their own in common, so that *)
(* one module can speak of both.                                           *)
(***************************************************************************)
EXTENDS Integers, FiniteSets

CONSTANTS
  Nodes,
  NoNode,     \* nobody is primary
  MaxFaults   \* bound: what each of the two counts as a fault

ASSUME NodeAssumption == IsFiniteSet(Nodes) /\ NoNode \notin Nodes
ASSUME BoundAssumption == MaxFaults \in Nat

VARIABLES primary, faults

Fault == faults < MaxFaults /\ faults' = faults + 1
===============================================================================
