------------------------ MODULE MCReplicationMonitor ------------------------
(***************************************************************************)
(* Instances of ReplicationMonitor for TLC.                                *)
(***************************************************************************)
EXTENDS ReplicationMonitor

CONSTANTS n1, n2

\* Steps in which no member but the primary leaves a state it has not been in
\* for two polls, so that whoever polls throughout sees every state.
LongStays == \A m \in Nodes \ {primary, primary'} : state'[m] # state[m] => held[m] >= 2
=============================================================================
