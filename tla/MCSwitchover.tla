---------------------------- MODULE MCSwitchover ----------------------------
(***************************************************************************)
(* Instances of Switchover for TLC.                                        *)
(***************************************************************************)
EXTENDS Switchover

CONSTANTS n1, n2, n3
=============================================================================
