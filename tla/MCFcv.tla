------------------------------- MODULE MCFcv -------------------------------
(***************************************************************************)
(* Instances of Fcv for TLC.                                               *)
(***************************************************************************)
EXTENDS Fcv

CONSTANTS n1, n2, n3
=============================================================================
