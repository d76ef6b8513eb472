------------------------- MODULE MCStandaloneRevert -------------------------
(* StandaloneRevert on instances small enough for TLC.                     *)
EXTENDS StandaloneRevert, TLC

CONSTANTS b1, b2
=============================================================================
