-------------------------- MODULE MCSessionRecovery --------------------------
(* SessionRecovery on instances small enough for TLC.                      *)
EXTENDS SessionRecovery, TLC

CONSTANTS c1, c2

\* Only for the safety runs: symmetry is not sound for liveness.
CallerSymmetry == Permutations(Callers \ Pollers)
=============================================================================
