------------------------ MODULE MCCredentialRotation ------------------------
(* CredentialRotation on sets small enough for TLC.                        *)
EXTENDS CredentialRotation, TLC

CONSTANTS n1, n2, n3

\* Only for the safety runs: symmetry is not sound for liveness.
NodeSymmetry == Permutations(Nodes)
=============================================================================
