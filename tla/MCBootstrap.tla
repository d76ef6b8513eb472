----------------------------- MODULE MCBootstrap -----------------------------
(***************************************************************************)
(* Instances of Bootstrap for TLC: three nodes in seed order n1, n2, n3.   *)
(***************************************************************************)
EXTENDS Bootstrap, TLC

CONSTANTS n1, n2, n3

SeedOrder == n1 :> 0 @@ n2 :> 1 @@ n3 :> 2
RankOf == [n \in Node |-> SeedOrder[n]]
Symmetry == Permutations(SetIds)
=============================================================================
