----------------------------- MODULE SharedKey -----------------------------
(***************************************************************************)
(* What a change of the internal key promises: members change what they    *)
(* authenticate each other with one at a time, and never to something a    *)
(* fellow member could not accept.  It says nothing of passes, restarts or *)
(* who asks for the change: CredentialRotation implements it.              *)
(***************************************************************************)
EXTENDS FiniteSets

CONSTANTS
  Members,  \* the members of the set
  Keys      \* the internal keys there can be

VARIABLE key  \* the keys each member accepts, running or started again now

\* Two members accept one another: they have a key in common.
Shares(K, L) == K \cap L # {}

Init == \E k \in Keys : key = [m \in Members |-> {k}]

\* Member m goes over to the keys K, which everyone else shares.
Change(m, K) ==
  /\ \A o \in Members \ {m} : Shares(K, key[o])
  /\ key' = [key EXCEPT ![m] = K]

Next == \E m \in Members, K \in (SUBSET Keys) \ {{}} : Change(m, K)

Spec == Init /\ [][Next]_key

TypeOK == key \in [Members -> (SUBSET Keys) \ {{}}]

\* No member is ever shut out by another.
Agreement == \A m, o \in Members : Shares(key[m], key[o])
=============================================================================
