----------------------------- MODULE SetFormation -----------------------------
(***************************************************************************)
(* What forming a replica set promises, whatever decides on it: a set is   *)
(* founded only where nobody is in one, and after that nodes are listed by *)
(* it, adopt its config, and lose it only with their volume.  A set may    *)
(* also be founded regardless of the others, irregularly; from then on     *)
(* nothing is promised.  Bootstrap is shown to implement this, and to be   *)
(* irregular only by a command that lands late or with a peer waived.      *)
(***************************************************************************)
CONSTANTS
  Nodes,
  Sets,    \* identities of the sets that may be founded
  NoSet

VARIABLES
  config,    \* the set whose config each node holds
  members,   \* the nodes each set's config lists, {} before it is founded
  irregular  \* some set was founded regardless of the others

Init ==
  /\ config = [n \in Nodes |-> NoSet]
  /\ members = [s \in Sets |-> {}]
  /\ irregular = FALSE

Found(n, s) ==
  /\ config[n] = NoSet
  /\ members[s] = {}
  /\ config' = [config EXCEPT ![n] = s]
  /\ members' = [members EXCEPT ![s] = {n}]
  /\ \/ irregular' = TRUE
     \/ UNCHANGED irregular /\ \A p \in Nodes : config[p] = NoSet

\* m's set lists n.
Admit(n, m) ==
  /\ config[m] # NoSet
  /\ members' = [members EXCEPT ![config[m]] = @ \cup {n}]
  /\ UNCHANGED <<config, irregular>>

Adopt(n, m) ==
  /\ config[n] = NoSet /\ config[m] # NoSet
  /\ n \in members[config[m]]
  /\ config' = [config EXCEPT ![n] = config[m]]
  /\ UNCHANGED <<members, irregular>>

Lose(n) ==
  /\ config' = [config EXCEPT ![n] = NoSet]
  /\ UNCHANGED <<members, irregular>>

Next ==
  \E n \in Nodes :
    \/ Lose(n)
    \/ \E s \in Sets : Found(n, s)
    \/ \E m \in Nodes : Admit(n, m) \/ Adopt(n, m)

Spec == Init /\ [][Next]_<<config, members, irregular>>

TypeOK ==
  /\ config \in [Nodes -> Sets \cup {NoSet}]
  /\ members \in [Sets -> SUBSET Nodes]
  /\ irregular \in BOOLEAN

\* Until then there are never two sets with a live config, and a set lists
\* whoever holds its config.
OneSet ==
  ~irregular =>
    \A n \in Nodes : config[n] # NoSet =>
      /\ n \in members[config[n]]
      /\ \A m \in Nodes : config[m] \in {config[n], NoSet}
===============================================================================
