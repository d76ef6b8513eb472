----------------------------- MODULE MCRoleEdge -----------------------------
(***************************************************************************)
(* Instances of RoleEdge for TLC.                                          *)
(***************************************************************************)
EXTENDS RoleEdge

CONSTANTS n1, n2, n3
=============================================================================
