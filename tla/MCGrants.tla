------------------------------- MODULE MCGrants -------------------------------
(* Instances of Grants for TLC. *)
EXTENDS Grants, TLC

CONSTANTS u1, u2, p1, p2, d1, d2, e1, e2, k1, k2
Symmetric == Permutations(Polls) \union Permutations(Decisions) \union Permutations(Users)
===============================================================================
