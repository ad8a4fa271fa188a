---------------------------- MODULE MCTokenFamily ----------------------------
(* Small instances of TokenFamily. *)
EXTENDS TokenFamily, TLC

CONSTANTS c1, t1, t2, t3, r1, r2, s1

MCOneSession == [c \in Codes |-> s1]
Symmetric == Permutations(Tokens) \union Permutations(Requests)
===============================================================================
