---------------------------- MODULE MCProvisioning ----------------------------
(* Instances of Provisioning for TLC. *)
EXTENDS Provisioning, TLC

CONSTANTS r1, r2, d1, d2
MCGuards == {NoGuard, [count |-> 0, percent |-> 100]}
Unguarded == {NoGuard}
Symmetric == Permutations({r1, r2}) \union Permutations({d1, d2})
===============================================================================
