------------------------------ MODULE MCSignals ------------------------------
(* Instances of SignalDelivery for TLC. *)
EXTENDS SignalDelivery, TLC

CONSTANTS w1, w2
Symmetric == Permutations(Workers)
=============================================================================
