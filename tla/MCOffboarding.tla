----------------------------- MODULE MCOffboarding -----------------------------
EXTENDS Offboarding, TLC
CONSTANTS p1, p2
\* The request slots are interchangeable: no definition names one.
Symmetric == Permutations({p1, p2})
================================================================================
