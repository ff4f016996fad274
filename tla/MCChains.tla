------------------------------ MODULE MCChains ------------------------------
EXTENDS Chains, TLC
CONSTANTS r1, r2, v1, v2
Symmetry == Permutations(Requests) \cup Permutations(Variants)
=============================================================================
