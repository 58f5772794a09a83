---------------------------- MODULE MCClaimRows ----------------------------
EXTENDS ClaimRows, TLC
Symmetry == Permutations(Jobs) \cup Permutations(Workers) \cup Permutations(Requests)
=============================================================================
