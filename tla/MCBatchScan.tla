---------------------------- MODULE MCBatchScan ----------------------------
EXTENDS BatchScan, TLC
Symmetry == Permutations(Children) \cup Permutations(Workers)

\* SettledIsSeen and OneScan promise nothing once a row has been overwritten.
Clean == ~overwritten
=============================================================================
