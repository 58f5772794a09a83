---------------------------- MODULE MCImportJobs ----------------------------
EXTENDS ImportJobs, TLC
CONSTANTS j1, j2, v1
OneVideo == [j \in Jobs |-> v1]
Symmetry == Permutations(Tasks) \cup Permutations(Workers)
JobSymmetry == Symmetry \cup Permutations(Jobs)
\* At most one job is cancelled at a time, and at most one other misfortune happens: a
\* worker dies under a run or, without a cancellation, the web process stops in a request
\* or a job is deleted.
Showing(s) == {j \in Jobs : status[j] = s}
OneLoss ==
    LET lost == restarts + Cardinality(Showing("deleted"))
    IN  crashes + lost <= 1 /\ lost + Cardinality(Showing("cancelled")) <= 1
=============================================================================
