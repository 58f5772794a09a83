\* Two workers that end the jobs of a batch and a client that retries its scan;
\* one of them may die.
SPECIFICATION Spec
CONSTANTS
    Children = {c1, c2}
    Workers = {w1, w2}
    Clients = {r1}
    MaxRounds = 2
    MaxDirty = 2
    MaxCrashes = 1
    NoChild = NoChild
SYMMETRY Symmetry
CONSTRAINT Clean
INVARIANTS
    TypeOK
    SettledIsSeen
    OneScan
\* Once every child is done nothing more need happen.
CHECK_DEADLOCK FALSE
