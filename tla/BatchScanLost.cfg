\* A child succeeds while the scan of a client is in flight.
SPECIFICATION Spec
CONSTANTS
    Children = {c1, c2}
    Workers = {w1}
    Clients = {r1}
    MaxRounds = 2
    MaxDirty = 4
    MaxCrashes = 0
    NoChild = NoChild
SYMMETRY Symmetry
INVARIANT SucceededIsCaughtUp
\* Once every child is done nothing more need happen.
CHECK_DEADLOCK FALSE
