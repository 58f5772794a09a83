\* A single job and one of a batch, a worker and a client.
SPECIFICATION FairSpec
CONSTANTS
    j1 = j1
    j2 = j2
    Jobs = {j1, j2}
    Batched = {j2}
    Unmarked = {}
    Workers = {w1}
    Clients = {c1}
    LastAttempt = 1
    MaxAsks = 2
    MaxFaults = 1
    NoJob = NoJob
INVARIANTS
    TypeOK
    CheckComing
PROPERTY IndexSettles
\* Once every chain is over nothing more need happen.
CHECK_DEADLOCK FALSE
