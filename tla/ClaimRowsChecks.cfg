\* Two jobs, two workers and two requests, which go on.
SPECIFICATION FairSpec
CONSTANTS
    Jobs = {j1, j2}
    Workers = {w1, w2}
    Requests = {r1, r2}
    MaxRetries = 1
    MaxDeaths = 1
    NoJob = NoJob
INVARIANTS
    TypeOK
    WorkHoldsClaim
PROPERTY ClaimPasses
CHECK_DEADLOCK FALSE
