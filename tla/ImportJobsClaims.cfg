\* One job that may import its video again, cancelled and retried, a crash: claims
\* are given up and the job is not forgotten.
SPECIFICATION FairSpec
CONSTANTS
    j1 = j1
    j2 = j2
    v1 = v1
    Jobs = {j1}
    Videos = {v1}
    Tasks = {t1, t2}
    Workers = {w1}
    Requests = {r1}
    VideoOf <- OneVideo
    Reimport = {j1}
    Batched = {j1}
    Ops = {"cancel", "retry"}
    MaxRetries = 1
    MaxCrashes = 1
    MaxRestarts = 0
    LastStage = 1
    NoJob = NoJob
    NoRow = NoRow
    Severed = Severed
    NoTask = NoTask
PROPERTIES
    ClaimGivenUp
    NoneForgotten
\* The bounds on jobs and tasks stop the model, as an idle system stops.
CHECK_DEADLOCK FALSE
