\* One worker with time limits and other failures, a death, and RQ's re-run of the task.
SPECIFICATION Spec
CONSTANTS
    j1 = j1
    j2 = j2
    v1 = v1
    Jobs = {j1, j2}
    Videos = {v1}
    Tasks = {t1, t2}
    Workers = {w1}
    Requests = {r1}
    VideoOf <- OneVideo
    Reimport = {}
    Batched = {j1}
    Ops = {}
    MaxRetries = 1
    MaxCrashes = 1
    MaxRestarts = 0
    LastStage = 4
    NoJob = NoJob
    NoRow = NoRow
    Severed = Severed
    NoTask = NoTask
INVARIANT UnfinishedNotRecorded
\* The bounds on jobs and tasks stop the model, as an idle system stops.
CHECK_DEADLOCK FALSE
