\* A cancellation while the run goes on, and a second worker.
SPECIFICATION Spec
CONSTANTS
    j1 = j1
    j2 = j2
    v1 = v1
    Jobs = {j1, j2}
    Videos = {v1}
    Tasks = {t1, t2}
    Workers = {w1, w2}
    Requests = {r1}
    VideoOf <- OneVideo
    Reimport = {}
    Batched = {j1}
    Ops = {"cancel"}
    MaxRetries = 0
    MaxCrashes = 0
    MaxRestarts = 0
    LastStage = 4
    NoJob = NoJob
    NoRow = NoRow
    Severed = Severed
    NoTask = NoTask
SYMMETRY Symmetry
INVARIANT ExclusiveProcessing
\* The bounds on jobs and tasks stop the model, as an idle system stops.
CHECK_DEADLOCK FALSE
