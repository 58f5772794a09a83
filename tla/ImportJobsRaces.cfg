\* Two workers, two jobs for one video, cancels and deletions; a worker or the web
\* process may die.
SPECIFICATION Spec
CONSTANTS
    j1 = j1
    j2 = j2
    v1 = v1
    Jobs = {j1, j2}
    Videos = {v1}
    Tasks = {t1, t2}
    Workers = {w1, w2}
    Requests = {r1}
    VideoOf <- OneVideo
    Reimport = {}
    Batched = {}
    Ops = {"cancel", "delete"}
    MaxRetries = 0
    MaxCrashes = 1
    MaxRestarts = 1
    LastStage = 1
    NoJob = NoJob
    NoRow = NoRow
    Severed = Severed
    NoTask = NoTask
SYMMETRY JobSymmetry
CONSTRAINT OneLoss
INVARIANTS
    TypeOK
    SucceededIsRecorded
    OneFirstImport
PROPERTIES
    LedgerKept
\* The bounds on jobs and tasks stop the model, as an idle system stops.
CHECK_DEADLOCK FALSE
