\* Two workers, two jobs whose files have one name.
SPECIFICATION Spec
CONSTANTS
    w1 = w1  w2 = w2  j1 = j1  j2 = j2  v1 = v1  v2 = v2
    Workers = {w1, w2}
    Jobs = {j1, j2}
    Videos = {v1, v2}
    VideoOf <- MCVideoOf
    MaxCounter = 1
    Kinds <- MCKinds
    MaxFaults = 1
    Base = Base
    NoJob = NoJob
    NoPath = NoPath
SYMMETRY AnyWorker
INVARIANTS
    TypeOK
    PublishedWhole
    NoStrays
PROPERTIES
    KeptFiles
    SuccessIsFiled
\* Jobs are used up.
CHECK_DEADLOCK FALSE
