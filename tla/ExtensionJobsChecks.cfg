\* The handlers, sockets and commands of one job, with a lost request or connection,
\* a stop of the service worker or a retry; two jobs whose records two handlers
\* write; a third that makes one drop out.  The popup is opened again and again.
SPECIFICATION FairSpec
CONSTANTS
    j1 = j1
    j2 = j2
    j3 = j3
    Jobs = {j1, j2, j3}
    Tasks = {t1, t2}
    Sockets = {s1}
    MaxJobs = 2
    MaxRetries = 1
    MaxFaults = 1
    MaxStops = 1
    MaxTroubles = 1
    NoJob = NoJob
    NoSocket = NoSocket
CONSTRAINT Bounded
INVARIANTS
    TypeOK
    ToldOncePerLife
    EndIsReal
    FlagIsTick
PROPERTY EndShown
