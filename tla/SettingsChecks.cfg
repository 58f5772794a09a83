\* Two saves or resets, and one pool thread or one job.
SPECIFICATION Spec
CONSTANTS
    t1 = t1
    Threads = {t1}
    Loop = Loop
    Deployments <- MCDeployments
    Forms <- MCForms
    MaxSaves = 2
    MaxJobs = 1
    MaxKeys = 2
    MaxFaults = 3
CONSTRAINT Apart
INVARIANTS
    TypeOK
    SecretsReadable
    SavesTakeEffect
    JobsSeeSaved
PROPERTIES
    OneKey
    SavesCanStart
\* Saves, jobs and faults are used up.
CHECK_DEADLOCK FALSE
