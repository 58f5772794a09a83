\* Two pairings of one browser, one ticket, one request at a time.
SPECIFICATION FairSpec
CONSTANTS
    c1 = c1  c2 = c2  d1 = d1  d2 = d2  j1 = j1  t1 = t1  r1 = r1
    Codes = {c1, c2}
    Devices = {d1, d2}
    Jobs = {j1}
    Tickets = {t1}
    Requests = {r1}
    Limit = 2
    MaxFaults = 1
    NoDevice = NoDevice
    NoJob = NoJob
INVARIANTS
    TypeOK
    PairedOnce
    TicketOpensOne
    RevokedIsMarked
PROPERTIES
    RevokedSocketsClose
    EndIsTold
    BlockEnds
\* Codes, devices and tickets are used up.
CHECK_DEADLOCK FALSE
