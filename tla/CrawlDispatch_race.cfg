SPECIFICATION Spec
CONSTANTS
    p1 = p1
    j1 = j1
    j2 = j2
    d1 = d1
    d2 = d2
    Persons = {p1}
    Owner <- OneOwner
    MaxRetries = 1
    MaxRecoverPerScan = 1
    Verdicts <- NoEmptyNoBlock
    Unregistered = {}
    Dispatchers = {d1}
    SubmitPriorities <- Normal
    QueueCap = 1
    MaxFaults = 0
    MaxStops = 0
    MaxManual = 1
    Jobs = {j1}
    Concurrency = 2
    RetryCap = 1
INVARIANT TypeOK
INVARIANT PermitsConserved
INVARIANT RunningIsOwned
