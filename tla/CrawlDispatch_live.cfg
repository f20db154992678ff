SPECIFICATION FairSpec
CONSTANTS
    p1 = p1
    j1 = j1
    j2 = j2
    d1 = d1
    d2 = d2
    Persons = {p1}
    Owner <- OneOwner
    MaxRetries = 1
    MaxRecoverPerScan = 1
    Verdicts <- Verdict
    Unregistered <- OneUnknown
    Dispatchers = {d1}
    SubmitPriorities <- Normal
    QueueCap = 1
    MaxFaults = 1
    MaxStops = 1
    MaxManual = 0
    Jobs = {j1, j2}
    Concurrency = 1
    RetryCap = 1
INVARIANT RetryBudget
INVARIANT PendingIsCarried
INVARIANT FoundIsDelivered
PROPERTY PendingIsServed
