SPECIFICATION ProgressSpec
CONSTANTS
    j1 = j1
    j2 = j2
    j3 = j3
    i1 = i1
    i2 = i2
    Jobs = {j1}
    Rowless = {}
    Reliable = {}
    Addresses = {}
    Identifiers = {}
    AddressCap = 5
    Ingesters = {i1}
    Steps = 1
    MaxRetries = 1
    MaxFaults = 1
    MaxCrashes = 0
    MaxMerges = 0
    MaxBehind = 1
INVARIANT ProgressTypeOK
INVARIANT ReportsCounted
INVARIANT ViewFollows
CHECK_DEADLOCK FALSE
