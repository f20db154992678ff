SPECIFICATION FairSpec
CONSTANTS
    j1 = j1
    j2 = j2
    j3 = j3
    i1 = i1
    i2 = i2
    Jobs = {j1, j3}
    Rowless <- PivotJob
    Reliable = {j1, j3}
    Addresses = {j1, j3}
    Identifiers = {}
    AddressCap = 1
    Ingesters = {i1, i2}
    Steps = 1
    MaxRetries = 0
    MaxFaults = 1
    MaxCrashes = 1
    MaxMerges = 0
INVARIANT StoredIsIndexed
PROPERTY FoundIsSearchable
PROPERTY ImplementsDelivery
CHECK_DEADLOCK FALSE
