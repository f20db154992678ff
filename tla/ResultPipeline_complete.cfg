SPECIFICATION FairSpec
CONSTANTS
    j1 = j1
    j2 = j2
    j3 = j3
    i1 = i1
    i2 = i2
    Jobs = {j1, j2}
    Rowless = {}
    Reliable = {j1, j2}
    Addresses = {}
    Identifiers = {}
    AddressCap = 5
    Ingesters = {i1, i2}
    Steps = 2
    MaxRetries = 0
    MaxFaults = 0
    MaxCrashes = 0
    MaxMerges = 0
PROPERTY SearchCompletes
CHECK_DEADLOCK FALSE
