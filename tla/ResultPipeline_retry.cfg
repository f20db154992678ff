SPECIFICATION Spec
CONSTANTS
    j1 = j1
    j2 = j2
    j3 = j3
    i1 = i1
    i2 = i2
    Jobs = {j1}
    Rowless = {}
    Reliable = {j1}
    Addresses = {}
    Identifiers = {j1}
    AddressCap = 5
    Ingesters = {i1, i2}
    Steps = 1
    MaxRetries = 1
    MaxFaults = 1
    MaxCrashes = 1
    MaxMerges = 1
INVARIANT ResultsConserved
 
CHECK_DEADLOCK FALSE
