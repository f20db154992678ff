SPECIFICATION PersonsSpec
CONSTANTS
    a = a
    b = b
    Persons = {q1, q2}
    Values = {a, b}
    Fan <- OneAndTwo
    Ingesters = {c1, c2}
    MaxJobsPerCall = 2
    MaxDepth = 2
    MaxCalls = 3
    MaxFaults = 1
    People = {p1, p2, p3}
    Nobody = Nobody
    Identifiers = {v1, v2}
    Clients = {c1, c2}
    MaxOps = 5
    MaxAttempts = 3
SYMMETRY Symmetry
INVARIANT PersonsTypeOK
INVARIANT StoredIsSearched
INVARIANT SharedIsReviewed
INVARIANT CounterExpires
INVARIANT ValuesKept
INVARIANT OrphansExplained
INVARIANT CirclesExplained
INVARIANT VerdictExplained
CHECK_DEADLOCK FALSE
