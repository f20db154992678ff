SPECIFICATION StandaloneSpec
CONSTANTS
    MaxFaults = 1
    Builds = {b1}
    Names = {n1, n2}
    MaxResults = 1
    MaxKills = 1
    a = a
    b = b
    c = c
    Entities = {a, b, c}
    NameOf <- TwoNamesakes
    Platforms = {x}
    Data = {d1}
    Unknown = {b}
    MaxHops = 2
    MaxEntities = 3
    MaxLinks = 2
    FanoutCap = 2
    MinResults = 1
    MaxSeen = 2
    Records = {r1, r2, r3, r4}
    Scores = {s1}
    None = None
    MaxCandidates = 4
    Writers = {w1, w2}
    Keys = {k1, k2}
    MaxDeliveries = 2
    MaxFails = 1
    Profiles = {a, b, c}
    Sla <- TwoIntervals
    ShortestSla = 1
    Unregistered = {c}
    BatchSize = 1
    Window = 2
    MaxAge = 3
    MaxScanFails = 1
    Persons = {p1}
    Values = {v1}
    Pivoters = {w1, w2}
    MaxRetries = 1
    MaxRefusals = 1
    PlatformCount = 1
    MaxDepth = 2
    MaxFanout = 1
    MaxDaily = 1
    MaxSearches = 1
    MaxDays = 1
    MaxTroubles = 1
    Companies = {a, b, c, d, e}
    Owners = {o1}
    Root = a
    OwnershipDepth = 3
    CrawlCap = 4
    MaxOfficers = 2
    Reporters = {w1, w2}
    Sources = {a, b, c}
    SourceConfidence <- OneTwoThree
    MaxReports = 4
INVARIANT StandaloneTypeOK
INVARIANT SettledUnlessRaced
INVARIANT CompleteIsFiltered
INVARIANT ReachComplete
INVARIANT ShallowestFirst
INVARIANT ClustersAreComponents
INVARIANT RefusedOnlyRaced
INVARIANT SingleUnlessRaced
INVARIANT DailyBounded
INVARIANT LossExplained
INVARIANT OwnersFound
INVARIANT BestSourceKept
PROPERTY OverdueIsQueued
PROPERTY CascadeEnds
CHECK_DEADLOCK FALSE
