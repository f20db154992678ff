SPECIFICATION GuardSpec
CONSTANTS
    Callers = {c1, c2}
    Wired = {c1, c2}
    FailureThreshold = 2
    SuccessThreshold = 2
    OpenDuration = 2
    HalfOpenTimeout = 1
    Rate = 1
    Burst = 1
    KeyTTL = 2
    MaxLag = 1
    MaxWait = 1
    MaxTime = 3
    MaxFaults = 1
    MaxForced = 1
SYMMETRY Symmetry
INVARIANT WindowBounded
INVARIANT RefusedWhileOpen
PROPERTY UsesLimiter
CHECK_DEADLOCK FALSE
