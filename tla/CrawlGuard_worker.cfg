SPECIFICATION GuardSpec
CONSTANTS
    Callers = {c1, c2}
    Wired = {c1}
    FailureThreshold = 2
    SuccessThreshold = 2
    OpenDuration = 2
    HalfOpenTimeout = 1
    Rate = 1
    Burst = 1
    KeyTTL = 2
    MaxLag = 1
    MaxWait = 1
    MaxTime = 3
    MaxFaults = 0
    MaxForced = 0
INVARIANT RefusedWhileOpen
CHECK_DEADLOCK FALSE
