SPECIFICATION FairSpec
CONSTANTS
    Requests = {r1}
    Keys = {k1, k2, k3}
    NoKey = NoKey
    MaxConcurrency = 1
    MaxQueue = 1
    MaxBodies = 1
    MaxAttempts = 2
    MaxGeneration = 1
    Accepts <- AcceptBefore
INVARIANTS SavedErrorReturned AttemptsAccounted
PROPERTIES EveryWaitEnds PermitComesBack
CHECK_DEADLOCK FALSE
