SPECIFICATION Spec
CONSTANTS
    Requests = {r1, r2, r3}
    Keys = {k1}
    NoKey = NoKey
    MaxConcurrency = 2
    MaxQueue = 1
    MaxBodies = 1
    MaxAttempts = 1
    MaxGeneration = 1
    Accepts <- AcceptBefore
SYMMETRY RequestSymmetry
INVARIANTS ResourcesHeld AuditTellsAnswer WithdrawnKeyRefused
CHECK_DEADLOCK FALSE
