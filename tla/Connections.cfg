SPECIFICATION FairSpec
CONSTANTS
    Conns = {c1, c2, c3, c4}
    MaxConnections = 2
INVARIANT CapHeld
PROPERTIES SilenceEnds ShutdownReturns
CHECK_DEADLOCK FALSE
