SPECIFICATION FairSpec
CONSTANTS
    Callers = {c1, c2, c3, c4}
    MaxConcurrency = 1
    MaxQueue = 2
INVARIANT PermitsConserved
PROPERTIES Implements Resolves
