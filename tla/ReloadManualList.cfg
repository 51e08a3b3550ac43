SPECIFICATION Spec
CONSTANTS
    Ids <- Names
    Usable <- Fit
    Answers <- Met
    BODY_LIMIT = 2
    Files <- ValidFiles
    Initial <- Start
    EventBuffer = 1
    MaxWrites = 1
    MaxSignals = 0
INVARIANT ManualListServed
CHECK_DEADLOCK FALSE
