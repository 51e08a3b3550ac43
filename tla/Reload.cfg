SPECIFICATION FairSpec
CONSTANTS
    Ids <- Names
    Usable <- Fit
    Answers <- Met
    BODY_LIMIT = 2
    Files <- AllFiles
    Initial <- Start
    EventBuffer = 1
    MaxWrites = 2
    MaxSignals = 2
INVARIANT LastKnownGood
PROPERTIES StatusHonest LastChangeApplied SyncGoesOn
CHECK_DEADLOCK FALSE
