SPECIFICATION FairSpec
CONSTANTS
    k1 = k1
    k2 = k2
    Failed = Failed
    Keys <- TheTwo
    KeySets <- BothOrOne
    InitialKeys <- TheTwo
    Answers <- Met
    BODY_LIMIT = 2
    NotJson = NotJson
    Threshold = 80
    MAX_COOLDOWN = 7
    Capacity = 1
    MaxReloads = 2
    MaxRounds = 1
    MaxClock = 1
INVARIANT HistoryComplete
PROPERTIES CoolingJustified PollingGoesOn NewKeysPolled ShutdownReturns
CHECK_DEADLOCK FALSE
