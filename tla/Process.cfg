SPECIFICATION LFairSpec
CONSTANTS
    Records = {a1, a2}
    Capacity = 2
    MaxReopens = 2
    MaxRotations = 1
    U32_MAX = 2000000000
    MAX_PERMITS = 2100000000
    MAX_SLOTS = 2050000000
    ArgLists <- CommandLines
    ConfigFiles <- Found
    NoConfig = NoConfig
INVARIANTS CleanExitComplete ExitHonest ConfigFits ReopenGuarantee NoneLostSilently
PROPERTIES ShutdownBounded CallsReturn
CHECK_DEADLOCK FALSE
