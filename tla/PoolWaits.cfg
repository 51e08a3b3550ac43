SPECIFICATION FairSpec
CONSTANTS
    k1 = k1
    k2 = k2
    Keys = {k1, k2}
    KeyLists <- Reloads
    Models = {m1}
    Requests = {r1}
    Polls = {p1}
    NoKey = NoKey
    NoModel = NoModel
    UsageCooldowns = {3}
    RetryAfters = {0, 3}
    BackoffInitial = 1
    BackoffMax = 2
    BreakerThreshold = 2
    BreakerCooldown = 1
    WaitTimeout = 2
    MaxAttempts = 2
    MaxCooldown = 2
    MaxClock = 3
INVARIANTS TypeOK CooldownBounded
PROPERTY NextReturns
