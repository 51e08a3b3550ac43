SPECIFICATION Spec
CONSTANTS
    k1 = k1
    k2 = k2
    Keys = {k1}
    KeyLists <- OneKey
    Models = {m1, m2}
    Requests = {r1, r2, r3}
    Polls = {p1}
    NoKey = NoKey
    NoModel = NoModel
    UsageCooldowns = {3}
    RetryAfters = {0}
    BackoffInitial = 1
    BackoffMax = 2
    BreakerThreshold = 1
    BreakerCooldown = 1
    WaitTimeout = 1
    MaxAttempts = 1
    MaxCooldown = 2
    MaxClock = 2
SYMMETRY Interchangeable
INVARIANTS IdsAreOrdered OneProbe
PROPERTIES CooldownNeverShortened SilenceHeeded
