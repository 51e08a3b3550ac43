SPECIFICATION FairSpec
CONSTANTS
    Cap = 5
    FirstEvent = 1
    InterEvent = 1
    BodyIdle = 1
    WriteBudget = 1
    ChannelCap = 1
    MaxWire = 2
    MaxEvents = 2
    MaxBody = 6
INVARIANTS SplittersAgree BlameEarned CompletedWhole
PROPERTY StreamEnds
