SPECIFICATION FairSpec
CONSTANTS
    w1 = w1
    w2 = w2
    NoTask = NoTask
    NoClaim = NoClaim
    Worker <- TwoWorkers
    Clocks <- TwoAhead
    N = 2
    ClaimTTL = 1
    RetryDelay = 1
    MaxDelay = 2
    GiveUp = 2
    MaxClock = 2
    MaxClaim = 1
    MaxLate = 1
INVARIANTS OneExecutor
PROPERTIES OnlyPendingSent ProgressKept ImplementsDelivery CompletedRemoved
CHECK_DEADLOCK FALSE
