SPECIFICATION FairSpec
CONSTANTS
    n1 = n1
    n2 = n2
    NoRecord = NoRecord
    Node <- TwoNodes
    Skew <- NoSkew
    TTL = 2
    MaxClock = 2
    MaxAttempt = 1
    MaxLate = 1
INVARIANTS NoSplitScan LeasesDisjoint
PROPERTIES SuccessorUntouched LostLeaseReleased
CHECK_DEADLOCK FALSE
