SPECIFICATION FairSpec
CONSTANTS
    u1 = u1
    u2 = u2
    o1 = o1
    n1 = n1
    x1 = x1
    None = None
    Handler <- TwoUploads
    Handle <- OneHandle
    Nested = FALSE
    Slot <- OneSlot
    Other <- OneOther
    Name <- OneName
    Proc <- Procs
    Limit = 1
    MaxParts = 1
PROPERTIES ShutdownEnds
INVARIANTS IndexWhole NothingKept CountExact NoLostWakeup
CHECK_DEADLOCK FALSE
