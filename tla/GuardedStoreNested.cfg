SPECIFICATION GuardFairSpec
CONSTANTS
    h1 = h1
    h2 = h2
    s1 = s1
    s2 = s2
    Handler <- TwoHandlers
    Handle <- TwoHandles
    Nested = TRUE
PROPERTIES CloseEnds
CHECK_DEADLOCK FALSE
