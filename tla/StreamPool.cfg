SPECIFICATION FairSpec
CONSTANTS
    c1 = c1
    c2 = c2
    c3 = c3
    w1 = w1
    None = None
    Call <- ThreeCalls
    Worker <- OneWorker
INVARIANTS NoSendOnClosed
PROPERTIES CallsReturn CloseEnds
CHECK_DEADLOCK FALSE
