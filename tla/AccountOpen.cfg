SPECIFICATION FairSpec
CONSTANTS
    n1 = n1
    n2 = n2
    c1 = c1
    c2 = c2
    c3 = c3
    None = None
    Failed = Failed
    Node <- TwoNodes
    Call <- ThreeCalls
    At <- TwoOnOne
    Box <- ThreeBoxes
    Standard <- Inboxes
    MaxUid = 1
    MaxLate = 1
    Legacy <- OnePast
INVARIANTS NodesAgree CompleteImage OneOpening
PROPERTIES OpenReturns
CHECK_DEADLOCK FALSE
