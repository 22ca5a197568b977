SPECIFICATION FairSpec
CONSTANTS
    b1 = b1
    b2 = b2
    W = 2
    Buffers <- TwoBuffers
    Cap = 2
    MaxBlock = 3
    EmptyLimit = 1
INVARIANTS BlocksIntact RefsExact CommitWhole
PROPERTIES PipelineEnds
CHECK_DEADLOCK FALSE
