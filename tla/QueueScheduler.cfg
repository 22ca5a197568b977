SPECIFICATION FairQueueSpec
CONSTANTS
    d1 = d1
    d2 = d2
    Domain <- TwoDomains
    Cap = 2
    MaxKeys = 2
    MaxLoops = 2
INVARIANTS NothingLeftRunning Overshoot
PROPERTIES LoopsEnd
CHECK_DEADLOCK FALSE
