SPECIFICATION Spec
CONSTANTS
    a = a
    b = b
    k1 = k1
    k2 = k2
    user = user
    None = None
    Node <- TwoNodes
    Key <- TwoKeys
    User = user
    Batches <- SomeBatches
    Legacy <- OldImage
    MaxTx = 2
    MaxLate = 1
INVARIANTS Recoverable CachedIsCommitted
PROPERTIES RecordsForward ImplementsAccount
SYMMETRY Symmetry
CHECK_DEADLOCK FALSE
