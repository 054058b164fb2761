\* Two processes on one spool, crashes at every step.
CONSTANTS
    Workers = {w1, w2}
    Vessels = {v1, v2}
    BatchIds = {b1, b2, b3}
    None = None
    MaxSeq = 3
    Limit = 2
    Capacity = 2
    MaxCrashes = 2
SPECIFICATION Spec
SYMMETRY Symmetry
INVARIANTS
    ExactlyOnce
    ReceiptsMatch
    StoredInOrder
    ThrottleBacked
PROPERTY
    ImplementsHistory
