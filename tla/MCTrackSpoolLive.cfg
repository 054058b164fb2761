\* One process, the documented deployment: counters and delivery.
CONSTANTS
    Workers = {w1}
    Vessels = {v1}
    BatchIds = {b1, b2, b3}
    None = None
    MaxSeq = 3
    Limit = 2
    Capacity = 2
    MaxCrashes = 2
SPECIFICATION FairSpec
INVARIANT
    CounterExact
PROPERTY
    Delivered
