\* A job whose workers crash, lose their leases while alive, and lose the
\* answers of their calls.
CONSTANTS
    Jobs = {j1}
    Workers = {w1, w2, w3}
    None = None
    MaxAttempts = 2
    MaxLapses = 2
    MaxCrashes = 2
    MaxRetries = 1
SPECIFICATION FairSpec
INVARIANTS
    ExclusiveExecution
    CompletedMeansDone
PROPERTIES
    CompletedIsFinal
    JobSettles
\* With every alert settled there is nothing left to do.
CHECK_DEADLOCK FALSE
