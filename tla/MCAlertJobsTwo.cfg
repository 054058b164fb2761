\* Two jobs that compete for two workers, whose leases are renewed in time.
CONSTANTS
    Jobs = {j1, j2}
    Workers = {w1, w2}
    None = None
    MaxAttempts = 2
    MaxLapses = 0
    MaxCrashes = 2
    MaxRetries = 1
SPECIFICATION FairSpec
INVARIANTS
    ExclusiveExecution
    CompletedMeansDone
    AttemptsExplained
PROPERTIES
    CompletedIsFinal
    JobSettles
CHECK_DEADLOCK FALSE
