\* Nothing fails; one of the jobs may be cancelled. The system stops when all jobs are settled.
CONSTANTS
    j1 = j1
    j2 = j2
    s1 = s1
    s2 = s2
    Jobs = {j1, j2}
    Sessions = {s1, s2}
    Nil = Nil
    RetryLimit = 1
    MaxRetries <- MCMaxRetries
    Cancellable = {j1}
    FaultKinds = {}
    MaxFaults = 0
SPECIFICATION FairSpec
INVARIANT ExactRetries
PROPERTY Settles
PROPERTY QueueDrains
CHECK_DEADLOCK FALSE
