\* Work streams break at any moment.
CONSTANTS
    j1 = j1
    j2 = j2
    s1 = s1
    s2 = s2
    s3 = s3
    Jobs = {j1, j2}
    Sessions = {s1, s2, s3}
    Nil = Nil
    RetryLimit = 1
    MaxRetries <- MCMaxRetries
    Cancellable = {}
    FaultKinds = {"disconnect"}
    MaxFaults = 2
SPECIFICATION Spec
SYMMETRY Symmetry
INVARIANT NothingLost
PROPERTY ImplementsContract
CHECK_DEADLOCK FALSE
