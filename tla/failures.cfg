\* Any two failures other than a silent worker.
CONSTANTS
    j1 = j1
    j2 = j2
    s1 = s1
    s2 = s2
    Jobs = {j1, j2}
    Sessions = {s1, s2}
    Nil = Nil
    RetryLimit = 1
    MaxRetries <- MCMaxRetries
    Cancellable = {}
    FaultKinds = {"crash", "disconnect", "redis", "db"}
    MaxFaults = 2
SPECIFICATION Spec
SYMMETRY Symmetry
INVARIANT Exclusive
INVARIANT OneEntry
INVARIANT LostOnlyTorn
INVARIANT AttemptsBounded
CHECK_DEADLOCK FALSE
