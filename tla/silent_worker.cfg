\* A worker falls silent, and may hang for ever.
CONSTANTS
    j1 = j1
    s1 = s1
    s2 = s2
    Jobs = {j1}
    Sessions = {s1, s2}
    Nil = Nil
    RetryLimit = 1
    MaxRetries <- MCMaxRetries
    Cancellable = {}
    FaultKinds = {"stale"}
    MaxFaults = 1
SPECIFICATION HungSpec
PROPERTY StaleReclaimed
CHECK_DEADLOCK FALSE
