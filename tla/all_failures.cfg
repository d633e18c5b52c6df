\* Any failure; a step may be cancelled, and the file removed before a restart.
CONSTANTS
    s1 = s1
    s2 = s2
    Jobs = {1, 2}
    Sessions = {s1, s2}
    Nil = Nil
    NoList = NoList
    wf <- Chain
    RetriedJobs = {1}
    MaxRetries <- MCMaxRetries
    Cancellable = {1}
    Interventions = {"remove_file"}
    FaultKinds = {"crash", "disconnect", "stale", "redis", "db"}
    MaxFaults = 1
SPECIFICATION WSpec
SYMMETRY Symmetry
INVARIANT TypeOK
INVARIANT WorkflowTypeOK
INVARIANT RetryBound
INVARIANT FailedExhausted
INVARIANT CompletedHonestly
INVARIANT OwnerHandlesJob
INVARIANT DelayedBacked
INVARIANT StepsInOrder
INVARIANT FailedForAReason
PROPERTY OrphanFailed
CHECK_DEADLOCK FALSE
