\* One Redis command fails.
CONSTANTS
    s1 = s1
    s2 = s2
    Jobs = {1, 2, 3}
    Sessions = {s1, s2}
    Nil = Nil
    NoList = NoList
    wf <- Branches
    RetriedJobs = {}
    MaxRetries <- MCMaxRetries
    Cancellable = {}
    Interventions = {}
    FaultKinds = {"redis"}
    MaxFaults = 1
SPECIFICATION WSpec
INVARIANT CompletedWhenDone
CHECK_DEADLOCK FALSE
