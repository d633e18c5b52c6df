\* One stream breaks.
CONSTANTS
    s1 = s1
    s2 = s2
    Jobs = {1, 2}
    Sessions = {s1, s2}
    Nil = Nil
    NoList = NoList
    wf <- Chain
    RetriedJobs = {}
    MaxRetries <- MCMaxRetries
    Cancellable = {}
    Interventions = {}
    FaultKinds = {"disconnect"}
    MaxFaults = 1
SPECIFICATION WSpec
INVARIANT UnblockedSubmitted
CHECK_DEADLOCK FALSE
