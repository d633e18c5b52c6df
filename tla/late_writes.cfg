\* Clients cancel the run or its first step, a worker falls silent, a stream breaks.
CONSTANTS
    s1 = s1
    s2 = s2
    Jobs = {1, 2}
    Sessions = {s1, s2}
    Nil = Nil
    NoList = NoList
    wf <- Chain
    RetriedJobs = {}
    MaxRetries <- MCMaxRetries
    Cancellable = {1}
    Interventions = {"cancel_run"}
    FaultKinds = {"stale", "disconnect"}
    MaxFaults = 2
SPECIFICATION WSpec
PROPERTY LateWritesRejected
CHECK_DEADLOCK FALSE
