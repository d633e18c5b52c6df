\* Nothing fails; the run may be cancelled. The system stops when the run has ended.
CONSTANTS
    s1 = s1
    s2 = s2
    Jobs = {1, 2, 3, 4}
    Sessions = {s1, s2}
    Nil = Nil
    NoList = NoList
    wf <- Diamond
    RetriedJobs = {2}
    MaxRetries <- MCMaxRetries
    Cancellable = {}
    Interventions = {"cancel_run"}
    FaultKinds = {}
    MaxFaults = 0
SPECIFICATION WFairSpec
INVARIANT StepsInOrder
INVARIANT CompletedWhenDone
INVARIANT OutputChained
INVARIANT UnblockedSubmitted
PROPERTY RunEnds
PROPERTY EndedRunSettles
CHECK_DEADLOCK FALSE
