\* Any failures of the server, the streams and the stores; then a last restart.
CONSTANTS
    j1 = j1
    s1 = s1
    s2 = s2
    s3 = s3
    Jobs = {j1}
    Sessions = {s1, s2, s3}
    Nil = Nil
    RetryLimit = 1
    MaxRetries <- MCMaxRetries
    Cancellable = {}
    FaultKinds = {"crash", "disconnect", "redis", "db"}
    MaxFaults = 2
SPECIFICATION FairSpec
PROPERTY RestartSettles
CHECK_DEADLOCK FALSE
