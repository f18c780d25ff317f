SPECIFICATION FairSpec
CONSTANTS
    p1 = p1
    heartbeat = heartbeat
    Pushers = {p1}
    Heartbeat = heartbeat
    Interval = 2
    FailureThreshold = 2
    SuccessThreshold = 2
    Reminds = FALSE
    SendOnResolved = TRUE
    QueryMayFail = FALSE
    MaxRun = 2
PROPERTY
    SuccessOfHeartbeatImpliesPush
