SPECIFICATION FairSpec
CONSTANTS
    p1 = p1
    heartbeat = heartbeat
    Pushers = {p1}
    Heartbeat = heartbeat
    Interval = 1
    FailureThreshold = 2
    SuccessThreshold = 2
    Reminds = FALSE
    SendOnResolved = TRUE
    QueryMayFail = TRUE
    MaxRun = 2
INVARIANTS
    TypeOK
    CountersAreRuns
    AlertIsInStep
PROPERTIES
    ImplementsIncidentAlone
    SilenceIsNoticed
    SuccessesEndIncident
