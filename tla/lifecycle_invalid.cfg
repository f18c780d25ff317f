SPECIFICATION FairSpec
CHECK_DEADLOCK FALSE
CONSTANTS
    a = a
    b = b
    Endpoints = {a}
    FirstEndpoints = {a}
    LaterEndpoints = {{a}}
    Concurrency = 1
    MaxReloads = 1
    MayBeInvalid = TRUE
PROPERTY
    MonitoringContinues
