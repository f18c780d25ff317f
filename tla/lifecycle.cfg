SPECIFICATION ConfigurationPartsSpec
CHECK_DEADLOCK FALSE
CONSTANTS
    a = a
    b = b
    Endpoints = {a, b}
    FirstEndpoints = {a, b}
    LaterEndpoints = {{a}}
    Concurrency = 1
    MaxReloads = 1
    MayBeInvalid = TRUE
    Files <- MCFiles
    NumberOfFiles = 2
    MaxSeconds = 2
    MaxWrites = 2
    MinutesPerHour = 2
    HoursInADay = 3
    DaysPerWeek = 2
INVARIANTS
    SlotsAreNeitherLostNorIdle
    LoadedConfigurationHolds
    MaintenanceIsAsScheduled
PROPERTIES
    EveryEndpointIsEvaluated
    StoppedGenerationEnds
    EveryModificationIsRead
