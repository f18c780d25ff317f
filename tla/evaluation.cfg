SPECIFICATION PartsSpec
CONSTANTS
    EndpointCount = 4
    AlwaysRun <- MCAlwaysRun
    Keys = {"id", "price"}
    InitialContext = {"price"}
    Uses <- MCUses
    Stores <- MCStores
    Initial = Initial
    Missing = Missing
    NoContext = NoContext
    Monitored <- MCMonitored
    Hides <- MCHides
    Contexts = {"", "UP", NoContext}
    Dialers = {d1, d2}
    SshClients = {s1, s2, s3}
    NoClient = NoClient
    Callers = {g1, g2}
    NilClient = NilClient
INVARIANTS
    RightEndpointsRan
    ContextIsOfThisExecution
    VerdictMatchesResponse
    NoConnectionIsLeaked
    QuietClientIsComplete
PROPERTIES
    EvaluationEnds
CHECK_DEADLOCK FALSE
