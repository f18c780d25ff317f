SPECIFICATION StoresSpec
CONSTANTS
    ep = ep
    w1 = w1
    w2 = w2
    r1 = r1
    Endpoints = {ep}
    Writers <- MCWriters
    Readers = {r1}
    MaxResults = 2
    MaxEvents = 1
    DefaultPageSize = 1
    Slack = 1
    Sizes = {1}
    h1 = h1
    h2 = h2
    Hours <- MCHours
    StatementMayFail = TRUE
    RefreshedWith <- MCRefreshedWith
    MaxRows = 5
    MaxInserts = 6
    s1 = s1
    Suites = {s1}
    SuiteEndpoints = {ep}
    HoursPerDay = 2
    HourlyBuffer = 4
    Retention = 8
    AgeCleanUp = 9
    KeysCleanUp = 2
    MergeThreshold = 2
    MaxHour = 10
    MaxPerHour = 1
    MaxObserved = 3
SYMMETRY MCSymmetry
INVARIANTS
    StoresTypeOK
    StoresAnswerFromHistory
    LastEventIsLastResult
    TablesStayBounded
    CacheIsFresh
    UptimeCountsResults
PROPERTIES
    MemoryImplementsHistory
    SqlImplementsHistory
CHECK_DEADLOCK FALSE
