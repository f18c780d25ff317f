SPECIFICATION FairSpec
CONSTANTS
    AlertCount = 4
    FailureThreshold <- MCFailureThreshold
    SuccessThreshold <- MCSuccessThreshold
    MinimumReminderInterval <- MCInterval
    Enabled <- MCEnabled
    SendOnResolved <- MCSendOnResolved
    HasProvider <- MCHasProvider
    Checksum <- MCChecksum
    ProviderMayFail <- MCProviderMayFail
    DatabaseMayFail = TRUE
    MaxRun = 2
    MaxElapsed = 2
INVARIANTS
    TypeOK
    RecipientInStep
    AlertIsPrompt
PROPERTIES
    ReminderSpacing
    ImplementsIncident
    PersistentFailureIsAnnounced
    PersistentSuccessEndsIncidents
