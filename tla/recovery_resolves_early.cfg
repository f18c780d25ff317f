SPECIFICATION RecoverySpec
CONSTANTS
    AlertCount = 2
    FailureThreshold <- MCFailureThreshold
    SuccessThreshold <- MCSuccessThreshold
    MinimumReminderInterval <- MCReminders
    Enabled <- MCAll
    SendOnResolved <- MCSendOnResolved
    HasProvider <- MCAll
    Checksum <- MCDistinct
    ProviderMayFail <- MCNone
    DatabaseMayFail = FALSE
    MaxCrashes = 0
    MayReconfigure = FALSE
    MaxRun = 3
    MaxElapsed = 1
PROPERTY
    ResolvedOnlyAtThreshold
