SPECIFICATION FairSpec
CONSTANTS
    AlertCount = 2
    FailureThreshold <- MCTwoFailureThreshold
    SuccessThreshold <- MCTwoSuccessThreshold
    MinimumReminderInterval <- MCTwoInterval
    Enabled <- MCAll
    SendOnResolved <- MCTwoSendOnResolved
    HasProvider <- MCAll
    Checksum <- MCTwoChecksum
    ProviderMayFail <- MCNone
    DatabaseMayFail = FALSE
    MaxRun = 2
    MaxElapsed = 2
PROPERTIES
    SlowestAlertIsReminded
