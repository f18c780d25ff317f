SPECIFICATION DeliverySpec
CONSTANTS
    AlertCount = 2
    FailureThreshold <- MCFailureThreshold
    SuccessThreshold <- MCSuccessThreshold
    MinimumReminderInterval <- MCReminders
    Enabled <- MCAll
    SendOnResolved <- MCSendOnResolved
    HasProvider <- MCAll
    Checksum <- MCDistinct
    ProviderMayFail <- MCAll
    DatabaseMayFail = FALSE
    MaxCrashes = 2
    MayReconfigure = TRUE
    MaxRun = 3
    MaxElapsed = 1
    NoProvider = NoProvider
    Recipients <- MCRecipients
    MaxIncidents = 3
INVARIANTS
    RowsMatchTriggered
    TriggeredWasAnnounced
    SettingsAreLayered
    AcceptedNotificationsAreComplete
    ResolutionClosesIncidents
PROPERTIES
    NoSecondAnnouncement
    IncidentsAreClosed
