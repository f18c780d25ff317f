------------------------------ MODULE Alerting ------------------------------
(***************************************************************************)
(* watchdog.HandleAlerting for one endpoint: the loop over the endpoint's  *)
(* alerts that sends, reminds of and resolves incidents, the fields it     *)
(* keeps on the endpoint and its alerts, and the rows of the table         *)
(* endpoint_alerts_triggered it maintains.                                 *)
(*                                                                         *)
(* The loop is split where it leaves the process: a call to the provider   *)
(* and a write to the store are steps of their own, each of which may      *)
(* fail.  The handler runs when an alerting configuration exists (the code *)
(* returns at once when there is none).                                    *)
(***************************************************************************)
EXTENDS Naturals

CONSTANTS
    AlertCount,              \* len(ep.Alerts)
    FailureThreshold,        \* Alert.FailureThreshold of every alert
    SuccessThreshold,        \* Alert.SuccessThreshold
    MinimumReminderInterval, \* Alert.MinimumReminderInterval, 0 for none
    Enabled,                 \* Alert.IsEnabled()
    SendOnResolved,          \* Alert.IsSendingOnResolved()
    HasProvider,             \* GetAlertingProviderByAlertType(type) != nil
    Checksum,                \* Alert.Checksum(), the key of the alert's row
    ProviderMayFail,         \* may the Send of the alert's provider return an error?
    DatabaseMayFail,         \* may a write to the store be lost?
    MaxRun,                  \* bound: counters stay at MaxRun
    MaxElapsed               \* bound: durations stay at MaxElapsed

Alerts == 1 .. AlertCount
Checksums == {Checksum[a] : a \in Alerts}

ASSUME AlertCountAssumption == AlertCount \in Nat
\* validateEndpointNameGroupAndAlerts gives every threshold a positive value;
\* no threshold or interval may lie beyond the bound of what it is compared to.
ASSUME ThresholdAssumption ==
    /\ MaxRun \in Nat
    /\ FailureThreshold \in [Alerts -> 1 .. MaxRun]
    /\ SuccessThreshold \in [Alerts -> 1 .. MaxRun]
ASSUME IntervalAssumption ==
    /\ MaxElapsed \in Nat
    /\ MinimumReminderInterval \in [Alerts -> 0 .. MaxElapsed]
ASSUME FlagAssumption ==
    /\ Enabled \in [Alerts -> BOOLEAN]
    /\ SendOnResolved \in [Alerts -> BOOLEAN]
    /\ HasProvider \in [Alerts -> BOOLEAN]
    /\ ProviderMayFail \in [Alerts -> BOOLEAN]
    /\ DatabaseMayFail \in BOOLEAN

VARIABLES
    pc,                      \* where the handler is
    cursor,                  \* the alert the loop is at
    numberOfFailuresInARow,  \* ep.NumberOfFailuresInARow
    numberOfSuccessesInARow, \* ep.NumberOfSuccessesInARow
    triggered,               \* Alert.Triggered of every alert
    sinceReminder,           \* time.Since(ep.LastReminderSent)
    sinceSnapshot,           \* time.Since(lastReminderSent), the local copy
    rows,                    \* checksums with a row in the table
    rowSuccesses,            \* number_of_successes_in_a_row of every row
    announced,               \* has the recipient an incident that is not closed?
    sinceSent,               \* time since the alert's last notification
    failureRun,              \* failures since the last success, as observed
    successRun               \* successes since the last failure, as observed

epVars == <<numberOfFailuresInARow, numberOfSuccessesInARow>>
clockVars == <<sinceReminder, sinceSnapshot, sinceSent>>
dbVars == <<rows, rowSuccesses>>
runVars == <<failureRun, successRun>>
vars == <<pc, cursor, epVars, triggered, clockVars, dbVars, announced, runVars>>

Bump(n) == IF n < MaxRun THEN n + 1 ELSE n
Later(t) == IF t < MaxElapsed THEN t + 1 ELSE t

\* LastReminderSent starts as the zero time, further back than any interval.
Init ==
    /\ pc = "idle"
    /\ cursor = 1
    /\ numberOfFailuresInARow = 0
    /\ numberOfSuccessesInARow = 0
    /\ triggered = [a \in Alerts |-> FALSE]
    /\ sinceReminder = MaxElapsed
    /\ sinceSnapshot = MaxElapsed
    /\ rows = {}
    /\ rowSuccesses = [c \in Checksums |-> 0]
    /\ announced = [a \in Alerts |-> FALSE]
    /\ sinceSent = [a \in Alerts |-> MaxElapsed]
    /\ failureRun = 0
    /\ successRun = 0

-----------------------------------------------------------------------------
(***************************************************************************)
(* The entry of the handler.  A failure resets the successes and counts    *)
(* before the loop; a success counts before the loop and resets the        *)
(* failures only after it.                                                 *)
(***************************************************************************)
HandleFailure ==
    /\ pc = "idle"
    /\ pc' = "triggering"
    /\ cursor' = 1
    /\ numberOfSuccessesInARow' = 0
    /\ numberOfFailuresInARow' = Bump(numberOfFailuresInARow)
    /\ sinceSnapshot' = sinceReminder
    /\ failureRun' = Bump(failureRun)
    /\ successRun' = 0
    /\ UNCHANGED <<triggered, sinceReminder, sinceSent, dbVars, announced>>

\* Slip: successes are never counted.
SuccessNotCounted ==
    /\ pc = "idle"
    /\ pc' = "resolving"
    /\ cursor' = 1
    /\ failureRun' = 0
    /\ successRun' = Bump(successRun)
    /\ UNCHANGED <<epVars, triggered, clockVars, dbVars, announced>>

HandleSuccess ==
    /\ pc = "idle"
    /\ pc' = "resolving"
    /\ cursor' = 1
    /\ numberOfSuccessesInARow' = Bump(numberOfSuccessesInARow)
    /\ failureRun' = 0
    /\ successRun' = Bump(successRun)
    /\ UNCHANGED <<numberOfFailuresInARow, triggered, clockVars, dbVars, announced>>

\* store.UpsertTriggeredEndpointAlert: the row of the alert's checksum with the
\* endpoint's current successes.  An error is logged and otherwise ignored.
UpsertTriggeredEndpointAlert(a) ==
    \/ /\ rows' = rows \union {Checksum[a]}
       /\ rowSuccesses' = [rowSuccesses EXCEPT ![Checksum[a]] = numberOfSuccessesInARow]
    \/ /\ DatabaseMayFail
       /\ UNCHANGED dbVars

\* Slip: the row of a resolved alert stays.
RowNeverDeleted(a) == UNCHANGED dbVars

\* store.DeleteTriggeredEndpointAlert, its error ignored likewise.
DeleteTriggeredEndpointAlert(a) ==
    \/ /\ rows' = rows \ {Checksum[a]}
       /\ rowSuccesses' = [rowSuccesses EXCEPT ![Checksum[a]] = 0]
    \/ /\ DatabaseMayFail
       /\ UNCHANGED dbVars

-----------------------------------------------------------------------------
(* handleAlertsToTrigger *)

\* Slip: one failure more than the threshold asks for.
OneFailureTooMany(a) == Enabled[a] /\ FailureThreshold[a] < numberOfFailuresInARow

ReachesFailureThreshold(a) ==
    Enabled[a] /\ FailureThreshold[a] <= numberOfFailuresInARow

\* Slip: every failure reminds.
ReminderAlwaysDue(a) == triggered[a] /\ MinimumReminderInterval[a] > 0

ReminderIsDue(a) ==
    /\ triggered[a]
    /\ MinimumReminderInterval[a] > 0
    /\ sinceSnapshot >= MinimumReminderInterval[a]

MustNotify(a) ==
    /\ ReachesFailureThreshold(a)
    /\ ~triggered[a] \/ ReminderIsDue(a)
    /\ HasProvider[a]

AtAlert(where, a) == pc = where /\ cursor = a

\* Slip: the alert after a skipped one is skipped too.
SkipTwoAlerts(a) ==
    /\ AtAlert("triggering", a)
    /\ ~MustNotify(a)
    /\ cursor' = cursor + 2
    /\ UNCHANGED <<pc, epVars, triggered, clockVars, dbVars, announced, runVars>>

SkipTrigger(a) ==
    /\ AtAlert("triggering", a)
    /\ ~MustNotify(a)
    /\ cursor' = cursor + 1
    /\ UNCHANGED <<pc, epVars, triggered, clockVars, dbVars, announced, runVars>>

\* The provider took the message: only now is the alert marked as triggered.
SendTrigger(a) ==
    /\ AtAlert("triggering", a)
    /\ MustNotify(a)
    /\ triggered' = [triggered EXCEPT ![a] = TRUE]
    /\ announced' = [announced EXCEPT ![a] = TRUE]
    /\ sinceReminder' = 0
    /\ sinceSent' = [sinceSent EXCEPT ![a] = 0]
    /\ pc' = "persisting"
    /\ UNCHANGED <<cursor, epVars, sinceSnapshot, dbVars, runVars>>

\* Slip: the alert is marked as triggered although its message was refused.
MarkThoughRefused(a) ==
    /\ AtAlert("triggering", a)
    /\ MustNotify(a)
    /\ ProviderMayFail[a]
    /\ triggered' = [triggered EXCEPT ![a] = TRUE]
    /\ cursor' = cursor + 1
    /\ UNCHANGED <<pc, epVars, clockVars, dbVars, announced, runVars>>

\* The provider returned an error: nothing is marked, so that the next failure
\* tries again.
FailToSendTrigger(a) ==
    /\ AtAlert("triggering", a)
    /\ MustNotify(a)
    /\ ProviderMayFail[a]
    /\ cursor' = cursor + 1
    /\ UNCHANGED <<pc, epVars, triggered, clockVars, dbVars, announced, runVars>>

PersistTrigger(a) ==
    /\ AtAlert("persisting", a)
    /\ UpsertTriggeredEndpointAlert(a)
    /\ pc' = "triggering"
    /\ cursor' = cursor + 1
    /\ UNCHANGED <<epVars, triggered, clockVars, announced, runVars>>

FinishTriggering ==
    /\ AtAlert("triggering", AlertCount + 1)
    /\ pc' = "idle"
    /\ cursor' = 1
    /\ sinceSnapshot' = MaxElapsed
    /\ UNCHANGED <<epVars, triggered, sinceReminder, sinceSent, dbVars, announced, runVars>>

-----------------------------------------------------------------------------
(* handleAlertsToResolve *)

IsStillBelowSuccessThreshold(a) == SuccessThreshold[a] > numberOfSuccessesInARow

SkipResolve(a) ==
    /\ AtAlert("resolving", a)
    /\ ~Enabled[a] \/ ~triggered[a]
    /\ cursor' = cursor + 1
    /\ UNCHANGED <<pc, epVars, triggered, clockVars, dbVars, announced, runVars>>

PersistSuccesses(a) ==
    /\ AtAlert("resolving", a)
    /\ Enabled[a] /\ triggered[a]
    /\ IsStillBelowSuccessThreshold(a)
    /\ UpsertTriggeredEndpointAlert(a)
    /\ cursor' = cursor + 1
    /\ UNCHANGED <<pc, epVars, triggered, clockVars, announced, runVars>>

MustSendResolved(a) == SendOnResolved[a] /\ HasProvider[a]

\* The alert is marked as resolved before the provider is told; when nobody is
\* to be told, the incident is over for the recipient too.
Resolve(a) ==
    /\ AtAlert("resolving", a)
    /\ Enabled[a] /\ triggered[a]
    /\ ~IsStillBelowSuccessThreshold(a)
    /\ triggered' = [triggered EXCEPT ![a] = FALSE]
    /\ DeleteTriggeredEndpointAlert(a)
    /\ IF MustSendResolved(a)
       THEN pc' = "notifying" /\ UNCHANGED <<cursor, announced>>
       ELSE /\ cursor' = cursor + 1
            /\ announced' = [announced EXCEPT ![a] = FALSE]
            /\ UNCHANGED pc
    /\ UNCHANGED <<epVars, clockVars, runVars>>

SendResolved(a) ==
    /\ AtAlert("notifying", a)
    /\ announced' = [announced EXCEPT ![a] = FALSE]
    /\ pc' = "resolving"
    /\ cursor' = cursor + 1
    /\ UNCHANGED <<epVars, triggered, clockVars, dbVars, runVars>>

\* An error leaves the alert resolved all the same.
FailToSendResolved(a) ==
    /\ AtAlert("notifying", a)
    /\ ProviderMayFail[a]
    /\ pc' = "resolving"
    /\ cursor' = cursor + 1
    /\ UNCHANGED <<epVars, triggered, clockVars, dbVars, announced, runVars>>

\* Slip: a success does not end the run of failures.
FailuresKept ==
    /\ AtAlert("resolving", AlertCount + 1)
    /\ pc' = "idle"
    /\ cursor' = 1
    /\ UNCHANGED <<epVars, triggered, clockVars, dbVars, announced, runVars>>

FinishResolving ==
    /\ AtAlert("resolving", AlertCount + 1)
    /\ numberOfFailuresInARow' = 0
    /\ pc' = "idle"
    /\ cursor' = 1
    /\ UNCHANGED <<numberOfSuccessesInARow, triggered, clockVars, dbVars, announced, runVars>>

-----------------------------------------------------------------------------
(* Time passes at any moment, in the middle of a slow Send too. *)
Tick ==
    /\ sinceReminder' = Later(sinceReminder)
    /\ sinceSnapshot' = Later(sinceSnapshot)
    /\ sinceSent' = [a \in Alerts |-> Later(sinceSent[a])]
    /\ UNCHANGED <<pc, cursor, epVars, triggered, dbVars, announced, runVars>>

HandleAlert(a) ==
    \/ SkipTrigger(a) \/ SendTrigger(a) \/ FailToSendTrigger(a) \/ PersistTrigger(a)
    \/ SkipResolve(a) \/ PersistSuccesses(a) \/ Resolve(a)
    \/ SendResolved(a) \/ FailToSendResolved(a)

HandleAlerting == HandleFailure \/ HandleSuccess

Next ==
    \/ HandleAlerting
    \/ \E a \in Alerts : HandleAlert(a)
    \/ FinishTriggering
    \/ FinishResolving
    \/ Tick

Spec == Init /\ [][Next]_vars

(***************************************************************************)
(* Fairness: the monitoring goroutine evaluates the endpoint on every tick *)
(* of its ticker and never abandons the loop; time goes on; a provider     *)
(* that is asked again and again accepts a message at last.                *)
(***************************************************************************)
Fairness ==
    /\ WF_vars(HandleAlerting)
    /\ WF_vars((\E a \in Alerts : HandleAlert(a)) \/ FinishTriggering \/ FinishResolving)
    /\ WF_vars(Tick)
    /\ \A a \in Alerts : SF_vars(SendTrigger(a))

FairSpec == Spec /\ Fairness
-----------------------------------------------------------------------------
(* Properties *)

\* Every variable has its type.
TypeOK ==
    /\ pc \in {"idle", "triggering", "persisting", "resolving", "notifying"}
    /\ cursor \in 1 .. AlertCount + 1
    /\ pc \in {"persisting", "notifying"} => cursor \in Alerts
    /\ numberOfFailuresInARow \in 0 .. MaxRun
    /\ numberOfSuccessesInARow \in 0 .. MaxRun
    /\ triggered \in [Alerts -> BOOLEAN]
    /\ sinceReminder \in 0 .. MaxElapsed
    /\ sinceSnapshot \in 0 .. MaxElapsed
    /\ rows \subseteq Checksums
    /\ rowSuccesses \in [Checksums -> 0 .. MaxRun]
    /\ announced \in [Alerts -> BOOLEAN]
    /\ sinceSent \in [Alerts -> 0 .. MaxElapsed]
    /\ failureRun \in 0 .. MaxRun
    /\ successRun \in 0 .. MaxRun

\* An alert counts as triggered only when its recipient was told, however the
\* sends and the writes fail; and when no send of it fails, the recipient's view and
\* Alert.Triggered differ only while the resolution is on its way.
RecipientInStep ==
    \A a \in Alerts :
        /\ triggered[a] => announced[a]
        /\ announced[a] /\ ~ProviderMayFail[a] => triggered[a] \/ AtAlert("notifying", a)

\* When no write is lost, the table holds exactly the triggered alerts whenever
\* the handler is at rest: what a restart loads is what was in memory.
RowsMatchTriggered ==
    pc = "idle" /\ ~DatabaseMayFail => rows = {Checksum[a] : a \in {b \in Alerts : triggered[b]}}

\* The evaluation that completes a threshold has already changed the alert when
\* the handler returns, neither one too late nor lost behind another alert of the
\* endpoint that is refused: an incident opens at once if the alert's own provider
\* takes every message, and it ends at once in any case.
AlertIsPrompt ==
    pc = "idle" => \A a \in Alerts : Enabled[a] =>
        /\ HasProvider[a] /\ ~ProviderMayFail[a] =>
             (failureRun >= FailureThreshold[a] => triggered[a])
        /\ successRun >= SuccessThreshold[a] => ~triggered[a]

\* An alert is reminded of only if it asks for reminders, and never sooner than
\* its interval after its own last notification, although one time of the last
\* reminder is shared by all alerts and overwritten in the middle of the loop.
ReminderSpacing ==
    [][pc = "triggering" /\ pc' = "persisting" /\ triggered[cursor] =>
        /\ MinimumReminderInterval[cursor] > 0
        /\ sinceSent[cursor] >= MinimumReminderInterval[cursor]]_vars

\* The handler keeps the promise of Incident: Alert.Triggered changes only when
\* the observed run of failures or successes has reached the threshold.
I == INSTANCE Incident WITH ongoing <- triggered
ImplementsIncident == I!Spec

\* An endpoint that from some moment on only fails is announced at last, through
\* every alert that is enabled and has a provider, although sends may be refused:
\* an alert that could not be sent is tried again at the next failure.
PersistentFailureIsAnnounced ==
    \A a \in Alerts : Enabled[a] /\ HasProvider[a] =>
        (<>[](successRun = 0) => <>[](announced[a]))

\* An endpoint that from some moment on only succeeds has no triggered alert in
\* the end, even if every message about the resolution is refused.
PersistentSuccessEndsIncidents ==
    \A a \in Alerts : Enabled[a] => (<>[](failureRun = 0) => <>[](~triggered[a]))

\* While an endpoint keeps failing, the alert with the longest reminder interval
\* is reminded of again and again, as the others are.
SlowestAlertIsReminded ==
    \A a \in Alerts :
        /\ Enabled[a] /\ HasProvider[a] /\ MinimumReminderInterval[a] > 0
        /\ \A b \in Alerts : MinimumReminderInterval[b] <= MinimumReminderInterval[a]
        => (<>[](successRun = 0) => []<>(sinceSent[a] = 0))
=============================================================================
