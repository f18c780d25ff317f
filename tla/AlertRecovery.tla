--------------------------- MODULE AlertRecovery ----------------------------
(***************************************************************************)
(* The alert handler across restarts: the process ends, what was kept on   *)
(* the endpoint and its alerts is lost, and initializeStorage of main.go   *)
(* rebuilds it from the rows of endpoint_alerts_triggered.  The runs of    *)
(* outcomes and the recipient's view of the incidents live outside the     *)
(* process and survive.                                                    *)
(*                                                                         *)
(* A restart may bring a new configuration of some alerts.  The slot of a  *)
(* changed alert then holds a new alert, with the same thresholds but      *)
(* another checksum; its former row belongs to no alert any more.          *)
(***************************************************************************)
EXTENDS Alerting, FiniteSetsExt

CONSTANTS
    MaxCrashes,              \* bound: ends of the process in the middle of the handler
    MayReconfigure           \* may a restart change alerts?

ASSUME RestartAssumption == MaxCrashes \in Nat /\ MayReconfigure \in BOOLEAN

VARIABLES
    crashes,                 \* ends in the middle of the handler so far
    outOfStep                \* alerts whose recipient knows of an incident that memory
                             \* and table do not: a crash came between the message and
                             \* its write, or the resolution was not delivered

recoveryVars == <<vars, crashes, outOfStep>>

RecoveryInit == Init /\ crashes = 0 /\ outOfStep = {}

\* Slip: the rows of changed alerts are kept.
KeepAllRows(changed) == rows

\* DeleteAllTriggeredAlertsNotInChecksumsByEndpoint, called with the checksums of
\* the enabled alerts of the new configuration.
RowsOfUnchangedAlerts(changed) ==
    rows \intersect {Checksum[a] : a \in {b \in Alerts : Enabled[b] /\ b \notin changed}}

\* Slip: no alert is looked up.
NothingRestored(kept) == {}

\* GetTriggeredEndpointAlert finds a row by the checksum of the alert.
Restored(kept) == {a \in Alerts : Checksum[a] \in kept}

\* Slip: the successes counted so far are not restored.
SuccessesForgotten(restored) == 0

\* Every alert found in the table overwrites the endpoint's counters: the last
\* one in the order of the configuration decides.
RestoredSuccesses(restored) ==
    IF restored = {} THEN 0 ELSE rowSuccesses[Checksum[Max(restored)]]
RestoredFailures(restored) ==
    IF restored = {} THEN 0 ELSE FailureThreshold[Max(restored)]

\* Two alerts with one checksum have the same configuration as far as the
\* checksum goes: both of them change, or none.
Changes == {changed \in SUBSET Alerts :
              \A a \in changed, b \in Alerts : Checksum[a] = Checksum[b] => b \in changed}

initializeStorage(changed) ==
    LET kept == RowsOfUnchangedAlerts(changed)
        restored == Restored(kept)
    IN  /\ rows' = kept
        /\ rowSuccesses' = [c \in Checksums |-> IF c \in kept THEN rowSuccesses[c] ELSE 0]
        /\ triggered' = [a \in Alerts |-> a \in restored]
        /\ numberOfSuccessesInARow' = RestoredSuccesses(restored)
        /\ numberOfFailuresInARow' = RestoredFailures(restored)

\* The process may end between any two steps of the handler.
Restart ==
    /\ IF pc = "idle" THEN UNCHANGED crashes ELSE crashes < MaxCrashes /\ crashes' = crashes + 1
    /\ \E changed \in IF MayReconfigure THEN Changes ELSE {{}} :
         /\ initializeStorage(changed)
         /\ announced' = [a \in Alerts |-> announced[a] /\ a \notin changed]
         /\ sinceSent' = [a \in Alerts |-> IF a \in changed THEN MaxElapsed ELSE sinceSent[a]]
    /\ outOfStep' = outOfStep \union (IF pc \in {"persisting", "notifying"} THEN {cursor} ELSE {})
    /\ pc' = "idle"
    /\ cursor' = 1
    /\ sinceReminder' = MaxElapsed
    /\ sinceSnapshot' = MaxElapsed
    /\ UNCHANGED runVars

\* A step of the handler within one life of the process.
Handle ==
    /\ Next
    /\ outOfStep' = CASE pc = "triggering" /\ pc' = "persisting" -> outOfStep \ {cursor}
                      [] pc = "notifying" /\ pc' = "resolving" /\ announced'[cursor] ->
                           outOfStep \union {cursor}
                      [] OTHER -> outOfStep
    /\ UNCHANGED crashes

RecoveryNext == Handle \/ Restart

RecoverySpec == RecoveryInit /\ [][RecoveryNext]_recoveryVars
FairRecoverySpec == RecoverySpec /\ Fairness
-----------------------------------------------------------------------------
(* Properties *)

\* After any crash, what the process takes for triggered is an incident the
\* recipient was told of: the row is written only after the send, and a changed
\* alert does not inherit the incident of the alert it replaces.
TriggeredWasAnnounced == \A a \in Alerts : triggered[a] => announced[a]

\* A recipient is told a second time of an incident that is not closed only if a
\* crash came right between a message and its write, or a resolution was refused:
\* at all other moments the table is as good as memory.
NoSecondAnnouncement ==
    [][pc = "triggering" /\ pc' = "persisting" /\ ~triggered[cursor] =>
        (announced[cursor] => cursor \in outOfStep)]_recoveryVars

\* An endpoint that recovers for good is reported as resolved in the end, even if
\* the program is restarted after every single evaluation, and but for recipients
\* that are out of step: the successes counted so far are in the table.
IncidentsAreClosed ==
    \A a \in Alerts : Enabled[a] =>
        (<>[](failureRun = 0) => <>[](~announced[a] \/ a \in outOfStep))

\* An incident is resolved only after as many successes in a row as the alert's
\* success threshold asks for, across restarts too.
ResolvedOnlyAtThreshold ==
    [][\A a \in Alerts : pc = "resolving" /\ triggered[a] /\ ~triggered'[a] /\ pc' # "idle" =>
         successRun >= SuccessThreshold[a]]_recoveryVars
=============================================================================
