--------------------------- MODULE AlertingProofs ---------------------------
(***************************************************************************)
(* What holds of the alert handler for any number of alerts, any           *)
(* thresholds, intervals and flags, and any pattern of failing sends and   *)
(* writes.                                                                 *)
(***************************************************************************)
EXTENDS AlertRecovery, TLAPS

\* Counters and durations stay within their bound.
LEMMA BumpRange == \A n \in 0 .. MaxRun : Bump(n) \in 0 .. MaxRun
  BY ThresholdAssumption DEF Bump

LEMMA LaterRange == \A t \in 0 .. MaxElapsed : Later(t) \in 0 .. MaxElapsed
  BY IntervalAssumption DEF Later

\* The writes to the table keep its type.
LEMMA DatabaseTyping ==
  ASSUME TypeOK, NEW a \in Alerts,
         UpsertTriggeredEndpointAlert(a) \/ DeleteTriggeredEndpointAlert(a)
  PROVE  /\ rows' \subseteq Checksums
         /\ rowSuccesses' \in [Checksums -> 0 .. MaxRun]
  <1>1. Checksum[a] \in Checksums
    BY DEF Checksums
  <1>2. 0 \in 0 .. MaxRun
    BY ThresholdAssumption
  <1> QED
    BY <1>1, <1>2 DEF TypeOK, UpsertTriggeredEndpointAlert, DeleteTriggeredEndpointAlert, dbVars

-----------------------------------------------------------------------------
\* Type correctness: in particular the cursor of the loop never leaves the
\* alerts while a send or a write is under way.
THEOREM TypeCorrect == Spec => []TypeOK
<1>1. Init => TypeOK
  BY AlertCountAssumption, ThresholdAssumption, IntervalAssumption DEF Init, TypeOK, Alerts
<1>2. TypeOK /\ [Next]_vars => TypeOK'
  <2> SUFFICES ASSUME TypeOK, [Next]_vars PROVE TypeOK'
    OBVIOUS
  <2> USE AlertCountAssumption
  <2>0. /\ 0 \in 0 .. MaxRun
        /\ Bump(numberOfFailuresInARow) \in 0 .. MaxRun
        /\ Bump(numberOfSuccessesInARow) \in 0 .. MaxRun
        /\ Bump(failureRun) \in 0 .. MaxRun
        /\ Bump(successRun) \in 0 .. MaxRun
    BY BumpRange, ThresholdAssumption DEF TypeOK
  <2>1. CASE HandleFailure
    BY <2>0, <2>1 DEF HandleFailure, TypeOK, dbVars
  <2>2. CASE HandleSuccess
    BY <2>0, <2>2 DEF HandleSuccess, TypeOK, dbVars, clockVars
  <2>3. ASSUME NEW a \in Alerts, HandleAlert(a) PROVE TypeOK'
    <3>0. a \in Nat /\ a + 1 \in 1 .. AlertCount + 1 /\ a \in 1 .. AlertCount + 1
      BY DEF Alerts
    <3>1. CASE SkipTrigger(a)
      BY <3>0, <3>1 DEF SkipTrigger, AtAlert, TypeOK, epVars, dbVars, clockVars, runVars
    <3>2. CASE SendTrigger(a)
      BY <3>0, <3>2, IntervalAssumption DEF SendTrigger, AtAlert, TypeOK, epVars, dbVars, runVars
    <3>3. CASE FailToSendTrigger(a)
      BY <3>0, <3>3 DEF FailToSendTrigger, AtAlert, TypeOK, epVars, dbVars, clockVars, runVars
    <3>4. CASE PersistTrigger(a)
      BY <3>0, <3>4, DatabaseTyping DEF PersistTrigger, AtAlert, TypeOK, epVars, clockVars, runVars
    <3>5. CASE SkipResolve(a)
      BY <3>0, <3>5 DEF SkipResolve, AtAlert, TypeOK, epVars, dbVars, clockVars, runVars
    <3>6. CASE PersistSuccesses(a)
      BY <3>0, <3>6, DatabaseTyping DEF PersistSuccesses, AtAlert, TypeOK, epVars, clockVars, runVars
    <3>7. CASE Resolve(a)
      <4>1. rows' \subseteq Checksums /\ rowSuccesses' \in [Checksums -> 0 .. MaxRun]
        BY <3>7, DatabaseTyping DEF Resolve
      <4> QED
        BY <3>0, <3>7, <4>1 DEF Resolve, AtAlert, TypeOK, epVars, clockVars, runVars
    <3>8. CASE SendResolved(a)
      BY <3>0, <3>8 DEF SendResolved, AtAlert, TypeOK, epVars, dbVars, clockVars, runVars
    <3>9. CASE FailToSendResolved(a)
      BY <3>0, <3>9 DEF FailToSendResolved, AtAlert, TypeOK, epVars, dbVars, clockVars, runVars
    <3> QED
      BY <2>3, <3>1, <3>2, <3>3, <3>4, <3>5, <3>6, <3>7, <3>8, <3>9 DEF HandleAlert
  <2>4. CASE FinishTriggering
    BY SMTT(60), <2>4, IntervalAssumption DEF FinishTriggering, TypeOK, epVars, dbVars, runVars, Alerts
  <2>5. CASE FinishResolving
    BY SMTT(30), <2>5, ThresholdAssumption DEF FinishResolving, TypeOK, clockVars, dbVars, runVars, Alerts
  <2>6. CASE Tick
    BY <2>6, LaterRange DEF Tick, TypeOK, epVars, dbVars, runVars
  <2>7. CASE UNCHANGED vars
    BY <2>7 DEF TypeOK, vars, epVars, clockVars, dbVars, runVars
  <2> QED
    BY <2>1, <2>2, <2>3, <2>4, <2>5, <2>6, <2>7 DEF Next, HandleAlerting
<1> QED
  BY <1>1, <1>2, PTL DEF Spec
-----------------------------------------------------------------------------
(***************************************************************************)
(* The counters on the endpoint are the runs of outcomes as observed,      *)
(* except for the failures while a success is being handled: they are      *)
(* reset after the loop only.                                              *)
(***************************************************************************)
RunsCounted ==
    /\ pc \in {"idle", "triggering", "persisting", "resolving", "notifying"}
    /\ numberOfSuccessesInARow = successRun
    /\ pc \in {"idle", "triggering", "persisting"} => numberOfFailuresInARow = failureRun
    /\ pc \in {"resolving", "notifying"} => failureRun = 0
    /\ pc \in {"triggering", "persisting"} => successRun = 0

\* The steps on one alert move between the stages of the loop of one kind, and
\* leave the counters and the runs alone.
LEMMA AlertStepFrame ==
  ASSUME NEW a \in Alerts, HandleAlert(a)
  PROVE  /\ UNCHANGED <<epVars, runVars>>
         /\ \/ pc \in {"triggering", "persisting"} /\ pc' \in {"triggering", "persisting"}
            \/ pc \in {"resolving", "notifying"} /\ pc' \in {"resolving", "notifying"}
  <1>1. CASE SkipTrigger(a) \/ SendTrigger(a) \/ FailToSendTrigger(a) \/ PersistTrigger(a)
    BY <1>1 DEF SkipTrigger, SendTrigger, FailToSendTrigger, PersistTrigger, AtAlert
  <1>2. CASE SkipResolve(a) \/ PersistSuccesses(a) \/ SendResolved(a) \/ FailToSendResolved(a)
    BY <1>2 DEF SkipResolve, PersistSuccesses, SendResolved, FailToSendResolved, AtAlert
  <1>3. CASE Resolve(a)
    BY <1>3 DEF Resolve, AtAlert
  <1> QED
    BY <1>1, <1>2, <1>3 DEF HandleAlert

LEMMA RunsCountedStep == RunsCounted /\ [Next]_vars => RunsCounted'
  <1> SUFFICES ASSUME RunsCounted, [Next]_vars PROVE RunsCounted'
    OBVIOUS
  <1>1. CASE HandleFailure
    BY <1>1 DEF HandleFailure, RunsCounted
  <1>2. CASE HandleSuccess
    BY <1>2 DEF HandleSuccess, RunsCounted
  <1>3. ASSUME NEW a \in Alerts, HandleAlert(a) PROVE RunsCounted'
    BY <1>3, AlertStepFrame DEF RunsCounted, epVars, runVars
  <1>4. CASE FinishTriggering
    BY <1>4 DEF FinishTriggering, AtAlert, RunsCounted, epVars, runVars
  <1>5. CASE FinishResolving
    BY <1>5 DEF FinishResolving, AtAlert, RunsCounted, epVars, runVars
  <1>6. CASE Tick \/ UNCHANGED vars
    BY <1>6 DEF Tick, RunsCounted, vars, epVars, runVars
  <1> QED
    BY <1>1, <1>2, <1>3, <1>4, <1>5, <1>6 DEF Next, HandleAlerting

\* The counters are right in every reachable state.
THEOREM CountersAreRuns == Spec => []RunsCounted
<1>1. Init => RunsCounted
  BY DEF Init, RunsCounted
<1> QED
  BY <1>1, RunsCountedStep, PTL DEF Spec

-----------------------------------------------------------------------------
\* The handler implements Incident: an alert of any endpoint opens and closes
\* its incident only at the thresholds the program documents.
THEOREM HandlerImplementsIncident == Spec => ImplementsIncident
<1>1. Init => I!Init
  BY DEF Init, I!Init
<1>2. TypeOK /\ RunsCounted /\ [Next]_vars => [I!Next]_(I!vars)
  <2> SUFFICES ASSUME TypeOK, RunsCounted, [Next]_vars PROVE [I!Next]_(I!vars)
    OBVIOUS
  <2>1. CASE HandleFailure
    <3>1. I!Observe(FALSE)
      BY <2>1 DEF HandleFailure, I!Observe, I!Longer, Bump
    <3> QED
      BY <3>1 DEF I!Next
  <2>2. CASE HandleSuccess
    <3>1. I!Observe(TRUE)
      BY <2>2 DEF HandleSuccess, I!Observe, I!Longer, Bump
    <3> QED
      BY <3>1 DEF I!Next
  <2>3. ASSUME NEW a \in Alerts, HandleAlert(a) PROVE [I!Next]_(I!vars)
    <3>1. CASE SendTrigger(a)
      <4>1. failureRun >= FailureThreshold[a]
        <5>1. numberOfFailuresInARow = failureRun
          BY <3>1 DEF SendTrigger, AtAlert, RunsCounted
        <5> QED
          BY <3>1, <5>1 DEF SendTrigger, MustNotify, ReachesFailureThreshold
      <4>2. I!Open(a)
        BY <3>1, <4>1 DEF SendTrigger, I!Open, runVars
      <4> QED
        BY <4>2 DEF I!Next
    <3>2. CASE Resolve(a)
      <4>1. successRun >= SuccessThreshold[a]
        <5>1. ~(SuccessThreshold[a] > numberOfSuccessesInARow)
          BY <3>2 DEF Resolve, IsStillBelowSuccessThreshold
        <5>2. SuccessThreshold[a] \in Nat /\ numberOfSuccessesInARow \in Nat
          BY ThresholdAssumption DEF TypeOK
        <5>3. numberOfSuccessesInARow = successRun
          BY DEF RunsCounted
        <5> QED
          BY <5>1, <5>2, <5>3
      <4>2. I!Close(a)
        BY <3>2, <4>1 DEF Resolve, I!Close, runVars
      <4> QED
        BY <4>2 DEF I!Next
    <3>3. CASE SkipTrigger(a) \/ FailToSendTrigger(a) \/ PersistTrigger(a) \/ SkipResolve(a)
               \/ PersistSuccesses(a) \/ SendResolved(a) \/ FailToSendResolved(a)
      BY <3>3 DEF SkipTrigger, FailToSendTrigger, PersistTrigger, SkipResolve, PersistSuccesses,
                  SendResolved, FailToSendResolved, I!vars, runVars
    <3> QED
      BY <2>3, <3>1, <3>2, <3>3 DEF HandleAlert
  <2>4. CASE FinishTriggering \/ FinishResolving \/ Tick \/ UNCHANGED vars
    BY <2>4 DEF FinishTriggering, FinishResolving, Tick, vars, I!vars, runVars
  <2> QED
    BY <2>1, <2>2, <2>3, <2>4 DEF Next, HandleAlerting
<1> QED
  BY <1>1, <1>2, TypeCorrect, CountersAreRuns, PTL DEF Spec, ImplementsIncident, I!Spec
-----------------------------------------------------------------------------
\* RecipientInStep is not inductive by itself: that the recipient is told of a
\* resolution only when the alert is no longer triggered has to be known too.
RecipientInv ==
    /\ RecipientInStep
    /\ pc = "notifying" => ~triggered[cursor]

\* An alert counts as triggered only when its recipient was told, and the two
\* views differ only while a resolution is on its way, unless sends fail.
THEOREM RecipientStaysInStep == Spec => []RecipientInStep
<1>1. Init => RecipientInv
  BY DEF Init, RecipientInv, RecipientInStep
<1>2. TypeOK /\ RecipientInv /\ [Next]_vars => RecipientInv'
  <2> SUFFICES ASSUME TypeOK, RecipientInv, [Next]_vars PROVE RecipientInv'
    OBVIOUS
  <2>1. CASE HandleAlerting
    BY <2>1 DEF HandleAlerting, HandleFailure, HandleSuccess, RecipientInv, RecipientInStep, AtAlert
  <2>2. ASSUME NEW a \in Alerts, HandleAlert(a) PROVE RecipientInv'
    <3>1. CASE SkipTrigger(a) \/ FailToSendTrigger(a) \/ PersistTrigger(a) \/ SkipResolve(a) \/ PersistSuccesses(a)
      BY <3>1 DEF SkipTrigger, FailToSendTrigger, PersistTrigger, SkipResolve, PersistSuccesses,
                  RecipientInv, RecipientInStep, AtAlert
    <3>2. CASE SendTrigger(a)
      BY <3>2 DEF SendTrigger, RecipientInv, RecipientInStep, AtAlert, TypeOK
    <3>3. CASE Resolve(a)
      BY <3>3 DEF Resolve, RecipientInv, RecipientInStep, AtAlert, TypeOK
    <3>4. CASE SendResolved(a) \/ FailToSendResolved(a)
      BY <3>4 DEF SendResolved, FailToSendResolved, RecipientInv, RecipientInStep, AtAlert, TypeOK
    <3> QED
      BY <2>2, <3>1, <3>2, <3>3, <3>4 DEF HandleAlert
  <2>3. CASE FinishTriggering \/ FinishResolving \/ Tick \/ UNCHANGED vars
    BY <2>3 DEF FinishTriggering, FinishResolving, Tick, vars, RecipientInv, RecipientInStep, AtAlert
  <2> QED
    BY <2>1, <2>2, <2>3 DEF Next
<1>3. RecipientInv => RecipientInStep
  BY DEF RecipientInv
<1> QED
  BY <1>1, <1>2, <1>3, TypeCorrect, PTL DEF Spec
-----------------------------------------------------------------------------
(***************************************************************************)
(* No reminder comes too soon.  The handler compares with a copy of the    *)
(* time of the endpoint's last reminder taken before the loop; the copy is *)
(* never older than the notifications of the alerts the loop has not come  *)
(* to yet, and that is what makes the comparison right for each one.       *)
(***************************************************************************)
SnapshotInv ==
    /\ \A a \in Alerts : sinceReminder <= sinceSent[a]
    /\ pc = "triggering" => \A a \in Alerts : a >= cursor => sinceSnapshot <= sinceSent[a]
    /\ pc = "persisting" => \A a \in Alerts : a > cursor => sinceSnapshot <= sinceSent[a]

LEMMA LaterMonotone ==
  \A s, t \in 0 .. MaxElapsed : s <= t => Later(s) <= Later(t)
  BY IntervalAssumption DEF Later

LEMMA SnapshotStep == TypeOK /\ SnapshotInv /\ [Next]_vars => SnapshotInv'
  <1> SUFFICES ASSUME TypeOK, SnapshotInv, [Next]_vars PROVE SnapshotInv'
    OBVIOUS
  <1>0. /\ sinceReminder \in Nat /\ sinceSnapshot \in Nat /\ cursor \in Nat
        /\ \A a \in Alerts : a \in Nat /\ sinceSent[a] \in Nat
    BY IntervalAssumption, AlertCountAssumption DEF TypeOK, Alerts
  <1>1. CASE HandleAlerting
    BY <1>0, <1>1 DEF HandleAlerting, HandleFailure, HandleSuccess, SnapshotInv, clockVars
  <1>2. ASSUME NEW a \in Alerts, HandleAlert(a) PROVE SnapshotInv'
    <2>1. CASE SkipTrigger(a) \/ FailToSendTrigger(a)
      BY <1>0, <2>1 DEF SkipTrigger, FailToSendTrigger, AtAlert, SnapshotInv, clockVars
    <2>2. CASE SendTrigger(a)
      <3>1. \A b \in Alerts : sinceSent'[b] = IF b = a THEN 0 ELSE sinceSent[b]
        BY <2>2 DEF SendTrigger, TypeOK
      <3> QED
        BY <1>0, <2>2, <3>1 DEF SendTrigger, AtAlert, SnapshotInv
    <2>3. CASE PersistTrigger(a)
      BY <1>0, <2>3 DEF PersistTrigger, AtAlert, SnapshotInv, clockVars
    <2>4. CASE SkipResolve(a) \/ PersistSuccesses(a) \/ Resolve(a) \/ SendResolved(a) \/ FailToSendResolved(a)
      BY <2>4 DEF SkipResolve, PersistSuccesses, Resolve, SendResolved, FailToSendResolved,
                  AtAlert, SnapshotInv, clockVars
    <2> QED
      BY <1>2, <2>1, <2>2, <2>3, <2>4 DEF HandleAlert
  <1>3. CASE FinishTriggering \/ FinishResolving \/ UNCHANGED vars
    BY <1>3 DEF FinishTriggering, FinishResolving, SnapshotInv, vars, clockVars
  <1>4. CASE Tick
    BY <1>4, LaterMonotone DEF Tick, SnapshotInv, TypeOK
  <1> QED
    BY <1>1, <1>2, <1>3, <1>4 DEF Next

\* A reminder is never sent sooner than the alert's interval after the alert's
\* own last notification.
THEOREM RemindersAreSpaced == Spec => ReminderSpacing
<1>1. Init => SnapshotInv
  BY IntervalAssumption DEF Init, SnapshotInv
<1>2. TypeOK /\ SnapshotInv /\ [Next]_vars =>
        [pc = "triggering" /\ pc' = "persisting" /\ triggered[cursor] =>
           /\ MinimumReminderInterval[cursor] > 0
           /\ sinceSent[cursor] >= MinimumReminderInterval[cursor]]_vars
  <2> SUFFICES ASSUME TypeOK, SnapshotInv, [Next]_vars,
                      pc = "triggering", pc' = "persisting", triggered[cursor]
               PROVE  /\ MinimumReminderInterval[cursor] > 0
                      /\ sinceSent[cursor] >= MinimumReminderInterval[cursor]
    OBVIOUS
  <2>1. PICK a \in Alerts : SendTrigger(a)
    BY DEF Next, HandleAlerting, HandleFailure, HandleSuccess, HandleAlert, SkipTrigger,
           FailToSendTrigger, PersistTrigger, SkipResolve, PersistSuccesses, Resolve, SendResolved,
           FailToSendResolved, FinishTriggering, FinishResolving, Tick, AtAlert, vars
  <2>2. cursor = a /\ ReminderIsDue(a)
    BY <2>1 DEF SendTrigger, AtAlert, MustNotify
  <2>3. /\ MinimumReminderInterval[a] > 0
        /\ sinceSnapshot >= MinimumReminderInterval[a]
    BY <2>2 DEF ReminderIsDue
  <2>4. sinceSnapshot <= sinceSent[a]
    BY <2>2, AlertCountAssumption DEF SnapshotInv, Alerts
  <2>5. sinceSnapshot \in Nat /\ sinceSent[a] \in Nat /\ MinimumReminderInterval[a] \in Nat
    BY IntervalAssumption DEF TypeOK
  <2> QED
    BY <2>2, <2>3, <2>4, <2>5
<1> QED
  BY <1>1, <1>2, SnapshotStep, TypeCorrect, PTL DEF Spec, ReminderSpacing
-----------------------------------------------------------------------------
(***************************************************************************)
(* Promptness.  While the loop runs, the alerts behind its cursor are the  *)
(* ones that already agree with the runs.                                  *)
(***************************************************************************)
Visited(at, pending, a) == \/ pc = "idle"
                           \/ pc = at /\ a < cursor
                           \/ pc = pending /\ a <= cursor

PromptInv ==
    \A a \in Alerts : Enabled[a] =>
        /\ Visited("triggering", "persisting", a) /\ HasProvider[a] /\ ~ProviderMayFail[a] =>
             (failureRun >= FailureThreshold[a] => triggered[a])
        /\ Visited("resolving", "notifying", a) =>
             (successRun >= SuccessThreshold[a] => ~triggered[a])

LEMMA PromptStep == TypeOK /\ RunsCounted /\ PromptInv /\ [Next]_vars => PromptInv'
  <1> SUFFICES ASSUME TypeOK, RunsCounted, PromptInv, [Next]_vars PROVE PromptInv'
    OBVIOUS
  <1>0. /\ cursor \in Nat /\ failureRun \in Nat /\ successRun \in Nat
        /\ AlertCount \in Nat
        /\ \A a \in Alerts : /\ a \in Nat /\ 1 <= a /\ a <= AlertCount
                             /\ FailureThreshold[a] \in Nat /\ FailureThreshold[a] > 0
                             /\ SuccessThreshold[a] \in Nat /\ SuccessThreshold[a] > 0
    BY SMTT(60), ThresholdAssumption, AlertCountAssumption DEF TypeOK, Alerts
  <1>1. CASE HandleFailure
    BY <1>0, <1>1 DEF HandleFailure, PromptInv, Visited
  <1>2. CASE HandleSuccess
    BY <1>0, <1>2 DEF HandleSuccess, PromptInv, Visited
  <1>3. ASSUME NEW a \in Alerts, HandleAlert(a) PROVE PromptInv'
    <2>1. CASE SkipTrigger(a)
      <3>1. Enabled[a] /\ failureRun >= FailureThreshold[a] /\ HasProvider[a] => triggered[a]
        BY <1>0, <2>1 DEF SkipTrigger, AtAlert, MustNotify, ReachesFailureThreshold, RunsCounted
      <3> QED
        BY <1>0, <2>1, <3>1 DEF SkipTrigger, AtAlert, PromptInv, Visited, runVars
    <2>2. CASE SendTrigger(a)
      BY <1>0, <2>2 DEF SendTrigger, AtAlert, PromptInv, Visited, runVars, TypeOK, RunsCounted
    <2>3. CASE FailToSendTrigger(a)
      BY <1>0, <2>3 DEF FailToSendTrigger, AtAlert, PromptInv, Visited, runVars
    <2>4. CASE PersistTrigger(a)
      BY <1>0, <2>4 DEF PersistTrigger, AtAlert, PromptInv, Visited, runVars
    <2>5. CASE SkipResolve(a)
      BY <1>0, <2>5 DEF SkipResolve, AtAlert, PromptInv, Visited, runVars
    <2>6. CASE PersistSuccesses(a)
      <3>1. successRun < SuccessThreshold[a]
        BY <1>0, <2>6 DEF PersistSuccesses, IsStillBelowSuccessThreshold, RunsCounted
      <3> QED
        BY <1>0, <2>6, <3>1 DEF PersistSuccesses, AtAlert, PromptInv, Visited, runVars
    <2>7. CASE Resolve(a)
      <3>1. ~triggered'[a] /\ \A b \in Alerts : b # a => triggered'[b] = triggered[b]
        BY <2>7 DEF Resolve, TypeOK
      <3> QED
        BY <1>0, <2>7, <3>1 DEF Resolve, AtAlert, PromptInv, Visited, runVars, RunsCounted
    <2>8. CASE SendResolved(a) \/ FailToSendResolved(a)
      BY <1>0, <2>8 DEF SendResolved, FailToSendResolved, AtAlert, PromptInv, Visited, runVars
    <2> QED
      BY <1>3, <2>1, <2>2, <2>3, <2>4, <2>5, <2>6, <2>7, <2>8 DEF HandleAlert
  <1>4. CASE FinishTriggering
    BY <1>0, <1>4 DEF FinishTriggering, AtAlert, PromptInv, Visited, runVars, RunsCounted
  <1>5. CASE FinishResolving
    BY <1>0, <1>5 DEF FinishResolving, AtAlert, PromptInv, Visited, runVars, RunsCounted
  <1>6. CASE Tick \/ UNCHANGED vars
    BY <1>6 DEF Tick, vars, PromptInv, Visited, runVars
  <1> QED
    BY <1>1, <1>2, <1>3, <1>4, <1>5, <1>6 DEF Next, HandleAlerting

\* No alert is late: whenever the handler returns, every alert agrees with the
\* runs of outcomes, whatever the writes and the sends of other alerts did.
THEOREM AlertsArePrompt == Spec => []AlertIsPrompt
<1>1. Init => PromptInv
  BY ThresholdAssumption DEF Init, PromptInv, Visited
<1>2. PromptInv => AlertIsPrompt
  BY DEF PromptInv, Visited, AlertIsPrompt
<1> QED
  BY <1>1, <1>2, PromptStep, TypeCorrect, CountersAreRuns, PTL DEF Spec
-----------------------------------------------------------------------------
(* Crashes at any moment never make the process believe in an incident     *)
(* that nobody was told of, nor announce one again that it knows of,       *)
(* provided that no two alerts of the endpoint share a checksum and that   *)
(* the store does not lose writes.                                         *)

DistinctChecksums == \A a, b \in Alerts : Checksum[a] = Checksum[b] => a = b

\* What memory and table say is known to the recipient, and the row is gone
\* before the resolution is sent.
RecoveryInv ==
    /\ triggered \in [Alerts -> BOOLEAN]
    /\ announced \in [Alerts -> BOOLEAN]
    /\ \A a \in Alerts : triggered[a] => announced[a]
    /\ \A a \in Alerts : Checksum[a] \in rows => announced[a]
    /\ pc = "persisting" => triggered[cursor]
    /\ pc = "notifying" => ~triggered[cursor] /\ Checksum[cursor] \notin rows

LEMMA RecoveryInvHandler ==
  ASSUME RecoveryInv, Next, DistinctChecksums, ~DatabaseMayFail
  PROVE  RecoveryInv'
  <1>1. CASE HandleAlerting
    BY <1>1 DEF HandleAlerting, HandleFailure, HandleSuccess, RecoveryInv, dbVars
  <1>2. ASSUME NEW a \in Alerts, HandleAlert(a) PROVE RecoveryInv'
    <2>1. CASE SkipTrigger(a) \/ FailToSendTrigger(a) \/ SkipResolve(a)
      BY <2>1 DEF SkipTrigger, FailToSendTrigger, SkipResolve, AtAlert, RecoveryInv, dbVars
    <2>2. CASE SendTrigger(a)
      BY <2>2 DEF SendTrigger, AtAlert, RecoveryInv, dbVars
    <2>3. CASE PersistTrigger(a)
      BY <2>3 DEF PersistTrigger, UpsertTriggeredEndpointAlert, AtAlert, RecoveryInv, DistinctChecksums
    <2>4. CASE PersistSuccesses(a)
      BY <2>4 DEF PersistSuccesses, UpsertTriggeredEndpointAlert, AtAlert, RecoveryInv, DistinctChecksums
    <2>5. CASE Resolve(a)
      <3>1. rows' = rows \ {Checksum[a]}
        BY <2>5 DEF Resolve, DeleteTriggeredEndpointAlert
      <3>2. \A b \in Alerts : Checksum[b] \in rows' => b # a /\ Checksum[b] \in rows
        BY <3>1
      <3>3. cursor = a /\ pc = "resolving" /\ triggered' = [triggered EXCEPT ![a] = FALSE]
        BY <2>5 DEF Resolve, AtAlert
      <3>4. CASE MustSendResolved(a)
        BY <2>5, <3>1, <3>2, <3>3, <3>4 DEF Resolve, RecoveryInv
      <3>5. CASE ~MustSendResolved(a)
        BY <2>5, <3>2, <3>3, <3>5 DEF Resolve, RecoveryInv
      <3> QED
        BY <3>4, <3>5
    <2>6. CASE SendResolved(a)
      BY <2>6 DEF SendResolved, AtAlert, RecoveryInv, DistinctChecksums, dbVars
    <2>7. CASE FailToSendResolved(a)
      BY <2>7 DEF FailToSendResolved, AtAlert, RecoveryInv, dbVars
    <2> QED
      BY <1>2, <2>1, <2>2, <2>3, <2>4, <2>5, <2>6, <2>7 DEF HandleAlert
  <1>3. CASE FinishTriggering \/ FinishResolving \/ Tick
    BY <1>3 DEF FinishTriggering, FinishResolving, Tick, RecoveryInv, dbVars
  <1> QED
    BY <1>1, <1>2, <1>3 DEF Next

LEMMA RecoveryInvRestart ==
  ASSUME RecoveryInv, Restart
  PROVE  RecoveryInv'
  <1>1. PICK changed \in Changes \union {{}} :
          /\ initializeStorage(changed)
          /\ announced' = [a \in Alerts |-> announced[a] /\ a \notin changed]
    BY DEF Restart
  <1>2. \A a \in changed, b \in Alerts : Checksum[a] = Checksum[b] => b \in changed
    BY <1>1 DEF Changes
  <1>3. /\ rows' = RowsOfUnchangedAlerts(changed)
        /\ triggered' = [a \in Alerts |-> a \in Restored(RowsOfUnchangedAlerts(changed))]
    BY <1>1 DEF initializeStorage
  <1>4. \A a \in Alerts : Checksum[a] \in rows' => announced[a] /\ a \notin changed
    <2> SUFFICES ASSUME NEW a \in Alerts, Checksum[a] \in rows'
                 PROVE  announced[a] /\ a \notin changed
      OBVIOUS
    <2>1. Checksum[a] \in rows /\ \E b \in Alerts : b \notin changed /\ Checksum[b] = Checksum[a]
      BY <1>3 DEF RowsOfUnchangedAlerts
    <2> QED
      BY <1>2, <2>1 DEF RecoveryInv
  <1>5. \A a \in Alerts : triggered'[a] => Checksum[a] \in rows'
    BY <1>3 DEF Restored
  <1>6. triggered' \in [Alerts -> BOOLEAN] /\ announced' \in [Alerts -> BOOLEAN]
    BY <1>1, <1>3 DEF RecoveryInv
  <1>7. pc' = "idle"
    BY DEF Restart
  <1> QED
    BY <1>1, <1>4, <1>5, <1>6, <1>7 DEF RecoveryInv

\* After any sequence of outcomes, refused sends, crashes and changes of the
\* configuration, an alert taken for triggered was announced.
THEOREM CrashesInventNoIncident ==
  ASSUME DistinctChecksums, ~DatabaseMayFail
  PROVE  RecoverySpec => []TriggeredWasAnnounced
<1>1. RecoveryInit => RecoveryInv
  BY DEF RecoveryInit, Init, RecoveryInv
<1>2. RecoveryInv /\ [RecoveryNext]_recoveryVars => RecoveryInv'
  <2>1. RecoveryInv /\ UNCHANGED recoveryVars => RecoveryInv'
    BY DEF RecoveryInv, recoveryVars, vars, dbVars
  <2> QED
    BY <2>1, RecoveryInvHandler, RecoveryInvRestart DEF RecoveryNext, Handle
<1>3. RecoveryInv => TriggeredWasAnnounced
  BY DEF RecoveryInv, TriggeredWasAnnounced
<1> QED
  BY <1>1, <1>2, <1>3, PTL DEF RecoverySpec

-----------------------------------------------------------------------------
(* The table and memory. *)

\* Memory and table agree but for the alert whose write is under way, and an
\* incident that neither of them knows of is one whose recipient is out of step
\* or about to be told.
TableInv ==
    /\ rows \subseteq Checksums
    /\ \A a \in Alerts : Checksum[a] \in rows => triggered[a]
    /\ \A a \in Alerts : triggered[a] => Checksum[a] \in rows \/ AtAlert("persisting", a)
    /\ \A a \in Alerts : announced[a] => Enabled[a]
    /\ \A a \in Alerts : announced[a] /\ ~triggered[a] => a \in outOfStep \/ AtAlert("notifying", a)

LEMMA TableInvHandler ==
  ASSUME RecoveryInv, TableInv, Handle, DistinctChecksums, ~DatabaseMayFail
  PROVE  TableInv'
  <1> USE DEF RecoveryInv, TableInv
  <1>0. /\ pc = "triggering" /\ pc' = "persisting" => outOfStep' = outOfStep \ {cursor}
        /\ pc = "notifying" /\ pc' = "resolving" /\ announced'[cursor] =>
             outOfStep' = outOfStep \union {cursor}
        /\ ~(pc = "triggering" /\ pc' = "persisting") => outOfStep \subseteq outOfStep'
    BY DEF Handle
  <1>1. CASE HandleAlerting
    BY <1>0, <1>1 DEF HandleAlerting, HandleFailure, HandleSuccess, AtAlert, dbVars
  <1>2. ASSUME NEW a \in Alerts, HandleAlert(a) PROVE TableInv'
    <2>1. CASE SkipTrigger(a) \/ FailToSendTrigger(a) \/ SkipResolve(a)
      BY <1>0, <2>1 DEF SkipTrigger, FailToSendTrigger, SkipResolve, AtAlert, dbVars
    <2>2. CASE SendTrigger(a)
      <3>1. /\ pc = "triggering" /\ pc' = "persisting" /\ cursor = a /\ cursor' = a /\ Enabled[a]
            /\ triggered' = [triggered EXCEPT ![a] = TRUE] /\ announced' = [announced EXCEPT ![a] = TRUE]
            /\ rows' = rows
        BY <2>2 DEF SendTrigger, AtAlert, MustNotify, ReachesFailureThreshold, dbVars
      <3> QED
        BY <1>0, <3>1 DEF AtAlert
    <2>3. CASE PersistTrigger(a)
      <3>1. /\ pc = "persisting" /\ pc' = "triggering" /\ cursor = a /\ rows' = rows \union {Checksum[a]}
            /\ UNCHANGED <<triggered, announced>> /\ triggered[a]
        BY <2>3 DEF PersistTrigger, UpsertTriggeredEndpointAlert, AtAlert
      <3> QED
        BY <1>0, <3>1 DEF AtAlert, DistinctChecksums, Checksums
    <2>4. CASE PersistSuccesses(a)
      <3>1. /\ pc = "resolving" /\ pc' = "resolving" /\ rows' = rows \union {Checksum[a]}
            /\ UNCHANGED <<triggered, announced>> /\ triggered[a]
        BY <2>4 DEF PersistSuccesses, UpsertTriggeredEndpointAlert, AtAlert
      <3> QED
        BY <1>0, <3>1 DEF AtAlert, DistinctChecksums, Checksums
    <2>5. CASE Resolve(a)
      <3>1. /\ pc = "resolving" /\ cursor = a /\ rows' = rows \ {Checksum[a]}
            /\ triggered' = [triggered EXCEPT ![a] = FALSE] /\ outOfStep \subseteq outOfStep'
            /\ \/ pc' = "notifying" /\ UNCHANGED <<cursor, announced>>
               \/ pc' = "resolving" /\ announced' = [announced EXCEPT ![a] = FALSE]
        BY <1>0, <2>5 DEF Resolve, DeleteTriggeredEndpointAlert, AtAlert
      <3>2. \A b \in Alerts : Checksum[b] \in rows' => triggered'[b]
        BY <3>1
      <3>3. \A b \in Alerts : triggered'[b] => Checksum[b] \in rows'
        BY <3>1 DEF AtAlert, DistinctChecksums
      <3>4. \A b \in Alerts : announced'[b] /\ ~triggered'[b] => b \in outOfStep' \/ AtAlert("notifying", b)'
        BY <3>1 DEF AtAlert
      <3> QED
        BY <3>1, <3>2, <3>3, <3>4
    <2>6. CASE SendResolved(a)
      BY <1>0, <2>6 DEF SendResolved, AtAlert, dbVars
    <2>7. CASE FailToSendResolved(a)
      BY <1>0, <2>7 DEF FailToSendResolved, AtAlert, dbVars
    <2> QED
      BY <1>2, <2>1, <2>2, <2>3, <2>4, <2>5, <2>6, <2>7 DEF HandleAlert
  <1>3. CASE FinishTriggering \/ FinishResolving \/ Tick
    BY <1>0, <1>3 DEF FinishTriggering, FinishResolving, Tick, AtAlert, dbVars
  <1> QED
    BY <1>1, <1>2, <1>3 DEF Handle, Next

LEMMA TableInvRestart ==
  ASSUME RecoveryInv, TableInv, Restart
  PROVE  TableInv'
  <1>1. PICK changed \in Changes \union {{}} :
          /\ initializeStorage(changed)
          /\ announced' = [a \in Alerts |-> announced[a] /\ a \notin changed]
    BY DEF Restart
  <1>2. /\ rows' = RowsOfUnchangedAlerts(changed)
        /\ triggered' = [a \in Alerts |-> a \in Restored(rows')]
    BY <1>1 DEF initializeStorage
  <1>3. /\ rows' \subseteq Checksums
        /\ \A a \in Alerts : triggered'[a] <=> Checksum[a] \in rows'
    BY <1>2 DEF TableInv, RowsOfUnchangedAlerts, Restored
  <1>4. /\ outOfStep \subseteq outOfStep'
        /\ pc \in {"persisting", "notifying"} => cursor \in outOfStep'
    BY DEF Restart
  <1>5. ASSUME NEW a \in Alerts, announced'[a] PROVE Enabled[a] /\ (~triggered'[a] => a \in outOfStep')
    <2>1. announced[a] /\ a \notin changed /\ Enabled[a]
      BY <1>1, <1>5 DEF TableInv
    <2>2. ASSUME ~triggered'[a] PROVE a \in outOfStep'
      <3>1. Checksum[a] \notin rows
        BY <1>2, <1>3, <2>1, <2>2 DEF RowsOfUnchangedAlerts
      <3> QED
        BY <1>4, <2>1, <3>1 DEF TableInv, AtAlert
    <2> QED
      BY <2>1, <2>2
  <1> QED
    BY <1>3, <1>5 DEF TableInv

LEMMA TableInvHolds ==
  ASSUME DistinctChecksums, ~DatabaseMayFail
  PROVE  RecoverySpec => [](RecoveryInv /\ TableInv)
<1>1. RecoveryInit => RecoveryInv /\ TableInv
  BY DEF RecoveryInit, Init, RecoveryInv, TableInv
<1>2. RecoveryInv /\ TableInv /\ [RecoveryNext]_recoveryVars => RecoveryInv' /\ TableInv'
  <2>1. RecoveryInv /\ TableInv /\ UNCHANGED recoveryVars => RecoveryInv' /\ TableInv'
    BY DEF RecoveryInv, TableInv, AtAlert, recoveryVars, vars, dbVars
  <2> QED
    BY <2>1, RecoveryInvHandler, RecoveryInvRestart, TableInvHandler, TableInvRestart DEF RecoveryNext, Handle
<1> QED
  BY <1>1, <1>2, PTL DEF RecoverySpec

(* RowsMatchTriggered: whenever the handler is at rest the table holds exactly
   the alerts that memory takes for triggered, after crashes, restarts and
   changes of the configuration too. *)
THEOREM TableAlwaysMatchesMemory ==
  ASSUME DistinctChecksums
  PROVE  RecoverySpec => []RowsMatchTriggered
<1>1. CASE DatabaseMayFail
  <2>1. RowsMatchTriggered
    BY <1>1 DEF RowsMatchTriggered
  <2> QED
    BY <2>1, PTL
<1>2. CASE ~DatabaseMayFail
  <2>1. TableInv => RowsMatchTriggered
    <3> SUFFICES ASSUME TableInv, pc = "idle"
                 PROVE  rows = {Checksum[a] : a \in {b \in Alerts : triggered[b]}}
      BY DEF RowsMatchTriggered
    <3>1. \A a \in Alerts : triggered[a] <=> Checksum[a] \in rows
      BY DEF TableInv, AtAlert
    <3> QED
      BY <3>1 DEF TableInv, Checksums
  <2> QED
    BY <1>2, <2>1, TableInvHolds, PTL
<1> QED
  BY <1>1, <1>2

(* NoSecondAnnouncement: the first message of an incident is sent again to a
   recipient that knows of it only if a crash came between a message and its
   write, or the resolution was refused. *)
THEOREM NothingIsAnnouncedTwice ==
  ASSUME DistinctChecksums, ~DatabaseMayFail
  PROVE  RecoverySpec => NoSecondAnnouncement
<1>1. TableInv /\ [RecoveryNext]_recoveryVars =>
        [pc = "triggering" /\ pc' = "persisting" /\ ~triggered[cursor] =>
            (announced[cursor] => cursor \in outOfStep)]_recoveryVars
  <2> SUFFICES ASSUME TableInv, RecoveryNext, pc = "triggering", pc' = "persisting",
                      ~triggered[cursor], announced[cursor]
               PROVE  cursor \in outOfStep
    OBVIOUS
  <2>1. cursor \in Alerts
    BY DEF RecoveryNext, Restart, Handle, Next, HandleAlerting, HandleFailure, HandleSuccess, HandleAlert,
       SkipTrigger, SendTrigger, FailToSendTrigger, PersistTrigger, SkipResolve, PersistSuccesses, Resolve,
       SendResolved, FailToSendResolved, FinishTriggering, FinishResolving, Tick, AtAlert
  <2> QED
    BY <2>1 DEF TableInv, AtAlert
<1> QED
  BY <1>1, TableInvHolds, PTL DEF RecoverySpec, NoSecondAnnouncement
=============================================================================
