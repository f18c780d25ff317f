-------------------------- MODULE ExternalEndpoint --------------------------
(***************************************************************************)
(* One external endpoint: its results are pushed over HTTP, and a goroutine*)
(* checks at every heartbeat interval that a result has arrived.  Every    *)
(* call, of a push or of the heartbeat, converts the external endpoint     *)
(* into an endpoint (a copy of the counters that shares the alert), stores *)
(* its result, handles alerting on the copy and writes the counters back.  *)
(* Nothing keeps two calls apart.                                          *)
(*                                                                         *)
(* Alerting has the handler in full, for one caller; here it is split      *)
(* wherever another call may come in between, and the endpoint has one     *)
(* enabled alert that has a provider.                                      *)
(***************************************************************************)
EXTENDS Naturals

CONSTANTS
    Pushers,           \* the clients that push, one request at a time each
    Heartbeat,         \* the goroutine of the heartbeat
    Interval,          \* Heartbeat.Interval in ticks of the clock, 0 for no heartbeat
    FailureThreshold,  \* Alert.FailureThreshold
    SuccessThreshold,  \* Alert.SuccessThreshold
    Reminds,           \* Alert.MinimumReminderInterval > 0
    SendOnResolved,    \* Alert.IsSendingOnResolved()
    QueryMayFail,      \* may the store fail to look for results?
    MaxRun             \* bound: counters stay at MaxRun

Callers == Pushers \union {Heartbeat}

ASSUME HeartbeatAssumption == Heartbeat \notin Pushers
ASSUME IntervalAssumption == Interval \in Nat
ASSUME ThresholdAssumption ==
    /\ MaxRun \in Nat
    /\ FailureThreshold \in 1 .. MaxRun
    /\ SuccessThreshold \in 1 .. MaxRun
ASSUME FlagAssumption == {Reminds, SendOnResolved, QueryMayFail} \subseteq BOOLEAN

VARIABLES
    numberOfFailuresInARow,  \* of the external endpoint
    numberOfSuccessesInARow, \* of the external endpoint
    triggered,               \* Alert.Triggered, shared by all copies
    row,                     \* has the alert a row in endpoint_alerts_triggered?
    call,                    \* what every caller is doing
    sinceResult,             \* age of the newest result in the store
    sinceTick,               \* time since the ticker fired
    tick,                    \* does the ticker's channel hold a tick?
    announced,               \* has the recipient an incident that is not closed?
    failureRun,              \* failures since the last success, as handled
    successRun,              \* successes since the last failure, as handled
    disturbed                \* have calls overlapped, or was a write to the table lost?

counterVars == <<numberOfFailuresInARow, numberOfSuccessesInARow>>
alertVars == <<triggered, row, announced>>
clockVars == <<sinceResult, sinceTick, tick>>
runVars == <<failureRun, successRun>>
vars == <<counterVars, alertVars, clockVars, runVars, call, disturbed>>

Counters == {"failures", "successes"}
Steps == {"idle", "acquiring", "checking", "inserting", "inserted",
          "announcing", "reminding", "persisting", "resolving", "deleting",
          "notifying", "writing"}

\* One more than the interval is older than anything the heartbeat accepts.
Ages == 0 .. Interval + 1
Older(age) == IF age < Interval + 1 THEN age + 1 ELSE age
Bump(n) == IF n < MaxRun THEN n + 1 ELSE n

\* The call's place, the result's outcome and the age of its timestamp until it is
\* stored, the counters of the copy, and which of them are still to be written back.
NoCall == [pc |-> "idle", success |-> FALSE, age |-> 0,
           failures |-> 0, successes |-> 0, unwritten |-> {}]

Calls == [pc : Steps, success : BOOLEAN, age : Ages, failures : 0 .. MaxRun,
          successes : 0 .. MaxRun, unwritten : SUBSET Counters]

At(a, where) == call[a].pc = where
Goto(a, where) == call' = [call EXCEPT ![a].pc = where]
Return(a) == call' = [call EXCEPT ![a] = NoCall]

Init ==
    /\ numberOfFailuresInARow = 0
    /\ numberOfSuccessesInARow = 0
    /\ triggered = FALSE
    /\ row = FALSE
    /\ call = [a \in Callers |-> NoCall]
    /\ sinceResult = Interval + 1
    /\ sinceTick = 0
    /\ tick = FALSE
    /\ announced = FALSE
    /\ failureRun = 0
    /\ successRun = 0
    /\ disturbed = FALSE

-----------------------------------------------------------------------------
(* The beginning of a call. *)

\* Has the call copied the counters and not yet written them back?
HasCopy(a) == call[a].pc \notin {"idle", "acquiring"}

\* Slip: the copy starts without the successes.
CopyFailuresOnly(a, where, success) ==
    call' = [call EXCEPT ![a] = [NoCall EXCEPT
                !.pc = where, !.success = success, !.failures = numberOfFailuresInARow]]

\* ExternalEndpoint.ToEndpoint: the counters are copied, LastReminderSent is not.
ToEndpoint(a, where, success) ==
    call' = [call EXCEPT ![a] = [NoCall EXCEPT
                !.pc = where, !.success = success,
                !.failures = numberOfFailuresInARow,
                !.successes = numberOfSuccessesInARow]]

NoteOverlap(a) ==
    disturbed' = (disturbed \/ \E b \in Callers \ {a} : HasCopy(b))

\* A request with a valid token arrives; its result gets its timestamp.
Push(p, success) ==
    /\ At(p, "idle")
    /\ ToEndpoint(p, "inserting", success)
    /\ NoteOverlap(p)
    /\ UNCHANGED <<counterVars, alertVars, clockVars, runVars>>

\* The heartbeat goroutine takes the tick and asks for a slot of the semaphore.
TakeTick ==
    /\ At(Heartbeat, "idle")
    /\ tick
    /\ tick' = FALSE
    /\ Goto(Heartbeat, "acquiring")
    /\ UNCHANGED <<counterVars, alertVars, sinceResult, sinceTick, runVars, disturbed>>

\* It has the slot, and connectivity.
CheckHeartbeat ==
    /\ At(Heartbeat, "acquiring")
    /\ ToEndpoint(Heartbeat, "checking", FALSE)
    /\ NoteOverlap(Heartbeat)
    /\ UNCHANGED <<counterVars, alertVars, clockVars, runVars>>

NoConnectivity ==
    /\ At(Heartbeat, "acquiring")
    /\ Return(Heartbeat)
    /\ UNCHANGED <<counterVars, alertVars, clockVars, runVars, disturbed>>

\* Ages count ticks: two results of the same age in ticks differ by less than one,
\* so that for an age of Interval both answers are possible.  The SQL store answers
\* FALSE, and no error, to a query that failed.
HasEndpointStatusNewerThan(answer) ==
    IF answer THEN sinceResult <= Interval ELSE sinceResult >= Interval \/ QueryMayFail

HeartbeatSucceeds ==
    /\ At(Heartbeat, "checking")
    /\ HasEndpointStatusNewerThan(TRUE)
    /\ Return(Heartbeat)
    /\ UNCHANGED <<counterVars, alertVars, clockVars, runVars, disturbed>>

HeartbeatFails ==
    /\ At(Heartbeat, "checking")
    /\ HasEndpointStatusNewerThan(FALSE)
    /\ Goto(Heartbeat, "inserting")
    /\ UNCHANGED <<counterVars, alertVars, clockVars, runVars, disturbed>>

-----------------------------------------------------------------------------
(* Storing the result; maintenance. *)

Insert(a) ==
    /\ At(a, "inserting")
    /\ sinceResult' = IF call[a].age < sinceResult THEN call[a].age ELSE sinceResult
    /\ call' = [call EXCEPT ![a].pc = "inserted", ![a].age = 0]
    /\ UNCHANGED <<counterVars, alertVars, sinceTick, tick, runVars, disturbed>>

\* Slip: the heartbeat ends like a push when its result cannot be stored.
InsertFailureEndsCall(a) ==
    /\ At(a, "inserting")
    /\ Return(a)
    /\ UNCHANGED <<counterVars, alertVars, clockVars, runVars, disturbed>>

\* A push is answered with an error; the heartbeat logs it and goes on.
InsertFails(a) ==
    /\ At(a, "inserting")
    /\ IF a = Heartbeat
       THEN call' = [call EXCEPT ![a].pc = "inserted", ![a].age = 0]
       ELSE Return(a)
    /\ UNCHANGED <<counterVars, alertVars, clockVars, runVars, disturbed>>

\* Under maintenance the counters are not written back either.
SkipInMaintenance(a) ==
    /\ At(a, "inserted")
    /\ Return(a)
    /\ UNCHANGED <<counterVars, alertVars, clockVars, runVars, disturbed>>

-----------------------------------------------------------------------------
(* HandleAlerting on the copy. *)

\* Slip: successes are never counted.
SuccessNotCounted(c) == c

\* The counters of a copy after a failure, and after a success; the failures are
\* reset at the end of the handler only.
AfterFailure(c) == [c EXCEPT !.successes = 0, !.failures = Bump(c.failures)]
AfterSuccess(c) == [c EXCEPT !.successes = Bump(c.successes)]

\* Slip: a success does not end the run of failures.
FinishedKeepingFailures(c) ==
    [c EXCEPT !.pc = "writing", !.unwritten = Counters, !.success = FALSE]

\* The handler is done with the alert: a success ends the run of failures, and the
\* counters of the copy are to be written back.
Finished(c) ==
    [NoCall EXCEPT !.pc = "writing", !.unwritten = Counters, !.successes = c.successes,
                   !.failures = IF c.success THEN 0 ELSE c.failures]

FinishHandling(a) == call' = [call EXCEPT ![a] = Finished(@)]

\* The copy has no LastReminderSent, so that a reminder is due at every failure.
HandleFailure(a) ==
    LET c == AfterFailure(call[a]) IN
    /\ At(a, "inserted")
    /\ ~c.success
    /\ failureRun' = Bump(failureRun)
    /\ successRun' = 0
    /\ call' = [call EXCEPT ![a] =
                 IF FailureThreshold <= c.failures /\ (~triggered \/ Reminds)
                 THEN [c EXCEPT !.pc = IF triggered THEN "reminding" ELSE "announcing"]
                 ELSE Finished(c)]
    /\ UNCHANGED <<counterVars, alertVars, clockVars, disturbed>>

\* Below the threshold the row of a triggered alert gets the successes so far.
HandleSuccess(a) ==
    LET c == AfterSuccess(call[a]) IN
    /\ At(a, "inserted")
    /\ c.success
    /\ successRun' = Bump(successRun)
    /\ failureRun' = 0
    /\ call' = [call EXCEPT ![a] =
                 IF ~triggered THEN Finished(c)
                 ELSE [c EXCEPT !.pc = IF SuccessThreshold > c.successes
                                       THEN "persisting" ELSE "resolving"]]
    /\ UNCHANGED <<counterVars, alertVars, clockVars, disturbed>>

\* The provider takes the message; only an initial one marks the alert.
Send(a) ==
    /\ At(a, "announcing") \/ At(a, "reminding")
    /\ triggered' = (triggered \/ At(a, "announcing"))
    /\ announced' = TRUE
    /\ Goto(a, "persisting")
    /\ UNCHANGED <<counterVars, row, clockVars, runVars, disturbed>>

SendFails(a) ==
    /\ At(a, "announcing") \/ At(a, "reminding")
    /\ FinishHandling(a)
    /\ UNCHANGED <<counterVars, alertVars, clockVars, runVars, disturbed>>

\* Errors of the table are logged and otherwise ignored.
WriteRow(exists) ==
    \/ row' = exists /\ UNCHANGED disturbed
    \/ UNCHANGED row /\ disturbed' = TRUE

Persist(a) ==
    /\ At(a, "persisting")
    /\ WriteRow(TRUE)
    /\ FinishHandling(a)
    /\ UNCHANGED <<counterVars, triggered, announced, clockVars, runVars>>

Resolve(a) ==
    /\ At(a, "resolving")
    /\ triggered' = FALSE
    /\ Goto(a, "deleting")
    /\ UNCHANGED <<counterVars, row, announced, clockVars, runVars, disturbed>>

\* Slip: the row of a resolved alert stays.
RowNeverDeleted(a) ==
    /\ At(a, "deleting")
    /\ IF SendOnResolved
       THEN Goto(a, "notifying") /\ UNCHANGED announced
       ELSE FinishHandling(a) /\ announced' = FALSE
    /\ UNCHANGED <<counterVars, triggered, row, clockVars, runVars, disturbed>>

\* When nobody is to be told, the incident is over for the recipient too.
DeleteRow(a) ==
    /\ At(a, "deleting")
    /\ WriteRow(FALSE)
    /\ IF SendOnResolved
       THEN Goto(a, "notifying") /\ UNCHANGED announced
       ELSE FinishHandling(a) /\ announced' = FALSE
    /\ UNCHANGED <<counterVars, triggered, clockVars, runVars>>

\* An error of the provider leaves the alert resolved all the same.
SendResolved(a) ==
    /\ At(a, "notifying")
    /\ announced' \in {FALSE, announced}
    /\ FinishHandling(a)
    /\ UNCHANGED <<counterVars, triggered, row, clockVars, runVars, disturbed>>

\* Slip: the call returns when one of the counters is written.
WriteOneCounter(a, counter) ==
    /\ At(a, "writing")
    /\ call' = [call EXCEPT ![a].pc = "idle", ![a].unwritten = @ \ {counter}]
    /\ numberOfFailuresInARow' =
         IF counter = "failures" THEN call[a].failures ELSE numberOfFailuresInARow
    /\ numberOfSuccessesInARow' =
         IF counter = "successes" THEN call[a].successes ELSE numberOfSuccessesInARow
    /\ UNCHANGED <<alertVars, clockVars, runVars, disturbed>>

\* The two counters are written one after the other, without a lock: another call
\* may copy one of them new and the other old, either way round.
WriteBack(a, counter) ==
    /\ At(a, "writing")
    /\ counter \in call[a].unwritten
    /\ numberOfFailuresInARow' =
         IF counter = "failures" THEN call[a].failures ELSE numberOfFailuresInARow
    /\ numberOfSuccessesInARow' =
         IF counter = "successes" THEN call[a].successes ELSE numberOfSuccessesInARow
    /\ IF call[a].unwritten = {counter}
       THEN Return(a)
       ELSE call' = [call EXCEPT ![a].unwritten = @ \ {counter}]
    /\ UNCHANGED <<alertVars, clockVars, runVars, disturbed>>

HandleAlerting(a) ==
    \/ HandleFailure(a) \/ HandleSuccess(a)
    \/ Send(a) \/ SendFails(a) \/ Persist(a)
    \/ Resolve(a) \/ DeleteRow(a) \/ SendResolved(a)

-----------------------------------------------------------------------------
(* Time.  The channel of the ticker holds one tick: others are dropped. *)
Tick ==
    /\ Interval > 0
    /\ sinceResult' = Older(sinceResult)
    /\ call' = [a \in Callers |->
                  IF At(a, "inserting") THEN [call[a] EXCEPT !.age = Older(@)] ELSE call[a]]
    /\ sinceTick' = (sinceTick + 1) % Interval
    /\ tick' = (tick \/ sinceTick + 1 = Interval)
    /\ UNCHANGED <<counterVars, alertVars, runVars, disturbed>>

Begin ==
    \/ \E p \in Pushers, success \in BOOLEAN : Push(p, success)
    \/ TakeTick \/ CheckHeartbeat \/ NoConnectivity
    \/ HeartbeatSucceeds \/ HeartbeatFails

Proceed(a) ==
    \/ Insert(a) \/ InsertFails(a)
    \/ SkipInMaintenance(a)
    \/ HandleAlerting(a)
    \/ \E counter \in Counters : WriteBack(a, counter)

Next ==
    \/ Begin
    \/ \E a \in Callers : Proceed(a)
    \/ Tick

Spec == Init /\ [][Next]_vars

(***************************************************************************)
(* Fairness: time passes, and calls are plain code that goes on to its end.*)
(* The heartbeat gets its slot (Lifecycle shows it) and is not without     *)
(* connectivity or under maintenance at every heartbeat; a provider that   *)
(* is asked again and again accepts a message at last.  Nothing is assumed *)
(* of clients, nor of the store.                                           *)
(***************************************************************************)
Fairness ==
    /\ WF_vars(Tick)
    /\ WF_vars(TakeTick \/ NoConnectivity \/ HeartbeatSucceeds \/ HeartbeatFails)
    /\ \A a \in Callers : WF_vars(Proceed(a))
    /\ SF_vars(CheckHeartbeat)
    /\ SF_vars(HandleFailure(Heartbeat))
    /\ SF_vars(Send(Heartbeat))

FairSpec == Spec /\ Fairness
-----------------------------------------------------------------------------
(* Properties *)

AtRest == \A a \in Callers : ~HasCopy(a)

\* Every variable has its type; a call that is not writing back has nothing to write.
TypeOK ==
    /\ numberOfFailuresInARow \in 0 .. MaxRun
    /\ numberOfSuccessesInARow \in 0 .. MaxRun
    /\ {triggered, row, tick, announced, disturbed} \subseteq BOOLEAN
    /\ call \in [Callers -> Calls]
    /\ \A a \in Callers : At(a, "writing") <=> call[a].unwritten # {}
    /\ sinceResult \in Ages
    /\ sinceTick \in 0 .. Interval
    /\ failureRun \in 0 .. MaxRun
    /\ successRun \in 0 .. MaxRun

\* As long as calls come one after the other, the counters of the external endpoint
\* are the runs of outcomes that were handled, although every call works on a copy,
\* and may leave it behind in maintenance or when the store refuses the result.
CountersAreRuns ==
    ~disturbed /\ AtRest =>
        /\ numberOfFailuresInARow = failureRun
        /\ numberOfSuccessesInARow = successRun

\* As long as calls come one after the other and the table takes every write, an alert
\* counts as triggered only when its recipient was told, whatever the provider refuses,
\* and between calls the alert has its row exactly when it is triggered.
AlertIsInStep ==
    ~disturbed =>
        /\ triggered => announced
        /\ AtRest => (row <=> triggered)

\* As long as calls come one after the other, pushes and heartbeats together keep the
\* promise of Incident: Alert.Triggered changes only when the run of their outcomes has
\* reached the threshold.
I == INSTANCE Incident WITH
        Alerts <- {"alert"},
        FailureThreshold <- [a \in {"alert"} |-> FailureThreshold],
        SuccessThreshold <- [a \in {"alert"} |-> SuccessThreshold],
        ongoing <- [a \in {"alert"} |-> triggered]
ImplementsIncidentAlone == I!Init /\ [][~disturbed' => I!Next]_(I!vars)

NoPushes == \A p \in Pushers : At(p, "idle")

\* When pushes end, the alert is triggered in the end and stays so, whatever calls
\* overlapped before, and although the heartbeat takes its own failure for a result:
\* "If no update is received within this interval, alerts will be triggered".  The
\* recipient knows of it unless calls overlapped: a resolution that was overtaken by
\* a failure may be the last it hears, if there are no reminders.
SilenceIsNoticed ==
    Interval > 0 /\ <>[]NoPushes => <>[](triggered /\ (~disturbed \/ Reminds => announced))

\* When successes are handled again and again and failures no more, the alert is
\* resolved in the end, whatever calls overlapped, then and before: a counter that was
\* overwritten by an older copy catches up.
SuccessesEndIncident ==
    <>[](failureRun = 0) /\ []<>(\E a \in Callers : At(a, "writing")) => <>[](~triggered)

\* When pushes end, no heartbeat finds a result in the end: "if the previous heartbeat
\* failed while this one succeeds, it implies that there was a new result pushed".
SuccessOfHeartbeatImpliesPush ==
    <>[]NoPushes =>
        <>[][~(At(Heartbeat, "checking") /\ call'[Heartbeat].pc = "idle")]_vars
=============================================================================
