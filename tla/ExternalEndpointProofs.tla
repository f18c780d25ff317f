----------------------- MODULE ExternalEndpointProofs -----------------------
(***************************************************************************)
(* As long as the calls for an external endpoint come one after the other, *)
(* their copies lose nothing: for any number of clients, any interval and  *)
(* any thresholds the counters are the runs of outcomes, and the alert is  *)
(* an abstract incident.                                                   *)
(***************************************************************************)
EXTENDS ExternalEndpoint, TLAPS

LEMMA BumpType == ASSUME NEW n \in 0 .. MaxRun PROVE Bump(n) \in 0 .. MaxRun
  BY ThresholdAssumption DEF Bump

LEMMA OlderType == ASSUME NEW age \in Ages PROVE Older(age) \in Ages
  BY IntervalAssumption DEF Older, Ages

LEMMA NoCallType == NoCall \in Calls /\ NoCall.pc = "idle" /\ NoCall.unwritten = {}
  BY ThresholdAssumption, IntervalAssumption DEF NoCall, Calls, Steps, Ages

LEMMA FinishedType ==
  ASSUME NEW c \in Calls
  PROVE  /\ Finished(c) \in Calls
         /\ Finished(c).pc = "writing"
         /\ Finished(c).unwritten = Counters
         /\ Finished(c).successes = c.successes
         /\ Finished(c).failures = (IF c.success THEN 0 ELSE c.failures)
  BY NoCallType, ThresholdAssumption DEF Finished, Calls, NoCall, Steps, Ages

LEMMA CopyType ==
  ASSUME numberOfFailuresInARow \in 0 .. MaxRun, numberOfSuccessesInARow \in 0 .. MaxRun,
         NEW where \in Steps, NEW success \in BOOLEAN
  PROVE  [NoCall EXCEPT !.pc = where, !.success = success,
                        !.failures = numberOfFailuresInARow,
                        !.successes = numberOfSuccessesInARow] \in Calls
  BY NoCallType, ThresholdAssumption, IntervalAssumption DEF NoCall, Calls, Ages

\* The calls have their type, and only a call that is writing has something to write.
CallsOK ==
  /\ call \in [Callers -> Calls]
  /\ \A a \in Callers : At(a, "writing") <=> call[a].unwritten # {}

\* A step that changes one call keeps the type of all when the new one has it.
LEMMA OneCall ==
  ASSUME CallsOK, NEW a \in Callers, NEW c \in Calls,
         call' = [call EXCEPT ![a] = c],
         c.pc = "writing" <=> c.unwritten # {}
  PROVE  CallsOK'
  BY DEF CallsOK, At

LEMMA GotoKeepsType ==
  ASSUME CallsOK, NEW a \in Callers, ~At(a, "writing"),
         NEW where \in Steps \ {"writing"}, Goto(a, where)
  PROVE  CallsOK'
  <1> DEFINE c == [call[a] EXCEPT !.pc = where]
  <1>1. call[a] \in Calls /\ call[a].unwritten = {}
    BY DEF CallsOK
  <1>2. c \in Calls /\ c.pc = where /\ c.unwritten = {}
    BY <1>1 DEF Calls
  <1>3. call' = [call EXCEPT ![a] = c]
    BY DEF Goto
  <1> QED
    BY <1>2, <1>3, OneCall

LEMMA ReturnKeepsType ==
  ASSUME CallsOK, NEW a \in Callers, Return(a)
  PROVE  CallsOK'
  BY OneCall, NoCallType DEF Return

LEMMA FinishKeepsType ==
  ASSUME CallsOK, NEW a \in Callers, FinishHandling(a)
  PROVE  CallsOK'
  <1>1. call[a] \in Calls
    BY DEF CallsOK
  <1>2. call' = [call EXCEPT ![a] = Finished(call[a])]
    BY DEF FinishHandling
  <1> QED
    BY <1>1, <1>2, FinishedType, OneCall DEF Counters

LEMMA ToEndpointKeepsType ==
  ASSUME CallsOK, NEW a \in Callers, NEW where \in Steps \ {"writing"}, NEW success \in BOOLEAN,
         numberOfFailuresInARow \in 0 .. MaxRun, numberOfSuccessesInARow \in 0 .. MaxRun,
         ToEndpoint(a, where, success)
  PROVE  CallsOK'
  <1> DEFINE c == [NoCall EXCEPT !.pc = where, !.success = success,
                                 !.failures = numberOfFailuresInARow,
                                 !.successes = numberOfSuccessesInARow]
  <1>1. c \in Calls
    BY CopyType
  <1>2. c.pc = where /\ c.unwritten = {}
    BY DEF NoCall
  <1>3. call' = [call EXCEPT ![a] = c]
    BY DEF ToEndpoint
  <1> QED
    BY <1>1, <1>2, <1>3, OneCall
-----------------------------------------------------------------------------
\* A stored result is in the place after insertion, with nothing to write.
LEMMA InsertedKeepsType ==
  ASSUME CallsOK, NEW a \in Callers, At(a, "inserting"),
         call' = [call EXCEPT ![a].pc = "inserted", ![a].age = 0]
  PROVE  CallsOK'
  <1> DEFINE c == [call[a] EXCEPT !.pc = "inserted", !.age = 0]
  <1>1. call[a] \in Calls /\ call[a].unwritten = {}
    BY DEF CallsOK, At
  <1>2. c \in Calls /\ c.pc = "inserted" /\ c.unwritten = {}
    <2>1. "inserted" \in Steps /\ 0 \in Ages
      BY IntervalAssumption DEF Steps, Ages
    <2> QED
      BY <1>1, <2>1 DEF Calls
  <1>3. call' = [call EXCEPT ![a] = c]
    OBVIOUS
  <1> QED
    BY <1>2, <1>3, OneCall

\* What the handler makes of a copy that has counted the result.
LEMMA CountedType ==
  ASSUME NEW c \in Calls
  PROVE  /\ AfterFailure(c) \in Calls
         /\ AfterFailure(c).pc = c.pc
         /\ AfterFailure(c).success = c.success
         /\ AfterFailure(c).unwritten = c.unwritten
         /\ AfterFailure(c).successes = 0
         /\ AfterFailure(c).failures = Bump(c.failures)
         /\ AfterSuccess(c) \in Calls
         /\ AfterSuccess(c).pc = c.pc
         /\ AfterSuccess(c).success = c.success
         /\ AfterSuccess(c).unwritten = c.unwritten
         /\ AfterSuccess(c).successes = Bump(c.successes)
         /\ AfterSuccess(c).failures = c.failures
  <1>1. 0 \in 0 .. MaxRun /\ Bump(c.failures) \in 0 .. MaxRun /\ Bump(c.successes) \in 0 .. MaxRun
    BY BumpType, ThresholdAssumption DEF Calls
  <1> QED
    BY <1>1 DEF AfterFailure, AfterSuccess, Calls

\* What becomes of a copy at the end of the handler, or on its way to a message
\* or to the table.
LEMMA HandledKeepsType ==
  ASSUME CallsOK, NEW a \in Callers, NEW c \in Calls, c.unwritten = {},
         NEW d, d = Finished(c) \/ \E where \in Steps \ {"writing"} : d = [c EXCEPT !.pc = where],
         call' = [call EXCEPT ![a] = d]
  PROVE  CallsOK'
  <1>1. CASE d = Finished(c)
    BY <1>1, FinishedType, OneCall DEF Counters
  <1>2. ASSUME NEW where \in Steps \ {"writing"}, d = [c EXCEPT !.pc = where]
        PROVE  CallsOK'
    <2>1. d \in Calls /\ d.pc = where /\ d.unwritten = {}
      BY <1>2 DEF Calls
    <2> QED
      BY <2>1, OneCall
  <1> QED
    BY <1>1, <1>2

LEMMA HandleKeepsType ==
  ASSUME CallsOK, NEW a \in Callers, HandleFailure(a) \/ HandleSuccess(a)
  PROVE  CallsOK'
  <1>1. call[a] \in Calls /\ call[a].unwritten = {}
    BY DEF CallsOK, HandleFailure, HandleSuccess, At
  <1>2. CASE HandleFailure(a)
    <2> DEFINE c == AfterFailure(call[a])
               d == IF FailureThreshold <= c.failures /\ (~triggered \/ Reminds)
                    THEN [c EXCEPT !.pc = IF triggered THEN "reminding" ELSE "announcing"]
                    ELSE Finished(c)
    <2>1. c \in Calls /\ c.unwritten = {}
      BY <1>1, CountedType
    <2>2. call' = [call EXCEPT ![a] = d]
      BY <1>2 DEF HandleFailure
    <2>3. d = Finished(c) \/ \E where \in Steps \ {"writing"} : d = [c EXCEPT !.pc = where]
      <3>1. {"reminding", "announcing"} \subseteq Steps \ {"writing"}
        BY DEF Steps
      <3> HIDE DEF c
      <3> QED
        BY <3>1
    <2> HIDE DEF c, d
    <2> QED
      BY <2>1, <2>2, <2>3, HandledKeepsType
  <1>3. CASE HandleSuccess(a)
    <2> DEFINE c == AfterSuccess(call[a])
               d == IF ~triggered THEN Finished(c)
                    ELSE [c EXCEPT !.pc = IF SuccessThreshold > c.successes
                                          THEN "persisting" ELSE "resolving"]
    <2>1. c \in Calls /\ c.unwritten = {}
      BY <1>1, CountedType
    <2>2. call' = [call EXCEPT ![a] = d]
      BY <1>3 DEF HandleSuccess
    <2>3. d = Finished(c) \/ \E where \in Steps \ {"writing"} : d = [c EXCEPT !.pc = where]
      <3>1. {"persisting", "resolving"} \subseteq Steps \ {"writing"}
        BY DEF Steps
      <3> HIDE DEF c
      <3> QED
        BY <3>1
    <2> HIDE DEF c, d
    <2> QED
      BY <2>1, <2>2, <2>3, HandledKeepsType
  <1> QED
    BY <1>2, <1>3

LEMMA WriteBackKeepsType ==
  ASSUME CallsOK, NEW a \in Callers, NEW counter \in Counters, WriteBack(a, counter)
  PROVE  CallsOK'
  <1>1. CASE call[a].unwritten = {counter}
    BY <1>1, ReturnKeepsType DEF WriteBack
  <1>2. CASE call[a].unwritten # {counter}
    <2> DEFINE c == [call[a] EXCEPT !.unwritten = call[a].unwritten \ {counter}]
    <2>1. call[a] \in Calls /\ call[a].pc = "writing" /\ counter \in call[a].unwritten
      BY DEF CallsOK, WriteBack, At
    <2>2. c \in Calls /\ c.pc = "writing" /\ c.unwritten # {}
      BY <1>2, <2>1 DEF Calls
    <2>3. call' = [call EXCEPT ![a] = c]
      BY <1>2 DEF WriteBack
    <2> QED
      BY <2>2, <2>3, OneCall
  <1> QED
    BY <1>1, <1>2

\* Time ages the results that are not stored yet.
LEMMA TickKeepsType ==
  ASSUME CallsOK, Tick
  PROVE  CallsOK'
  <1> DEFINE aged(a) == [call[a] EXCEPT !.age = Older(@)]
  <1>1. ASSUME NEW a \in Callers
        PROVE  aged(a) \in Calls /\ aged(a).pc = call[a].pc /\ aged(a).unwritten = call[a].unwritten
    <2>1. call[a] \in Calls /\ Older(call[a].age) \in Ages
      BY OlderType DEF CallsOK, Calls
    <2> QED
      BY <2>1 DEF Calls
  <1>2. call' = [a \in Callers |-> IF At(a, "inserting") THEN aged(a) ELSE call[a]]
    BY DEF Tick
  <1> HIDE DEF aged
  <1> QED
    BY <1>1, <1>2 DEF CallsOK, At

\* Every step of a call keeps the types of what it works on.
LEMMA TypePreserved ==
  ASSUME TypeOK, [Next]_vars
  PROVE  TypeOK'
  <1> USE DEF counterVars, alertVars, clockVars, runVars
  <1>0. /\ CallsOK
        /\ 0 \in 0 .. MaxRun
        /\ Bump(failureRun) \in 0 .. MaxRun
        /\ Bump(successRun) \in 0 .. MaxRun
    BY BumpType, ThresholdAssumption DEF TypeOK, CallsOK
  <1>2. ASSUME NEW p \in Pushers, NEW success \in BOOLEAN, Push(p, success)
        PROVE  TypeOK'
    <2>1. p \in Callers /\ "inserting" \in Steps \ {"writing"}
      BY DEF Callers, Steps
    <2>2. CallsOK'
      BY <1>0, <1>2, <2>1, ToEndpointKeepsType DEF Push, TypeOK
    <2> QED
      BY <1>2, <2>2 DEF Push, NoteOverlap, TypeOK, CallsOK
  <1>3. CASE TakeTick
    <2>1. CallsOK'
      BY <1>0, <1>3, GotoKeepsType DEF TakeTick, Callers, Steps, At
    <2> QED
      BY <1>3, <2>1 DEF TakeTick, TypeOK, CallsOK
  <1>4. CASE CheckHeartbeat
    <2>1. Heartbeat \in Callers /\ "checking" \in Steps \ {"writing"}
      BY DEF Callers, Steps
    <2>2. CallsOK'
      BY <1>0, <1>4, <2>1, ToEndpointKeepsType DEF CheckHeartbeat, TypeOK
    <2> QED
      BY <1>4, <2>2 DEF CheckHeartbeat, NoteOverlap, TypeOK, CallsOK
  <1>5. CASE NoConnectivity \/ HeartbeatSucceeds
    <2>1. CallsOK'
      BY <1>0, <1>5, ReturnKeepsType DEF NoConnectivity, HeartbeatSucceeds, Callers
    <2> QED
      BY <1>5, <2>1 DEF NoConnectivity, HeartbeatSucceeds, TypeOK, CallsOK
  <1>6. CASE HeartbeatFails
    <2>1. CallsOK'
      BY <1>0, <1>6, GotoKeepsType DEF HeartbeatFails, Callers, Steps, At
    <2> QED
      BY <1>6, <2>1 DEF HeartbeatFails, TypeOK, CallsOK
  <1>7. ASSUME NEW a \in Callers, Proceed(a)
        PROVE  TypeOK'
    <2>1. CASE Insert(a)
      <3>1. CallsOK'
        BY <1>0, <2>1, InsertedKeepsType DEF Insert
      <3>2. sinceResult' \in Ages
        BY <2>1 DEF Insert, TypeOK, Calls
      <3> QED
        BY <2>1, <3>1, <3>2 DEF Insert, TypeOK, CallsOK
    <2>2. CASE InsertFails(a)
      <3>1. CallsOK'
        BY <1>0, <2>2, InsertedKeepsType, ReturnKeepsType DEF InsertFails
      <3> QED
        BY <2>2, <3>1 DEF InsertFails, TypeOK, CallsOK
    <2>3. CASE SkipInMaintenance(a)
      BY <1>0, <2>3, ReturnKeepsType DEF SkipInMaintenance, TypeOK, CallsOK
    <2>4. CASE HandleFailure(a)
      <3>1. CallsOK'
        BY <1>0, <2>4, HandleKeepsType
      <3> QED
        BY <1>0, <2>4, <3>1 DEF HandleFailure, TypeOK, CallsOK
    <2>5. CASE HandleSuccess(a)
      <3>1. CallsOK'
        BY <1>0, <2>5, HandleKeepsType
      <3> QED
        BY <1>0, <2>5, <3>1 DEF HandleSuccess, TypeOK, CallsOK
    <2>6. CASE Send(a)
      <3>1. CallsOK'
        BY <1>0, <2>6, GotoKeepsType DEF Send, Steps, At
      <3> QED
        BY <2>6, <3>1 DEF Send, TypeOK, CallsOK
    <2>7. CASE SendFails(a)
      <3>1. CallsOK'
        BY <1>0, <2>7, FinishKeepsType DEF SendFails
      <3> QED
        BY <2>7, <3>1 DEF SendFails, TypeOK, CallsOK
    <2>8. CASE Persist(a)
      <3>1. CallsOK'
        BY <1>0, <2>8, FinishKeepsType DEF Persist
      <3> QED
        BY <2>8, <3>1 DEF Persist, WriteRow, TypeOK, CallsOK
    <2>9. CASE Resolve(a)
      <3>1. CallsOK'
        BY <1>0, <2>9, GotoKeepsType DEF Resolve, Steps, At
      <3> QED
        BY <2>9, <3>1 DEF Resolve, TypeOK, CallsOK
    <2>10. CASE DeleteRow(a)
      <3>1. CASE SendOnResolved
        <4>1. CallsOK'
          BY <1>0, <2>10, <3>1, GotoKeepsType DEF DeleteRow, Steps, At
        <4> QED
          BY <2>10, <3>1, <4>1 DEF DeleteRow, WriteRow, TypeOK, CallsOK
      <3>2. CASE ~SendOnResolved
        <4>1. CallsOK'
          BY <1>0, <2>10, <3>2, FinishKeepsType DEF DeleteRow
        <4> QED
          BY <2>10, <3>2, <4>1 DEF DeleteRow, WriteRow, TypeOK, CallsOK
      <3> QED
        BY <3>1, <3>2
    <2>11. CASE SendResolved(a)
      <3>1. CallsOK'
        BY <1>0, <2>11, FinishKeepsType DEF SendResolved
      <3> QED
        BY <2>11, <3>1 DEF SendResolved, TypeOK, CallsOK
    <2>12. ASSUME NEW counter \in Counters, WriteBack(a, counter)
           PROVE  TypeOK'
      <3>1. CallsOK'
        BY <1>0, <2>12, WriteBackKeepsType
      <3>2. call[a].failures \in 0 .. MaxRun /\ call[a].successes \in 0 .. MaxRun
        BY DEF TypeOK, Calls
      <3> QED
        BY <2>12, <3>1, <3>2 DEF WriteBack, TypeOK, CallsOK
    <2> QED
      BY <1>7, <2>1, <2>2, <2>3, <2>4, <2>5, <2>6, <2>7, <2>8, <2>9, <2>10, <2>11, <2>12
      DEF Proceed, HandleAlerting
  <1>8. CASE Tick
    <2>1. CallsOK'
      BY <1>0, <1>8, TickKeepsType
    <2>2. sinceResult' \in Ages
      BY <1>8, OlderType DEF Tick, TypeOK
    <2>3. sinceTick' \in 0 .. Interval
      BY <1>8, IntervalAssumption DEF Tick, TypeOK
    <2> QED
      BY <1>8, <2>1, <2>2, <2>3 DEF Tick, TypeOK, CallsOK
  <1>9. CASE UNCHANGED vars
    BY <1>9 DEF vars, TypeOK, At
  <1> QED
    BY <1>2, <1>3, <1>4, <1>5, <1>6, <1>7, <1>8, <1>9 DEF Next, Begin

\* Type correctness, with the place of every call in the code: a call that is not
\* writing its counters back has none left to write.
THEOREM ExternalTypeCorrect == Spec => []TypeOK
<1>1. Init => TypeOK
  <2>1. 0 \in 0 .. MaxRun /\ Interval + 1 \in Ages /\ 0 \in 0 .. Interval
    BY ThresholdAssumption, IntervalAssumption DEF Ages
  <2> SUFFICES ASSUME Init PROVE TypeOK
    OBVIOUS
  <2>2. \A a \in Callers : call[a] = NoCall
    BY DEF Init
  <2>3. \A a \in Callers : At(a, "writing") <=> call[a].unwritten # {}
    BY <2>2, NoCallType DEF At
  <2>4. call \in [Callers -> Calls]
    BY NoCallType DEF Init
  <2> QED
    BY <2>1, <2>3, <2>4 DEF Init, TypeOK
<1>2. TypeOK /\ [Next]_vars => TypeOK'
  BY TypePreserved
<1> QED
  BY <1>1, <1>2, PTL DEF Spec
-----------------------------------------------------------------------------
(***************************************************************************)
(* The inductive invariant.  Without overlap at most one call has a copy.  *)
(* Until it has counted its result, its copy, the counters of the external *)
(* endpoint and the runs are the same; from then on the copy is ahead, but *)
(* for the failures that a success resets only at the end, and while it is *)
(* written back each run is found where the counter is not yet or already. *)
(***************************************************************************)
CountersMatch ==
    /\ numberOfFailuresInARow = failureRun
    /\ numberOfSuccessesInARow = successRun

HasCounted(a) ==
    call[a].pc \in {"announcing", "reminding", "persisting", "resolving", "deleting", "notifying"}

CopyInv(a) ==
    /\ call[a].pc \in {"checking", "inserting", "inserted"} =>
         /\ CountersMatch
         /\ call[a].failures = failureRun
         /\ call[a].successes = successRun
    /\ HasCounted(a) =>
         /\ failureRun = (IF call[a].success THEN 0 ELSE call[a].failures)
         /\ successRun = call[a].successes
    /\ At(a, "announcing") => failureRun >= FailureThreshold
    /\ At(a, "resolving") => successRun >= SuccessThreshold
    /\ At(a, "writing") =>
         /\ failureRun = (IF "failures" \in call[a].unwritten
                          THEN call[a].failures ELSE numberOfFailuresInARow)
         /\ successRun = (IF "successes" \in call[a].unwritten
                          THEN call[a].successes ELSE numberOfSuccessesInARow)

RunsInv ==
    ~disturbed =>
        /\ \A a, b \in Callers : HasCopy(a) /\ HasCopy(b) => a = b
        /\ AtRest => CountersMatch
        /\ \A a \in Callers : CopyInv(a)

\* What the only call with a copy does concerns nobody else.
LEMMA OnlyCopy ==
  ASSUME CallsOK, NEW a \in Callers, \A b \in Callers \ {a} : ~HasCopy(b),
         NEW d, call' = [call EXCEPT ![a] = d],
         CopyInv(a)', ~HasCopy(a)' => CountersMatch'
  PROVE  RunsInv'
  <1>1. \A b \in Callers \ {a} : call'[b] = call[b]
    BY DEF CallsOK
  <1>2. \A b \in Callers \ {a} : ~HasCopy(b)' /\ CopyInv(b)'
    BY <1>1 DEF HasCopy, CopyInv, HasCounted, At
  <1> QED
    BY <1>2 DEF RunsInv, AtRest

\* The same, for a call that has a copy already.
LEMMA StepOfTheCopy ==
  ASSUME CallsOK, RunsInv, ~disturbed, NEW a \in Callers, HasCopy(a),
         NEW d, call' = [call EXCEPT ![a] = d],
         CopyInv(a)', ~HasCopy(a)' => CountersMatch'
  PROVE  RunsInv'
  <1>1. \A b \in Callers \ {a} : ~HasCopy(b)
    BY DEF RunsInv
  <1> QED
    BY <1>1, OnlyCopy

\* A call begins: without overlap, the counters it copies are the runs.
LEMMA BeginningKeepsRuns ==
  ASSUME TypeOK, RunsInv, ~disturbed', NEW a \in Callers, ~HasCopy(a),
         NEW where \in {"inserting", "checking"}, NEW success \in BOOLEAN,
         ToEndpoint(a, where, success), NoteOverlap(a),
         UNCHANGED <<counterVars, runVars>>
  PROVE  RunsInv'
  <1> DEFINE d == [NoCall EXCEPT !.pc = where, !.success = success,
                                 !.failures = numberOfFailuresInARow,
                                 !.successes = numberOfSuccessesInARow]
  <1>1. CallsOK
    BY DEF TypeOK, CallsOK
  <1>2. ~disturbed /\ \A b \in Callers \ {a} : ~HasCopy(b)
    BY DEF NoteOverlap
  <1>3. CountersMatch
    BY <1>2 DEF RunsInv, AtRest
  <1>4. call' = [call EXCEPT ![a] = d]
    BY DEF ToEndpoint
  <1>5. d.pc = where /\ d.failures = numberOfFailuresInARow /\ d.successes = numberOfSuccessesInARow
    BY DEF NoCall
  <1>6. call'[a] = d
    BY <1>1, <1>4 DEF CallsOK
  <1> HIDE DEF d
  <1>7. CopyInv(a)'
    BY <1>3, <1>5, <1>6 DEF CopyInv, HasCounted, At, CountersMatch, counterVars, runVars
  <1>8. HasCopy(a)'
    BY <1>5, <1>6 DEF HasCopy
  <1> QED
    BY <1>1, <1>2, <1>4, <1>7, <1>8, OnlyCopy

\* The copy is done with the alert.
LEMMA FinishKeepsRuns ==
  ASSUME CallsOK, RunsInv, ~disturbed, NEW a \in Callers, HasCounted(a),
         FinishHandling(a), UNCHANGED <<counterVars, runVars>>
  PROVE  RunsInv'
  <1> DEFINE d == Finished(call[a])
  <1>1. call[a] \in Calls
    BY DEF CallsOK
  <1>2. call' = [call EXCEPT ![a] = d] /\ call'[a] = d
    BY DEF FinishHandling, CallsOK
  <1>3. /\ failureRun = (IF call[a].success THEN 0 ELSE call[a].failures)
        /\ successRun = call[a].successes
    BY DEF RunsInv, CopyInv
  <1>4. HasCopy(a)
    BY DEF HasCounted, HasCopy
  <1>5. /\ d.pc = "writing" /\ d.unwritten = Counters
        /\ d.successes = call[a].successes
        /\ d.failures = (IF call[a].success THEN 0 ELSE call[a].failures)
    BY <1>1, FinishedType
  <1> HIDE DEF d
  <1>6. CopyInv(a)' /\ HasCopy(a)'
    BY <1>2, <1>3, <1>5 DEF CopyInv, HasCounted, HasCopy, At, Counters, runVars
  <1> QED
    BY <1>2, <1>4, <1>6, StepOfTheCopy

\* The copy goes on to a message or to the table.
LEMMA GotoKeepsRuns ==
  ASSUME CallsOK, RunsInv, ~disturbed, NEW a \in Callers, HasCounted(a),
         NEW where \in {"persisting", "deleting", "notifying"},
         Goto(a, where), UNCHANGED <<counterVars, runVars>>
  PROVE  RunsInv'
  <1> DEFINE d == [call[a] EXCEPT !.pc = where]
  <1>1. call[a] \in Calls
    BY DEF CallsOK
  <1>2. call' = [call EXCEPT ![a] = d] /\ call'[a] = d
    BY DEF Goto, CallsOK
  <1>3. d.pc = where /\ d.success = call[a].success
        /\ d.failures = call[a].failures /\ d.successes = call[a].successes
    BY <1>1 DEF Calls
  <1>4. /\ failureRun = (IF call[a].success THEN 0 ELSE call[a].failures)
        /\ successRun = call[a].successes
        /\ HasCopy(a)
    BY DEF RunsInv, CopyInv, HasCounted, HasCopy
  <1> HIDE DEF d
  <1>5. CopyInv(a)' /\ HasCopy(a)'
    BY <1>2, <1>3, <1>4 DEF CopyInv, HasCounted, HasCopy, At, runVars
  <1> QED
    BY <1>2, <1>4, <1>5, StepOfTheCopy

\* A copy without an overlap has not yet counted its result.
LEMMA CountingKeepsRuns ==
  ASSUME TypeOK, RunsInv, ~disturbed, NEW a \in Callers, HandleFailure(a) \/ HandleSuccess(a)
  PROVE  RunsInv'
  <1>1. CallsOK /\ call[a] \in Calls /\ HasCopy(a) /\ At(a, "inserted")
    BY DEF TypeOK, CallsOK, HandleFailure, HandleSuccess, At, HasCopy
  <1>2. CountersMatch /\ call[a].failures = failureRun /\ call[a].successes = successRun
    BY <1>1 DEF RunsInv, CopyInv, At
  <1>3. CASE HandleFailure(a)
    <2> DEFINE c == AfterFailure(call[a])
               pc == IF triggered THEN "reminding" ELSE "announcing"
               d == IF FailureThreshold <= c.failures /\ (~triggered \/ Reminds)
                    THEN [c EXCEPT !.pc = pc]
                    ELSE Finished(c)
    <2>1. /\ c \in Calls /\ ~c.success
          /\ failureRun' = c.failures /\ successRun' = c.successes
          /\ c.failures \in Nat
      BY <1>1, <1>2, <1>3, CountedType, ThresholdAssumption DEF HandleFailure, Calls
    <2>2. call' = [call EXCEPT ![a] = d] /\ call'[a] = d
      BY <1>1, <1>3 DEF HandleFailure, CallsOK
    <2> HIDE DEF c
    <2>3. CASE FailureThreshold <= c.failures /\ (~triggered \/ Reminds)
      <3>1. d = [c EXCEPT !.pc = pc]
        BY <2>3
      <3>2. d.pc = pc /\ d.success = c.success /\ d.failures = c.failures /\ d.successes = c.successes
        BY <2>1, <3>1 DEF Calls
      <3>3. pc \in {"reminding", "announcing"}
        OBVIOUS
      <3> HIDE DEF d, pc
      <3>4. CopyInv(a)' /\ HasCopy(a)'
        BY <2>1, <2>2, <2>3, <3>2, <3>3, ThresholdAssumption DEF CopyInv, HasCounted, HasCopy, At
      <3> QED
        BY <1>1, <2>2, <3>4, StepOfTheCopy
    <2>4. CASE ~(FailureThreshold <= c.failures /\ (~triggered \/ Reminds))
      <3>1. d = Finished(c)
        BY <2>4
      <3>2. d.pc = "writing" /\ d.unwritten = Counters
            /\ d.successes = c.successes /\ d.failures = c.failures
        BY <2>1, <3>1, FinishedType
      <3> HIDE DEF d
      <3>3. CopyInv(a)' /\ HasCopy(a)'
        BY <2>1, <2>2, <3>2 DEF CopyInv, HasCounted, HasCopy, At, Counters
      <3> QED
        BY <1>1, <2>2, <3>3, StepOfTheCopy
    <2> QED
      BY <2>3, <2>4
  <1>4. CASE HandleSuccess(a)
    <2> DEFINE c == AfterSuccess(call[a])
               pc == IF SuccessThreshold > c.successes THEN "persisting" ELSE "resolving"
               d == IF ~triggered THEN Finished(c) ELSE [c EXCEPT !.pc = pc]
    <2>1. /\ c \in Calls /\ c.success
          /\ failureRun' = 0 /\ successRun' = c.successes
          /\ c.successes \in Nat
      BY <1>1, <1>2, <1>4, CountedType, ThresholdAssumption DEF HandleSuccess, Calls
    <2>2. call' = [call EXCEPT ![a] = d] /\ call'[a] = d
      BY <1>1, <1>4 DEF HandleSuccess, CallsOK
    <2> HIDE DEF c
    <2>3. CASE triggered
      <3>1. d = [c EXCEPT !.pc = pc]
        BY <2>3
      <3>2. d.pc = pc /\ d.success = c.success /\ d.failures = c.failures /\ d.successes = c.successes
        BY <2>1, <3>1 DEF Calls
      <3>3. /\ pc \in {"persisting", "resolving"}
            /\ pc = "resolving" => c.successes >= SuccessThreshold
        BY <2>1, ThresholdAssumption
      <3> HIDE DEF d, pc
      <3>4. CopyInv(a)' /\ HasCopy(a)'
        BY <2>1, <2>2, <3>2, <3>3 DEF CopyInv, HasCounted, HasCopy, At
      <3> QED
        BY <1>1, <2>2, <3>4, StepOfTheCopy
    <2>4. CASE ~triggered
      <3>1. d = Finished(c)
        BY <2>4
      <3>2. d.pc = "writing" /\ d.unwritten = Counters
            /\ d.successes = c.successes /\ d.failures = 0
        BY <2>1, <3>1, FinishedType
      <3> HIDE DEF d
      <3>3. CopyInv(a)' /\ HasCopy(a)'
        BY <2>1, <2>2, <3>2 DEF CopyInv, HasCounted, HasCopy, At, Counters
      <3> QED
        BY <1>1, <2>2, <3>3, StepOfTheCopy
    <2> QED
      BY <2>3, <2>4
  <1> QED
    BY <1>3, <1>4

\* Each counter is written once; when both are, they are the runs.
LEMMA WritingKeepsRuns ==
  ASSUME TypeOK, RunsInv, ~disturbed, NEW a \in Callers, NEW counter \in Counters,
         WriteBack(a, counter)
  PROVE  RunsInv'
  <1>1. CallsOK /\ call[a] \in Calls /\ HasCopy(a) /\ At(a, "writing")
    BY DEF TypeOK, CallsOK, WriteBack, At, HasCopy
  <1>2. /\ failureRun = (IF "failures" \in call[a].unwritten
                         THEN call[a].failures ELSE numberOfFailuresInARow)
        /\ successRun = (IF "successes" \in call[a].unwritten
                         THEN call[a].successes ELSE numberOfSuccessesInARow)
    BY <1>1 DEF RunsInv, CopyInv
  <1>3. counter \in call[a].unwritten /\ call[a].unwritten \subseteq Counters
    BY <1>1 DEF WriteBack, Calls
  <1>4. failureRun' = failureRun /\ successRun' = successRun
    BY DEF WriteBack, runVars
  <1>5. CASE call[a].unwritten = {counter}
    <2>1. CountersMatch'
      BY <1>2, <1>3, <1>4, <1>5 DEF CountersMatch, WriteBack, Counters
    <2>2. call' = [call EXCEPT ![a] = NoCall] /\ call'[a] = NoCall
      BY <1>1, <1>5 DEF WriteBack, Return, CallsOK
    <2>3. CopyInv(a)'
      BY <2>2, NoCallType DEF CopyInv, HasCounted, At
    <2> QED
      BY <1>1, <2>1, <2>2, <2>3, StepOfTheCopy
  <1>6. CASE call[a].unwritten # {counter}
    <2> DEFINE d == [call[a] EXCEPT !.unwritten = call[a].unwritten \ {counter}]
    <2>1. call' = [call EXCEPT ![a] = d] /\ call'[a] = d
      BY <1>1, <1>6 DEF WriteBack, CallsOK
    <2>2. /\ d.pc = "writing" /\ d.unwritten = call[a].unwritten \ {counter}
          /\ d.failures = call[a].failures /\ d.successes = call[a].successes
      BY <1>1 DEF Calls, At
    <2> HIDE DEF d
    <2>3. CopyInv(a)' /\ HasCopy(a)'
      BY <1>2, <1>3, <1>4, <2>1, <2>2 DEF CopyInv, HasCounted, HasCopy, At, WriteBack, Counters
    <2> QED
      BY <1>1, <2>1, <2>3, StepOfTheCopy
  <1> QED
    BY <1>5, <1>6

\* A call that leaves without having counted its result leaves the runs alone.
LEMMA LeavingKeepsRuns ==
  ASSUME CallsOK, RunsInv, ~disturbed, NEW a \in Callers,
         call[a].pc \in {"checking", "inserting", "inserted"},
         call' = [call EXCEPT ![a] = call'[a]],
         call'[a].pc \in {"idle", "inserting", "inserted"},
         call'[a].failures = call[a].failures \/ call'[a].pc = "idle",
         call'[a].successes = call[a].successes \/ call'[a].pc = "idle",
         UNCHANGED <<counterVars, runVars>>
  PROVE  RunsInv'
  <1>1. HasCopy(a)
    BY DEF HasCopy
  <1>2. CountersMatch /\ call[a].failures = failureRun /\ call[a].successes = successRun
    BY DEF RunsInv, CopyInv
  <1>3. CountersMatch'
    BY <1>2 DEF CountersMatch, counterVars, runVars
  <1>4. CopyInv(a)'
    BY <1>2, <1>3 DEF CopyInv, HasCounted, At, runVars
  <1> QED
    BY <1>1, <1>3, <1>4, StepOfTheCopy

\* It ends,
LEMMA ReturningKeepsRuns ==
  ASSUME CallsOK, RunsInv, ~disturbed, NEW a \in Callers,
         call[a].pc \in {"checking", "inserting", "inserted"},
         Return(a), UNCHANGED <<counterVars, runVars>>
  PROVE  RunsInv'
  <1>1. call' = [call EXCEPT ![a] = NoCall] /\ call'[a] = NoCall
    BY DEF Return, CallsOK
  <1>2. call' = [call EXCEPT ![a] = call'[a]] /\ call'[a].pc = "idle"
    BY <1>1, NoCallType
  <1> QED
    BY <1>2, LeavingKeepsRuns

\* or its result is stored, or given up.
LEMMA StoringKeepsRuns ==
  ASSUME CallsOK, RunsInv, ~disturbed, NEW a \in Callers,
         call[a].pc \in {"checking", "inserting", "inserted"},
         call' = [call EXCEPT ![a].pc = "inserted", ![a].age = 0],
         UNCHANGED <<counterVars, runVars>>
  PROVE  RunsInv'
  <1> DEFINE d == [call[a] EXCEPT !.pc = "inserted", !.age = 0]
  <1>1. call' = [call EXCEPT ![a] = d] /\ call'[a] = d
    BY DEF CallsOK
  <1>2. /\ d.pc = "inserted"
        /\ d.failures = call[a].failures /\ d.successes = call[a].successes
    BY DEF CallsOK, Calls
  <1> HIDE DEF d
  <1>3. call' = [call EXCEPT ![a] = call'[a]]
    BY <1>1
  <1> QED
    BY <1>1, <1>2, <1>3, LeavingKeepsRuns

\* Every step keeps the invariant.
LEMMA RunsPreserved ==
  ASSUME TypeOK, RunsInv, [Next]_vars
  PROVE  RunsInv'
  <1> USE DEF alertVars, clockVars
  <1> SUFFICES ASSUME ~disturbed' PROVE RunsInv'
    BY DEF RunsInv
  <1>0. CallsOK
    BY DEF TypeOK, CallsOK
  <1>1. ASSUME NEW p \in Pushers, NEW success \in BOOLEAN, Push(p, success)
        PROVE  RunsInv'
    <2>1. p \in Callers /\ ~HasCopy(p)
      BY <1>1 DEF Callers, Push, At, HasCopy
    <2> QED
      BY <1>1, <2>1, BeginningKeepsRuns DEF Push
  <1>2. CASE TakeTick
    <2> DEFINE d == [call[Heartbeat] EXCEPT !.pc = "acquiring"]
    <2>1. Heartbeat \in Callers /\ ~disturbed /\ call[Heartbeat] \in Calls
      BY <1>0, <1>2 DEF TakeTick, Callers, CallsOK
    <2>2. call' = [call EXCEPT ![Heartbeat] = d] /\ d.pc = "acquiring"
      BY <1>2, <2>1 DEF TakeTick, Goto, Calls
    <2> HIDE DEF d
    <2>3. \A a \in Callers : call'[a] = call[a] \/ (a = Heartbeat /\ ~HasCopy(a)' /\ ~HasCopy(a))
      BY <1>0, <1>2, <2>2 DEF TakeTick, CallsOK, HasCopy, At
    <2>4. \A a \in Callers : (HasCopy(a)' <=> HasCopy(a)) /\ (CopyInv(a) => CopyInv(a)')
      BY <1>2, <2>3 DEF TakeTick, HasCopy, CopyInv, HasCounted, At, CountersMatch, counterVars, runVars
    <2> QED
      BY <1>2, <2>1, <2>4 DEF TakeTick, RunsInv, AtRest, CountersMatch, counterVars, runVars
  <1>3. CASE CheckHeartbeat
    <2>1. Heartbeat \in Callers /\ ~HasCopy(Heartbeat)
      BY <1>3 DEF Callers, CheckHeartbeat, At, HasCopy
    <2> QED
      BY <1>3, <2>1, BeginningKeepsRuns DEF CheckHeartbeat
  <1>4. CASE NoConnectivity
    <2>1. Heartbeat \in Callers /\ ~disturbed
      BY <1>4 DEF NoConnectivity, Callers
    <2>2. \A a \in Callers : call'[a] = call[a] \/ (a = Heartbeat /\ ~HasCopy(a)' /\ ~HasCopy(a))
      BY <1>0, <1>4, <2>1, NoCallType DEF NoConnectivity, Return, CallsOK, HasCopy, At
    <2>3. \A a \in Callers : (HasCopy(a)' <=> HasCopy(a)) /\ (CopyInv(a) => CopyInv(a)')
      BY <1>4, <2>2 DEF NoConnectivity, HasCopy, CopyInv, HasCounted, At, CountersMatch, counterVars, runVars
    <2> QED
      BY <1>4, <2>1, <2>3 DEF NoConnectivity, RunsInv, AtRest, CountersMatch, counterVars, runVars
  <1>5. CASE HeartbeatSucceeds
    <2>1. /\ Heartbeat \in Callers /\ ~disturbed
          /\ call[Heartbeat].pc \in {"checking", "inserting", "inserted"}
          /\ Return(Heartbeat) /\ UNCHANGED <<counterVars, runVars>>
      BY <1>5 DEF HeartbeatSucceeds, Callers, At
    <2> QED
      BY <1>0, <2>1, ReturningKeepsRuns
  <1>6. CASE HeartbeatFails
    <2> DEFINE d == [call[Heartbeat] EXCEPT !.pc = "inserting"]
    <2>1. Heartbeat \in Callers /\ call[Heartbeat] \in Calls /\ call[Heartbeat].pc = "checking"
      BY <1>0, <1>6 DEF HeartbeatFails, Callers, CallsOK, At
    <2>2. call' = [call EXCEPT ![Heartbeat] = d] /\ call'[Heartbeat] = d
      BY <1>0, <1>6, <2>1 DEF HeartbeatFails, Goto, CallsOK
    <2>3. d.pc = "inserting" /\ d.failures = call[Heartbeat].failures /\ d.successes = call[Heartbeat].successes
      BY <2>1 DEF Calls
    <2>4. ~disturbed /\ UNCHANGED <<counterVars, runVars>>
      BY <1>6 DEF HeartbeatFails
    <2> HIDE DEF d
    <2>5. call' = [call EXCEPT ![Heartbeat] = call'[Heartbeat]]
      BY <2>2
    <2> QED
      BY <1>0, <2>1, <2>2, <2>3, <2>4, <2>5, LeavingKeepsRuns
  <1>7. ASSUME NEW a \in Callers, Proceed(a)
        PROVE  RunsInv'
    <2>1. CASE Insert(a)
      <3>1. /\ ~disturbed /\ call[a].pc \in {"checking", "inserting", "inserted"}
            /\ call' = [call EXCEPT ![a].pc = "inserted", ![a].age = 0] /\ UNCHANGED <<counterVars, runVars>>
        BY <2>1 DEF Insert, At
      <3> QED
        BY <1>0, <3>1, StoringKeepsRuns
    <2>2. CASE InsertFails(a)
      <3>0. /\ ~disturbed /\ call[a].pc \in {"checking", "inserting", "inserted"}
            /\ UNCHANGED <<counterVars, runVars>>
        BY <2>2 DEF InsertFails, At
      <3>1. CASE a = Heartbeat
        BY <1>0, <2>2, <3>0, <3>1, StoringKeepsRuns DEF InsertFails
      <3>2. CASE a # Heartbeat
        BY <1>0, <2>2, <3>0, <3>2, ReturningKeepsRuns DEF InsertFails
      <3> QED
        BY <3>1, <3>2
    <2>3. CASE SkipInMaintenance(a)
      BY <1>0, <2>3, ReturningKeepsRuns DEF SkipInMaintenance, At
    <2>4. CASE HandleFailure(a) \/ HandleSuccess(a)
      BY <2>4, CountingKeepsRuns DEF HandleFailure, HandleSuccess
    <2>5. CASE Send(a)
      BY <1>0, <2>5, GotoKeepsRuns DEF Send, HasCounted, At
    <2>6. CASE SendFails(a)
      BY <1>0, <2>6, FinishKeepsRuns DEF SendFails, HasCounted, At
    <2>7. CASE Persist(a)
      BY <1>0, <2>7, FinishKeepsRuns DEF Persist, WriteRow, HasCounted, At
    <2>8. CASE Resolve(a)
      BY <1>0, <2>8, GotoKeepsRuns DEF Resolve, HasCounted, At
    <2>9. CASE DeleteRow(a)
      BY <1>0, <2>9, GotoKeepsRuns, FinishKeepsRuns DEF DeleteRow, WriteRow, HasCounted, At
    <2>10. CASE SendResolved(a)
      BY <1>0, <2>10, FinishKeepsRuns DEF SendResolved, HasCounted, At
    <2>11. ASSUME NEW counter \in Counters, WriteBack(a, counter)
           PROVE  RunsInv'
      BY <2>11, WritingKeepsRuns DEF WriteBack
    <2> QED
      BY <1>7, <2>1, <2>2, <2>3, <2>4, <2>5, <2>6, <2>7, <2>8, <2>9, <2>10, <2>11
      DEF Proceed, HandleAlerting
  <1>8. CASE Tick
    <2>1. \A a \in Callers : /\ call'[a].pc = call[a].pc
                             /\ call'[a].success = call[a].success
                             /\ call'[a].failures = call[a].failures
                             /\ call'[a].successes = call[a].successes
                             /\ call'[a].unwritten = call[a].unwritten
      BY <1>0, <1>8 DEF Tick, CallsOK, Calls
    <2>2. \A a \in Callers : (HasCopy(a)' <=> HasCopy(a)) /\ (CopyInv(a) => CopyInv(a)')
      BY <1>8, <2>1 DEF Tick, HasCopy, CopyInv, HasCounted, At, CountersMatch, counterVars, runVars
    <2> QED
      BY <1>8, <2>2 DEF Tick, RunsInv, AtRest, CountersMatch, counterVars, runVars
  <1>9. CASE UNCHANGED vars
    BY <1>9 DEF vars, RunsInv, AtRest, HasCopy, CopyInv, HasCounted, At, CountersMatch,
                counterVars, runVars
  <1> QED
    BY <1>1, <1>2, <1>3, <1>4, <1>5, <1>6, <1>7, <1>8, <1>9 DEF Next, Begin

LEMMA RunsInvariant == Spec => []RunsInv
<1>1. Init => RunsInv
  BY NoCallType DEF Init, RunsInv, AtRest, HasCopy, CopyInv, HasCounted, At, CountersMatch
<1>2. TypeOK /\ RunsInv /\ [Next]_vars => RunsInv'
  BY RunsPreserved
<1> QED
  BY <1>1, <1>2, ExternalTypeCorrect, PTL DEF Spec

\* As long as calls come one after the other, pushes and heartbeats lose no outcome:
\* between calls the counters of the external endpoint are the runs.
THEOREM CopiesLoseNothing == Spec => []CountersAreRuns
<1>1. RunsInv => CountersAreRuns
  BY DEF RunsInv, CountersAreRuns, CountersMatch
<1> QED
  BY <1>1, RunsInvariant, PTL
-----------------------------------------------------------------------------
(***************************************************************************)
(* The alert.  Where a call stands tells whether the alert is triggered,   *)
(* and its row lags behind only while a call is about to write it.         *)
(***************************************************************************)
PlaceInv(a) ==
    /\ call[a].pc \in {"reminding", "persisting", "resolving"} => triggered
    /\ call[a].pc \in {"announcing", "deleting", "notifying"} => ~triggered

AboutToWrite(a) == call[a].pc \in {"persisting", "deleting"}

AlertInv ==
    ~disturbed =>
        /\ triggered => announced
        /\ (\A a \in Callers : ~AboutToWrite(a)) => (row <=> triggered)
        /\ \A a \in Callers : PlaceInv(a)

\* A step that leaves the alert alone, and takes nobody where the alert matters.
LEMMA QuietStep ==
  ASSUME AlertInv, ~disturbed, UNCHANGED alertVars,
         \A b \in Callers :
            \/ call'[b].pc = call[b].pc
            \/ /\ ~AboutToWrite(b)
               /\ call'[b].pc \in {"idle", "acquiring", "checking", "inserting", "inserted", "writing"}
  PROVE  AlertInv'
  <1>1. \A b \in Callers : ~AboutToWrite(b)' => ~AboutToWrite(b)
    BY DEF AboutToWrite
  <1>2. \A b \in Callers : PlaceInv(b)'
    BY DEF AlertInv, PlaceInv, alertVars
  <1> QED
    BY <1>1, <1>2 DEF AlertInv, alertVars

\* A step of the only copy that changes the alert, or that goes where it matters.
LEMMA AlertStep ==
  ASSUME CallsOK, RunsInv, ~disturbed, NEW a \in Callers, HasCopy(a),
         call' = [call EXCEPT ![a] = call'[a]],
         triggered' => announced',
         ~AboutToWrite(a)' => (row' <=> triggered'),
         PlaceInv(a)'
  PROVE  AlertInv'
  <1>1. \A b \in Callers \ {a} : ~HasCopy(b) /\ call'[b] = call[b]
    BY DEF RunsInv, CallsOK
  <1>2. \A b \in Callers \ {a} : PlaceInv(b)'
    BY <1>1 DEF HasCopy, PlaceInv
  <1> QED
    BY <1>2 DEF AlertInv

\* The only copy has no other place, so that a row that is not about to be written is right.
LEMMA RowIsRight ==
  ASSUME RunsInv, AlertInv, ~disturbed, NEW a \in Callers, HasCopy(a), ~AboutToWrite(a)
  PROVE  (row <=> triggered) /\ (triggered => announced) /\ PlaceInv(a)
  <1>1. \A b \in Callers \ {a} : ~AboutToWrite(b)
    BY DEF RunsInv, HasCopy, AboutToWrite
  <1> QED
    BY <1>1 DEF AlertInv

\* The result is counted: the call goes on according to the alert.
LEMMA CountingKeepsAlert ==
  ASSUME TypeOK, RunsInv, AlertInv, ~disturbed, NEW a \in Callers,
         HandleFailure(a) \/ HandleSuccess(a)
  PROVE  AlertInv'
  <1>1. /\ CallsOK /\ call[a] \in Calls /\ HasCopy(a) /\ ~AboutToWrite(a)
        /\ UNCHANGED alertVars
    BY DEF TypeOK, CallsOK, HandleFailure, HandleSuccess, At, HasCopy, AboutToWrite
  <1>2. (row <=> triggered) /\ (triggered => announced)
    BY <1>1, RowIsRight
  <1>3. /\ call' = [call EXCEPT ![a] = call'[a]]
        /\ \/ call'[a].pc = "writing"
           \/ call'[a].pc = "announcing" /\ ~triggered
           \/ call'[a].pc \in {"reminding", "persisting", "resolving"} /\ triggered
    <2>1. CASE HandleFailure(a)
      <3> DEFINE c == AfterFailure(call[a])
                 pc == IF triggered THEN "reminding" ELSE "announcing"
                 d == IF FailureThreshold <= c.failures /\ (~triggered \/ Reminds)
                      THEN [c EXCEPT !.pc = pc]
                      ELSE Finished(c)
      <3>1. c \in Calls
        BY <1>1, CountedType
      <3>2. call' = [call EXCEPT ![a] = d] /\ call'[a] = d
        BY <1>1, <2>1 DEF HandleFailure, CallsOK
      <3> HIDE DEF c
      <3>3. [c EXCEPT !.pc = pc].pc = pc /\ Finished(c).pc = "writing"
        BY <3>1, FinishedType DEF Calls
      <3>4. d.pc = "writing" \/ d.pc = pc
        BY <3>3
      <3> HIDE DEF d
      <3> QED
        BY <3>2, <3>4
    <2>2. CASE HandleSuccess(a)
      <3> DEFINE c == AfterSuccess(call[a])
                 pc == IF SuccessThreshold > c.successes THEN "persisting" ELSE "resolving"
                 d == IF ~triggered THEN Finished(c) ELSE [c EXCEPT !.pc = pc]
      <3>1. c \in Calls
        BY <1>1, CountedType
      <3>2. call' = [call EXCEPT ![a] = d] /\ call'[a] = d
        BY <1>1, <2>2 DEF HandleSuccess, CallsOK
      <3> HIDE DEF c
      <3>3. [c EXCEPT !.pc = pc].pc = pc /\ Finished(c).pc = "writing"
        BY <3>1, FinishedType DEF Calls
      <3>4. d.pc = "writing" \/ (d.pc = pc /\ triggered)
        BY <3>3
      <3>5. pc \in {"persisting", "resolving"}
        OBVIOUS
      <3> HIDE DEF d, pc
      <3> QED
        BY <3>2, <3>4, <3>5
    <2> QED
      BY <2>1, <2>2
  <1>4. PlaceInv(a)'
    BY <1>1, <1>3 DEF PlaceInv, alertVars
  <1> QED
    BY <1>1, <1>2, <1>3, <1>4, AlertStep DEF alertVars

\* The places of the calls after a step that moves one call.
LEMMA GotoPlace ==
  ASSUME CallsOK, NEW a \in Callers, NEW where \in Steps, Goto(a, where)
  PROVE  call' = [call EXCEPT ![a] = call'[a]] /\ call'[a].pc = where
  <1> DEFINE d == [call[a] EXCEPT !.pc = where]
  <1>1. call' = [call EXCEPT ![a] = d] /\ call'[a] = d
    BY DEF Goto, CallsOK
  <1>2. d.pc = where
    BY DEF CallsOK, Calls
  <1> HIDE DEF d
  <1> QED
    BY <1>1, <1>2

LEMMA FinishPlace ==
  ASSUME CallsOK, NEW a \in Callers, FinishHandling(a)
  PROVE  call' = [call EXCEPT ![a] = call'[a]] /\ call'[a].pc = "writing"
  <1> DEFINE d == Finished(call[a])
  <1>1. call' = [call EXCEPT ![a] = d] /\ call'[a] = d
    BY DEF FinishHandling, CallsOK
  <1>2. d.pc = "writing"
    BY FinishedType DEF CallsOK
  <1> HIDE DEF d
  <1> QED
    BY <1>1, <1>2

LEMMA ReturnPlace ==
  ASSUME CallsOK, NEW a \in Callers, Return(a)
  PROVE  call' = [call EXCEPT ![a] = call'[a]] /\ call'[a].pc = "idle"
  <1>1. call' = [call EXCEPT ![a] = NoCall] /\ call'[a] = NoCall
    BY DEF Return, CallsOK
  <1> QED
    BY <1>1, NoCallType

\* A message is sent, or refused.
LEMMA SendingKeepsAlert ==
  ASSUME TypeOK, RunsInv, AlertInv, ~disturbed, NEW a \in Callers,
         Send(a) \/ SendFails(a) \/ SendResolved(a)
  PROVE  AlertInv'
  <1>1. /\ CallsOK /\ HasCopy(a) /\ ~AboutToWrite(a)
    BY DEF TypeOK, CallsOK, Send, SendFails, SendResolved, At, HasCopy, AboutToWrite
  <1>2. (row <=> triggered) /\ (triggered => announced) /\ PlaceInv(a)
    BY <1>1, RowIsRight
  <1>3. CASE Send(a)
    <2>1. call' = [call EXCEPT ![a] = call'[a]] /\ call'[a].pc = "persisting"
      BY <1>1, <1>3, GotoPlace DEF Send, Steps
    <2>2. triggered' /\ announced'
      BY <1>2, <1>3 DEF Send, PlaceInv, At
    <2> QED
      BY <1>1, <2>1, <2>2, AlertStep DEF PlaceInv, AboutToWrite
  <1>4. CASE SendFails(a)
    <2>1. call' = [call EXCEPT ![a] = call'[a]] /\ call'[a].pc = "writing"
      BY <1>1, <1>4, FinishPlace DEF SendFails
    <2> QED
      BY <1>1, <1>2, <1>4, <2>1, AlertStep DEF SendFails, alertVars, PlaceInv, AboutToWrite
  <1>5. CASE SendResolved(a)
    <2>1. call' = [call EXCEPT ![a] = call'[a]] /\ call'[a].pc = "writing"
      BY <1>1, <1>5, FinishPlace DEF SendResolved
    <2>2. ~triggered /\ triggered' = triggered /\ row' = row
      BY <1>2, <1>5 DEF SendResolved, PlaceInv, At
    <2> QED
      BY <1>1, <1>2, <2>1, <2>2, AlertStep DEF PlaceInv, AboutToWrite
  <1> QED
    BY <1>3, <1>4, <1>5

\* The row is written or deleted; a write that is lost disturbs.
LEMMA RowKeepsAlert ==
  ASSUME TypeOK, RunsInv, AlertInv, ~disturbed', NEW a \in Callers,
         Persist(a) \/ Resolve(a) \/ DeleteRow(a)
  PROVE  AlertInv'
  <1>1. CallsOK /\ HasCopy(a)
    BY DEF TypeOK, CallsOK, Persist, Resolve, DeleteRow, At, HasCopy
  <1>2. CASE Persist(a)
    <2>1. call' = [call EXCEPT ![a] = call'[a]] /\ call'[a].pc = "writing"
      BY <1>1, <1>2, FinishPlace DEF Persist
    <2>2. ~disturbed /\ row' = TRUE
      BY <1>2 DEF Persist, WriteRow
    <2>3. triggered /\ announced /\ triggered' = triggered /\ announced' = announced
      BY <1>2, <2>2 DEF Persist, At, AlertInv, PlaceInv
    <2> QED
      BY <1>1, <2>1, <2>2, <2>3, AlertStep DEF PlaceInv
  <1>3. CASE Resolve(a)
    <2>1. call' = [call EXCEPT ![a] = call'[a]] /\ call'[a].pc = "deleting"
      BY <1>1, <1>3, GotoPlace DEF Resolve, Steps
    <2>2. ~disturbed /\ ~triggered'
      BY <1>3 DEF Resolve
    <2> QED
      BY <1>1, <2>1, <2>2, AlertStep DEF PlaceInv, AboutToWrite
  <1>4. CASE DeleteRow(a)
    <2>1. /\ call' = [call EXCEPT ![a] = call'[a]]
          /\ call'[a].pc = "writing" \/ call'[a].pc = "notifying"
      BY <1>1, <1>4, FinishPlace, GotoPlace DEF DeleteRow, Steps
    <2>2. ~disturbed /\ row' = FALSE
      BY <1>4 DEF DeleteRow, WriteRow
    <2>3. ~triggered /\ triggered' = triggered
      BY <1>4, <2>2 DEF DeleteRow, At, AlertInv, PlaceInv
    <2> QED
      BY <1>1, <2>1, <2>2, <2>3, AlertStep DEF PlaceInv
  <1> QED
    BY <1>2, <1>3, <1>4

\* Every step keeps the invariant.
LEMMA AlertPreserved ==
  ASSUME TypeOK, RunsInv, AlertInv, [Next]_vars
  PROVE  AlertInv'
  <1> SUFFICES ASSUME ~disturbed' PROVE AlertInv'
    BY DEF AlertInv
  <1>0. CallsOK
    BY DEF TypeOK, CallsOK
  <1>1. ASSUME NEW a \in Callers, ~disturbed, UNCHANGED alertVars, ~AboutToWrite(a),
               call' = [call EXCEPT ![a] = call'[a]],
               call'[a].pc \in {"idle", "acquiring", "checking", "inserting", "inserted", "writing"}
        PROVE  AlertInv'
    <2>1. \A b \in Callers : b = a \/ call'[b].pc = call[b].pc
      BY <1>0, <1>1 DEF CallsOK
    <2> QED
      BY <1>1, <2>1, QuietStep
  <1>2. ASSUME NEW a \in Callers, NEW where \in {"inserting", "checking"}, NEW success \in BOOLEAN,
               ~HasCopy(a), ToEndpoint(a, where, success), NoteOverlap(a), UNCHANGED alertVars
        PROVE  AlertInv'
    <2> DEFINE d == [NoCall EXCEPT !.pc = where, !.success = success,
                                   !.failures = numberOfFailuresInARow,
                                   !.successes = numberOfSuccessesInARow]
    <2>1. call' = [call EXCEPT ![a] = d] /\ call'[a] = d
      BY <1>0, <1>2 DEF ToEndpoint, CallsOK
    <2>2. d.pc = where
      BY DEF NoCall
    <2>3. ~disturbed /\ ~AboutToWrite(a)
      BY <1>2 DEF NoteOverlap, HasCopy, AboutToWrite
    <2> HIDE DEF d
    <2> QED
      BY <1>1, <1>2, <2>1, <2>2, <2>3
  <1>3. ASSUME NEW p \in Pushers, NEW success \in BOOLEAN, Push(p, success)
        PROVE  AlertInv'
    BY <1>2, <1>3 DEF Push, At, HasCopy, Callers
  <1>4. CASE TakeTick
    <2>1. Heartbeat \in Callers /\ ~disturbed /\ ~AboutToWrite(Heartbeat) /\ UNCHANGED alertVars
      BY <1>4 DEF TakeTick, Callers, At, AboutToWrite, alertVars
    <2>2. call' = [call EXCEPT ![Heartbeat] = call'[Heartbeat]] /\ call'[Heartbeat].pc = "acquiring"
      BY <1>0, <1>4, <2>1, GotoPlace DEF TakeTick, Steps
    <2> QED
      BY <1>1, <2>1, <2>2
  <1>5. CASE CheckHeartbeat
    BY <1>2, <1>5 DEF CheckHeartbeat, At, HasCopy, Callers
  <1>6. CASE NoConnectivity \/ HeartbeatSucceeds
    <2>1. /\ Heartbeat \in Callers /\ ~disturbed /\ ~AboutToWrite(Heartbeat)
          /\ Return(Heartbeat) /\ UNCHANGED alertVars
      <3>1. CASE NoConnectivity
        BY <3>1 DEF NoConnectivity, Callers, At, AboutToWrite
      <3>2. CASE HeartbeatSucceeds
        BY <3>2 DEF HeartbeatSucceeds, Callers, At, AboutToWrite
      <3> QED
        BY <1>6, <3>1, <3>2
    <2>2. call' = [call EXCEPT ![Heartbeat] = call'[Heartbeat]] /\ call'[Heartbeat].pc = "idle"
      BY <1>0, <2>1, ReturnPlace
    <2> QED
      BY <1>1, <2>1, <2>2
  <1>7. CASE HeartbeatFails
    <2>1. Heartbeat \in Callers /\ ~disturbed /\ ~AboutToWrite(Heartbeat) /\ UNCHANGED alertVars
      BY <1>7 DEF HeartbeatFails, Callers, At, AboutToWrite, alertVars
    <2>2. call' = [call EXCEPT ![Heartbeat] = call'[Heartbeat]] /\ call'[Heartbeat].pc = "inserting"
      BY <1>0, <1>7, <2>1, GotoPlace DEF HeartbeatFails, Steps
    <2> QED
      BY <1>1, <2>1, <2>2
  <1>8. ASSUME NEW a \in Callers, Proceed(a)
        PROVE  AlertInv'
    <2>1. CASE Insert(a) \/ InsertFails(a) \/ SkipInMaintenance(a)
      <3>1. ~disturbed /\ ~AboutToWrite(a) /\ UNCHANGED alertVars
        BY <2>1 DEF Insert, InsertFails, SkipInMaintenance, At, AboutToWrite, alertVars
      <3>2. CASE Return(a)
        BY <1>0, <1>1, <3>1, <3>2, ReturnPlace
      <3>3. CASE call' = [call EXCEPT ![a].pc = "inserted", ![a].age = 0]
        <4> DEFINE d == [call[a] EXCEPT !.pc = "inserted", !.age = 0]
        <4>1. call' = [call EXCEPT ![a] = d] /\ call'[a] = d
          BY <1>0, <3>3 DEF CallsOK
        <4>2. d.pc = "inserted"
          BY <1>0 DEF CallsOK, Calls
        <4> HIDE DEF d
        <4> QED
          BY <1>1, <3>1, <4>1, <4>2
      <3> QED
        BY <2>1, <3>2, <3>3 DEF Insert, InsertFails, SkipInMaintenance
    <2>2. CASE HandleFailure(a) \/ HandleSuccess(a)
      BY <2>2, CountingKeepsAlert DEF HandleFailure, HandleSuccess
    <2>3. CASE Send(a) \/ SendFails(a) \/ SendResolved(a)
      <3>1. ~disturbed
        BY <2>3 DEF Send, SendFails, SendResolved
      <3> QED
        BY <2>3, <3>1, SendingKeepsAlert
    <2>4. CASE Persist(a) \/ Resolve(a) \/ DeleteRow(a)
      BY <2>4, RowKeepsAlert
    <2>5. ASSUME NEW counter \in Counters, WriteBack(a, counter)
          PROVE  AlertInv'
      <3>1. ~disturbed /\ ~AboutToWrite(a) /\ UNCHANGED alertVars
        BY <2>5 DEF WriteBack, At, AboutToWrite, alertVars
      <3>2. CASE Return(a)
        BY <1>0, <1>1, <3>1, <3>2, ReturnPlace
      <3>3. CASE call' = [call EXCEPT ![a].unwritten = @ \ {counter}]
        <4> DEFINE d == [call[a] EXCEPT !.unwritten = call[a].unwritten \ {counter}]
        <4>1. call' = [call EXCEPT ![a] = d] /\ call'[a] = d
          BY <1>0, <3>3 DEF CallsOK
        <4>2. d.pc = "writing"
          BY <1>0, <2>5 DEF CallsOK, Calls, WriteBack, At
        <4> HIDE DEF d
        <4> QED
          BY <1>1, <3>1, <4>1, <4>2
      <3> QED
        BY <2>5, <3>2, <3>3 DEF WriteBack
    <2> QED
      BY <1>8, <2>1, <2>2, <2>3, <2>4, <2>5 DEF Proceed, HandleAlerting
  <1>9. CASE Tick
    <2>1. \A b \in Callers : call'[b].pc = call[b].pc
      BY <1>0, <1>9 DEF Tick, CallsOK, Calls
    <2> QED
      BY <1>9, <2>1, QuietStep DEF Tick
  <1>10. CASE UNCHANGED vars
    BY <1>10, QuietStep DEF vars
  <1> QED
    BY <1>3, <1>4, <1>5, <1>6, <1>7, <1>8, <1>9, <1>10 DEF Next, Begin

\* As long as calls come one after the other and the table takes every write, a triggered
\* alert was announced, whatever the provider refuses, and between calls the alert has
\* its row exactly when it is triggered.
THEOREM AlertStaysInStep == Spec => []AlertIsInStep
<1>1. Init => AlertInv
  BY NoCallType DEF Init, AlertInv, PlaceInv
<1>2. TypeOK /\ RunsInv /\ AlertInv /\ [Next]_vars => AlertInv'
  BY AlertPreserved
<1>3. AlertInv => AlertIsInStep
  BY DEF AlertInv, AlertIsInStep, AtRest, HasCopy, AboutToWrite
<1> QED
  BY <1>1, <1>2, <1>3, ExternalTypeCorrect, RunsInvariant, PTL DEF Spec
-----------------------------------------------------------------------------
(***************************************************************************)
(* The refinement.  RunsInv says that a call about to announce or to       *)
(* resolve has reached the threshold with the run, not only with its copy. *)
(***************************************************************************)
LEMMA StepRefines ==
  ASSUME TypeOK, RunsInv, [Next]_vars, ~disturbed'
  PROVE  [I!Next]_(I!vars)
  <1>1. ASSUME triggered' = triggered, UNCHANGED runVars
        PROVE  UNCHANGED I!vars
    BY <1>1 DEF I!vars, runVars
  <1>2. ASSUME NEW a \in Callers, Proceed(a)
        PROVE  [I!Next]_(I!vars)
    <2>1. CASE HandleFailure(a)
      <3>1. I!Observe(FALSE)
        BY <2>1 DEF HandleFailure, I!Observe, I!Longer, Bump, alertVars
      <3> QED
        BY <3>1 DEF I!Next
    <2>2. CASE HandleSuccess(a)
      <3>1. I!Observe(TRUE)
        BY <2>2 DEF HandleSuccess, I!Observe, I!Longer, Bump, alertVars
      <3> QED
        BY <3>1 DEF I!Next
    <2>3. CASE Send(a) /\ At(a, "announcing")
      <3>1. failureRun >= FailureThreshold
        BY <2>3 DEF Send, RunsInv, CopyInv
      <3>2. triggered' = TRUE /\ UNCHANGED runVars
        BY <2>3 DEF Send
      <3>3. I!Open("alert")
        BY <3>1, <3>2 DEF I!Open, runVars
      <3> QED
        BY <3>3 DEF I!Next
    <2>4. CASE Send(a) /\ ~At(a, "announcing")
      <3>1. triggered' = triggered
        BY <2>4 DEF Send, TypeOK
      <3> QED
        BY <1>1, <2>4, <3>1 DEF Send
    <2>5. CASE Resolve(a)
      <3>1. successRun >= SuccessThreshold
        BY <2>5 DEF Resolve, RunsInv, CopyInv
      <3>2. triggered' = FALSE /\ UNCHANGED runVars
        BY <2>5 DEF Resolve
      <3>3. I!Close("alert")
        BY <3>1, <3>2 DEF I!Close, runVars
      <3> QED
        BY <3>3 DEF I!Next
    <2>6. CASE \/ Insert(a) \/ InsertFails(a) \/ SkipInMaintenance(a)
               \/ SendFails(a) \/ Persist(a) \/ DeleteRow(a) \/ SendResolved(a)
      BY <1>1, <2>6 DEF Insert, InsertFails, SkipInMaintenance, SendFails, Persist, DeleteRow,
                        SendResolved, alertVars
    <2>7. ASSUME NEW counter \in Counters, WriteBack(a, counter)
          PROVE  [I!Next]_(I!vars)
      BY <1>1, <2>7 DEF WriteBack, alertVars
    <2> QED
      BY <1>2, <2>1, <2>2, <2>3, <2>4, <2>5, <2>6, <2>7 DEF Proceed, HandleAlerting
  <1>3. CASE Begin \/ Tick \/ UNCHANGED vars
    BY <1>1, <1>3 DEF Begin, Push, TakeTick, CheckHeartbeat, NoConnectivity, HeartbeatSucceeds,
                      HeartbeatFails, Tick, vars, alertVars
  <1> QED
    BY <1>2, <1>3 DEF Next

\* As long as calls come one after the other, pushes and heartbeats together, each on a
\* copy of its own, open and close the incident as Incident demands.
THEOREM CallsImplementIncident == Spec => ImplementsIncidentAlone
<1>1. Init => I!Init
  BY DEF Init, I!Init
<1>2. TypeOK /\ RunsInv /\ [Next]_vars => [~disturbed' => I!Next]_(I!vars)
  BY StepRefines
<1> QED
  BY <1>1, <1>2, ExternalTypeCorrect, RunsInvariant, PTL DEF Spec, ImplementsIncidentAlone
=============================================================================
