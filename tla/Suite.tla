-------------------------------- MODULE Suite -------------------------------
(***************************************************************************)
(* One suite: suite.Execute runs its endpoints one after the other with a  *)
(* context they share, and watchdog.executeSuite stores the result and     *)
(* hands the results of the endpoints to the alert handler.  The suite is  *)
(* executed again on every tick of its ticker.                             *)
(*                                                                         *)
(* The context maps a key to the endpoint that stored its value, to        *)
(* Initial for a value of the configuration, or to Missing.                *)
(***************************************************************************)
EXTENDS Naturals, Sequences, SequencesExt

CONSTANTS
    EndpointCount,   \* len(s.Endpoints)
    AlwaysRun,       \* Endpoint.AlwaysRun of every endpoint
    Keys,            \* keys of the context
    InitialContext,  \* the keys the configuration gives a value
    Uses,            \* the keys an endpoint's URL, body or headers refer to
    Stores,          \* the keys an endpoint stores
    Initial, Missing \* model values

Endpoints == 1 .. EndpointCount

ASSUME SuiteAssumption ==
    /\ EndpointCount \in Nat \ {0}
    /\ AlwaysRun \in [Endpoints -> BOOLEAN]
    /\ InitialContext \subseteq Keys
    /\ Uses \in [Endpoints -> SUBSET Keys]
    /\ Stores \in [Endpoints -> SUBSET Keys]
    /\ Initial # Missing
    /\ {Initial, Missing} \intersect Endpoints = {}

VARIABLES
    phase,           \* where executeSuite is
    next,            \* the endpoint the loop is at
    context,         \* the Gontext of this execution
    suiteHasFailed,  \* the local variable of Execute
    timer,           \* timeoutChan: armed, fired, or drained by the select
    errors,          \* has the suite result an error of its own?
    results,         \* result.EndpointResults
    success,         \* result.Success
    handled,         \* the result each endpoint's alerts were last given
    extracted        \* the keys whose value some response contained (auxiliary)

vars == <<phase, next, context, suiteHasFailed, timer, errors, results, success, handled, extracted>>

EndpointResult == [endpoint : Endpoints, success : BOOLEAN, called : BOOLEAN]
NoResult == [endpoint |-> Missing]

Fresh == [k \in Keys |-> IF k \in InitialContext THEN Initial ELSE Missing]

Init ==
    /\ phase = "waiting"
    /\ next = 1
    /\ context = Fresh
    /\ suiteHasFailed = FALSE
    /\ timer = "armed"
    /\ errors = FALSE
    /\ results = <<>>
    /\ success = TRUE
    /\ handled = [i \in Endpoints |-> NoResult]
    /\ extracted = {}

\* Slip: the context of the previous execution goes on being used.
ExecuteWithOldContext ==
    /\ phase = "waiting"
    /\ phase' = "looping"
    /\ next' = 1
    /\ suiteHasFailed' = FALSE
    /\ timer' = "armed"
    /\ errors' = FALSE
    /\ results' = <<>>
    /\ success' = TRUE
    /\ handled' = [i \in Endpoints |-> NoResult]
    /\ extracted' = {}
    /\ UNCHANGED context

\* The ticker fires, the semaphore is acquired and there is connectivity:
\* Execute starts with a copy of the configured context and a new timer.
Execute ==
    /\ phase = "waiting"
    /\ phase' = "looping"
    /\ next' = 1
    /\ context' = Fresh
    /\ suiteHasFailed' = FALSE
    /\ timer' = "armed"
    /\ errors' = FALSE
    /\ results' = <<>>
    /\ success' = TRUE
    /\ handled' = [i \in Endpoints |-> NoResult]
    /\ extracted' = {}

TimerFires ==
    /\ phase \in {"looping", "evaluating"}
    /\ timer = "armed"
    /\ timer' = "fired"
    /\ UNCHANGED <<phase, next, context, suiteHasFailed, errors, results, success, handled, extracted>>

\* Slip: a failure skips what is marked to run always, too.
SkipAlsoAlwaysRun ==
    /\ phase = "looping" /\ next \in Endpoints
    /\ suiteHasFailed
    /\ next' = next + 1
    /\ UNCHANGED <<phase, context, suiteHasFailed, timer, errors, results, success, handled, extracted>>

\* A failure skips the endpoints that do not run always.
Skip ==
    /\ phase = "looping" /\ next \in Endpoints
    /\ suiteHasFailed /\ ~AlwaysRun[next]
    /\ next' = next + 1
    /\ UNCHANGED <<phase, context, suiteHasFailed, timer, errors, results, success, handled, extracted>>

\* The select on timeoutChan.  Its break leaves the select and not the loop, so
\* that the endpoint is evaluated in either case; the channel is empty afterwards.
CheckTimeout ==
    /\ phase = "looping" /\ next \in Endpoints
    /\ ~suiteHasFailed \/ AlwaysRun[next]
    /\ phase' = "evaluating"
    /\ IF timer = "fired"
       THEN timer' = "drained" /\ errors' = TRUE /\ success' = FALSE
       ELSE UNCHANGED <<timer, errors, success>>
    /\ UNCHANGED <<next, context, suiteHasFailed, results, handled, extracted>>

\* Slip: the values of a failed endpoint are not stored.
StoredOnSuccess(i, stored, healthy) == IF healthy THEN stored ELSE {}

\* The values that could be extracted are stored, even on failure.
StoreResultValues(i, stored, healthy) == stored

\* EvaluateHealthWithContext: a placeholder without a value is an error, and
\* with an error the endpoint is not called and has failed.  Any subset of the
\* values to store may turn out not to be in the response.
Evaluate ==
    /\ phase = "evaluating"
    /\ \E healthy \in BOOLEAN, stored \in SUBSET Stores[next] :
         LET resolved == \A k \in Uses[next] : context[k] # Missing
             result == [endpoint |-> next, success |-> healthy /\ resolved, called |-> resolved]
         IN  /\ ~resolved => ~healthy
             /\ context' = [k \in Keys |-> IF k \in StoreResultValues(next, stored, healthy)
                                           THEN next ELSE context[k]]
             /\ extracted' = extracted \union stored
             /\ results' = Append(results, result)
             /\ suiteHasFailed' = (suiteHasFailed \/ ~result.success)
             /\ success' = (success /\ result.success)
    /\ phase' = "looping"
    /\ next' = next + 1
    /\ UNCHANGED <<timer, errors, handled>>

CalculateSuccess == (\A r \in ToSet(results) : r.success) /\ ~errors

\* The loop is over: CalculateSuccess, then UpdateSuiteStatus stores the result.
Finish ==
    /\ phase = "looping" /\ next = EndpointCount + 1
    /\ success' = CalculateSuccess
    /\ phase' = "alerting"
    /\ next' = 1
    /\ UNCHANGED <<context, suiteHasFailed, timer, errors, results, handled, extracted>>

\* The i-th endpoint is paired with the i-th result, unless the program or the
\* endpoint is under maintenance.
Alert ==
    /\ phase = "alerting" /\ next \in Endpoints
    /\ \/ /\ next <= Len(results)
          /\ handled' = [handled EXCEPT ![next] = results[next]]
       \/ UNCHANGED handled
    /\ next' = next + 1
    /\ UNCHANGED <<phase, context, suiteHasFailed, timer, errors, results, success, extracted>>

Done ==
    /\ phase = "alerting" /\ next = EndpointCount + 1
    /\ phase' = "waiting"
    /\ next' = 1
    /\ UNCHANGED <<context, suiteHasFailed, timer, errors, results, success, handled, extracted>>

Next == Execute \/ TimerFires \/ Skip \/ CheckTimeout \/ Evaluate \/ Finish \/ Alert \/ Done

Spec == Init /\ [][Next]_vars
-----------------------------------------------------------------------------
(* Properties *)

(* The shapes of the suite's state: how far Execute has come, what the
   endpoints of this execution gave, and what the context holds. *)
TypeOK ==
    /\ phase \in {"waiting", "looping", "evaluating", "alerting"}
    /\ next \in 1 .. EndpointCount + 1
    /\ phase = "evaluating" => next \in Endpoints
    /\ context \in [Keys -> Endpoints \union {Initial, Missing}]
    /\ suiteHasFailed \in BOOLEAN
    /\ timer \in {"armed", "fired", "drained"}
    /\ errors \in BOOLEAN
    /\ results \in Seq(EndpointResult)
    /\ success \in BOOLEAN
    /\ handled \in [Endpoints -> EndpointResult \union {NoResult}]
    /\ extracted \subseteq Keys

Ran(i) == \E r \in ToSet(results) : r.endpoint = i
Failed(i) == \E r \in ToSet(results) : r.endpoint = i /\ ~r.success

\* When the loop is over, exactly those endpoints have run that had to: the ones
\* before the first failure, the failing one, and after it those marked to run
\* always; each one once and in the order of the configuration.  The stored result
\* is a success only if every endpoint of the suite ran, every one succeeded, and
\* the timeout was not noticed on the way.
RightEndpointsRan ==
    phase = "alerting" =>
        /\ success <=> (\A i \in Endpoints : Ran(i) /\ ~Failed(i)) /\ ~errors
        /\ \A i \in Endpoints : Ran(i) <=> AlwaysRun[i] \/ ~\E j \in 1 .. i - 1 : Failed(j)
        /\ \A m, n \in 1 .. Len(results) : m < n => results[m].endpoint < results[n].endpoint

\* A value of the context was stored in this execution by an endpoint that ran,
\* or comes from the configuration: nothing leaks from one execution to the next.
\* A cleanup endpoint that runs always still finds what an earlier endpoint
\* obtained, even if the endpoint that obtained it had failed: no value found in a
\* response is missing from the context.
ContextIsOfThisExecution ==
    /\ phase # "waiting" => \A k \in Keys :
          /\ context[k] \in Endpoints => Ran(context[k]) /\ k \in Stores[context[k]]
          /\ context[k] = Initial => k \in InitialContext
    /\ phase = "looping" => \A k \in extracted : context[k] \in Endpoints

\* No endpoint is started once the suite has run for its timeout.
NothingStartsAfterTimeout ==
    [][phase = "looping" /\ phase' = "evaluating" => timer = "armed"]_vars

\* The alerts of an endpoint are given the result of that endpoint.
AlertsGetTheirOwnResult ==
    \A i \in Endpoints : handled[i] # NoResult => handled[i].endpoint = i
=============================================================================
