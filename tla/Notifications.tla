---------------------------- MODULE Notifications ----------------------------
(***************************************************************************)
(* alerting/provider/*/*.go: Send, request by request, as HandleAlerting   *)
(* calls it for one alert: again after a failure, for reminders, and once  *)
(* when the alert is resolved.  A request may be refused, its answer may   *)
(* be lost or not be legible.  The service keeps incidents, named by       *)
(* numbers: 0 is no key and 1 the name that the endpoint gives.            *)
(***************************************************************************)
EXTENDS ProviderCatalog, Naturals, FiniteSets, Sequences, SequencesExt

CONSTANTS
    Recipients,    \* a sequence
    MaxIncidents   \* bound: incidents and keys that are ever made

\* A list of recipients is required, where there is one.
ASSUME NotificationAssumption ==
    /\ Recipients \in Seq(ToSet(Recipients)) /\ Recipients # <<>>
    /\ MaxIncidents \in Nat

VARIABLES
    sends,          \* how the provider sends
    sendOnResolved, \* Alert.SendOnResolved
    alertTriggered, \* Alert.Triggered
    resolveKey,     \* Alert.ResolveKey
    sending,        \* what Send is doing, or how it ended
    requests,       \* the requests it has still to make
    informed,       \* the recipients that got this notification
    incidents,      \* the incidents that are open at the service
    made,           \* how many keys were ever made
    forgotten,      \* incidents whose key was replaced or never read (auxiliary)
    unlisted        \* incidents that the last listing left out (auxiliary)

notificationVars == <<sends, sendOnResolved, alertTriggered, resolveKey, sending, requests,
                      informed, incidents, made, forgotten, unlisted>>

NoKey == 0
OfTheEndpoint == 1
Fresh == made + 2
Keys == NoKey .. MaxIncidents + 1

NotificationInit ==
    /\ sends = Tells
    /\ sendOnResolved = FALSE
    /\ alertTriggered = FALSE
    /\ resolveKey = NoKey
    /\ sending = "not-configured" /\ requests = <<>>
    /\ informed = {} /\ incidents = {}
    /\ made = 0 /\ forgotten = {} /\ unlisted = {}

\* The configuration names the provider.
ConfigureAlert ==
    /\ sending = "not-configured"
    /\ sending' = "nothing"
    /\ sends' \in {p.sends : p \in Catalog}
    /\ sendOnResolved' \in BOOLEAN
    /\ UNCHANGED <<alertTriggered, resolveKey, requests, informed, incidents, made, forgotten, unlisted>>

Request(op, key) == [op |-> op, key |-> key]

\* Slip: a key for every notification.
KeyMadeEveryTime ==
    sends.key \in {"made", "made-and-answered"}

\* GitLab and incident.io: a key is made for the first notification.
MakesKey == sends.key \in {"made", "made-and-answered"} /\ resolveKey = NoKey

KeyFor(resolved) ==
    CASE MakesKey -> Fresh
      [] sends.key \in {"of-the-endpoint", "alias"} -> OfTheEndpoint
      \* PagerDuty: a trigger has no key, so every reminder is a new incident.
      [] sends.key = "answered" /\ ~resolved -> NoKey
      [] OTHER -> resolveKey

RequestsFor(resolved) ==
    CASE sends.does = "tell" /\ sends.each -> [i \in DOMAIN Recipients |-> Request("tell", i)]
      [] sends.does = "tell" /\ ~sends.each -> <<Request("tell-all", NoKey)>>
      [] sends.does = "ticket" -> <<Request(IF resolved THEN "list" ELSE "open", NoKey)>>
      \* Opsgenie: the resolution is first written to the alert, then it is closed.
      [] sends.key = "alias" /\ resolved ->
            <<Request("open", OfTheEndpoint), Request("resolve", OfTheEndpoint)>>
      [] OTHER -> <<Request(IF resolved THEN "resolve" ELSE "open", KeyFor(resolved))>>

BeginSend(resolved) ==
    /\ sending = "nothing"
    /\ MakesKey => made < MaxIncidents
    /\ requests' = RequestsFor(resolved)
    /\ sending' = IF resolved THEN "resolution" ELSE "trigger"
    /\ informed' = {} /\ unlisted' = {}
    /\ resolveKey' = IF MakesKey THEN Fresh ELSE resolveKey
    /\ made' = IF MakesKey THEN made + 1 ELSE made
    /\ forgotten' = forgotten \cup ({resolveKey} \ {resolveKey'})
    /\ UNCHANGED <<sends, sendOnResolved, incidents>>

\* The first notification, another attempt at it, or a reminder.
NotifyTriggered == BeginSend(FALSE) /\ UNCHANGED alertTriggered

\* An alert stops being triggered before the provider is asked, and whether or
\* not it is.
NotifyResolved ==
    /\ alertTriggered /\ sendOnResolved
    /\ alertTriggered' = FALSE
    /\ BeginSend(TRUE)

NotifyNobody ==
    /\ sending = "nothing"
    /\ alertTriggered /\ ~sendOnResolved
    /\ alertTriggered' = FALSE
    /\ UNCHANGED <<sends, sendOnResolved, resolveKey, sending, requests, informed, incidents, made,
                   forgotten, unlisted>>

\* What the service does with a request: one without a key makes an incident,
\* one with the key of an open incident adds to it.
Opened(request) == IF request.key = NoKey THEN Fresh ELSE request.key

IncidentsAfter(request) ==
    CASE request.op = "open" -> incidents \cup {Opened(request)}
      [] request.op = "resolve" -> incidents \ {request.key}
      [] OTHER -> incidents

InformedBy(request) ==
    CASE request.op = "tell" -> {Recipients[request.key]}
      [] request.op = "tell-all" -> ToSet(Recipients)
      [] OTHER -> {}

\* The key that Send keeps when the last request was answered.
KeyAfter(request, legible) ==
    CASE sends.key = "made-and-answered" -> IF legible THEN request.key ELSE NoKey
      [] sends.key \in {"answered", "alias"} /\ sendOnResolved ->
            IF sending = "resolution" THEN NoKey
            ELSE IF sends.key = "alias" THEN OfTheEndpoint
            ELSE IF legible THEN Fresh ELSE resolveKey
      [] OTHER -> resolveKey

\* Only the first page of what is open is asked for: tickets of other endpoints,
\* or other tickets of the account, may leave no room on it for any of these.
\* ClickUp looks for tasks whose names contain those of the endpoint and its
\* group, as those of other endpoints may.
OfAnother == NoKey
Listings(request) ==
    IF request.op # "list" THEN {{}}
    ELSE SUBSET (incidents \cup IF sends.mustFind THEN {OfAnother} ELSE {})

\* What remains to be done after a request that was answered.
Remaining(request, listed) ==
    IF request.op = "list"
    THEN [i \in 1 .. Cardinality(listed) |-> Request("resolve", SetToSeq(listed)[i])]
    ELSE Tail(requests)

\* ClickUp: that no task was found is an error.
FindsNothing(request, listed) == request.op = "list" /\ sends.mustFind /\ listed = {}

\* Slip: the error of a request is overwritten by that of the next.
FailureOfLastCounts(failed) == failed /\ Len(requests) = 1
FailureStopsSend(failed) == failed

Acceptance == IF sending = "trigger" THEN "trigger-accepted" ELSE "resolution-accepted"

PerformRequest(fate, listed) ==
    /\ sending \in {"trigger", "resolution"}
    /\ listed \in Listings(Head(requests))
    /\ LET request == Head(requests)
           acted == fate # "refused"
           failed == \/ fate \in {"refused", "answer-lost"}
                     \/ fate = "illegible" /\ (sends.mustRead \/ request.op = "list")
                     \/ FindsNothing(request, listed)
           remaining == Remaining(request, listed)
           makesIncident == acted /\ request.op = "open" /\ request.key = NoKey
       IN  /\ makesIncident \/ (fate = "illegible" /\ sends.key = "made-and-answered")
                => made < MaxIncidents
           /\ made' = IF makesIncident THEN made + 1 ELSE made
           /\ incidents' = IF acted THEN IncidentsAfter(request) ELSE incidents
           /\ unlisted' = IF request.op = "list" THEN incidents \ listed ELSE unlisted
           /\ informed' = IF acted THEN informed \cup InformedBy(request) ELSE informed
           /\ requests' = IF FailureStopsSend(failed) THEN <<>> ELSE remaining
           /\ sending' = CASE FailureStopsSend(failed) -> "failed"
                           [] ~FailureStopsSend(failed) /\ remaining # <<>> -> sending
                           [] OTHER -> Acceptance
           /\ resolveKey' = IF fate \in {"refused", "answer-lost"} \/ remaining # <<>> THEN resolveKey
                            ELSE KeyAfter(request, fate = "accepted")
           /\ forgotten' = forgotten \cup ({resolveKey} \ {resolveKey'})
                           \cup {k \in incidents' \ incidents : k # resolveKey'}
    /\ UNCHANGED <<sends, sendOnResolved, alertTriggered>>

\* HandleAlerting: the alert is triggered when its notification was accepted.
SendReturns ==
    /\ sending \in {"trigger-accepted", "resolution-accepted", "failed"}
    /\ alertTriggered' = (alertTriggered \/ sending = "trigger-accepted")
    /\ sending' = "nothing"
    /\ informed' = {}
    /\ UNCHANGED <<sends, sendOnResolved, resolveKey, requests, incidents, made, forgotten, unlisted>>

Fates == {"accepted", "refused", "answer-lost", "illegible"}

NotificationNext ==
    \/ ConfigureAlert
    \/ NotifyTriggered \/ NotifyResolved \/ NotifyNobody
    \/ \E fate \in Fates, listed \in SUBSET Keys : PerformRequest(fate, listed)
    \/ SendReturns

NotificationSpec == NotificationInit /\ [][NotificationNext]_notificationVars

NotificationTypeOK ==
    /\ {sendOnResolved, alertTriggered} \subseteq BOOLEAN
    /\ resolveKey \in Keys
    /\ sending \in {"not-configured", "nothing", "trigger", "resolution", "trigger-accepted",
                    "resolution-accepted", "failed"}
    /\ informed \subseteq ToSet(Recipients)
    /\ incidents \subseteq Keys \ {NoKey}
    /\ made \in 0 .. MaxIncidents
    /\ forgotten \subseteq Keys /\ unlisted \subseteq Keys

-----------------------------------------------------------------------------
(* Properties. *)

\* A notification that Send reports as sent has reached every recipient, or
\* has an incident open at the service: HandleAlerting will not try it again.
AcceptedNotificationsAreComplete ==
    /\ sends.does = "tell" /\ sending \in {"trigger-accepted", "resolution-accepted"} =>
            informed = ToSet(Recipients)
    /\ sends.does # "tell" /\ sending = "trigger-accepted" => incidents # {}

\* A resolution that Send reports as sent closes whatever the failed attempts,
\* the reminders and the resolutions that were not sent left open.  Tickets stay
\* open only if they were not on the first page of those that are.  PagerDuty
\* and incident.io name an incident in their answer: those whose name was not
\* read or was replaced stay open.
ResolutionClosesIncidents ==
    sending = "resolution-accepted" =>
        incidents \subseteq CASE sends.does = "ticket" -> unlisted
                             [] sends.key \in {"answered", "made-and-answered"} -> forgotten
                             [] OTHER -> {}
=============================================================================
