---------------------------- MODULE DeliveryProofs ----------------------------
(***************************************************************************)
(* What Send promises to the handler of alerts, whatever happens to its    *)
(* requests, and that GetConfig layers the settings it sends with.         *)
(***************************************************************************)
EXTENDS Notifications, ProviderConfiguration, FiniteSetTheorems, SequenceTheorems, TLAPS

(***************************************************************************)
(* Notifications.  The ways in which the providers of the catalog send.    *)
(***************************************************************************)
WaysToSend ==
    {Tells, TellsEach, MustRead(TellsEach), Event("made"), MustRead(Event("made-and-answered")),
     Event("alias"), Event("answered"), Event("of-the-endpoint"), [Tickets EXCEPT !.mustFind = TRUE],
     MustRead(Tickets)}

RequestOps == {"tell", "tell-all", "open", "resolve", "list"}
Notifies == sending \in {"trigger", "resolution"}
Accepted == sending \in {"trigger-accepted", "resolution-accepted"}

\* Those who were told are those before the first request that remains.
TellsInTurn ==
    sends.does = "tell" /\ sends.each /\ Notifies =>
        LET told == Len(Recipients) - Len(requests)
        IN  /\ told >= 0
            /\ \A j \in 1 .. Len(requests) : requests[j] = Request("tell", told + j)
            /\ \A i \in 1 .. told : Recipients[i] \in informed
TellsAllAtOnce ==
    sends.does = "tell" /\ ~sends.each /\ Notifies => requests = <<Request("tell-all", NoKey)>>
NobodyIsMissing ==
    sends.does = "tell" => incidents = {} /\ (Accepted => informed = ToSet(Recipients))

\* A ticket is opened, or those that are open are listed and closed.
TicketsAreListed ==
    sends.does = "ticket" =>
        /\ sending = "trigger" => requests = <<Request("open", NoKey)>>
        /\ sending = "resolution" =>
            \/ requests = <<Request("list", NoKey)>>
            \/ /\ \A j \in 1 .. Len(requests) : requests[j].op = "resolve"
               /\ \A k \in incidents \ unlisted : \E j \in 1 .. Len(requests) : requests[j].key = k
        /\ sending = "resolution-accepted" => incidents \subseteq unlisted

\* The incident has the name that the endpoint gives.
EndpointNamesIncident ==
    sends.key \in {"of-the-endpoint", "alias"} =>
        /\ incidents \subseteq {OfTheEndpoint}
        /\ sending = "trigger" => requests = <<Request("open", OfTheEndpoint)>>
        /\ sending = "resolution" =>
            \/ requests = <<Request("resolve", OfTheEndpoint)>>
            \/ requests = <<Request("open", OfTheEndpoint), Request("resolve", OfTheEndpoint)>>
        /\ sending = "resolution-accepted" => incidents = {}

\* The incident has the name that Send made for the first notification.
SendNamesIncident ==
    sends.key = "made" =>
        /\ incidents \subseteq {resolveKey}
        /\ Notifies =>
            /\ resolveKey # NoKey
            /\ requests = <<Request(IF sending = "resolution" THEN "resolve" ELSE "open", resolveKey)>>
        /\ sending = "resolution-accepted" => incidents = {}

\* The incident has the name that the service answered, if that was read.
ServiceNamesIncident ==
    sends.key \in {"answered", "made-and-answered"} =>
        /\ incidents \subseteq {resolveKey} \cup forgotten
        /\ sends.key = "made-and-answered" /\ Notifies => resolveKey # NoKey
        /\ sending = "trigger" =>
            requests = <<Request("open", IF sends.key = "answered" THEN NoKey ELSE resolveKey)>>
        /\ sending = "resolution" => requests = <<Request("resolve", resolveKey)>>
        /\ sending = "resolution-accepted" => incidents \subseteq forgotten

NotificationInv ==
    /\ NotificationTypeOK
    /\ sending = "not-configured" => incidents = {}
    /\ sends \in WaysToSend
    /\ Notifies => requests \in Seq([op : RequestOps, key : Nat]) /\ requests # <<>>
    /\ TellsInTurn /\ TellsAllAtOnce /\ NobodyIsMissing
    /\ TicketsAreListed /\ EndpointNamesIncident /\ SendNamesIncident /\ ServiceNamesIncident
    /\ sends.does # "tell" /\ sending = "trigger-accepted" => incidents # {}

\* The catalog knows these ways only.
LEMMA CatalogSends == \A p \in Catalog : p.sends \in WaysToSend
<1> DEFINE One == {AwsSes, Custom, Datadog, Discord, Email, GoogleChat, Gotify, HomeAssistant, Ifttt,
                  Ilert, Matrix, Mattermost, Messagebird, N8n, NewRelic, Ntfy, Pushover, RocketChat,
                  SendGrid, Slack, Splunk, Teams, TeamsWorkflows, Telegram, Twilio, Webex, Zapier, Zulip}
<1>1. \A p \in One : p.sends = Tells
  <2>1. /\ AwsSes.sends = Tells /\ Custom.sends = Tells /\ Datadog.sends = Tells /\ Discord.sends = Tells
       /\ Email.sends = Tells /\ GoogleChat.sends = Tells /\ Gotify.sends = Tells
      BY DEF Provider, Needing, AwsSes, Custom, Datadog, Discord, Email, GoogleChat, Gotify
  <2>2. /\ HomeAssistant.sends = Tells /\ Ifttt.sends = Tells /\ Ilert.sends = Tells /\ Matrix.sends = Tells
       /\ Mattermost.sends = Tells /\ Messagebird.sends = Tells /\ N8n.sends = Tells
      BY DEF Provider, Needing, HomeAssistant, Ifttt, Ilert, Matrix, Mattermost, Messagebird, N8n
  <2>3. /\ NewRelic.sends = Tells /\ Ntfy.sends = Tells /\ Pushover.sends = Tells /\ RocketChat.sends = Tells
       /\ SendGrid.sends = Tells /\ Slack.sends = Tells /\ Splunk.sends = Tells
      BY DEF Provider, Needing, NewRelic, Ntfy, Pushover, RocketChat, SendGrid, Slack, Splunk
  <2>4. /\ Teams.sends = Tells /\ TeamsWorkflows.sends = Tells /\ Telegram.sends = Tells /\ Twilio.sends = Tells
       /\ Webex.sends = Tells /\ Zapier.sends = Tells /\ Zulip.sends = Tells
      BY DEF Provider, Needing, Teams, TeamsWorkflows, Telegram, Twilio, Webex, Zapier, Zulip
  <2> QED BY <2>1, <2>2, <2>3, <2>4
<1>2. \A p \in {Line, Plivo, Signal} : p.sends = TellsEach
    BY DEF Provider, Line, Plivo, Signal
<1>3. Signl4.sends = Event("of-the-endpoint") /\ Squadcast.sends = Event("of-the-endpoint")
    BY DEF Provider, Signl4, Squadcast
<1>4. Vonage.sends = MustRead(TellsEach)
    BY DEF Provider, Vonage
<1>5. GitLab.sends = Event("made")
    BY DEF Provider, GitLab
<1>6. IncidentIo.sends = MustRead(Event("made-and-answered"))
    BY DEF Provider, IncidentIo
<1>7. Opsgenie.sends = Event("alias")
    BY DEF Provider, Opsgenie
<1>8. PagerDuty.sends = Event("answered")
    BY DEF Provider, PagerDuty
<1>9. ClickUp.sends = [Tickets EXCEPT !.mustFind = TRUE]
    BY DEF Provider, ClickUp
<1>10. Gitea.sends = MustRead(Tickets) /\ GitHub.sends = MustRead(Tickets)
    BY DEF Provider, Gitea, GitHub
<1>11. ASSUME NEW p \in Catalog
       PROVE  p \in One \cup {Line, Plivo, Signal} \cup {Signl4, Squadcast}
                    \cup {Vonage, GitLab, IncidentIo, Opsgenie, PagerDuty, ClickUp, Gitea, GitHub}
    BY DEF Catalog
<1> HIDE DEF One
<1> QED BY <1>1, <1>2, <1>3, <1>4, <1>5, <1>6, <1>7, <1>8, <1>9, <1>10, <1>11 DEF WaysToSend

\* What tells the ways apart.
LEMMA WaysAreShaped ==
    ASSUME NEW w \in WaysToSend
    PROVE  /\ w.does \in {"tell", "ticket", "event"}
           /\ w.does = "event" <=> w.key # "none"
           /\ w.key \in {"none", "made", "made-and-answered", "alias", "answered", "of-the-endpoint"}
           /\ w.key = "made-and-answered" => w.mustRead
           /\ w.does = "ticket" \/ ~w.mustFind
<1> DEFINE Way(does, each, key, read, find) ==
        [does |-> does, each |-> each, key |-> key, mustRead |-> read, mustFind |-> find]
<1>1. w \in {Way("tell", FALSE, "none", FALSE, FALSE), Way("tell", TRUE, "none", FALSE, FALSE),
             Way("tell", TRUE, "none", TRUE, FALSE), Way("event", FALSE, "made", FALSE, FALSE),
             Way("event", FALSE, "made-and-answered", TRUE, FALSE), Way("event", FALSE, "alias", FALSE, FALSE),
             Way("event", FALSE, "answered", FALSE, FALSE), Way("event", FALSE, "of-the-endpoint", FALSE, FALSE),
             Way("ticket", FALSE, "none", FALSE, TRUE), Way("ticket", FALSE, "none", TRUE, FALSE)}
    BY ZenonT(60) DEF WaysToSend, Tells, TellsEach, Event, Tickets, MustRead
<1>2. w.does \in {"tell", "ticket", "event"}
    BY <1>1
<1>3. w.does = "event" <=> w.key # "none"
    BY <1>1
<1>4. w.key \in {"none", "made", "made-and-answered", "alias", "answered", "of-the-endpoint"}
    BY <1>1
<1>5. (w.key = "made-and-answered" => w.mustRead) /\ (w.does = "ticket" \/ ~w.mustFind)
    BY <1>1
<1> QED BY <1>2, <1>3, <1>4, <1>5

LEMMA SomeIncidents == MaxIncidents \in Nat
    BY NotificationAssumption DEF NotificationAssumption

LEMMA NotificationInitEstablishes == NotificationInit => NotificationInv
<1> SUFFICES ASSUME NotificationInit PROVE NotificationInv
    OBVIOUS
<1>1. NotificationTypeOK
  <2>1. sendOnResolved \in BOOLEAN /\ alertTriggered \in BOOLEAN
      BY DEF NotificationInit
  <2>2. resolveKey \in Keys /\ made \in 0 .. MaxIncidents
      BY SomeIncidents DEF NotificationInit, Keys, NoKey
  <2> QED BY <2>1, <2>2 DEF NotificationInit, NotificationTypeOK
<1>2. sends = Tells /\ Tells \in WaysToSend /\ Tells.does = "tell" /\ Tells.key = "none"
    BY DEF NotificationInit, WaysToSend, Tells
<1> QED BY <1>1, <1>2 DEF NotificationInit, NotificationInv, Notifies, Accepted, TellsInTurn, TellsAllAtOnce,
    NobodyIsMissing, TicketsAreListed, EndpointNamesIncident, SendNamesIncident, ServiceNamesIncident

LEMMA KeysGrow ==
    ASSUME made \in 0 .. MaxIncidents
    PROVE  /\ Keys \subseteq Nat /\ NoKey \in Keys /\ OfTheEndpoint \in Keys /\ NoKey # OfTheEndpoint
           /\ made < MaxIncidents => Fresh \in Keys \ {NoKey} /\ made + 1 \in 0 .. MaxIncidents
    BY SomeIncidents DEF Keys, NoKey, OfTheEndpoint, Fresh

LEMMA RecipientsInOrder ==
    /\ Recipients \in Seq(ToSet(Recipients)) /\ Recipients # <<>>
    /\ Len(Recipients) \in Nat \ {0} /\ DOMAIN Recipients = 1 .. Len(Recipients)
    /\ \A i \in 1 .. Len(Recipients) : Recipients[i] \in ToSet(Recipients)
    /\ \A r \in ToSet(Recipients) : \E i \in 1 .. Len(Recipients) : r = Recipients[i]
<1>1. Recipients \in Seq(ToSet(Recipients)) /\ Recipients # <<>>
    BY NotificationAssumption DEF NotificationAssumption
<1>2. Len(Recipients) \in Nat \ {0} /\ DOMAIN Recipients = 1 .. Len(Recipients)
    BY <1>1, EmptySeq
<1> QED BY <1>1, <1>2 DEF ToSet

LEMMA OneRequest ==
    ASSUME NEW op \in RequestOps, NEW key \in Nat
    PROVE  /\ <<Request(op, key)>> \in Seq([op : RequestOps, key : Nat]) /\ <<Request(op, key)>> # <<>>
           /\ Len(<<Request(op, key)>>) = 1 /\ <<Request(op, key)>>[1] = Request(op, key)
    BY DEF Request

\* What Send is about to do when it is called.
LEMMA BeginSendKeeps ==
    ASSUME NotificationInv, NEW resolved \in BOOLEAN, BeginSend(resolved), alertTriggered' \in BOOLEAN
    PROVE  NotificationInv'
<1>1. /\ sends' = sends /\ sendOnResolved' = sendOnResolved /\ incidents' = incidents /\ informed' = {} /\ unlisted' = {}
      /\ sending' = IF resolved THEN "resolution" ELSE "trigger"
      /\ requests' = RequestsFor(resolved)
      /\ resolveKey' = IF MakesKey THEN Fresh ELSE resolveKey
      /\ made' = IF MakesKey THEN made + 1 ELSE made
      /\ forgotten' = forgotten \cup ({resolveKey} \ {resolveKey'})
    BY DEF BeginSend
<1>2. /\ sends \in WaysToSend
      /\ sends.does \in {"tell", "ticket", "event"}
      /\ sends.does = "event" <=> sends.key # "none"
      /\ sends.key \in {"none", "made", "made-and-answered", "alias", "answered", "of-the-endpoint"}
    BY WaysAreShaped DEF NotificationInv
<1>3. /\ resolveKey \in Keys /\ made \in 0 .. MaxIncidents /\ forgotten \subseteq Keys
      /\ incidents \subseteq Keys \ {NoKey}
    BY DEF NotificationInv, NotificationTypeOK
<1>4. MakesKey => made < MaxIncidents
    BY DEF BeginSend
<1>5. resolveKey' \in Keys /\ made' \in 0 .. MaxIncidents /\ forgotten' \subseteq Keys
    BY <1>1, <1>3, <1>4, KeysGrow
<1>6. NotificationTypeOK'
    BY <1>1, <1>3, <1>5 DEF NotificationInv, NotificationTypeOK
<1>7. sending' \in {"trigger", "resolution"} /\ (sending' = "resolution" <=> resolved)
    BY <1>1
<1>8. KeyFor(resolved) \in Nat
    BY <1>2, <1>3, <1>4, KeysGrow DEF KeyFor, MakesKey
<1>9. CASE sends.does = "tell"
  <2>1. sends.key = "none" /\ ~MakesKey
      BY <1>2, <1>9 DEF MakesKey
  <2>2. incidents = {}
      BY <1>9 DEF NotificationInv, NobodyIsMissing
  <2>3. CASE sends.each
    <3>1. requests' = [i \in 1 .. Len(Recipients) |-> Request("tell", i)]
        BY <1>1, <1>9, <2>1, <2>3, RecipientsInOrder DEF RequestsFor, Request
    <3>2. requests' \in Seq([op : RequestOps, key : Nat]) /\ Len(requests') = Len(Recipients)
        BY <3>1, RecipientsInOrder DEF Request, RequestOps
    <3>3. requests' # <<>>
        BY <3>2, RecipientsInOrder
    <3>4. TellsInTurn'
        BY <3>1, <3>2, RecipientsInOrder DEF TellsInTurn
    <3> QED BY <1>1, <1>2, <1>6, <1>7, <1>9, <2>1, <2>2, <2>3, <3>2, <3>3, <3>4
            DEF NotificationInv, TellsAllAtOnce, NobodyIsMissing, TicketsAreListed, Accepted,
                EndpointNamesIncident, SendNamesIncident, ServiceNamesIncident
  <2>4. CASE ~sends.each
    <3>1. requests' = <<Request("tell-all", NoKey)>>
        BY <1>1, <1>9, <2>1, <2>4 DEF RequestsFor
    <3>2. requests' \in Seq([op : RequestOps, key : Nat]) /\ requests' # <<>>
        BY <3>1, OneRequest DEF RequestOps, NoKey
    <3> QED BY <1>1, <1>2, <1>6, <1>7, <1>9, <2>1, <2>2, <2>4, <3>1, <3>2
            DEF NotificationInv, TellsInTurn, TellsAllAtOnce, NobodyIsMissing, TicketsAreListed, Accepted,
                EndpointNamesIncident, SendNamesIncident, ServiceNamesIncident
  <2> QED BY <2>3, <2>4
<1>10. CASE sends.does = "ticket"
  <2>1. sends.key = "none" /\ ~MakesKey
      BY <1>2, <1>10 DEF MakesKey
  <2>2. requests' = <<Request(IF resolved THEN "list" ELSE "open", NoKey)>>
      BY <1>1, <1>10, <2>1 DEF RequestsFor
  <2>3. requests' \in Seq([op : RequestOps, key : Nat]) /\ requests' # <<>>
      BY <2>2, OneRequest DEF RequestOps, NoKey
  <2>4. TicketsAreListed'
      BY <1>1, <1>7, <2>2 DEF TicketsAreListed
  <2> QED BY <1>1, <1>2, <1>6, <1>7, <1>10, <2>1, <2>3, <2>4
          DEF NotificationInv, TellsInTurn, TellsAllAtOnce, NobodyIsMissing,
              EndpointNamesIncident, SendNamesIncident, ServiceNamesIncident
<1>11. CASE sends.does = "event" /\ sends.key = "alias" /\ resolved
  <2>1. requests' = <<Request("open", OfTheEndpoint), Request("resolve", OfTheEndpoint)>>
      BY <1>1, <1>11 DEF RequestsFor
  <2>2. requests' \in Seq([op : RequestOps, key : Nat]) /\ requests' # <<>>
      BY <2>1 DEF RequestOps, OfTheEndpoint, Request
  <2>3. incidents \subseteq {OfTheEndpoint}
      BY <1>11 DEF NotificationInv, EndpointNamesIncident
  <2> QED BY <1>1, <1>2, <1>6, <1>7, <1>11, <2>1, <2>2, <2>3
          DEF NotificationInv, TellsInTurn, TellsAllAtOnce, NobodyIsMissing, TicketsAreListed,
              EndpointNamesIncident, SendNamesIncident, ServiceNamesIncident
<1>12. CASE sends.does = "event" /\ ~(sends.key = "alias" /\ resolved)
  <2>1. requests' = <<Request(IF resolved THEN "resolve" ELSE "open", KeyFor(resolved))>>
      BY <1>1, <1>12 DEF RequestsFor
  <2>2. requests' \in Seq([op : RequestOps, key : Nat]) /\ requests' # <<>>
      BY <1>8, <2>1, OneRequest DEF RequestOps
  <2>3. EndpointNamesIncident'
    <3> SUFFICES ASSUME sends.key \in {"of-the-endpoint", "alias"} PROVE EndpointNamesIncident'
        BY <1>1 DEF EndpointNamesIncident
    <3>1. KeyFor(resolved) = OfTheEndpoint
        BY <1>2 DEF KeyFor, MakesKey
    <3> QED BY <1>1, <1>7, <2>1, <3>1 DEF NotificationInv, EndpointNamesIncident
  <2>4. SendNamesIncident'
    <3> SUFFICES ASSUME sends.key = "made" PROVE SendNamesIncident'
        BY <1>1 DEF SendNamesIncident
    <3>1. KeyFor(resolved) = resolveKey' /\ resolveKey' # NoKey
        BY <1>1, <1>3, <1>4, KeysGrow DEF KeyFor, MakesKey
    <3>2. incidents \subseteq {resolveKey'}
        BY <1>1, <1>3 DEF NotificationInv, SendNamesIncident, MakesKey
    <3> QED BY <1>1, <1>7, <2>1, <3>1, <3>2 DEF SendNamesIncident, Notifies
  <2>5. ServiceNamesIncident'
    <3> SUFFICES ASSUME sends.key \in {"answered", "made-and-answered"} PROVE ServiceNamesIncident'
        BY <1>1 DEF ServiceNamesIncident
    <3>1. incidents \subseteq {resolveKey'} \cup forgotten'
        BY <1>1 DEF NotificationInv, ServiceNamesIncident
    <3>2. CASE sends.key = "answered"
      <4>1. KeyFor(resolved) = (IF resolved THEN resolveKey ELSE NoKey) /\ resolveKey' = resolveKey
          BY <1>1, <3>2 DEF KeyFor, MakesKey
      <4> QED BY <1>1, <1>7, <2>1, <3>1, <3>2, <4>1 DEF ServiceNamesIncident
    <3>3. CASE sends.key = "made-and-answered"
      <4>1. KeyFor(resolved) = resolveKey' /\ resolveKey' # NoKey
          BY <1>1, <1>3, <1>4, <3>3, KeysGrow DEF KeyFor, MakesKey
      <4> QED BY <1>1, <1>7, <2>1, <3>1, <3>3, <4>1 DEF ServiceNamesIncident
    <3> QED BY <3>2, <3>3
  <2> QED BY <1>1, <1>2, <1>6, <1>7, <1>12, <2>2, <2>3, <2>4, <2>5
          DEF NotificationInv, TellsInTurn, TellsAllAtOnce, NobodyIsMissing, TicketsAreListed
<1> QED BY <1>2, <1>9, <1>10, <1>11, <1>12

\* A request fails when it was refused or its answer is of no use.
Fails(request, fate, listed) ==
    \/ fate \in {"refused", "answer-lost"}
    \/ fate = "illegible" /\ (sends.mustRead \/ request.op = "list")
    \/ FindsNothing(request, listed)
MakesIncident(request, fate) == fate # "refused" /\ request.op = "open" /\ request.key = NoKey

\* What the next request does, by its fate.
LEMMA RequestEffects ==
    ASSUME NEW fate \in Fates, NEW listed, PerformRequest(fate, listed), NEW r, r = Head(requests)
    PROVE  /\ Notifies /\ UNCHANGED <<sends, sendOnResolved, alertTriggered>>
           /\ MakesIncident(r, fate) => made < MaxIncidents
           /\ made' = IF MakesIncident(r, fate) THEN made + 1 ELSE made
           /\ incidents' = IF fate # "refused" THEN IncidentsAfter(r) ELSE incidents
           /\ informed' = IF fate # "refused" THEN informed \cup InformedBy(r) ELSE informed
           /\ Fails(r, fate, listed) => requests' = <<>> /\ sending' = "failed"
           /\ ~Fails(r, fate, listed) => requests' = Remaining(r, listed)
           /\ ~Fails(r, fate, listed) /\ Remaining(r, listed) # <<>> => sending' = sending
           /\ ~Fails(r, fate, listed) /\ Remaining(r, listed) = <<>> => sending' = Acceptance
           /\ resolveKey' = IF fate \in {"refused", "answer-lost"} \/ Remaining(r, listed) # <<>> THEN resolveKey
                            ELSE KeyAfter(r, fate = "accepted")
           /\ forgotten' = forgotten \cup ({resolveKey} \ {resolveKey'})
                           \cup {k \in incidents' \ incidents : k # resolveKey'}
           /\ listed \in Listings(r)
           /\ unlisted' = IF r.op = "list" THEN incidents \ listed ELSE unlisted
<1>1. MakesIncident(r, fate) => made < MaxIncidents
    BY DEF PerformRequest, MakesIncident
<1>2. made' = IF MakesIncident(r, fate) THEN made + 1 ELSE made
    BY DEF PerformRequest, MakesIncident
<1>3. /\ incidents' = IF fate # "refused" THEN IncidentsAfter(r) ELSE incidents
      /\ informed' = IF fate # "refused" THEN informed \cup InformedBy(r) ELSE informed
    BY DEF PerformRequest
<1>4. requests' = IF Fails(r, fate, listed) THEN <<>> ELSE Remaining(r, listed)
    BY DEF PerformRequest, Fails, FailureStopsSend
<1>5. sending' = CASE Fails(r, fate, listed) -> "failed"
                   [] ~Fails(r, fate, listed) /\ Remaining(r, listed) # <<>> -> sending
                   [] OTHER -> Acceptance
    BY Zenon DEF PerformRequest, Fails, FailureStopsSend
<1>6. resolveKey' = IF fate \in {"refused", "answer-lost"} \/ Remaining(r, listed) # <<>> THEN resolveKey
                    ELSE KeyAfter(r, fate = "accepted")
    BY Zenon DEF PerformRequest
<1>7. forgotten' = forgotten \cup ({resolveKey} \ {resolveKey'})
                   \cup {k \in incidents' \ incidents : k # resolveKey'}
    BY DEF PerformRequest
<1>8. Notifies /\ UNCHANGED <<sends, sendOnResolved, alertTriggered>>
    BY DEF PerformRequest, Notifies
<1>9. listed \in Listings(r) /\ unlisted' = IF r.op = "list" THEN incidents \ listed ELSE unlisted
    BY DEF PerformRequest
<1> QED BY <1>1, <1>2, <1>3, <1>4, <1>5, <1>6, <1>7, <1>8, <1>9

LEMMA RequestKeepsType ==
    ASSUME NotificationInv, NEW fate \in Fates, NEW listed, PerformRequest(fate, listed),
           resolveKey' \in Keys, incidents' \subseteq Keys \ {NoKey}, informed' \subseteq ToSet(Recipients)
    PROVE  /\ NotificationTypeOK' /\ sends' = sends /\ sends' \in WaysToSend
           /\ sending' \in {"trigger", "resolution", "failed", "trigger-accepted", "resolution-accepted"}
           /\ Notifies' => sending' = sending
           /\ sending' = "trigger-accepted" => sending = "trigger"
           /\ sending' = "resolution-accepted" => sending = "resolution"
<1> DEFINE r == Head(requests)
<1>1. Notifies /\ UNCHANGED <<sends, sendOnResolved, alertTriggered>>
    BY RequestEffects
<1>2. sending' \in {"failed", sending, Acceptance}
    BY RequestEffects
<1>3. made' \in 0 .. MaxIncidents
    BY RequestEffects, SomeIncidents DEF NotificationInv, NotificationTypeOK
<1>4. forgotten' \subseteq Keys /\ unlisted' \subseteq Keys
    BY RequestEffects DEF NotificationInv, NotificationTypeOK
<1>5. NotificationTypeOK'
    BY <1>1, <1>2, <1>3, <1>4 DEF NotificationInv, NotificationTypeOK, Notifies, Acceptance
<1> QED BY <1>1, <1>2, <1>5 DEF NotificationInv, Notifies, Acceptance

LEMMA RequestsLeft ==
    ASSUME NotificationInv, Notifies
    PROVE  /\ requests \in Seq([op : RequestOps, key : Nat]) /\ requests # <<>>
           /\ Len(requests) \in Nat \ {0} /\ Head(requests) = requests[1]
           /\ Tail(requests) \in Seq([op : RequestOps, key : Nat])
           /\ Len(Tail(requests)) = Len(requests) - 1
           /\ \A j \in 1 .. Len(requests) - 1 : Tail(requests)[j] = requests[j + 1]
           /\ Tail(requests) = <<>> <=> Len(requests) = 1
<1>1. requests \in Seq([op : RequestOps, key : Nat]) /\ requests # <<>>
    BY DEF NotificationInv
<1>2. Len(requests) \in Nat \ {0} /\ Head(requests) = requests[1]
    BY <1>1, EmptySeq
<1>3. /\ Tail(requests) \in Seq([op : RequestOps, key : Nat]) /\ Len(Tail(requests)) = Len(requests) - 1
      /\ \A j \in 1 .. Len(requests) - 1 : Tail(requests)[j] = requests[j + 1]
    BY <1>1, HeadTailProperties
<1>4. Tail(requests) = <<>> <=> Len(Tail(requests)) = 0
    BY <1>3, EmptySeq
<1> QED BY SMTT(30), <1>1, <1>2, <1>3, <1>4

LEMMA TellingKeeps ==
    ASSUME NotificationInv, NEW fate \in Fates, NEW listed, PerformRequest(fate, listed), sends.does = "tell"
    PROVE  NotificationInv'
<1> DEFINE r == Head(requests)
           left == Len(requests)
           told == Len(Recipients) - left
<1>1. /\ sends \in WaysToSend /\ sends.key = "none" /\ incidents = {}
      /\ resolveKey \in Keys /\ informed \subseteq ToSet(Recipients) /\ Notifies
    BY WaysAreShaped, RequestEffects DEF NotificationInv, NotificationTypeOK, NobodyIsMissing
<1>2. /\ left \in Nat \ {0} /\ r = requests[1]
      /\ Tail(requests) \in Seq([op : RequestOps, key : Nat]) /\ Len(Tail(requests)) = left - 1
      /\ \A j \in 1 .. left - 1 : Tail(requests)[j] = requests[j + 1]
      /\ Tail(requests) = <<>> <=> left = 1
    BY <1>1, RequestsLeft
<1>3. sends.each => /\ told + 1 \in 1 .. Len(Recipients) /\ r = Request("tell", told + 1)
                    /\ \A j \in 1 .. left : requests[j] = Request("tell", told + j)
                    /\ \A i \in 1 .. told : Recipients[i] \in informed
  <2> SUFFICES ASSUME sends.each
               PROVE  /\ told + 1 \in 1 .. Len(Recipients) /\ r = Request("tell", told + 1)
                      /\ \A j \in 1 .. left : requests[j] = Request("tell", told + j)
                      /\ \A i \in 1 .. told : Recipients[i] \in informed
      OBVIOUS
  <2>1. /\ told >= 0
        /\ \A j \in 1 .. left : requests[j] = Request("tell", told + j)
        /\ \A i \in 1 .. told : Recipients[i] \in informed
      BY <1>1 DEF NotificationInv, TellsInTurn
  <2>2. told + 1 \in 1 .. Len(Recipients) /\ 1 \in 1 .. left
      BY <1>2, <2>1, RecipientsInOrder
  <2> QED BY <1>2, <2>1, <2>2
<1>4. ~sends.each => requests = <<Request("tell-all", NoKey)>>
    BY <1>1 DEF NotificationInv, TellsAllAtOnce
<1>5. ~sends.each => r = Request("tell-all", NoKey) /\ left = 1
    BY <1>4, OneRequest DEF RequestOps, NoKey
<1>6. r.op \in {"tell", "tell-all"} /\ (r.op = "tell" <=> sends.each)
    BY <1>3, <1>5 DEF Request
<1>7. Remaining(r, listed) = Tail(requests) /\ IncidentsAfter(r) = {} /\ KeyAfter(r, fate = "accepted") = resolveKey
    BY <1>1, <1>6 DEF Remaining, IncidentsAfter, KeyAfter
<1>8. InformedBy(r) = IF sends.each THEN {Recipients[told + 1]} ELSE ToSet(Recipients)
  <2>1. CASE sends.each
    <3>1. r.op = "tell" /\ r.key = told + 1
        BY <1>3, <2>1 DEF Request
    <3> QED BY <2>1, <3>1 DEF InformedBy
  <2>2. CASE ~sends.each
    <3>1. r.op = "tell-all"
        BY <1>5, <2>2 DEF Request
    <3> QED BY <2>2, <3>1 DEF InformedBy
  <2> QED BY <2>1, <2>2
<1>9. /\ resolveKey' = resolveKey /\ incidents' = {}
      /\ informed' = IF fate # "refused" THEN informed \cup InformedBy(r) ELSE informed
    BY <1>1, <1>7, RequestEffects
<1>10. informed' \subseteq ToSet(Recipients)
    BY <1>1, <1>3, <1>8, <1>9, RecipientsInOrder
<1>11. /\ NotificationTypeOK' /\ sends' = sends
       /\ sending' \in {"trigger", "resolution", "failed", "trigger-accepted", "resolution-accepted"}
    BY <1>1, <1>9, <1>10, RequestKeepsType
<1>12. CASE Fails(r, fate, listed)
  <2>1. sending' = "failed"
      BY <1>12, RequestEffects
  <2> QED BY <1>1, <1>9, <1>11, <2>1
          DEF NotificationInv, TellsInTurn, TellsAllAtOnce, NobodyIsMissing, TicketsAreListed, Notifies,
              Accepted, EndpointNamesIncident, SendNamesIncident, ServiceNamesIncident
<1>13. CASE ~Fails(r, fate, listed)
  <2>1. /\ requests' = Tail(requests)
        /\ left # 1 => sending' = sending
        /\ left = 1 => sending' = Acceptance
        /\ informed' = informed \cup InformedBy(r)
      BY SMTT(60), <1>2, <1>7, <1>13, RequestEffects DEF Fails
  <2>2. Notifies' <=> left # 1
      BY <1>1, <2>1 DEF Notifies, Acceptance
  <2>3. Len(requests') = left - 1
      BY <1>2, <2>1
  <2>4. sends.each => \A i \in 1 .. told + 1 : Recipients[i] \in informed'
      BY <1>2, <1>3, <1>8, <2>1, RecipientsInOrder
  <2>5. TellsInTurn'
    <3> SUFFICES ASSUME sends.each, left # 1
                 PROVE  /\ Len(Recipients) - Len(requests') = told + 1 /\ told + 1 >= 0
                        /\ \A j \in 1 .. Len(requests') : requests'[j] = Request("tell", told + 1 + j)
        BY <1>11, <2>2, <2>4 DEF TellsInTurn
    <3>1. Len(Recipients) - Len(requests') = told + 1 /\ told + 1 >= 0
        BY <1>2, <1>3, <2>3, RecipientsInOrder
    <3>2. ASSUME NEW j \in 1 .. Len(requests') PROVE requests'[j] = Request("tell", told + 1 + j)
      <4>1. j + 1 \in 1 .. left /\ requests'[j] = requests[j + 1]
          BY SMTT(60), <1>2, <2>1, <2>3
      <4>2. told + (j + 1) = told + 1 + j
          BY <1>2, RecipientsInOrder
      <4> QED BY <1>3, <4>1, <4>2
    <3> QED BY <3>1, <3>2
  <2>6. TellsAllAtOnce'
      BY <1>5, <1>11, <2>2 DEF TellsAllAtOnce
  <2>7. left = 1 => informed' = ToSet(Recipients)
    <3> SUFFICES ASSUME left = 1 PROVE ToSet(Recipients) \subseteq informed'
        BY <1>10
    <3>1. CASE sends.each
        BY <1>3, <2>4, <3>1, RecipientsInOrder
    <3>2. CASE ~sends.each
        BY <1>8, <2>1, <3>2
    <3> QED BY <3>1, <3>2
  <2>8. NobodyIsMissing'
      BY <1>9, <1>11, <2>2, <2>7 DEF NobodyIsMissing, Accepted, Notifies
  <2>9. Notifies' => requests' \in Seq([op : RequestOps, key : Nat]) /\ requests' # <<>>
      BY <1>2, <2>1, <2>2
  <2> QED BY <1>1, <1>9, <1>11, <2>5, <2>6, <2>8, <2>9
          DEF NotificationInv, TicketsAreListed, EndpointNamesIncident, SendNamesIncident, ServiceNamesIncident
<1> QED BY <1>12, <1>13

\* A set is listed without leaving anybody out.
LEMMA ListingIsComplete ==
    ASSUME NEW S, IsFiniteSet(S)
    PROVE  /\ Cardinality(S) \in Nat
           /\ SetToSeq(S) \in [1 .. Cardinality(S) -> S]
           /\ \A k \in S : \E i \in 1 .. Cardinality(S) : SetToSeq(S)[i] = k
<1> DEFINE n == Cardinality(S)
<1>1. n \in Nat /\ ExistsBijection(1 .. n, S)
    BY FS_CardinalityType
<1>2. \E f \in [1 .. n -> S] : IsInjective(f)
    BY <1>1 DEF ExistsBijection, Bijection, Injection
<1>3. SetToSeq(S) \in [1 .. n -> S] /\ IsInjective(SetToSeq(S))
    BY <1>2, Zenon DEF SetToSeq
<1>4. SetToSeq(S) \in Injection(1 .. n, S)
    BY <1>3 DEF Injection
<1>5. Cardinality(1 .. n) = n
    BY <1>1, FS_Interval
<1>6. SetToSeq(S) \in Surjection(1 .. n, S)
    BY <1>4, <1>5, FS_Injection
<1> QED BY <1>1, <1>3, <1>6 DEF Surjection

LEMMA ListingsAreFinite ==
    ASSUME NotificationTypeOK, NEW r, NEW listed \in Listings(r)
    PROVE  listed \subseteq Keys /\ IsFiniteSet(listed)
<1>1. IsFiniteSet(Keys)
    BY SomeIncidents, FS_Interval DEF Keys, NoKey
<1>2. listed \in SUBSET Keys
    BY KeysGrow DEF NotificationTypeOK, Listings, OfAnother
<1> QED BY <1>1, <1>2, FS_Subset

LEMMA TicketsKeep ==
    ASSUME NotificationInv, NEW fate \in Fates, NEW listed, PerformRequest(fate, listed), sends.does = "ticket"
    PROVE  NotificationInv'
<1> DEFINE r == Head(requests)
           left == Len(requests)
<1>1. /\ sends \in WaysToSend /\ sends.key = "none" /\ Notifies
      /\ resolveKey \in Keys /\ incidents \subseteq Keys \ {NoKey} /\ informed \subseteq ToSet(Recipients)
      /\ made \in 0 .. MaxIncidents
    BY WaysAreShaped, RequestEffects DEF NotificationInv, NotificationTypeOK
<1>2. /\ left \in Nat \ {0} /\ r = requests[1]
      /\ Tail(requests) \in Seq([op : RequestOps, key : Nat]) /\ Len(Tail(requests)) = left - 1
      /\ \A j \in 1 .. left - 1 : Tail(requests)[j] = requests[j + 1]
      /\ Tail(requests) = <<>> <=> left = 1
    BY <1>1, RequestsLeft
<1>3. KeyAfter(r, fate = "accepted") = resolveKey
    BY <1>1 DEF KeyAfter
<1>4. /\ resolveKey' = resolveKey
      /\ incidents' = IF fate # "refused" THEN IncidentsAfter(r) ELSE incidents
      /\ informed' = IF fate # "refused" THEN informed \cup InformedBy(r) ELSE informed
    BY <1>3, RequestEffects
<1>6. r.op \in {"open", "list", "resolve"} /\ (r.op = "open" => r.key = NoKey)
  <2>1. CASE sending = "trigger"
      BY <1>2, <2>1, OneRequest DEF NotificationInv, TicketsAreListed, Request, RequestOps, NoKey
  <2>2. CASE sending = "resolution"
    <3>1. CASE requests = <<Request("list", NoKey)>>
        BY <1>2, <3>1 DEF Request
    <3>2. CASE \A j \in 1 .. left : requests[j].op = "resolve"
        BY <1>2, <3>2
    <3> QED BY <2>2, <3>1, <3>2 DEF NotificationInv, TicketsAreListed
  <2> QED BY <1>1, <2>1, <2>2 DEF Notifies
<1>7. InformedBy(r) = {}
    BY <1>6 DEF InformedBy
<1>8. incidents' \subseteq Keys \ {NoKey}
  <2>1. r.op = "open" /\ fate # "refused" => Fresh \in Keys \ {NoKey}
      BY <1>1, <1>6, RequestEffects, KeysGrow DEF MakesIncident
  <2> QED BY <1>1, <1>4, <1>6, <2>1 DEF IncidentsAfter, Opened
<1>9. /\ NotificationTypeOK' /\ sends' = sends
      /\ sending' \in {"trigger", "resolution", "failed", "trigger-accepted", "resolution-accepted"}
      /\ Notifies' => sending' = sending
      /\ sending' = "trigger-accepted" => sending = "trigger"
      /\ sending' = "resolution-accepted" => sending = "resolution"
    BY <1>1, <1>4, <1>7, <1>8, RequestKeepsType
<1>10. CASE Fails(r, fate, listed)
  <2>1. sending' = "failed"
      BY <1>10, RequestEffects
  <2> QED BY <1>1, <1>9, <2>1
          DEF NotificationInv, TellsInTurn, TellsAllAtOnce, NobodyIsMissing, TicketsAreListed, Notifies,
              Accepted, EndpointNamesIncident, SendNamesIncident, ServiceNamesIncident
<1>11. CASE ~Fails(r, fate, listed)
  <2>1. /\ requests' = Remaining(r, listed) /\ incidents' = IncidentsAfter(r)
        /\ Remaining(r, listed) # <<>> => sending' = sending
        /\ Remaining(r, listed) = <<>> => sending' = Acceptance
      BY <1>4, <1>11, RequestEffects DEF Fails
  <2>2. Notifies' => requests' # <<>>
      BY <1>1, <2>1 DEF Notifies, Acceptance
  <2>3. CASE sending = "trigger"
    <3>1. requests = <<Request("open", NoKey)>>
        BY <2>3 DEF NotificationInv, TicketsAreListed
    <3>2. r.op = "open" /\ left = 1
        BY <3>1 DEF Request
    <3>3. requests' = <<>> /\ sending' = "trigger-accepted" /\ incidents' # {}
        BY <1>2, <2>1, <2>3, <3>2 DEF Remaining, Acceptance, IncidentsAfter
    <3> QED BY <1>1, <1>9, <3>3
            DEF NotificationInv, TellsInTurn, TellsAllAtOnce, NobodyIsMissing, TicketsAreListed, Notifies,
                EndpointNamesIncident, SendNamesIncident, ServiceNamesIncident
  <2>4. CASE sending = "resolution"
    <3>1. /\ requests' \in Seq([op : RequestOps, key : Nat])
          /\ \A j \in 1 .. Len(requests') : requests'[j].op = "resolve"
          /\ \A k \in incidents' \ unlisted' : \E j \in 1 .. Len(requests') : requests'[j].key = k
      <4>1. CASE requests = <<Request("list", NoKey)>>
        <5> DEFINE n == Cardinality(listed)
                   ticket == SetToSeq(listed)
        <5>1. r.op = "list"
            BY <4>1 DEF Request
        <5>2. /\ requests' = [i \in 1 .. n |-> Request("resolve", ticket[i])]
              /\ incidents' = incidents /\ unlisted' = incidents \ listed
          <6>1. unlisted' = incidents \ listed
              BY <5>1, RequestEffects
          <6> QED BY <2>1, <5>1, <6>1 DEF Remaining, IncidentsAfter
        <5>3. /\ listed \subseteq Keys /\ n \in Nat /\ ticket \in [1 .. n -> listed]
              /\ \A k \in listed : \E i \in 1 .. n : ticket[i] = k
            BY RequestEffects, ListingsAreFinite, ListingIsComplete DEF NotificationInv
        <5>4. Keys \subseteq Nat
            BY <1>1, KeysGrow
        <5>5. \A i \in 1 .. n : ticket[i] \in Nat
            BY <5>3, <5>4
        <5> HIDE DEF n, ticket
        <5>6. requests' \in Seq([op : RequestOps, key : Nat]) /\ Len(requests') = n
            BY <5>2, <5>3, <5>5 DEF Request, RequestOps
        <5>7. \A i \in 1 .. n : requests'[i] = Request("resolve", ticket[i])
            BY <5>2
        <5>8. \A k : Request("resolve", k).op = "resolve" /\ Request("resolve", k).key = k
            BY DEF Request
        <5>9. incidents' \ unlisted' \subseteq listed
            BY <5>2
        <5> QED BY <5>3, <5>6, <5>7, <5>8, <5>9
      <4>2. CASE /\ \A j \in 1 .. left : requests[j].op = "resolve"
                 /\ \A k \in incidents \ unlisted : \E j \in 1 .. left : requests[j].key = k
        <5>1. r.op = "resolve"
            BY <1>2, <4>2
        <5>2. requests' = Tail(requests) /\ incidents' = incidents \ {r.key} /\ unlisted' = unlisted
            BY <2>1, <5>1, RequestEffects DEF Remaining, IncidentsAfter
        <5>3. \A j \in 1 .. left - 1 : requests'[j].op = "resolve"
            BY <1>2, <4>2, <5>2
        <5>4. ASSUME NEW k \in incidents' \ unlisted' PROVE \E j \in 1 .. left - 1 : requests'[j].key = k
          <6>1. PICK j \in 1 .. left : requests[j].key = k
              BY <4>2, <5>2
          <6>2. j # 1
              BY <1>2, <5>2, <6>1
          <6>3. j - 1 \in 1 .. left - 1 /\ requests'[j - 1] = requests[j]
              BY <1>2, <5>2, <6>2
          <6> QED BY <6>1, <6>3
        <5> QED BY <1>2, <5>2, <5>3, <5>4
      <4> QED BY <2>4, <4>1, <4>2 DEF NotificationInv, TicketsAreListed
    <3>2. sending' \in {"resolution", "resolution-accepted"}
        BY <2>1, <2>4 DEF Acceptance
    <3>3. sending' = "resolution-accepted" => requests' = <<>>
        BY <2>1, <2>4
    <3>4. sending' = "resolution-accepted" => incidents' \subseteq unlisted'
        BY <3>1, <3>3, EmptySeq
    <3> QED BY <1>1, <1>9, <2>2, <3>1, <3>2, <3>4
            DEF NotificationInv, TellsInTurn, TellsAllAtOnce, NobodyIsMissing, TicketsAreListed, Notifies,
                EndpointNamesIncident, SendNamesIncident, ServiceNamesIncident
  <2> QED BY <1>1, <2>3, <2>4 DEF Notifies
<1> QED BY <1>10, <1>11

LEMMA NamedByEndpointKeeps ==
    ASSUME NotificationInv, NEW fate \in Fates, NEW listed, PerformRequest(fate, listed),
           sends.key \in {"of-the-endpoint", "alias"}
    PROVE  NotificationInv'
<1> DEFINE r == Head(requests)
<1>1. /\ sends \in WaysToSend /\ sends.does = "event" /\ Notifies
      /\ resolveKey \in Keys /\ incidents \subseteq {OfTheEndpoint} /\ informed \subseteq ToSet(Recipients)
      /\ made \in 0 .. MaxIncidents
    BY WaysAreShaped, RequestEffects DEF NotificationInv, NotificationTypeOK, EndpointNamesIncident
<1>2. /\ Len(requests) \in Nat \ {0} /\ r = requests[1]
      /\ Tail(requests) \in Seq([op : RequestOps, key : Nat]) /\ Len(Tail(requests)) = Len(requests) - 1
      /\ \A j \in 1 .. Len(requests) - 1 : Tail(requests)[j] = requests[j + 1]
      /\ Tail(requests) = <<>> <=> Len(requests) = 1
    BY <1>1, RequestsLeft
<1>3. \/ requests = <<Request("open", OfTheEndpoint)>> /\ sending = "trigger"
      \/ requests = <<Request("resolve", OfTheEndpoint)>> /\ sending = "resolution"
      \/ /\ requests = <<Request("open", OfTheEndpoint), Request("resolve", OfTheEndpoint)>>
         /\ sending = "resolution"
    BY <1>1 DEF NotificationInv, EndpointNamesIncident, Notifies
<1>4. r.op \in {"open", "resolve"} /\ r.key = OfTheEndpoint
    BY <1>2, <1>3 DEF Request
<1>5. KeyAfter(r, fate = "accepted") \in {resolveKey, NoKey, OfTheEndpoint}
    BY <1>1 DEF KeyAfter
<1>6. resolveKey' \in Keys
    BY <1>1, <1>5, RequestEffects, KeysGrow
<1>7. OfTheEndpoint # NoKey
    BY DEF OfTheEndpoint, NoKey
<1>8. incidents' \subseteq {OfTheEndpoint}
    BY <1>1, <1>4, <1>7, RequestEffects DEF IncidentsAfter, Opened
<1>9. incidents' \subseteq Keys \ {NoKey}
    BY <1>1, <1>7, <1>8, KeysGrow
<1>10. InformedBy(r) = {}
    BY <1>4 DEF InformedBy
<1>11. /\ NotificationTypeOK' /\ sends' = sends
       /\ sending' \in {"trigger", "resolution", "failed", "trigger-accepted", "resolution-accepted"}
       /\ Notifies' => sending' = sending
       /\ sending' = "trigger-accepted" => sending = "trigger"
       /\ sending' = "resolution-accepted" => sending = "resolution"
    BY <1>1, <1>6, <1>9, <1>10, RequestEffects, RequestKeepsType
<1>12. CASE Fails(r, fate, listed)
  <2>1. sending' = "failed"
      BY <1>12, RequestEffects
  <2> QED BY <1>1, <1>8, <1>11, <2>1
          DEF NotificationInv, TellsInTurn, TellsAllAtOnce, NobodyIsMissing, TicketsAreListed, Notifies,
              Accepted, EndpointNamesIncident, SendNamesIncident, ServiceNamesIncident
<1>13. CASE ~Fails(r, fate, listed)
  <2>1. /\ requests' = Tail(requests) /\ incidents' = IncidentsAfter(r)
        /\ Tail(requests) # <<>> => sending' = sending
        /\ Tail(requests) = <<>> => sending' = Acceptance
    <3>1. Remaining(r, listed) = Tail(requests)
        BY <1>4 DEF Remaining
    <3> QED BY <1>13, <3>1, RequestEffects DEF Fails
  <2>2. CASE requests = <<Request("open", OfTheEndpoint)>> /\ sending = "trigger"
    <3>1. r.op = "open" /\ Len(requests) = 1
        BY <2>2 DEF Request
    <3>2. sending' = "trigger-accepted" /\ incidents' # {}
        BY <1>2, <2>1, <2>2, <3>1 DEF Acceptance, IncidentsAfter
    <3> QED BY <1>1, <1>8, <1>11, <3>2
            DEF NotificationInv, TellsInTurn, TellsAllAtOnce, NobodyIsMissing, TicketsAreListed, Notifies,
                EndpointNamesIncident, SendNamesIncident, ServiceNamesIncident
  <2>3. CASE requests = <<Request("resolve", OfTheEndpoint)>> /\ sending = "resolution"
    <3>1. r.op = "resolve" /\ r.key = OfTheEndpoint /\ Len(requests) = 1
        BY <2>3 DEF Request
    <3>2. sending' = "resolution-accepted" /\ incidents' = {}
        BY <1>1, <1>2, <2>1, <2>3, <3>1 DEF Acceptance, IncidentsAfter
    <3> QED BY <1>1, <1>11, <3>2
            DEF NotificationInv, TellsInTurn, TellsAllAtOnce, NobodyIsMissing, TicketsAreListed, Notifies,
                EndpointNamesIncident, SendNamesIncident, ServiceNamesIncident
  <2>4. CASE /\ requests = <<Request("open", OfTheEndpoint), Request("resolve", OfTheEndpoint)>>
             /\ sending = "resolution"
    <3>1. requests' = <<Request("resolve", OfTheEndpoint)>>
        BY <2>1, <2>4
    <3>2. /\ requests' # <<>> /\ sending' = "resolution"
          /\ requests' \in Seq([op : RequestOps, key : Nat])
        BY <1>2, <2>1, <2>4, <3>1
    <3> QED BY <1>1, <1>8, <1>11, <3>1, <3>2
            DEF NotificationInv, TellsInTurn, TellsAllAtOnce, NobodyIsMissing, TicketsAreListed, Notifies,
                EndpointNamesIncident, SendNamesIncident, ServiceNamesIncident
  <2> QED BY <1>3, <2>2, <2>3, <2>4
<1> QED BY <1>12, <1>13

LEMMA NamedBySendKeeps ==
    ASSUME NotificationInv, NEW fate \in Fates, NEW listed, PerformRequest(fate, listed), sends.key = "made"
    PROVE  NotificationInv'
<1> DEFINE r == Head(requests)
<1>1. /\ sends \in WaysToSend /\ sends.does = "event" /\ Notifies
      /\ resolveKey \in Keys \ {NoKey} /\ incidents \subseteq {resolveKey} /\ informed \subseteq ToSet(Recipients)
      /\ requests = <<Request(IF sending = "resolution" THEN "resolve" ELSE "open", resolveKey)>>
    BY WaysAreShaped, RequestEffects DEF NotificationInv, NotificationTypeOK, SendNamesIncident
<1>2. /\ r = Request(IF sending = "resolution" THEN "resolve" ELSE "open", resolveKey)
      /\ Tail(requests) = <<>>
    BY <1>1
<1>3. r.op = (IF sending = "resolution" THEN "resolve" ELSE "open") /\ r.key = resolveKey
    BY <1>2 DEF Request
<1>4. KeyAfter(r, fate = "accepted") = resolveKey
    BY <1>1 DEF KeyAfter
<1>5. Remaining(r, listed) = <<>> /\ InformedBy(r) = {}
    BY <1>2, <1>3 DEF Remaining, InformedBy
<1>6. /\ resolveKey' = resolveKey /\ informed' = informed
      /\ incidents' \subseteq {resolveKey}
  <2>1. resolveKey' = resolveKey /\ informed' = informed
      BY ZenonT(60), <1>4, <1>5, RequestEffects
  <2>2. incidents' \in {incidents, IncidentsAfter(r)}
      BY RequestEffects
  <2>3. IncidentsAfter(r) \subseteq {resolveKey}
      BY <1>1, <1>3 DEF IncidentsAfter, Opened
  <2> QED BY <1>1, <2>1, <2>2, <2>3
<1>7. /\ NotificationTypeOK' /\ sends' = sends
      /\ sending' = "trigger-accepted" => sending = "trigger"
      /\ sending' = "resolution-accepted" => sending = "resolution"
    BY <1>1, <1>6, RequestKeepsType
<1>8. sending' \in {"failed", "trigger-accepted", "resolution-accepted"}
    BY <1>5, RequestEffects DEF Acceptance
<1>9. sending' # "failed" => incidents' = IncidentsAfter(r)
    BY RequestEffects DEF Fails
<1>10. /\ sending' = "trigger-accepted" => incidents' # {}
       /\ sending' = "resolution-accepted" => incidents' = {}
    BY <1>1, <1>3, <1>7, <1>9 DEF IncidentsAfter
<1> QED BY <1>1, <1>6, <1>7, <1>8, <1>10
        DEF NotificationInv, TellsInTurn, TellsAllAtOnce, NobodyIsMissing, TicketsAreListed, Notifies,
            EndpointNamesIncident, SendNamesIncident, ServiceNamesIncident

LEMMA NamedByServiceKeeps ==
    ASSUME NotificationInv, NEW fate \in Fates, NEW listed, PerformRequest(fate, listed),
           sends.key \in {"answered", "made-and-answered"}
    PROVE  NotificationInv'
<1> DEFINE r == Head(requests)
           mine == IF sends.key = "answered" THEN NoKey ELSE resolveKey
<1>1. /\ sends \in WaysToSend /\ sends.does = "event" /\ Notifies
      /\ sends.key = "made-and-answered" => sends.mustRead /\ resolveKey # NoKey
      /\ resolveKey \in Keys /\ incidents \subseteq Keys \ {NoKey} /\ informed \subseteq ToSet(Recipients)
      /\ made \in 0 .. MaxIncidents /\ incidents \subseteq {resolveKey} \cup forgotten
      /\ sending = "trigger" => requests = <<Request("open", mine)>>
      /\ sending = "resolution" => requests = <<Request("resolve", resolveKey)>>
    BY WaysAreShaped, RequestEffects DEF NotificationInv, NotificationTypeOK, ServiceNamesIncident
<1>2. /\ sending = "trigger" => r = Request("open", mine)
      /\ sending = "resolution" => r = Request("resolve", resolveKey)
      /\ Tail(requests) = <<>>
  <2>1. \A x : Head(<<x>>) = x /\ Tail(<<x>>) = <<>>
      OBVIOUS
  <2> QED BY <1>1, <2>1 DEF Notifies
<1>3. /\ sending = "trigger" => r.op = "open" /\ r.key = mine
      /\ sending = "resolution" => r.op = "resolve" /\ r.key = resolveKey
    BY <1>2 DEF Request
<1>4. Remaining(r, listed) = <<>> /\ InformedBy(r) = {}
    BY <1>1, <1>2, <1>3 DEF Remaining, InformedBy, Notifies
<1>5. /\ informed' = informed
      /\ incidents' = IF fate # "refused" THEN IncidentsAfter(r) ELSE incidents
      /\ resolveKey' = IF fate \in {"refused", "answer-lost"} THEN resolveKey
                       ELSE KeyAfter(r, fate = "accepted")
      /\ forgotten' = forgotten \cup ({resolveKey} \ {resolveKey'})
                      \cup {k \in incidents' \ incidents : k # resolveKey'}
      /\ UNCHANGED <<sends, sendOnResolved>>
    BY <1>4, RequestEffects
<1>6. MakesIncident(r, fate) => Fresh \in Keys \ {NoKey}
    BY <1>1, RequestEffects, KeysGrow
<1>7. incidents' \subseteq Keys \ {NoKey}
    BY <1>1, <1>3, <1>5, <1>6 DEF IncidentsAfter, Opened, MakesIncident, Notifies
<1>8. resolveKey' \in Keys
  <2>1. CASE sends.key = "made-and-answered"
      BY <1>1, <1>3, <1>5, <2>1, KeysGrow DEF KeyAfter, Notifies
  <2>2. CASE sends.key = "answered"
    <3>1. sending = "trigger" /\ fate = "accepted" => Fresh \in Keys
        BY <1>3, <1>6, <2>2 DEF MakesIncident
    <3>2. KeyAfter(r, fate = "accepted") \in
            {NoKey, resolveKey} \cup IF sending = "trigger" /\ fate = "accepted" THEN {Fresh} ELSE {}
        BY <1>1, <2>2 DEF KeyAfter, Notifies
    <3> QED BY <1>1, <1>5, <3>1, <3>2, KeysGrow
  <2> QED BY <2>1, <2>2
<1>9. /\ NotificationTypeOK'
      /\ sending' = "trigger-accepted" => sending = "trigger"
      /\ sending' = "resolution-accepted" => sending = "resolution"
    BY <1>1, <1>5, <1>7, <1>8, RequestKeepsType
<1>10. sending' \in {"failed", "trigger-accepted", "resolution-accepted"}
    BY <1>4, RequestEffects DEF Acceptance
<1>11. incidents' \subseteq {resolveKey'} \cup forgotten'
    BY <1>1, <1>5
<1>12. sending' # "failed" => incidents' = IncidentsAfter(r)
    BY <1>5, RequestEffects DEF Fails
<1>13. sending' = "trigger-accepted" => incidents' # {}
    BY <1>3, <1>9, <1>12 DEF IncidentsAfter
<1>14. sending' = "resolution-accepted" => incidents' \subseteq forgotten'
    BY <1>1, <1>3, <1>5, <1>9, <1>12 DEF IncidentsAfter
<1> QED BY <1>1, <1>5, <1>9, <1>10, <1>11, <1>13, <1>14
        DEF NotificationInv, TellsInTurn, TellsAllAtOnce, NobodyIsMissing, TicketsAreListed, Notifies,
            EndpointNamesIncident, SendNamesIncident, ServiceNamesIncident

LEMMA RequestKeeps ==
    ASSUME NotificationInv, NEW fate \in Fates, NEW listed, PerformRequest(fate, listed)
    PROVE  NotificationInv'
<1>1. /\ sends.does \in {"tell", "ticket", "event"}
      /\ sends.does = "event" <=> sends.key # "none"
      /\ sends.key \in {"none", "made", "made-and-answered", "alias", "answered", "of-the-endpoint"}
    BY WaysAreShaped DEF NotificationInv
<1> QED BY <1>1, TellingKeeps, TicketsKeep, NamedByEndpointKeeps, NamedBySendKeeps, NamedByServiceKeeps

LEMMA ConfigureKeeps == ASSUME NotificationInv, ConfigureAlert PROVE NotificationInv'
<1>1. /\ sends' \in WaysToSend /\ sendOnResolved' \in BOOLEAN /\ sending' = "nothing" /\ incidents = {}
      /\ UNCHANGED <<alertTriggered, resolveKey, requests, informed, incidents, made, forgotten, unlisted>>
    BY CatalogSends DEF ConfigureAlert, NotificationInv
<1>2. NotificationTypeOK'
    BY <1>1 DEF NotificationInv, NotificationTypeOK
<1> QED BY <1>1, <1>2
        DEF NotificationInv, TellsInTurn, TellsAllAtOnce, NobodyIsMissing, TicketsAreListed, Notifies, Accepted,
            EndpointNamesIncident, SendNamesIncident, ServiceNamesIncident

\* What does not concern requests and incidents.
LEMMA HandlerKeeps ==
    ASSUME NotificationInv, alertTriggered' \in BOOLEAN, sending' = "nothing", informed' \subseteq informed,
           sending # "not-configured",
           UNCHANGED <<sends, sendOnResolved, resolveKey, incidents, made, forgotten, unlisted>>
    PROVE  NotificationInv'
<1>1. NotificationTypeOK'
    BY DEF NotificationInv, NotificationTypeOK
<1> QED BY <1>1
        DEF NotificationInv, TellsInTurn, TellsAllAtOnce, NobodyIsMissing, TicketsAreListed, Notifies, Accepted,
            EndpointNamesIncident, SendNamesIncident, ServiceNamesIncident

LEMMA NotificationNextKeeps == NotificationInv /\ [NotificationNext]_notificationVars => NotificationInv'
<1> SUFFICES ASSUME NotificationInv, [NotificationNext]_notificationVars PROVE NotificationInv'
    OBVIOUS
<1>1. alertTriggered \in BOOLEAN
    BY DEF NotificationInv, NotificationTypeOK
<1>2. CASE ConfigureAlert
    BY <1>2, ConfigureKeeps
<1>3. CASE NotifyTriggered
    BY <1>1, <1>3, BeginSendKeeps DEF NotifyTriggered
<1>4. CASE NotifyResolved
    BY <1>4, BeginSendKeeps DEF NotifyResolved
<1>5. CASE NotifyNobody
    BY <1>5, HandlerKeeps DEF NotifyNobody
<1>6. ASSUME NEW fate \in Fates, NEW listed \in SUBSET Keys, PerformRequest(fate, listed)
      PROVE  NotificationInv'
    BY <1>6, RequestKeeps
<1>7. CASE SendReturns
  <2>1. alertTriggered' \in BOOLEAN
      BY <1>1, <1>7 DEF SendReturns
  <2> QED BY <1>7, <2>1, HandlerKeeps DEF SendReturns
<1>8. CASE UNCHANGED notificationVars
    BY <1>8 DEF notificationVars, NotificationInv, NotificationTypeOK, TellsInTurn, TellsAllAtOnce,
        NobodyIsMissing, TicketsAreListed, Notifies, Accepted, EndpointNamesIncident, SendNamesIncident,
        ServiceNamesIncident
<1> QED BY <1>2, <1>3, <1>4, <1>5, <1>6, <1>7, <1>8 DEF NotificationNext

(* Send keeps its promises, whatever happens to its requests: every provider of
   the catalog knows what it still has to do and which incident is meant. *)
LEMMA NotificationInvariant == NotificationSpec => []NotificationInv
    BY NotificationInitEstablishes, NotificationNextKeeps, PTL DEF NotificationSpec

(* The variables of a notification have their types. *)
THEOREM NotificationTypeCorrect == NotificationSpec => []NotificationTypeOK
<1>1. NotificationInv => NotificationTypeOK
    BY DEF NotificationInv
<1> QED BY <1>1, NotificationInvariant, PTL

(* Whatever requests were refused, lost or answered illegibly: a notification
   that Send reports as sent has reached every recipient, or has an incident
   open at the service, so HandleAlerting may well not try it again. *)
THEOREM AcceptedNotificationsAreAlwaysComplete == NotificationSpec => []AcceptedNotificationsAreComplete
<1>1. NotificationInv => AcceptedNotificationsAreComplete
    BY DEF NotificationInv, NobodyIsMissing, Accepted, AcceptedNotificationsAreComplete
<1> QED BY <1>1, NotificationInvariant, PTL

(* A resolution that Send reports as sent closes every incident that the failed
   attempts, the reminders and the resolutions that were not sent left open, but
   for tickets that the first page of the listing left out and those incidents
   of PagerDuty and incident.io whose name was lost. *)
THEOREM ResolutionAlwaysClosesIncidents == NotificationSpec => []ResolutionClosesIncidents
<1>1. ASSUME NotificationInv PROVE ResolutionClosesIncidents
  <2>1. /\ sends.does \in {"tell", "ticket", "event"}
        /\ sends.does = "event" <=> sends.key # "none"
        /\ sends.key \in {"none", "made", "made-and-answered", "alias", "answered", "of-the-endpoint"}
      BY <1>1, WaysAreShaped DEF NotificationInv
  <2> QED BY <1>1, <2>1 DEF NotificationInv, NobodyIsMissing, TicketsAreListed, EndpointNamesIncident,
        SendNamesIncident, ServiceNamesIncident, ResolutionClosesIncidents
<1> QED BY <1>1, NotificationInvariant, PTL

(***************************************************************************)
(* The settings that Send is given.                                        *)
(***************************************************************************)
\* The last answer is what GetConfig still answers.
AnswerStands ==
    latest.asked =>
        LET answer == GetConfig(provider, defaultConfig, overrides, latest.group, latest.override,
                                latest.answers)
        IN  latest.error = answer.error /\ latest.used = Used(provider, answer.config)

\* The default settings are those of the file, completed once.
ProviderInv ==
    /\ provider \in Catalog \cup {NoProvider}
    /\ provider = NoProvider => ~latest.asked
    /\ provider # NoProvider =>
        /\ DOMAIN written = DOMAIN provider.config
        /\ written = [s \in DOMAIN provider.config |-> written[s]]
        /\ defaultConfig = Completed(provider, NewConfig(written))
    /\ AnswerStands

\* Settings that a client is made from have no value of the program, and the
\* repository is one of them.
LEMMA ClientsAreShaped ==
    ASSUME NEW p \in Catalog, p.clientOf # {}
    PROVE  /\ p.clientOf \subseteq DOMAIN p.config /\ "repositoryURL" \in p.clientOf
           /\ \A s \in p.clientOf : p.config[s].need # "built-in"
<1>1. p \in {Gitea, GitHub}
  <2>1. \A type, config, groups, way, needs :
            /\ Provider(type, config, groups, way).clientOf = {}
            /\ Needing(Provider(type, config, groups, way), needs).clientOf = {}
      BY DEF Provider, Needing
  <2>2. AwsSes.clientOf = {} /\ Ntfy.clientOf = {}
      BY DEF AwsSes, Ntfy, Provider, Needing
  <2>3. \A q \in {ClickUp, Custom, Datadog, Discord, Email, GitLab, GoogleChat, Gotify, HomeAssistant} :
            q.clientOf = {}
      BY <2>1 DEF ClickUp, Custom, Datadog, Discord, Email, GitLab, GoogleChat, Gotify, HomeAssistant
  <2>4. \A q \in {Ifttt, Ilert, IncidentIo, Line, Matrix, Mattermost, Messagebird, N8n, NewRelic} :
            q.clientOf = {}
      BY <2>1 DEF Ifttt, Ilert, IncidentIo, Line, Matrix, Mattermost, Messagebird, N8n, NewRelic
  <2>5. \A q \in {Opsgenie, PagerDuty, Plivo, Pushover, RocketChat, SendGrid, Signal, Signl4, Slack} :
            q.clientOf = {}
      BY <2>1 DEF Opsgenie, PagerDuty, Plivo, Pushover, RocketChat, SendGrid, Signal, Signl4, Slack
  <2>6. \A q \in {Splunk, Squadcast, Teams, TeamsWorkflows, Telegram, Twilio, Vonage, Webex, Zapier, Zulip} :
            q.clientOf = {}
      BY <2>1 DEF Splunk, Squadcast, Teams, TeamsWorkflows, Telegram, Twilio, Vonage, Webex, Zapier, Zulip
  <2> QED BY <2>2, <2>3, <2>4, <2>5, <2>6 DEF Catalog
<1>2. CASE p = Gitea
    BY <1>2 DEF Gitea, Provider, GiteaConfig, Checked, Required, Optional, Setting
<1>3. CASE p = GitHub
    BY <1>3 DEF GitHub, Provider, GitHubConfig, Checked, Required, Optional, Setting
<1> QED BY <1>1, <1>2, <1>3

\* What a setting comes to when layers are merged over the completed file.
LEMMA MergedOver ==
    ASSUME NEW config, NEW override,
           config = [settings |-> config.settings, client |-> config.client]
    PROVE  /\ DOMAIN Merge(config, override).settings = DOMAIN config.settings
           /\ Merge(config, override).client = config.client
           /\ Merge(config, override) =
                [settings |-> Merge(config, override).settings, client |-> Merge(config, override).client]
           /\ \A s \in DOMAIN config.settings : Merge(config, override).settings[s] =
                IF override[s] = Unset THEN config.settings[s] ELSE override[s]
<1> DEFINE merged == [t \in DOMAIN config.settings |->
                        IF override[t] = Unset THEN config.settings[t] ELSE override[t]]
<1>1. Merge(config, override) = [settings |-> merged, client |-> config.client]
    BY DEF Merge
<1> HIDE DEF merged
<1>2. Merge(config, override).settings = merged /\ Merge(config, override).client = config.client
    BY <1>1
<1>3. /\ DOMAIN merged = DOMAIN config.settings
      /\ \A s \in DOMAIN config.settings :
            merged[s] = IF override[s] = Unset THEN config.settings[s] ELSE override[s]
    BY DEF merged
<1> QED BY <1>1, <1>2, <1>3

\* The first of the layers that has a setting.
HasIt(layers, s) == {i \in DOMAIN layers : layers[i][s] # Unset}
Chosen(layers, s) == layers[CHOOSE i \in HasIt(layers, s) : \A j \in HasIt(layers, s) : i <= j][s]

LEMMA FirstIsChosen ==
    ASSUME NEW n \in Nat, NEW layers, DOMAIN layers = 1 .. n, NEW s,
           NEW i \in 1 .. n, layers[i][s] # Unset, \A j \in 1 .. i - 1 : layers[j][s] = Unset
    PROVE  HasIt(layers, s) # {} /\ Chosen(layers, s) = layers[i][s]
<1> DEFINE H == HasIt(layers, s)
<1>1. i \in H
    BY DEF HasIt
<1>2. \A j \in H : i <= j
    BY DEF HasIt
<1>3. H \subseteq Nat
    BY DEF HasIt
<1> HIDE DEF H
<1>4. \A k \in H : (\A j \in H : k <= j) => k = i
    BY <1>1, <1>2, <1>3
<1>5. (CHOOSE k \in H : \A j \in H : k <= j) = i
    BY <1>1, <1>2, <1>4
<1> QED BY <1>1, <1>5 DEF H, Chosen

\* There are one, two or three of them.
LEMMA ChosenInTurn ==
    ASSUME NEW layers, NEW n \in 1 .. 3, DOMAIN layers = 1 .. n, NEW s
    PROVE  /\ layers[1][s] # Unset => HasIt(layers, s) # {} /\ Chosen(layers, s) = layers[1][s]
           /\ n >= 2 /\ layers[1][s] = Unset /\ layers[2][s] # Unset
                => HasIt(layers, s) # {} /\ Chosen(layers, s) = layers[2][s]
           /\ n = 3 /\ layers[1][s] = Unset /\ layers[2][s] = Unset /\ layers[3][s] # Unset
                => HasIt(layers, s) # {} /\ Chosen(layers, s) = layers[3][s]
           /\ (\A j \in 1 .. n : layers[j][s] = Unset) => HasIt(layers, s) = {}
<1>1. ASSUME NEW i \in 1 .. n, layers[i][s] # Unset, \A j \in 1 .. i - 1 : layers[j][s] = Unset
      PROVE  HasIt(layers, s) # {} /\ Chosen(layers, s) = layers[i][s]
    BY <1>1, FirstIsChosen, n \in Nat
<1>2. layers[1][s] # Unset => HasIt(layers, s) # {} /\ Chosen(layers, s) = layers[1][s]
  <2>1. 1 \in 1 .. n /\ \A j \in 1 .. 1 - 1 : layers[j][s] = Unset
      OBVIOUS
  <2> QED BY <1>1, <2>1
<1>3. ASSUME n >= 2, layers[1][s] = Unset, layers[2][s] # Unset
      PROVE  HasIt(layers, s) # {} /\ Chosen(layers, s) = layers[2][s]
  <2>1. 2 \in 1 .. n /\ \A j \in 1 .. 2 - 1 : layers[j][s] = Unset
      BY <1>3
  <2> QED BY <1>1, <1>3, <2>1
<1>4. ASSUME n = 3, layers[1][s] = Unset, layers[2][s] = Unset, layers[3][s] # Unset
      PROVE  HasIt(layers, s) # {} /\ Chosen(layers, s) = layers[3][s]
  <2>1. 3 \in 1 .. n /\ \A j \in 1 .. 3 - 1 : layers[j][s] = Unset
      BY <1>4
  <2> QED BY <1>1, <1>4, <2>1
<1>5. (\A j \in 1 .. n : layers[j][s] = Unset) => HasIt(layers, s) = {}
    BY DEF HasIt
<1> QED BY <1>2, <1>3, <1>4, <1>5

LEMMA SettingIsChosen ==
    ASSUME NEW s
    PROVE  SettingOf(s) = IF HasIt(Layers, s) # {} THEN Chosen(Layers, s)
                          ELSE IF provider.config[s].need = "built-in" THEN OfTheProgram ELSE Unset
    BY DEF SettingOf, HasIt, Chosen

\* The provider-override of the alert, the override for the group, the file.
OwnLayer == latest.override.kind = "config"
GroupsOverrides == {i \in DOMAIN overrides : overrides[i].group = latest.group}
GroupLayer == overrides[CHOOSE i \in GroupsOverrides : \A j \in GroupsOverrides : i <= j].settings

LEMMA LayersAre ==
    Layers = (IF OwnLayer THEN <<latest.override.settings>> ELSE <<>>)
             \o (IF GroupsOverrides = {} THEN <<>> ELSE <<GroupLayer>>)
             \o <<written>>
    BY DEF Layers, OwnLayer, GroupsOverrides, GroupLayer

LEMMA TwoConcatenated ==
    ASSUME NEW x, NEW y
    PROVE  LET both == <<x>> \o <<y>>
           IN  /\ <<x>> \o <<>> \o <<y>> = both /\ <<>> \o <<x>> \o <<y>> = both
               /\ both \in Seq({x, y}) /\ Len(both) = 2
               /\ DOMAIN both = 1 .. 2 /\ both[1] = x /\ both[2] = y
<1> DEFINE both == <<x>> \o <<y>>
<1>1. <<x>> \in Seq({x, y}) /\ <<y>> \in Seq({x, y}) /\ Len(<<x>>) = 1 /\ Len(<<y>>) = 1
    OBVIOUS
<1>2. /\ both \in Seq({x, y}) /\ Len(both) = 2
      /\ \A i \in 1 .. 2 : both[i] = IF i <= 1 THEN <<x>>[i] ELSE <<y>>[i - 1]
    BY <1>1, ConcatProperties
<1>3. <<x>> \o <<>> = <<x>> /\ <<>> \o <<x>> = <<x>>
    BY <1>1, ConcatEmptySeq
<1> HIDE DEF both
<1>4. DOMAIN both = 1 .. 2 /\ both[1] = x /\ both[2] = y
    BY <1>2
<1> QED BY <1>2, <1>3, <1>4 DEF both

LEMMA ThreeConcatenated ==
    ASSUME NEW x, NEW y, NEW z
    PROVE  LET all == <<x>> \o <<y>> \o <<z>>
           IN  DOMAIN all = 1 .. 3 /\ all[1] = x /\ all[2] = y /\ all[3] = z
<1> DEFINE both == <<x>> \o <<y>>
           all == both \o <<z>>
<1>1. Len(both) = 2 /\ both[1] = x /\ both[2] = y
    BY TwoConcatenated
<1>2. both \in Seq({x, y})
    BY TwoConcatenated
<1>3. both \in Seq({x, y, z})
    BY <1>2
<1> HIDE DEF both
<1>4. <<z>> \in Seq({x, y, z}) /\ Len(<<z>>) = 1
    OBVIOUS
<1>5. /\ all \in Seq({x, y, z}) /\ Len(all) = 3
      /\ \A i \in 1 .. 3 : all[i] = IF i <= 2 THEN both[i] ELSE <<z>>[i - 2]
    BY <1>1, <1>3, <1>4, ConcatProperties
<1> HIDE DEF all
<1>6. DOMAIN all = 1 .. 3 /\ all[1] = x /\ all[2] = y /\ all[3] = z
    BY <1>1, <1>5
<1> QED BY <1>6 DEF all, both

LEMMA SettingByLayers ==
    ASSUME NEW s
    PROVE  SettingOf(s) =
             IF OwnLayer /\ latest.override.settings[s] # Unset THEN latest.override.settings[s]
             ELSE IF GroupsOverrides # {} /\ GroupLayer[s] # Unset THEN GroupLayer[s]
             ELSE IF written[s] # Unset THEN written[s]
             ELSE IF provider.config[s].need = "built-in" THEN OfTheProgram ELSE Unset
<1> DEFINE own == latest.override.settings
<1> HIDE DEF own
<1>1. Layers = (IF OwnLayer THEN <<own>> ELSE <<>>)
               \o (IF GroupsOverrides = {} THEN <<>> ELSE <<GroupLayer>>) \o <<written>>
    BY LayersAre DEF own
<1>2. CASE OwnLayer /\ GroupsOverrides # {}
  <2>1. Layers = <<own>> \o <<GroupLayer>> \o <<written>>
      BY <1>1, <1>2
  <2>2. DOMAIN Layers = 1 .. 3 /\ Layers[1] = own /\ Layers[2] = GroupLayer /\ Layers[3] = written
      BY <2>1, ThreeConcatenated
  <2> QED BY <1>2, <2>2, ChosenInTurn, SettingIsChosen DEF own
<1>3. CASE OwnLayer /\ GroupsOverrides = {}
  <2>1. Layers = <<own>> \o <<>> \o <<written>>
      BY <1>1, <1>3
  <2>2. DOMAIN Layers = 1 .. 2 /\ Layers[1] = own /\ Layers[2] = written
      BY <2>1, TwoConcatenated
  <2> QED BY <1>3, <2>2, ChosenInTurn, SettingIsChosen DEF own
<1>4. CASE ~OwnLayer /\ GroupsOverrides # {}
  <2>1. Layers = <<>> \o <<GroupLayer>> \o <<written>>
      BY <1>1, <1>4
  <2>2. DOMAIN Layers = 1 .. 2 /\ Layers[1] = GroupLayer /\ Layers[2] = written
      BY <2>1, TwoConcatenated
  <2> QED BY <1>4, <2>2, ChosenInTurn, SettingIsChosen
<1>5. CASE ~OwnLayer /\ GroupsOverrides = {}
  <2>1. Layers = <<written>>
      BY <1>1, <1>5
  <2>2. DOMAIN Layers = 1 .. 1 /\ Layers[1] = written
      BY <2>1
  <2> QED BY <1>5, <2>2, ChosenInTurn, SettingIsChosen
<1> QED BY <1>2, <1>3, <1>4, <1>5

IsConfig(config, settings) ==
    config = [settings |-> config.settings, client |-> config.client] /\ DOMAIN config.settings = settings

\* What Validate makes of the file.
LEMMA DefaultConfigIs ==
    ASSUME ProviderInv, provider # NoProvider
    PROVE  /\ IsConfig(defaultConfig, DOMAIN provider.config)
           /\ \A s \in DOMAIN provider.config :
                defaultConfig.settings[s] =
                    IF written[s] = Unset /\ provider.config[s].need = "built-in" THEN OfTheProgram ELSE written[s]
           /\ provider.clientOf # {} =>
                defaultConfig.client = [s \in provider.clientOf |-> defaultConfig.settings[s]]
<1> DEFINE completed == WithBuiltIns(provider, written)
           client == IF provider.clientOf = {} THEN NoClientYet ELSE [s \in provider.clientOf |-> completed[s]]
<1>1. DOMAIN written = DOMAIN provider.config /\ defaultConfig = Completed(provider, NewConfig(written))
    BY DEF ProviderInv
<1>2. NewConfig(written).settings = written /\ NewConfig(written).client = NoClientYet
    BY DEF NewConfig
<1>3. defaultConfig = [settings |-> completed, client |-> client]
    BY <1>1, <1>2 DEF Completed, MakesClient, KeepsClient
<1>4. /\ DOMAIN completed = DOMAIN provider.config
      /\ \A s \in DOMAIN provider.config :
            completed[s] = IF written[s] = Unset /\ provider.config[s].need = "built-in" THEN OfTheProgram
                           ELSE written[s]
    BY <1>1 DEF WithBuiltIns
<1>5. provider.clientOf # {} => client = [s \in provider.clientOf |-> completed[s]]
    OBVIOUS
<1> HIDE DEF completed, client
<1>6. defaultConfig.settings = completed /\ defaultConfig.client = client
    BY <1>3
<1> QED BY <1>3, <1>4, <1>5, <1>6 DEF IsConfig

\* The settings that an alert is sent with, before a client that exists is taken.
MergedConfig ==
    LET ofGroup == MergedWithGroup(defaultConfig, overrides, latest.group)
    IN  IF OwnLayer THEN Merge(ofGroup, latest.override.settings) ELSE ofGroup

LEMMA MergedConfigIs ==
    ASSUME ProviderInv, provider # NoProvider
    PROVE  /\ IsConfig(MergedConfig, DOMAIN provider.config)
           /\ MergedConfig.client = defaultConfig.client
           /\ \A s \in DOMAIN provider.config : MergedConfig.settings[s] =
                IF OwnLayer /\ latest.override.settings[s] # Unset THEN latest.override.settings[s]
                ELSE IF GroupsOverrides # {} /\ GroupLayer[s] # Unset THEN GroupLayer[s]
                ELSE defaultConfig.settings[s]
<1> DEFINE ofGroup == MergedWithGroup(defaultConfig, overrides, latest.group)
<1>1. IsConfig(defaultConfig, DOMAIN provider.config)
    BY DefaultConfigIs
<1>2. ofGroup = IF GroupsOverrides = {} THEN defaultConfig ELSE Merge(defaultConfig, GroupLayer)
    BY DEF MergedWithGroup, GroupsOverrides, GroupLayer
<1> HIDE DEF ofGroup
<1>3. /\ IsConfig(ofGroup, DOMAIN provider.config)
      /\ ofGroup.client = defaultConfig.client
      /\ \A s \in DOMAIN provider.config :
            ofGroup.settings[s] = IF GroupsOverrides # {} /\ GroupLayer[s] # Unset THEN GroupLayer[s]
                                  ELSE defaultConfig.settings[s]
  <2>1. CASE GroupsOverrides = {}
      BY <1>1, <1>2, <2>1
  <2>2. CASE GroupsOverrides # {}
      BY <1>1, <1>2, <2>2, MergedOver DEF IsConfig
  <2> QED BY <2>1, <2>2
<1>4. MergedConfig = IF OwnLayer THEN Merge(ofGroup, latest.override.settings) ELSE ofGroup
    BY DEF MergedConfig, ofGroup
<1>5. CASE ~OwnLayer
    BY <1>3, <1>4, <1>5
<1>6. CASE OwnLayer
    BY <1>3, <1>4, <1>6, MergedOver DEF IsConfig
<1> QED BY <1>5, <1>6

\* Each setting is that of the most specific layer.
LEMMA CompletedIs ==
    ASSUME ProviderInv, provider # NoProvider
    PROVE  LET completed == Completed(provider, MergedConfig)
           IN  /\ DOMAIN completed.settings = DOMAIN provider.config
               /\ \A s \in DOMAIN provider.config : completed.settings[s] = SettingOf(s)
               /\ provider.clientOf # {} =>
                    \A s \in provider.clientOf :
                        /\ KeepsClient(MergedConfig) <=> OfKeptClient(s)
                        /\ completed.client[s] = IF OfKeptClient(s) THEN written[s] ELSE SettingOf(s)
<1> DEFINE settings == WithBuiltIns(provider, MergedConfig.settings)
           client == IF MakesClient(provider, MergedConfig) THEN [s \in provider.clientOf |-> settings[s]]
                     ELSE MergedConfig.client
<1>1. Completed(provider, MergedConfig) = [settings |-> settings, client |-> client]
    BY DEF Completed
<1>2. provider \in Catalog
    BY DEF ProviderInv
<1>3. IsConfig(MergedConfig, DOMAIN provider.config) /\ MergedConfig.client = defaultConfig.client
    BY MergedConfigIs
<1>4. /\ DOMAIN settings = DOMAIN provider.config
      /\ \A s \in DOMAIN provider.config :
            settings[s] = IF MergedConfig.settings[s] = Unset /\ provider.config[s].need = "built-in"
                          THEN OfTheProgram ELSE MergedConfig.settings[s]
    BY <1>3 DEF WithBuiltIns, IsConfig
<1> HIDE DEF settings
<1>5. ASSUME NEW s \in DOMAIN provider.config PROVE settings[s] = SettingOf(s)
  <2>1. OfTheProgram # Unset
      BY DEF OfTheProgram, Unset, Written
  <2>2. defaultConfig.settings[s] =
            IF written[s] = Unset /\ provider.config[s].need = "built-in" THEN OfTheProgram ELSE written[s]
      BY DefaultConfigIs
  <2> QED BY <1>4, <2>1, <2>2, MergedConfigIs, SettingByLayers
<1>6. ASSUME provider.clientOf # {}, NEW s \in provider.clientOf
      PROVE  /\ KeepsClient(MergedConfig) <=> OfKeptClient(s)
             /\ client[s] = IF OfKeptClient(s) THEN written[s] ELSE SettingOf(s)
  <2>1. /\ s \in DOMAIN provider.config /\ "repositoryURL" \in provider.clientOf
        /\ "repositoryURL" \in DOMAIN provider.config
        /\ provider.config[s].need # "built-in" /\ provider.config["repositoryURL"].need # "built-in"
      BY <1>2, <1>6, ClientsAreShaped
  <2>2. MergedConfig.client = [t \in provider.clientOf |-> defaultConfig.settings[t]]
      BY <1>3, <1>6, DefaultConfigIs
  <2>3. MergedConfig.client # NoClientYet
    <3>1. DOMAIN MergedConfig.client = provider.clientOf
        BY <2>2
    <3>2. DOMAIN NoClientYet = {}
        BY DEF NoClientYet
    <3> QED BY <1>6, <3>1, <3>2
  <2>4. /\ MergedConfig.client[s] = written[s]
        /\ MergedConfig.client["repositoryURL"] = written["repositoryURL"]
      BY <1>6, <2>1, <2>2, DefaultConfigIs
  <2>5. MergedConfig.settings["repositoryURL"] = SettingOf("repositoryURL")
      BY <1>4, <1>5, <2>1
  <2>6. KeepsClient(MergedConfig) <=> OfKeptClient(s)
      BY <1>6, <2>3, <2>4, <2>5 DEF OfKeptClient, KeepsClient
  <2> QED BY <1>5, <1>6, <2>1, <2>4, <2>6 DEF MakesClient
<1> HIDE DEF client
<1> QED BY <1>1, <1>4, <1>5, <1>6

LEMMA AnswersAreLayered == ProviderInv => SettingsAreLayered
<1> SUFFICES ASSUME ProviderInv, latest.asked
             PROVE  IF latest.override.kind = "unparseable" THEN latest.error
                    ELSE LET expected == [s \in DOMAIN provider.config |->
                                            IF OfKeptClient(s) THEN written[s] ELSE SettingOf(s)]
                         IN  /\ latest.used = expected
                             /\ latest.error =
                                    \/ ~IsValidFor(provider, expected)
                                    \/ /\ provider.clientOf # {} /\ ~OfKeptClient("repositoryURL")
                                       /\ ~latest.answers
    BY DEF SettingsAreLayered
<1> DEFINE completed == Completed(provider, MergedConfig)
           expected == [s \in DOMAIN provider.config |->
                            IF OfKeptClient(s) THEN written[s] ELSE SettingOf(s)]
<1>1. provider # NoProvider /\ provider \in Catalog
    BY DEF ProviderInv
<1>2. CASE latest.override.kind = "unparseable"
    BY <1>2 DEF ProviderInv, AnswerStands, GetConfig
<1>3. CASE latest.override.kind # "unparseable"
  <2>1. /\ latest.error = \/ ~IsValidFor(provider, Used(provider, completed))
                          \/ MakesClient(provider, MergedConfig) /\ ~latest.answers
        /\ latest.used = Used(provider, completed)
      BY <1>3 DEF ProviderInv, AnswerStands, GetConfig, MergedConfig, OwnLayer
  <2>2. Used(provider, completed) = expected
    <3>1. /\ DOMAIN completed.settings = DOMAIN provider.config
          /\ \A s \in DOMAIN provider.config : completed.settings[s] = SettingOf(s)
          /\ provider.clientOf # {} =>
                \A s \in provider.clientOf :
                    completed.client[s] = IF OfKeptClient(s) THEN written[s] ELSE SettingOf(s)
        BY <1>1, CompletedIs
    <3> HIDE DEF completed
    <3>2. \A s \in DOMAIN provider.config : s \notin provider.clientOf => ~OfKeptClient(s)
        BY DEF OfKeptClient
    <3> QED BY <3>1, <3>2 DEF Used
  <2> HIDE DEF completed, expected
  <2>3. MakesClient(provider, MergedConfig) =
            (provider.clientOf # {} /\ ~OfKeptClient("repositoryURL"))
      BY <1>1, CompletedIs, ClientsAreShaped DEF MakesClient
  <2>4. latest.error = \/ ~IsValidFor(provider, expected)
                       \/ /\ provider.clientOf # {} /\ ~OfKeptClient("repositoryURL")
                          /\ ~latest.answers
      BY <2>1, <2>2, <2>3
  <2>5. latest.used = expected
      BY <2>1, <2>2
  <2> QED BY <1>3, <2>4, <2>5 DEF expected
<1> QED BY <1>2, <1>3

LEMMA ProviderInitEstablishes == ProviderInit => ProviderInv
<1> SUFFICES ASSUME ProviderInit PROVE ProviderInv
    OBVIOUS
<1>1. provider = NoProvider /\ latest = NothingAsked
    BY Zenon DEF ProviderInit
<1> QED BY <1>1 DEF ProviderInv, AnswerStands, NothingAsked

LEMMA ProviderNextKeeps == ProviderInv /\ [ProviderNext]_providerVars => ProviderInv'
<1> SUFFICES ASSUME ProviderInv, [ProviderNext]_providerVars PROVE ProviderInv'
    OBVIOUS
<1>1. CASE LoadProvider
  <2>1. PICK p \in Catalog : \E s \in DOMAIN p.config : \E own, list :
            /\ provider' = p
            /\ written' = Layer(p, "file", own, TRUE)
            /\ defaultConfig' = Completed(p, NewConfig(Layer(p, "file", own, TRUE)))
      BY <1>1, Zenon DEF LoadProvider
  <2>2. DOMAIN written' = DOMAIN p.config /\ written' = [s \in DOMAIN p.config |-> written'[s]]
      BY <2>1 DEF Layer
  <2>3. ~latest'.asked
      BY <1>1 DEF LoadProvider, NothingAsked
  <2>4. defaultConfig' = Completed(p, NewConfig(written'))
      BY <2>1
  <2>5. provider' = p /\ p # NoProvider
      BY <2>1, ProviderAssumption DEF ProviderAssumption
  <2> QED BY <2>2, <2>3, <2>4, <2>5 DEF ProviderInv, AnswerStands
<1>2. CASE PrepareToSend
  <2>1. /\ provider # NoProvider /\ UNCHANGED <<provider, written, overrides, defaultConfig>>
      BY <1>2 DEF PrepareToSend, DefaultConfigAfter
  <2> DEFINE Answer(group, override, answers) ==
                GetConfig(provider, defaultConfig, overrides, group, override, answers)
  <2>2. PICK group, override, answers :
            latest' = Asked(group, override, answers, Answer(group, override, answers))
      BY <1>2, Zenon DEF PrepareToSend
  <2>3. /\ latest'.group = group /\ latest'.override = override /\ latest'.answers = answers
        /\ latest'.error = Answer(group, override, answers).error
        /\ latest'.used = Used(provider, Answer(group, override, answers).config)
      BY <2>2 DEF Asked
  <2>4. AnswerStands'
      BY <2>1, <2>3 DEF AnswerStands
  <2> QED BY <2>1, <2>4 DEF ProviderInv
<1>3. CASE UNCHANGED providerVars
    BY <1>3 DEF providerVars, ProviderInv, AnswerStands
<1> QED BY <1>1, <1>2, <1>3 DEF ProviderNext

(* Whatever was sent before with other overrides: an alert is sent with each
   setting of the most specific layer that has it, but for those of a client
   that is kept, and it is refused when and only when what these layers amount
   to is not valid or asks for a client that cannot be made.  No Merge writes to
   the configuration that the other alerts share. *)
THEOREM SettingsAreAlwaysLayered == ProviderSpec => []SettingsAreLayered
    BY ProviderInitEstablishes, ProviderNextKeeps, AnswersAreLayered, PTL DEF ProviderSpec
=============================================================================
