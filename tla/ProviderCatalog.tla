---------------------------- MODULE ProviderCatalog --------------------------
(***************************************************************************)
(* alerting/provider/*/*.go: the AlertProvider of every type of alert: its *)
(* settings, what Validate demands of its overrides for groups, and which  *)
(* requests Send makes.                                                    *)
(***************************************************************************)
EXTENDS ProviderSettings

\* One request, which tells everybody there is to tell.
Tells == [does |-> "tell", each |-> FALSE, key |-> "none", mustRead |-> FALSE, mustFind |-> FALSE]

\* A request for each recipient, up to the first that fails.
TellsEach == [Tells EXCEPT !.each = TRUE]

\* One request, which opens or resolves the incident of a key.
Event(key) == [Tells EXCEPT !.does = "event", !.key = key]

\* A ticket is created, and at the end all that are open are listed and closed.
Tickets == [Tells EXCEPT !.does = "ticket"]

\* The answer is read, and Send fails when it cannot be.
MustRead(sends) == [sends EXCEPT !.mustRead = TRUE]

\* groups: there are no overrides for groups, or they are not checked, or each
\* must have a group of its own.
\* overrideNeeds, overrideChecks: settings that each of them must have, and
\* must have right if at all.
\* together: settings that only make sense with each other.
\* clientOf: settings that are only read when the client is created, which is
\* kept for as long as owner and repository have the same names.
Provider(type, config, groups, sends) ==
    [type |-> type, config |-> config, groups |-> groups, sends |-> sends,
     overrideNeeds |-> {}, overrideChecks |-> {}, together |-> {}, clientOf |-> {}]

Needing(p, settings) == [p EXCEPT !.overrideNeeds = settings]

AwsSes == [Needing(Provider("aws-ses", AwsSesConfig, "distinct", Tells), {"to"})
             EXCEPT !.together = {"accessKeyID", "secretAccessKey"}]
ClickUp == Provider("clickup", ClickUpConfig, "distinct", [Tickets EXCEPT !.mustFind = TRUE])
Custom == Provider("custom", CustomConfig, "unchecked", Tells)
Datadog == Provider("datadog", DatadogConfig, "distinct", Tells)
Discord == Needing(Provider("discord", DiscordConfig, "distinct", Tells), {"webhookURL"})
Email == Needing(Provider("email", EmailConfig, "distinct", Tells), {"to"})
Gitea == [Provider("gitea", GiteaConfig, "none", MustRead(Tickets))
            EXCEPT !.clientOf = {"repositoryURL", "token", "clientConfig"}]
GitHub == [Provider("github", GitHubConfig, "none", MustRead(Tickets))
             EXCEPT !.clientOf = {"repositoryURL", "token"}]
GitLab == Provider("gitlab", GitLabConfig, "none", Event("made"))
GoogleChat == Needing(Provider("googlechat", GoogleChatConfig, "distinct", Tells), {"webhookURL"})
Gotify == Provider("gotify", GotifyConfig, "none", Tells)
HomeAssistant == Provider("homeassistant", HomeAssistantConfig, "distinct", Tells)
Ifttt == Provider("ifttt", IftttConfig, "distinct", Tells)
Ilert == Provider("ilert", IlertConfig, "distinct", Tells)
IncidentIo == Provider("incident-io", IncidentIoConfig, "distinct", MustRead(Event("made-and-answered")))
Line == Provider("line", LineConfig, "distinct", TellsEach)
Matrix == Needing(Provider("matrix", MatrixConfig, "distinct", Tells), {"accessToken", "internalRoomID"})
Mattermost == Needing(Provider("mattermost", MattermostConfig, "distinct", Tells), {"webhookURL"})
Messagebird == Provider("messagebird", MessagebirdConfig, "none", Tells)
N8n == Provider("n8n", N8nConfig, "distinct", Tells)
NewRelic == Provider("newrelic", NewRelicConfig, "distinct", Tells)
Ntfy == [Provider("ntfy", NtfyConfig, "distinct", Tells) EXCEPT !.overrideChecks = {"token", "priority"}]
Opsgenie == Provider("opsgenie", OpsgenieConfig, "none", Event("alias"))
PagerDuty == Provider("pagerduty", PagerDutyConfig, "distinct", Event("answered"))
Plivo == Provider("plivo", PlivoConfig, "distinct", TellsEach)
Pushover == Provider("pushover", PushoverConfig, "none", Tells)
RocketChat == Provider("rocketchat", RocketChatConfig, "distinct", Tells)
SendGrid == Provider("sendgrid", SendGridConfig, "distinct", Tells)
Signal == Provider("signal", SignalConfig, "distinct", TellsEach)
Signl4 == Provider("signl4", Signl4Config, "distinct", Event("of-the-endpoint"))
Slack == Provider("slack", SlackConfig, "distinct", Tells)
Splunk == Provider("splunk", SplunkConfig, "distinct", Tells)
Squadcast == Provider("squadcast", SquadcastConfig, "distinct", Event("of-the-endpoint"))
Teams == Provider("teams", TeamsConfig, "distinct", Tells)
TeamsWorkflows == Provider("teams-workflows", TeamsWorkflowsConfig, "distinct", Tells)
Telegram == Provider("telegram", TelegramConfig, "distinct", Tells)
Twilio == Provider("twilio", TwilioConfig, "none", Tells)
Vonage == Provider("vonage", VonageConfig, "distinct", MustRead(TellsEach))
Webex == Provider("webex", WebexConfig, "distinct", Tells)
Zapier == Provider("zapier", ZapierConfig, "distinct", Tells)
Zulip == Provider("zulip", ZulipConfig, "distinct", Tells)

Catalog ==
    {AwsSes, ClickUp, Custom, Datadog, Discord, Email, Gitea, GitHub, GitLab, GoogleChat, Gotify,
     HomeAssistant, Ifttt, Ilert, IncidentIo, Line, Matrix, Mattermost, Messagebird, N8n, NewRelic,
     Ntfy, Opsgenie, PagerDuty, Plivo, Pushover, RocketChat, SendGrid, Signal, Signl4, Slack, Splunk,
     Squadcast, Teams, TeamsWorkflows, Telegram, Twilio, Vonage, Webex, Zapier, Zulip}
=============================================================================
