--------------------------- MODULE ProviderSettings --------------------------
(***************************************************************************)
(* alerting/provider/*/*.go: the Config of every alert provider, with what *)
(* Config.Validate demands of each setting.  Config.Merge replaces every   *)
(* one of them by that of an override which has it.                        *)
(***************************************************************************)

Setting(need) == [need |-> need, checked |-> FALSE]

Required == Setting("required")  \* an error when it is not set
Optional == Setting("optional")
BuiltIn == Setting("built-in")   \* a value of the program when it is not set

\* An error when it is set to what it must not be: a length, a range, a prefix.
\* What an integer means by 0 and a boolean by false is: not set.
Checked(setting) == [setting EXCEPT !.checked = TRUE]

AwsSesConfig == [accessKeyID |-> Optional, secretAccessKey |-> Optional, region |-> Optional,
    from |-> Required, to |-> Required]

ClickUpConfig == [apiURL |-> BuiltIn, listID |-> Required, token |-> Required,
    assignees |-> Optional, status |-> Optional, priority |-> Checked(BuiltIn),
    notifyAll |-> BuiltIn, name |-> BuiltIn, markdownContent |-> BuiltIn]

CustomConfig == [url |-> Required, method |-> Optional, body |-> Optional,
    headers |-> Optional, placeholders |-> Optional, clientConfig |-> Optional]

DatadogConfig == [apiKey |-> Required, site |-> Optional, tags |-> Optional]

DiscordConfig == [webhookURL |-> Required, title |-> Optional, messageContent |-> Optional]

EmailConfig == [from |-> Required, username |-> Optional, password |-> Optional,
    host |-> Required, port |-> Checked(Required), to |-> Required, clientConfig |-> Optional]

GiteaConfig == [repositoryURL |-> Checked(Required), token |-> Checked(Required),
    assignees |-> Optional, clientConfig |-> Optional]

GitHubConfig == [repositoryURL |-> Checked(Required), token |-> Checked(Required)]

GitLabConfig == [webhookURL |-> Checked(Required), authorizationKey |-> Required,
    severity |-> BuiltIn, monitoringTool |-> BuiltIn, environmentName |-> Optional,
    service |-> Optional]

GoogleChatConfig == [webhookURL |-> Required, clientConfig |-> Optional]

GotifyConfig == [serverURL |-> Required, token |-> Required, priority |-> BuiltIn,
    title |-> Optional]

HomeAssistantConfig == [url |-> Required, token |-> Required]

IftttConfig == [webhookKey |-> Required, eventName |-> Required]

IlertConfig == [integrationKey |-> Required]

IncidentIoConfig == [url |-> Checked(Required), authToken |-> Required,
    sourceURL |-> Optional, metadata |-> Optional]

LineConfig == [channelAccessToken |-> Required, userIDs |-> Required]

MatrixConfig == [serverURL |-> BuiltIn, accessToken |-> Required, internalRoomID |-> Required]

MattermostConfig == [webhookURL |-> Required, channel |-> Optional, clientConfig |-> Optional]

MessagebirdConfig == [accessKey |-> Required, originator |-> Required,
    recipients |-> Required]

N8nConfig == [webhookURL |-> Required, title |-> Optional]

NewRelicConfig == [insertKey |-> Required, accountID |-> Required, region |-> Optional]

NtfyConfig == [topic |-> Required, url |-> BuiltIn, priority |-> Checked(BuiltIn),
    token |-> Checked(Optional), email |-> Optional, click |-> Optional,
    disableFirebase |-> Optional, disableCache |-> Optional]

OpsgenieConfig == [apiKey |-> Required, priority |-> BuiltIn, source |-> BuiltIn,
    entityPrefix |-> BuiltIn, aliasPrefix |-> BuiltIn, tags |-> Optional]

PagerDutyConfig == [integrationKey |-> Checked(Required)]

PlivoConfig == [authID |-> Required, authToken |-> Required, from |-> Required,
    to |-> Required]

PushoverConfig == [applicationToken |-> Checked(Required), userKey |-> Checked(Required),
    title |-> Optional, priority |-> Checked(BuiltIn), resolvedPriority |-> Checked(BuiltIn),
    sound |-> Optional, ttl |-> Optional, device |-> Checked(Optional)]

RocketChatConfig == [webhookURL |-> Required, channel |-> Optional]

SendGridConfig == [apiKey |-> Required, from |-> Required, to |-> Required,
    clientConfig |-> Optional]

SignalConfig == [apiURL |-> Required, number |-> Required, recipients |-> Required]

Signl4Config == [teamSecret |-> Required]

SlackConfig == [webhookURL |-> Required, title |-> Optional]

SplunkConfig == [hecURL |-> Required, hecToken |-> Required, source |-> Optional,
    sourceType |-> Optional, index |-> Optional]

SquadcastConfig == [webhookURL |-> Required]

TeamsConfig == [webhookURL |-> Required, title |-> Optional, clientConfig |-> Optional]

TeamsWorkflowsConfig == [webhookURL |-> Required, title |-> Optional]

TelegramConfig == [token |-> Required, id |-> Required, topicID |-> Optional,
    apiUrl |-> BuiltIn, clientConfig |-> Optional]

TwilioConfig == [sid |-> Required, token |-> Required, from |-> Required, to |-> Required,
    textTwilioTriggered |-> Optional, textTwilioResolved |-> Optional]

VonageConfig == [apiKey |-> Required, apiSecret |-> Required, from |-> Required,
    to |-> Required]

WebexConfig == [webhookURL |-> Required]

ZapierConfig == [webhookURL |-> Required]

ZulipConfig == [botEmail |-> Required, botAPIKey |-> Required, domain |-> Required,
    channelID |-> Required]
=============================================================================
