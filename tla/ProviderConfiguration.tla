------------------------- MODULE ProviderConfiguration -----------------------
(***************************************************************************)
(* alerting/provider/*/*.go: how Validate and GetConfig find the settings  *)
(* that an alert is sent with: those of the provider, of the override for  *)
(* the group of the endpoint, and of the provider-override of the alert.   *)
(* A value is known by who wrote it, whether it is well formed and, if it  *)
(* is the URL of a repository, by what its owner and the repository are    *)
(* called, whichever the server.                                           *)
(***************************************************************************)
EXTENDS ProviderCatalog, Sequences, Naturals

CONSTANT NoProvider

ASSUME ProviderAssumption == NoProvider \notin Catalog

VARIABLES
    provider,        \* the AlertProvider that alerts are sent with
    focus,           \* the setting that the layers differ in (auxiliary)
    written,         \* the Config in the file (auxiliary)
    defaultConfig,   \* DefaultConfig
    overrides,       \* Overrides
    latest           \* the last call of GetConfig: what was asked and answered

providerVars == <<provider, focus, written, defaultConfig, overrides, latest>>

Unset == [from |-> "nobody", wellFormed |-> TRUE, names |-> "nobody"]
Written(layer, wellFormed) == [from |-> layer, wellFormed |-> wellFormed, names |-> layer]
SameNameElsewhere(layer) == [from |-> layer, wellFormed |-> TRUE, names |-> "file"]
OfTheProgram == Written("program", TRUE)

Groups == {"", "core", "other"}
NothingAsked == [asked |-> FALSE]

\* The provider-override of an alert: there may be none, or one that is no Config.
Absent == [kind |-> "absent", settings |-> <<>>]
Unparseable == [kind |-> "unparseable", settings |-> <<>>]
OverrideOfAlert(settings) == [kind |-> "config", settings |-> settings]

ProviderInit ==
    /\ provider = NoProvider
    /\ focus = "" /\ written = <<>> /\ defaultConfig = <<>> /\ overrides = <<>>
    /\ latest = NothingAsked

\* A Config is its settings and the client that was made from some of them.
NoClientYet == <<>>
NewConfig(settings) == [settings |-> settings, client |-> NoClientYet]

Merge(config, override) ==
    [config EXCEPT !.settings =
        [s \in DOMAIN @ |-> IF override[s] = Unset THEN @[s] ELSE override[s]]]

WithBuiltIns(p, settings) ==
    [s \in DOMAIN settings |->
        IF settings[s] = Unset /\ p.config[s].need = "built-in" THEN OfTheProgram ELSE settings[s]]

\* The client remains when it was made for an owner and a repository of these
\* names, be it on another server.
KeepsClient(config) ==
    config.client # NoClientYet
    /\ config.client.repositoryURL.names = config.settings.repositoryURL.names

MakesClient(p, config) == p.clientOf # {} /\ ~KeepsClient(config)

\* Config.Validate fills the settings in that the program has a value for, and
\* makes the client.
Completed(p, config) ==
    LET settings == WithBuiltIns(p, config.settings)
    IN  [settings |-> settings,
         client |-> IF MakesClient(p, config) THEN [s \in p.clientOf |-> settings[s]]
                    ELSE config.client]

\* The settings that the requests are made with.
Used(p, config) ==
    [s \in DOMAIN config.settings |->
        IF s \in p.clientOf THEN config.client[s] ELSE config.settings[s]]

IsValidFor(p, settings) ==
    \A s \in DOMAIN settings :
        /\ p.config[s].need = "required" => settings[s] # Unset
        /\ p.config[s].checked => settings[s].wellFormed
        /\ s \in p.together => \A t \in p.together : (settings[s] = Unset) = (settings[t] = Unset)

\* AlertProvider.Validate, as far as the overrides go.
OverridesAreValid(p, list) ==
    CASE p.groups = "none" -> list = <<>>
      [] p.groups = "unchecked" -> TRUE
      [] p.groups = "distinct" ->
            \A i \in DOMAIN list :
                /\ list[i].group # ""
                /\ \A j \in 1 .. i - 1 : list[j].group # list[i].group
                /\ \A s \in p.overrideNeeds : list[i].settings[s] # Unset
                /\ \A s \in p.overrideChecks : list[i].settings[s].wellFormed

\* Slip: a later override for the group wins as well.
MergedWithAllOfGroup(config, list, group) ==
    LET mine == {i \in DOMAIN list : list[i].group = group}
        last == CHOOSE i \in mine : \A j \in mine : j <= i
    IN  IF mine = {} THEN config ELSE Merge(config, list[last].settings)

\* The first override for the group is merged.
MergedWithGroup(config, list, group) ==
    LET mine == {i \in DOMAIN list : list[i].group = group}
        first == CHOOSE i \in mine : \A j \in mine : i <= j
    IN  IF mine = {} THEN config ELSE Merge(config, list[first].settings)

\* A new client asks the service for the name of its user.
GetConfig(p, config, list, group, override, answers) ==
    LET ofGroup == MergedWithGroup(config, list, group)
        merged == IF override.kind = "config" THEN Merge(ofGroup, override.settings) ELSE ofGroup
        completed == Completed(p, merged)
    IN  IF override.kind = "unparseable" THEN [error |-> TRUE, config |-> config]
        ELSE [error |-> \/ ~IsValidFor(p, Used(p, completed))
                        \/ MakesClient(p, merged) /\ ~answers,
              config |-> completed]

\* GetConfig merges into a copy.
DefaultConfigAfter(answer) == defaultConfig

-----------------------------------------------------------------------------
\* The bound of the inputs: a layer writes one setting of interest, well formed
\* or not, and either all or none of those that are required or go together.
Others(p) == {s \in DOMAIN p.config : p.config[s].need = "required"} \cup p.together

Layer(p, layer, own, others) ==
    [s \in DOMAIN p.config |->
        IF s = focus' THEN own ELSE IF others /\ s \in Others(p) THEN Written(layer, TRUE) ELSE Unset]

MayBe(p, s, layer) ==
    {Unset} \cup {Written(layer, w) : w \in {TRUE, ~p.config[s].checked}}
    \cup IF s = "repositoryURL" /\ s \in p.clientOf THEN {SameNameElsewhere(layer)} ELSE {}

OverridesFor(p, s) ==
    LET of(group) == {[group |-> group, settings |-> Layer(p, "group " \o group, own, others)] :
                        own \in MayBe(p, s, "group " \o group), others \in BOOLEAN}
        later == [group |-> "core", settings |-> Layer(p, "later group", Written("later group", TRUE), TRUE)]
        lists == {<<o>> : o \in of("core") \cup of("other") \cup of("")}
    IN  {<<>>} \cup lists \cup {Append(l, later) : l \in lists}

\* ValidateAlertingConfig keeps the providers that are valid, and whose service
\* answered if there is a client to be made.
LoadProvider ==
    /\ provider = NoProvider
    /\ \E p \in Catalog : \E s \in DOMAIN p.config :
        /\ focus' = s
        /\ \E own \in MayBe(p, s, "file") : \E list \in OverridesFor(p, s) :
            LET settings == Layer(p, "file", own, TRUE)
                completed == Completed(p, NewConfig(settings))
            IN  /\ OverridesAreValid(p, list)
                /\ IsValidFor(p, Used(p, completed))
                /\ provider' = p
                /\ written' = settings
                /\ defaultConfig' = completed
                /\ overrides' = list
    /\ latest' = NothingAsked

AlertOverrides ==
    {Absent, Unparseable} \cup
    {OverrideOfAlert(Layer(provider, "alert", own, others)) :
        own \in MayBe(provider, focus, "alert"), others \in BOOLEAN}

Asked(group, override, answers, answer) ==
    [asked |-> TRUE, group |-> group, override |-> override, answers |-> answers,
     error |-> answer.error, used |-> Used(provider, answer.config)]

\* Send asks for the settings every time.
PrepareToSend ==
    /\ provider # NoProvider
    /\ UNCHANGED <<provider, focus, written, overrides>>
    /\ \E group \in Groups, override \in AlertOverrides, answers \in BOOLEAN :
        LET answer == GetConfig(provider, defaultConfig, overrides, group, override, answers)
        IN  /\ latest' = Asked(group, override, answers, answer)
            /\ defaultConfig' = DefaultConfigAfter(answer)

ProviderNext == LoadProvider \/ PrepareToSend

ProviderSpec == ProviderInit /\ [][ProviderNext]_providerVars

ProviderTypeOK ==
    /\ provider \in Catalog \cup {NoProvider}
    /\ provider # NoProvider =>
        DOMAIN written = DOMAIN provider.config /\ DOMAIN defaultConfig.settings = DOMAIN provider.config

-----------------------------------------------------------------------------
(* Property. *)

\* The layers that the last alert saw, the most specific one first.
Layers ==
    LET mine == {i \in DOMAIN overrides : overrides[i].group = latest.group}
        first == CHOOSE i \in mine : \A j \in mine : i <= j
    IN  (IF latest.override.kind = "config" THEN <<latest.override.settings>> ELSE <<>>)
        \o (IF mine = {} THEN <<>> ELSE <<overrides[first].settings>>)
        \o <<written>>

SettingOf(s) ==
    LET having == {i \in DOMAIN Layers : Layers[i][s] # Unset}
        mostSpecific == CHOOSE i \in having : \A j \in having : i <= j
    IN  IF having # {} THEN Layers[mostSpecific][s]
        ELSE IF provider.config[s].need = "built-in" THEN OfTheProgram ELSE Unset

\* GitHub and Gitea keep the client of the file, and with it the server and the
\* token, as long as owner and repository have the same names.
OfKeptClient(s) ==
    /\ s \in provider.clientOf
    /\ SettingOf("repositoryURL").names = written.repositoryURL.names

\* Whatever was sent before it with other overrides, an alert is sent with each
\* setting from the most specific layer that has it: its own, else that of the
\* group of its endpoint, else the file, else the program; and it is refused
\* when and only when what these layers amount to is not valid, or asks for a
\* new client while the service does not answer.
SettingsAreLayered ==
    latest.asked =>
        IF latest.override.kind = "unparseable" THEN latest.error
        ELSE LET expected == [s \in DOMAIN provider.config |->
                                IF OfKeptClient(s) THEN written[s] ELSE SettingOf(s)]
             IN  /\ latest.used = expected
                 /\ latest.error = \/ ~IsValidFor(provider, expected)
                                   \/ /\ provider.clientOf # {} /\ ~OfKeptClient("repositoryURL")
                                      /\ ~latest.answers
=============================================================================
