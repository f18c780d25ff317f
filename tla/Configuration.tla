----------------------------- MODULE Configuration ----------------------------
(***************************************************************************)
(* config: from a parsed file to a configuration that is used, one         *)
(* validator after the other; the first error rejects the file.  Names and *)
(* groups are told apart by case only, which their keys fold.  A part of   *)
(* the file that is checked on its own has its defects named in a set.     *)
(***************************************************************************)
EXTENDS Integers, Sequences, SequencesExt

CONSTANT Files   \* files that may be written, parsed

\* What yaml.Unmarshal makes of a file, with providers of some types and room
\* for what validation fills in.
Flags == BOOLEAN
ParsedAlerts ==
    [type : STRING, enabled : STRING, sendOnResolved : STRING, description : STRING,
     failureThreshold : Int, successThreshold : Int, reminderInterval : Int]
ParsedEndpoints ==
    [group : STRING, name : STRING, kind : STRING, defects : SUBSET STRING, interval : Int,
     tunnel : [name : STRING, resolved : Flags], windowIsReady : Flags, asksForDomain : Flags,
     alerts : Seq(ParsedAlerts)]
ParsedSuites ==
    [group : STRING, name : STRING, interval : Int, timeout : Int, defects : SUBSET STRING,
     endpoints : Seq(ParsedEndpoints)]
ParsedProviders == [configured : Flags, defects : SUBSET STRING, default : Seq(ParsedAlerts)]
StorageTypes == {"memory", "sqlite", "postgres"} \union STRING   \* any may be written
ParsedFiles(types, announcements) ==
    [providers : [types -> ParsedProviders], endpoints : Seq(ParsedEndpoints),
     externalEndpoints : Seq(ParsedEndpoints), suites : Seq(ParsedSuites),
     invalidSections : SUBSET STRING, storage : [type : StorageTypes, path : Flags, maximum : Int],
     tunnels : SUBSET STRING, announcements : announcements,
     concurrency : Int, disableMonitoringLock : Flags, shownResults : Int]

ASSUME ConfigurationAssumption ==
    \A f \in Files : f \in ParsedFiles(DOMAIN f.providers, Seq([timestamp : Int, valid : Flags]))

VARIABLES
    file,        \* what was parsed
    cfg,         \* the configuration, as far as it was validated
    validating,  \* the next validator
    loading      \* "validating", "loaded" or "rejected"

configurationVars == <<file, cfg, validating, loading>>

Unset == "unset"
NoName == ""
NotTunneled == [name |-> NoName, resolved |-> FALSE]
DefaultMaximum == 2       \* storage.DefaultMaximumNumberOfResults
ShortestReminder == 5     \* minutes
ShortestForDomain == 5    \* minutes between queries for a domain's expiration

Validators == <<"alerting", "security", "endpoints", "web", "ui", "maintenance", "storage",
                "remote", "connectivity", "tunneling", "announcements", "suites", "keys",
                "concurrency">>

\* The file must have endpoints or suites; external endpoints do not count.
ConfigurationInit ==
    /\ file \in Files
    /\ cfg = file
    /\ validating = 1
    /\ loading = IF file.endpoints = <<>> /\ file.suites = <<>> THEN "rejected" ELSE "validating"

At(validator) == loading = "validating" /\ Validators[validating] = validator
NextValidator == IF validating = Len(Validators) THEN loading' = "loaded" /\ UNCHANGED validating
                 ELSE validating' = validating + 1 /\ UNCHANGED loading
Accept(configuration) == cfg' = configuration /\ NextValidator /\ UNCHANGED file
Reject == loading' = "rejected" /\ UNCHANGED <<file, cfg, validating>>
AcceptIf(condition, configuration) == IF condition THEN Accept(configuration) ELSE Reject

MapSeq(s, F(_)) == [i \in 1 .. Len(s) |-> F(s[i])]
All(s, P(_)) == \A i \in 1 .. Len(s) : P(s[i])
EveryEndpoint(c, P(_)) == All(c.endpoints, P) /\ All(c.suites, LAMBDA s : All(s.endpoints, P))

\* ConvertGroupAndNameToKey: sanitize folds what it does not replace.
Sanitized(name) == CASE name = "API" -> "api" [] OTHER -> name
Key(group, name) == <<Sanitized(group), Sanitized(name)>>
KeyOf(e) == Key(e.group, e.name)

-----------------------------------------------------------------------------
(* Alerts and their providers                                              *)

OrDefault(value, unset, default) == IF value = unset THEN default ELSE value

\* MergeProviderDefaultAlertIntoEndpointAlert
Merge(default, alert) ==
    [alert EXCEPT
        !.enabled = OrDefault(@, Unset, default.enabled),
        !.sendOnResolved = OrDefault(@, Unset, default.sendOnResolved),
        !.description = OrDefault(@, Unset, default.description),
        !.failureThreshold = OrDefault(@, 0, default.failureThreshold),
        !.successThreshold = OrDefault(@, 0, default.successThreshold),
        !.reminderInterval = OrDefault(@, 0, default.reminderInterval)]

\* alert.ValidateAndSetDefaults
AlertWithDefaults(alert) ==
    [alert EXCEPT !.failureThreshold = IF @ <= 0 THEN 3 ELSE @,
                  !.successThreshold = IF @ <= 0 THEN 2 ELSE @]
AlertIsValid(alert) ==
    /\ alert.reminderInterval = 0 \/ alert.reminderInterval >= ShortestReminder
    /\ alert.description # "quoted"

\* A provider that is not valid is set to nil and its alerts stay; a default
\* alert is merged into the alerts of endpoints and external endpoints only.
ProvidersKept == [t \in DOMAIN file.providers |->
    IF "invalid" \in file.providers[t].defects THEN [file.providers[t] EXCEPT !.configured = FALSE]
    ELSE file.providers[t]]
AlertAfterProviders(alert) ==
    IF alert.type \in DOMAIN ProvidersKept
    THEN LET provider == ProvidersKept[alert.type] IN
         IF provider.configured /\ provider.default # <<>> THEN Merge(provider.default[1], alert) ELSE alert
    ELSE alert
WithMergedAlerts(e) == [e EXCEPT !.alerts = MapSeq(@, AlertAfterProviders)]

ValidateAlertingConfig ==
    /\ At("alerting")
    /\ Accept([cfg EXCEPT !.providers = ProvidersKept,
                          !.endpoints = MapSeq(@, WithMergedAlerts),
                          !.externalEndpoints = MapSeq(@, WithMergedAlerts)])

-----------------------------------------------------------------------------
(* Endpoints                                                               *)

CommonDefects == {"name", "alerts", "url", "client", "ui", "condition", "no condition"}

\* What ValidateAndSetDefaults gets to see: with a DNS or SSH configuration it
\* returns what the validation of that one returns.
DefectsSeen(e) ==
    e.defects \intersect
        (CommonDefects \union IF e.kind \in {"dns", "ssh"} THEN {"protocol"} ELSE {"type", "request", "window"})

EndpointIsValid(e) ==
    /\ DefectsSeen(e) = {}
    /\ All(e.alerts, AlertIsValid)
    /\ e.asksForDomain => OrDefault(e.interval, 0, 1) >= ShortestForDomain

\* A window that is not validated starts at midnight.
EndpointWithDefaults(e) ==
    [e EXCEPT !.interval = OrDefault(@, 0, 1),
              !.alerts = MapSeq(@, AlertWithDefaults),
              !.windowIsReady = e.kind \notin {"dns", "ssh"}]

ExternalEndpointIsValid(e) == e.defects = {} /\ All(e.alerts, AlertIsValid)
ExternalEndpointWithDefaults(e) == [e EXCEPT !.alerts = MapSeq(@, AlertWithDefaults)]

ValidateEndpointsConfig ==
    /\ At("endpoints")
    /\ AcceptIf(/\ IsInjective(MapSeq(cfg.endpoints \o cfg.externalEndpoints, KeyOf))
                /\ All(cfg.endpoints, EndpointIsValid)
                /\ All(cfg.externalEndpoints, ExternalEndpointIsValid),
                [cfg EXCEPT !.endpoints = MapSeq(@, EndpointWithDefaults),
                            !.externalEndpoints = MapSeq(@, ExternalEndpointWithDefaults)])

\* Sections that are checked on their own.
Sections == {"security", "web", "ui", "maintenance", "remote", "connectivity"}
ValidateSection ==
    \E section \in Sections : At(section) /\ AcceptIf(section \notin cfg.invalidSections, cfg)

\* The type is not compared with the types there are.
ValidateStorageConfig ==
    LET storage == cfg.storage IN
    /\ At("storage")
    /\ AcceptIf(/\ storage.type \in {"sqlite", "postgres"} => storage.path
                /\ storage.type \in {NoName, "memory"} => ~storage.path,
                [cfg EXCEPT !.storage.type = OrDefault(@, NoName, "memory"),
                            !.storage.maximum = IF @ <= 0 THEN DefaultMaximum ELSE @])

-----------------------------------------------------------------------------
(* Tunnels, announcements, suites and keys                                 *)

Resolve(e) == [e EXCEPT !.tunnel.resolved = e.tunnel.name # NoName]
WithTunnels(s) == [s EXCEPT !.endpoints = MapSeq(@, Resolve)]

\* References are looked up only if there is a section of tunnels at all.
ValidateTunnelingConfig ==
    LET tunnels == cfg.tunnels IN
    /\ At("tunneling")
    /\ IF tunnels = {} THEN Accept(cfg)
       ELSE AcceptIf(/\ "invalid" \notin tunnels
                     /\ EveryEndpoint(cfg, LAMBDA e : e.tunnel.name \in tunnels \union {NoName}),
                     [cfg EXCEPT !.endpoints = MapSeq(@, Resolve), !.suites = MapSeq(@, WithTunnels)])

ValidateAnnouncementsConfig ==
    /\ At("announcements")
    /\ AcceptIf(All(cfg.announcements, LAMBDA a : a.timestamp # 0 /\ a.valid),
                [cfg EXCEPT !.announcements = SortSeq(@, LAMBDA a, b : a.timestamp > b.timestamp)])

\* Suite.ValidateAndSetDefaults: its endpoints get its group.
InSuite(s, e) == [e EXCEPT !.group = s.group]
SuiteIsValid(s) ==
    /\ s.defects = {}   \* no name, a negative timeout, an empty store mapping
    /\ s.endpoints # <<>>
    /\ IsInjective(MapSeq(s.endpoints, LAMBDA e : e.name))
    /\ All(s.endpoints, EndpointIsValid)
SuiteWithDefaults(s) ==
    [s EXCEPT !.interval = OrDefault(@, 0, 10), !.timeout = OrDefault(@, 0, 5),
              !.endpoints = MapSeq(@, LAMBDA e : EndpointWithDefaults(InSuite(s, e)))]

ValidateSuitesConfig ==
    /\ At("suites")
    /\ AcceptIf(/\ IsInjective(MapSeq(cfg.suites, LAMBDA s : s.name))
                /\ All(cfg.suites, SuiteIsValid),
                [cfg EXCEPT !.suites = MapSeq(@, SuiteWithDefaults)])

TopLevelKeys(c) == MapSeq(c.endpoints, KeyOf) \o MapSeq(c.externalEndpoints, KeyOf) \o MapSeq(c.suites, KeyOf)
KeysOf(c) ==
    TopLevelKeys(c) \o FlattenSeq(MapSeq(c.suites, LAMBDA s : MapSeq(s.endpoints, LAMBDA e : Key(s.group, e.name))))

\* Slip: the endpoints of suites are left out.
ValidateTopLevelKeys == At("keys") /\ AcceptIf(IsInjective(TopLevelKeys(cfg)), cfg)

ValidateUniqueKeys == At("keys") /\ AcceptIf(IsInjective(KeysOf(cfg)), cfg)

\* Monitor takes 0 for unlimited; the documentation says so of the file as well,
\* but a 0 that is written cannot be told from nothing written, and becomes 3.
\* Then UI.MaximumNumberOfResults is set.
ValidateAndSetConcurrencyDefaults ==
    /\ At("concurrency")
    /\ Accept([cfg EXCEPT !.concurrency = IF cfg.disableMonitoringLock THEN 0 ELSE IF @ <= 0 THEN 3 ELSE @,
                          !.shownResults = cfg.storage.maximum])

ConfigurationNext ==
    \/ ValidateAlertingConfig \/ ValidateEndpointsConfig \/ ValidateSection \/ ValidateStorageConfig
    \/ ValidateTunnelingConfig \/ ValidateAnnouncementsConfig \/ ValidateSuitesConfig
    \/ ValidateUniqueKeys \/ ValidateAndSetConcurrencyDefaults

ConfigurationSpec == ConfigurationInit /\ [][ConfigurationNext]_configurationVars

\* The type says nothing of the order of the announcements.
IsConfiguration(c) == c \in ParsedFiles(DOMAIN file.providers, {c.announcements})

ConfigurationTypeOK ==
    /\ IsConfiguration(file) /\ IsConfiguration(cfg)
    /\ validating \in 1 .. Len(Validators)
    /\ loading \in {"validating", "loaded", "rejected"}

-----------------------------------------------------------------------------
AlertsAreSound(e) ==
    All(e.alerts, LAMBDA a : /\ a.failureThreshold >= 1 /\ a.successThreshold >= 1
                             /\ a.reminderInterval = 0 \/ a.reminderInterval >= ShortestReminder)
IsReady(e) ==
    /\ e.kind \notin {"dns", "ssh"} => e.windowIsReady
    /\ e.asksForDomain => e.interval >= ShortestForDomain
HasItsTunnel(c, e) ==
    e.tunnel.name # NoName /\ c.tunnels # {} => e.tunnel.resolved /\ e.tunnel.name \in c.tunnels

(* What the rest of the program relies on holds in every configuration that is
   used, whatever was written.  No two statuses share a key, not even those of
   the endpoints of different suites.  Every alert has thresholds of at least 1
   and no reminder interval shorter than five minutes, also if it got them from
   the default alert of its provider.  An endpoint that names a tunnel has got
   it, if there are any tunnels, and its maintenance windows are ready, unless
   it is a DNS or SSH endpoint.  The semaphore that Monitor makes of the
   concurrency has a slot to hand out, as no weight is negative, and the
   interface shows as many results as the store keeps. *)
LoadedConfigurationHolds ==
    loading = "loaded" =>
        /\ IsInjective(KeysOf(cfg))
        /\ \A i \in 1 .. Len(cfg.suites) : All(cfg.suites[i].endpoints, LAMBDA e : e.group = cfg.suites[i].group)
        /\ EveryEndpoint(cfg, LAMBDA e : AlertsAreSound(e) /\ IsReady(e) /\ HasItsTunnel(cfg, e))
        /\ All(cfg.externalEndpoints, AlertsAreSound)
        /\ cfg.concurrency >= 0
        /\ cfg.storage.maximum >= 1 /\ cfg.shownResults = cfg.storage.maximum
=============================================================================
