--------------------------- MODULE MCConfiguration ---------------------------
(***************************************************************************)
(* From a file to goroutines: noticing that it was modified, validating    *)
(* it, monitoring what it says, and the windows in which alerts are held   *)
(* back.  They are checked side by side, one of them in every behaviour.   *)
(***************************************************************************)
EXTENDS MCLifecycle, Configuration, ConfigurationFile, Maintenance

BaseWindow == [enabled |-> TRUE, hours |-> 0, minutes |-> 0, duration |-> 1, every |-> {}]

-----------------------------------------------------------------------------
(* Files that may be written: one endpoint, one external endpoint and one  *)
(* suite of one endpoint, and variations of each part.                     *)

PlainAlert == [type |-> "slack", enabled |-> Unset, sendOnResolved |-> Unset, description |-> Unset,
               failureThreshold |-> 0, successThreshold |-> 0, reminderInterval |-> 0]
DefaultAlert == [PlainAlert EXCEPT !.sendOnResolved = "true", !.failureThreshold = 4,
                                   !.successThreshold = -1, !.reminderInterval = 10]
PlainEndpoint == [group |-> "core", name |-> "db", kind |-> "url", defects |-> {}, interval |-> 0,
                  tunnel |-> NotTunneled, windowIsReady |-> FALSE, asksForDomain |-> FALSE,
                  alerts |-> <<PlainAlert>>]
ExternalOne == [PlainEndpoint EXCEPT !.name = "ext"]
InnerEndpoint == [PlainEndpoint EXCEPT !.name = "login", !.group = "", !.alerts = <<>>]
PlainSuite == [group |-> "flow", name |-> "shop", interval |-> 0, timeout |-> 0, defects |-> {},
               endpoints |-> <<InnerEndpoint>>]

BaseFile ==
    [providers |-> [slack |-> [configured |-> TRUE, defects |-> {}, default |-> <<DefaultAlert>>]],
     endpoints |-> <<PlainEndpoint>>, externalEndpoints |-> <<ExternalOne>>, suites |-> <<PlainSuite>>,
     invalidSections |-> {}, storage |-> [type |-> "", path |-> FALSE, maximum |-> 0],
     tunnels |-> {}, announcements |-> <<>>, concurrency |-> 0, disableMonitoringLock |-> FALSE,
     shownResults |-> 0]

WrittenAlerts ==
    {[PlainAlert EXCEPT !.type = t, !.description = d, !.failureThreshold = f, !.successThreshold = s,
                        !.reminderInterval = r] :
        t \in {"slack", "ntfy"}, d \in {Unset, "quoted"}, f \in {0, 1}, s \in {0, 1}, r \in {0, 1}}
WrittenDefaults == {<<>>, <<DefaultAlert>>, <<[DefaultAlert EXCEPT !.reminderInterval = 1]>>}

AlertFiles ==
    {[BaseFile EXCEPT !.endpoints = <<[PlainEndpoint EXCEPT !.alerts = <<alert>>]>>,
                      !.providers.slack = [configured |-> TRUE, defects |-> d, default |-> default]] :
        alert \in WrittenAlerts, d \in {{}, {"invalid"}}, default \in WrittenDefaults}
    \cup {[BaseFile EXCEPT !.externalEndpoints[1].alerts = <<alert>>, !.suites = <<>>] : alert \in WrittenAlerts}
    \cup {[BaseFile EXCEPT !.suites[1].endpoints[1].alerts = <<alert>>] : alert \in WrittenAlerts}

EndpointFiles ==
    {[BaseFile EXCEPT !.endpoints[1].kind = k, !.endpoints[1].defects = {d}] :
        k \in {"url", "dns", "ssh"}, d \in CommonDefects \cup {"type", "protocol", "window"}}
    \cup {[BaseFile EXCEPT !.endpoints[1].kind = k, !.endpoints[1].interval = i,
                           !.endpoints[1].asksForDomain = asks] :
        k \in {"url", "dns", "ssh"}, i \in {0, 5}, asks \in BOOLEAN}

\* Top-level names that are equal, or only look different, to each other or to
\* those of the endpoints of suites.
Named(e, group, name) == [e EXCEPT !.group = group, !.name = name]
KeyFiles ==
    {[BaseFile EXCEPT !.endpoints = <<Named(PlainEndpoint, g1, n1)>> \o another,
                      !.externalEndpoints = <<Named(ExternalOne, g2, n2)>>,
                      !.suites = suites] :
        g1 \in {"api", "API"}, n1 \in {"db", "login"}, g2 \in {"api", "flow"}, n2 \in {"db", "login"},
        another \in {<<>>, <<PlainEndpoint>>},
        suites \in {<<>>, <<PlainSuite>>, <<[PlainSuite EXCEPT !.group = "API"]>>,
                    <<PlainSuite, [PlainSuite EXCEPT !.name = "tour"]>>,
                    <<PlainSuite, [PlainSuite EXCEPT !.group = "api"]>>,
                    <<PlainSuite, [PlainSuite EXCEPT !.name = "tour", !.group = "api"]>>,
                    <<[PlainSuite EXCEPT !.endpoints = <<InnerEndpoint, InnerEndpoint>>]>>,
                    <<[PlainSuite EXCEPT !.name = "login"]>>}}
    \cup {[BaseFile EXCEPT !.endpoints = <<>>], [BaseFile EXCEPT !.endpoints = <<>>, !.suites = <<>>]}

Through(tunnel) == [name |-> tunnel, resolved |-> FALSE]
TunnelFiles ==
    {[BaseFile EXCEPT !.endpoints[1].tunnel = Through(t), !.suites[1].endpoints[1].tunnel = Through(u),
                      !.tunnels = tunnels] :
        t \in {"", "t1", "t2"}, u \in {"", "t1", "t2"}, tunnels \in {{}, {"t1"}, {"t1", "t2"}, {"t1", "invalid"}}}

OtherFiles ==
    {[BaseFile EXCEPT !.storage = [type |-> t, path |-> p, maximum |-> n]] :
        t \in {"", "memory", "sqlite", "postgres", "other"}, p \in BOOLEAN, n \in {-1, 0, 1}}
    \cup {[BaseFile EXCEPT !.concurrency = n, !.disableMonitoringLock = lock] : n \in {-1, 0, 1}, lock \in BOOLEAN}
    \cup {[BaseFile EXCEPT !.invalidSections = {s}] : s \in Sections}
    \cup {[BaseFile EXCEPT !.suites[1].interval = 1, !.suites[1].timeout = 1, !.suites[1].defects = d] :
            d \in {{}, {"negative timeout"}}}
    \cup {[BaseFile EXCEPT !.suites[1].endpoints = <<>>]}
    \cup {[BaseFile EXCEPT !.announcements = <<[timestamp |-> t, valid |-> v], [timestamp |-> 2, valid |-> TRUE]>>] :
            t \in {0, 1, 3}, v \in BOOLEAN}

MCFiles == AlertFiles \cup EndpointFiles \cup KeyFiles \cup TunnelFiles \cup OtherFiles
-----------------------------------------------------------------------------

VARIABLE checked  \* the part this behaviour is about

configurationParts == <<vars, configurationVars, fileVars, maintenanceVars, checked>>

\* Where a part has fairness, it must be unable to do anything in the behaviours
\* of the others: the process has panicked, or no load will be started.
ConfigurationPartsInit ==
    /\ checked \in {"monitoring", "file", "validation", "maintenance"}
    /\ InitWith(IF checked = "monitoring" THEN "starting" ELSE "panicked")
    /\ checked = "monitoring" \/ ~skipInvalid
    /\ FileInitWith(IF checked = "file" THEN "reading" ELSE "over")
    /\ ConfigurationInit /\ (checked = "validation" \/ file = BaseFile)
    /\ MaintenanceInit /\ (checked = "maintenance" \/ window = BaseWindow)

ConfigurationPartsNext ==
    /\ \/ checked = "monitoring" /\ Next
            /\ UNCHANGED <<configurationVars, fileVars, maintenanceVars>>
       \/ checked = "file" /\ FileNext
            /\ UNCHANGED <<vars, configurationVars, maintenanceVars>>
       \/ checked = "validation" /\ ConfigurationNext
            /\ UNCHANGED <<vars, fileVars, maintenanceVars>>
       \/ checked = "maintenance" /\ MaintenanceNext
            /\ UNCHANGED <<vars, configurationVars, fileVars>>
    /\ UNCHANGED checked

ConfigurationPartsSpec ==
    ConfigurationPartsInit /\ [][ConfigurationPartsNext]_configurationParts /\ Fairness /\ FileFairness
=============================================================================
