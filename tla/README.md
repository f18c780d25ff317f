# Gatus in TLA+

Gatus (`src/app`) is a health monitor: it evaluates endpoints on a schedule, keeps
their recent results in a store, sends notifications when an endpoint fails or
recovers, and serves a dashboard and an HTTP API. This directory holds TLA+ models of
the parts of it whose correctness depends on order, timing, failure or concurrency,
the TLC configurations that check them, and proofs checked with TLAPS.

`PROJECT.json` lists the components, the runs, the definitions with the lines they
model, the hazards and the theorems. Every property is stated in words above its
definition in the module.

## The system

| Component | State it keeps | Operations | Talks to |
|---|---|---|---|
| `main` | the loaded configuration | start, stop, save, `listenToConfigurationFileChanges`, `initializeStorage` | everything |
| `watchdog` (monitor) | package variables `ctx`, `cancelFunc`, `monitoringSemaphore`; a ticker per goroutine | `Monitor`, `Shutdown`, `monitorEndpoint`, `executeEndpoint` | endpoints, store, alert handler, metrics |
| `watchdog` (alerts) | per endpoint: two counters and `LastReminderSent`; per alert: `Triggered`, `ResolveKey` | `HandleAlerting` | providers, triggered-alert table |
| `watchdog` (external endpoints) | per endpoint: two counters; per alert: `Triggered` | heartbeat goroutine; HTTP push handler in `api` | store, alert handler |
| `watchdog` and `config/suite` | the context of one execution, the result so far | `Suite.Execute`, `executeSuite` | endpoints, store, alert handler |
| `config/endpoint` | none between evaluations | `EvaluateHealth`, conditions, placeholders | `client` |
| `storage/store/memory` | statuses in an LRU cache, under one lock | insert, query, delete, uptime | gocache |
| `storage/store/sql` | tables of endpoints, results, events, uptimes, triggered alerts, suites; a write-through cache | the same, in transactions, with clean-up beyond the maxima | database |
| `config` | the configuration, the time its file was last modified | load, merge, validate, detect modification | main |
| `config/maintenance` | none | `IsUnderMaintenance` | monitor, alerts |
| `config/connectivity` | last check and its outcome | `IsConnected` | monitor |
| `config/tunneling` | the SSH client of a tunnel | `Dial`, `Close` | `client` |
| `client` | the WHOIS cache, HTTP client per configuration | `Ping`, `CanCreateTCPConnection`, ... | the network |
| `api`, `controller` | response cache, the running server | handlers | store, config |
| `security` | session cache | OIDC, basic authentication | api |
| `metrics` | Prometheus vectors | register, publish, unregister | monitor |
| `alerting/provider` | default alerts | validate, merge overrides, send | the network |

How they interact. `main` loads the configuration, opens the store and puts the
triggered alerts back into memory, then starts the controller and the monitor. The
monitor runs one goroutine per endpoint, heartbeat and suite; each takes a slot of a
shared semaphore, evaluates, writes the result to the store and hands it to the alert
handler. An evaluation that waits for a silent peer without a deadline never does. The API reads the store, and for external endpoints writes results and calls
the alert handler from the goroutine of the request. When the configuration file
changes, `main` stops the monitor, saves, loads and starts again, with goroutines of
the old generation possibly still running.

What is hard, and what must hold:

* **Alert handler.** Sends that are refused, several alerts with different thresholds
  and reminder intervals sharing counters. An incident opens only after its failure
  threshold, closes only after its success threshold, is announced once, is announced
  in the end; the recipient is in step with `Triggered`; reminders are spaced.
* **Alert recovery.** A crash between sending and persisting, rows that lag behind the
  counters, changed alerts. No incident is invented, and none is open for ever.
* **Suites.** A timer that may fire anywhere, endpoints skipped after a failure, a
  context shared between endpoints and not between executions.
* **Lifecycle.** Replacing `ctx` and the semaphore under running goroutines; an invalid
  update. No slot is lost, no endpoint starves, what was stopped ends.
* **External endpoints.** Unsynchronised requests and heartbeat; a heartbeat that must
  notice silence and nothing but silence.
* **Stores.** Bounded histories of endpoints and suites, uptimes that are merged and
  forgotten, a cache in front of transactions. Whatever is asked for within the maximum
  is answered from what was inserted.
* **Configuration.** Detecting every modification; validators whose order matters;
  unique keys; maintenance windows across midnight.
* **Providers.** Settings merged from three layers for every notification; several
  requests for one notification, each of which may fail; incidents known by keys that
  may be lost.
* **Evaluation.** What is only retrieved when it seems to be needed; peers that fall
  silent at any point of a protocol; an HTTP client and an SSH connection shared by
  goroutines without a lock around their use.

## The modules

| Module | What it models | Code |
|---|---|---|
| `Incident` | abstract: an incident opens when enough failures in a row were seen, and closes when enough successes were | |
| `Alerting` | `HandleAlerting` for one endpoint with any number of alerts; refines `Incident` for every alert | `watchdog/alerting.go`, `sql.go` (triggered alerts) |
| `AlertRecovery` | extends `Alerting` with the end of the process at any step and `initializeStorage` at the next start, with changed alerts | `main.go` |
| `ProviderSettings` | the settings of each of the 41 alert providers and what is demanded of them | `alerting/provider/*` |
| `ProviderCatalog` | the providers themselves: how they treat overrides, and how they send | `alerting/provider/*` |
| `ProviderConfiguration` | `Validate` and `GetConfig`: the settings of a notification from file, group and alert | `alerting/provider/*` |
| `Notifications` | `Send` for each way of sending, request by request, against a service that keeps incidents | `alerting/provider/*` |
| `Suite` | `Suite.Execute` and `executeSuite`: context, timer, skipping, storing, alerting | `config/suite`, `watchdog/suite.go`, `config/gontext` |
| `Conditions` | resolving the placeholders of a condition and comparing them (a module of operators) | `config/endpoint/condition.go`, `placeholder.go`, `pattern`, `jsonpath` |
| `Client` | one operator per protocol: from what a peer does to what the caller is told and when (a module of operators) | `client/client.go`, `client/grpc.go` |
| `Evaluation` | extends the two with `EvaluateHealthWithContext` | `config/endpoint/endpoint.go` |
| `HttpClient` | `getHTTPClient`, by several goroutines | `client/config.go` |
| `Tunnel` | `Dial` and `Close` of an SSH tunnel, by several goroutines | `config/tunneling/sshtunnel` |
| `ConfigurationFile` | files that are written and removed while the listener looks for modifications and loads | `config/config.go`, `main.go` |
| `Configuration` | the validators, from a parsed file to a configuration that is used | `config/*.go` and the packages below |
| `Maintenance` | maintenance windows at every minute | `config/maintenance` |
| `Lifecycle` | `Monitor`, `Shutdown`, the listener for modifications, the goroutines and their semaphores | `watchdog/*.go`, `main.go` |
| `ExternalEndpoint` | one external endpoint: pushes and the heartbeat, each on its own copy of the counters; refines `Incident` while calls do not overlap | `api/external_endpoint.go`, `watchdog/external_endpoint.go`, `config/endpoint/external_endpoint.go` |
| `Status` | constants and pure functions of a status: results, events, pages | `storage/store/memory/util.go`, `sql.go`, `api/util.go`, `config/endpoint/event.go` |
| `StatusHistory` | abstract: a bounded history of results and events that is only ever extended, trimmed at its old end or forgotten | |
| `MemoryStore` | endpoint statuses in the store of type memory; refines `StatusHistory` | `storage/store/memory` |
| `SqlStore` | the same in the stores of types sqlite and postgres; refines `StatusHistory` (sqlite) | `storage/store/sql` |
| `SuiteStatuses` | suite results in all stores | `storage/store/memory`, `storage/store/sql` |
| `Uptime` | hourly counts in all stores, merged into days and forgotten | `storage/store/memory/uptime.go`, `storage/store/sql` |
| `Stores` | composes the four: which store calls reach is chosen by the configuration | `storage/store/store.go` |
| `MC*` | values of the constants for TLC, and the parts a run checks | |
| `AlertingProofs` | theorems about `Alerting` and `AlertRecovery` | |
| `ExternalEndpointProofs` | theorems about `ExternalEndpoint` | |
| `DeliveryProofs` | theorems about `Notifications` and `ProviderConfiguration` | |
| `EvaluationProofs` | theorems about `Suite`, `Evaluation`, `HttpClient` and `Tunnel` | |
| `LifecycleProofs` | theorems about `Lifecycle` | |
| `ConfigurationProofs` | theorems about `Configuration` and `Maintenance` | |
| `SqlStoreProofs` | theorems about the pages of `Status` and about `SqlStore` | |
| `StoresProofs` | theorems about `MemoryStore`, `SuiteStatuses`, `Uptime` and `Stores` | |

Definitions have the names of the code where it has names (`handleAlertsToTrigger`
became the steps `HandleFailure`, `SendTrigger`, ..., the variables are
`numberOfFailuresInARow`, `triggered`). A definition whose comment begins with "Slip:"
stands next to the one it could be mistaken for: it is what a plausible programming
error would make of it, and putting it in its place makes TLC find a violated property.
No specification uses it.

**Alerting.** The handler is a loop over the alerts; `pc` and `cursor` say where it is.
It is split where it leaves the process: the message to the provider and the write to
the table are steps of their own, and each may fail. What is between them is one step,
because one goroutine at a time handles an endpoint. `announced` is what the recipient
knows, `failureRun` and `successRun` are the outcomes as they happened; they are not
read by any action. Time is kept as the time elapsed since the last reminder
(`sinceReminder`), and as the copy the handler takes when it begins (`sinceSnapshot`).

**AlertRecovery.** `Restart` may come between any two steps. What lives in memory is
rebuilt from the rows as `initializeStorage` does it, alert by alert, the last alert
found deciding the counters. The recipient and the outcomes survive.

**Suite.** Variables for the loop, the context and the result. The timer may go off
before any step, what it delivers is delivered once. A value is the endpoint it came
from, so that the module can tell an old value from a new one.

**Lifecycle.** Each configuration in use has a number, and the package variables `ctx`
and `monitoringSemaphore` hold the number of the one they were made for. `Monitor`
replaces the first and then the second (`ReplaceContext`, `ReplaceSemaphore`). A
goroutine listens to the context it was given but works with the package variables, as
the code does: it reads the semaphore and then the context for `Acquire`
(`CallAcquire`, `Acquire`), and the semaphore once more when it defers the release
(`DeferRelease`). What it read is remembered in `heldSemaphore`, `heldCtx` and
`deferred`; `mixed` records the semaphores between which it differed. `Release` panics
if nothing is held, and the panic ends the process. An evaluation may return or `Hang`
for good. The listener may also end in the panic of a store that cannot be opened
(`StoragePanics`). Endpoints, suites and heartbeats take slots in the same way, so one
kind of goroutine stands for all three; a heartbeat waits for its ticker first, which a
goroutine that is "due" may do, too.

**ExternalEndpoint.** `call` says of every caller, a client or the heartbeat, where it is,
and holds the copy of the counters it works on. The handler is split wherever another
call may come in between: between reading `Triggered` and acting on it, around every
message and every write to the table, and between the two assignments that write the
counters back, which nothing orders for a reader. The handling of one alert is repeated
here rather than taken from `Alerting`, whose steps are those of one caller; of
`Alerting` it leaves out that there may be several alerts, alerts that are disabled or
have no provider, and the reminder interval, because the copy has no `LastReminderSent`
and a reminder is due at every failure. Time is counted in ticks; ages are compared with
the interval as far as ticks allow, and at equality either answer is possible.
`disturbed` records that calls have overlapped or a write to the table was lost.

**MemoryStore.** Insertions hold the lock; they are split into the evaluation of the
new status and its entry in the cache, because
`DeleteAllEndpointStatusesNotInKeys` does not take the lock and may come in between.
Readers take the lock, and what an insertion that holds it will put back cannot be
undone any more, so the history counts it in when it begins (`Visible`).

**SqlStore.** One transaction per writer, with what it has written and deleted so far
held apart until it commits. On SQLite there is one connection and transactions are
serial; on Postgres they interleave, statements see what is committed when they run,
row locks and unique keys make transactions wait. Statements whose errors are only
logged may fail on their own. So may queries: a status whose events or results could not
be queried is returned, and cached, without them (`missing` says which). With Postgres a
query that failed also aborts the transaction it is in. The cache is filled and dropped
outside the transactions. `taken`, `faulty` and `lost` only record what happened, for the
properties.

**SuiteStatuses.** The insertion of a suite's result is a transaction like those of
`SqlStore`, whose driver and writers it uses; the results of endpoints are rows of their
own that refer to it. When `initializeStorage` deletes an endpoint that no suite has any
more, its results go with it, those in results of a suite that remains included
(`DeleteEndpointRows`; `forgotten` records them). The memory store keeps them, inside the
result of the suite.

**Uptime.** Both kinds of stores get the same results. `hour` is the clock, `sharp` says
whether it is exactly at the hour, which is where `<` and `<=` of the queries differ.
`observed` is what was inserted. The statements of an update, of a merge and of the
clean-up may fail, which the code logs before it commits: a result is then not counted
(`updated` are those that were), or a day is deleted whose sum was not inserted
(`lostDays`). On Postgres a statement that fails takes the whole insertion back, which
changes nothing here.

**ProviderSettings, ProviderCatalog, ProviderConfiguration.** The first is data: one
record per provider. A value is known by the layer that wrote it and by whether it is
well formed, so that every combination of layers can be tried on every setting of every
provider. The URL of a repository is also known by the names of its owner and of the
repository, because that is all GitHub and Gitea compare: they keep a client that was
made from some of the settings, and with it those settings, also when an override names
the like repository on another server (`SameNameElsewhere`). To make a new client is to
ask the service, which may not answer.

**Notifications.** `requests` are those a `Send` has still to make. Each may be refused,
be carried out with its answer lost, or be answered illegibly. The module repeats of
`HandleAlerting` only when it calls `Send` and what it does with the outcome. `informed`
and `incidents` are what the outside world knows. Where incidents are tickets, the
resolution asks for one page of what is open, which may show any of them (`Listings`);
`unlisted` are those it did not.

**Evaluation, Conditions, Client.** A peer is its manner, a status and a body; an answer
says also when the function returns: at once, by a deadline, or when the peer, or the
operating system, ends the connection. The evaluation is split where it asks somebody
else: for the address and the domain, for the answer. The registry of the domain may keep
it waiting (`LookUpBlocks`). What is sent matters for an SSH command, which has to be JSON. Errors are known by what their text mentions, which is what the
interface settings hide.

**HttpClient, Tunnel.** Steps are the reads and writes of the shared variable; of a
tunnel, sections under its lock are one step. An HTTP client is named by the goroutine
that created it, an SSH connection by an element of a set large enough that one that is
in nobody's hands can be used again. A client is not wrapped if the token source of IAP
cannot be made (`refused`), nor if both OAuth2 and IAP are configured.

**Configuration.** One action per validator, in the order `validating` prescribes; each
accepts, perhaps with defaults filled in, or rejects the file. What a validator checks
value by value is a set of defects; what relates parts of the file to each other is
modelled as it is.

**ConfigurationFile.** Files hold the number of their last write. A load reads them one
by one while they may be written or removed, and ends with the time the listener will
compare with.

## The runs

Components that share no state are checked side by side in one run: a variable
`checked` says which of them a behaviour is about, and the others stay as they began.
That adds their states instead of multiplying them. Where a part has fairness it begins
in a state in which nothing is left to do in the behaviours of the others, so that the
fairness asks for nothing there.

| Run | Module | Question | Outcome |
|---|---|---|---|
| `alerting` | `MCAlerting` | When messages and writes may fail: does the handler implement the abstract incident, keep its recipient informed, space its reminders, act exactly when due, and deliver every refused notification in the end? | holds |
| `alerting_reminders` | `MCAlerting` | Is every alert with reminders reminded of a failure that lasts? | violated |
| `delivery` | `MCProviders` | After crashes and reconfigurations, is no incident invented, told of twice or left open, and does the table agree with memory? Is every notification sent with the settings of the right layers? Has a notification that counts as sent reached everybody, and is an incident closed that counts as resolved? | holds |
| `recovery_resolves_early` | `MCAlertRecovery` | Is an incident resolved only after its success threshold, across restarts? | violated |
| `evaluation` | `MCEvaluation` | Which endpoints of a suite run with which context? Is the verdict on an endpoint what everything it could have asked for would have led to, and does an evaluation end however the peer behaves? Is the shared HTTP client complete, is a connection of the tunnel left behind? | holds |
| `suite_timeout` | `MCSuite` | Is nothing started after the timeout? | violated |
| `suite_alerts` | `MCSuite` | Do alerts get the result of their own endpoint? | violated |
| `lifecycle` | `MCConfiguration` | Is every modification of the files read? Does a configuration that is used satisfy what the program relies on? Across reloads, are slots neither lost nor idle, is every endpoint evaluated again and again, and does every stopped goroutine end? Are maintenance windows where they were scheduled? | holds |
| `lifecycle_invalid` | `MCLifecycle` | Does monitoring continue after an invalid update was skipped? | violated |
| `external_endpoint` | `MCExternalEndpoint` | Do pushes and heartbeats, one after the other, keep the promise of an incident, and does the endpoint put itself right after calls that overlapped? | holds |
| `external_heartbeat` | `MCExternalEndpoint` | Does a heartbeat succeed only when there was a push? | violated |
| `stores` | `MCStores` | Do the stores keep and answer from the same history, of endpoints, suites and uptime, bounded, with a fresh cache? | holds |

Some of the properties hold for less than one would wish, because the code does less:
their statements name the exceptions (a kept client, a lost key, a ticket that was not on
the first page, the hour in which a window starts, the day in which a range begins, a
merge that was not inserted, a query that failed, a token that was refused, protocols
without a deadline and evaluations that never end, goroutines that were between two reads
of the semaphore). Each is described below under what the models showed.

`SuiteStatuses`, `Uptime` and the two stores have their types checked in `stores`, as
`StoresTypeOK`. `Suite`, `Lifecycle`, `Notifications` and `Configuration` define a type
invariant that no run checks because it is proved. `Evaluation`, `HttpClient`, `Tunnel`
and `ProviderConfiguration` define one that documents their variables.

### What the violated properties show

Each states a sentence of the repository that the code does not keep (`findings` in
`PROJECT.json` quotes the sentences).

* `SlowestAlertIsReminded`. The endpoint has one `LastReminderSent`. With two alerts of
  different `minimum-reminder-interval`, every reminder of the faster one puts off the
  slower one, which is never reminded.
* `ResolvedOnlyAtThreshold`. A success below the threshold is written into the row of
  the alert; a failure after it resets the counter in memory only. After a restart the
  old count is continued.
* `NothingStartsAfterTimeout`. The `break` of the timeout leaves the `select`, not the
  loop: the endpoints go on being executed.
* `AlertsGetTheirOwnResult`. Endpoints and results are paired by position, but a skipped
  endpoint has no result.
* `SuccessOfHeartbeatImpliesPush`. The heartbeat stores its own failing result and takes
  it for an update at the next tick. In silence only every other heartbeat fails, and
  an alert needs about twice as many intervals as its threshold says.
* `MonitoringContinues`. When an invalid update is skipped, monitoring and server have
  already been stopped and nobody starts them again.

### Bounds

| Runs | Instance | Why it is enough |
|---|---|---|
| `alerting*` | 4 alerts (2 whose provider may refuse, 1 without a provider, 2 that share a row), for `alerting_reminders` 2 alerts; thresholds 1 and 2 in both orders, reminder intervals 0, 1, 2; `MaxRun` 2, `MaxElapsed` 2 | alerts influence each other only through the counters, `LastReminderSent` and a shared row; two alerts in different stages of a run, and two that share a row, show each influence. Counters and durations are compared with thresholds and intervals only, so they may stay at the largest of these, and the assumptions of the module ask for that |
| `delivery`, handler; `recovery_*` | 2 alerts, failure thresholds 1 and 2, success thresholds 2 and 3 (`MaxRun` 3), at most `MaxCrashes` 2 ends in the middle of the handler, any number in between, any set of alerts changed at each | a success in a run of its own, a failure, and the completion of the run; two crashes allow one in the recovery from another |
| `delivery`, settings | every provider; one setting in which the layers differ, in every combination of layers that write it, well formed or not, a repository also as one of the same names elsewhere, with and without the other required settings; two overrides for groups; a service that answers or does not | settings meet only where they are required together or make one client, and there they are written together |
| `delivery`, requests | every way of sending in the catalog, 2 recipients, `MaxIncidents` 3, every set of open incidents as the page that is listed | the first recipient told and the second not; a first incident, one that a retry opens beside it, and one that is found at the end |
| `evaluation`, suite; `suite_*` | the suite of the example in the README of Gatus: create, use, clean up always; and an endpoint after the cleanup | every pair of an endpoint that runs always and one that does not, in both orders; a value overwritten and one from the initial context |
| `evaluation`, endpoint | every protocol, with no body, a text or a command to send, against every manner of a peer with 2 statuses and 3 bodies; 10 lists of conditions that use every placeholder, function and comparison | conditions are evaluated one by one, and what one of them needs is retrieved for all |
| `evaluation`, HTTP client and tunnel | 2 goroutines, 3 SSH connections | both are races of one goroutine with another; the third connection is one that both have lost |
| `lifecycle`, file | 2 files, 2 seconds after the first, 2 writes or removals | a write before, during and after the reading of either file; the second a load ends in and the one after |
| `lifecycle`, validation | several hundred files: each varies one part of a base file with one endpoint, one external endpoint and one suite | validators relate alerts to providers, endpoints to tunnels, names to names and suites to their endpoints; each relation is varied on both its sides |
| `lifecycle`, maintenance | every window at every minute of a week of 2 days of 3 hours of 2 minutes | a window of every length up to a day, starting at every minute, in hours before and after midnight, on every set of days |
| `lifecycle`, monitoring; `lifecycle_invalid` | 2 endpoints of which the reload keeps one (1 endpoint that it keeps for `lifecycle_invalid`), 1 slot, 1 reload, valid or not, each configuration with or without `skip-invalid-config-update` | endpoints compete for the slot within a generation and across the two, for the old and the new semaphore: one holds it, two wait. One replacement of the variables is enough for a goroutine to be between its two reads of them; another would find the same goroutines |
| `external_endpoint` | 1 client and the heartbeat, thresholds 2, an interval of 1 tick, no reminders | two calls show every overlap of two; a third adds writers of the counters, not new places to meet. Any number of ticks passes between two steps, so that heartbeats may be late, lost or next to each other. Without reminders nothing is repeated that would repair the recipient's view |
| `external_heartbeat` | the same with an interval of 2 ticks and queries that do not fail | the age of a result can be strictly below the interval |
| `stores`, endpoints and suites | 1 endpoint, 1 suite, 2 inserting goroutines, 1 reader, `MaxResults` 2, `MaxEvents` 1, `Slack` 1 for the 10 of the code, `MaxRows` 5 and `MaxInserts` 6 | endpoints share nothing but the cache pattern and the deletion; tables overflow beyond maximum and slack, are cleaned and overflow again; two transactions overlap with a read and a deletion |
| `stores`, uptime | days of 2 hours; a buffer of 4, a retention of 8 and a clean-up at 9 hours; merging from 2 entries on; 11 hours with results in up to 3 of them, `MaxPerHour` 1; every set of statements that fail | the ratios of the code (2 days of buffer, retention, a clean-up somewhat later) with every placement of results around every boundary; merged days are merged again, and then hold more than one result in an hour; a merge of two days of which one insertion fails |

The pattern `key*` that selects the cached statuses to refresh also matches keys that
begin with another key. `RefreshedWith` describes this; the run uses each key's own.

`CHECK_DEADLOCK FALSE` is set where the model ends because of a bound or of the program:
`stores` when its insertions are used up, `lifecycle*` when the program has panicked
(on an invalid update, a store that cannot be opened, a release of what is not held) or
every evaluation hangs, the file has been validated or the week is over, `evaluation` when
the creation of an HTTP client has panicked.

### Fairness

* `Alerting`: weak fairness of each part of the handler (a ticker keeps ticking, and
  the loop is plain code), of time, and strong fairness of an accepted message: a
  provider asked again and again answers well at last. A provider that refuses for ever
  gives no liveness, nor should it. Nothing is assumed of writes.
* `Lifecycle`: weak fairness of the listener, and of each goroutine's steps; the
  semaphore hands out slots in order, which is modelled and not assumed. What has begun
  to execute is skipped, stores or hangs; that a call returns is not assumed, and the
  properties say what they promise beside evaluations that hang. Strong fairness
  of storing: an endpoint that is evaluated for ever is not without connectivity at every
  single evaluation. Strong fairness of
  cancellation: a goroutine that finds both its context cancelled and its ticker ready
  takes the first of them in the end, since `select` picks at random.
* `ExternalEndpoint`: weak fairness of time and of every call that has begun; strong
  fairness, for the heartbeat only, of being connected, of not being under maintenance
  and of an accepted message. Clients need never push again and the store may refuse
  every result.
* `ConfigurationFile`: weak fairness of the listener and of a load. Nobody need ever write
  a file, and the clock may stand still.
* `Evaluation`: weak fairness of the steps of the evaluating goroutine, of which every wait
  with a deadline is one. A peer that is waited for without a deadline need never end the
  connection, and the registry of a domain need never answer.
* Modifications of the file, crashes, outcomes, refusals, expiry of cached statuses and
  requests need never happen.

## The proofs

Every safety property that a run checks is a theorem, every action property, and every
refinement: what TLC has checked on the instances above holds for every value of the
constants. The names in brackets are the properties of the runs.

| Theorem | Statement |
|---|---|
| *`AlertingProofs`* | |
| `TypeCorrect` (`TypeOK`) | the types of the handler's state |
| `CountersAreRuns` | the counters are the lengths of the runs of outcomes |
| `HandlerImplementsIncident` (`ImplementsIncident`) | each alert is an abstract incident |
| `RecipientStaysInStep` (`RecipientInStep`) | what the recipient knows is what `Triggered` says |
| `RemindersAreSpaced` (`ReminderSpacing`) | reminders respect their interval |
| `AlertsArePrompt` (`AlertIsPrompt`) | alerts open and close exactly at their thresholds |
| `CrashesInventNoIncident` (`TriggeredWasAnnounced`) | what is restored was announced |
| `TableAlwaysMatchesMemory` (`RowsMatchTriggered`) | rows and `Triggered` agree across crashes |
| `NothingIsAnnouncedTwice` (`NoSecondAnnouncement`) | an incident is announced again only after a crash in the middle or a refused resolution |
| *`ExternalEndpointProofs`* | |
| `ExternalTypeCorrect` (`TypeOK`) | the types of an external endpoint, whatever calls overlap |
| `CopiesLoseNothing` (`CountersAreRuns`) | without overlap the counters are the runs of outcomes |
| `AlertStaysInStep` (`AlertIsInStep`) | without overlap and lost writes the alert, its row and the recipient agree |
| `CallsImplementIncident` (`ImplementsIncidentAlone`) | without overlap pushes and heartbeats keep the promise of an incident |
| *`DeliveryProofs`* | |
| `NotificationTypeCorrect` | the types of what an alert and a service remember |
| `AcceptedNotificationsAreAlwaysComplete` (`AcceptedNotificationsAreComplete`) | what counts as sent has reached every recipient |
| `ResolutionAlwaysClosesIncidents` (`ResolutionClosesIncidents`) | a resolution leaves nothing open but incidents whose key was lost, and tickets that were not on the page that was listed |
| `SettingsAreAlwaysLayered` (`SettingsAreLayered`) | a setting comes from the most specific layer that has it, but for those in a client that is kept; a notification is refused only for a setting, or a service that does not answer when a client is made |
| *`EvaluationProofs`* | |
| `SuiteTypeCorrect` | the types of the execution of a suite |
| `RightEndpointsAlwaysRan` (`RightEndpointsRan`) | a suite has results of the endpoints that had to run |
| `ContextIsAlwaysOfThisExecution` (`ContextIsOfThisExecution`) | nothing of an earlier execution is in the context |
| `VerdictAlwaysMatchesResponse` (`VerdictMatchesResponse`) | not retrieving what seems not to be needed changes no verdict |
| `QuietClientIsAlwaysComplete` (`QuietClientIsComplete`) | the HTTP client that remains is configured, and sends a token if it should and no token source was refused |
| `NoConnectionIsEverLeaked` (`NoConnectionIsLeaked`) | an open SSH connection is in somebody's hands |
| *`LifecycleProofs`* | |
| `LifecycleTypeCorrect` | the types of the process |
| `AccountIsInvariant` | who holds and who waits for which slot, and which semaphores were confused |
| `SlotsAreAccountedFor` (`SlotsAreNeitherLostNorIdle`) | no slot is lost, given twice or idle, but between the semaphores that a goroutine confused during a reload |
| *`ConfigurationProofs`* | |
| `ConfigurationTypeCorrect` | the types of a configuration that is validated |
| `UsedConfigurationsAlwaysHold` (`LoadedConfigurationHolds`) | what no validator rejects is what the program relies on |
| `MaintenanceIsAlwaysAsScheduled` (`MaintenanceIsAsScheduled`) | windows last when they were scheduled, across midnight too |
| *`SqlStoreProofs`* | |
| `SliceBoundsAreValid` | no page makes a slice expression panic |
| `EveryRequestGetsTheSamePage` | both kinds of stores cut the same page out of the same history |
| `SqlTypeCorrect` | the types of the SQL stores |
| `TablesLackOnlyOldRows` | with either driver, only rows beyond the maximum are missing |
| `SqlPagesAreRight` | with either driver, pages are cut out of everything committed |
| `EventsAlwaysFollowResults` | SQLite: there is an event for every change |
| `TablesAlwaysStayBounded` (`TablesStayBounded`) | SQLite: tables stay within maximum and slack |
| `LastEventAlwaysIsLastResult` (`LastEventIsLastResult`) | SQLite: the last event says what the last result was |
| `CacheIsAlwaysFresh` (`CacheIsFresh`) | SQLite: at rest the cache says what the tables say, but for what could not be queried |
| `SqlStoreImplementsHistory` (`SqlImplementsHistory`) | SQLite: without failing statements the store is a bounded history |
| *`StoresProofs`* | |
| `MemoryTypeCorrect` | the types of the memory store |
| `MemoryStoreImplementsHistory` (`MemoryImplementsHistory`) | the memory store is a bounded history |
| `MemoryPagesAreRight` | pages are cut out of everything inserted |
| `UptimeTypeCorrect` | the types of the hourly counts |
| `UptimeAlwaysCountsResults` (`UptimeCountsResults`) | the counts of a range are those of the results the table was updated with, whatever statements fail |
| `EachStoreKeepsItsPromise` | the stores as the program uses them behave as the specification of each |
| `StoresTypeCorrect` (`StoresTypeOK`) | the types of whichever store was chosen |
| `StoresAlwaysAnswerFromHistory` (`StoresAnswerFromHistory`) | whichever store was chosen, pages of endpoints and suites are right, also after endpoints of a suite were deleted |
| `ChosenStoreImplementsHistory` | both refinements, of the stores as the program uses them |
| `ChosenStoreIsBoundedAndFresh` | the same for sizes, events, cache and uptime |

They hold for any number of alerts, endpoints, goroutines, slots, recipients and
insertions, and any thresholds, intervals and maxima that satisfy the assumptions stated
with the constants. `MaxRun`, `MaxRows`, `MaxHour` and the like are bounds of the runs
but any number in the theorems. The assumptions say what validation and constants of the
code establish: thresholds and maxima are positive (the code replaces others) and within
the bounds of the counters; a day has at least one hour and the buffer of hours that are
not merged is at least a day (48 hours in the code); parsed files have the shape that
parsing YAML into the structures of `config` gives them.

*The alert handler.* `TypeOK` is inductive. The refinement and promptness need
`RunsCounted`: the counters are the runs observed, except that during the resolving loop
the failures are reset only at its end. For the recipient, `RecipientInv` adds that an
alert whose resolution is being sent is no longer triggered. For reminders,
`SnapshotInv` says that `LastReminderSent`, and during the loop its copy, is never older
than the last message of any alert the loop has yet to come to: what is due by the copy
is due by the alert's own last message. Promptness needs `PromptInv`, which says of each
alert the loop has passed that it is as its thresholds ask, and of all of them at rest;
for triggering it speaks of alerts whose messages are never refused.

*Recovery.* `RecoveryInv` says that the recipient was told of every triggered alert and
of every alert that has a row, and that the row is gone before the resolution is sent.
It needs `DistinctChecksums` (two alerts that share a row can be restored from each
other's) and a database that does not fail (a row that could not be deleted outlives its
incident); both are hypotheses of the theorem, and hold in `delivery`, the run that checks it.
In `alerting` writes may be lost and two alerts share a row, for the properties that
need neither. `TableInv` adds that a row is that of a triggered alert, that a triggered
alert without a row is the one whose write is under way, and that an incident which
memory does not know of is one whose recipient is out of step or about to be told.

*External endpoints.* `RunsInv` holds while calls do not overlap: at most one call has a
copy; until it has counted its result its copy, the counters and the runs are the same;
then the copy is ahead, and while it is written back each run is found where the counter
is not yet or already. A call about to announce or to resolve has reached the threshold
with the run itself, which is what the refinement needs. `AlertInv` adds that the place
of a call tells whether the alert is triggered, and that the row lags behind only before
a write. Calls that overlap are the business of the run alone: what they may break, and
that it heals, is not a matter of invariants.

*Providers.* `NotificationInv` relates the requests that a `Send` has still to make to
what is known outside, for each way of sending: those told so far are the recipients
before the first request that remains; every open incident has a request that closes it
or was not on the page that was listed;
the incident that is open is the one the endpoint names, the one whose key the alert
holds, or one of those forgotten. `ProviderInv` says that the default settings are those
of the file, completed once, and that the last answer of `GetConfig` is what it would
answer again: no override has left anything behind, also not in the clients that GitHub
and Gitea keep. What is left is the order of the layers, and that a client is kept
exactly if the names are those of the file.

*Suites.* `SuiteInv` speaks of the endpoints the loop has passed: the results are those
of endpoints before it, in their order; `suiteHasFailed` says whether one of them
failed; an endpoint has a result exactly if it always runs or none before it failed; and
a value in the context was stored by one that ran, or was there at the beginning.

*Evaluation.* `EvaluationInv` says what must be known at each place: before the call,
what was looked up for the conditions that ask for it, and after an answer everything a
condition can ask for. The rest is that a condition which does not ask for something is
resolved to the same whatever that is (the last conjunct of `EvaluationInv` is the
property itself).

*The HTTP client and the tunnel.* `HttpClientInv` says of every goroutine that the
client it made is configured as far as it has come, and which clients are, or can again
become, the shared one. Without a token the shared client was made last, also if both
OAuth2 and IAP are configured. With one the shared client is wrapped in the end unless
somebody's token source was refused, and the proxy and the resolver are certain only if
two goroutines make the first call at once (`TwoAtOnce`). `NoConnectionIsLeaked` is inductive together with the types.

*Lifecycle.* `IInv` has an account of each semaphore (`Slots`): as many slots are in use
as there are goroutines that hold one, unless the semaphore is in `mixed`; the queue
names each goroutine that waits for it once and no other; somebody waits only if all slots
are in use. `HeldAreKnown` says that a goroutine which will give back to another semaphore
than the one it took from has put both into `mixed`. The semaphore in use is never behind
in this (`NoSlotIsLost`): what it counts will be given back, because whoever took from it
also read it for the release; only older ones lose slots, and nobody takes from those but
goroutines that had read them before. `ReloadsAreOrdered` adds that a
goroutine of a generation was not there before the generation was, without which a
goroutine that is started could already be in an account.

*Configuration.* `ConfigurationInv` says, for each validator that was passed, what it
established, and that no later one undoes it: defaults that are filled in later do not
make two keys equal or an alert unsound. For the maintenance windows nothing has to be
strengthened but the ranges of clock and window; the work is in division and remainder,
whose theorems are stated for any lengths of hours and days. Of the announcements, which
a recursive operator sorts, the types say nothing.

*The SQL stores.* `SqlInv` holds with either driver: ids are unique, two transactions do
not create the row of one endpoint, and what is missing from a table of what was
committed has as many newer results as may be asked for (`OnlyOldRowsWent`), because
that is all a transaction cleans up (`CleansOnlyOldRows`). Pages follow: what a page
within the maximum asks for is there. With SQLite transactions take turns
(`OneAtATime`), so that what a transaction has read is still so when it commits
(`EventsFollowResults`): it adds the event that the last result calls for, and leaves
tables within their maximum and slack. `CacheFollows` says that a cached status is what
the tables say but for the queries that failed when it was read, or is on the list of a
transaction that will still refresh it, or is of an endpoint whose last commit failed. For the refinement a commit is the `Insert` of the
history.

*The memory store.* `MemoryInv` adds to the types that a status that exists has a result
and that nothing is left of one that does not. The step that inserts is shown to be the
history's `Insert`; the second half of an insertion and the deletions are stutters or
`Forget`. The mapping takes `Visible`, the status a reader would get. For pages,
`KeptResults` says that a status holds the most recent of the results it has taken in.

*Suites in the stores.* `SuitesMemoryInv` and `SuitesSqlInv` are the like for suites. In
the SQL stores a result of an endpoint refers to the result of its suite, and the
invariant adds that those that refer to a result are of the endpoints that ran and were
not deleted since, and that no others refer to an id that is still to be given. `ChosenStoreInv` puts the two under
the choice of the store.

*Uptime.* `UptimeInv` says that the memory store knows every hour that is retained, and
that there is a start of a day, `b`, such that of what is retained the SQL stores have
the hours from `b` on one by one, and before it the sum of each day at its start.
Merging moves `b`; the buffer, which is at least a day, keeps it before the hour it is.
The sums are of what the table was updated with (`Known`), without the days that merges
have lost, which all lie before the buffer.
A range counts what begins in it, which is where the day it begins in may be missing.
Sums over sets are folds, defined by recursion on a function. Since the library's
theorems of induction take an operator, which no prover here can instantiate, the
induction is done with a least counterexample: a set of natural numbers that is not
empty has a least element (`LeastNumber`), from which follow induction over a set of
numbers and over a set of subsets, that the recursion has a solution and only one
(`StepsCanBeTaken`, `StepsAreDetermined`), and that a sum may be taken in any order and
group by group (`TotalTakesAny`, `TotalOfGroups`).

*Pages.* Arithmetic on the bounds of a slice, and that reversing, cutting and reversing
again is cutting from the other end.

Only model-checked are the properties of liveness, which are out of the prover's reach
(`PersistentFailureIsAnnounced`, `PersistentSuccessEndsIncidents`, `EvaluationEnds`,
`EveryEndpointIsEvaluated`, `StoppedGenerationEnds`, `EveryModificationIsRead`,
`SilenceIsNoticed`, `SuccessesEndIncident`, `IncidentsAreClosed`), and with them all of
`ConfigurationFile`. The refinements are proved in their safety; the liveness of an
incident is checked in the terms of the code. Where a theorem names SQLite or asks that
writes succeed or calls not overlap, so does the property, because otherwise the program
does less: see the next section.

## What the models showed and no run records

* On Postgres `CacheIsFresh` and `LastEventIsLastResult` do not hold in the model, which
  is why they say "sqlite". A reader that has read before an insertion commits puts its
  status into the cache after the insertion has refreshed it, and it is served until it
  expires (ten minutes) or the next insertion. Two insertions for one endpoint at the
  same time compare with the same last result, and record a change twice. Insertions for
  one endpoint come from one goroutine, except for external endpoints and for an
  endpoint that has the key of one in a suite.
* After a commit that failed, the cache shows a result that is not in the table, until
  the next insertion (`lost`).
* Calls for an external endpoint that overlap lose updates of the counters, in spite of
  the comment "NumberOfFailuresInARow is the number of unsuccessful evaluations in a
  row" (`config/endpoint/external_endpoint.go`), which is why `CountersAreRuns`,
  `AlertIsInStep` and `ImplementsIncidentAlone` ask for calls one after the other. A success that resolves
  the alert may be overtaken by a failure of another request: the recipient then hears of
  the resolution last, while the alert stays triggered and, without reminders, silent.
* An external endpoint with reminders is reminded of at every failure, whatever
  `minimum-reminder-interval` says, because `ToEndpoint` does not copy `LastReminderSent`.
* The SQL store answers a heartbeat's query that failed like one that found nothing: the
  heartbeat creates a failure.
* A status whose events or results could not be queried is answered, and cached for up to
  ten minutes or until the next insertion, without them: `getEndpointStatusByKey` logs the
  error and goes on (`CacheIsFresh` excepts what is `missing`). With Postgres such a query,
  made to refresh the cache before a commit, takes the whole insertion back.
* When an endpoint is taken out of a suite, the next start deletes its row and with it its
  results in the suite's history, in the SQL stores. The memory store shows them still.
* A page size of 0 on page 1 is replaced by the default of 50 after the maximum has been
  applied, so it may be above the maximum.
* `InsertSuiteResult` of the SQL store inserts results of endpoints without refreshing
  their cached statuses.

*Evaluation*

* STARTTLS, an SSH command and a websocket read have no deadline, in spite of
  `client.timeout`: a peer that accepts the connection and falls silent keeps the slot of
  the evaluation. Nor has the dial of `CheckSSHBanner`, that of STARTTLS with a DNS
  resolver, or the question to the registry when a domain's expiration is asked for: how
  long they take is up to the operating system and the library. `EvaluationEnds` speaks of
  the other protocols, and excepts a registry that never answers. The connection of a
  STARTTLS check is never closed, and `CheckSSHBanner` reads for a second whatever the
  timeout says.
* An SSH command whose body is not JSON, an empty one included, fails although the
  connection was made.
* Placeholders are resolved in any case, but searched for in capitals only: a condition
  on `[body]`, `[ip]` or `[domain_expiration]` is evaluated against nothing. The prefix
  `[CONTEXT].` is only trimmed in capitals, so `[context].x` is invalid, although the
  comment in `config/endpoint/placeholder.go` says it is case-insensitive.
  `VerdictMatchesResponse` asks for capitals.
* An error of the call does not make an endpoint unhealthy (except for an SSH command);
  the conditions decide, and an endpoint without a condition on what failed stays
  healthy. In a numeric comparison `(INVALID)` counts as 0.
* Hiding the host name of an endpoint that has none inserts `<redacted>` between all the
  characters of its errors.
* Two goroutines that create the shared HTTP client at once may see it before it is
  configured, wrap it in two OAuth2 clients, or panic because a transport is no longer an
  `*http.Transport`. With OAuth2 or IAP the tunnel is silently ignored. When the token
  source of IAP cannot be made, which is only logged, the client stays without
  authentication until the configuration is read again; with OAuth2 and IAP both configured it
  has neither. `QuietClientIsComplete` excepts these (`refused`, `AsksForToken`).
* Three goroutines show more than two: one wraps the client of the second, which has
  meanwhile configured the third's, so that with OAuth2 or IAP the client that remains may
  lack its proxy and resolver. The proof for any number of goroutines found it;
  `QuietClientIsComplete` asks for two (`TwoAtOnce`) where it matters.
* A retry through an SSH tunnel closes the connection other goroutines use, and a dial
  that is under way when the tunnel is closed connects it again.

*Providers*

* PagerDuty's trigger never has a key: a reminder opens another incident, and only the
  last is resolved. An answer that cannot be read loses the key. incident.io returns the
  decoding error its comment says it ignores, and forgets the key, so that the next
  attempt opens another incident. `ResolutionClosesIncidents` excepts these (`forgotten`).
* Line, Signal, Plivo and Vonage tell the first recipients again when a later one failed.
* GitHub and Gitea compare the names of owner and repository only: an override that names
  the like repository on another server, or another token, is ignored, and the client of the
  file is used (`OfKeptClient`). For any other repository every notification makes a new
  client and asks the service for its user; if that fails, so does the notification.
* A resolution closes tickets only among those of the first page that the service returns,
  for GitHub, Gitea and ClickUp, and counts as sent although the incident's own was not
  among them (`unlisted`). ClickUp's resolution is an error when no task is found, and
  closes every task whose name contains the one looked for, those of other endpoints
  included.
* An override cannot set a number to 0 or a boolean to false (Pushover's priority, ntfy's
  flags). The file's own settings must be valid even where a comment of PagerDuty says
  overrides may suffice.
* The custom provider does not check that groups differ, and ignores the error of
  `http.NewRequest`.

*Configuration*

* An endpoint with a `tunnel` and no section of tunnels connects directly: references are
  resolved only if there are tunnels, and the error for this case is unreachable.
* The maintenance windows of DNS and SSH endpoints are not validated, and start at
  midnight whatever they say.
* A window that lasts from the day before counts as over in the hour in which it starts,
  until its minute: a window of 24 hours from 23:30 has a hole from 23:00 to 23:30.
* Default alerts are not merged into the alerts of the endpoints of suites, whose
  thresholds become 3 and 2. An unknown type of storage is memory. Two suites may not have
  the same name, in whatever groups.
* `concurrency: 0` is said to mean unlimited by the documentation (`README.md`, lines
  261-262), by the comment on the field (`config/config.go`, line 82) and by the warning of
  a deprecated setting (line 691). It does not: `ValidateAndSetConcurrencyDefaults` cannot
  tell a 0 that is written from nothing written, and makes it 3; only the deprecated
  `disable-monitoring-lock` gives 0. `LoadedConfigurationHolds` does not say what 0 should
  become, only that the semaphore has slots; the disagreement stands here.
* Removing a file of a directory is no modification, nor is a write in the second in which
  a load ends or, to a file already read, during a load. When a file that is removed fails
  a load that is skipped, other modifications stay unread.

*Uptime*

* In the SQL stores a range longer than a day loses the hours of the day it begins in once
  they were merged, because their entry carries the time at which the day starts.
* Errors of the uptime's statements are logged and the rest is committed (SQLite). If the
  update fails, the result is not counted although it is in the table of results. A merge
  deletes the hours before it inserts the sums of their days: if an insertion fails, the
  days that were still to come are lost. `UptimeCountsResults` speaks of `updated`, and
  excepts `lostDays`.

*Lifecycle*

* `executeEndpoint` reads `monitoringSemaphore` for `Acquire`, and again for the deferred
  `Release`. `Monitor` replaces it in between if the configuration is reloaded while the
  goroutine waits for its slot: the slot is never given back to the old semaphore, where
  those that still wait for it wait for ever, and the release of the new one either lets
  one goroutine too many in or, if nobody holds a slot of it, panics and ends the program.
  `SlotsAreNeitherLostNorIdle` and `StoppedGenerationEnds` except these semaphores
  (`mixed`).
* An evaluation that hangs keeps its slot, and with as many of them as there are slots
  nothing is monitored any more until the next reload makes another semaphore.
  `EveryEndpointIsEvaluated` and `StoppedGenerationEnds` except this (`AllHang`).

## What is not modelled

* Parsing: YAML, environment variables, the merging of the files of a directory, durations,
  time zones, JSON paths, patterns. The models begin with what they return.
* The bytes of network protocols, WHOIS and its cache, certificates.
* The HTTP interface but for the two handlers that page and that push; it formats what it
  reads from the store, and a cache of ten seconds in front of it may show what was true
  then. The controller, security, metrics, the front end, and the infrastructure around
  the application.
* The bodies of notifications.
* Errors in the middle of reading the rows of a query that succeeded: the code does not ask
  for them, so that a list may end early.
* Schema migrations and the averages of response times, which are summed by the same
  statements as the counts of `Uptime`.
* The store being closed and replaced by a reload while evaluations go on. The connectivity
  checker's two fields, written by several goroutines without a lock: its answer is any, at
  any time.

`components` in `PROJECT.json` gives the reason for each; `hazards` lists what can go wrong,
with a note wherever no property covers it.

## Plan

Everything the system keeps that depends on order, timing, failure or concurrency has its
module, and every safety property a run checks has its theorem. What remains:

1. `ConfigurationFile`: what the listener has compared is what the files were when they
   were read, as an invariant of its own beside the liveness that is checked.
2. Postgres: what remains true of events and cache when transactions overlap. The theorems
   that name SQLite are those it breaks; pages are right with both.
3. `SuiteStatuses`: that the suites of either kind of store implement a bounded history as
   the endpoints do.
4. Liveness stays with TLC.
