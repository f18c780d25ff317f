------------------------ MODULE ConfigurationProofs --------------------------
(***************************************************************************)
(* What holds of every configuration that is used, whatever was written,   *)
(* and of maintenance windows on a clock with any number of minutes, hours *)
(* and days.                                                               *)
(***************************************************************************)
EXTENDS Configuration, Maintenance, SequenceTheorems, TLAPS

-----------------------------------------------------------------------------
(* Maintenance windows                                                     *)

LEMMA DivisionWithRest ==
    ASSUME NEW a \in Int, NEW b \in Nat \ {0}
    PROVE  a \div b \in Int /\ a % b \in 0 .. b - 1 /\ a = b * (a \div b) + (a % b)
OBVIOUS

LEMMA LaterMultiple ==
    ASSUME NEW b \in Nat, NEW p \in Int, NEW q \in Int, p < q
    PROVE  p * b + b <= q * b
OBVIOUS

LEMMA DivisionIsUnique ==
    ASSUME NEW b \in Nat \ {0}, NEW q \in Int, NEW r \in 0 .. b - 1
    PROVE  (q * b + r) \div b = q /\ (q * b + r) % b = r
<1> DEFINE a == q * b + r
<1>1. a \in Int /\ a = q * b + r
    OBVIOUS
<1> HIDE DEF a
<1>2. a \div b \in Int /\ a % b \in 0 .. b - 1 /\ a = (a \div b) * b + (a % b)
    BY <1>1, DivisionWithRest
<1>3. ~(q < a \div b)
    BY <1>1, <1>2, LaterMultiple
<1>4. ~(q > a \div b)
    BY <1>1, <1>2, LaterMultiple
<1>5. a \div b = q /\ a % b = r
    BY <1>1, <1>2, <1>3, <1>4
<1> QED BY <1>5 DEF a

\* A window that was validated, as far as the clock is concerned.
MaintenanceInv ==
    /\ window.enabled
    /\ window.hours \in 0 .. HoursInADay - 1 /\ window.minutes \in 0 .. MinutesPerHour - 1
    /\ window.duration \in 1 .. DayLength
    /\ minute \in Week .. 2 * Week - 1

LEMMA ClockIsPositive ==
    /\ MinutesPerHour \in Nat \ {0} /\ HoursInADay \in Nat \ {0} /\ DaysPerWeek \in Nat \ {0}
    /\ DayLength \in Nat \ {0} /\ Week \in Nat \ {0} /\ Week = DaysPerWeek * DayLength
<1>1. /\ MinutesPerHour \in Nat \ {0} /\ HoursInADay \in Nat \ {0} /\ DaysPerWeek \in Nat \ {0}
    BY MaintenanceAssumption DEF MaintenanceAssumption
<1>2. DayLength \in Nat \ {0}
    BY <1>1 DEF DayLength
<1> QED BY <1>1, <1>2 DEF Week

\* The day and the hour of a moment, and where in its day a window starts.
LEMMA MomentIs ==
    ASSUME MaintenanceInv
    PROVE  LET day == minute \div DayLength
               rest == minute % DayLength
           IN  /\ day \in DaysPerWeek .. 2 * DaysPerWeek - 1 /\ rest \in 0 .. DayLength - 1
               /\ minute = day * DayLength + rest
               /\ HourOf(minute) \in Int
               /\ rest = HourOf(minute) * MinutesPerHour + (minute % MinutesPerHour)
               /\ minute % MinutesPerHour \in 0 .. MinutesPerHour - 1
<1> DEFINE day == minute \div DayLength
           rest == minute % DayLength
           m == rest % MinutesPerHour
           h == rest \div MinutesPerHour
<1>1. minute \in Int
    BY ClockIsPositive DEF MaintenanceInv
<1>2. day \in Int /\ rest \in 0 .. DayLength - 1 /\ minute = day * DayLength + rest
    BY <1>1, ClockIsPositive, DivisionWithRest
<1> HIDE DEF day, rest
<1>3. h \in Int /\ m \in 0 .. MinutesPerHour - 1 /\ rest = h * MinutesPerHour + m
    BY <1>2, ClockIsPositive, DivisionWithRest
<1>4. HourOf(minute) = h
    BY DEF HourOf, rest
<1> HIDE DEF h, m
<1>5. minute % MinutesPerHour = m
  <2> DEFINE hours == day * HoursInADay + h
  <2>1. hours \in Int
      BY <1>2, <1>3, ClockIsPositive
  <2>2. minute = hours * MinutesPerHour + m
      BY <1>2, <1>3, ClockIsPositive DEF DayLength
  <2> HIDE DEF hours
  <2> QED BY <2>1, <2>2, <1>3, ClockIsPositive, DivisionIsUnique
<1>6. ~(day < DaysPerWeek)
  <2> SUFFICES ASSUME day < DaysPerWeek PROVE FALSE
      OBVIOUS
  <2>1. day * DayLength + DayLength <= DaysPerWeek * DayLength
      BY <1>2, ClockIsPositive, LaterMultiple
  <2> QED BY <2>1, <1>2, ClockIsPositive DEF MaintenanceInv
<1>7. ~(day > 2 * DaysPerWeek - 1)
  <2> SUFFICES ASSUME day > 2 * DaysPerWeek - 1 PROVE FALSE
      OBVIOUS
  <2>1. (2 * DaysPerWeek - 1) * DayLength + DayLength <= day * DayLength
      BY <1>2, ClockIsPositive, LaterMultiple
  <2>2. (2 * DaysPerWeek - 1) * DayLength + DayLength = 2 * Week
      BY ClockIsPositive
  <2> QED BY <2>1, <2>2, <1>2, ClockIsPositive DEF MaintenanceInv
<1> QED BY <1>2, <1>3, <1>4, <1>5, <1>6, <1>7, ClockIsPositive DEF day, rest

LEMMA StartsWithinTheDay ==
    ASSUME MaintenanceInv
    PROVE  /\ StartFromMidnight(window) \in 0 .. DayLength - 1
           /\ StartFromMidnight(window) \div MinutesPerHour = window.hours
<1>1. window.hours \in 0 .. HoursInADay - 1 /\ window.minutes \in 0 .. MinutesPerHour - 1
    BY DEF MaintenanceInv
<1>2. window.hours * MinutesPerHour + MinutesPerHour <= DayLength
    BY <1>1, ClockIsPositive, LaterMultiple DEF DayLength
<1>3. window.hours * MinutesPerHour \in Nat
    BY <1>1, ClockIsPositive
<1>4. /\ StartFromMidnight(window) = window.hours * MinutesPerHour + window.minutes
      /\ window.hours \in Int /\ window.minutes \in 0 .. MinutesPerHour - 1
    BY <1>1, ClockIsPositive DEF StartFromMidnight
<1>5. StartFromMidnight(window) \div MinutesPerHour = window.hours
    BY <1>4, ClockIsPositive, DivisionIsUnique
<1>6. StartFromMidnight(window) \in 0 .. DayLength - 1
    BY <1>2, <1>3, <1>4, ClockIsPositive
<1> QED BY <1>5, <1>6

\* The windows of two days do not overlap.
LEMMA OnlyOneDay ==
    ASSUME MaintenanceInv, NEW day \in Int, NEW rest \in 0 .. DayLength - 1,
           minute = day * DayLength + rest, NEW other \in Int
    PROVE  LET from == other * DayLength + StartFromMidnight(window)
           IN  minute \in from .. from + window.duration - 1 =>
                   other = IF rest < StartFromMidnight(window) THEN day - 1 ELSE day
<1> DEFINE start == StartFromMidnight(window)
<1>1. start \in 0 .. DayLength - 1
    BY StartsWithinTheDay
<1> HIDE DEF start
<1>2. window.duration \in 1 .. DayLength
    BY DEF MaintenanceInv
<1> SUFFICES ASSUME minute >= other * DayLength + start,
                    minute <= other * DayLength + start + window.duration - 1
             PROVE  other = IF rest < start THEN day - 1 ELSE day
    BY <1>1, <1>2, ClockIsPositive DEF start
<1>3. ~(other < day - 1)
  <2> SUFFICES ASSUME other < day - 1 PROVE FALSE
      OBVIOUS
  <2>1. other * DayLength + DayLength <= (day - 1) * DayLength
      BY ClockIsPositive, LaterMultiple
  <2>2. (day - 1) * DayLength = day * DayLength - DayLength
      BY ClockIsPositive
  <2> QED BY <2>1, <2>2, <1>1, <1>2, ClockIsPositive
<1>4. ~(other > day)
  <2> SUFFICES ASSUME other > day PROVE FALSE
      OBVIOUS
  <2>1. day * DayLength + DayLength <= other * DayLength
      BY ClockIsPositive, LaterMultiple
  <2> QED BY <2>1, <1>1, ClockIsPositive
<1>5. CASE other = day
    BY <1>5, <1>1, ClockIsPositive
<1>6. CASE other = day - 1
  <2>1. (day - 1) * DayLength = day * DayLength - DayLength
      BY ClockIsPositive
  <2> QED BY <1>6, <2>1, <1>1, <1>2, ClockIsPositive
<1> QED BY <1>3, <1>4, <1>5, <1>6

LEMMA WindowsAreAsScheduled == MaintenanceInv => MaintenanceIsAsScheduled
<1> SUFFICES ASSUME MaintenanceInv PROVE MaintenanceIsAsScheduled
    OBVIOUS
<1> DEFINE day == minute \div DayLength
           rest == minute % DayLength
           hour == HourOf(minute)
           start == StartFromMidnight(window)
           latest == IF rest < start THEN day - 1 ELSE day
           scheduled(d) == window.every = {} \/ d % DaysPerWeek \in window.every
           lasts(d) == minute \in d * DayLength + start .. d * DayLength + start + window.duration - 1
           covered == \E d \in 0 .. 2 * DaysPerWeek - 1 : scheduled(d) /\ lasts(d)
           stillBefore == hour = window.hours /\ minute % MinutesPerHour < window.minutes
<1>1. /\ day \in DaysPerWeek .. 2 * DaysPerWeek - 1 /\ rest \in 0 .. DayLength - 1
      /\ minute = day * DayLength + rest
      /\ hour \in Int
      /\ rest = hour * MinutesPerHour + (minute % MinutesPerHour)
      /\ minute % MinutesPerHour \in 0 .. MinutesPerHour - 1
    BY MomentIs
<1>2. start \in 0 .. DayLength - 1 /\ start \div MinutesPerHour = window.hours
    BY StartsWithinTheDay
<1>3. /\ window.hours \in Int /\ window.minutes \in 0 .. MinutesPerHour - 1
      /\ window.duration \in 1 .. DayLength /\ minute \in Int
      /\ start = window.hours * MinutesPerHour + window.minutes
    BY ClockIsPositive DEF MaintenanceInv, StartFromMidnight
<1>4. DayOfWindow(window, minute) = IF hour < window.hours THEN day - 1 ELSE day
    BY <1>2 DEF DayOfWindow
<1>5. \A d \in Int : lasts(d) => d = latest
    BY <1>1, OnlyOneDay
<1>6. latest \in 0 .. 2 * DaysPerWeek - 1
    BY <1>1, ClockIsPositive
<1>7. minute >= latest * DayLength + start
  <2>1. (day - 1) * DayLength = day * DayLength - DayLength
      BY <1>1, ClockIsPositive
  <2>2. CASE rest < start
    <3>1. latest = day - 1
        BY <2>2
    <3> HIDE DEF latest, day, rest, start
    <3> QED BY <2>1, <3>1, <1>1, <1>2, ClockIsPositive
  <2>3. CASE ~(rest < start)
    <3>1. latest = day
        BY <2>3
    <3> HIDE DEF latest, day, rest, start
    <3> QED BY <2>3, <3>1, <1>1, <1>2, ClockIsPositive
  <2> QED BY <2>2, <2>3
<1>8. day * DayLength + start > minute <=> rest < start
    BY <1>1, <1>2, ClockIsPositive
<1>9. rest < start <=> hour < window.hours \/ stillBefore
  <2>1. CASE hour < window.hours
    <3>1. hour * MinutesPerHour + MinutesPerHour <= window.hours * MinutesPerHour
        BY <2>1, <1>1, <1>3, ClockIsPositive, LaterMultiple
    <3> HIDE DEF hour, start, rest
    <3> QED BY <2>1, <3>1, <1>1, <1>3, ClockIsPositive
  <2>2. CASE hour > window.hours
    <3>1. window.hours * MinutesPerHour + MinutesPerHour <= hour * MinutesPerHour
        BY <2>2, <1>1, <1>3, ClockIsPositive, LaterMultiple
    <3> HIDE DEF hour, start, rest
    <3> QED BY <2>2, <3>1, <1>1, <1>3, ClockIsPositive
  <2>3. CASE hour = window.hours
    <3> HIDE DEF hour, start, rest
    <3> QED BY <2>3, <1>1, <1>3, ClockIsPositive
  <2> QED BY <2>1, <2>2, <2>3, <1>1, <1>3
<1> DEFINE now == DayOfWindow(window, minute)
<1>10. IsUnderMaintenance(window, minute) <=>
            /\ scheduled(now)
            /\ minute >= now * DayLength + start /\ minute < now * DayLength + start + window.duration
    BY DEF IsUnderMaintenance, MaintenanceInv
<1>11. covered <=> scheduled(latest) /\ lasts(latest)
  <2> HIDE DEF scheduled, lasts, latest
  <2> QED BY <1>5, <1>6, ClockIsPositive
<1>12. lasts(latest) <=> minute < latest * DayLength + start + window.duration
  <2>1. latest \in Int
      BY <1>6, ClockIsPositive
  <2> HIDE DEF latest, start
  <2> QED BY <2>1, <1>2, <1>3, <1>7, ClockIsPositive
<1>13. IsUnderMaintenance(window, minute) <=> covered /\ ~stillBefore
  <2>1. CASE stillBefore
    <3>1. now = day /\ rest < start
        BY <2>1, <1>1, <1>3, <1>4, <1>9
    <3> HIDE DEF now, day, rest, start, covered, scheduled, stillBefore
    <3>2. ~(minute >= now * DayLength + start)
        BY <3>1, <1>1, <1>2, <1>3, <1>8, ClockIsPositive
    <3> QED BY <2>1, <3>2, <1>10
  <2>2. CASE ~stillBefore
    <3>1. now = latest
        BY <2>2, <1>4, <1>9
    <3> HIDE DEF now, latest, start, covered, scheduled, stillBefore, lasts
    <3> QED BY <2>2, <3>1, <1>7, <1>10, <1>11, <1>12
  <2> QED BY <2>1, <2>2
<1>14. MaintenanceIsAsScheduled <=> (IsUnderMaintenance(window, minute) <=> covered /\ ~stillBefore)
    BY Zenon DEF MaintenanceIsAsScheduled
<1> QED BY <1>13, <1>14

LEMMA MaintenanceInitEstablishes == MaintenanceInit => MaintenanceInv
<1> SUFFICES ASSUME MaintenanceInit PROVE MaintenanceInv
    OBVIOUS
<1>1. window \in WrittenWindows /\ window.enabled /\ WindowIsValid(window) /\ minute = Week
    BY Zenon DEF MaintenanceInit
<1>2. window.hours \in 0 .. HoursInADay /\ window.minutes \in 0 .. MinutesPerHour
    BY <1>1, Zenon DEF WrittenWindows
<1> QED BY <1>1, <1>2, ClockIsPositive DEF MaintenanceInv, WindowIsValid

LEMMA MaintenanceNextKeeps ==
    MaintenanceInv /\ [MaintenanceNext]_maintenanceVars => MaintenanceInv'
BY ClockIsPositive DEF MaintenanceInv, MaintenanceNext, maintenanceVars, Week, DayLength

(* With a clock of any number of minutes, hours and days, an alert is held
   back exactly while a scheduled window lasts, also past midnight, but for the
   minutes before a window starts in the hour it starts in. *)
THEOREM MaintenanceIsAlwaysAsScheduled == MaintenanceSpec => []MaintenanceIsAsScheduled
BY MaintenanceInitEstablishes, MaintenanceNextKeeps, WindowsAreAsScheduled, PTL DEF MaintenanceSpec

-----------------------------------------------------------------------------
(* The parts of a configuration that is used                               *)

\* What a validator establishes remains true of whatever the later ones make.
Past(n) == loading = "loaded" \/ (loading = "validating" /\ n < validating)

EndpointIsSound(e) == AlertsAreSound(e) /\ IsReady(e)

TopLevelIsSound(c) ==
    /\ \A i \in 1 .. Len(c.endpoints) : EndpointIsSound(c.endpoints[i])
    /\ \A i \in 1 .. Len(c.externalEndpoints) : AlertsAreSound(c.externalEndpoints[i])
StorageIsBounded(c) == c.storage.maximum >= 1
TunnelsAreResolved(c) ==
    /\ \A i \in 1 .. Len(c.endpoints) : HasItsTunnel(c, c.endpoints[i])
    /\ \A i \in 1 .. Len(c.suites) : \A j \in 1 .. Len(c.suites[i].endpoints) :
            HasItsTunnel(c, c.suites[i].endpoints[j])
SuitesAreSound(c) ==
    \A i \in 1 .. Len(c.suites) : \A j \in 1 .. Len(c.suites[i].endpoints) :
        /\ EndpointIsSound(c.suites[i].endpoints[j])
        /\ c.suites[i].endpoints[j].group = c.suites[i].group
LimitsAreRight(c) ==
    /\ c.concurrency \in Nat
    /\ c.shownResults = c.storage.maximum

ConfigurationInv ==
    /\ ConfigurationTypeOK
    /\ Past(3) => TopLevelIsSound(cfg)
    /\ Past(7) => StorageIsBounded(cfg)
    /\ Past(10) => TunnelsAreResolved(cfg)
    /\ Past(12) => SuitesAreSound(cfg)
    /\ Past(13) => IsInjective(KeysOf(cfg))
    /\ Past(14) => LimitsAreRight(cfg)

\* A sequence made of another one, element by element.
LEMMA MappedSeq ==
    ASSUME NEW S, NEW T, NEW s \in Seq(S), NEW r, r = [i \in 1 .. Len(s) |-> r[i]],
           \A i \in 1 .. Len(s) : r[i] \in T
    PROVE  r \in Seq(T) /\ Len(r) = Len(s)
<1>1. Len(s) \in Nat
    OBVIOUS
<1>2. r \in [1 .. Len(s) -> T]
    OBVIOUS
<1> QED BY <1>1, <1>2

\* The fields of what was parsed.
LEMMA AlertHas ==
    ASSUME NEW a \in ParsedAlerts
    PROVE  /\ a.failureThreshold \in Int /\ a.successThreshold \in Int /\ a.reminderInterval \in Int
           /\ a.type \in STRING /\ a.enabled \in STRING /\ a.sendOnResolved \in STRING
           /\ a.description \in STRING
BY DEF ParsedAlerts

LEMMA EndpointHas ==
    ASSUME NEW e \in ParsedEndpoints
    PROVE  e.alerts \in Seq(ParsedAlerts) /\ e.interval \in Int
BY DEF ParsedEndpoints

LEMMA SuiteHas ==
    ASSUME NEW s \in ParsedSuites
    PROVE  s.endpoints \in Seq(ParsedEndpoints) /\ s.group \in STRING
BY DEF ParsedSuites

LEMMA FileHas ==
    ASSUME NEW c, IsConfiguration(c)
    PROVE  /\ c.endpoints \in Seq(ParsedEndpoints) /\ c.externalEndpoints \in Seq(ParsedEndpoints)
           /\ c.suites \in Seq(ParsedSuites) /\ c.providers \in [DOMAIN file.providers -> ParsedProviders]
           /\ c.storage \in [type : StorageTypes, path : Flags, maximum : Int]
           /\ c.concurrency \in Int /\ c.disableMonitoringLock \in Flags
BY DEF IsConfiguration, ParsedFiles

\* What each validator makes of an alert, an endpoint or a suite.
LEMMA MergedAlert ==
    ASSUME NEW default \in ParsedAlerts, NEW alert \in ParsedAlerts
    PROVE  Merge(default, alert) \in ParsedAlerts
BY ZenonT(60) DEF Merge, OrDefault, ParsedAlerts

LEMMA AlertIsCompleted ==
    ASSUME NEW alert \in ParsedAlerts
    PROVE  /\ AlertWithDefaults(alert) \in ParsedAlerts
           /\ AlertWithDefaults(alert).failureThreshold >= 1
           /\ AlertWithDefaults(alert).successThreshold >= 1
           /\ AlertWithDefaults(alert).reminderInterval = alert.reminderInterval
<1> DEFINE failures == IF alert.failureThreshold <= 0 THEN 3 ELSE alert.failureThreshold
           successes == IF alert.successThreshold <= 0 THEN 2 ELSE alert.successThreshold
<1>1. failures \in Int /\ failures >= 1 /\ successes \in Int /\ successes >= 1
    BY AlertHas
<1>2. AlertWithDefaults(alert) = [alert EXCEPT !.failureThreshold = failures, !.successThreshold = successes]
    BY Zenon DEF AlertWithDefaults
<1> HIDE DEF failures, successes
<1> QED BY <1>1, <1>2 DEF ParsedAlerts

LEMMA ProviderMerges ==
    ASSUME ConfigurationTypeOK, NEW alert \in ParsedAlerts
    PROVE  AlertAfterProviders(alert) \in ParsedAlerts
<1>1. file.providers \in [DOMAIN file.providers -> ParsedProviders]
    BY FileHas DEF ConfigurationTypeOK
<1>2. DOMAIN ProvidersKept = DOMAIN file.providers
    BY DEF ProvidersKept
<1>3. ASSUME NEW t \in DOMAIN file.providers, ProvidersKept[t].default # <<>>
      PROVE  ProvidersKept[t].default[1] \in ParsedAlerts
  <2>1. file.providers[t] \in ParsedProviders
      BY <1>1
  <2>2. ProvidersKept[t].default = file.providers[t].default
      BY <2>1 DEF ProvidersKept, ParsedProviders
  <2>3. ProvidersKept[t].default \in Seq(ParsedAlerts)
      BY <2>1, <2>2 DEF ParsedProviders
  <2> QED BY <1>3, <2>3
<1> QED BY <1>2, <1>3, MergedAlert DEF AlertAfterProviders

LEMMA EndpointIsMerged ==
    ASSUME ConfigurationTypeOK, NEW e \in ParsedEndpoints
    PROVE  WithMergedAlerts(e) \in ParsedEndpoints
<1> DEFINE merged == MapSeq(e.alerts, AlertAfterProviders)
<1>1. merged \in Seq(ParsedAlerts)
    BY EndpointHas, ElementOfSeq, ProviderMerges, MappedSeq DEF MapSeq
<1>2. WithMergedAlerts(e) = [e EXCEPT !.alerts = merged]
    BY DEF WithMergedAlerts
<1> HIDE DEF merged
<1> QED BY <1>1, <1>2 DEF ParsedEndpoints

LEMMA AlertsAreCompleted ==
    ASSUME NEW e \in ParsedEndpoints
    PROVE  LET alerts == MapSeq(e.alerts, AlertWithDefaults)
           IN  /\ alerts \in Seq(ParsedAlerts) /\ Len(alerts) = Len(e.alerts)
               /\ All(e.alerts, AlertIsValid) =>
                      \A i \in 1 .. Len(alerts) :
                          /\ alerts[i].failureThreshold >= 1 /\ alerts[i].successThreshold >= 1
                          /\ \/ alerts[i].reminderInterval = 0
                             \/ alerts[i].reminderInterval >= ShortestReminder
<1> DEFINE alerts == MapSeq(e.alerts, AlertWithDefaults)
<1>1. alerts = [i \in 1 .. Len(e.alerts) |-> AlertWithDefaults(e.alerts[i])]
    BY DEF MapSeq
<1> HIDE DEF alerts
<1>2. \A i \in 1 .. Len(e.alerts) : e.alerts[i] \in ParsedAlerts /\ alerts[i] = AlertWithDefaults(e.alerts[i])
    BY <1>1, EndpointHas, ElementOfSeq
<1>3. alerts \in Seq(ParsedAlerts) /\ Len(alerts) = Len(e.alerts)
    BY <1>1, <1>2, EndpointHas, AlertIsCompleted, MappedSeq
<1>4. ASSUME All(e.alerts, AlertIsValid), NEW i \in 1 .. Len(alerts)
      PROVE  /\ alerts[i].failureThreshold >= 1 /\ alerts[i].successThreshold >= 1
             /\ \/ alerts[i].reminderInterval = 0
                \/ alerts[i].reminderInterval >= ShortestReminder
  <2>1. AlertIsValid(e.alerts[i])
      BY <1>3, <1>4 DEF All
  <2>2. e.alerts[i].reminderInterval = 0 \/ e.alerts[i].reminderInterval >= ShortestReminder
      BY <2>1, Zenon DEF AlertIsValid
  <2> QED BY <1>2, <1>3, <2>2, AlertIsCompleted
<1> QED BY <1>3, <1>4 DEF alerts

LEMMA EndpointIsCompleted ==
    ASSUME NEW e \in ParsedEndpoints
    PROVE  /\ EndpointWithDefaults(e) \in ParsedEndpoints
           /\ EndpointWithDefaults(e).tunnel = e.tunnel /\ EndpointWithDefaults(e).group = e.group
           /\ EndpointIsValid(e) => EndpointIsSound(EndpointWithDefaults(e))
<1> DEFINE alerts == MapSeq(e.alerts, AlertWithDefaults)
           ready == e.kind \notin {"dns", "ssh"}
           interval == OrDefault(e.interval, 0, 1)
           completed == EndpointWithDefaults(e)
<1>1. completed = [e EXCEPT !.interval = interval, !.alerts = alerts, !.windowIsReady = ready]
    BY Zenon DEF EndpointWithDefaults
<1>2. alerts \in Seq(ParsedAlerts)
    BY AlertsAreCompleted
<1>3. interval \in Int
    BY EndpointHas DEF OrDefault
<1>4. ready \in Flags
    BY Zenon DEF Flags
<1>5. EndpointIsValid(e) => All(e.alerts, AlertIsValid) /\ (e.asksForDomain => interval >= ShortestForDomain)
    BY Zenon DEF EndpointIsValid
<1>6. ready = (e.kind \notin {"dns", "ssh"})
    OBVIOUS
<1> HIDE DEF alerts, ready, interval, completed
<1>7. /\ completed \in ParsedEndpoints
      /\ completed.tunnel = e.tunnel /\ completed.group = e.group /\ completed.kind = e.kind
      /\ completed.interval = interval /\ completed.alerts = alerts /\ completed.windowIsReady = ready
      /\ completed.asksForDomain = e.asksForDomain
    BY <1>1, <1>2, <1>3, <1>4 DEF ParsedEndpoints
<1>8. ASSUME EndpointIsValid(e) PROVE AlertsAreSound(completed)
    BY <1>5, <1>7, <1>8, AlertsAreCompleted DEF alerts, AlertsAreSound, All
<1>9. ASSUME EndpointIsValid(e) PROVE IsReady(completed)
    BY <1>5, <1>6, <1>7, <1>9 DEF IsReady
<1> QED BY <1>7, <1>8, <1>9 DEF completed, EndpointIsSound

LEMMA EndpointIsResolved ==
    ASSUME NEW e \in ParsedEndpoints
    PROVE  /\ Resolve(e) \in ParsedEndpoints
           /\ Resolve(e).tunnel.name = e.tunnel.name
           /\ Resolve(e).tunnel.resolved = (e.tunnel.name # NoName)
           /\ EndpointIsSound(e) => EndpointIsSound(Resolve(e))
<1> DEFINE named == e.tunnel.name # NoName
           resolved == Resolve(e)
<1>1. resolved = [e EXCEPT !.tunnel.resolved = named]
    BY Zenon DEF Resolve
<1>2. named \in Flags
    BY Zenon DEF Flags
<1>3. named = (e.tunnel.name # NoName)
    OBVIOUS
<1> HIDE DEF named, resolved
<1>4. /\ resolved \in ParsedEndpoints
      /\ resolved.tunnel.name = e.tunnel.name /\ resolved.tunnel.resolved = named
      /\ resolved.kind = e.kind /\ resolved.interval = e.interval /\ resolved.alerts = e.alerts
      /\ resolved.windowIsReady = e.windowIsReady /\ resolved.asksForDomain = e.asksForDomain
    BY <1>1, <1>2 DEF ParsedEndpoints
<1>5. EndpointIsSound(e) => EndpointIsSound(resolved)
    BY <1>4 DEF EndpointIsSound, AlertsAreSound, IsReady
<1> QED BY <1>3, <1>4, <1>5 DEF resolved

LEMMA SuiteIsResolved ==
    ASSUME NEW s \in ParsedSuites
    PROVE  /\ WithTunnels(s) \in ParsedSuites
           /\ Len(WithTunnels(s).endpoints) = Len(s.endpoints)
           /\ \A j \in 1 .. Len(s.endpoints) : WithTunnels(s).endpoints[j] = Resolve(s.endpoints[j])
<1> DEFINE resolved == MapSeq(s.endpoints, Resolve)
<1>1. resolved = [j \in 1 .. Len(s.endpoints) |-> Resolve(s.endpoints[j])]
    BY DEF MapSeq
<1>2. WithTunnels(s) = [s EXCEPT !.endpoints = resolved]
    BY DEF WithTunnels
<1> HIDE DEF resolved
<1>3. resolved \in Seq(ParsedEndpoints) /\ Len(resolved) = Len(s.endpoints)
    BY <1>1, SuiteHas, ElementOfSeq, EndpointIsResolved, MappedSeq
<1>4. WithTunnels(s) \in ParsedSuites /\ WithTunnels(s).endpoints = resolved
    BY <1>2, <1>3 DEF ParsedSuites
<1> QED BY <1>1, <1>3, <1>4

LEMMA SuiteIsCompleted ==
    ASSUME NEW s \in ParsedSuites
    PROVE  /\ SuiteWithDefaults(s) \in ParsedSuites
           /\ SuiteWithDefaults(s).group = s.group
           /\ Len(SuiteWithDefaults(s).endpoints) = Len(s.endpoints)
           /\ \A j \in 1 .. Len(s.endpoints) :
                LET e == SuiteWithDefaults(s).endpoints[j]
                IN  /\ e.group = s.group /\ e.tunnel = s.endpoints[j].tunnel
                    /\ SuiteIsValid(s) => EndpointIsSound(e)
<1> DEFINE endpoints == MapSeq(s.endpoints, LAMBDA e : EndpointWithDefaults(InSuite(s, e)))
           interval == OrDefault(s.interval, 0, 10)
           timeout == OrDefault(s.timeout, 0, 5)
<1>1. endpoints = [j \in 1 .. Len(s.endpoints) |-> EndpointWithDefaults(InSuite(s, s.endpoints[j]))]
    BY DEF MapSeq
<1>2. SuiteWithDefaults(s) = [s EXCEPT !.interval = interval, !.timeout = timeout, !.endpoints = endpoints]
    BY Zenon DEF SuiteWithDefaults
<1>3. interval \in Int /\ timeout \in Int
    BY DEF OrDefault, ParsedSuites
<1> HIDE DEF endpoints, interval, timeout
<1>4. ASSUME NEW j \in 1 .. Len(s.endpoints)
      PROVE  /\ endpoints[j] \in ParsedEndpoints
             /\ endpoints[j].group = s.group /\ endpoints[j].tunnel = s.endpoints[j].tunnel
             /\ SuiteIsValid(s) => EndpointIsSound(endpoints[j])
  <2> DEFINE e == s.endpoints[j]
             inner == InSuite(s, e)
  <2>1. e \in ParsedEndpoints
      BY SuiteHas, ElementOfSeq
  <2> HIDE DEF e
  <2>2. inner = [e EXCEPT !.group = s.group]
      BY DEF InSuite
  <2> HIDE DEF inner
  <2>3. /\ inner \in ParsedEndpoints /\ inner.group = s.group /\ inner.tunnel = e.tunnel
        /\ inner.defects = e.defects /\ inner.kind = e.kind /\ inner.alerts = e.alerts
        /\ inner.interval = e.interval /\ inner.asksForDomain = e.asksForDomain
      BY <2>1, <2>2, SuiteHas DEF ParsedEndpoints
  <2>4. EndpointIsValid(e) => EndpointIsValid(inner)
    <3>1. DefectsSeen(inner) = DefectsSeen(e)
        BY <2>3, Zenon DEF DefectsSeen
    <3> QED BY <2>3, <3>1 DEF EndpointIsValid
  <2>5. SuiteIsValid(s) => EndpointIsValid(e)
      BY DEF SuiteIsValid, All, e
  <2>6. endpoints[j] = EndpointWithDefaults(inner)
      BY <1>1 DEF inner, e
  <2>7. s.endpoints[j].tunnel = e.tunnel
      BY DEF e
  <2> QED BY <2>3, <2>4, <2>5, <2>6, <2>7, EndpointIsCompleted
<1>5. endpoints \in Seq(ParsedEndpoints) /\ Len(endpoints) = Len(s.endpoints)
  <2>1. endpoints = [j \in 1 .. Len(s.endpoints) |-> endpoints[j]]
      BY <1>1, Zenon
  <2>2. s.endpoints \in Seq(ParsedEndpoints)
      BY SuiteHas
  <2>3. \A j \in 1 .. Len(s.endpoints) : endpoints[j] \in ParsedEndpoints
      BY <1>4
  <2> QED BY <2>1, <2>2, <2>3, MappedSeq
<1>6. /\ SuiteWithDefaults(s) \in ParsedSuites /\ SuiteWithDefaults(s).group = s.group
      /\ SuiteWithDefaults(s).endpoints = endpoints
    BY <1>2, <1>3, <1>5 DEF ParsedSuites
<1> QED BY <1>4, <1>5, <1>6

\* The validators come one after the other.
LEMMA StageIs ==
    ASSUME ConfigurationTypeOK, NEW v \in ToSet(Validators), At(v)
    PROVE  /\ loading = "validating"
           /\ \A n \in 1 .. Len(Validators) : Past(n) <=> n < validating
           /\ v = "alerting" => validating = 1
           /\ v = "endpoints" => validating = 3
           /\ v = "storage" => validating = 7
           /\ v = "tunneling" => validating = 10
           /\ v = "announcements" => validating = 11
           /\ v = "suites" => validating = 12
           /\ v = "keys" => validating = 13
           /\ v = "concurrency" => validating = 14
           /\ v \in Sections => validating \notin {3, 7, 10, 12, 13, 14}
BY DEF ConfigurationTypeOK, At, Validators, Past, Sections

LEMMA NextStageIs ==
    ASSUME ConfigurationTypeOK, NextValidator, loading = "validating"
    PROVE  /\ validating' \in 1 .. Len(Validators) /\ loading' \in {"validating", "loaded", "rejected"}
           /\ \A n \in 1 .. Len(Validators) : Past(n)' <=> n <= validating
BY DEF ConfigurationTypeOK, NextValidator, Past, Validators

LEMMA RejectionKeeps == ASSUME ConfigurationInv, Reject PROVE ConfigurationInv'
<1>1. ConfigurationTypeOK'
    BY DEF ConfigurationInv, ConfigurationTypeOK, IsConfiguration, Reject
<1>2. \A n \in 1 .. 14 : ~Past(n)'
    BY DEF Reject, Past
<1> QED BY <1>1, <1>2 DEF ConfigurationInv

\* What the parts of a configuration depend on.
LEMMA SameParts ==
    ASSUME NEW c, NEW d, d.endpoints = c.endpoints
    PROVE  /\ d.externalEndpoints = c.externalEndpoints => TopLevelIsSound(d) = TopLevelIsSound(c)
           /\ d.storage = c.storage => StorageIsBounded(d) = StorageIsBounded(c)
           /\ d.suites = c.suites => SuitesAreSound(d) = SuitesAreSound(c)
           /\ d.suites = c.suites /\ d.tunnels = c.tunnels => TunnelsAreResolved(d) = TunnelsAreResolved(c)
           /\ d.suites = c.suites /\ d.externalEndpoints = c.externalEndpoints => KeysOf(d) = KeysOf(c)
<1>1. d.externalEndpoints = c.externalEndpoints => TopLevelIsSound(d) = TopLevelIsSound(c)
    BY DEF TopLevelIsSound
<1>2. d.storage = c.storage => StorageIsBounded(d) = StorageIsBounded(c)
    BY DEF StorageIsBounded
<1>3. d.suites = c.suites => SuitesAreSound(d) = SuitesAreSound(c)
    BY DEF SuitesAreSound
<1>4. d.suites = c.suites /\ d.tunnels = c.tunnels => TunnelsAreResolved(d) = TunnelsAreResolved(c)
    BY DEF TunnelsAreResolved, HasItsTunnel
<1>5. d.suites = c.suites /\ d.externalEndpoints = c.externalEndpoints => KeysOf(d) = KeysOf(c)
    BY DEF KeysOf, TopLevelKeys
<1> QED BY <1>1, <1>2, <1>3, <1>4, <1>5

\* Each validator, on a file that it accepts.
LEMMA AcceptanceKeeps ==
    ASSUME ConfigurationInv, loading = "validating", NEW c, Accept(c),
           IsConfiguration(c),
           3 <= validating => TopLevelIsSound(c),
           7 <= validating => StorageIsBounded(c),
           10 <= validating => TunnelsAreResolved(c),
           12 <= validating => SuitesAreSound(c),
           13 <= validating => IsInjective(KeysOf(c)),
           14 <= validating => LimitsAreRight(c)
    PROVE  ConfigurationInv'
<1>1. cfg' = c /\ file' = file /\ NextValidator
    BY DEF Accept
<1>2. /\ validating' \in 1 .. Len(Validators) /\ loading' \in {"validating", "loaded", "rejected"}
      /\ \A n \in 1 .. Len(Validators) : Past(n)' <=> n <= validating
    BY <1>1, NextStageIs DEF ConfigurationInv
<1>3. Len(Validators) = 14 /\ validating \in Nat
    BY DEF Validators, ConfigurationInv, ConfigurationTypeOK
<1>4. /\ Past(3)' <=> 3 <= validating
      /\ Past(7)' <=> 7 <= validating
      /\ Past(10)' <=> 10 <= validating
      /\ Past(12)' <=> 12 <= validating
      /\ Past(13)' <=> 13 <= validating
      /\ Past(14)' <=> 14 <= validating
    BY <1>2, <1>3
<1>5. ConfigurationTypeOK'
    BY <1>1, <1>2 DEF ConfigurationInv, ConfigurationTypeOK, IsConfiguration
<1>6. /\ TopLevelIsSound(cfg)' <=> TopLevelIsSound(c)
      /\ StorageIsBounded(cfg)' <=> StorageIsBounded(c)
      /\ TunnelsAreResolved(cfg)' <=> TunnelsAreResolved(c)
      /\ SuitesAreSound(cfg)' <=> SuitesAreSound(c)
      /\ IsInjective(KeysOf(cfg))' <=> IsInjective(KeysOf(c))
      /\ LimitsAreRight(cfg)' <=> LimitsAreRight(c)
    BY <1>1
<1> QED BY <1>4, <1>5, <1>6 DEF ConfigurationInv

\* What was established before the validator that is next.
LEMMA Established ==
    ASSUME ConfigurationInv, NEW v \in ToSet(Validators), At(v)
    PROVE  /\ 3 < validating => TopLevelIsSound(cfg)
           /\ 7 < validating => StorageIsBounded(cfg)
           /\ 10 < validating => TunnelsAreResolved(cfg)
           /\ 12 < validating => SuitesAreSound(cfg)
           /\ 13 < validating => IsInjective(KeysOf(cfg))
           /\ IsConfiguration(cfg) /\ validating \in 1 .. 14
           /\ loading = "validating"
<1>1. Len(Validators) = 14
    BY DEF Validators
<1>2. \A n \in 1 .. 14 : Past(n) <=> n < validating
    BY <1>1, StageIs DEF ConfigurationInv
<1>3. loading = "validating"
    BY StageIs DEF ConfigurationInv
<1> QED BY <1>1, <1>2, <1>3 DEF ConfigurationInv, ConfigurationTypeOK

LEMMA AlertingKeeps == ASSUME ConfigurationInv, ValidateAlertingConfig PROVE ConfigurationInv'
<1> DEFINE endpoints == MapSeq(cfg.endpoints, WithMergedAlerts)
           external == MapSeq(cfg.externalEndpoints, WithMergedAlerts)
           c == [cfg EXCEPT !.providers = ProvidersKept, !.endpoints = endpoints,
                            !.externalEndpoints = external]
<1>1. At("alerting") /\ Accept(c)
    BY Zenon DEF ValidateAlertingConfig
<1>2. "alerting" \in ToSet(Validators)
    BY DEF ToSet, Validators
<1>3. validating = 1 /\ loading = "validating"
    BY <1>1, <1>2, StageIs DEF ConfigurationInv
<1>4. IsConfiguration(cfg) /\ IsConfiguration(file)
    BY DEF ConfigurationInv, ConfigurationTypeOK
<1>5. endpoints \in Seq(ParsedEndpoints)
  <2>1. \A i \in 1 .. Len(cfg.endpoints) : WithMergedAlerts(cfg.endpoints[i]) \in ParsedEndpoints
      BY <1>4, FileHas, ElementOfSeq, EndpointIsMerged DEF ConfigurationInv
  <2> QED BY <1>4, <2>1, FileHas, MappedSeq DEF MapSeq
<1>6. external \in Seq(ParsedEndpoints)
  <2>1. \A i \in 1 .. Len(cfg.externalEndpoints) : WithMergedAlerts(cfg.externalEndpoints[i]) \in ParsedEndpoints
      BY <1>4, FileHas, ElementOfSeq, EndpointIsMerged DEF ConfigurationInv
  <2> QED BY <1>4, <2>1, FileHas, MappedSeq DEF MapSeq
<1>7. ProvidersKept \in [DOMAIN file.providers -> ParsedProviders]
  <2>1. file.providers \in [DOMAIN file.providers -> ParsedProviders]
      BY <1>4, FileHas
  <2>2. FALSE \in Flags
      BY Zenon DEF Flags
  <2> QED BY <2>1, <2>2 DEF ProvidersKept, ParsedProviders
<1>8. IsConfiguration(c)
  <2> HIDE DEF endpoints, external
  <2> QED BY <1>4, <1>5, <1>6, <1>7 DEF IsConfiguration, ParsedFiles
<1> HIDE DEF c
<1> QED BY <1>1, <1>3, <1>8, AcceptanceKeeps

LEMMA EndpointsKeep == ASSUME ConfigurationInv, ValidateEndpointsConfig PROVE ConfigurationInv'
<1> DEFINE endpoints == MapSeq(cfg.endpoints, EndpointWithDefaults)
           external == MapSeq(cfg.externalEndpoints, ExternalEndpointWithDefaults)
           c == [cfg EXCEPT !.endpoints = endpoints, !.externalEndpoints = external]
           valid == /\ IsInjective(MapSeq(cfg.endpoints \o cfg.externalEndpoints, KeyOf))
                    /\ All(cfg.endpoints, EndpointIsValid)
                    /\ All(cfg.externalEndpoints, ExternalEndpointIsValid)
<1>1. At("endpoints") /\ AcceptIf(valid, c)
    BY Zenon DEF ValidateEndpointsConfig
<1>2. "endpoints" \in ToSet(Validators)
    BY DEF ToSet, Validators
<1>3. validating = 3 /\ loading = "validating" /\ IsConfiguration(cfg)
    BY <1>1, <1>2, StageIs DEF ConfigurationInv, ConfigurationTypeOK
<1>4. cfg.endpoints \in Seq(ParsedEndpoints) /\ cfg.externalEndpoints \in Seq(ParsedEndpoints)
    BY <1>3, FileHas
<1>5. CASE ~valid
    BY <1>1, <1>5, RejectionKeeps DEF AcceptIf
<1>6. CASE valid
  <2>1. Accept(c)
      BY <1>1, <1>6 DEF AcceptIf
  <2>2. ASSUME NEW i \in 1 .. Len(cfg.endpoints)
        PROVE  /\ EndpointWithDefaults(cfg.endpoints[i]) \in ParsedEndpoints
               /\ EndpointIsSound(EndpointWithDefaults(cfg.endpoints[i]))
    <3>1. cfg.endpoints[i] \in ParsedEndpoints
        BY <1>4, ElementOfSeq
    <3>2. EndpointIsValid(cfg.endpoints[i])
        BY <1>6 DEF All
    <3> QED BY <3>1, <3>2, EndpointIsCompleted
  <2>3. endpoints = [i \in 1 .. Len(cfg.endpoints) |-> EndpointWithDefaults(cfg.endpoints[i])]
      BY DEF MapSeq
  <2>4. endpoints \in Seq(ParsedEndpoints) /\ Len(endpoints) = Len(cfg.endpoints)
      BY <1>4, <2>2, MappedSeq DEF MapSeq
  <2>5. ASSUME NEW i \in 1 .. Len(cfg.externalEndpoints)
        PROVE  /\ ExternalEndpointWithDefaults(cfg.externalEndpoints[i]) \in ParsedEndpoints
               /\ AlertsAreSound(ExternalEndpointWithDefaults(cfg.externalEndpoints[i]))
    <3> DEFINE e == cfg.externalEndpoints[i]
               alerts == MapSeq(e.alerts, AlertWithDefaults)
    <3>1. e \in ParsedEndpoints
        BY <1>4, ElementOfSeq
    <3>2. All(e.alerts, AlertIsValid)
        BY <1>6 DEF All, ExternalEndpointIsValid
    <3>3. ExternalEndpointWithDefaults(e) = [e EXCEPT !.alerts = alerts]
        BY DEF ExternalEndpointWithDefaults
    <3> HIDE DEF e
    <3>4. alerts \in Seq(ParsedAlerts)
        BY <3>1, AlertsAreCompleted
    <3>5. /\ ExternalEndpointWithDefaults(e) \in ParsedEndpoints
          /\ ExternalEndpointWithDefaults(e).alerts = alerts
      <4> HIDE DEF alerts
      <4> QED BY <3>1, <3>3, <3>4 DEF ParsedEndpoints
    <3>6. AlertsAreSound(ExternalEndpointWithDefaults(e))
        BY <3>1, <3>2, <3>5, AlertsAreCompleted DEF AlertsAreSound, All
    <3> QED BY <3>5, <3>6 DEF e
  <2>6. external = [i \in 1 .. Len(cfg.externalEndpoints) |-> ExternalEndpointWithDefaults(cfg.externalEndpoints[i])]
      BY DEF MapSeq
  <2>7. external \in Seq(ParsedEndpoints) /\ Len(external) = Len(cfg.externalEndpoints)
      BY <1>4, <2>5, MappedSeq DEF MapSeq
  <2> HIDE DEF endpoints, external
  <2>8. IsConfiguration(c) /\ c.endpoints = endpoints /\ c.externalEndpoints = external
      BY <1>3, <2>4, <2>7 DEF IsConfiguration, ParsedFiles
  <2> HIDE DEF c
  <2>9. TopLevelIsSound(c)
      BY <2>2, <2>3, <2>4, <2>5, <2>6, <2>7, <2>8 DEF TopLevelIsSound
  <2> QED BY <1>3, <2>1, <2>8, <2>9, AcceptanceKeeps
<1> QED BY <1>5, <1>6

\* A validator that does not change the configuration.
LEMMA CheckKeeps ==
    ASSUME ConfigurationInv, NEW v \in ToSet(Validators), At(v), NEW valid, AcceptIf(valid, cfg),
           validating \notin {3, 7, 10, 12, 14}, validating = 13 /\ valid => IsInjective(KeysOf(cfg))
    PROVE  ConfigurationInv'
<1>1. CASE ~valid
    BY <1>1, RejectionKeeps DEF AcceptIf
<1>2. CASE valid
  <2>1. Accept(cfg)
      BY <1>2 DEF AcceptIf
  <2> QED BY <1>2, <2>1, Established, AcceptanceKeeps
<1> QED BY <1>1, <1>2

LEMMA SectionKeeps == ASSUME ConfigurationInv, ValidateSection PROVE ConfigurationInv'
<1>1. PICK section \in Sections : At(section) /\ AcceptIf(section \notin cfg.invalidSections, cfg)
    BY Zenon DEF ValidateSection
<1>2. section \in ToSet(Validators)
    BY <1>1 DEF Sections, Validators, ToSet
<1>3. validating \notin {3, 7, 10, 12, 13, 14}
    BY <1>1, <1>2, StageIs DEF ConfigurationInv
<1> QED BY <1>1, <1>2, <1>3, CheckKeeps

LEMMA KeysKeep == ASSUME ConfigurationInv, ValidateUniqueKeys PROVE ConfigurationInv'
<1>1. At("keys") /\ AcceptIf(IsInjective(KeysOf(cfg)), cfg)
    BY DEF ValidateUniqueKeys
<1>2. "keys" \in ToSet(Validators)
    BY DEF ToSet, Validators
<1>3. validating = 13
    BY <1>1, <1>2, StageIs DEF ConfigurationInv
<1> QED BY <1>1, <1>2, <1>3, CheckKeeps

LEMMA StorageKeeps == ASSUME ConfigurationInv, ValidateStorageConfig PROVE ConfigurationInv'
<1> DEFINE type == OrDefault(cfg.storage.type, NoName, "memory")
           maximum == IF cfg.storage.maximum <= 0 THEN DefaultMaximum ELSE cfg.storage.maximum
           c == [cfg EXCEPT !.storage.type = type, !.storage.maximum = maximum]
           valid == /\ cfg.storage.type \in {"sqlite", "postgres"} => cfg.storage.path
                    /\ cfg.storage.type \in {NoName, "memory"} => ~cfg.storage.path
<1>1. At("storage") /\ AcceptIf(valid, c)
    BY Zenon DEF ValidateStorageConfig
<1>2. "storage" \in ToSet(Validators)
    BY DEF ToSet, Validators
<1>3. validating = 7 /\ loading = "validating" /\ IsConfiguration(cfg)
    BY <1>1, <1>2, StageIs DEF ConfigurationInv, ConfigurationTypeOK
<1>4. cfg.storage \in [type : StorageTypes, path : Flags, maximum : Int]
    BY <1>3, FileHas
<1>5. maximum \in Int /\ maximum >= 1 /\ type \in StorageTypes
  <2>1. cfg.storage.type \in StorageTypes /\ cfg.storage.maximum \in Int
      BY <1>4
  <2>2. type \in StorageTypes
    <3>1. type = cfg.storage.type \/ type = "memory"
        BY Zenon DEF OrDefault
    <3> HIDE DEF type
    <3> QED BY <2>1, <3>1 DEF StorageTypes
  <2>3. maximum \in Int /\ maximum >= 1
      BY <2>1 DEF DefaultMaximum
  <2> QED BY <2>2, <2>3
<1> HIDE DEF type, maximum, valid
<1>6. /\ IsConfiguration(c) /\ c.storage.maximum = maximum
      /\ c.endpoints = cfg.endpoints /\ c.externalEndpoints = cfg.externalEndpoints
    BY <1>3, <1>4, <1>5 DEF IsConfiguration, ParsedFiles
<1> HIDE DEF c
<1>7. TopLevelIsSound(c)
    BY <1>1, <1>2, <1>3, <1>6, Established, SameParts
<1>8. StorageIsBounded(c)
    BY <1>5, <1>6 DEF StorageIsBounded
<1>9. CASE valid
  <2>1. Accept(c)
      BY <1>1, <1>9 DEF AcceptIf
  <2> QED BY <1>3, <1>6, <1>7, <1>8, <2>1, AcceptanceKeeps
<1>10. CASE ~valid
    BY <1>1, <1>10, RejectionKeeps DEF AcceptIf
<1> QED BY <1>9, <1>10

LEMMA TunnelingKeeps == ASSUME ConfigurationInv, ValidateTunnelingConfig PROVE ConfigurationInv'
<1> DEFINE endpoints == MapSeq(cfg.endpoints, Resolve)
           suites == MapSeq(cfg.suites, WithTunnels)
           c == [cfg EXCEPT !.endpoints = endpoints, !.suites = suites]
           valid == /\ "invalid" \notin cfg.tunnels
                    /\ EveryEndpoint(cfg, LAMBDA e : e.tunnel.name \in cfg.tunnels \union {NoName})
<1>1. At("tunneling") /\ IF cfg.tunnels = {} THEN Accept(cfg) ELSE AcceptIf(valid, c)
    BY Zenon DEF ValidateTunnelingConfig
<1>2. "tunneling" \in ToSet(Validators)
    BY DEF ToSet, Validators
<1>3. validating = 10 /\ loading = "validating" /\ IsConfiguration(cfg)
    BY <1>1, <1>2, StageIs DEF ConfigurationInv, ConfigurationTypeOK
<1>4. TopLevelIsSound(cfg) /\ StorageIsBounded(cfg)
    BY <1>1, <1>2, <1>3, Established
<1>5. /\ cfg.endpoints \in Seq(ParsedEndpoints) /\ cfg.suites \in Seq(ParsedSuites)
      /\ cfg.externalEndpoints \in Seq(ParsedEndpoints)
    BY <1>3, FileHas
<1>6. CASE cfg.tunnels = {}
  <2>1. TunnelsAreResolved(cfg)
      BY <1>6 DEF TunnelsAreResolved, HasItsTunnel
  <2> QED BY <1>1, <1>3, <1>4, <1>6, <2>1, AcceptanceKeeps
<1>7. CASE cfg.tunnels # {} /\ ~valid
    BY <1>1, <1>7, RejectionKeeps DEF AcceptIf
<1>8. CASE cfg.tunnels # {} /\ valid
  <2>1. Accept(c)
      BY <1>1, <1>8 DEF AcceptIf
  <2>2. \A i \in 1 .. Len(cfg.endpoints) : cfg.endpoints[i] \in ParsedEndpoints
      BY <1>5, ElementOfSeq
  <2>3. \A i \in 1 .. Len(cfg.suites) : cfg.suites[i] \in ParsedSuites
      BY <1>5, ElementOfSeq
  <2>4. \A i \in 1 .. Len(cfg.suites) : \A j \in 1 .. Len(cfg.suites[i].endpoints) :
            cfg.suites[i].endpoints[j] \in ParsedEndpoints
      BY <2>3, SuiteHas, ElementOfSeq
  <2>5. endpoints = [i \in 1 .. Len(cfg.endpoints) |-> Resolve(cfg.endpoints[i])]
      BY DEF MapSeq
  <2>6. endpoints \in Seq(ParsedEndpoints) /\ Len(endpoints) = Len(cfg.endpoints)
      BY <1>5, <2>2, EndpointIsResolved, MappedSeq DEF MapSeq
  <2>7. suites = [i \in 1 .. Len(cfg.suites) |-> WithTunnels(cfg.suites[i])]
      BY DEF MapSeq
  <2>8. suites \in Seq(ParsedSuites) /\ Len(suites) = Len(cfg.suites)
      BY <1>5, <2>3, SuiteIsResolved, MappedSeq DEF MapSeq
  <2>9. /\ \A i \in 1 .. Len(cfg.endpoints) : cfg.endpoints[i].tunnel.name \in cfg.tunnels \union {NoName}
        /\ \A i \in 1 .. Len(cfg.suites) : \A j \in 1 .. Len(cfg.suites[i].endpoints) :
               cfg.suites[i].endpoints[j].tunnel.name \in cfg.tunnels \union {NoName}
      BY <1>8 DEF EveryEndpoint, All
  <2> HIDE DEF endpoints, suites, valid
  <2>10. /\ IsConfiguration(c) /\ c.endpoints = endpoints /\ c.suites = suites
         /\ c.externalEndpoints = cfg.externalEndpoints /\ c.storage = cfg.storage
         /\ c.tunnels = cfg.tunnels
      BY <1>3, <2>6, <2>8 DEF IsConfiguration, ParsedFiles
  <2> HIDE DEF c
  <2>11. ASSUME NEW e \in ParsedEndpoints, e.tunnel.name \in cfg.tunnels \union {NoName}
         PROVE  HasItsTunnel(c, Resolve(e))
      BY <2>10, <2>11, EndpointIsResolved DEF HasItsTunnel
  <2>12. TunnelsAreResolved(c)
    <3>1. ASSUME NEW i \in 1 .. Len(c.endpoints) PROVE HasItsTunnel(c, c.endpoints[i])
        BY <2>2, <2>5, <2>6, <2>9, <2>10, <2>11
    <3>2. ASSUME NEW i \in 1 .. Len(c.suites), NEW j \in 1 .. Len(c.suites[i].endpoints)
          PROVE  HasItsTunnel(c, c.suites[i].endpoints[j])
      <4>1. i \in 1 .. Len(cfg.suites) /\ c.suites[i] = WithTunnels(cfg.suites[i])
          BY <2>7, <2>8, <2>10
      <4>2. /\ j \in 1 .. Len(cfg.suites[i].endpoints)
            /\ c.suites[i].endpoints[j] = Resolve(cfg.suites[i].endpoints[j])
          BY <2>3, <4>1, SuiteIsResolved
      <4> QED BY <2>4, <2>9, <2>11, <4>1, <4>2
    <3> QED BY <3>1, <3>2 DEF TunnelsAreResolved
  <2>13. TopLevelIsSound(c)
    <3>1. ASSUME NEW i \in 1 .. Len(c.endpoints) PROVE EndpointIsSound(c.endpoints[i])
      <4>1. i \in 1 .. Len(cfg.endpoints) /\ c.endpoints[i] = Resolve(cfg.endpoints[i])
          BY <2>5, <2>6, <2>10
      <4>2. EndpointIsSound(cfg.endpoints[i])
          BY <1>4, <4>1 DEF TopLevelIsSound
      <4> QED BY <2>2, <4>1, <4>2, EndpointIsResolved
    <3> QED BY <1>4, <2>10, <3>1 DEF TopLevelIsSound
  <2>14. StorageIsBounded(c)
      BY <1>4, <2>10 DEF StorageIsBounded
  <2> QED BY <1>3, <2>1, <2>10, <2>12, <2>13, <2>14, AcceptanceKeeps
<1> QED BY <1>6, <1>7, <1>8

LEMMA AnnouncementsKeep == ASSUME ConfigurationInv, ValidateAnnouncementsConfig PROVE ConfigurationInv'
<1> DEFINE sorted == SortSeq(cfg.announcements, LAMBDA a, b : a.timestamp > b.timestamp)
           c == [cfg EXCEPT !.announcements = sorted]
           valid == All(cfg.announcements, LAMBDA a : a.timestamp # 0 /\ a.valid)
<1>1. At("announcements") /\ AcceptIf(valid, c)
    BY Zenon DEF ValidateAnnouncementsConfig
<1> HIDE DEF sorted, valid
<1>2. "announcements" \in ToSet(Validators)
    BY DEF ToSet, Validators
<1>3. validating = 11 /\ loading = "validating" /\ IsConfiguration(cfg)
    BY <1>1, <1>2, StageIs DEF ConfigurationInv, ConfigurationTypeOK
<1>4. /\ IsConfiguration(c) /\ c.storage = cfg.storage /\ c.tunnels = cfg.tunnels
      /\ c.endpoints = cfg.endpoints /\ c.externalEndpoints = cfg.externalEndpoints
      /\ c.suites = cfg.suites
    BY <1>3 DEF IsConfiguration, ParsedFiles
<1> HIDE DEF c
<1>5. TopLevelIsSound(c) /\ StorageIsBounded(c) /\ TunnelsAreResolved(c)
    BY <1>1, <1>2, <1>3, <1>4, Established, SameParts
<1>6. CASE valid
  <2>1. Accept(c)
      BY <1>1, <1>6 DEF AcceptIf
  <2> QED BY <1>3, <1>4, <1>5, <2>1, AcceptanceKeeps
<1>7. CASE ~valid
    BY <1>1, <1>7, RejectionKeeps DEF AcceptIf
<1> QED BY <1>6, <1>7

LEMMA SuitesKeep == ASSUME ConfigurationInv, ValidateSuitesConfig PROVE ConfigurationInv'
<1> DEFINE suites == MapSeq(cfg.suites, SuiteWithDefaults)
           c == [cfg EXCEPT !.suites = suites]
           valid == /\ IsInjective(MapSeq(cfg.suites, LAMBDA s : s.name))
                    /\ All(cfg.suites, SuiteIsValid)
<1>1. At("suites") /\ AcceptIf(valid, c)
    BY Zenon DEF ValidateSuitesConfig
<1>2. valid => \A i \in 1 .. Len(cfg.suites) : SuiteIsValid(cfg.suites[i])
    BY Zenon DEF All
<1>3. suites = [i \in 1 .. Len(cfg.suites) |-> SuiteWithDefaults(cfg.suites[i])]
    BY DEF MapSeq
<1> HIDE DEF valid, suites
<1>4. "suites" \in ToSet(Validators)
    BY DEF ToSet, Validators
<1>5. validating = 12 /\ loading = "validating" /\ IsConfiguration(cfg)
    BY <1>1, <1>4, StageIs DEF ConfigurationInv, ConfigurationTypeOK
<1>6. TopLevelIsSound(cfg) /\ StorageIsBounded(cfg) /\ TunnelsAreResolved(cfg)
    BY <1>1, <1>4, <1>5, Established
<1>7. CASE ~valid
    BY <1>1, <1>7, RejectionKeeps DEF AcceptIf
<1>8. CASE valid
  <2>1. Accept(c)
      BY <1>1, <1>8 DEF AcceptIf
  <2>2. cfg.suites \in Seq(ParsedSuites)
      BY <1>5, FileHas
  <2>3. \A i \in 1 .. Len(cfg.suites) : cfg.suites[i] \in ParsedSuites
      BY <2>2, ElementOfSeq
  <2>4. suites \in Seq(ParsedSuites) /\ Len(suites) = Len(cfg.suites)
    <3>1. suites = [i \in 1 .. Len(cfg.suites) |-> suites[i]]
        BY <1>3, Zenon
    <3>2. \A i \in 1 .. Len(cfg.suites) : suites[i] \in ParsedSuites
        BY <1>3, <2>3, SuiteIsCompleted
    <3> QED BY <2>2, <3>1, <3>2, MappedSeq
  <2>5. /\ IsConfiguration(c) /\ c.suites = suites /\ c.endpoints = cfg.endpoints
        /\ c.externalEndpoints = cfg.externalEndpoints /\ c.storage = cfg.storage
        /\ c.tunnels = cfg.tunnels
      BY <1>5, <2>4 DEF IsConfiguration, ParsedFiles
  <2> HIDE DEF c
  <2>6. TopLevelIsSound(c) /\ StorageIsBounded(c)
      BY <1>6, <2>5, SameParts
  <2>7. ASSUME NEW i \in 1 .. Len(c.suites), NEW j \in 1 .. Len(c.suites[i].endpoints)
        PROVE  /\ HasItsTunnel(c, c.suites[i].endpoints[j])
               /\ EndpointIsSound(c.suites[i].endpoints[j])
               /\ c.suites[i].endpoints[j].group = c.suites[i].group
    <3> DEFINE s == cfg.suites[i]
               e == c.suites[i].endpoints[j]
    <3>1. i \in 1 .. Len(cfg.suites) /\ c.suites[i] = SuiteWithDefaults(s)
        BY <1>3, <2>4, <2>5
    <3>2. s \in ParsedSuites /\ SuiteIsValid(s)
        BY <1>2, <1>8, <2>3, <3>1
    <3>3. /\ j \in 1 .. Len(s.endpoints) /\ e.group = s.group
          /\ SuiteWithDefaults(s).group = s.group
          /\ e.tunnel = s.endpoints[j].tunnel /\ EndpointIsSound(e)
        BY <3>1, <3>2, SuiteIsCompleted
    <3>4. HasItsTunnel(cfg, s.endpoints[j])
        BY <1>6, <3>1, <3>3 DEF TunnelsAreResolved
    <3>5. HasItsTunnel(c, e)
      <4> HIDE DEF e, s
      <4> QED BY <2>5, <3>3, <3>4 DEF HasItsTunnel
    <3> QED BY <3>1, <3>3, <3>5
  <2>8. SuitesAreSound(c)
      BY <2>7 DEF SuitesAreSound
  <2>9. TunnelsAreResolved(c)
    <3>1. \A i \in 1 .. Len(c.endpoints) : HasItsTunnel(c, c.endpoints[i])
        BY <1>6, <2>5 DEF TunnelsAreResolved, HasItsTunnel
    <3> QED BY <2>7, <3>1 DEF TunnelsAreResolved
  <2> QED BY <1>5, <2>1, <2>5, <2>6, <2>8, <2>9, AcceptanceKeeps
<1> QED BY <1>7, <1>8

LEMMA ConcurrencyKeeps ==
    ASSUME ConfigurationInv, ValidateAndSetConcurrencyDefaults PROVE ConfigurationInv'
<1> DEFINE concurrency == IF cfg.disableMonitoringLock THEN 0
                          ELSE IF cfg.concurrency <= 0 THEN 3 ELSE cfg.concurrency
           c == [cfg EXCEPT !.concurrency = concurrency, !.shownResults = cfg.storage.maximum]
<1>1. At("concurrency") /\ Accept(c)
    BY Zenon DEF ValidateAndSetConcurrencyDefaults
<1>2. "concurrency" \in ToSet(Validators)
    BY DEF ToSet, Validators
<1>3. validating = 14 /\ loading = "validating" /\ IsConfiguration(cfg)
    BY <1>1, <1>2, StageIs DEF ConfigurationInv, ConfigurationTypeOK
<1>4. /\ TopLevelIsSound(cfg) /\ StorageIsBounded(cfg) /\ TunnelsAreResolved(cfg)
      /\ SuitesAreSound(cfg) /\ IsInjective(KeysOf(cfg))
    BY <1>1, <1>2, <1>3, Established
<1>5. cfg.concurrency \in Int /\ cfg.storage.maximum \in Int
  <2>1. cfg.storage \in [type : StorageTypes, path : Flags, maximum : Int]
      BY <1>3, FileHas
  <2> QED BY <1>3, <2>1, FileHas
<1>6. concurrency \in Int /\ concurrency \in Nat
    BY <1>5
<1> HIDE DEF concurrency
<1>7. /\ IsConfiguration(c) /\ c.endpoints = cfg.endpoints /\ c.suites = cfg.suites
      /\ c.externalEndpoints = cfg.externalEndpoints /\ c.storage = cfg.storage
      /\ c.tunnels = cfg.tunnels /\ c.disableMonitoringLock = cfg.disableMonitoringLock
      /\ c.concurrency = concurrency /\ c.shownResults = cfg.storage.maximum
    BY <1>3, <1>5, <1>6 DEF IsConfiguration, ParsedFiles
<1> HIDE DEF c
<1>8. /\ TopLevelIsSound(c) /\ StorageIsBounded(c) /\ TunnelsAreResolved(c)
      /\ SuitesAreSound(c) /\ IsInjective(KeysOf(c))
    BY <1>4, <1>7, SameParts
<1>9. LimitsAreRight(c)
    BY <1>6, <1>7 DEF LimitsAreRight
<1> QED BY <1>1, <1>3, <1>7, <1>8, <1>9, AcceptanceKeeps

LEMMA ConfigurationInitEstablishes == ConfigurationInit => ConfigurationInv
<1> SUFFICES ASSUME ConfigurationInit PROVE ConfigurationInv
    OBVIOUS
<1>1. IsConfiguration(file) /\ cfg = file
    BY ConfigurationAssumption DEF ConfigurationAssumption, ConfigurationInit, IsConfiguration, ParsedFiles
<1>2. validating = 1 /\ loading \in {"validating", "rejected"}
    BY DEF ConfigurationInit
<1>3. \A n \in 1 .. 14 : ~Past(n)
    BY <1>2 DEF Past
<1>4. ConfigurationTypeOK
    BY <1>1, <1>2 DEF ConfigurationTypeOK, Validators
<1> QED BY <1>3, <1>4 DEF ConfigurationInv

LEMMA ConfigurationNextKeeps ==
    ConfigurationInv /\ [ConfigurationNext]_configurationVars => ConfigurationInv'
<1> SUFFICES ASSUME ConfigurationInv, [ConfigurationNext]_configurationVars
             PROVE  ConfigurationInv'
    OBVIOUS
<1>1. CASE UNCHANGED configurationVars
  <2>1. cfg' = cfg /\ file' = file /\ validating' = validating /\ loading' = loading
      BY <1>1 DEF configurationVars
  <2> QED BY <2>1 DEF ConfigurationInv, ConfigurationTypeOK, IsConfiguration, Past
<1> QED BY <1>1, AlertingKeeps, EndpointsKeep, SectionKeeps, StorageKeeps, TunnelingKeeps,
           AnnouncementsKeep, SuitesKeep, KeysKeep, ConcurrencyKeeps DEF ConfigurationNext

LEMMA UsedConfigurationsHold == ConfigurationInv => LoadedConfigurationHolds
<1> SUFFICES ASSUME ConfigurationInv, loading = "loaded" PROVE LoadedConfigurationHolds
    BY DEF LoadedConfigurationHolds
<1>1. /\ TopLevelIsSound(cfg) /\ StorageIsBounded(cfg) /\ TunnelsAreResolved(cfg)
      /\ SuitesAreSound(cfg) /\ IsInjective(KeysOf(cfg)) /\ LimitsAreRight(cfg)
    BY DEF ConfigurationInv, Past
<1>2. EveryEndpoint(cfg, LAMBDA e : AlertsAreSound(e) /\ IsReady(e) /\ HasItsTunnel(cfg, e))
    BY <1>1 DEF EveryEndpoint, All, TopLevelIsSound, TunnelsAreResolved, SuitesAreSound, EndpointIsSound
<1>3. All(cfg.externalEndpoints, AlertsAreSound)
    BY <1>1 DEF All, TopLevelIsSound
<1>4. \A i \in 1 .. Len(cfg.suites) :
          All(cfg.suites[i].endpoints, LAMBDA e : e.group = cfg.suites[i].group)
    BY <1>1 DEF All, SuitesAreSound
<1>5. /\ cfg.concurrency >= 0
      /\ cfg.storage.maximum >= 1 /\ cfg.shownResults = cfg.storage.maximum
    BY <1>1 DEF LimitsAreRight, StorageIsBounded
<1> QED BY <1>1, <1>2, <1>3, <1>4, <1>5, Zenon DEF LoadedConfigurationHolds

(* Whatever is written, a file that no validator rejects becomes a
   configuration the rest of the program can rely on: unique keys, sound
   alerts, tunnels that exist, limits that are set. *)
THEOREM UsedConfigurationsAlwaysHold == ConfigurationSpec => []LoadedConfigurationHolds
BY ConfigurationInitEstablishes, ConfigurationNextKeeps, UsedConfigurationsHold, PTL DEF ConfigurationSpec

(* Validation keeps the types of a file. *)
THEOREM ConfigurationTypeCorrect == ConfigurationSpec => []ConfigurationTypeOK
<1>1. ConfigurationInv => ConfigurationTypeOK
    BY DEF ConfigurationInv
<1> QED BY <1>1, ConfigurationInitEstablishes, ConfigurationNextKeeps, PTL DEF ConfigurationSpec
=============================================================================
