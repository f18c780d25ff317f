------------------------------ MODULE Maintenance -----------------------------
(***************************************************************************)
(* config/maintenance: whether a moment lies in a maintenance window.      *)
(* Days, hours and minutes are as many as the constants say, so that every *)
(* window can be tried at every minute of a week; the time is strictly     *)
(* inside its minute.  The time zone has no changes of the clock.          *)
(***************************************************************************)
EXTENDS Integers

CONSTANTS MinutesPerHour, HoursInADay, DaysPerWeek

ASSUME MaintenanceAssumption == {MinutesPerHour, HoursInADay, DaysPerWeek} \subseteq Nat \ {0}

VARIABLES
    window,   \* a maintenance.Config that was validated
    minute    \* time.Now() in its time zone, since the beginning of some week

maintenanceVars == <<window, minute>>

DayLength == HoursInADay * MinutesPerHour
Week == DayLength * DaysPerWeek

\* Windows as they can be written: hours and minutes out of range, days that do
\* not exist (-1), durations of nothing or of more than a day.
WrittenWindows ==
    [enabled : BOOLEAN, hours : 0 .. HoursInADay, minutes : 0 .. MinutesPerHour,
     duration : 0 .. DayLength + 1, every : SUBSET (-1 .. DaysPerWeek - 1)]

\* hhmmToDuration
StartFromMidnight(w) == w.hours * MinutesPerHour + w.minutes

\* ValidateAndSetDefaults, which looks at enabled windows only.
WindowIsValid(w) ==
    w.enabled =>
        /\ w.every \subseteq 0 .. DaysPerWeek - 1
        /\ w.hours < HoursInADay /\ w.minutes < MinutesPerHour
        /\ w.duration \in 1 .. DayLength

MaintenanceInit ==
    /\ window \in {w \in WrittenWindows : w.enabled /\ WindowIsValid(w)}
    /\ minute = Week   \* the windows of a whole week lie before

MaintenanceNext == minute < 2 * Week - 1 /\ minute' = minute + 1 /\ UNCHANGED window

MaintenanceSpec == MaintenanceInit /\ [][MaintenanceNext]_maintenanceVars

-----------------------------------------------------------------------------
HourOf(m) == (m % DayLength) \div MinutesPerHour

\* Slip: the window of today, although it may have begun yesterday.
DayOfNow(w, m) == m \div DayLength

\* adjustedDate: a window that starts in a later hour is yesterday's.
DayOfWindow(w, m) ==
    IF HourOf(m) < StartFromMidnight(w) \div MinutesPerHour THEN m \div DayLength - 1 ELSE m \div DayLength

IsUnderMaintenance(w, m) ==
    LET day == DayOfWindow(w, m)
        start == day * DayLength + StartFromMidnight(w)
    IN  /\ w.enabled
        /\ w.every = {} \/ day % DaysPerWeek \in w.every
        /\ m >= start /\ m < start + w.duration

(* Alerts are held back exactly during the scheduled windows, also when one
   goes past midnight into a day that is not scheduled; but in the hour in which
   a window starts and before its minute, a window that still lasts from the day
   before counts as over. *)
MaintenanceIsAsScheduled ==
    LET scheduled(day) == window.every = {} \/ day % DaysPerWeek \in window.every
        covered == \E day \in 0 .. 2 * DaysPerWeek - 1 :
                      LET start == day * DayLength + StartFromMidnight(window)
                      IN  scheduled(day) /\ minute \in start .. start + window.duration - 1
        stillTheHourBefore == /\ HourOf(minute) = window.hours
                              /\ minute % MinutesPerHour < window.minutes
    IN  IsUnderMaintenance(window, minute) <=> covered /\ ~stillTheHourBefore
=============================================================================
