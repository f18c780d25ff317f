-------------------------------- MODULE Uptime --------------------------------
(***************************************************************************)
(* Uptime statistics of one endpoint, as both kinds of store keep them:    *)
(* counts of results per hour.  The SQL stores merge the hours of past     *)
(* days into one entry stamped at the start of its day, and both delete    *)
(* what has become too old.  Their statements may fail, which is logged,   *)
(* and what the others did is committed (with Postgres, nothing is, nor is *)
(* the result).  Time is counted in hours; "now" is the start of an hour   *)
(* (sharp) or strictly inside it, which is all the comparisons with hourly *)
(* timestamps can tell apart.  Response times are summed by the same       *)
(* statements as the counts.                                               *)
(***************************************************************************)
EXTENDS Integers, FiniteSetsExt

CONSTANTS
    HoursPerDay,      \* 24
    HourlyBuffer,     \* uptimeHourlyBuffer: 2 days
    Retention,        \* uptimeRetention: 30 days
    AgeCleanUp,       \* SQL: uptimeAgeCleanUpThreshold, 32 days
    KeysCleanUp,      \* memory: uptimeCleanUpThreshold, as many hours as 32 days have
    MergeThreshold,   \* uptimeTotalEntriesMergeThreshold: 100 entries
    MaxHour,          \* bound: the last hour of the observation
    MaxPerHour,       \* bound: number of results in an hour
    MaxObserved       \* bound: number of hours with a result

\* The buffer keeps the last day from being merged.
ASSUME UptimeAssumption ==
    /\ HoursPerDay \in Nat \ {0} /\ {HourlyBuffer, Retention, MaxHour} \subseteq Nat
    /\ HoursPerDay <= HourlyBuffer

VARIABLES
    hour,              \* the hour it is
    sharp,             \* is it the very start of that hour?
    uptimeEntries,     \* SQL: table endpoint_uptimes
    hourlyStatistics,  \* memory: endpoint.Uptime.HourlyStatistics
    observed,          \* ghost: what the results really were, hour by hour
    updated,           \* ghost: those of them the table was updated with
    lostDays           \* ghost: days whose sums a merge failed to insert

uptimeVars == <<hour, sharp, uptimeEntries, hourlyStatistics, observed, updated, lostDays>>

ObservedHours == 0 .. MaxHour
Nothing == [total |-> 0, successful |-> 0]   \* no entry: an entry counts at least one result
Counts == [ObservedHours -> [total : Nat, successful : Nat]]

UptimeTypeOK ==
    /\ hour \in ObservedHours /\ sharp \in BOOLEAN
    /\ {uptimeEntries, hourlyStatistics, observed, updated} \subseteq Counts
    /\ lostDays \subseteq ObservedHours

UptimeInit ==
    /\ hour = 0 /\ sharp = TRUE
    /\ LET none == [t \in ObservedHours |-> Nothing]
       IN  uptimeEntries = none /\ hourlyStatistics = none /\ observed = none /\ updated = none
    /\ lostDays = {}

-----------------------------------------------------------------------------
Entries(counts) == {t \in ObservedHours : counts[t].total > 0}
SumOver(counts, hours) ==
    [total |-> MapThenSumSet(LAMBDA t : counts[t].total, hours),
     successful |-> MapThenSumSet(LAMBDA t : counts[t].successful, hours)]
DeletedBefore(counts, threshold) ==
    [t \in ObservedHours |-> IF t < threshold THEN Nothing ELSE counts[t]]

DayStart(t) == t - (t % HoursPerDay)

\* The first hourly timestamp that is not before now minus a duration.
Since(duration) == hour - duration + IF sharp THEN 0 ELSE 1

\* updateEndpointUptime, and the beginning of processUptimeAfterResult.
Incremented(counts, success) ==
    [counts EXCEPT ![hour] = [total |-> @.total + 1,
                              successful |-> @.successful + IF success THEN 1 ELSE 0]]

\* Slip: all days but today are merged.
MergeableWithoutBuffer == DayStart(hour)

\* minThreshold of the merge: entries before it may be merged.
MergeableBefore == DayStart(hour - HourlyBuffer)

\* mergeHourlyUptimeEntriesOlderThanMergeThresholdIntoDailyUptimeEntries: what
\* is retained is summed by day, everything mergeable is deleted, and the
\* sums are inserted at the start of their days, possibly out of retention, in
\* the order of a map until an insertion fails.
ToMerge(counts) == {t \in Entries(counts) : t >= Since(Retention) /\ t < MergeableBefore}
Merged(counts, failed) ==
    [t \in ObservedHours |->
        IF t < MergeableBefore
        THEN SumOver(counts, {u \in ToMerge(counts) : DayStart(u) = t /\ t \notin failed})
        ELSE counts[t]]

\* What of updateEndpointUptime, the merge (from counting the entries to deleting
\* them) and deleteOldUptimeEntries (from looking up the age) does not fail.
UptimeStatements == {"update", "merge", "delete"}
Updated(counts, success, done) ==
    IF "update" \in done THEN Incremented(counts, success) ELSE counts
DaysMerged(counts, done) ==
    IF "merge" \in done /\ Cardinality(Entries(counts)) >= MergeThreshold
    THEN {DayStart(t) : t \in ToMerge(counts)} ELSE {}

\* InsertEndpointResult, from updateEndpointUptime to deleteOldUptimeEntries.
SqlUptimeAfter(counts, success, done, failed) ==
    LET counted == Updated(counts, success, done)
        merged == IF "merge" \in done /\ Cardinality(Entries(counted)) >= MergeThreshold
                  THEN Merged(counted, failed) ELSE counted
    IN  IF "delete" \in done /\ \E t \in Entries(merged) : t < Since(AgeCleanUp)
        THEN DeletedBefore(merged, Since(Retention + 1)) ELSE merged

\* processUptimeAfterResult
MemoryUptimeAfter(counts, success) ==
    LET counted == Incremented(counts, success) IN
    IF Cardinality(Entries(counted)) > KeysCleanUp
    THEN DeletedBefore(counted, Since(Retention + 1)) ELSE counted

\* A result is inserted in the hour it was taken; the memory store cannot fail.
ObserveResult(success, done, failed) ==
    /\ observed[hour].total < MaxPerHour
    /\ observed[hour].total = 0 => Cardinality(Entries(observed)) < MaxObserved
    /\ uptimeEntries' = SqlUptimeAfter(uptimeEntries, success, done, failed)
    /\ hourlyStatistics' = MemoryUptimeAfter(hourlyStatistics, success)
    /\ observed' = Incremented(observed, success)
    /\ updated' = Updated(updated, success, done)
    /\ lostDays' = lostDays \union failed
    /\ UNCHANGED <<hour, sharp>>

TimePasses ==
    /\ \/ sharp /\ sharp' = FALSE /\ UNCHANGED hour
       \/ ~sharp /\ hour < MaxHour /\ hour' = hour + 1 /\ sharp' = TRUE
    /\ UNCHANGED <<uptimeEntries, hourlyStatistics, observed, updated, lostDays>>

UptimeNext ==
    \/ TimePasses
    \/ \E success \in BOOLEAN, done \in SUBSET UptimeStatements :
          \E failed \in SUBSET DaysMerged(Updated(uptimeEntries, success, done), done) :
             ObserveResult(success, done, failed)

UptimeSpec == UptimeInit /\ [][UptimeNext]_uptimeVars

-----------------------------------------------------------------------------
\* getEndpointUptime, from a duration ago until now; memory.GetUptimeByKey
\* counts the hour the range begins in as well.
SqlUptime(duration) ==
    SumOver(uptimeEntries, {t \in ObservedHours : t >= Since(duration) /\ t <= hour})
MemoryUptime(duration) ==
    SumOver(hourlyStatistics, {t \in ObservedHours : t >= hour - duration /\ t <= hour})

(* However results, merges and clean-ups alternate, the memory store is exact for
   every range that is retained.  The SQL stores never count a result twice or
   for a range it is not in, whatever statements fail.  Of the results the table
   was updated with, they miss none of the last day, even when a merge fails
   half-way, and over longer ranges at most the hours of the day in which the
   range begins and the days whose sums a merge failed to insert. *)
UptimeCountsResults ==
    Entries(observed) # {} => \A duration \in 1 .. Retention :
        LET inRange == {t \in 0 .. hour : t >= Since(duration)}
            wholeDays == {t \in inRange : DayStart(t) >= Since(duration)}
            counted == SqlUptime(duration)
            most == SumOver(updated, inRange)
            least == SumOver(updated, IF duration <= HoursPerDay THEN inRange
                                      ELSE {t \in wholeDays : DayStart(t) \notin lostDays})
        IN  /\ MemoryUptime(duration)
                 = SumOver(observed, {t \in 0 .. hour : t >= hour - duration})
            /\ counted.total \in least.total .. most.total
            /\ counted.successful \in least.successful .. most.successful
=============================================================================
