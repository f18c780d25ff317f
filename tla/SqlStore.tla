------------------------------- MODULE SqlStore -------------------------------
(***************************************************************************)
(* storage/store/sql: the tables of endpoints, results and events, the     *)
(* transactions that insert a result and read a status, and the write-     *)
(* through cache in front of them.                                         *)
(*                                                                         *)
(* With SQLite the pool has one connection (SetMaxOpenConns(1)), so that a *)
(* transaction waits for the one before; with Postgres transactions run at *)
(* the same time, each statement seeing what is committed when it runs and *)
(* what its own transaction wrote.  The cache is outside the database: it  *)
(* is neither isolated nor rolled back.                                    *)
(***************************************************************************)
EXTENDS Status

CONSTANTS
    Writers,           \* goroutines inserting results: monitors, heartbeats, requests
    Readers,           \* requests reading statuses
    Sizes,             \* page sizes the readers ask for, of page 1
    Hours,             \* hours in which a result may have been taken
    RefreshedWith,     \* endpoints whose cache keys match the pattern e*
    Slack,             \* results- and eventsAboveMaximumCleanUpThreshold
    StatementMayFail,  \* may a statement, a query or a commit fail?
    MaxRows            \* bound: number of results inserted by the evaluations

\* The maxima are cleaned up to with a positive slack, requests ask for pages of
\* at least one entry, and the key of an endpoint matches its own pattern.
ASSUME SqlStoreAssumption ==
    /\ Endpoints # {} /\ Sizes # {} /\ Sizes \subseteq Nat \ {0}
    /\ Slack \in Nat
    /\ RefreshedWith \in [Endpoints -> SUBSET Endpoints]
    /\ \A e \in Endpoints : e \in RefreshedWith[e]

VARIABLES
    driver,     \* "sqlite" or "postgres"
    endpoints,  \* table endpoints: the id of an endpoint's row, 0 for no row
    rows,       \* table endpoint_results, per endpoint
    eventRows,  \* table endpoint_events, per endpoint
    cache,      \* writeThroughCache: per endpoint and page size
    tx,         \* the insertion each writer is in
    reading,    \* what each reader has read and not yet put into the cache
    wiping,     \* a deletion has deleted rows and not yet wiped the cache
    sequence,   \* the last id given to a row
    taken,      \* ghost: every result committed for the endpoint's row
    faulty,     \* ghost: endpoints with a statement that failed and was only logged
    lost        \* ghost: endpoints whose last insertion was not committed

sqlVars == <<driver, endpoints, rows, eventRows, cache, tx, reading, wiping,
             sequence, taken, faulty, lost>>

EventRow == [id : Nat, type : EventType]
Queries == {"endpoint", "events", "results"}
None == [results |-> <<>>, events |-> <<>>, found |-> FALSE, missing |-> {}]
\* missing is a ghost: the queries that failed when the status was read.
Answer == [results : Seq(Result), events : Seq(EventType), found : BOOLEAN,
           missing : SUBSET Queries]
Steps == {"idle", "create", "write", "uptime", "refresh", "fill", "commit"}
Idle == [at |-> "idle", key |-> CHOOSE e \in Endpoints : TRUE, success |-> FALSE,
         hour |-> 0, id |-> 0, created |-> FALSE, newRows |-> {}, newEvents |-> {},
         oldRows |-> {}, oldEvents |-> {}, todo |-> {}, now |-> {}, aborted |-> FALSE]

SqlTypeOK ==
    /\ driver \in {"sqlite", "postgres"}
    /\ endpoints \in [Endpoints -> Nat]
    /\ \A e \in Endpoints : rows[e] \subseteq Result /\ eventRows[e] \subseteq EventRow
    /\ cache \in [Endpoints \X Sizes -> Answer]
    /\ \A w \in Writers : tx[w].at \in Steps /\ tx[w].key \in Endpoints
    /\ \A r \in Readers : reading[r].busy \in BOOLEAN /\ reading[r].answer \in Answer
    /\ wiping \in BOOLEAN
    /\ sequence \in Nat
    /\ \A e \in Endpoints : taken[e] \subseteq Result
    /\ faulty \in SUBSET Endpoints /\ lost \in SUBSET Endpoints

SqlInit ==
    /\ driver \in {"sqlite", "postgres"}
    /\ endpoints = [e \in Endpoints |-> 0]
    /\ rows = [e \in Endpoints |-> {}]
    /\ eventRows = [e \in Endpoints |-> {}]
    /\ cache = [p \in Endpoints \X Sizes |-> None]
    /\ tx = [w \in Writers |-> Idle]
    /\ reading = [r \in Readers |-> [busy |-> FALSE, page |-> CHOOSE p \in Endpoints \X Sizes : TRUE,
                                     answer |-> None]]
    /\ wiping = FALSE
    /\ sequence = 0
    /\ taken = [e \in Endpoints |-> {}]
    /\ faulty = {}
    /\ lost = {}

-----------------------------------------------------------------------------
(* Tables as a transaction t sees them: what is committed and its own.     *)

ById(S) ==
    [i \in 1 .. Cardinality(S) |->
        CHOOSE r \in S : Cardinality({s \in S : s.id < r.id}) = i - 1]
Uncommitted(t, e) == t.at # "idle" /\ t.key = e

RowsSeenBy(t, e) ==
    IF Uncommitted(t, e) THEN (rows[e] \ t.oldRows) \union t.newRows ELSE rows[e]
EventsSeenBy(t, e) ==
    IF Uncommitted(t, e) THEN (eventRows[e] \ t.oldEvents) \union t.newEvents ELSE eventRows[e]
ExistsFor(t, e) == endpoints[e] # 0 \/ (Uncommitted(t, e) /\ t.created)

\* Slips: LIMIT max - 1; the threshold of the clean-up used as its LIMIT.
AllButOneLess(S, max) == {r \in S : Cardinality({s \in S : s.id > r.id}) >= max - 1}
AllButThreshold(S, max) ==
    {r \in S : Cardinality({s \in S : s.id > r.id}) >= max + Slack + 1}

\* The rows the two DELETE ... NOT IN (... ORDER BY id DESC LIMIT max) remove.
AllButMostRecent(S, max) == {r \in S : Cardinality({s \in S : s.id > r.id}) >= max}

\* The queries of a read that fail: after that of the row nothing is read, and
\* with Postgres no query after one that failed returns anything.
QueryFailures ==
    IF ~StatementMayFail THEN {{}}
    ELSE {{}, {"endpoint"}, {"results"}, {"events", "results"}}
            \union IF driver = "sqlite" THEN {{"events"}} ELSE {}

\* getEndpointStatusByKey past the cache: getEndpointIDGroupAndNameByKey, whose
\* failure ends it, then getEndpointEventsByEndpointID and
\* getEndpointResultsByEndpointID, whose failures are only logged and leave
\* their part of the status empty.
StatusRead(t, e, size, failed) ==
    IF "endpoint" \in failed \/ ~ExistsFor(t, e) THEN None
    ELSE LET events == ById(EventsSeenBy(t, e)) IN
         [results |-> IF "results" \in failed THEN <<>>
                      ELSE SqlPage(ById(RowsSeenBy(t, e)), 1, size),
          events |-> IF "events" \in failed THEN <<>>
                     ELSE SqlPage([i \in 1 .. Len(events) |-> events[i].type], 1, MaxEvents),
          found |-> TRUE, missing |-> failed]

\* db.Begin() gets a connection.
CanBegin ==
    driver = "sqlite" => /\ \A w \in Writers : tx[w].at = "idle"
                         /\ \A r \in Readers : ~reading[r].busy

-----------------------------------------------------------------------------
(* InsertEndpointResult                                                    *)

\* Begin and getEndpointID.
BeginTransaction(w, e, success, hour) ==
    /\ tx[w].at = "idle"
    /\ CanBegin
    /\ sequence < MaxRows
    /\ tx' = [tx EXCEPT ![w] =
                [Idle EXCEPT !.at = IF endpoints[e] = 0 THEN "create" ELSE "write",
                             !.key = e, !.success = success, !.hour = hour,
                             !.id = endpoints[e]]]
    /\ UNCHANGED <<driver, endpoints, rows, eventRows, cache, reading, wiping,
                   sequence, taken, faulty, lost>>

\* insertEndpoint waits for another transaction that inserts the same key, and
\* fails when that one commits: the key is UNIQUE.
CreateEndpoint(w) ==
    LET t == tx[w] IN
    /\ t.at = "create"
    /\ \A v \in Writers \ {w} : ~(Uncommitted(tx[v], t.key) /\ tx[v].created)
    /\ sequence < MaxRows
    /\ IF endpoints[t.key] # 0
       THEN tx' = [tx EXCEPT ![w] = Idle] /\ UNCHANGED sequence
       ELSE /\ sequence' = sequence + 1
            /\ tx' = [tx EXCEPT ![w].at = "write", ![w].id = sequence + 1,
                                ![w].created = TRUE]
    /\ UNCHANGED <<driver, endpoints, rows, eventRows, cache, reading, wiping,
                   taken, faulty, lost>>

\* Of the statements that are only logged when they fail, those that do.  With
\* Postgres any of them aborts the transaction, whose later statements fail too.
Failures ==
    IF StatementMayFail /\ driver = "sqlite"
    THEN {{}, {"count"}, {"start"}, {"event"}, {"last"}, {"clean"}} ELSE {{}}

\* Slip: the previous result is looked up ORDER BY id ASC.
NewEventsAgainstOldest(t, count, failed) ==
    LET event == [id |-> 2 * (sequence + 1), type |-> NewEventFromResult(t)]
        start == [id |-> 2 * (sequence + 1) - 1, type |-> START]
        seen == ById(RowsSeenBy(t, t.key))
    IN  IF count = 0 THEN {start, event}
        ELSE IF seen # <<>> /\ seen[1].success # t.success THEN {event} ELSE {}

\* The events to insert, given the number of events the count returned.
NewEvents(t, count, failed) ==
    LET event == [id |-> 2 * (sequence + 1), type |-> NewEventFromResult(t)]
        start == [id |-> 2 * (sequence + 1) - 1, type |-> START]
        seen == ById(RowsSeenBy(t, t.key))
    IN  IF count = 0
        THEN (IF "start" \in failed THEN {} ELSE {start})
               \union (IF "event" \in failed THEN {} ELSE {event})
        ELSE IF /\ seen # <<>> /\ "last" \notin failed
                /\ seen[Len(seen)].success # t.success
                /\ "event" \notin failed
             THEN {event} ELSE {}

\* From counting the events to deleting old results.  The rows are locked
\* against the deletion of their endpoint from here on; if it is gone already,
\* the foreign key refuses them and the transaction is rolled back.
WriteRows(w, failed) ==
    LET t == tx[w]
        count == IF "count" \in failed THEN 0 ELSE Cardinality(EventsSeenBy(t, t.key))
        newEvents == NewEvents(t, count, failed)
        allEvents == EventsSeenBy(t, t.key) \union newEvents
        newRows == {[id |-> sequence + 1, success |-> t.success]}
        allRows == RowsSeenBy(t, t.key) \union newRows
    IN
    /\ t.at = "write"
    /\ failed \in Failures
    /\ IF ~t.created /\ endpoints[t.key] # t.id
       THEN tx' = [tx EXCEPT ![w] = Idle] /\ UNCHANGED <<sequence, faulty>>
       ELSE /\ sequence' = sequence + 1
            /\ faulty' = IF failed = {} THEN faulty ELSE faulty \union {t.key}
            /\ tx' = [tx EXCEPT ![w] =
                 [t EXCEPT
                    !.at = "uptime",
                    !.newRows = newRows,
                    !.newEvents = newEvents,
                    !.oldEvents = IF count > MaxEvents + Slack /\ "clean" \notin failed
                                  THEN AllButMostRecent(allEvents, MaxEvents) ELSE {},
                    !.oldRows = IF Cardinality(allRows) > MaxResults + Slack /\ "clean" \notin failed
                                THEN AllButMostRecent(allRows, MaxResults) ELSE {}]]
    /\ UNCHANGED <<driver, endpoints, rows, eventRows, cache, reading, wiping, taken, lost>>

\* insertEndpointResult fails: rollback.
WriteFails(w) ==
    /\ StatementMayFail
    /\ tx[w].at = "write"
    /\ tx' = [tx EXCEPT ![w] = Idle]
    /\ UNCHANGED <<driver, endpoints, rows, eventRows, cache, reading, wiping,
                   sequence, taken, faulty, lost>>

\* updateEndpointUptime waits for a transaction that has updated the row of the
\* same hour, until that one ends.  Then the cache keys of the endpoint, and of
\* those whose key begins with its own, are listed.
UpdateUptime(w) ==
    LET t == tx[w]
        listed == {p \in RefreshedWith[t.key] \X Sizes : cache[p] # None}
    IN
    /\ t.at = "uptime"
    /\ \A v \in Writers \ {w} :
          ~(/\ tx[v].at \in {"refresh", "fill", "commit"}
            /\ tx[v].key = t.key /\ tx[v].hour = t.hour)
    /\ tx' = [tx EXCEPT ![w].at = IF listed = {} THEN "commit" ELSE "refresh",
                        ![w].todo = listed]
    /\ UNCHANGED <<driver, endpoints, rows, eventRows, cache, reading, wiping,
                   sequence, taken, faulty, lost>>

\* Slip: the status is read again without dropping the cached one.
RefreshWithoutDrop(w) ==
    \E p \in tx[w].todo :
        /\ tx[w].at = "refresh"
        /\ tx' = [tx EXCEPT ![w].at = "fill", ![w].todo = tx[w].todo \ {p}, ![w].now = {p}]
        /\ UNCHANGED <<driver, endpoints, rows, eventRows, cache, reading, wiping,
                       sequence, taken, faulty, lost>>

\* The loop that refreshes the cache, in the order of a map: Delete, then
\* getEndpointStatusByKey, which looks into the cache first.
DropCached(w) ==
    \E p \in tx[w].todo :
        /\ tx[w].at = "refresh"
        /\ cache' = [cache EXCEPT ![p] = None]
        /\ tx' = [tx EXCEPT ![w].at = "fill", ![w].todo = tx[w].todo \ {p}, ![w].now = {p}]
        /\ UNCHANGED <<driver, endpoints, rows, eventRows, reading, wiping,
                       sequence, taken, faulty, lost>>

\* With Postgres a query that fails aborts the transaction: the statuses after
\* that one are only dropped, and the commit fails.
FillCached(w, failed) ==
    LET reads(p) == cache[p] = None /\ ~tx[w].aborted IN
    \E p \in tx[w].now :
        /\ tx[w].at = "fill"
        /\ failed \in IF reads(p) THEN QueryFailures ELSE {{}}
        /\ cache' = IF reads(p)
                    THEN [cache EXCEPT ![p] = StatusRead(tx[w], p[1], p[2], failed)] ELSE cache
        /\ tx' = [tx EXCEPT ![w].at = IF tx[w].todo = {} THEN "commit" ELSE "refresh",
                            ![w].now = {},
                            ![w].aborted = @ \/ (failed # {} /\ driver = "postgres")]
        /\ UNCHANGED <<driver, endpoints, rows, eventRows, reading, wiping,
                       sequence, taken, faulty, lost>>

Commit(w) ==
    LET t == tx[w] IN
    /\ t.at = "commit" /\ ~t.aborted
    /\ endpoints' = [endpoints EXCEPT ![t.key] = t.id]
    /\ rows' = [rows EXCEPT ![t.key] = RowsSeenBy(t, t.key)]
    /\ eventRows' = [eventRows EXCEPT ![t.key] = EventsSeenBy(t, t.key)]
    /\ taken' = [taken EXCEPT ![t.key] = @ \union t.newRows]
    /\ lost' = lost \ {t.key}
    /\ tx' = [tx EXCEPT ![w] = Idle]
    /\ UNCHANGED <<driver, cache, reading, wiping, sequence, faulty>>

\* Commit fails after the cache was refreshed: rollback.
CommitFails(w) ==
    /\ StatementMayFail
    /\ tx[w].at = "commit"
    /\ lost' = lost \union {tx[w].key}
    /\ tx' = [tx EXCEPT ![w] = Idle]
    /\ UNCHANGED <<driver, endpoints, rows, eventRows, cache, reading, wiping,
                   sequence, taken, faulty>>

-----------------------------------------------------------------------------
(* Reads, deletions and the age of cached statuses                         *)

\* GetEndpointStatusByKey with nothing cached; otherwise, and if it does not get
\* the row of the endpoint, it changes nothing.
ReadStatus(r, p, failed) ==
    /\ ~reading[r].busy
    /\ CanBegin
    /\ cache[p] = None
    /\ endpoints[p[1]] # 0
    /\ failed \in QueryFailures /\ "endpoint" \notin failed
    /\ reading' = [reading EXCEPT ![r] =
                     [busy |-> TRUE, page |-> p, answer |-> StatusRead(Idle, p[1], p[2], failed)]]
    /\ UNCHANGED <<driver, endpoints, rows, eventRows, cache, tx, wiping,
                   sequence, taken, faulty, lost>>

KeepStatus(r) ==
    /\ reading[r].busy
    /\ cache' = [cache EXCEPT ![reading[r].page] = reading[r].answer]
    /\ reading' = [reading EXCEPT ![r].busy = FALSE, ![r].answer = None]
    /\ UNCHANGED <<driver, endpoints, rows, eventRows, tx, wiping, sequence,
                   taken, faulty, lost>>

\* cacheTTL has passed, or the cache was full and evicted the status.
Expire(p) ==
    /\ cache[p] # None
    /\ cache' = [cache EXCEPT ![p] = None]
    /\ UNCHANGED <<driver, endpoints, rows, eventRows, tx, reading, wiping,
                   sequence, taken, faulty, lost>>

\* Slip: without PRAGMA foreign_keys the events stay.
DeleteWithoutCascade(keys) ==
    LET gone == Endpoints \ keys IN
    /\ ~wiping
    /\ CanBegin
    /\ endpoints' = [e \in Endpoints |-> IF e \in gone THEN 0 ELSE endpoints[e]]
    /\ rows' = [e \in Endpoints |-> IF e \in gone THEN {} ELSE rows[e]]
    /\ taken' = [e \in Endpoints |-> IF e \in gone THEN {} ELSE taken[e]]
    /\ faulty' = faulty \ gone
    /\ wiping' = TRUE
    /\ UNCHANGED <<driver, eventRows, cache, tx, reading, sequence, lost>>

\* DeleteAllEndpointStatusesNotInKeys: one statement, whose foreign keys delete
\* results and events in cascade and which waits for insertions that hold the
\* row of an endpoint; then the whole cache is wiped.
DeleteRows(keys) ==
    LET gone == Endpoints \ keys IN
    /\ ~wiping
    /\ CanBegin
    /\ \A w \in Writers :
          ~(/\ tx[w].at \in {"uptime", "refresh", "fill", "commit"}
            /\ tx[w].key \in gone /\ ~tx[w].created)
    /\ endpoints' = [e \in Endpoints |-> IF e \in gone THEN 0 ELSE endpoints[e]]
    /\ rows' = [e \in Endpoints |-> IF e \in gone THEN {} ELSE rows[e]]
    /\ eventRows' = [e \in Endpoints |-> IF e \in gone THEN {} ELSE eventRows[e]]
    /\ taken' = [e \in Endpoints |-> IF e \in gone THEN {} ELSE taken[e]]
    /\ faulty' = faulty \ gone
    /\ wiping' = TRUE
    /\ UNCHANGED <<driver, cache, tx, reading, sequence, lost>>

WipeCache ==
    /\ wiping
    /\ cache' = [p \in Endpoints \X Sizes |-> None]
    /\ wiping' = FALSE
    /\ lost' = {}
    /\ UNCHANGED <<driver, endpoints, rows, eventRows, tx, reading, sequence,
                   taken, faulty>>

WriterStep(w) ==
    \/ \E e \in Endpoints, success \in BOOLEAN, hour \in Hours :
          BeginTransaction(w, e, success, hour)
    \/ CreateEndpoint(w)
    \/ \E failed \in Failures : WriteRows(w, failed)
    \/ WriteFails(w)
    \/ UpdateUptime(w)
    \/ DropCached(w)
    \/ \E failed \in QueryFailures : FillCached(w, failed)
    \/ Commit(w)
    \/ CommitFails(w)

SqlNext ==
    \/ \E w \in Writers : WriterStep(w)
    \/ \E r \in Readers, p \in Endpoints \X Sizes, failed \in QueryFailures : ReadStatus(r, p, failed)
    \/ \E r \in Readers : KeepStatus(r)
    \/ \E p \in Endpoints \X Sizes : Expire(p)
    \/ \E keys \in SUBSET Endpoints : DeleteRows(keys)
    \/ WipeCache

SqlSpec == SqlInit /\ [][SqlNext]_sqlVars

-----------------------------------------------------------------------------
Types(e) == LET s == ById(eventRows[e]) IN [i \in 1 .. Len(s) |-> s[i].type]

SqlHistory == INSTANCE StatusHistory WITH
    results <- [e \in Endpoints |-> ById(rows[e])],
    events <- [e \in Endpoints |-> Types(e)]

(* With SQLite, as long as no statement fails, every step of the store is a
   step of the bounded history or none.  With Postgres two insertions at the
   same time record the same change of outcome twice. *)
SqlImplementsHistory ==
    /\ SqlHistory!HistoryInit
    /\ [][driver = "sqlite" /\ faulty' = {} =>
            SqlHistory!HistoryNext \/ UNCHANGED <<rows, eventRows>>]_<<rows, eventRows>>

(* Whatever page within the maximum a request asks for, read from the tables
   it holds exactly what the memory store would cut out of the whole history
   of committed results, also with Postgres, where a transaction that began
   earlier may commit later and clean up in between, and also after failed
   statements. *)
SqlAnswersFromHistory ==
    \A e \in Endpoints, page, pageSize \in 0 .. MaxResults :
        LET p == RequestedPage(page)
            size == RequestedPageSize(page, pageSize)
        IN  p * size <= MaxResults =>
                SqlPage(ById(rows[e]), p, size) = MemoryPage(ById(taken[e]), p, size)

(* The last event of an endpoint says what its last result was, also when a
   deletion or a rolled-back insertion came in between. *)
LastEventIsLastResult ==
    \A e \in Endpoints :
        driver = "sqlite" /\ e \notin faulty /\ rows[e] # {} =>
            LET s == ById(rows[e]) IN
            Types(e)[Len(Types(e))] = NewEventFromResult(s[Len(s)])

(* Cleaning up keeps pace: with SQLite a table never holds more than its
   slack above the maximum, events one more since they are counted before. *)
TablesStayBounded ==
    \A e \in Endpoints :
        driver = "sqlite" /\ e \notin faulty =>
            /\ Cardinality(rows[e]) <= MaxResults + Slack
            /\ Cardinality(eventRows[e]) <= MaxEvents + Slack + 1

(* With SQLite a cached status is what the tables say, whenever nothing is
   under way: of both events and results, but for those whose query failed
   when it was read, which are not there at all.  Only a roll-back of the last
   insertion after the cache had been refreshed leaves what the tables do not
   hold; the next insertion that is committed repairs that, and what a failed
   query left out. *)
CacheIsFresh ==
    /\ driver = "sqlite" /\ ~wiping
    /\ \A w \in Writers : tx[w].at = "idle"
    => \A p \in Endpoints \X Sizes :
          cache[p] # None /\ p[1] \notin lost =>
             cache[p] = StatusRead(Idle, p[1], p[2], cache[p].missing)
=============================================================================
