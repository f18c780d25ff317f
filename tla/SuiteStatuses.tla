---------------------------- MODULE SuiteStatuses ----------------------------
(***************************************************************************)
(* What the stores keep of suites: their latest results, each with the     *)
(* results of the endpoints that ran.  The memory store keeps a list under *)
(* its lock; the SQL stores insert the result of the suite, those of its   *)
(* endpoints (creating the rows of endpoints not yet known) and clean up   *)
(* in one transaction, in which the failure of an endpoint is only logged. *)
(* There, an endpoint that is deleted takes its results out of those of the*)
(* suites that remain; the memory store keeps them.                        *)
(***************************************************************************)
EXTENDS SqlStore

CONSTANTS
    Suites,          \* keys of suites
    SuiteEndpoints   \* endpoints that belong to a suite

VARIABLES
    suiteCache,      \* memory: Store.suiteCache, <<>> for no status
    suites,          \* table suites: the id of a suite's row, 0 for no row
    suiteResults,    \* table suite_results
    linkedResults,   \* rows of endpoint_results that have a suite_result_id
    suiteTx,         \* the insertion each suite goroutine is in
    suiteSequence,   \* the last id given to a row
    ranWith,         \* ghost: every result committed (SQL) or inserted (memory)
    forgotten        \* ghost: endpoints that were deleted after such a result,
                     \* and its id

suiteGhosts == <<ranWith, forgotten>>
suiteVars == <<suiteCache, suites, suiteResults, linkedResults, suiteTx, suiteSequence, suiteGhosts>>

SuiteResult == [id : Nat, success : BOOLEAN, ran : SUBSET SuiteEndpoints]
NoSuiteTx == [at |-> "idle", suite |-> CHOOSE s \in Suites : TRUE, suiteId |-> 0,
              created |-> FALSE, made |-> {}, result |-> {}, links |-> {}, old |-> {}]

SuitesTypeOK ==
    /\ suiteCache \in [Suites -> Seq(SuiteResult)]
    /\ suites \in [Suites -> Nat]
    /\ \A s \in Suites : suiteResults[s] \subseteq SuiteResult /\ ranWith[s] \subseteq SuiteResult
    /\ linkedResults \union forgotten \subseteq [endpoint : SuiteEndpoints, result : Nat]
    /\ \A w \in Writers : suiteTx[w].at \in {"idle", "create", "write", "commit"}
    /\ suiteSequence \in Nat

SuitesInit ==
    /\ suiteCache = [s \in Suites |-> <<>>]
    /\ suites = [s \in Suites |-> 0]
    /\ suiteResults = [s \in Suites |-> {}]
    /\ linkedResults = {}
    /\ suiteTx = [w \in Writers |-> NoSuiteTx]
    /\ suiteSequence = 0
    /\ ranWith = [s \in Suites |-> {}]
    /\ forgotten = {}

-----------------------------------------------------------------------------
(* Memory store: each operation holds the write lock.                      *)

\* memory.InsertSuiteResult; a status is dropped only as a whole, so an empty
\* list stands for no status.
InsertSuiteResultInMemory(s, success, ran) ==
    LET result == [id |-> suiteSequence + 1, success |-> success, ran |-> ran] IN
    /\ suiteSequence < MaxRows
    /\ suiteCache' = [suiteCache EXCEPT ![s] = MostRecent(Append(@, result), MaxResults)]
    /\ ranWith' = [ranWith EXCEPT ![s] = @ \union {result}]
    /\ suiteSequence' = suiteSequence + 1
    /\ UNCHANGED <<suites, suiteResults, linkedResults, suiteTx, forgotten>>

\* memory.DeleteAllSuiteStatusesNotInKeys
DeleteSuitesFromMemory(keys) ==
    /\ suiteCache' = [s \in Suites |-> IF s \in keys THEN suiteCache[s] ELSE <<>>]
    /\ ranWith' = [s \in Suites |-> IF s \in keys THEN ranWith[s] ELSE {}]
    /\ UNCHANGED <<suites, suiteResults, linkedResults, suiteTx, suiteSequence, forgotten>>

-----------------------------------------------------------------------------
(* SQL stores                                                              *)

SuiteTransactionMayBegin == driver = "sqlite" => \A w \in Writers : suiteTx[w].at = "idle"
UncommittedSuite(t, s) == t.at # "idle" /\ t.suite = s
SuiteRowsSeenBy(t, s) ==
    IF UncommittedSuite(t, s) THEN (suiteResults[s] \ t.old) \union t.result ELSE suiteResults[s]

\* InsertSuiteResult: Begin and getSuiteID.
BeginSuiteResult(w, s) ==
    /\ suiteTx[w].at = "idle"
    /\ SuiteTransactionMayBegin
    /\ suiteSequence < MaxRows
    /\ suiteTx' = [suiteTx EXCEPT ![w] =
                     [NoSuiteTx EXCEPT !.at = IF suites[s] = 0 THEN "create" ELSE "write",
                                       !.suite = s, !.suiteId = suites[s]]]
    /\ UNCHANGED <<suiteCache, suites, suiteResults, linkedResults, suiteSequence, suiteGhosts>>

\* insertSuite: like the row of an endpoint, its key is UNIQUE.
InsertSuite(w) ==
    LET t == suiteTx[w] IN
    /\ t.at = "create"
    /\ \A v \in Writers \ {w} : ~(UncommittedSuite(suiteTx[v], t.suite) /\ suiteTx[v].created)
    /\ suiteSequence < MaxRows
    /\ IF suites[t.suite] # 0
       THEN suiteTx' = [suiteTx EXCEPT ![w] = NoSuiteTx] /\ UNCHANGED suiteSequence
       ELSE /\ suiteSequence' = suiteSequence + 1
            /\ suiteTx' = [suiteTx EXCEPT ![w].at = "write", ![w].suiteId = suiteSequence + 1,
                                          ![w].created = TRUE]
    /\ UNCHANGED <<suiteCache, suites, suiteResults, linkedResults, suiteGhosts>>

\* The result of the suite, those of its endpoints but the skipped ones, whose
\* statements failed, and the clean-up, unless it fails.  The rows of some
\* endpoints, which have no result yet, are made first.  The foreign key refuses
\* the result of a suite that was deleted meanwhile.
WriteSuiteResult(w, success, ran, skipped, made, cleans) ==
    LET t == suiteTx[w]
        result == [id |-> suiteSequence + 1, success |-> success, ran |-> ran \ skipped]
        all == SuiteRowsSeenBy(t, t.suite) \union {result}
    IN
    /\ t.at = "write"
    /\ (skipped # {} \/ ~cleans) => StatementMayFail /\ driver = "sqlite"
    /\ \A l \in linkedResults : l.endpoint \notin made
    /\ \A v \in Writers \ {w} : made \intersect suiteTx[v].made = {}
    /\ suiteSequence < MaxRows
    /\ IF ~t.created /\ suites[t.suite] # t.suiteId
       THEN suiteTx' = [suiteTx EXCEPT ![w] = NoSuiteTx] /\ UNCHANGED suiteSequence
       ELSE /\ suiteSequence' = suiteSequence + 1
            /\ suiteTx' = [suiteTx EXCEPT ![w] =
                 [t EXCEPT
                    !.at = "commit",
                    !.made = made,
                    !.result = {result},
                    !.links = [endpoint : ran \ skipped, result : {result.id}],
                    !.old = IF cleans /\ Cardinality(all) > MaxResults + Slack
                            THEN AllButMostRecent(all, MaxResults) ELSE {}]]
    /\ UNCHANGED <<suiteCache, suites, suiteResults, linkedResults, suiteGhosts>>

\* The deferred Rollback: the insertion of the result, any statement with
\* Postgres, or the commit failed.
RollBackSuiteResult(w) ==
    /\ StatementMayFail
    /\ suiteTx[w].at \in {"create", "write", "commit"}
    /\ suiteTx' = [suiteTx EXCEPT ![w] = NoSuiteTx]
    /\ UNCHANGED <<suiteCache, suites, suiteResults, linkedResults, suiteSequence, suiteGhosts>>

CommitSuiteResult(w) ==
    LET t == suiteTx[w] IN
    /\ t.at = "commit"
    /\ suites' = [suites EXCEPT ![t.suite] = t.suiteId]
    /\ suiteResults' = [suiteResults EXCEPT ![t.suite] = SuiteRowsSeenBy(t, t.suite)]
    /\ linkedResults' = {l \in linkedResults \union t.links : l.result \notin {r.id : r \in t.old}}
    /\ ranWith' = [ranWith EXCEPT ![t.suite] = @ \union t.result]
    /\ suiteTx' = [suiteTx EXCEPT ![w] = NoSuiteTx]
    /\ UNCHANGED <<suiteCache, suiteSequence, forgotten>>

\* DeleteAllSuiteStatusesNotInKeys: results go in cascade, those of endpoints
\* with them; a suite whose row an insertion has referenced is waited for.
DeleteSuiteRows(keys) ==
    LET gone == Suites \ keys
        goneIds == {r.id : r \in UNION {suiteResults[s] : s \in gone}}
    IN
    /\ SuiteTransactionMayBegin
    /\ \A w \in Writers :
          ~(suiteTx[w].at = "commit" /\ suiteTx[w].suite \in gone /\ ~suiteTx[w].created)
    /\ suites' = [s \in Suites |-> IF s \in gone THEN 0 ELSE suites[s]]
    /\ suiteResults' = [s \in Suites |-> IF s \in gone THEN {} ELSE suiteResults[s]]
    /\ linkedResults' = {l \in linkedResults : l.result \notin goneIds}
    /\ ranWith' = [s \in Suites |-> IF s \in gone THEN {} ELSE ranWith[s]]
    /\ UNCHANGED <<suiteCache, suiteTx, suiteSequence, forgotten>>

\* DeleteAllEndpointStatusesNotInKeys, seen from the suites: the results of an
\* endpoint go in cascade, those that refer to the result of a suite, too.  An
\* insertion that has referenced the row of the endpoint is waited for; a row
\* that it has made is not seen.
DeleteEndpointRows(keys) ==
    /\ SuiteTransactionMayBegin
    /\ \A w \in Writers : \A l \in suiteTx[w].links : l.endpoint \in keys \union suiteTx[w].made
    /\ linkedResults' = {l \in linkedResults : l.endpoint \in keys}
    /\ forgotten' = forgotten \union
            UNION {[endpoint : r.ran \ keys, result : {r.id}] : r \in UNION {ranWith[s] : s \in Suites}}
    /\ UNCHANGED <<suiteCache, suites, suiteResults, suiteTx, suiteSequence, ranWith>>

SuitesInMemoryNext ==
    \/ \E s \in Suites, success \in BOOLEAN, ran \in SUBSET SuiteEndpoints :
          InsertSuiteResultInMemory(s, success, ran)
    \/ \E keys \in SUBSET Suites : DeleteSuitesFromMemory(keys)

SuitesInSqlNext ==
    \/ \E w \in Writers, s \in Suites : BeginSuiteResult(w, s)
    \/ \E w \in Writers : InsertSuite(w) \/ RollBackSuiteResult(w) \/ CommitSuiteResult(w)
    \/ \E w \in Writers, success, cleans \in BOOLEAN, ran \in SUBSET SuiteEndpoints :
          \E skipped \in SUBSET ran : \E made \in SUBSET (ran \ skipped) :
             WriteSuiteResult(w, success, ran, skipped, made, cleans)
    \/ \E keys \in SUBSET Suites : DeleteSuiteRows(keys)
    \/ \E keys \in SUBSET SuiteEndpoints : DeleteEndpointRows(keys)

-----------------------------------------------------------------------------
\* memory.GetSuiteStatusByKey; a page and size of 0 ask for everything.
MemorySuiteResults(s, page, pageSize) ==
    IF page = 0 /\ pageSize = 0 THEN suiteCache[s] ELSE MemoryPage(suiteCache[s], page, pageSize)

\* getSuiteResults: the results of the page, each with the endpoint results
\* that refer to it.
SqlSuiteResults(s, page, pageSize) ==
    LET results == SqlPage(ById(suiteResults[s]), page, pageSize) IN
    [i \in 1 .. Len(results) |->
        [results[i] EXCEPT !.ran = {l.endpoint : l \in {m \in linkedResults : m.result = results[i].id}}]]

\* A result without the endpoints that were deleted after it.
Remaining(result) ==
    [result EXCEPT !.ran = @ \ {l.endpoint : l \in {m \in forgotten : m.result = result.id}}]

(* Whatever page within the maximum a request asks for, the store answers with
   the most recent results of the suite, each with the endpoints that ran in it
   but those that were deleted since (from a SQL store), and no others. *)
AnswersFromSuiteHistory(SuiteAnswer(_, _, _)) ==
    \A s \in Suites, page, pageSize \in 0 .. MaxResults :
        LET p == RequestedPage(page)
            size == RequestedPageSize(page, pageSize)
        IN  p * size <= MaxResults =>
                LET expected == MemoryPage(ById(ranWith[s]), p, size)
                IN  SuiteAnswer(s, p, size) = [i \in DOMAIN expected |-> Remaining(expected[i])]
=============================================================================
