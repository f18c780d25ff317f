----------------------------- MODULE MemoryStore -----------------------------
(***************************************************************************)
(* storage/store/memory: statuses in a cache of their own lock, under the  *)
(* store's RWMutex.  InsertEndpointResult holds the write lock from        *)
(* reading the status to putting it back; DeleteAllEndpointStatusesNotIn-  *)
(* Keys takes no lock of the store, only the cache's, once to list the     *)
(* keys and once to remove them, so that it runs in between.               *)
(***************************************************************************)
EXTENDS Status

CONSTANT MaxInserts  \* bound: number of results inserted by the evaluations

VARIABLES
    endpointCache,  \* Store.endpointCache: the status of an endpoint, if any
    locked,         \* what the insertion that holds the write lock will put back
    toDelete,       \* keys a deletion has listed and not yet removed
    inserted,       \* number of insertions begun: the next result's number
    inOrder         \* ghost: every result the endpoint's status has taken in

memoryVars == <<endpointCache, locked, toDelete, inserted, inOrder>>

NoStatus == [exists |-> FALSE, results |-> <<>>, events |-> <<>>]
NewStatus == [exists |-> TRUE, results |-> <<>>, events |-> <<START>>]

StatusRecord == [exists : BOOLEAN, results : Seq(Result), events : Seq(EventType)]
Nobody == [holds |-> FALSE]

MemoryTypeOK ==
    /\ endpointCache \in [Endpoints -> StatusRecord]
    /\ locked = Nobody \/ locked \in [holds : {TRUE}, key : Endpoints,
                                       status : StatusRecord]
    /\ toDelete \in SUBSET Endpoints
    /\ inserted \in Nat
    /\ inOrder \in [Endpoints -> Seq(Result)]

MemoryInit ==
    /\ endpointCache = [e \in Endpoints |-> NoStatus]
    /\ locked = Nobody
    /\ toDelete = {}
    /\ inserted = 0
    /\ inOrder = [e \in Endpoints |-> <<>>]

\* AddResult, without the uptime.
AddResult(status, result) ==
    LET previous == status.results
        changed == Append(status.events, NewEventFromResult(result))
    IN  [status EXCEPT
            !.results = MostRecent(Append(previous, result), MaxResults),
            !.events = IF previous = <<>> THEN changed
                       ELSE IF previous[Len(previous)].success # result.success
                            THEN MostRecent(changed, MaxEvents)
                            ELSE status.events]

\* InsertEndpointResult up to the Set: the status is the cached one, or a
\* new one with its start event.
BeginInsert(e, success) ==
    /\ locked = Nobody
    /\ inserted < MaxInserts
    /\ LET status == IF endpointCache[e].exists THEN endpointCache[e] ELSE NewStatus
           result == [id |-> inserted + 1, success |-> success]
       IN  /\ locked' = [holds |-> TRUE, key |-> e,
                          status |-> AddResult(status, result)]
           /\ inOrder' = [inOrder EXCEPT ![e] = Append(inOrder[e], result)]
    /\ inserted' = inserted + 1
    /\ UNCHANGED <<endpointCache, toDelete>>

EndInsert ==
    /\ locked # Nobody
    /\ endpointCache' = [endpointCache EXCEPT ![locked.key] = locked.status]
    /\ locked' = Nobody
    /\ UNCHANGED <<toDelete, inserted, inOrder>>

\* DeleteAllEndpointStatusesNotInKeys
ListKeysToDelete(keys) ==
    /\ toDelete = {}
    /\ toDelete' = {e \in Endpoints : endpointCache[e].exists /\ e \notin keys}
    /\ UNCHANGED <<endpointCache, locked, inserted, inOrder>>

\* A key whose insertion is under way is put back by it: its deletion has no
\* effect.
IsLocked(e) == locked # Nobody /\ locked.key = e

DeleteListedKeys ==
    /\ toDelete # {}
    /\ endpointCache' = [e \in Endpoints |->
                            IF e \in toDelete THEN NoStatus ELSE endpointCache[e]]
    /\ inOrder' = [e \in Endpoints |->
                      IF e \in toDelete /\ ~IsLocked(e) THEN <<>> ELSE inOrder[e]]
    /\ toDelete' = {}
    /\ UNCHANGED <<locked, inserted>>

MemoryNext ==
    \/ \E e \in Endpoints, success \in BOOLEAN : BeginInsert(e, success)
    \/ EndInsert
    \/ \E keys \in SUBSET Endpoints : ListKeysToDelete(keys)
    \/ DeleteListedKeys

MemorySpec == MemoryInit /\ [][MemoryNext]_memoryVars

-----------------------------------------------------------------------------
\* GetEndpointStatusByKey takes the read lock and so waits for an insertion.
MemoryResults(e, page, pageSize) == MemoryPage(endpointCache[e].results, page, pageSize)

(* A reader sees an insertion as a whole, and one that holds the lock cannot
   be undone: the history may count it in at once. *)
Visible(e) == IF IsLocked(e) THEN locked.status ELSE endpointCache[e]

MemoryHistory == INSTANCE StatusHistory WITH
    results <- [e \in Endpoints |-> Visible(e).results],
    events <- [e \in Endpoints |-> Visible(e).events]

(* Every step of the memory store is a step of the bounded history or none,
   also when a deletion runs in the middle of an insertion: results and
   events are dropped only from the old end, and no change of outcome goes
   without its event. *)
MemoryImplementsHistory == MemoryHistory!HistorySpec

(* Whatever page within the maximum a request asks for, it holds exactly what
   the query of the SQL stores would cut out of the whole history: nothing
   that may still be asked for was dropped, no page overlaps or skips. *)
MemoryAnswersFromHistory ==
    \A e \in Endpoints, page, pageSize \in 0 .. MaxResults :
        LET p == RequestedPage(page)
            size == RequestedPageSize(page, pageSize)
        IN  p * size <= MaxResults /\ ~IsLocked(e) =>
                MemoryResults(e, p, size) = SqlPage(inOrder[e], p, size)
=============================================================================
