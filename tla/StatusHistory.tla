---------------------------- MODULE StatusHistory ----------------------------
(***************************************************************************)
(* What a store promises about the history of an endpoint, whatever it     *)
(* keeps it in: results are kept in the order of insertion, and none but   *)
(* the oldest are ever dropped, never leaving fewer than the configured    *)
(* maximum; an event is recorded exactly when the outcome differs from the *)
(* one before, with a start event in front; an endpoint is forgotten as a  *)
(* whole.                                                                  *)
(***************************************************************************)
EXTENDS Status

VARIABLES
    results,  \* per endpoint, the results that are kept
    events    \* per endpoint, the types of the events that are kept

\* t is s without some of its oldest entries: all of s when it is not longer
\* than max, and never fewer than max entries.
TrimmedTo(t, s, max) ==
    \E n \in 0 .. Len(s) :
        /\ t = SubSeq(s, n + 1, Len(s))
        /\ n = 0 \/ Len(s) - n >= max

\* The events once a result has been compared with the ones before.
EventsAfter(old, previous, result) ==
    IF previous = <<>> THEN <<START, NewEventFromResult(result)>>
    ELSE IF previous[Len(previous)].success # result.success
         THEN Append(old, NewEventFromResult(result))
         ELSE old

HistoryInit ==
    /\ results = [e \in Endpoints |-> <<>>]
    /\ events = [e \in Endpoints |-> <<>>]

\* One result is added to e, and old entries of e may be dropped.
Insert(e) ==
    /\ results'[e] # <<>>
    /\ LET result == results'[e][Len(results'[e])] IN
       /\ TrimmedTo(results'[e], Append(results[e], result), MaxResults)
       /\ TrimmedTo(events'[e], EventsAfter(events[e], results[e], result), MaxEvents)
    /\ \A other \in Endpoints \ {e} :
          results'[other] = results[other] /\ events'[other] = events[other]

\* Every endpoint is forgotten entirely or left alone.
Forget ==
    \A e \in Endpoints :
        \/ results'[e] = <<>> /\ events'[e] = <<>>
        \/ results'[e] = results[e] /\ events'[e] = events[e]

HistoryNext == (\E e \in Endpoints : Insert(e)) \/ Forget

historyVars == <<results, events>>
HistorySpec == HistoryInit /\ [][HistoryNext]_historyVars
=============================================================================
