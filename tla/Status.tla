------------------------------- MODULE Status -------------------------------
(***************************************************************************)
(* What every store keeps of an endpoint (config/endpoint.Status): its     *)
(* latest results and the events of its history, and how a page of either  *)
(* is cut out.  A result is known by its number, in order of insertion,    *)
(* and its outcome; the rest of it (errors, durations, conditions) is      *)
(* stored and read back unchanged.                                         *)
(***************************************************************************)
EXTENDS Integers, Sequences, FiniteSets

CONSTANTS
    Endpoints,      \* keys of the endpoints
    MaxResults,     \* storage.Config.MaximumNumberOfResults
    MaxEvents,      \* storage.Config.MaximumNumberOfEvents
    DefaultPageSize \* api.DefaultPageSize

\* ValidateAndSetDefaults replaces whatever is not positive by a default.
ASSUME MaximaArePositive ==
    /\ MaxResults \in Nat \ {0}
    /\ MaxEvents \in Nat \ {0}
    /\ DefaultPageSize \in Nat \ {0}

START == "START"
HEALTHY == "HEALTHY"
UNHEALTHY == "UNHEALTHY"
EventType == {START, HEALTHY, UNHEALTHY}

Result == [id : Nat, success : BOOLEAN]

\* Slip: the type of the event is left empty for a failure.
EventOfSuccessOnly(result) == IF result.success THEN HEALTHY ELSE ""

\* NewEventFromResult
NewEventFromResult(result) == IF result.success THEN HEALTHY ELSE UNHEALTHY

\* Slip: the slice is taken from the wrong end.
Oldest(s, n) == IF Len(s) > n THEN SubSeq(s, 1, n) ELSE s

\* The last n elements of s, or all of them: s[len(s)-n:] under its guard.
MostRecent(s, n) == IF Len(s) > n THEN SubSeq(s, Len(s) - n + 1, Len(s)) ELSE s

-----------------------------------------------------------------------------
(* Pages.  Page 1 holds the most recent entries, oldest of them first.      *)

\* memory.getStartAndEndIndex: a Go slice expression s[start:end].
StartIndex(n, page, pageSize) ==
    IF page < 1 \/ pageSize < 0 \/ n - page * pageSize > n THEN -1
    ELSE IF n - page * pageSize < 0 THEN 0 ELSE n - page * pageSize

\* Slip: every page ends where the first one does.
EndOfFirstPage(n, page, pageSize) == IF page < 1 \/ pageSize < 0 THEN -1 ELSE n

EndIndex(n, page, pageSize) ==
    IF page < 1 \/ pageSize < 0 THEN -1
    ELSE IF n - (page - 1) * pageSize > n THEN n ELSE n - (page - 1) * pageSize

\* memory.ShallowCopyEndpointStatus and ShallowCopySuiteStatus, for one of
\* the two lists.
MemoryPage(s, page, pageSize) ==
    LET start == StartIndex(Len(s), page, pageSize)
        end == EndIndex(Len(s), page, pageSize)
    IN  IF start < 0 \/ end < 0 THEN <<>> ELSE SubSeq(s, start + 1, end)

\* The SQL queries: ORDER BY id DESC LIMIT pageSize OFFSET (page-1)*pageSize,
\* put back into chronological order.
SqlPage(s, page, pageSize) ==
    LET newestFirst == [i \in 1 .. Len(s) |-> s[Len(s) + 1 - i]]
        offset == (page - 1) * pageSize
        rows == SubSeq(newestFirst, offset + 1,
                       IF offset + pageSize < Len(s) THEN offset + pageSize ELSE Len(s))
    IN  [i \in 1 .. Len(rows) |-> rows[Len(rows) + 1 - i]]

\* api.extractPageAndPageSizeFromRequest for numeric parameters (anything else
\* is replaced by the default before).
RequestedPage(page) == IF page < 1 THEN 1 ELSE page
RequestedPageSize(page, pageSize) ==
    IF RequestedPage(page) = 1 /\ pageSize > MaxResults THEN MaxResults
    ELSE IF pageSize < 1 THEN DefaultPageSize ELSE pageSize
=============================================================================
