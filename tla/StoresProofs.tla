----------------------------- MODULE StoresProofs -----------------------------
(***************************************************************************)
(* The stores, for any endpoints, suites and maxima: the memory store      *)
(* implements the bounded history and answers out of the whole of it, the  *)
(* uptime is the sum of what was observed, and whichever store is chosen   *)
(* behaves as its own specification says, for endpoints, suites and uptime.*)
(***************************************************************************)
EXTENDS Stores, SqlStoreProofs, WellFoundedInduction

-----------------------------------------------------------------------------
(* Sequences and pages *)

(* A trimmed sequence is a sequence of the same elements, ends with the same
   element and lost only old ones, not more than it had to. *)
LEMMA MostRecentTrims ==
    ASSUME NEW S, NEW s \in Seq(S), NEW max \in Nat \ {0}
    PROVE  /\ MostRecent(s, max) \in Seq(S)
           /\ MemoryHistory!TrimmedTo(MostRecent(s, max), s, max)
           /\ s # <<>> => /\ MostRecent(s, max) # <<>>
                          /\ MostRecent(s, max)[Len(MostRecent(s, max))] = s[Len(s)]
<1>1. CASE Len(s) > max
  <2>. DEFINE n == Len(s) - max
  <2>1. n \in 0 .. Len(s) /\ Len(s) - n >= max
    BY <1>1
  <2>2. MostRecent(s, max) = SubSeq(s, n + 1, Len(s))
    BY <1>1 DEF MostRecent
  <2>3. /\ SubSeq(s, n + 1, Len(s)) \in Seq(S)
        /\ Len(SubSeq(s, n + 1, Len(s))) = max
        /\ SubSeq(s, n + 1, Len(s))[max] = s[Len(s)]
    BY <1>1
  <2>4. MemoryHistory!TrimmedTo(SubSeq(s, n + 1, Len(s)), s, max)
    BY <2>1 DEF MemoryHistory!TrimmedTo
  <2>5. SubSeq(s, n + 1, Len(s)) # <<>>
    BY <2>3
  <2>. QED
    BY <2>2, <2>3, <2>4, <2>5
<1>2. CASE ~(Len(s) > max)
  <2>1. SubSeq(s, 1, Len(s)) = s
    OBVIOUS
  <2>2. MostRecent(s, max) = s
    BY <1>2 DEF MostRecent
  <2>3. MemoryHistory!TrimmedTo(s, s, max)
    <3>1. 0 \in 0 .. Len(s) /\ s = SubSeq(s, 0 + 1, Len(s))
      BY <2>1
    <3>. QED
      BY <3>1 DEF MemoryHistory!TrimmedTo
  <2>. QED
    BY <2>2, <2>3
<1>. QED
  BY <1>1, <1>2

LEMMA NothingTrimmed ==
    ASSUME NEW S, NEW s \in Seq(S), NEW max
    PROVE  MemoryHistory!TrimmedTo(s, s, max)
<1>1. SubSeq(s, 1, Len(s)) = s
  OBVIOUS
<1>2. 0 \in 0 .. Len(s) /\ s = SubSeq(s, 0 + 1, Len(s))
  BY <1>1
<1>. QED
  BY <1>2 DEF MemoryHistory!TrimmedTo

-----------------------------------------------------------------------------
(* The invariant *)

(* What is cached or about to be cached was made by an insertion: a status
   that exists has a result, one that does not has nothing. *)
StatusInv ==
    /\ \A e \in Endpoints :
          IF endpointCache[e].exists THEN endpointCache[e].results # <<>>
                                     ELSE endpointCache[e] = NoStatus
    /\ locked # Nobody => locked.status.results # <<>> /\ locked.status.exists

MemoryInv == MemoryTypeOK /\ StatusInv

LEMMA AppendToOne ==
    ASSUME NEW S, NEW x \in S, NEW y \in S
    PROVE  Append(<<x>>, y) = <<x, y>>
<1>1. <<x>> \in Seq(S) /\ <<x, y>> \in Seq(S)
  OBVIOUS
<1>2. /\ Append(<<x>>, y) \in Seq(S)
      /\ Len(Append(<<x>>, y)) = 2
      /\ Append(<<x>>, y)[1] = x
      /\ Append(<<x>>, y)[2] = y
  BY <1>1, AppendProperties
<1>3. \A i \in 1 .. Len(<<x, y>>) : Append(<<x>>, y)[i] = <<x, y>>[i]
  BY <1>2
<1>. QED
  BY <1>1, <1>2, <1>3, SeqEqual

LEMMA EventIsTyped ==
    ASSUME NEW result PROVE NewEventFromResult(result) \in EventType
BY DEF NewEventFromResult, EventType, HEALTHY, UNHEALTHY

(* AddResult keeps the type of a status and gives it a result. *)
LEMMA AddResultIsTyped ==
    ASSUME NEW status \in StatusRecord, NEW result \in Result
    PROVE  /\ AddResult(status, result) \in StatusRecord
           /\ AddResult(status, result).exists = status.exists
           /\ AddResult(status, result).results # <<>>
<1>. DEFINE all == Append(status.results, result)
            changed == Append(status.events, NewEventFromResult(result))
<1>1. all \in Seq(Result) /\ all # <<>>
  BY DEF StatusRecord
<1>2. changed \in Seq(EventType)
  BY EventIsTyped DEF StatusRecord
<1>3. MostRecent(all, MaxResults) \in Seq(Result) /\ MostRecent(all, MaxResults) # <<>>
  BY <1>1, MostRecentTrims, MaximaArePositive
<1>4. MostRecent(changed, MaxEvents) \in Seq(EventType)
  BY <1>2, MostRecentTrims, MaximaArePositive
<1>. HIDE DEF all, changed
<1>5. status \in [exists : BOOLEAN, results : Seq(Result), events : Seq(EventType)]
  BY DEF StatusRecord
<1>. QED
  BY <1>2, <1>3, <1>4, <1>5 DEF AddResult, StatusRecord, all, changed

LEMMA InitialInv == MemoryInit => MemoryInv
<1>1. NoStatus \in StatusRecord
  BY DEF NoStatus, StatusRecord
<1>. QED
  BY <1>1 DEF MemoryInit, MemoryInv, MemoryTypeOK, StatusInv, NoStatus

LEMMA InvIsPreserved == MemoryInv /\ [MemoryNext]_memoryVars => MemoryInv'
<1>. SUFFICES ASSUME MemoryInv, [MemoryNext]_memoryVars PROVE MemoryInv'
  OBVIOUS
<1>. USE DEF MemoryInv, MemoryTypeOK, StatusInv
<1>1. ASSUME NEW e \in Endpoints, NEW success \in BOOLEAN, BeginInsert(e, success)
      PROVE  MemoryInv'
  <2>. DEFINE status == IF endpointCache[e].exists THEN endpointCache[e] ELSE NewStatus
              result == [id |-> inserted + 1, success |-> success]
  <2>1. result \in Result
    BY DEF Result
  <2>2. NewStatus \in StatusRecord
    BY DEF NewStatus, StatusRecord, EventType
  <2>3. status \in StatusRecord /\ status.exists
    BY <2>2 DEF NewStatus
  <2>4. /\ locked' = [holds |-> TRUE, key |-> e, status |-> AddResult(status, result)]
        /\ inOrder' = [inOrder EXCEPT ![e] = Append(inOrder[e], result)]
        /\ inserted' = inserted + 1
        /\ UNCHANGED <<endpointCache, toDelete>>
    BY <1>1 DEF BeginInsert
  <2>. HIDE DEF status, result
  <2>5. /\ AddResult(status, result) \in StatusRecord
        /\ AddResult(status, result).exists
        /\ AddResult(status, result).results # <<>>
    BY <2>1, <2>3, AddResultIsTyped
  <2>6. inOrder' \in [Endpoints -> Seq(Result)]
    BY <2>1, <2>4
  <2>. QED
    BY <2>4, <2>5, <2>6 DEF Nobody
<1>2. CASE EndInsert
  BY <1>2 DEF EndInsert, Nobody
<1>3. ASSUME NEW keys \in SUBSET Endpoints, ListKeysToDelete(keys)
      PROVE  MemoryInv'
  BY <1>3 DEF ListKeysToDelete
<1>4. CASE DeleteListedKeys
  <2>1. NoStatus \in StatusRecord /\ ~NoStatus.exists
    BY DEF NoStatus, StatusRecord
  <2>2. UNCHANGED <<locked, inserted>> /\ toDelete' = {}
    BY <1>4 DEF DeleteListedKeys
  <2>3. endpointCache' \in [Endpoints -> StatusRecord]
    BY <1>4, <2>1 DEF DeleteListedKeys
  <2>4. inOrder' \in [Endpoints -> Seq(Result)]
    BY <1>4 DEF DeleteListedKeys
  <2>5. \A e \in Endpoints :
           IF endpointCache'[e].exists THEN endpointCache'[e].results # <<>>
                                       ELSE endpointCache'[e] = NoStatus
    BY <1>4, <2>1 DEF DeleteListedKeys
  <2>. QED
    BY <2>2, <2>3, <2>4, <2>5
<1>5. CASE UNCHANGED memoryVars
  BY <1>5 DEF memoryVars
<1>. QED
  BY <1>1, <1>2, <1>3, <1>4, <1>5 DEF MemoryNext

(* The state of the memory store keeps its types. *)
THEOREM MemoryTypeCorrect == MemorySpec => []MemoryTypeOK
<1>1. MemoryInv => MemoryTypeOK
  BY DEF MemoryInv
<1>. QED
  BY <1>1, InitialInv, InvIsPreserved, PTL DEF MemorySpec

-----------------------------------------------------------------------------
(* The refinement *)

(* Appending to a sequence makes one that ends with the element. *)
LEMMA AppendEndsWith ==
    ASSUME NEW S, NEW q \in Seq(S), NEW x \in S
    PROVE  LET p == Append(q, x) IN
           /\ p \in Seq(S)
           /\ p # <<>>
           /\ p[Len(p)] = x
  OBVIOUS

(* Beginning to insert is the history's insertion: the result comes last, and
   the event is there exactly when the history has one. *)
LEMMA BeginInsertInserts ==
    ASSUME MemoryInv, NEW e \in Endpoints, NEW success \in BOOLEAN,
           BeginInsert(e, success)
    PROVE  MemoryHistory!Insert(e)
<1>. DEFINE status == IF endpointCache[e].exists THEN endpointCache[e] ELSE NewStatus
            result == [id |-> inserted + 1, success |-> success]
            added == AddResult(status, result)
            all == Append(status.results, result)
            changed == Append(status.events, NewEventFromResult(result))
            mapped == [f \in Endpoints |-> Visible(f).results]
            mappedEvents == [f \in Endpoints |-> Visible(f).events]
<1>1. /\ locked = Nobody
      /\ locked' = [holds |-> TRUE, key |-> e, status |-> added]
      /\ UNCHANGED endpointCache
  BY DEF BeginInsert
<1>2. /\ result \in Result
      /\ result.success = success
      /\ status \in StatusRecord
  BY DEF MemoryInv, MemoryTypeOK, Result, NewStatus, StatusRecord, EventType
<1>3. /\ \A f \in Endpoints : Visible(f) = endpointCache[f]
      /\ \A f \in Endpoints : Visible(f)' = IF f = e THEN added ELSE endpointCache[f]
  BY <1>1 DEF Visible, IsLocked, Nobody
<1>4. /\ endpointCache[e].results = status.results
      /\ status.results = <<>> => status.events = <<START>>
      /\ status.results # <<>> => status.events = endpointCache[e].events
  BY DEF MemoryInv, StatusInv, NoStatus, NewStatus
<1>5. all \in Seq(Result) /\ all # <<>> /\ all[Len(all)] = result
  <2>1. status.results \in Seq(Result) /\ result \in Result
    BY <1>2 DEF StatusRecord
  <2>. HIDE DEF status, result
  <2>. QED
    BY <2>1, AppendEndsWith
<1>6. changed \in Seq(EventType)
  BY <1>2, EventIsTyped DEF StatusRecord
<1>7. /\ added.results = MostRecent(all, MaxResults)
      /\ added.events = IF status.results = <<>> THEN changed
                        ELSE IF status.results[Len(status.results)].success # success
                             THEN MostRecent(changed, MaxEvents)
                             ELSE status.events
  BY <1>2 DEF AddResult, StatusRecord
<1>. HIDE DEF status, result, added, all, changed
<1>8. /\ MemoryHistory!TrimmedTo(added.results, all, MaxResults)
      /\ added.results # <<>>
      /\ added.results[Len(added.results)] = result
  BY <1>5, <1>7, MostRecentTrims, MaximaArePositive
<1>9. MemoryHistory!TrimmedTo(added.events,
          MemoryHistory!EventsAfter(endpointCache[e].events, endpointCache[e].results, result),
          MaxEvents)
  <2>. DEFINE goal == MemoryHistory!EventsAfter(endpointCache[e].events, endpointCache[e].results, result)
  <2>1. CASE status.results = <<>>
    <3>1. goal = <<START, NewEventFromResult(result)>>
      BY <1>4, <2>1 DEF MemoryHistory!EventsAfter, MemoryHistory!START, START,
             MemoryHistory!NewEventFromResult, MemoryHistory!HEALTHY,
             MemoryHistory!UNHEALTHY, NewEventFromResult, HEALTHY, UNHEALTHY
    <3>2. changed = <<START, NewEventFromResult(result)>>
      <4>1. changed = Append(<<START>>, NewEventFromResult(result))
        BY <1>4, <2>1 DEF changed
      <4>2. /\ START \in EventType
            /\ NewEventFromResult(result) \in EventType
        BY EventIsTyped DEF EventType
      <4>. QED
        BY <4>1, <4>2, AppendToOne
    <3>. QED
      BY <1>6, <1>7, <2>1, <3>1, <3>2, NothingTrimmed
  <2>2. CASE status.results # <<>> /\ status.results[Len(status.results)].success # success
    <3>1. goal = changed
      BY <1>2, <1>4, <2>2 DEF changed, MemoryHistory!EventsAfter,
             MemoryHistory!NewEventFromResult, MemoryHistory!HEALTHY,
             MemoryHistory!UNHEALTHY, NewEventFromResult, HEALTHY, UNHEALTHY
    <3>. QED
      BY <1>6, <1>7, <2>2, <3>1, MostRecentTrims, MaximaArePositive
  <2>3. CASE status.results # <<>> /\ status.results[Len(status.results)].success = success
    <3>1. goal = status.events /\ added.events = status.events
      BY <1>2, <1>4, <1>7, <2>3 DEF MemoryHistory!EventsAfter
    <3>2. status.events \in Seq(EventType)
      BY <1>2 DEF StatusRecord
    <3>. QED
      BY <3>1, <3>2, NothingTrimmed
  <2>. QED
    BY <2>1, <2>2, <2>3
<1>10. /\ mapped[e] = endpointCache[e].results /\ mapped'[e] = added.results
       /\ mappedEvents[e] = endpointCache[e].events /\ mappedEvents'[e] = added.events
       /\ \A f \in Endpoints \ {e} :
             mapped'[f] = mapped[f] /\ mappedEvents'[f] = mappedEvents[f]
  BY <1>3
<1>11. all = Append(mapped[e], result)
  BY <1>4, <1>10 DEF all
<1>. HIDE DEF mapped, mappedEvents
<1>12. /\ mapped'[e] # <<>>
       /\ LET last == mapped'[e][Len(mapped'[e])] IN
          /\ MemoryHistory!TrimmedTo(mapped'[e], Append(mapped[e], last), MaxResults)
          /\ MemoryHistory!TrimmedTo(mappedEvents'[e],
                MemoryHistory!EventsAfter(mappedEvents[e], mapped[e], last), MaxEvents)
  BY <1>8, <1>9, <1>10, <1>11
<1>. QED
  BY <1>10, <1>12 DEF MemoryHistory!Insert, mapped, mappedEvents

(* A deletion forgets statuses as a whole, but for one that an insertion is
   about to put back. *)
LEMMA DeletionForgets ==
    ASSUME MemoryInv, DeleteListedKeys
    PROVE  MemoryHistory!Forget
<1>1. \A e \in Endpoints :
         \/ Visible(e)' = NoStatus
         \/ Visible(e)' = Visible(e)
  BY DEF DeleteListedKeys, Visible, IsLocked
<1>. QED
  BY <1>1 DEF MemoryHistory!Forget, NoStatus

(* The end of an insertion and the listing of keys change nothing a reader of
   the history sees. *)
LEMMA EndInsertStutters ==
    ASSUME MemoryInv, EndInsert
    PROVE  UNCHANGED MemoryHistory!historyVars
<1>1. locked # Nobody /\ locked.key \in Endpoints
  BY DEF EndInsert, MemoryInv, MemoryTypeOK
<1>2. /\ endpointCache' = [endpointCache EXCEPT ![locked.key] = locked.status]
      /\ locked' = Nobody
      /\ endpointCache \in [Endpoints -> StatusRecord]
  BY DEF EndInsert, MemoryInv, MemoryTypeOK
<1>3. \A e \in Endpoints : Visible(e)' = Visible(e)
  BY <1>1, <1>2 DEF Visible, IsLocked
<1>. QED
  BY <1>3 DEF MemoryHistory!historyVars

LEMMA UnchangedStutters ==
    ASSUME UNCHANGED <<endpointCache, locked>>
    PROVE  UNCHANGED MemoryHistory!historyVars
BY DEF MemoryHistory!historyVars, Visible, IsLocked

(* Every step of the memory store is a step of the bounded history or changes
   nothing of it: whatever the endpoints, the maxima and the interleaving of
   insertions with deletions, results are lost only from the old end, and
   every change of outcome has its event. *)
THEOREM MemoryStoreImplementsHistory == MemorySpec => MemoryImplementsHistory
<1>1. MemoryInit => MemoryHistory!HistoryInit
  BY DEF MemoryInit, MemoryHistory!HistoryInit, Visible, IsLocked, NoStatus
<1>2. MemoryInv /\ [MemoryNext]_memoryVars
        => [MemoryHistory!HistoryNext]_(MemoryHistory!historyVars)
  <2>. SUFFICES ASSUME MemoryInv, [MemoryNext]_memoryVars
                PROVE  MemoryHistory!HistoryNext \/ UNCHANGED MemoryHistory!historyVars
    OBVIOUS
  <2>1. ASSUME NEW e \in Endpoints, NEW success \in BOOLEAN, BeginInsert(e, success)
        PROVE  MemoryHistory!HistoryNext
    BY <2>1, BeginInsertInserts DEF MemoryHistory!HistoryNext
  <2>2. CASE EndInsert
    BY <2>2, EndInsertStutters
  <2>3. ASSUME NEW keys \in SUBSET Endpoints, ListKeysToDelete(keys)
        PROVE  UNCHANGED MemoryHistory!historyVars
    BY <2>3, UnchangedStutters DEF ListKeysToDelete
  <2>4. CASE DeleteListedKeys
    BY <2>4, DeletionForgets DEF MemoryHistory!HistoryNext
  <2>5. CASE UNCHANGED memoryVars
    BY <2>5, UnchangedStutters DEF memoryVars
  <2>. QED
    BY <2>1, <2>2, <2>3, <2>4, <2>5 DEF MemoryNext
<1>. QED
  BY <1>1, <1>2, InitialInv, InvIsPreserved, PTL
  DEF MemorySpec, MemoryImplementsHistory, MemoryHistory!HistorySpec

-----------------------------------------------------------------------------
(* Pages of the memory store *)

\* Trimming after every insertion keeps as much as trimming once in the end.
LEMMA TrimmingCanWait ==
    ASSUME NEW S, NEW h \in Seq(S), NEW x \in S, NEW max \in Nat \ {0}
    PROVE  MostRecent(Append(MostRecent(h, max), x), max) = MostRecent(Append(h, x), max)
<1>1. PICK n \in Nat : n = Len(h)
    OBVIOUS
<1>2. CASE ~(n > max)
    BY <1>1, <1>2 DEF MostRecent
<1>3. CASE n > max
  <2> DEFINE m == SubSeq(h, n - max + 1, n)
             q == Append(m, x)
             s == Append(h, x)
             a == SubSeq(q, 2, max + 1)
             b == SubSeq(s, n - max + 2, n + 1)
  <2>1. m \in Seq(S) /\ Len(m) = max
      BY <1>1, <1>3
  <2>2. \A i \in 1 .. max : m[i] = h[n - max + i]
      BY <1>1, <1>3, <2>1
  <2>3. MostRecent(h, max) = m
      BY <1>1, <1>3 DEF MostRecent
  <2> HIDE DEF m
  <2>4. q \in Seq(S) /\ Len(q) = max + 1 /\ q[max + 1] = x /\ \A i \in 1 .. max : q[i] = m[i]
      BY <2>1, AppendProperties
  <2>5. s \in Seq(S) /\ Len(s) = n + 1 /\ s[n + 1] = x /\ \A i \in 1 .. n : s[i] = h[i]
      BY <1>1, AppendProperties
  <2> HIDE DEF q, s
  <2>6. a \in Seq(S) /\ Len(a) = max /\ \A i \in 1 .. max : a[i] = q[i + 1]
      BY <2>4
  <2>7. b \in Seq(S) /\ Len(b) = max /\ \A i \in 1 .. max : b[i] = s[n - max + 1 + i]
      BY <1>3, <2>5
  <2> HIDE DEF a, b
  <2>8. \A i \in 1 .. max : a[i] = b[i]
    <3> TAKE i \in 1 .. max
    <3>1. CASE i = max
        BY <1>3, <2>4, <2>5, <2>6, <2>7, <3>1
    <3>2. CASE i < max
      <4>1. q[i + 1] = m[i + 1] /\ m[i + 1] = h[n - max + i + 1]
        <5>1. i \in 1 .. max /\ i + 1 \in 1 .. max
            BY <3>2
        <5>2. PICK j \in 1 .. max : j = i + 1
            BY <5>1
        <5>3. q[j] = m[j] /\ m[j] = h[n - max + j]
            BY ZenonT(60), <2>2, <2>4
        <5>4. n - max + j = n - max + i + 1
            BY <5>2
        <5> QED BY <5>2, <5>3, <5>4
      <4>2. s[n - max + 1 + i] = h[n - max + 1 + i]
        <5>1. n - max + 1 + i \in 1 .. n
            BY <1>3, <3>2
        <5> QED BY <2>5, <5>1
      <4> QED BY <1>3, <2>6, <2>7, <4>1, <4>2
    <3> QED BY <3>1, <3>2
  <2>9. a = b
      BY <2>6, <2>7, <2>8, SeqEqual
  <2>10. MostRecent(q, max) = a
      BY <2>4 DEF MostRecent, a
  <2>11. MostRecent(s, max) = b
    <3>1. n + 1 > max /\ (n + 1) - max + 1 = n - max + 2
        BY <1>3
    <3> QED BY <2>5, <3>1 DEF MostRecent, b
  <2> QED BY <2>3, <2>9, <2>10, <2>11 DEF q, s
<1> QED BY <1>2, <1>3

\* What is kept is enough for every page within the maximum.
LEMMA PagesOfMostRecent ==
    ASSUME NEW S, NEW h \in Seq(S), NEW max \in Nat \ {0},
           NEW page \in Nat \ {0}, NEW size \in Nat \ {0}, page * size <= max
    PROVE  /\ MemoryPage(MostRecent(h, max), page, size) = SqlPage(h, page, size)
           /\ MemoryPage(MostRecent(h, max), page, size) = MemoryPage(h, page, size)
<1>1. PICK q \in Seq(S) : q = MostRecent(h, max)
    BY MostRecentTrims
<1>2. SameNewest(q, h, max)
  <2>1. CASE ~(Len(h) > max)
      BY <1>1, <2>1 DEF MostRecent, SameNewest
  <2>2. CASE Len(h) > max
    <3>1. Len(q) = max /\ \A i \in 1 .. max : q[i] = h[Len(h) - max + i]
        BY <1>1, <2>2 DEF MostRecent
    <3>2. ASSUME NEW i \in 0 .. max - 1
          PROVE  i < Len(q) /\ i < Len(h) /\ q[Len(q) - i] = h[Len(h) - i]
      <4>1. max - i \in 1 .. max /\ Len(h) - max + (max - i) = Len(h) - i
          BY <2>2
      <4> QED BY <2>2, <3>1, <4>1
    <3> QED BY <3>2 DEF SameNewest
  <2> QED BY <2>1, <2>2
<1>3. SqlPage(q, page, size) = SqlPage(h, page, size)
    BY <1>2, SamePages
<1>4. MemoryPage(q, page, size) = SqlPage(q, page, size) /\ MemoryPage(h, page, size) = SqlPage(h, page, size)
    BY StoresCutTheSamePage
<1> QED BY <1>1, <1>3, <1>4

\* A status holds the most recent of the results it has taken in.
KeptResults == \A e \in Endpoints : Visible(e).results = MostRecent(inOrder[e], MaxResults)

LEMMA KeptInitially == MemoryInit => KeptResults
<1> SUFFICES ASSUME MemoryInit, NEW e \in Endpoints
             PROVE  Visible(e).results = MostRecent(inOrder[e], MaxResults)
    BY DEF KeptResults
<1>1. Visible(e).results = <<>> /\ inOrder[e] = <<>>
    BY DEF MemoryInit, Visible, IsLocked, NoStatus
<1>2. MostRecent(<<>>, MaxResults) = <<>>
    BY MaximaArePositive DEF MostRecent
<1> QED BY <1>1, <1>2

LEMMA KeptResultsKept == MemoryInv /\ KeptResults /\ [MemoryNext]_memoryVars => KeptResults'
<1> SUFFICES ASSUME MemoryInv, KeptResults, [MemoryNext]_memoryVars, NEW e \in Endpoints
             PROVE  Visible(e)'.results = MostRecent(inOrder'[e], MaxResults)
    BY DEF KeptResults
<1>0. /\ Visible(e).results = MostRecent(inOrder[e], MaxResults)
      /\ inOrder \in [Endpoints -> Seq(Result)] /\ endpointCache \in [Endpoints -> StatusRecord]
      /\ inOrder[e] \in Seq(Result)
    BY DEF KeptResults, MemoryInv, MemoryTypeOK
<1>1. ASSUME NEW f \in Endpoints, NEW success \in BOOLEAN, BeginInsert(f, success)
      PROVE  Visible(e)'.results = MostRecent(inOrder'[e], MaxResults)
  <2>1. PICK status, result :
            /\ status = IF endpointCache[f].exists THEN endpointCache[f] ELSE NewStatus
            /\ result = [id |-> inserted + 1, success |-> success]
            /\ locked' = [holds |-> TRUE, key |-> f, status |-> AddResult(status, result)]
            /\ inOrder' = [inOrder EXCEPT ![f] = Append(inOrder[f], result)]
      BY <1>1 DEF BeginInsert
  <2>2. locked = Nobody /\ endpointCache' = endpointCache
      BY <1>1 DEF BeginInsert
  <2>3. Visible(e) = endpointCache[e]
      BY <2>2 DEF Visible, IsLocked
  <2>4. CASE e = f
    <3>1. Visible(e)' = AddResult(status, result)
        BY <2>1, <2>4 DEF Visible, IsLocked, Nobody
    <3>2. result \in Result
        BY <2>1 DEF MemoryInv, MemoryTypeOK, Result
    <3>3. status.results = MostRecent(inOrder[e], MaxResults)
        BY <1>0, <2>1, <2>3, <2>4 DEF MemoryInv, StatusInv, NoStatus, NewStatus
    <3>4. status \in StatusRecord
      <4>1. NewStatus \in StatusRecord
          BY DEF NewStatus, StatusRecord, EventType
      <4> QED BY <1>0, <2>1, <4>1
    <3>5. AddResult(status, result).results = MostRecent(Append(status.results, result), MaxResults)
        BY <3>4 DEF AddResult, StatusRecord
    <3>6. inOrder'[e] = Append(inOrder[e], result)
        BY <1>0, <2>1, <2>4
    <3> QED BY <1>0, <3>1, <3>2, <3>3, <3>5, <3>6, TrimmingCanWait, MaximaArePositive
  <2>5. CASE e # f
    <3>1. Visible(e)' = endpointCache[e] /\ inOrder'[e] = inOrder[e]
        BY <1>0, <2>1, <2>2, <2>5 DEF Visible, IsLocked
    <3> QED BY <1>0, <2>3, <3>1
  <2> QED BY <2>4, <2>5
<1>2. CASE EndInsert
  <2>1. Visible(e)' = Visible(e) /\ inOrder' = inOrder
    <3>1. /\ locked # Nobody /\ locked' = Nobody /\ inOrder' = inOrder
          /\ endpointCache' = [endpointCache EXCEPT ![locked.key] = locked.status]
        BY <1>2 DEF EndInsert
    <3>2. Visible(e)' = endpointCache'[e]
        BY <3>1 DEF Visible, IsLocked
    <3> QED BY <1>0, <3>1, <3>2 DEF Visible, IsLocked
  <2> QED BY <1>0, <2>1
<1>3. ASSUME NEW keys \in SUBSET Endpoints, ListKeysToDelete(keys)
      PROVE  Visible(e)'.results = MostRecent(inOrder'[e], MaxResults)
    BY <1>0, <1>3 DEF ListKeysToDelete, Visible, IsLocked
<1>4. CASE DeleteListedKeys
  <2>1. /\ endpointCache'[e] = IF e \in toDelete THEN NoStatus ELSE endpointCache[e]
        /\ inOrder'[e] = IF e \in toDelete /\ ~IsLocked(e) THEN <<>> ELSE inOrder[e]
        /\ locked' = locked
      BY <1>4 DEF DeleteListedKeys
  <2>2. CASE IsLocked(e)
      BY <1>0, <2>1, <2>2 DEF Visible, IsLocked
  <2>3. CASE ~IsLocked(e)
    <3>1. Visible(e)' = endpointCache'[e] /\ Visible(e) = endpointCache[e]
        BY <2>1, <2>3 DEF Visible, IsLocked
    <3>2. MostRecent(<<>>, MaxResults) = <<>> /\ NoStatus.results = <<>>
        BY MaximaArePositive DEF MostRecent, NoStatus
    <3> QED BY <1>0, <2>1, <2>3, <3>1, <3>2
  <2> QED BY <2>2, <2>3
<1>5. CASE UNCHANGED memoryVars
    BY <1>0, <1>5 DEF memoryVars, Visible, IsLocked
<1> QED BY <1>1, <1>2, <1>3, <1>4, <1>5 DEF MemoryNext

LEMMA MemoryAnswersFollow == MemoryInv /\ KeptResults => MemoryAnswersFromHistory
<1> SUFFICES ASSUME MemoryInv, KeptResults, NEW e \in Endpoints,
                    NEW page \in 0 .. MaxResults, NEW pageSize \in 0 .. MaxResults,
                    NEW p, p = RequestedPage(page), NEW size, size = RequestedPageSize(page, pageSize),
                    p * size <= MaxResults, ~IsLocked(e)
             PROVE  MemoryResults(e, p, size) = SqlPage(inOrder[e], p, size)
    BY DEF MemoryAnswersFromHistory
<1>1. p \in Nat \ {0} /\ size \in Nat \ {0}
    BY MaximaArePositive DEF RequestedPage, RequestedPageSize
<1>2. endpointCache[e].results = MostRecent(inOrder[e], MaxResults)
    BY DEF KeptResults, Visible
<1>3. inOrder[e] \in Seq(Result)
    BY DEF MemoryInv, MemoryTypeOK
<1> QED BY <1>1, <1>2, <1>3, PagesOfMostRecent, MaximaArePositive DEF MemoryResults

(* MemoryAnswersFromHistory: a page of the memory store is the page that the
   queries of the SQL stores would cut out of everything that was inserted, for
   any endpoints and maxima and whatever deletions run in the middle of it. *)
THEOREM MemoryPagesAreRight == MemorySpec => []MemoryAnswersFromHistory
<1> QED BY InitialInv, InvIsPreserved, KeptInitially, KeptResultsKept, MemoryAnswersFollow, PTL DEF MemorySpec

-----------------------------------------------------------------------------
(* Suites: what both kinds of store keep, and the list of the memory store *)

SuiteLink == [endpoint : SuiteEndpoints, result : Nat]
SuiteTransaction ==
    [at : {"idle", "create", "write", "commit"}, suite : Suites \cup {NoSuiteTx.suite},
     suiteId : Nat, created : BOOLEAN, made : SUBSET SuiteEndpoints, result : SUBSET SuiteResult,
     links : SUBSET SuiteLink, old : SUBSET SuiteResult]

SuiteShapes ==
    /\ suiteCache \in [Suites -> Seq(SuiteResult)]
    /\ suites \in [Suites -> Nat]
    /\ suiteResults \in [Suites -> SUBSET SuiteResult]
    /\ ranWith \in [Suites -> SUBSET SuiteResult]
    /\ linkedResults \in SUBSET SuiteLink
    /\ forgotten \in SUBSET SuiteLink
    /\ suiteTx \in [Writers -> SuiteTransaction]
    /\ suiteSequence \in Nat

\* The ids of what was inserted are unique and of the past.
SuiteHistoryIsATable ==
    \A s \in Suites : IsTable(ranWith[s]) /\ \A r \in ranWith[s] : r.id <= suiteSequence

KeptSuiteResults == \A s \in Suites : suiteCache[s] = MostRecent(ById(ranWith[s]), MaxResults)

SuitesMemoryInv == SuiteShapes /\ SuiteHistoryIsATable /\ KeptSuiteResults /\ forgotten = {}

LEMMA NoSuiteTxIsTyped == NoSuiteTx \in SuiteTransaction /\ NoSuiteTx.at = "idle"
<1> DEFINE nobody == CHOOSE s \in Suites : TRUE
<1>1. /\ NoSuiteTx = [at |-> "idle", suite |-> nobody, suiteId |-> 0, created |-> FALSE,
                      made |-> {}, result |-> {}, links |-> {}, old |-> {}]
      /\ NoSuiteTx.suite = nobody
    BY DEF NoSuiteTx
<1> HIDE DEF nobody
<1> QED BY <1>1 DEF SuiteTransaction

LEMMA SuiteShapesInitially == SuitesInit => SuiteShapes
<1> HAVE SuitesInit
<1>1. /\ suiteCache = [s \in Suites |-> <<>>] /\ suites = [s \in Suites |-> 0]
      /\ suiteResults = [s \in Suites |-> {}] /\ ranWith = [s \in Suites |-> {}]
      /\ linkedResults = {} /\ forgotten = {} /\ suiteTx = [w \in Writers |-> NoSuiteTx] /\ suiteSequence = 0
    BY DEF SuitesInit
<1>2. suiteTx \in [Writers -> SuiteTransaction]
    BY <1>1, NoSuiteTxIsTyped
<1> QED BY <1>1, <1>2 DEF SuiteShapes

LEMMA SuitesInMemoryInitially == SuitesInit => SuitesMemoryInv
<1> HAVE SuitesInit
<1>1. /\ suiteCache = [s \in Suites |-> <<>>] /\ ranWith = [s \in Suites |-> {}] /\ forgotten = {}
    BY DEF SuitesInit
<1>2. MostRecent(<<>>, MaxResults) = <<>>
    BY MaximaArePositive DEF MostRecent
<1>3. SuiteHistoryIsATable /\ KeptSuiteResults
    BY <1>1, <1>2, NoRows DEF SuiteHistoryIsATable, KeptSuiteResults
<1> QED BY <1>1, <1>3, SuiteShapesInitially DEF SuitesMemoryInv

\* An insertion puts its result last, in the list as in the history.
LEMMA InsertionKeepsSuites ==
    ASSUME SuitesMemoryInv, NEW s \in Suites, NEW success \in BOOLEAN, NEW ran \in SUBSET SuiteEndpoints,
           InsertSuiteResultInMemory(s, success, ran)
    PROVE  SuitesMemoryInv'
<1>1. PICK x : x = [id |-> suiteSequence + 1, success |-> success, ran |-> ran]
    OBVIOUS
<1>2. /\ suiteCache' = [suiteCache EXCEPT ![s] = MostRecent(Append(suiteCache[s], x), MaxResults)]
      /\ ranWith' = [ranWith EXCEPT ![s] = ranWith[s] \cup {x}]
      /\ suiteSequence' = suiteSequence + 1
      /\ UNCHANGED <<suites, suiteResults, linkedResults, suiteTx, forgotten>>
    BY <1>1 DEF InsertSuiteResultInMemory
<1>3. suiteSequence \in Nat /\ x \in SuiteResult /\ x.id = suiteSequence + 1
    BY <1>1 DEF SuitesMemoryInv, SuiteShapes, SuiteResult
<1>4. suiteCache'[s] = MostRecent(Append(suiteCache[s], x), MaxResults) /\ ranWith'[s] = ranWith[s] \cup {x}
    BY <1>2 DEF SuitesMemoryInv, SuiteShapes
<1>5. SuiteShapes'
  <2>1. suiteCache[s] \in Seq(SuiteResult)
      BY DEF SuitesMemoryInv, SuiteShapes
  <2>2. MostRecent(Append(suiteCache[s], x), MaxResults) \in Seq(SuiteResult)
    <3>1. Append(suiteCache[s], x) \in Seq(SuiteResult)
        BY <1>3, <2>1
    <3> QED BY <3>1, MostRecentTrims, MaximaArePositive
  <2> QED BY <1>2, <1>3, <2>2 DEF SuitesMemoryInv, SuiteShapes
<1>6. /\ IsTable(ranWith'[s]) /\ \A r \in ranWith'[s] : r.id <= suiteSequence'
      /\ suiteCache'[s] = MostRecent(ById(ranWith'[s]), MaxResults)
  <2>1. PICK h : /\ h = ranWith[s] /\ h \subseteq SuiteResult /\ suiteCache[s] = MostRecent(ById(h), MaxResults)
                 /\ IsTable(h) /\ \A r \in h : r.id \in Nat /\ r.id <= suiteSequence
      BY DEF SuitesMemoryInv, SuiteShapes, SuiteHistoryIsATable, KeptSuiteResults, IsTable
  <2>2. x.id \in Nat /\ \A r \in h : r.id < x.id
      BY <1>3, <2>1
  <2>3. IsTable(h \cup {x}) /\ ById(h \cup {x}) = Append(ById(h), x)
    <3>1. IsTable(h) /\ x.id \in Nat
        BY <2>1, <2>2
    <3>2. \A r \in h : r.id < x.id
        BY <2>2
    <3> QED BY ONLY <3>1, <3>2, NewRowComesLast
  <2>4. ById(h) \in Seq(SuiteResult)
    <3>1. ById(h) \in Seq(h)
        BY <2>1, ByIdSorts
    <3> QED BY <2>1, <3>1, SeqMonotonic
  <2>5. MostRecent(Append(MostRecent(ById(h), MaxResults), x), MaxResults) = MostRecent(Append(ById(h), x), MaxResults)
      BY <1>3, <2>4, TrimmingCanWait, MaximaArePositive
  <2>6. ranWith'[s] = h \cup {x} /\ suiteCache'[s] = MostRecent(Append(MostRecent(ById(h), MaxResults), x), MaxResults)
      BY <1>4, <2>1
  <2>7. \A r \in h \cup {x} : r.id <= suiteSequence'
      BY <1>2, <1>3, <2>1
  <2> QED BY <2>3, <2>5, <2>6, <2>7
<1>7. ASSUME NEW u \in Suites, u # s
      PROVE  /\ IsTable(ranWith'[u]) /\ \A r \in ranWith'[u] : r.id <= suiteSequence'
             /\ suiteCache'[u] = MostRecent(ById(ranWith'[u]), MaxResults)
  <2>1. suiteCache'[u] = suiteCache[u] /\ ranWith'[u] = ranWith[u]
      BY <1>2, <1>7 DEF SuitesMemoryInv, SuiteShapes
  <2>2. \A r \in ranWith[u] : r.id \in Nat /\ r.id <= suiteSequence
      BY DEF SuitesMemoryInv, SuiteHistoryIsATable, IsTable
  <2> QED BY <1>2, <1>3, <2>1, <2>2 DEF SuitesMemoryInv, SuiteHistoryIsATable, KeptSuiteResults
<1>8. SuiteHistoryIsATable' /\ KeptSuiteResults'
    BY <1>6, <1>7 DEF SuiteHistoryIsATable, KeptSuiteResults
<1> QED BY <1>2, <1>5, <1>8 DEF SuitesMemoryInv

LEMMA DeletionKeepsSuites ==
    ASSUME SuitesMemoryInv, NEW keys \in SUBSET Suites, DeleteSuitesFromMemory(keys)
    PROVE  SuitesMemoryInv'
<1>1. /\ suiteCache' = [s \in Suites |-> IF s \in keys THEN suiteCache[s] ELSE <<>>]
      /\ ranWith' = [s \in Suites |-> IF s \in keys THEN ranWith[s] ELSE {}]
      /\ UNCHANGED <<suites, suiteResults, linkedResults, suiteTx, suiteSequence, forgotten>>
    BY DEF DeleteSuitesFromMemory
<1>2. SuiteShapes'
    BY <1>1 DEF SuitesMemoryInv, SuiteShapes
<1>3. ASSUME NEW s \in Suites
      PROVE  /\ IsTable(ranWith'[s]) /\ \A r \in ranWith'[s] : r.id <= suiteSequence'
             /\ suiteCache'[s] = MostRecent(ById(ranWith'[s]), MaxResults)
  <2>1. MostRecent(<<>>, MaxResults) = <<>>
      BY MaximaArePositive DEF MostRecent
  <2> QED BY <1>1, <2>1, NoRows DEF SuitesMemoryInv, SuiteHistoryIsATable, KeptSuiteResults
<1> QED BY <1>1, <1>2, <1>3 DEF SuitesMemoryInv, SuiteHistoryIsATable, KeptSuiteResults

LEMMA SuitesInMemoryKept == SuitesMemoryInv /\ [SuitesInMemoryNext]_suiteVars => SuitesMemoryInv'
<1> SUFFICES ASSUME SuitesMemoryInv, [SuitesInMemoryNext]_suiteVars PROVE SuitesMemoryInv'
    OBVIOUS
<1>1. CASE SuitesInMemoryNext
    BY <1>1, InsertionKeepsSuites, DeletionKeepsSuites DEF SuitesInMemoryNext
<1>2. CASE UNCHANGED suiteVars
    BY <1>2 DEF suiteVars, suiteGhosts, SuitesMemoryInv, SuiteShapes, SuiteHistoryIsATable, KeptSuiteResults
<1> QED BY <1>1, <1>2

LEMMA SuitesInMemoryAnswer == SuitesMemoryInv => AnswersFromSuiteHistory(MemorySuiteResults)
<1> SUFFICES ASSUME SuitesMemoryInv, NEW s \in Suites,
                    NEW page \in 0 .. MaxResults, NEW pageSize \in 0 .. MaxResults,
                    NEW p, p = RequestedPage(page), NEW size, size = RequestedPageSize(page, pageSize),
                    p * size <= MaxResults
             PROVE  LET expected == MemoryPage(ById(ranWith[s]), p, size)
                    IN  MemorySuiteResults(s, p, size) = [i \in DOMAIN expected |-> Remaining(expected[i])]
    BY DEF AnswersFromSuiteHistory
<1>1. p \in Nat \ {0} /\ size \in Nat \ {0}
    BY MaximaArePositive DEF RequestedPage, RequestedPageSize
<1>2. suiteCache[s] = MostRecent(ById(ranWith[s]), MaxResults) /\ IsTable(ranWith[s])
    BY DEF SuitesMemoryInv, SuiteHistoryIsATable, KeptSuiteResults
<1>3. ById(ranWith[s]) \in Seq(ranWith[s])
    BY <1>2, ByIdSorts
<1>4. MemorySuiteResults(s, p, size) = MemoryPage(suiteCache[s], p, size)
    BY <1>1 DEF MemorySuiteResults
<1>5. PICK page0 : page0 = MemoryPage(ById(ranWith[s]), p, size)
    OBVIOUS
<1>6. MemorySuiteResults(s, p, size) = page0
    BY <1>1, <1>2, <1>3, <1>4, <1>5, PagesOfMostRecent, MaximaArePositive
<1>7. page0 \in Seq(SuiteResult)
  <2>1. PICK S : S = ranWith[s] /\ S \subseteq SuiteResult /\ ById(S) \in Seq(S)
      BY <1>3 DEF SuitesMemoryInv, SuiteShapes
  <2>2. ById(S) \in Seq(SuiteResult)
      BY <2>1, SeqMonotonic
  <2>3. page0 = SqlPage(ById(S), p, size)
      BY <1>1, <1>5, <2>1, <2>2, StoresCutTheSamePage
  <2> QED BY <1>1, <2>2, <2>3, PageIsTyped
<1>8. \A i \in DOMAIN page0 : Remaining(page0[i]) = page0[i]
  <2> TAKE i \in DOMAIN page0
  <2>1. page0[i] \in SuiteResult
      BY <1>7
  <2>2. {l.endpoint : l \in {m \in forgotten : m.result = page0[i].id}} = {}
      BY DEF SuitesMemoryInv
  <2>3. [page0[i] EXCEPT !.ran = @ \ {}] = page0[i]
      BY <2>1 DEF SuiteResult
  <2> QED BY <2>2, <2>3 DEF Remaining
<1>9. [i \in DOMAIN page0 |-> page0[i]] = page0
    BY <1>7
<1> QED BY <1>5, <1>6, <1>8, <1>9

-----------------------------------------------------------------------------
(* Suites: the tables and the transactions of the SQL stores *)

SuiteActive(w) == suiteTx[w].at # "idle"
SuiteWritten(w) == suiteTx[w].at = "commit"

\* The only result that a transaction has inserted.
SuiteInserted(w) == CHOOSE x \in suiteTx[w].result : TRUE

\* What is missing has as many newer results as may be asked for, the results of
\* a suite go with its row, and the ids of different suites differ.
SuiteTablesAreSound ==
    /\ \A s \in Suites :
        /\ suiteResults[s] \subseteq ranWith[s]
        /\ suites[s] = 0 => ranWith[s] = {}
        /\ \A r \in ranWith[s] \ suiteResults[s] : Newer(ranWith[s], r) >= MaxResults
    /\ \A s, u \in Suites : s # u => \A r \in ranWith[s], q \in ranWith[u] : r.id # q.id

\* The results of endpoints that refer to a result of the suite are of the
\* endpoints that ran and were not deleted since.
LinksAreOf(r) == {l.endpoint : l \in {m \in linkedResults : m.result = r.id}}
ForgottenOf(r) == {l.endpoint : l \in {m \in forgotten : m.result = r.id}}
LinksAreSound ==
    /\ \A s \in Suites : \A r \in suiteResults[s] : LinksAreOf(r) = r.ran \ ForgottenOf(r)
    /\ \A l \in linkedResults \cup forgotten : l.result <= suiteSequence

\* What a transaction has written and may have cleaned up.
SuiteTransactionIsSound(w) ==
    /\ SuiteActive(w) => suiteTx[w].suite \in Suites
    /\ SuiteActive(w) /\ ~SuiteWritten(w) => suiteTx[w].result = {} /\ suiteTx[w].old = {}
    /\ suiteTx[w].at = "create" => ~suiteTx[w].created
    /\ suiteTx[w].at \in {"write", "commit"} => suiteTx[w].suiteId # 0
    /\ SuiteActive(w) /\ suiteTx[w].created => suites[suiteTx[w].suite] = 0 /\ suiteTx[w].old = {}
    /\ SuiteWritten(w) =>
        /\ suiteTx[w].result = {SuiteInserted(w)}
        /\ SuiteInserted(w).id <= suiteSequence
        /\ suiteTx[w].links = [endpoint : SuiteInserted(w).ran, result : {SuiteInserted(w).id}]
        /\ \A s \in Suites : \A r \in ranWith[s] : r.id # SuiteInserted(w).id
        /\ \A l \in linkedResults \cup forgotten : l.result # SuiteInserted(w).id
        /\ ~suiteTx[w].created => suites[suiteTx[w].suite] = suiteTx[w].suiteId
        /\ \A r \in suiteTx[w].old :
             /\ r \in ranWith[suiteTx[w].suite]
             /\ Newer(ranWith[suiteTx[w].suite] \cup {SuiteInserted(w)}, r) >= MaxResults

\* Nobody else creates the row of the same suite or writes the same result.
SuitesApart(v, w) ==
    /\ SuiteActive(v) /\ SuiteActive(w) /\ suiteTx[v].suite = suiteTx[w].suite =>
        ~(suiteTx[v].created /\ suiteTx[w].created)
    /\ SuiteWritten(v) /\ SuiteWritten(w) => SuiteInserted(v).id # SuiteInserted(w).id

SuiteTransactionsAreSound ==
    /\ \A w \in Writers : SuiteTransactionIsSound(w)
    /\ \A v, w \in Writers : v # w => SuitesApart(v, w)

SuitesSqlInv ==
    /\ SuiteShapes /\ SuiteHistoryIsATable /\ SuiteTablesAreSound /\ LinksAreSound
    /\ SuiteTransactionsAreSound

LEMMA SuitesInSqlInitially == SuitesInit => SuitesSqlInv
<1> HAVE SuitesInit
<1>1. /\ suites = [s \in Suites |-> 0] /\ suiteResults = [s \in Suites |-> {}]
      /\ ranWith = [s \in Suites |-> {}] /\ linkedResults = {} /\ forgotten = {}
      /\ suiteTx = [w \in Writers |-> NoSuiteTx]
    BY DEF SuitesInit
<1>2. SuiteHistoryIsATable /\ SuiteTablesAreSound /\ LinksAreSound
    BY <1>1, NoRows DEF SuiteHistoryIsATable, SuiteTablesAreSound, LinksAreSound
<1>3. \A w \in Writers : suiteTx[w].at = "idle"
    BY <1>1, NoSuiteTxIsTyped
<1>4. SuiteTransactionsAreSound
    BY <1>3 DEF SuiteTransactionsAreSound, SuiteTransactionIsSound, SuitesApart, SuiteActive, SuiteWritten
<1> QED BY <1>2, <1>4, SuiteShapesInitially DEF SuitesSqlInv

\* A step of one transaction that touches no table.
LEMMA OneSuiteTransactionChanges ==
    ASSUME SuitesSqlInv, NEW w \in Writers, NEW t \in SuiteTransaction, suiteTx' = [suiteTx EXCEPT ![w] = t],
           UNCHANGED <<suiteCache, suites, suiteResults, linkedResults, ranWith, forgotten>>,
           suiteSequence' \in Nat, suiteSequence' >= suiteSequence,
           SuiteTransactionIsSound(w)', \A v \in Writers \ {w} : SuitesApart(v, w)'
    PROVE  SuitesSqlInv'
<1>1. SuiteShapes'
    BY DEF SuitesSqlInv, SuiteShapes
<1>2. SuiteHistoryIsATable'
  <2>1. \A s \in Suites : \A r \in ranWith[s] : r.id \in Nat /\ r.id <= suiteSequence'
      BY DEF SuitesSqlInv, SuiteShapes, SuiteHistoryIsATable, IsTable
  <2> QED BY <2>1 DEF SuitesSqlInv, SuiteHistoryIsATable
<1>3. SuiteTablesAreSound'
    BY DEF SuitesSqlInv, SuiteTablesAreSound
<1>4. LinksAreSound'
  <2>1. \A l \in linkedResults \cup forgotten : l.result \in Nat /\ l.result <= suiteSequence'
      BY DEF SuitesSqlInv, SuiteShapes, SuiteLink, LinksAreSound
  <2> QED BY <2>1 DEF SuitesSqlInv, LinksAreSound, LinksAreOf, ForgottenOf
<1>5. ASSUME NEW v \in Writers, v # w
      PROVE  suiteTx'[v] = suiteTx[v] /\ SuiteInserted(v)' = SuiteInserted(v)
             /\ (SuiteActive(v)' <=> SuiteActive(v)) /\ (SuiteWritten(v)' <=> SuiteWritten(v))
    BY <1>5 DEF SuitesSqlInv, SuiteShapes, SuiteInserted, SuiteActive, SuiteWritten
<1>6. ASSUME NEW v \in Writers, v # w PROVE SuiteTransactionIsSound(v)'
  <2>1. SuiteTransactionIsSound(v)
      BY DEF SuitesSqlInv, SuiteTransactionsAreSound
  <2>2. SuiteWritten(v) => SuiteInserted(v) \in SuiteResult
      BY <2>1 DEF SuitesSqlInv, SuiteShapes, SuiteTransaction, SuiteTransactionIsSound
  <2>3. SuiteWritten(v) => SuiteInserted(v).id <= suiteSequence'
      BY <2>1, <2>2 DEF SuiteTransactionIsSound, SuiteResult, SuitesSqlInv, SuiteShapes
  <2> QED BY <1>5, <1>6, <2>1, <2>3 DEF SuiteTransactionIsSound
<1>7. ASSUME NEW u \in Writers, NEW v \in Writers, u # v PROVE SuitesApart(u, v)'
  <2>1. CASE u # w /\ v # w
      BY <1>5, <1>7, <2>1 DEF SuitesSqlInv, SuiteTransactionsAreSound, SuitesApart
  <2>2. CASE u = w
    <3>1. SuitesApart(v, w)'
        BY <1>7, <2>2
    <3> QED BY <2>2, <3>1 DEF SuitesApart
  <2>3. CASE v = w
      BY <1>7, <2>3
  <2> QED BY <2>1, <2>2, <2>3
<1> QED BY <1>1, <1>2, <1>3, <1>4, <1>6, <1>7 DEF SuitesSqlInv, SuiteTransactionsAreSound

\* A transaction that ends without a commit leaves nothing behind.
LEMMA SuiteRollBackKeeps ==
    ASSUME SuitesSqlInv, NEW w \in Writers, suiteTx' = [suiteTx EXCEPT ![w] = NoSuiteTx],
           UNCHANGED <<suiteCache, suites, suiteResults, linkedResults, suiteSequence, ranWith, forgotten>>
    PROVE  SuitesSqlInv'
<1>1. suiteTx'[w].at = "idle"
    BY NoSuiteTxIsTyped DEF SuitesSqlInv, SuiteShapes
<1>2. SuiteTransactionIsSound(w)' /\ \A v \in Writers \ {w} : SuitesApart(v, w)'
    BY <1>1 DEF SuiteTransactionIsSound, SuitesApart, SuiteActive, SuiteWritten
<1>3. suiteSequence' \in Nat /\ suiteSequence' >= suiteSequence
    BY DEF SuitesSqlInv, SuiteShapes
<1> QED BY <1>2, <1>3, NoSuiteTxIsTyped, OneSuiteTransactionChanges

LEMMA BeginKeepsSuites ==
    ASSUME SuitesSqlInv, NEW w \in Writers, NEW s \in Suites, BeginSuiteResult(w, s)
    PROVE  SuitesSqlInv'
<1> DEFINE t == [NoSuiteTx EXCEPT !.at = IF suites[s] = 0 THEN "create" ELSE "write",
                                  !.suite = s, !.suiteId = suites[s]]
<1>1. /\ suiteTx' = [suiteTx EXCEPT ![w] = t]
      /\ UNCHANGED <<suiteCache, suites, suiteResults, linkedResults, suiteSequence, ranWith, forgotten>>
    BY DEF BeginSuiteResult, suiteGhosts
<1>2. suites[s] \in Nat
    BY DEF SuitesSqlInv, SuiteShapes
<1>3. /\ t \in SuiteTransaction /\ t.suite = s /\ t.suiteId = suites[s] /\ ~t.created
      /\ t.result = {} /\ t.old = {} /\ t.at = IF suites[s] = 0 THEN "create" ELSE "write"
  <2>1. /\ NoSuiteTx \in SuiteTransaction /\ ~NoSuiteTx.created
        /\ NoSuiteTx.result = {} /\ NoSuiteTx.old = {}
      BY NoSuiteTxIsTyped DEF NoSuiteTx
  <2> QED BY <1>2, <2>1 DEF SuiteTransaction
<1> HIDE DEF t
<1>4. suiteTx'[w] = t
    BY <1>1 DEF SuitesSqlInv, SuiteShapes
<1>5. SuiteTransactionIsSound(w)' /\ \A v \in Writers \ {w} : SuitesApart(v, w)'
    BY <1>1, <1>3, <1>4 DEF SuiteTransactionIsSound, SuitesApart, SuiteActive, SuiteWritten
<1>6. suiteSequence' \in Nat /\ suiteSequence' >= suiteSequence
    BY <1>1 DEF SuitesSqlInv, SuiteShapes
<1> QED BY <1>1, <1>3, <1>5, <1>6, OneSuiteTransactionChanges

\* The row of a suite is created by one transaction at a time.
LEMMA InsertSuiteKeepsSuites ==
    ASSUME SuitesSqlInv, NEW w \in Writers, InsertSuite(w)
    PROVE  SuitesSqlInv'
<1>0. /\ suiteTx[w].at = "create" /\ UNCHANGED <<suiteCache, suites, suiteResults, linkedResults, ranWith, forgotten>>
      /\ \A v \in Writers \ {w} : ~(UncommittedSuite(suiteTx[v], suiteTx[w].suite) /\ suiteTx[v].created)
    BY DEF InsertSuite, suiteGhosts
<1>1. CASE suites[suiteTx[w].suite] # 0
  <2>1. suiteTx' = [suiteTx EXCEPT ![w] = NoSuiteTx] /\ UNCHANGED suiteSequence
      BY <1>1 DEF InsertSuite
  <2> QED BY <1>0, <2>1, SuiteRollBackKeeps
<1>2. CASE suites[suiteTx[w].suite] = 0
  <2>1. /\ suiteSequence' = suiteSequence + 1
        /\ suiteTx' = [suiteTx EXCEPT ![w].at = "write", ![w].suiteId = suiteSequence + 1, ![w].created = TRUE]
      BY <1>2 DEF InsertSuite
  <2> DEFINE t == [suiteTx[w] EXCEPT !.at = "write", !.suiteId = suiteSequence + 1, !.created = TRUE]
  <2>3. suiteTx[w] \in SuiteTransaction /\ suiteSequence \in Nat /\ SuiteTransactionIsSound(w)
      BY DEF SuitesSqlInv, SuiteShapes, SuiteTransactionsAreSound
  <2>4. suiteTx' = [suiteTx EXCEPT ![w] = t] /\ suiteTx'[w] = t
      BY <2>1 DEF SuitesSqlInv, SuiteShapes
  <2>5. /\ t \in SuiteTransaction /\ t.at = "write" /\ t.suite = suiteTx[w].suite /\ t.created
        /\ t.suiteId = suiteSequence + 1 /\ t.result = suiteTx[w].result /\ t.old = suiteTx[w].old
    <3>1. suiteSequence + 1 \in Nat
        BY <2>3
    <3>2. t \in SuiteTransaction
        BY <2>3, <3>1 DEF SuiteTransaction
    <3> QED BY <2>3, <3>2 DEF SuiteTransaction
  <2> HIDE DEF t
  <2>6. SuiteTransactionIsSound(w)'
      BY <1>0, <1>2, <2>3, <2>4, <2>5 DEF SuiteTransactionIsSound, SuiteActive, SuiteWritten
  <2>7. \A v \in Writers \ {w} : SuitesApart(v, w)'
    <3> TAKE v \in Writers \ {w}
    <3>1. suiteTx'[v] = suiteTx[v]
        BY <2>4 DEF SuitesSqlInv, SuiteShapes
    <3>2. ~(suiteTx[v].at # "idle" /\ suiteTx[v].suite = suiteTx[w].suite /\ suiteTx[v].created)
        BY <1>0 DEF UncommittedSuite
    <3> QED BY <2>4, <2>5, <3>1, <3>2 DEF SuitesApart, SuiteActive, SuiteWritten
  <2>8. suiteSequence' \in Nat /\ suiteSequence' >= suiteSequence
      BY <2>1, <2>3
  <2> QED BY <1>0, <2>4, <2>5, <2>6, <2>7, <2>8, OneSuiteTransactionChanges
<1> QED BY <1>1, <1>2

LEMMA WriteKeepsSuites ==
    ASSUME SuitesSqlInv, NEW w \in Writers, NEW success \in BOOLEAN, NEW ran \in SUBSET SuiteEndpoints,
           NEW skipped \in SUBSET ran, NEW made \in SUBSET (ran \ skipped), NEW cleans \in BOOLEAN,
           WriteSuiteResult(w, success, ran, skipped, made, cleans)
    PROVE  SuitesSqlInv'
<1>0. /\ suiteTx[w].at = "write"
      /\ UNCHANGED <<suiteCache, suites, suiteResults, linkedResults, ranWith, forgotten>>
    BY DEF WriteSuiteResult, suiteGhosts
<1>1. CASE ~suiteTx[w].created /\ suites[suiteTx[w].suite] # suiteTx[w].suiteId
  <2>1. suiteTx' = [suiteTx EXCEPT ![w] = NoSuiteTx] /\ UNCHANGED suiteSequence
      BY <1>1 DEF WriteSuiteResult
  <2> QED BY <1>0, <2>1, SuiteRollBackKeeps
<1>2. CASE suiteTx[w].created \/ suites[suiteTx[w].suite] = suiteTx[w].suiteId
  <2> DEFINE s == suiteTx[w].suite
             x == [id |-> suiteSequence + 1, success |-> success, ran |-> ran \ skipped]
             links == [endpoint : ran \ skipped, result : {x.id}]
             all == SuiteRowsSeenBy(suiteTx[w], s) \cup {x}
             old == IF cleans /\ Cardinality(all) > MaxResults + Slack
                    THEN AllButMostRecent(all, MaxResults) ELSE {}
             t == [suiteTx[w] EXCEPT !.at = "commit", !.made = made, !.result = {x}, !.links = links, !.old = old]
  <2>1. suiteSequence' = suiteSequence + 1 /\ suiteTx' = [suiteTx EXCEPT ![w] = t]
    <3>1. ~(~suiteTx[w].created /\ suites[s] # suiteTx[w].suiteId)
        BY <1>2
    <3>2. WriteSuiteResult(w, success, ran, skipped, made, cleans)
        OBVIOUS
    <3> QED BY ONLY <3>1, <3>2 DEF WriteSuiteResult
  <2>2. old # {} => old = AllButMostRecent(all, MaxResults)
      OBVIOUS
  <2> HIDE DEF old, all
  <2>3. /\ suiteTx[w] \in SuiteTransaction /\ suiteSequence \in Nat /\ SuiteTransactionIsSound(w) /\ s \in Suites
      BY <1>0 DEF SuitesSqlInv, SuiteShapes, SuiteTransactionsAreSound, SuiteTransactionIsSound, SuiteActive
  <2>4. /\ x \in SuiteResult /\ x.id = suiteSequence + 1 /\ x.id \in Nat
        /\ links = [endpoint : x.ran, result : {x.id}] /\ links \subseteq SuiteLink
    <3>1. x.id = suiteSequence + 1 /\ x.ran = ran \ skipped /\ x.success = success /\ x.id \in Nat
        BY <2>3
    <3>2. x \in SuiteResult
        BY <2>3 DEF SuiteResult
    <3>3. links \subseteq SuiteLink
        BY <2>3 DEF SuiteLink
    <3> QED BY <3>1, <3>2, <3>3
  <2>5. /\ IsTable(ranWith[s]) /\ suiteResults[s] \subseteq ranWith[s] /\ ranWith[s] \subseteq SuiteResult
        /\ \A u \in Suites : \A r \in ranWith[u] : r.id \in Nat /\ r.id <= suiteSequence
        /\ suites[s] = 0 => ranWith[s] = {}
      BY <2>3 DEF SuitesSqlInv, SuiteShapes, SuiteHistoryIsATable, SuiteTablesAreSound, IsTable
  <2>6. SuiteRowsSeenBy(suiteTx[w], s) = suiteResults[s]
      BY <1>0, <2>3 DEF SuiteRowsSeenBy, SuiteTransactionIsSound, SuiteActive, SuiteWritten
  <2>7. old # {} => old = AllButMostRecent(suiteResults[s] \cup {x}, MaxResults)
      BY <2>2, <2>6 DEF all
  <2>12. /\ t.at = "commit" /\ t.suite = s /\ t.created = suiteTx[w].created
         /\ t.suiteId = suiteTx[w].suiteId /\ t.result = {x} /\ t.links = links /\ t.old = old
      BY <2>3 DEF SuiteTransaction
  <2> HIDE DEF t, x, links
  <2>8. AllButMostRecent({x}, MaxResults) = {}
    <3>1. {r \in {x} : r.id > x.id} = {}
        BY <2>3, <2>4
    <3>2. Cardinality({r \in {x} : r.id > x.id}) = 0
        BY <3>1, FS_EmptySet
    <3>3. \A q \in {x} : ~(Cardinality({r \in {x} : r.id > q.id}) >= MaxResults)
        BY <3>2, MaximaArePositive
    <3> QED BY <3>3, Zenon DEF AllButMostRecent
  <2>9. \A r \in old : r \in ranWith[s] /\ Newer(ranWith[s] \cup {x}, r) >= MaxResults
    <3> SUFFICES ASSUME NEW r \in old PROVE r \in ranWith[s] /\ Newer(ranWith[s] \cup {x}, r) >= MaxResults
        OBVIOUS
    <3>0. r \in AllButMostRecent(suiteResults[s] \cup {x}, MaxResults)
        BY <2>7
    <3>1. r \in suiteResults[s] \cup {x} /\ Newer(suiteResults[s] \cup {x}, r) >= MaxResults
        BY <3>0, Zenon DEF AllButMostRecent, Newer
    <3>2. IsFiniteSet(ranWith[s] \cup {x}) /\ suiteResults[s] \cup {x} \in SUBSET (ranWith[s] \cup {x})
        BY <2>5, FS_AddElement DEF IsTable
    <3>3. Newer(ranWith[s] \cup {x}, r) >= MaxResults
        BY <3>1, <3>2, NewerGrows, MaximaArePositive
    <3>4. r # x
      <4>1. {q \in suiteResults[s] \cup {x} : q.id > x.id} = {}
          BY <2>3, <2>4, <2>5
      <4>2. Newer(suiteResults[s] \cup {x}, x) = 0
          BY <4>1, FS_EmptySet DEF Newer
      <4> QED BY <3>1, <4>2, MaximaArePositive
    <3> QED BY <2>5, <3>1, <3>3, <3>4
  <2>10. old \subseteq SuiteResult
      BY <2>5, <2>9
  <2>11. suiteTx[w].created => old = {}
    <3> HAVE suiteTx[w].created
    <3>1. suiteResults[s] \cup {x} = {x}
        BY <1>0, <2>3, <2>5 DEF SuiteTransactionIsSound, SuiteActive
    <3> QED BY <2>7, <2>8, <3>1
  <2>17. t \in SuiteTransaction
    <3>1. {x} \subseteq SuiteResult /\ links \subseteq SuiteLink /\ old \subseteq SuiteResult
        BY <2>4, <2>10
    <3> QED BY <2>3, <3>1 DEF SuiteTransaction, t
  <2>13. suiteTx'[w] = t /\ SuiteInserted(w)' = x
    <3>1. suiteTx'[w] = t
        BY <2>1 DEF SuitesSqlInv, SuiteShapes
    <3>2. (CHOOSE y \in {x} : TRUE) = x
        OBVIOUS
    <3> QED BY <2>12, <3>1, <3>2 DEF SuiteInserted
  <2>14. /\ \A u \in Suites : \A r \in ranWith[u] : r.id # x.id
         /\ \A l \in linkedResults \cup forgotten : l.result # x.id
    <3>1. \A l \in linkedResults \cup forgotten : l.result \in Nat /\ l.result <= suiteSequence
        BY DEF SuitesSqlInv, SuiteShapes, LinksAreSound, SuiteLink
    <3> QED BY <2>3, <2>4, <2>5, <3>1
  <2>15. SuiteTransactionIsSound(w)'
    <3>1. x.id <= suiteSequence'
        BY <2>1, <2>3, <2>4
    <3> QED BY <1>0, <1>2, <2>3, <2>4, <2>9, <2>11, <2>12, <2>13, <2>14, <3>1
            DEF SuiteTransactionIsSound, SuiteActive, SuiteWritten
  <2>16. \A v \in Writers \ {w} : SuitesApart(v, w)'
    <3> TAKE v \in Writers \ {w}
    <3>1. suiteTx'[v] = suiteTx[v] /\ SuiteInserted(v)' = SuiteInserted(v)
        BY <2>1 DEF SuitesSqlInv, SuiteShapes, SuiteInserted
    <3>2. SuitesApart(v, w) /\ SuiteTransactionIsSound(v)
        BY DEF SuitesSqlInv, SuiteTransactionsAreSound
    <3>3. SuiteWritten(v) => SuiteInserted(v) \in SuiteResult /\ SuiteInserted(v).id <= suiteSequence
        BY <3>2 DEF SuitesSqlInv, SuiteShapes, SuiteTransaction, SuiteTransactionIsSound
    <3>4. SuiteWritten(v) => SuiteInserted(v).id # x.id
        BY <2>3, <2>4, <3>3 DEF SuiteResult
    <3> QED BY <1>0, <2>12, <2>13, <3>1, <3>2, <3>4 DEF SuitesApart, SuiteActive, SuiteWritten
  <2>18. suiteSequence' \in Nat /\ suiteSequence' >= suiteSequence
      BY <2>1, <2>3
  <2> QED BY <1>0, <2>1, <2>15, <2>16, <2>17, <2>18, OneSuiteTransactionChanges
<1> QED BY <1>1, <1>2

\* A commit is seen by nobody else but as newer rows with ids of their own.
LEMMA CommitKeepsSuites ==
    ASSUME SuitesSqlInv, NEW w \in Writers, CommitSuiteResult(w)
    PROVE  SuitesSqlInv'
<1> DEFINE s == suiteTx[w].suite
           x == SuiteInserted(w)
           old == suiteTx[w].old
<1>1. /\ suiteTx[w].at = "commit" /\ SuiteActive(w) /\ SuiteWritten(w)
      /\ suiteTx[w] \in SuiteTransaction /\ SuiteTransactionIsSound(w)
    BY DEF CommitSuiteResult, SuiteActive, SuiteWritten, SuitesSqlInv, SuiteShapes, SuiteTransactionsAreSound
<1>2. /\ s \in Suites /\ suiteTx[w].result = {x} /\ x \in SuiteResult /\ x.id <= suiteSequence
      /\ suiteTx[w].links = [endpoint : x.ran, result : {x.id}] /\ suiteTx[w].links \subseteq SuiteLink
      /\ suiteTx[w].suiteId # 0 /\ suiteTx[w].suiteId \in Nat
      /\ \A u \in Suites : \A r \in ranWith[u] : r.id # x.id
      /\ \A l \in linkedResults \cup forgotten : l.result # x.id
      /\ \A r \in old : r \in ranWith[s] /\ Newer(ranWith[s] \cup {x}, r) >= MaxResults
      /\ suites[s] # 0 => suites[s] = suiteTx[w].suiteId
    BY <1>1 DEF SuiteTransactionIsSound, SuiteTransaction
<1>3. /\ suites' = [suites EXCEPT ![s] = suiteTx[w].suiteId]
      /\ suiteResults' = [suiteResults EXCEPT ![s] = (suiteResults[s] \ old) \cup {x}]
      /\ linkedResults' = {l \in linkedResults \cup suiteTx[w].links : l.result \notin {r.id : r \in old}}
      /\ ranWith' = [ranWith EXCEPT ![s] = ranWith[s] \cup {x}]
      /\ suiteTx' = [suiteTx EXCEPT ![w] = NoSuiteTx]
      /\ UNCHANGED <<suiteCache, suiteSequence, forgotten>>
    BY <1>1, <1>2 DEF CommitSuiteResult, SuiteRowsSeenBy, UncommittedSuite
<1> HIDE DEF s, x, old
<1>4. /\ ranWith'[s] = ranWith[s] \cup {x} /\ suiteResults'[s] = (suiteResults[s] \ old) \cup {x}
      /\ suites'[s] = suiteTx[w].suiteId
      /\ \A u \in Suites : u # s =>
            ranWith'[u] = ranWith[u] /\ suiteResults'[u] = suiteResults[u] /\ suites'[u] = suites[u]
    BY <1>2, <1>3 DEF SuitesSqlInv, SuiteShapes
<1>5. SuiteShapes'
  <2>1. suiteResults[s] \subseteq SuiteResult /\ ranWith[s] \subseteq SuiteResult
      BY <1>2 DEF SuitesSqlInv, SuiteShapes
  <2>2. linkedResults' \in SUBSET SuiteLink
      BY <1>2, <1>3 DEF SuitesSqlInv, SuiteShapes
  <2> QED BY <1>2, <1>3, <2>1, <2>2, NoSuiteTxIsTyped DEF SuitesSqlInv, SuiteShapes
<1>6. /\ IsTable(ranWith[s]) /\ \A u \in Suites : \A r \in ranWith[u] : r.id \in Nat /\ r.id <= suiteSequence
      /\ suiteResults[s] \subseteq ranWith[s]
      /\ \A r \in ranWith[s] \ suiteResults[s] : Newer(ranWith[s], r) >= MaxResults
    BY <1>2 DEF SuitesSqlInv, SuiteHistoryIsATable, SuiteTablesAreSound, IsTable
<1>7. IsTable(ranWith[s] \cup {x})
  <2>1. IsFiniteSet(ranWith[s] \cup {x}) /\ x.id \in Nat
      BY <1>2, <1>6, FS_AddElement DEF IsTable, SuiteResult
  <2> QED BY <1>2, <1>6, <2>1 DEF IsTable
<1>8. SuiteHistoryIsATable'
  <2> SUFFICES ASSUME NEW u \in Suites PROVE IsTable(ranWith'[u]) /\ \A r \in ranWith'[u] : r.id <= suiteSequence'
      BY DEF SuiteHistoryIsATable
  <2>1. CASE u = s
      BY <1>2, <1>3, <1>4, <1>6, <1>7, <2>1
  <2>2. CASE u # s
      BY <1>3, <1>4, <1>6, <2>2 DEF SuitesSqlInv, SuiteHistoryIsATable
  <2> QED BY <2>1, <2>2
<1>9. ASSUME NEW r \in ranWith[s], Newer(ranWith[s], r) >= MaxResults
      PROVE  Newer(ranWith[s] \cup {x}, r) >= MaxResults
  <2>1. IsFiniteSet(ranWith[s] \cup {x}) /\ ranWith[s] \in SUBSET (ranWith[s] \cup {x})
      BY <1>7 DEF IsTable
  <2> QED BY <1>9, <2>1, NewerGrows, MaximaArePositive
<1>10. SuiteTablesAreSound'
  <2>1. ASSUME NEW u \in Suites
        PROVE  /\ suiteResults'[u] \subseteq ranWith'[u] /\ (suites'[u] = 0 => ranWith'[u] = {})
               /\ \A r \in ranWith'[u] \ suiteResults'[u] : Newer(ranWith'[u], r) >= MaxResults
    <3>1. CASE u # s
        BY <1>4, <3>1 DEF SuitesSqlInv, SuiteTablesAreSound
    <3>2. CASE u = s
      <4>1. ASSUME NEW r \in ranWith'[s] \ suiteResults'[s] PROVE Newer(ranWith'[s], r) >= MaxResults
        <5>1. r \in ranWith[s] /\ (r \notin suiteResults[s] \/ r \in old)
            BY <1>4, <4>1
        <5> QED BY <1>2, <1>4, <1>6, <1>9, <5>1
      <4> QED BY <1>2, <1>4, <1>6, <3>2, <4>1
    <3> QED BY <3>1, <3>2
  <2>2. ASSUME NEW t \in Suites, NEW u \in Suites, t # u, NEW r \in ranWith'[t], NEW q \in ranWith'[u]
        PROVE  r.id # q.id
    <3>1. \A i, j \in Suites : i # j => \A a \in ranWith[i], b \in ranWith[j] : a.id # b.id
        BY DEF SuitesSqlInv, SuiteTablesAreSound
    <3>2. (r \in ranWith[t] \/ (t = s /\ r = x)) /\ (q \in ranWith[u] \/ (u = s /\ q = x))
        BY <1>4, <2>2
    <3>3. CASE r \in ranWith[t] /\ q \in ranWith[u]
        BY <2>2, <3>1, <3>3
    <3>4. CASE t = s /\ r = x
        BY <1>2, <2>2, <3>2, <3>4
    <3>5. CASE u = s /\ q = x
        BY <1>2, <2>2, <3>2, <3>5
    <3> QED BY <3>2, <3>3, <3>4, <3>5
  <2> QED BY <2>1, <2>2 DEF SuiteTablesAreSound
<1>11. LinksAreSound'
  <2>1. ASSUME NEW u \in Suites, NEW r \in suiteResults'[u]
        PROVE  LinksAreOf(r)' = r.ran \ ForgottenOf(r)
    <3>0. \A i \in Suites : suiteResults[i] \subseteq ranWith[i] /\ ranWith[i] \subseteq SuiteResult
        BY DEF SuitesSqlInv, SuiteShapes, SuiteTablesAreSound
    <3>1. r.id \notin {q.id : q \in old}
      <4> SUFFICES ASSUME NEW q \in old, q.id = r.id PROVE FALSE
          OBVIOUS
      <4>1. q \in ranWith[s]
          BY <1>2
      <4>2. CASE u = s
        <5>1. r = x \/ (r \in ranWith[s] /\ r \notin old)
            BY <1>4, <1>6, <2>1, <4>2
        <5> QED BY <1>2, <1>6, <4>1, <5>1 DEF IsTable
      <4>3. CASE u # s
        <5>1. r \in ranWith[u]
            BY <1>4, <2>1, <3>0, <4>3
        <5> QED BY <1>2, <4>1, <4>3, <5>1 DEF SuitesSqlInv, SuiteTablesAreSound
      <4> QED BY <4>2, <4>3
    <3>2. LinksAreOf(r)' = {l.endpoint : l \in {m \in linkedResults \cup suiteTx[w].links : m.result = r.id}}
      <4>1. {m \in linkedResults' : m.result = r.id} = {m \in linkedResults \cup suiteTx[w].links : m.result = r.id}
          BY <1>3, <3>1
      <4> QED BY <4>1 DEF LinksAreOf
    <3>3. CASE u = s /\ r = x
      <4>1. {m \in linkedResults \cup suiteTx[w].links : m.result = r.id} = [endpoint : x.ran, result : {x.id}]
          BY <1>2, <3>3
      <4>2. {l.endpoint : l \in [endpoint : x.ran, result : {x.id}]} = x.ran
        <5>1. PICK L : L = [endpoint : x.ran, result : {x.id}]
            OBVIOUS
        <5>2. \A l \in L : l.endpoint \in x.ran
            BY <5>1
        <5>3. \A e \in x.ran : \E l \in L : l.endpoint = e
          <6> TAKE e \in x.ran
          <6>1. [endpoint |-> e, result |-> x.id] \in L
              BY <5>1
          <6> QED BY <6>1
        <5>4. {l.endpoint : l \in L} = x.ran
            BY <5>2, <5>3
        <5> QED BY <5>1, <5>4
      <4>3. ForgottenOf(x) = {}
          BY <1>2 DEF ForgottenOf
      <4> QED BY <3>2, <3>3, <4>1, <4>2, <4>3
    <3>4. CASE ~(u = s /\ r = x)
      <4>1. r \in suiteResults[u] /\ r.id # x.id
          BY <1>2, <1>4, <2>1, <3>0, <3>4
      <4>2. {m \in linkedResults \cup suiteTx[w].links : m.result = r.id} = {m \in linkedResults : m.result = r.id}
          BY <1>2, <4>1
      <4>3. LinksAreOf(r) = r.ran \ ForgottenOf(r)
          BY <4>1 DEF SuitesSqlInv, LinksAreSound
      <4> QED BY <3>2, <4>2, <4>3 DEF LinksAreOf
    <3> QED BY <3>3, <3>4
  <2>2. ASSUME NEW l \in linkedResults' \cup forgotten' PROVE l.result <= suiteSequence'
      BY <1>2, <1>3, <2>2 DEF SuitesSqlInv, LinksAreSound
  <2>3. \A r : ForgottenOf(r)' = ForgottenOf(r)
      BY <1>3 DEF ForgottenOf
  <2> QED BY <2>1, <2>2, <2>3 DEF LinksAreSound
<1>12. ASSUME NEW v \in Writers, v # w
       PROVE  /\ suiteTx'[v] = suiteTx[v] /\ SuiteInserted(v)' = SuiteInserted(v)
              /\ (SuiteActive(v)' <=> SuiteActive(v)) /\ (SuiteWritten(v)' <=> SuiteWritten(v))
    BY <1>3, <1>12 DEF SuitesSqlInv, SuiteShapes, SuiteInserted, SuiteActive, SuiteWritten
<1>13. ~SuiteActive(w)' /\ ~SuiteWritten(w)' /\ suiteTx'[w].at = "idle"
    BY <1>3, NoSuiteTxIsTyped DEF SuitesSqlInv, SuiteShapes, SuiteActive, SuiteWritten
<1>14. ASSUME NEW v \in Writers PROVE SuiteTransactionIsSound(v)'
  <2>1. CASE v = w
      BY <1>13, <2>1 DEF SuiteTransactionIsSound
  <2>2. CASE v # w
    <3>1. SuiteTransactionIsSound(v) /\ SuitesApart(v, w)
        BY <2>2 DEF SuitesSqlInv, SuiteTransactionsAreSound
    <3>2. SuiteActive(v) /\ suiteTx[v].created => suites'[suiteTx[v].suite] = 0
        BY <1>1, <1>2, <1>4, <3>1 DEF SuiteTransactionIsSound, SuitesApart, s
    <3>3. SuiteWritten(v) /\ ~suiteTx[v].created => suites'[suiteTx[v].suite] = suiteTx[v].suiteId
        BY <1>1, <1>2, <1>4, <3>1 DEF SuiteTransactionIsSound, SuiteWritten, SuiteActive
    <3>4. SuiteWritten(v) =>
            /\ \A u \in Suites : \A r \in ranWith'[u] : r.id # SuiteInserted(v).id
            /\ \A l \in linkedResults' \cup forgotten' : l.result # SuiteInserted(v).id
        BY <1>1, <1>2, <1>3, <1>4, <3>1 DEF SuiteTransactionIsSound, SuitesApart, x
    <3>5. ASSUME SuiteWritten(v), NEW r \in suiteTx[v].old
          PROVE  /\ r \in ranWith'[suiteTx[v].suite]
                 /\ Newer(ranWith'[suiteTx[v].suite] \cup {SuiteInserted(v)}, r) >= MaxResults
      <4>1. PICK u, y : u = suiteTx[v].suite /\ y = SuiteInserted(v)
          OBVIOUS
      <4>2. r \in ranWith[u] /\ Newer(ranWith[u] \cup {y}, r) >= MaxResults /\ u \in Suites
          BY <3>1, <3>5, <4>1 DEF SuiteTransactionIsSound, SuiteActive, SuiteWritten
      <4>3. ranWith[u] \subseteq ranWith'[u] /\ IsFiniteSet(ranWith'[u])
          BY <1>4, <1>8, <4>2 DEF SuiteHistoryIsATable, IsTable
      <4>4. IsFiniteSet(ranWith'[u] \cup {y}) /\ ranWith[u] \cup {y} \in SUBSET (ranWith'[u] \cup {y})
          BY <4>3, FS_AddElement
      <4>5. Newer(ranWith'[u] \cup {y}, r) >= MaxResults
          BY <4>2, <4>4, NewerGrows, MaximaArePositive
      <4> QED BY <4>1, <4>2, <4>3, <4>5
    <3> QED BY <1>3, <1>12, <2>2, <3>1, <3>2, <3>3, <3>4, <3>5 DEF SuiteTransactionIsSound
  <2> QED BY <2>1, <2>2
<1>15. ASSUME NEW u \in Writers, NEW v \in Writers, u # v PROVE SuitesApart(u, v)'
    BY <1>12, <1>13, <1>15 DEF SuitesSqlInv, SuiteTransactionsAreSound, SuitesApart
<1> QED BY <1>5, <1>8, <1>10, <1>11, <1>14, <1>15 DEF SuitesSqlInv, SuiteTransactionsAreSound

\* A deletion waits for the insertions that have seen the row of a suite; the
\* others have cleaned up nothing.
LEMMA DeleteKeepsSuites ==
    ASSUME SuitesSqlInv, NEW keys \in SUBSET Suites, DeleteSuiteRows(keys)
    PROVE  SuitesSqlInv'
<1> DEFINE gone == Suites \ keys
           goneIds == {r.id : r \in UNION {suiteResults[s] : s \in gone}}
<1>1. /\ suites' = [s \in Suites |-> IF s \in gone THEN 0 ELSE suites[s]]
      /\ suiteResults' = [s \in Suites |-> IF s \in gone THEN {} ELSE suiteResults[s]]
      /\ linkedResults' = {l \in linkedResults : l.result \notin goneIds}
      /\ ranWith' = [s \in Suites |-> IF s \in gone THEN {} ELSE ranWith[s]]
      /\ UNCHANGED <<suiteCache, suiteTx, suiteSequence, forgotten>>
    BY DEF DeleteSuiteRows
<1>2. ASSUME NEW w \in Writers, SuiteWritten(w), suiteTx[w].suite \in gone PROVE suiteTx[w].created
    BY <1>2 DEF DeleteSuiteRows, SuiteWritten
<1>3. \A u \in Suites : \A r \in suiteResults[u] : u \notin gone => r.id \notin goneIds
  <2> SUFFICES ASSUME NEW u \in Suites, NEW r \in suiteResults[u], u \notin gone, r.id \in goneIds PROVE FALSE
      OBVIOUS
  <2>1. PICK q \in UNION {suiteResults[s] : s \in gone} : r.id = q.id
      OBVIOUS
  <2>2. PICK s \in gone : q \in suiteResults[s]
      OBVIOUS
  <2>3. s \in Suites /\ s # u /\ q \in ranWith[s] /\ r \in ranWith[u]
      BY <2>2 DEF SuitesSqlInv, SuiteTablesAreSound
  <2> QED BY <2>1, <2>3 DEF SuitesSqlInv, SuiteTablesAreSound
<1> HIDE DEF gone, goneIds
<1>4. \A u \in Suites :
        /\ u \in gone => suites'[u] = 0 /\ suiteResults'[u] = {} /\ ranWith'[u] = {}
        /\ u \notin gone => suites'[u] = suites[u] /\ suiteResults'[u] = suiteResults[u] /\ ranWith'[u] = ranWith[u]
    BY <1>1
<1>5. SuiteShapes'
    BY <1>1 DEF SuitesSqlInv, SuiteShapes
<1>6. SuiteHistoryIsATable'
    BY <1>1, <1>4, NoRows DEF SuitesSqlInv, SuiteHistoryIsATable
<1>7. SuiteTablesAreSound'
  <2>1. ASSUME NEW u \in Suites
        PROVE  /\ suiteResults'[u] \subseteq ranWith'[u] /\ (suites'[u] = 0 => ranWith'[u] = {})
               /\ \A r \in ranWith'[u] \ suiteResults'[u] : Newer(ranWith'[u], r) >= MaxResults
      BY <1>4 DEF SuitesSqlInv, SuiteTablesAreSound
  <2>2. ASSUME NEW t \in Suites, NEW u \in Suites, t # u, NEW r \in ranWith'[t], NEW q \in ranWith'[u]
        PROVE  r.id # q.id
      BY <1>4, <2>2 DEF SuitesSqlInv, SuiteTablesAreSound
  <2> QED BY <2>1, <2>2 DEF SuiteTablesAreSound
<1>8. LinksAreSound'
  <2>1. ASSUME NEW u \in Suites, NEW r \in suiteResults'[u] PROVE LinksAreOf(r)' = r.ran \ ForgottenOf(r)'
    <3>1. u \notin gone /\ r \in suiteResults[u] /\ r.id \notin goneIds
        BY <1>3, <1>4, <2>1
    <3>2. {m \in linkedResults' : m.result = r.id} = {m \in linkedResults : m.result = r.id}
        BY <1>1, <3>1
    <3>3. ForgottenOf(r)' = ForgottenOf(r)
        BY <1>1 DEF ForgottenOf
    <3> QED BY <3>1, <3>2, <3>3 DEF SuitesSqlInv, LinksAreSound, LinksAreOf
  <2>2. ASSUME NEW l \in linkedResults' \cup forgotten' PROVE l.result <= suiteSequence'
      BY <1>1, <2>2 DEF SuitesSqlInv, LinksAreSound
  <2> QED BY <2>1, <2>2 DEF LinksAreSound
<1>9. ASSUME NEW v \in Writers
      PROVE  /\ suiteTx'[v] = suiteTx[v] /\ SuiteInserted(v)' = SuiteInserted(v)
             /\ (SuiteActive(v)' <=> SuiteActive(v)) /\ (SuiteWritten(v)' <=> SuiteWritten(v))
    BY <1>1 DEF SuiteInserted, SuiteActive, SuiteWritten
<1>10. ASSUME NEW v \in Writers PROVE SuiteTransactionIsSound(v)'
  <2>1. SuiteTransactionIsSound(v)
      BY DEF SuitesSqlInv, SuiteTransactionsAreSound
  <2>2. SuiteWritten(v) =>
          /\ \A u \in Suites : \A r \in ranWith'[u] : r.id # SuiteInserted(v).id
          /\ \A l \in linkedResults' \cup forgotten' : l.result # SuiteInserted(v).id
      BY <1>1, <1>4, <2>1 DEF SuiteTransactionIsSound
  <2>3. SuiteActive(v) => suiteTx[v].suite \in Suites
      BY <2>1 DEF SuiteTransactionIsSound
  <2>4. CASE suiteTx[v].suite \in gone
    <3>1. SuiteWritten(v) => suiteTx[v].created /\ suiteTx[v].old = {}
        BY <1>2, <2>1, <2>4 DEF SuiteTransactionIsSound, SuiteWritten, SuiteActive
    <3> QED BY <1>1, <1>4, <1>9, <2>1, <2>2, <2>3, <2>4, <3>1 DEF SuiteTransactionIsSound
  <2>5. CASE suiteTx[v].suite \notin gone
    <3>1. SuiteActive(v) => /\ suites'[suiteTx[v].suite] = suites[suiteTx[v].suite]
                            /\ ranWith'[suiteTx[v].suite] = ranWith[suiteTx[v].suite]
        BY <1>4, <2>3, <2>5
    <3>2. SuiteWritten(v) => SuiteActive(v)
        BY DEF SuiteWritten, SuiteActive
    <3> QED BY <1>1, <1>9, <2>1, <2>2, <3>1, <3>2 DEF SuiteTransactionIsSound
  <2> QED BY <2>4, <2>5
<1>11. ASSUME NEW u \in Writers, NEW v \in Writers, u # v PROVE SuitesApart(u, v)'
    BY <1>9, <1>11 DEF SuitesSqlInv, SuiteTransactionsAreSound, SuitesApart
<1> QED BY <1>5, <1>6, <1>7, <1>8, <1>10, <1>11 DEF SuitesSqlInv, SuiteTransactionsAreSound

\* An endpoint that is deleted is out of the results that were inserted before,
\* and in those of the insertions that go on.
LEMMA ForgettingKeepsSuites ==
    ASSUME SuitesSqlInv, NEW keys \in SUBSET SuiteEndpoints, DeleteEndpointRows(keys)
    PROVE  SuitesSqlInv'
<1> DEFINE put == UNION {ranWith[s] : s \in Suites}
           gone == UNION {[endpoint : r.ran \ keys, result : {r.id}] : r \in put}
<1>1. /\ linkedResults' = {l \in linkedResults : l.endpoint \in keys}
      /\ forgotten' = forgotten \cup gone
      /\ UNCHANGED <<suiteCache, suites, suiteResults, suiteTx, suiteSequence, ranWith>>
    BY DEF DeleteEndpointRows
<1>2. ASSUME NEW l \in gone
      PROVE  \E s \in Suites : \E r \in ranWith[s] : l.result = r.id /\ l.endpoint \in r.ran \ keys /\ l \in SuiteLink
  <2>1. PICK r \in put : l \in [endpoint : r.ran \ keys, result : {r.id}]
      BY <1>2
  <2>2. PICK s \in Suites : r \in ranWith[s]
      BY <2>1
  <2>3. r \in SuiteResult
      BY <2>2 DEF SuitesSqlInv, SuiteShapes
  <2>4. l.result = r.id /\ l.endpoint \in r.ran \ keys /\ l \in SuiteLink
      BY <2>1, <2>3 DEF SuiteResult, SuiteLink
  <2> QED BY <2>2, <2>4
<1>3. ASSUME NEW s \in Suites, NEW r \in ranWith[s], NEW e \in r.ran \ keys
      PROVE  [endpoint |-> e, result |-> r.id] \in gone
  <2>1. r \in put /\ [endpoint |-> e, result |-> r.id] \in [endpoint : r.ran \ keys, result : {r.id}]
      OBVIOUS
  <2> QED BY <2>1
<1> HIDE DEF put, gone
<1>4. SuiteShapes'
    BY <1>1, <1>2 DEF SuitesSqlInv, SuiteShapes
<1>5. SuiteHistoryIsATable' /\ SuiteTablesAreSound'
    BY <1>1 DEF SuitesSqlInv, SuiteHistoryIsATable, SuiteTablesAreSound
<1>6. LinksAreSound'
  <2>1. ASSUME NEW s \in Suites, NEW r \in suiteResults[s]
        PROVE  LinksAreOf(r)' = r.ran \ ForgottenOf(r)'
    <3>1. /\ r \in ranWith[s] /\ LinksAreOf(r) = r.ran \ ForgottenOf(r)
          /\ IsTable(ranWith[s])
        BY DEF SuitesSqlInv, SuiteTablesAreSound, SuiteHistoryIsATable, LinksAreSound
    <3>2. LinksAreOf(r)' = LinksAreOf(r) \cap keys
        BY <1>1 DEF LinksAreOf
    <3>3. ForgottenOf(r) \cup (r.ran \ keys) \subseteq ForgottenOf(r)'
      <4>1. ASSUME NEW e \in r.ran \ keys PROVE e \in ForgottenOf(r)'
        <5>1. PICK l : l = [endpoint |-> e, result |-> r.id]
            OBVIOUS
        <5>2. l \in forgotten' /\ l.result = r.id /\ l.endpoint = e
            BY <1>1, <1>3, <3>1, <5>1
        <5> QED BY <5>2 DEF ForgottenOf
      <4>2. ForgottenOf(r) \subseteq ForgottenOf(r)'
          BY <1>1 DEF ForgottenOf
      <4> QED BY <4>1, <4>2
    <3>4. ForgottenOf(r)' \subseteq ForgottenOf(r) \cup (r.ran \ keys)
      <4> SUFFICES ASSUME NEW e \in ForgottenOf(r)', e \notin ForgottenOf(r) PROVE e \in r.ran \ keys
          OBVIOUS
      <4>1. PICK l \in gone : l.result = r.id /\ l.endpoint = e
          BY <1>1 DEF ForgottenOf
      <4>2. PICK u \in Suites : \E q \in ranWith[u] : l.result = q.id /\ l.endpoint \in q.ran \ keys
          BY <1>2
      <4>3. PICK q \in ranWith[u] : l.result = q.id /\ l.endpoint \in q.ran \ keys
          BY <4>2
      <4>4. u = s
          BY <3>1, <4>1, <4>3 DEF SuitesSqlInv, SuiteTablesAreSound
      <4>5. q = r
          BY <3>1, <4>1, <4>3, <4>4 DEF IsTable
      <4> QED BY <4>1, <4>3, <4>5
    <3> QED BY <3>1, <3>2, <3>3, <3>4
  <2>2. ASSUME NEW l \in linkedResults' \cup forgotten' PROVE l.result <= suiteSequence'
    <3>1. CASE l \in gone
      <4>1. PICK u \in Suites : \E q \in ranWith[u] : l.result = q.id
          BY <1>2, <3>1
      <4>2. PICK q \in ranWith[u] : l.result = q.id
          BY <4>1
      <4> QED BY <1>1, <4>2 DEF SuitesSqlInv, SuiteHistoryIsATable
    <3>2. CASE l \notin gone
        BY <1>1, <2>2, <3>2 DEF SuitesSqlInv, LinksAreSound
    <3> QED BY <3>1, <3>2
  <2> QED BY <1>1, <2>1, <2>2 DEF LinksAreSound
<1>7. ASSUME NEW v \in Writers
      PROVE  /\ SuiteInserted(v)' = SuiteInserted(v)
             /\ (SuiteActive(v)' <=> SuiteActive(v)) /\ (SuiteWritten(v)' <=> SuiteWritten(v))
    BY <1>1 DEF SuiteInserted, SuiteActive, SuiteWritten
<1>8. ASSUME NEW v \in Writers PROVE SuiteTransactionIsSound(v)'
  <2>1. SuiteTransactionIsSound(v)
      BY DEF SuitesSqlInv, SuiteTransactionsAreSound
  <2>2. SuiteWritten(v) => \A l \in linkedResults' \cup forgotten' : l.result # SuiteInserted(v).id
    <3> SUFFICES ASSUME SuiteWritten(v), NEW l \in linkedResults' \cup forgotten'
                 PROVE  l.result # SuiteInserted(v).id
        OBVIOUS
    <3>1. CASE l \in gone
      <4>1. PICK u \in Suites : \E q \in ranWith[u] : l.result = q.id
          BY <1>2, <3>1
      <4>2. PICK q \in ranWith[u] : l.result = q.id
          BY <4>1
      <4> QED BY <2>1, <4>2 DEF SuiteTransactionIsSound
    <3>2. CASE l \notin gone
        BY <1>1, <2>1, <3>2 DEF SuiteTransactionIsSound
    <3> QED BY <3>1, <3>2
  <2> QED BY <1>1, <1>7, <2>1, <2>2 DEF SuiteTransactionIsSound
<1>9. ASSUME NEW u \in Writers, NEW v \in Writers, u # v PROVE SuitesApart(u, v)'
    BY <1>1, <1>7, <1>9 DEF SuitesSqlInv, SuiteTransactionsAreSound, SuitesApart
<1> QED BY <1>4, <1>5, <1>6, <1>8, <1>9 DEF SuitesSqlInv, SuiteTransactionsAreSound

LEMMA SuitesInSqlKept == SuitesSqlInv /\ [SuitesInSqlNext]_suiteVars => SuitesSqlInv'
<1> SUFFICES ASSUME SuitesSqlInv, [SuitesInSqlNext]_suiteVars PROVE SuitesSqlInv'
    OBVIOUS
<1>1. ASSUME NEW w \in Writers, NEW s \in Suites, BeginSuiteResult(w, s) PROVE SuitesSqlInv'
    BY <1>1, BeginKeepsSuites
<1>2. ASSUME NEW w \in Writers, InsertSuite(w) PROVE SuitesSqlInv'
    BY <1>2, InsertSuiteKeepsSuites
<1>3. ASSUME NEW w \in Writers, RollBackSuiteResult(w) PROVE SuitesSqlInv'
    BY <1>3, SuiteRollBackKeeps DEF RollBackSuiteResult, suiteGhosts
<1>4. ASSUME NEW w \in Writers, CommitSuiteResult(w) PROVE SuitesSqlInv'
    BY <1>4, CommitKeepsSuites
<1>5. ASSUME NEW w \in Writers, NEW success \in BOOLEAN, NEW cleans \in BOOLEAN, NEW ran \in SUBSET SuiteEndpoints,
             NEW skipped \in SUBSET ran, NEW made \in SUBSET (ran \ skipped),
             WriteSuiteResult(w, success, ran, skipped, made, cleans)
      PROVE  SuitesSqlInv'
    BY <1>5, WriteKeepsSuites
<1>6. ASSUME NEW keys \in SUBSET Suites, DeleteSuiteRows(keys) PROVE SuitesSqlInv'
    BY <1>6, DeleteKeepsSuites
<1>8. ASSUME NEW keys \in SUBSET SuiteEndpoints, DeleteEndpointRows(keys) PROVE SuitesSqlInv'
    BY <1>8, ForgettingKeepsSuites
<1>7. CASE UNCHANGED suiteVars
  <2>1. /\ suiteTx' = suiteTx /\ suites' = suites /\ suiteResults' = suiteResults /\ ranWith' = ranWith
        /\ linkedResults' = linkedResults /\ suiteSequence' = suiteSequence /\ suiteCache' = suiteCache
        /\ forgotten' = forgotten
      BY <1>7 DEF suiteVars, suiteGhosts
  <2>2. \A w \in Writers : SuiteTransactionIsSound(w)'
    <3> TAKE w \in Writers
    <3>1. /\ SuiteInserted(w)' = SuiteInserted(w) /\ suiteTx'[w] = suiteTx[w]
          /\ (SuiteActive(w)' <=> SuiteActive(w)) /\ (SuiteWritten(w)' <=> SuiteWritten(w))
        BY <2>1 DEF SuiteActive, SuiteWritten, SuiteInserted
    <3>2. SuiteTransactionIsSound(w)
        BY DEF SuitesSqlInv, SuiteTransactionsAreSound
    <3> QED BY <2>1, <3>1, <3>2 DEF SuiteTransactionIsSound
  <2>3. \A v, w \in Writers : v # w => SuitesApart(v, w)'
      BY <2>1 DEF SuitesSqlInv, SuiteTransactionsAreSound, SuitesApart, SuiteActive, SuiteWritten, SuiteInserted
  <2> QED BY <2>1, <2>2, <2>3 DEF SuitesSqlInv, SuiteShapes, SuiteHistoryIsATable, SuiteTablesAreSound,
                                  LinksAreSound, LinksAreOf, ForgottenOf, SuiteTransactionsAreSound
<1> QED BY <1>1, <1>2, <1>3, <1>4, <1>5, <1>6, <1>7, <1>8 DEF SuitesInSqlNext

LEMMA SuitesInSqlAnswer == SuitesSqlInv => AnswersFromSuiteHistory(SqlSuiteResults)
<1> SUFFICES ASSUME SuitesSqlInv, NEW s \in Suites,
                    NEW page \in 0 .. MaxResults, NEW pageSize \in 0 .. MaxResults,
                    NEW p, p = RequestedPage(page), NEW size, size = RequestedPageSize(page, pageSize),
                    p * size <= MaxResults
             PROVE  LET expected == MemoryPage(ById(ranWith[s]), p, size)
                    IN  SqlSuiteResults(s, p, size) = [i \in DOMAIN expected |-> Remaining(expected[i])]
    BY DEF AnswersFromSuiteHistory
<1>1. p \in Nat \ {0} /\ size \in Nat \ {0}
    BY MaximaArePositive DEF RequestedPage, RequestedPageSize
<1>2. PICK S, T : /\ S = ranWith[s] /\ T = suiteResults[s] /\ IsTable(S) /\ T \in SUBSET S /\ S \subseteq SuiteResult
                  /\ \A r \in S \ T : Newer(S, r) >= MaxResults
                  /\ \A r \in T : LinksAreOf(r) = r.ran \ ForgottenOf(r)
    BY DEF SuitesSqlInv, SuiteShapes, SuiteHistoryIsATable, SuiteTablesAreSound, LinksAreSound
<1>3. ById(S) \in Seq(SuiteResult) /\ ById(T) \in Seq(SuiteResult) /\ ById(T) \in Seq(T)
  <2>1. ById(S) \in Seq(S) /\ ById(T) \in Seq(T)
      BY <1>2, ByIdSorts, SubsetIsTable
  <2> QED BY <1>2, <2>1, SeqMonotonic
<1>4. SameNewest(ById(T), ById(S), MaxResults)
  <2>1. \A i \in 0 .. MaxResults - 1 :
          /\ i < Len(ById(T)) <=> i < Len(ById(S))
          /\ i < Len(ById(S)) => ById(T)[Len(ById(T)) - i] = ById(S)[Len(ById(S)) - i]
    <3>1. IsTable(S) /\ T \in SUBSET S /\ \A r \in S \ T : Newer(S, r) >= MaxResults
        BY <1>2
    <3>2. PICK max \in Nat \ {0} : max = MaxResults
        BY MaximaArePositive
    <3>3. \A r \in S \ T : Newer(S, r) >= max
        BY <3>1, <3>2
    <3>4. \A i \in 0 .. max - 1 :
            /\ i < Len(ById(T)) <=> i < Len(ById(S))
            /\ i < Len(ById(S)) => ById(T)[Len(ById(T)) - i] = ById(S)[Len(ById(S)) - i]
        BY ZenonT(60), <3>1, <3>3, SameNewestRows
    <3> QED BY <3>2, <3>4
  <2> QED BY <2>1 DEF SameNewest
<1>5. SqlPage(ById(T), p, size) = SqlPage(ById(S), p, size)
    BY <1>1, <1>3, <1>4, SamePages, MaximaArePositive
<1>6. MemoryPage(ById(S), p, size) = SqlPage(ById(S), p, size)
    BY <1>1, <1>3, StoresCutTheSamePage
<1>7. PICK results : results = SqlPage(ById(T), p, size) /\ results \in Seq(T)
  <2>1. SqlPage(ById(T), p, size) \in Seq(T)
      BY <1>1, <1>3, PageIsTyped
  <2> QED BY <2>1
<1>8. SqlSuiteResults(s, p, size) = [i \in 1 .. Len(results) |-> [results[i] EXCEPT !.ran = LinksAreOf(results[i])]]
    BY <1>2, <1>7 DEF SqlSuiteResults, LinksAreOf
<1>9. \A i \in 1 .. Len(results) :
          [results[i] EXCEPT !.ran = LinksAreOf(results[i])] = Remaining(results[i])
  <2> TAKE i \in 1 .. Len(results)
  <2>1. results[i] \in T
      BY <1>7
  <2>2. LinksAreOf(results[i]) = results[i].ran \ ForgottenOf(results[i])
      BY <1>2, <2>1
  <2> QED BY <2>2 DEF Remaining, ForgottenOf
<1>10. DOMAIN results = 1 .. Len(results)
    BY <1>7
<1>11. SqlSuiteResults(s, p, size) = [i \in DOMAIN results |-> Remaining(results[i])]
    BY <1>8, <1>9, <1>10
<1>12. results = MemoryPage(ById(ranWith[s]), p, size)
    BY <1>2, <1>5, <1>6, <1>7
<1> QED BY <1>11, <1>12

-----------------------------------------------------------------------------
(* Uptime: sums *)

(* Sums over sets.  The theorems of induction of the library take an operator
   for what is to be proved; here a set of numbers or of sets takes its place. *)
LEMMA LeastNumber ==
    ASSUME NEW T \in SUBSET Nat, T # {}
    PROVE  \E n \in T : \A m \in T : ~ m < n
<1>1. IsWellFoundedOn(OpToRel(<, Nat), Nat)
    BY NatLessThanWellFounded
<1>2. \E n \in T : \A m \in T : ~ (<<m, n>> \in OpToRel(<, Nat))
    BY <1>1, WFMin, Zenon
<1> QED BY <1>2 DEF OpToRel

\* Induction, for a set in the place of a predicate.
LEMMA InductionOnSet ==
    ASSUME NEW T \in SUBSET Nat, 0 \in T, \A n \in T : n + 1 \in T
    PROVE  T = Nat
<1> SUFFICES ASSUME Nat \ T # {} PROVE FALSE
    OBVIOUS
<1>1. PICK n \in Nat \ T : \A m \in Nat \ T : ~ m < n
    BY LeastNumber, Zenon
<1>2. n - 1 \in Nat /\ n - 1 < n
    BY <1>1
<1>3. n - 1 \in T
    BY <1>1, <1>2
<1> QED BY <1>1, <1>2, <1>3

\* Induction over the subsets of a finite set, an element at a time.
LEMMA InductionOnSubsets ==
    ASSUME NEW S, IsFiniteSet(S), NEW T \in SUBSET (SUBSET S),
           {} \in T, \A s \in T : \A x \in S \ s : s \cup {x} \in T
    PROVE  T = SUBSET S
<1> DEFINE In(n) == \A s \in SUBSET S : Cardinality(s) = n => s \in T
           N == {n \in Nat : In(n)}
<1>1. \A s \in SUBSET S : IsFiniteSet(s) /\ Cardinality(s) \in Nat
    BY FS_Subset, FS_CardinalityType
<1>2. In(0)
    BY <1>1, FS_EmptySet
<1>3. \A n \in Nat : In(n) => In(n + 1)
  <2> SUFFICES ASSUME NEW n \in Nat, In(n), NEW s \in SUBSET S, Cardinality(s) = n + 1 PROVE s \in T
      OBVIOUS
  <2>1. s # {}
    <3>1. Cardinality({}) = 0
        BY FS_EmptySet
    <3>2. Cardinality(s) # 0
        OBVIOUS
    <3> QED BY <3>1, <3>2
  <2>2. PICK x \in s : TRUE
      BY <2>1
  <2>3. Cardinality(s \ {x}) = n
      BY SMTT(30), <1>1, <2>2, FS_RemoveElement
  <2>4. s \ {x} \in T /\ x \in S \ (s \ {x})
      BY <2>3
  <2>5. (s \ {x}) \cup {x} \in T
      BY <2>4
  <2>6. (s \ {x}) \cup {x} = s
      OBVIOUS
  <2> QED BY <2>5, <2>6
<1>4. N = Nat
  <2> HIDE DEF In
  <2>1. N \in SUBSET Nat /\ 0 \in N /\ \A n \in N : n + 1 \in N
      BY <1>2, <1>3
  <2> QED BY <2>1, InductionOnSet, Zenon
<1>5. \A n \in Nat : In(n)
  <2> HIDE DEF In
  <2> QED BY <1>4
<1> QED BY <1>1, <1>5

\* The sum of h over S.
Total(h, S) == MapThenSumSet(LAMBDA t : h[t], S)

Any(s) == CHOOSE x \in s : TRUE
\* One step of the recursion by which a fold of the community modules is defined.
SumSteps(h, S, it) == [s \in SUBSET S |-> IF s = {} THEN 0 ELSE h[Any(s)] + it[s \ {Any(s)}]]

LEMMA TotalIsAFold == ASSUME NEW S, NEW h PROVE Total(h, S) = (CHOOSE it : it = SumSteps(h, S, it))[S]
BY Zenon DEF Total, MapThenSumSet, MapThenFoldSet, SumSteps, Any

\* The totals and the successes of some hours are totals of numbers.
LEMMA SumsAreTotals ==
    ASSUME NEW S, NEW f
    PROVE  SumOver(f, S) = [total |-> Total([t \in S |-> f[t].total], S),
                            successful |-> Total([t \in S |-> f[t].successful], S)]
<1> DEFINE Sums(it) == [s \in SUBSET S |->
              IF s = {} THEN 0 ELSE f[CHOOSE x \in s : TRUE].total + it[s \ {CHOOSE x \in s : TRUE}]]
           Successes(it) == [s \in SUBSET S |->
              IF s = {} THEN 0 ELSE f[CHOOSE x \in s : TRUE].successful + it[s \ {CHOOSE x \in s : TRUE}]]
           h == [t \in S |-> f[t].total]
           g == [t \in S |-> f[t].successful]
<1>1. /\ MapThenSumSet(LAMBDA t : f[t].total, S) = (CHOOSE it : it = Sums(it))[S]
      /\ MapThenSumSet(LAMBDA t : f[t].successful, S) = (CHOOSE it : it = Successes(it))[S]
    BY Zenon DEF MapThenSumSet, MapThenFoldSet
<1>2. \A it : Sums(it) = SumSteps(h, S, it) /\ Successes(it) = SumSteps(g, S, it)
    BY DEF SumSteps, Any
<1> HIDE DEF Sums, Successes, h, g
<1>3. /\ (CHOOSE it : it = Sums(it)) = (CHOOSE it : it = SumSteps(h, S, it))
      /\ (CHOOSE it : it = Successes(it)) = (CHOOSE it : it = SumSteps(g, S, it))
    BY <1>2, Zenon
<1>4. /\ MapThenSumSet(LAMBDA t : f[t].total, S) = Total(h, S)
      /\ MapThenSumSet(LAMBDA t : f[t].successful, S) = Total(g, S)
    BY <1>1, <1>3, TotalIsAFold, Zenon
<1> QED BY <1>4, Zenon DEF SumOver, h, g

LEMMA AnyIsElement == ASSUME NEW s, s # {} PROVE Any(s) \in s
BY DEF Any

\* The recursion has a solution, built up from the smaller sets to the larger.
LEMMA StepsCanBeTaken ==
    ASSUME NEW S, IsFiniteSet(S), NEW h, \A t \in S : h[t] \in Int
    PROVE  \E it : it = SumSteps(h, S, it)
<1> DEFINE Small(n) == {s \in SUBSET S : Cardinality(s) < n}
           Step(g, s) == IF s = {} THEN 0 ELSE h[Any(s)] + g[s \ {Any(s)}]
           Taken(n) == \E g \in [SUBSET S -> Int] : \A s \in Small(n) : g[s] = Step(g, s)
           N == {n \in Nat : Taken(n)}
<1>1. \A s \in SUBSET S : IsFiniteSet(s) /\ Cardinality(s) \in Nat
    BY FS_Subset, FS_CardinalityType
<1>2. Taken(0)
  <2>1. [s \in SUBSET S |-> 0] \in [SUBSET S -> Int]
      OBVIOUS
  <2>2. Small(0) = {}
      BY <1>1
  <2> QED BY <2>1, <2>2
<1>3. \A n \in Nat : Taken(n) => Taken(n + 1)
  <2> SUFFICES ASSUME NEW n \in Nat, Taken(n) PROVE Taken(n + 1)
      OBVIOUS
  <2>1. PICK g \in [SUBSET S -> Int] : \A s \in Small(n) : g[s] = Step(g, s)
      OBVIOUS
  <2> DEFINE next == [s \in SUBSET S |-> Step(g, s)]
  <2>2. next \in [SUBSET S -> Int]
      BY AnyIsElement
  <2>3. ASSUME NEW s \in Small(n + 1) PROVE next[s] = Step(next, s)
    <3>1. CASE s = {}
        BY <3>1
    <3>2. CASE s # {}
      <4>1. Any(s) \in s /\ s \ {Any(s)} \in SUBSET S
          BY <3>2, AnyIsElement
      <4>2. Cardinality(s \ {Any(s)}) = Cardinality(s) - 1
          BY <1>1, <4>1, FS_RemoveElement
      <4>3. s \ {Any(s)} \in Small(n)
          BY <1>1, <4>1, <4>2
      <4>4. g[s \ {Any(s)}] = next[s \ {Any(s)}]
          BY <2>1, <4>1, <4>3
      <4> QED BY <3>2, <4>4
    <3> QED BY <3>1, <3>2
  <2> QED BY <2>2, <2>3
<1>4. \A n \in Nat : Taken(n)
  <2> HIDE DEF Taken
  <2>1. N \in SUBSET Nat /\ 0 \in N /\ \A n \in N : n + 1 \in N
      BY <1>2, <1>3
  <2>2. N = Nat
      BY <2>1, InductionOnSet, Zenon
  <2> QED BY <2>2
<1>5. PICK g \in [SUBSET S -> Int] : \A s \in Small(Cardinality(S) + 1) : g[s] = Step(g, s)
  <2>1. Cardinality(S) + 1 \in Nat
      BY <1>1
  <2>2. Taken(Cardinality(S) + 1)
    <3> HIDE DEF Taken
    <3> QED BY <1>4, <2>1
  <2> QED BY <2>2
<1>6. \A s \in SUBSET S : Cardinality(s) <= Cardinality(S)
    BY FS_Subset
<1>7. \A s \in SUBSET S : g[s] = Step(g, s)
  <2> HIDE DEF Step
  <2>1. \A s \in SUBSET S : Cardinality(s) < Cardinality(S) + 1
      BY <1>1, <1>6
  <2> QED BY <1>5, <2>1
<1> QED BY <1>5, <1>7 DEF SumSteps

Solves(f, h, S) == \A s \in SUBSET S : f[s] = IF s = {} THEN 0 ELSE h[Any(s)] + f[s \ {Any(s)}]

\* All solutions of the recursion agree.
LEMMA StepsAreDetermined ==
    ASSUME NEW S, IsFiniteSet(S), NEW h, NEW f, NEW g, Solves(f, h, S), Solves(g, h, S)
    PROVE  \A s \in SUBSET S : f[s] = g[s]
<1> DEFINE Agree(n) == \A s \in SUBSET S : Cardinality(s) = n => f[s] = g[s]
           N == {n \in Nat : Agree(n)}
<1>1. \A s \in SUBSET S : IsFiniteSet(s) /\ Cardinality(s) \in Nat /\ (Cardinality(s) = 0 <=> s = {})
    BY FS_Subset, FS_CardinalityType, FS_EmptySet
<1>2. Agree(0)
    BY <1>1 DEF Solves
<1>3. \A n \in Nat : Agree(n) => Agree(n + 1)
  <2> SUFFICES ASSUME NEW n \in Nat, Agree(n), NEW s \in SUBSET S, Cardinality(s) = n + 1 PROVE f[s] = g[s]
      OBVIOUS
  <2>1. s # {}
    <3>1. Cardinality(s) # 0
        OBVIOUS
    <3> QED BY <1>1, <3>1
  <2>2. Any(s) \in s /\ s \ {Any(s)} \in SUBSET S
      BY <2>1, AnyIsElement
  <2>3. Cardinality(s \ {Any(s)}) = n
    <3>1. PICK x \in s : x = Any(s)
        BY <2>2
    <3>2. Cardinality(s \ {x}) = Cardinality(s) - 1
        BY <1>1, FS_RemoveElement
    <3> QED BY <3>1, <3>2
  <2>4. f[s \ {Any(s)}] = g[s \ {Any(s)}]
    <3> PICK r \in SUBSET S : r = s \ {Any(s)}
        BY <2>2
    <3> QED BY <2>3
  <2>5. f[s] = h[Any(s)] + f[s \ {Any(s)}] /\ g[s] = h[Any(s)] + g[s \ {Any(s)}]
      BY <2>1 DEF Solves
  <2> QED BY <2>4, <2>5
<1>4. \A n \in Nat : Agree(n)
  <2> HIDE DEF Agree
  <2>1. N \in SUBSET Nat /\ 0 \in N /\ \A n \in N : n + 1 \in N
      BY <1>2, <1>3
  <2>2. N = Nat
      BY <2>1, InductionOnSet, Zenon
  <2> QED BY <2>2
<1> QED BY <1>1, <1>4

\* The sum of a set and the sums of its subsets are values of the same recursion.
LEMMA TotalIsRecursive ==
    ASSUME NEW S, IsFiniteSet(S), NEW h, \A t \in S : h[t] \in Int
    PROVE  \A s \in SUBSET S : Total(h, s) = IF s = {} THEN 0 ELSE h[Any(s)] + Total(h, s \ {Any(s)})
<1> DEFINE it(s) == CHOOSE g : g = SumSteps(h, s, g)
<1>1. \A s \in SUBSET S : it(s) = SumSteps(h, s, it(s))
  <2> TAKE s \in SUBSET S
  <2>1. IsFiniteSet(s) /\ \A t \in s : h[t] \in Int
      BY FS_Subset
  <2>2. \E g : g = SumSteps(h, s, g)
      BY <2>1, StepsCanBeTaken
  <2> QED BY <2>2, Zenon
<1>2. \A s \in SUBSET S : Solves(it(s), h, s)
  <2> TAKE s \in SUBSET S
  <2> HIDE DEF it
  <2>1. it(s) = SumSteps(h, s, it(s))
      BY <1>1
  <2>2. PICK g : g = it(s)
      OBVIOUS
  <2>3. g = [u \in SUBSET s |-> IF u = {} THEN 0 ELSE h[Any(u)] + g[u \ {Any(u)}]]
      BY <2>1, <2>2 DEF SumSteps
  <2>4. Solves(g, h, s)
      BY <2>3 DEF Solves
  <2> QED BY <2>2, <2>4
<1>3. \A s \in SUBSET S : Total(h, s) = it(s)[s]
    BY TotalIsAFold, Zenon
<1> HIDE DEF it
<1> TAKE s \in SUBSET S
<1>4. CASE s = {}
    BY <1>2, <1>3, <1>4 DEF Solves
<1>5. CASE s # {}
  <2> DEFINE r == s \ {Any(s)}
  <2>1. Any(s) \in s /\ r \in SUBSET s /\ r \in SUBSET S
      BY <1>5, AnyIsElement
  <2>2. IsFiniteSet(r)
      BY FS_Subset
  <2> HIDE DEF r
  <2>3. Solves(it(s), h, r)
      BY <1>2, <2>1 DEF Solves
  <2>4. Solves(it(r), h, r)
      BY <1>2, <2>1
  <2>5. \A u \in SUBSET r : it(s)[u] = it(r)[u]
      BY <2>2, <2>3, <2>4, StepsAreDetermined
  <2>6. it(s)[s] = h[Any(s)] + it(s)[r]
      BY <1>2, <1>5 DEF r, Solves
  <2>7. it(s)[r] = Total(h, r)
      BY <1>3, <2>1, <2>5
  <2> QED BY <1>3, <1>5, <2>6, <2>7 DEF r
<1> QED BY <1>4, <1>5

LEMMA TotalOfNothing == ASSUME NEW h PROVE Total(h, {}) = 0
<1>1. IsFiniteSet({}) /\ {} \in SUBSET {}
    BY FS_EmptySet
<1>2. \A t \in {} : h[t] \in Int
    OBVIOUS
<1>3. \A s \in SUBSET {} : Total(h, s) = IF s = {} THEN 0 ELSE h[Any(s)] + Total(h, s \ {Any(s)})
    BY <1>1, <1>2, TotalIsRecursive, Zenon
<1> QED BY <1>1, <1>3

\* Any element may be taken first, so that the order of a sum does not matter.
LEMMA TotalTakesAny ==
    ASSUME NEW S, IsFiniteSet(S), NEW h, \A t \in S : h[t] \in Nat
    PROVE  \A s \in SUBSET S : /\ Total(h, s) \in Nat
                               /\ \A x \in s : Total(h, s) = h[x] + Total(h, s \ {x})
<1> DEFINE Right(s) == Total(h, s) \in Nat /\ \A x \in s : Total(h, s) = h[x] + Total(h, s \ {x})
           AllRight(n) == \A s \in SUBSET S : Cardinality(s) <= n => Right(s)
           N == {n \in Nat : AllRight(n)}
<1>1. \A s \in SUBSET S : IsFiniteSet(s) /\ Cardinality(s) \in Nat /\ (Cardinality(s) = 0 <=> s = {})
    BY FS_Subset, FS_CardinalityType, FS_EmptySet
<1>2. \A s \in SUBSET S : Total(h, s) = IF s = {} THEN 0 ELSE h[Any(s)] + Total(h, s \ {Any(s)})
    BY TotalIsRecursive
<1>3. AllRight(0)
    BY <1>1, TotalOfNothing
<1>4. \A n \in Nat : AllRight(n) => AllRight(n + 1)
  <2> SUFFICES ASSUME NEW n \in Nat, AllRight(n), NEW s \in SUBSET S, Cardinality(s) <= n + 1, s # {} PROVE Right(s)
    <3>1. \A n \in Nat, s \in SUBSET S : s = {} => Right(s)
        BY TotalOfNothing
    <3> HIDE DEF Right
    <3> QED BY <3>1
  <2>2. PICK a \in s : a = Any(s)
      BY AnyIsElement
  <2>3. \A x \in s : s \ {x} \in SUBSET S /\ Cardinality(s \ {x}) <= n
    <3> TAKE x \in s
    <3>1. Cardinality(s \ {x}) = Cardinality(s) - 1
        BY <1>1, FS_RemoveElement
    <3> QED BY <1>1, <3>1
  <2>4. \A x \in s : Right(s \ {x})
    <3> HIDE DEF Right
    <3> QED BY <2>3
  <2>5. Total(h, s) = h[a] + Total(h, s \ {a})
      BY <1>2, <2>2
  <2>6. Total(h, s) \in Nat
      BY <2>4, <2>5
  <2>7. ASSUME NEW x \in s PROVE Total(h, s) = h[x] + Total(h, s \ {x})
    <3>1. CASE x = a
        BY <2>5, <3>1
    <3>2. CASE x # a
      <4> PICK u \in SUBSET S : u = s \ {a} /\ x \in u
          BY <3>2
      <4> PICK r \in SUBSET S : r = u \ {x}
          OBVIOUS
      <4>1. u \ {x} = r /\ (s \ {x}) \ {a} = r
          OBVIOUS
      <4>2. Total(h, r) \in Nat
        <5>1. Cardinality(r) <= n
          <6>1. IsFiniteSet(u) /\ x \in u
              BY <1>1
          <6>2. Cardinality(u \ {x}) = Cardinality(u) - 1
              BY ONLY <6>1, FS_RemoveElement
          <6>3. Cardinality(r) \in Nat /\ Cardinality(u) \in Nat /\ Cardinality(u) <= n
              BY <1>1, <2>3
          <6> QED BY <6>2, <6>3
        <5>2. Right(r)
          <6> HIDE DEF Right
          <6> QED BY <5>1
        <5> QED BY <5>2
      <4>3. Total(h, s \ {a}) = h[x] + Total(h, r)
        <5>1. Right(u)
          <6> HIDE DEF Right
          <6> QED BY <2>4
        <5>2. x \in u
            BY <3>2
        <5>3. Total(h, u) = h[x] + Total(h, u \ {x})
            BY ONLY <5>1, <5>2
        <5> QED BY <4>1, <5>3, Zenon
      <4>4. Total(h, s \ {x}) = h[a] + Total(h, r)
        <5> PICK v \in SUBSET S : v = s \ {x}
            OBVIOUS
        <5>1. Right(v)
          <6> HIDE DEF Right
          <6> QED BY <2>4
        <5>2. a \in v
            BY <3>2
        <5>3. Total(h, v) = h[a] + Total(h, v \ {a})
            BY ONLY <5>1, <5>2
        <5> QED BY <4>1, <5>3, Zenon
      <4> QED BY <2>5, <4>2, <4>3, <4>4
    <3> QED BY <3>1, <3>2
  <2> QED BY <2>6, <2>7
<1>5. \A n \in Nat : AllRight(n)
  <2> HIDE DEF AllRight
  <2>1. N \in SUBSET Nat /\ 0 \in N /\ \A n \in N : n + 1 \in N
      BY <1>3, <1>4
  <2>2. N = Nat
      BY <2>1, InductionOnSet, Zenon
  <2> QED BY <2>2
<1>6. \A s \in SUBSET S : Right(s)
  <2> HIDE DEF Right
  <2> QED BY <1>1, <1>5
<1> QED BY <1>6

LEMMA TotalOfOneMore ==
    ASSUME NEW S, IsFiniteSet(S), NEW h, \A t \in S : h[t] \in Nat, NEW s \in SUBSET S, NEW x \in S \ s
    PROVE  Total(h, s \cup {x}) = h[x] + Total(h, s) /\ Total(h, s) \in Nat
<1> DEFINE c == s \cup {x}
<1>1. c \in SUBSET S /\ x \in c /\ c \ {x} = s
    OBVIOUS
<1> HIDE DEF c
<1>2. Total(h, c) = h[x] + Total(h, c \ {x}) /\ Total(h, s) \in Nat
    BY <1>1, TotalTakesAny
<1> QED BY <1>1, <1>2 DEF c

LEMMA TotalOfUnion ==
    ASSUME NEW S, IsFiniteSet(S), NEW h, \A t \in S : h[t] \in Nat,
           NEW A \in SUBSET S, NEW B \in SUBSET S, A \cap B = {}
    PROVE  Total(h, A \cup B) = Total(h, A) + Total(h, B)
<1> DEFINE T == {b \in SUBSET B : Total(h, A \cup b) = Total(h, A) + Total(h, b)}
<1>1. \A s \in SUBSET S : Total(h, s) \in Nat /\ \A x \in s : Total(h, s) = h[x] + Total(h, s \ {x})
    BY TotalTakesAny
<1>2. {} \in T
  <2>1. A \cup {} = A
      OBVIOUS
  <2> QED BY <1>1, <2>1, TotalOfNothing
<1>3. \A b \in T : \A x \in B \ b : b \cup {x} \in T
  <2> TAKE b \in T
  <2> TAKE x \in B \ b
  <2>1. /\ A \cup (b \cup {x}) = (A \cup b) \cup {x}
        /\ x \in S \ b /\ x \in S \ (A \cup b) /\ A \cup b \in SUBSET S /\ b \in SUBSET S
      OBVIOUS
  <2>2. Total(h, b \cup {x}) = h[x] + Total(h, b)
      BY <2>1, TotalOfOneMore
  <2>3. Total(h, (A \cup b) \cup {x}) = h[x] + Total(h, A \cup b)
    <3> DEFINE d == A \cup b
    <3>1. d \in SUBSET S /\ x \in S \ d
        BY <2>1
    <3> HIDE DEF d
    <3>2. Total(h, d \cup {x}) = h[x] + Total(h, d)
        BY <3>1, TotalOfOneMore
    <3> QED BY <3>2 DEF d
  <2>4. Total(h, A \cup b) = Total(h, A) + Total(h, b) /\ Total(h, b) \in Nat /\ Total(h, A) \in Nat /\ h[x] \in Nat
      BY <1>1
  <2> QED BY <2>1, <2>2, <2>3, <2>4
<1>4. IsFiniteSet(B)
    BY FS_Subset
<1> HIDE DEF T
<1>5. T = SUBSET B
  <2>1. T \in SUBSET (SUBSET B)
      BY DEF T
  <2> QED BY <1>2, <1>3, <1>4, <2>1, InductionOnSubsets
<1>6. B \in T
    BY <1>5
<1> QED BY <1>6 DEF T

LEMMA TotalsAgree ==
    ASSUME NEW S, IsFiniteSet(S), NEW h, NEW g, \A t \in S : h[t] \in Nat /\ g[t] = h[t]
    PROVE  Total(g, S) = Total(h, S)
<1> DEFINE T == {s \in SUBSET S : Total(g, s) = Total(h, s)}
<1>3. {} \in T
    BY TotalOfNothing
<1>4. \A s \in T : \A x \in S \ s : s \cup {x} \in T
  <2> TAKE s \in T
  <2> TAKE x \in S \ s
  <2>1. Total(h, s \cup {x}) = h[x] + Total(h, s)
      BY TotalOfOneMore
  <2>2. Total(g, s \cup {x}) = g[x] + Total(g, s)
      BY TotalOfOneMore
  <2> QED BY <2>1, <2>2
<1> HIDE DEF T
<1>5. T = SUBSET S
  <2>1. T \in SUBSET (SUBSET S)
      BY DEF T
  <2> QED BY <1>3, <1>4, <2>1, InductionOnSubsets
<1>6. S \in T
    BY <1>5
<1> QED BY <1>6 DEF T

InGroup(S, group, d) == {t \in S : group[t] = d}
InGroups(S, group, D) == {t \in S : group[t] \in D}

\* Summing the sums of disjoint groups is summing everything that is in a group.
LEMMA TotalOfGroups ==
    ASSUME NEW S, IsFiniteSet(S), NEW h, \A t \in S : h[t] \in Nat,
           NEW D, IsFiniteSet(D), NEW group, NEW sums,
           \A d \in D : sums[d] = Total(h, InGroup(S, group, d))
    PROVE  Total(sums, D) = Total(h, InGroups(S, group, D))
<1> DEFINE Members(d) == InGroup(S, group, d)
           Grouped(e) == InGroups(S, group, e)
           T == {e \in SUBSET D : Total(sums, e) = Total(h, Grouped(e))}
<1>1. \A s \in SUBSET S : Total(h, s) \in Nat
    BY TotalTakesAny
<1>2. \A d \in D : sums[d] = Total(h, Members(d)) /\ Members(d) \in SUBSET S
    BY DEF InGroup, InGroups
<1>3. \A d \in D : sums[d] \in Nat
    BY <1>1, <1>2
<1>4. {} \in T
  <2>1. Grouped({}) = {}
      BY DEF InGroup, InGroups
  <2> QED BY <2>1, TotalOfNothing
<1>5. \A e \in T : \A d \in D \ e : e \cup {d} \in T
  <2> TAKE e \in T
  <2> TAKE d \in D \ e
  <2>1. Total(sums, e \cup {d}) = sums[d] + Total(sums, e)
      BY <1>3, TotalOfOneMore
  <2> DEFINE A == Grouped(e)
             B == Members(d)
  <2>2. A \in SUBSET S /\ B \in SUBSET S /\ A \cap B = {} /\ Grouped(e \cup {d}) = A \cup B
      BY DEF InGroup, InGroups
  <2>3. Total(sums, e) = Total(h, A) /\ sums[d] = Total(h, B)
      BY <1>2
  <2> HIDE DEF A, B
  <2>5. Total(h, A \cup B) = Total(h, A) + Total(h, B)
      BY <2>2, TotalOfUnion
  <2>6. Total(h, A) \in Nat /\ Total(h, B) \in Nat
      BY <1>1, <2>2
  <2>7. Total(sums, e \cup {d}) = Total(h, Grouped(e \cup {d}))
    <3>1. Total(h, Grouped(e \cup {d})) = Total(h, A) + Total(h, B)
        BY <2>2, <2>5
    <3> QED BY <2>1, <2>3, <2>6, <3>1
  <2> QED BY <2>7
<1>6. T = SUBSET D
  <2> HIDE DEF T
  <2>1. T \in SUBSET (SUBSET D)
      BY DEF T
  <2> QED BY <1>4, <1>5, <2>1, InductionOnSubsets
<1>7. D \in T
    BY <1>6
<1> QED BY <1>7

\* The sum of a subset is smaller, unless only zeros are missing.
LEMMA TotalOfMore ==
    ASSUME NEW S, IsFiniteSet(S), NEW h, \A t \in S : h[t] \in Nat, NEW A \in SUBSET S
    PROVE  /\ Total(h, S) \in Nat /\ Total(h, A) \in Nat /\ Total(h, A) <= Total(h, S)
           /\ (\A t \in S \ A : h[t] = 0) => Total(h, A) = Total(h, S)
<1>1. \A s \in SUBSET S : Total(h, s) \in Nat
    BY TotalTakesAny
<1> DEFINE B == S \ A
<1>2. B \in SUBSET S /\ A \cap B = {} /\ A \cup B = S
    OBVIOUS
<1> HIDE DEF B
<1>3. Total(h, A \cup B) = Total(h, A) + Total(h, B)
    BY <1>2, TotalOfUnion
<1>4. ASSUME \A t \in B : h[t] = 0 PROVE Total(h, B) = 0
  <2> DEFINE T == {s \in SUBSET B : Total(h, s) = 0}
  <2>1. {} \in T
      BY TotalOfNothing
  <2>2. \A s \in T : \A x \in B \ s : s \cup {x} \in T
    <3> TAKE s \in T
    <3> TAKE x \in B \ s
    <3>1. x \in S \ s /\ s \in SUBSET S
        BY <1>2
    <3>2. Total(h, s \cup {x}) = h[x] + Total(h, s)
        BY <3>1, TotalOfOneMore
    <3>3. h[x] = 0 /\ Total(h, s) = 0
        BY <1>4
    <3> QED BY <3>2, <3>3
  <2> HIDE DEF T
  <2>3. T = SUBSET B
    <3>1. T \in SUBSET (SUBSET B) /\ IsFiniteSet(B)
        BY <1>2, FS_Subset DEF T
    <3> QED BY <2>1, <2>2, <3>1, InductionOnSubsets
  <2>4. B \in T
      BY <2>3
  <2> QED BY <2>4 DEF T
<1>5. (\A t \in S \ A : h[t] = 0) => Total(h, B) = 0
    BY <1>4 DEF B
<1> QED BY <1>1, <1>2, <1>3, <1>5

-----------------------------------------------------------------------------
(* Days *)

LEMMA DivisionWithRest ==
    ASSUME NEW a \in Int, NEW b \in Nat \ {0}
    PROVE  a \div b \in Int /\ a % b \in 0 .. b - 1 /\ a = b * (a \div b) + (a % b)
OBVIOUS

LEMMA LaterMultiple ==
    ASSUME NEW b \in Nat, NEW p \in Int, NEW q \in Int, p < q
    PROVE  b * p + b <= b * q
OBVIOUS

LEMMA DayStartIsMultiple ==
    ASSUME NEW t \in Int
    PROVE  \E p \in Int : DayStart(t) = HoursPerDay * p /\ DayStart(t) <= t /\ t < DayStart(t) + HoursPerDay
<1> DEFINE p == t \div HoursPerDay
           rest == t % HoursPerDay
<1>1. p \in Int /\ rest \in 0 .. HoursPerDay - 1 /\ t = HoursPerDay * p + rest /\ HoursPerDay \in Nat \ {0}
    BY UptimeAssumption, DivisionWithRest DEF UptimeAssumption
<1>2. DayStart(t) = t - rest
    BY DEF DayStart
<1> HIDE DEF p, rest
<1>3. DayStart(t) = HoursPerDay * p /\ DayStart(t) <= t /\ t < DayStart(t) + HoursPerDay
    BY <1>1, <1>2
<1> QED BY <1>1, <1>3

\* Days neither overlap nor leave a gap, and start in the order of their hours.
LEMMA DaysAreInOrder ==
    ASSUME NEW t \in Int, NEW u \in Int
    PROVE  /\ DayStart(t) \in Int /\ DayStart(t) <= t /\ t < DayStart(t) + HoursPerDay
           /\ t <= u => DayStart(t) <= DayStart(u)
           /\ DayStart(t) < DayStart(u) => t < DayStart(u)
           /\ DayStart(DayStart(t)) = DayStart(t)
<1> DEFINE d(x) == DayStart(x)
<1>0. HoursPerDay \in Nat \ {0}
    BY UptimeAssumption DEF UptimeAssumption
<1>1. PICK p \in Int : d(t) = HoursPerDay * p /\ d(t) <= t /\ t < d(t) + HoursPerDay
    BY DayStartIsMultiple
<1>2. PICK q \in Int : d(u) = HoursPerDay * q /\ d(u) <= u /\ u < d(u) + HoursPerDay
    BY DayStartIsMultiple
<1>3. d(t) \in Int /\ d(u) \in Int
    BY <1>0, <1>1, <1>2
<1>4. PICK r \in Int : d(d(t)) = HoursPerDay * r /\ d(d(t)) <= d(t) /\ d(t) < d(d(t)) + HoursPerDay
    BY <1>3, DayStartIsMultiple
<1>5. d(d(t)) \in Int
    BY <1>0, <1>4
<1>6. /\ p < q => d(t) + HoursPerDay <= d(u)
      /\ q < p => d(u) + HoursPerDay <= d(t)
      /\ r < p => d(d(t)) + HoursPerDay <= d(t)
      /\ p < r => d(t) + HoursPerDay <= d(d(t))
    BY <1>0, <1>1, <1>2, <1>4, LaterMultiple
<1> HIDE DEF d
<1>7. t <= u => d(t) <= d(u)
    BY <1>0, <1>1, <1>2, <1>3, <1>6
<1>8. d(t) < d(u) => t < d(u)
    BY <1>0, <1>1, <1>2, <1>3, <1>6
<1>9. d(d(t)) = d(t)
    BY <1>0, <1>1, <1>3, <1>4, <1>5, <1>6
<1> QED BY <1>1, <1>3, <1>7, <1>8, <1>9 DEF d

-----------------------------------------------------------------------------
(* What the tables still know of every hour *)

Totals(counts) == [t \in ObservedHours |-> counts[t].total]
Successes(counts) == [t \in ObservedHours |-> counts[t].successful]
HoursOfDay(t) == {u \in ObservedHours : DayStart(u) = t}

\* From hour l on, h holds what g does, in days up to hour b and in hours after.
IsMerged(h, g, b, l) ==
    \A t \in ObservedHours : t >= l =>
        h[t] = IF t >= b THEN g[t] ELSE IF DayStart(t) = t THEN Total(g, HoursOfDay(t)) ELSE 0

\* The hours that a range from hour l on is counted for.
HoursCounted(b, l) == {t \in 0 .. hour : t >= l /\ (t >= b \/ DayStart(t) >= l)}

LEMMA HoursAreFinite ==
    /\ ObservedHours \subseteq Nat /\ IsFiniteSet(ObservedHours)
    /\ \A S \in SUBSET ObservedHours : IsFiniteSet(S)
<1>1. MaxHour \in Nat
    BY UptimeAssumption DEF UptimeAssumption
<1>2. IsFiniteSet(ObservedHours)
    BY <1>1, FS_Interval DEF ObservedHours
<1>3. \A S \in SUBSET ObservedHours : IsFiniteSet(S)
    BY <1>2, FS_Subset
<1> QED BY <1>1, <1>2, <1>3 DEF ObservedHours

LEMMA DaysStartInTime ==
    ASSUME NEW t \in ObservedHours
    PROVE  DayStart(t) \in ObservedHours
<1>1. MaxHour \in Nat /\ HoursPerDay \in Nat \ {0}
    BY UptimeAssumption DEF UptimeAssumption
<1>2. 0 % HoursPerDay \in 0 .. HoursPerDay - 1 /\ 0 = HoursPerDay * (0 \div HoursPerDay) + (0 % HoursPerDay)
    BY <1>1, DivisionWithRest
<1>3. PICK p \in Int : DayStart(0) = HoursPerDay * p /\ DayStart(0) <= 0 /\ 0 < DayStart(0) + HoursPerDay
    BY DayStartIsMultiple
<1>4. ~(p < 0)
  <2>1. p < 0 => HoursPerDay * p + HoursPerDay <= HoursPerDay * 0
      BY <1>1, LaterMultiple
  <2> QED BY <1>1, <1>3, <2>1
<1>5. DayStart(0) = 0
  <2>1. p > 0 => HoursPerDay * 0 + HoursPerDay <= HoursPerDay * p
      BY <1>1, LaterMultiple
  <2> QED BY <1>1, <1>3, <1>4, <2>1
<1>6. t \in Int /\ DayStart(0) <= DayStart(t) /\ DayStart(t) <= t /\ DayStart(t) \in Int
    BY HoursAreFinite, DaysAreInOrder DEF ObservedHours
<1> QED BY <1>1, <1>5, <1>6 DEF ObservedHours

\* What is counted from hour l on is the observation of exactly these hours.
LEMMA MergedTotals ==
    ASSUME NEW h, NEW g \in [ObservedHours -> Nat], hour \in ObservedHours,
           NEW b \in Int, DayStart(b) = b, b <= hour, NEW l \in Int, NEW m \in Int, m <= l, IsMerged(h, g, b, m)
    PROVE  Total(h, {t \in ObservedHours : t >= l /\ t <= hour}) = Total(g, HoursCounted(b, l))
<1> DEFINE range == {t \in ObservedHours : t >= l /\ t <= hour}
           hours == {t \in range : t >= b}
           days == {t \in range : t < b /\ DayStart(t) = t}
           others == {t \in range : t < b /\ DayStart(t) # t}
           inDays == {u \in ObservedHours : DayStart(u) \in days}
<1>0. ObservedHours \subseteq Int /\ MaxHour \in Nat /\ hour \in Nat
    BY UptimeAssumption, HoursAreFinite DEF ObservedHours, UptimeAssumption
<1>1. /\ range \in SUBSET ObservedHours /\ hours \in SUBSET range /\ days \in SUBSET range /\ others \in SUBSET range
      /\ inDays \in SUBSET ObservedHours
    OBVIOUS
<1>2. hours \cup days \in SUBSET range /\ \A t \in range \ (hours \cup days) : h[t] = 0
    BY <1>0 DEF IsMerged
<1>3. \A t \in hours : h[t] = g[t] /\ g[t] \in Nat
    BY <1>0 DEF IsMerged
<1>4. \A t \in days : h[t] = Total(g, HoursOfDay(t))
    BY <1>0 DEF IsMerged
<1>5. \A S \in SUBSET ObservedHours : Total(g, S) \in Nat
    BY HoursAreFinite, TotalTakesAny
<1>6. \A t \in range : h[t] \in Nat
  <2>1. \A t \in ObservedHours : HoursOfDay(t) \in SUBSET ObservedHours
      BY DEF HoursOfDay
  <2> QED BY <1>0, <1>2, <1>3, <1>4, <1>5, <2>1
<1>7. HoursCounted(b, l) = hours \cup inDays /\ hours \cap inDays = {}
  <2>1. ASSUME NEW u \in inDays PROVE u \in HoursCounted(b, l) /\ u < b
    <3>1. u \in Int /\ DayStart(u) \in Int /\ DayStart(u) >= l /\ DayStart(u) < b /\ DayStart(u) <= u
        BY <1>0, DaysAreInOrder
    <3>2. u < b
        BY <3>1, DaysAreInOrder
    <3>3. u \in 0 .. hour
        BY <1>0, <3>2 DEF ObservedHours
    <3> QED BY <3>1, <3>2, <3>3 DEF HoursCounted
  <2>2. ASSUME NEW u \in HoursCounted(b, l) PROVE u \in hours \cup inDays
    <3>1. u \in ObservedHours /\ u <= hour /\ u >= l
        BY <1>0 DEF HoursCounted, ObservedHours
    <3>2. CASE u >= b
        BY <3>1, <3>2
    <3>3. CASE ~(u >= b)
      <4>1. DayStart(u) >= l /\ DayStart(u) \in Int /\ DayStart(u) <= u /\ DayStart(DayStart(u)) = DayStart(u)
          BY <1>0, <3>1, <3>3, DaysAreInOrder DEF HoursCounted
      <4>2. DayStart(u) \in ObservedHours
          BY <3>1, DaysStartInTime
      <4> QED BY <1>0, <3>1, <3>3, <4>1, <4>2
    <3> QED BY <3>2, <3>3
  <2>3. hours \subseteq HoursCounted(b, l)
      BY <1>0 DEF HoursCounted, ObservedHours
  <2>4. HoursCounted(b, l) = hours \cup inDays
    <3> HIDE DEF hours, inDays
    <3> QED BY <2>1, <2>2, <2>3
  <2>5. \A u \in hours : ~(u < b)
      BY <1>0
  <2> QED BY <2>1, <2>4, <2>5
<1> HIDE DEF range, hours, days, inDays
<1>8. Total(h, range) = Total(h, hours \cup days)
    BY <1>1, <1>2, <1>6, HoursAreFinite, TotalOfMore
<1>9. Total(h, hours \cup days) = Total(h, hours) + Total(h, days)
  <2>1. hours \cap days = {}
    <3>1. \A t \in range : ~(t >= b /\ t < b)
        BY <1>0, <1>1
    <3> QED BY <3>1 DEF hours, days
  <2>2. IsFiniteSet(range)
      BY <1>1, HoursAreFinite
  <2> QED BY <1>1, <1>6, <2>1, <2>2, TotalOfUnion
<1>10. Total(h, hours) = Total(g, hours)
  <2>1. IsFiniteSet(hours)
      BY <1>1, HoursAreFinite
  <2> QED BY <1>3, <2>1, TotalsAgree
<1>11. Total(h, days) = Total(g, inDays)
  <2>1. PICK D, day : D = days /\ day = [t \in ObservedHours |-> DayStart(t)]
      OBVIOUS
  <2>2. /\ \A d \in D : HoursOfDay(d) = InGroup(ObservedHours, day, d)
        /\ inDays = InGroups(ObservedHours, day, D)
      BY <2>1 DEF HoursOfDay, InGroup, InGroups, inDays
  <2>3. /\ IsFiniteSet(ObservedHours) /\ \A t \in ObservedHours : g[t] \in Nat
        /\ IsFiniteSet(D) /\ \A d \in D : h[d] = Total(g, InGroup(ObservedHours, day, d))
      BY <1>1, <1>4, <2>1, <2>2, HoursAreFinite
  <2>4. Total(h, D) = Total(g, InGroups(ObservedHours, day, D))
      BY <2>3, TotalOfGroups
  <2> QED BY <2>1, <2>2, <2>4
<1>12. Total(g, hours \cup inDays) = Total(g, hours) + Total(g, inDays)
  <2>1. /\ hours \in SUBSET ObservedHours /\ inDays \in SUBSET ObservedHours /\ hours \cap inDays = {}
        /\ IsFiniteSet(ObservedHours) /\ \A t \in ObservedHours : g[t] \in Nat
      BY <1>1, <1>7, HoursAreFinite
  <2> QED BY <2>1, TotalOfUnion
<1> QED BY <1>7, <1>8, <1>9, <1>10, <1>11, <1>12 DEF range

\* The hours of a day that begins before another begin and end before it.
LEMMA DayOfHours ==
    ASSUME NEW t \in ObservedHours, DayStart(t) = t, NEW c \in Int, DayStart(c) = c
    PROVE  /\ HoursOfDay(t) \in SUBSET ObservedHours /\ t \in HoursOfDay(t)
           /\ \A u \in HoursOfDay(t) : t <= u /\ (t < c => u < c) /\ (u # t => DayStart(u) # u)
<1>1. ObservedHours \subseteq Int
    BY HoursAreFinite
<1>2. HoursOfDay(t) \in SUBSET ObservedHours /\ t \in HoursOfDay(t)
    BY DEF HoursOfDay
<1>3. ASSUME NEW u \in HoursOfDay(t) PROVE t <= u /\ (t < c => u < c) /\ (u # t => DayStart(u) # u)
  <2>1. u \in Int /\ DayStart(u) = t
      BY <1>1 DEF HoursOfDay
  <2> QED BY <2>1, DaysAreInOrder
<1> QED BY <1>2, <1>3

\* What a merge before hour c reads of the day that begins at hour t.
PartOfDay(E, t, l, c) == {u \in {v \in E : v >= l /\ v < c} : DayStart(u) = t}

\* A merge sums what is left of each day, hours that an earlier merge has summed included.
LEMMA MergeIsMerged ==
    ASSUME NEW h \in [ObservedHours -> Nat], NEW g \in [ObservedHours -> Nat],
           NEW b \in Int, DayStart(b) = b, NEW c \in Int, DayStart(c) = c, b <= c,
           NEW l \in Int, IsMerged(h, g, b, l),
           NEW E \in SUBSET ObservedHours, \A t \in ObservedHours \ E : h[t] = 0,
           NEW k, \A t \in ObservedHours :
                     k[t] = IF t < c THEN Total(h, PartOfDay(E, t, l, c)) ELSE h[t]
    PROVE  IsMerged(k, g, c, l)
<1>0. ObservedHours \subseteq Int
    BY HoursAreFinite
<1> SUFFICES ASSUME NEW t \in ObservedHours, t >= l
             PROVE  k[t] = IF t >= c THEN g[t] ELSE IF DayStart(t) = t THEN Total(g, HoursOfDay(t)) ELSE 0
    BY DEF IsMerged
<1> DEFINE part == PartOfDay(E, t, l, c)
           day == HoursOfDay(t)
<1>1. CASE t >= c
    BY <1>0, <1>1 DEF IsMerged
<1>2. CASE t < c /\ DayStart(t) # t
  <2>1. ASSUME NEW u \in part PROVE FALSE
    <3>1. u \in Int /\ DayStart(u) = t
        BY <1>0 DEF PartOfDay
    <3>2. DayStart(DayStart(u)) = DayStart(u)
        BY <3>1, DaysAreInOrder
    <3> QED BY <1>2, <3>1, <3>2
  <2>2. part = {}
      BY <2>1
  <2> QED BY <1>0, <1>2, <2>2, TotalOfNothing
<1>3. CASE t < c /\ DayStart(t) = t
  <2>1. day \in SUBSET ObservedHours /\ t \in day /\ \A u \in day : t <= u /\ u < c /\ (u # t => DayStart(u) # u)
      BY <1>3, DayOfHours
  <2>2. part \in SUBSET day /\ \A u \in day \ part : h[u] = 0
    <3>1. part \in SUBSET day
        BY DEF PartOfDay, HoursOfDay
    <3>2. ASSUME NEW u \in day \ part PROVE u \notin E
        BY <1>0, <2>1 DEF PartOfDay, HoursOfDay
    <3> QED BY <2>1, <3>1, <3>2
  <2> HIDE DEF part, day
  <2>3. IsFiniteSet(day) /\ (\A u \in day : h[u] \in Nat /\ g[u] \in Nat)
      BY <2>1, HoursAreFinite
  <2>4. Total(h, part) = Total(h, day)
      BY <2>2, <2>3, TotalOfMore
  <2>5. Total(h, day) = Total(g, day)
    <3>1. CASE t >= b
      <4>1. \A u \in day : h[u] = g[u]
          BY <1>0, <2>1, <3>1 DEF IsMerged
      <4> QED BY <2>3, <4>1, TotalsAgree
    <3>2. CASE t < b
      <4>1. \A u \in day : u < b
          BY <1>3, <3>2, DayOfHours DEF day
      <4>2. h[t] = Total(g, day)
          BY <1>0, <1>3, <3>2 DEF IsMerged, day
      <4>3. \A u \in day \ {t} : h[u] = 0
          BY <1>0, <2>1, <4>1 DEF IsMerged
      <4>4. Total(h, {t}) = Total(h, day)
          BY <2>1, <2>3, <4>3, TotalOfMore
      <4>5. Total(h, {t}) = h[t]
        <5>1. PICK one \in SUBSET day : one = {t}
            BY <2>1
        <5>2. Total(h, one) = h[t] + Total(h, one \ {t})
            BY <2>3, <5>1, TotalTakesAny
        <5>3. one \ {t} = {}
            BY <5>1
        <5>4. Total(h, one \ {t}) = 0 /\ h[t] \in Nat
            BY <5>3, TotalOfNothing
        <5> QED BY <5>1, <5>2, <5>4
      <4> QED BY <4>2, <4>4, <4>5
    <3> QED BY <1>0, <3>1, <3>2
  <2>6. k[t] = Total(h, part)
      BY <1>3 DEF part
  <2> QED BY <1>0, <1>3, <2>4, <2>5, <2>6 DEF day
<1> QED BY <1>0, <1>1, <1>2, <1>3

\* What is lost of the days before hour c is not there to be observed either.
LEMMA LostDaysAreMerged ==
    ASSUME NEW h \in [ObservedHours -> Nat], NEW g \in [ObservedHours -> Nat],
           NEW c \in Int, DayStart(c) = c, NEW l \in Int, IsMerged(h, g, c, l),
           NEW F \in SUBSET Int, \A d \in F : d < c,
           NEW k, \A t \in ObservedHours : k[t] = IF t \in F THEN 0 ELSE h[t],
           NEW o, \A t \in ObservedHours : o[t] = IF DayStart(t) \in F THEN 0 ELSE g[t]
    PROVE  IsMerged(k, o, c, l)
<1>0. ObservedHours \subseteq Int
    BY HoursAreFinite
<1> SUFFICES ASSUME NEW t \in ObservedHours, t >= l
             PROVE  k[t] = IF t >= c THEN o[t] ELSE IF DayStart(t) = t THEN Total(o, HoursOfDay(t)) ELSE 0
    BY DEF IsMerged
<1>1. CASE t >= c
  <2>1. c <= DayStart(t) /\ DayStart(t) \in Int
      BY <1>0, <1>1, DaysAreInOrder
  <2>2. t \notin F /\ DayStart(t) \notin F
      BY <1>0, <1>1, <2>1
  <2> QED BY <1>0, <1>1, <2>2 DEF IsMerged
<1>2. CASE t < c /\ DayStart(t) # t
    BY <1>0, <1>2 DEF IsMerged
<1>3. CASE t < c /\ DayStart(t) = t
  <2>1. PICK day \in SUBSET ObservedHours : day = HoursOfDay(t) /\ IsFiniteSet(day)
      BY HoursAreFinite DEF HoursOfDay
  <2>2. k[t] = IF t \in F THEN 0 ELSE Total(g, day)
      BY <1>0, <1>3, <2>1 DEF IsMerged
  <2>3. \A u \in day : g[u] \in Nat /\ o[u] = IF t \in F THEN 0 ELSE g[u]
      BY <2>1 DEF HoursOfDay
  <2>4. CASE t \notin F
    <3>1. Total(o, day) = Total(g, day)
        BY <2>1, <2>3, <2>4, TotalsAgree
    <3> QED BY <1>0, <1>3, <2>1, <2>2, <2>4, <3>1
  <2>5. CASE t \in F
    <3>1. {} \in SUBSET day /\ (\A u \in day : o[u] \in Nat) /\ \A u \in day \ {} : o[u] = 0
        BY <2>3, <2>5
    <3>2. Total(o, {}) = Total(o, day)
        BY <2>1, <3>1, TotalOfMore
    <3> QED BY <1>0, <1>3, <2>1, <2>2, <2>5, <3>2, TotalOfNothing
  <2> QED BY <2>4, <2>5
<1> QED BY <1>0, <1>1, <1>2, <1>3

\* A result raises a count by one or not at all.
Raised(h, x, n) == [h EXCEPT ![x] = @ + n]

LEMMA IncrementIsMerged ==
    ASSUME NEW h \in [ObservedHours -> Nat], NEW g \in [ObservedHours -> Nat],
           NEW b \in Int, DayStart(b) = b, NEW l \in Int, IsMerged(h, g, b, l),
           NEW x \in ObservedHours, b <= x, NEW n \in Nat
    PROVE  IsMerged(Raised(h, x, n), Raised(g, x, n), b, l)
<1>0. ObservedHours \subseteq Int
    BY HoursAreFinite
<1> DEFINE f == Raised(h, x, n)
           o == Raised(g, x, n)
<1>1. /\ \A t \in ObservedHours : f[t] = IF t = x THEN h[t] + n ELSE h[t]
      /\ \A t \in ObservedHours : o[t] = IF t = x THEN g[t] + n ELSE g[t]
    BY DEF Raised
<1> HIDE DEF f, o
<1> SUFFICES ASSUME NEW t \in ObservedHours, t >= l
             PROVE  f[t] = IF t >= b THEN o[t] ELSE IF DayStart(t) = t THEN Total(o, HoursOfDay(t)) ELSE 0
    BY DEF IsMerged, f, o
<1>2. CASE t >= b
    BY <1>0, <1>1, <1>2 DEF IsMerged
<1>3. CASE t < b /\ DayStart(t) # t
    BY <1>0, <1>1, <1>3 DEF IsMerged
<1>4. CASE t < b /\ DayStart(t) = t
  <2>1. HoursOfDay(t) \in SUBSET ObservedHours /\ \A u \in HoursOfDay(t) : u < b
      BY <1>4, DayOfHours
  <2>2. \A u \in HoursOfDay(t) : g[u] \in Nat /\ o[u] = g[u]
    <3> TAKE u \in HoursOfDay(t)
    <3>1. u \in ObservedHours /\ u < b
        BY <2>1
    <3>2. u # x /\ g[u] \in Nat
        BY <1>0, <3>1
    <3> QED BY <1>1, <3>1, <3>2
  <2>3. Total(o, HoursOfDay(t)) = Total(g, HoursOfDay(t))
      BY <2>1, <2>2, HoursAreFinite, TotalsAgree
  <2> QED BY <1>0, <1>1, <1>4, <2>3 DEF IsMerged
<1> QED BY <1>0, <1>2, <1>3, <1>4

-----------------------------------------------------------------------------
(* The tables *)

\* Without results there are no successful ones.
CountsAreSound(counts) ==
    counts \in Counts /\ \A t \in ObservedHours : counts[t].total = 0 => counts[t].successful = 0

AreMerged(counts, results, b, l) ==
    /\ IsMerged(Totals(counts), Totals(results), b, l)
    /\ IsMerged(Successes(counts), Successes(results), b, l)

\* What the table was updated with, but for the days that merges have lost.
WithoutDays(counts, days) == [t \in ObservedHours |-> IF DayStart(t) \in days THEN Nothing ELSE counts[t]]
Known == WithoutDays(updated, lostDays)

\* The memory store knows every hour that is retained.  The SQL stores know, of what
\* is retained and was not lost, the hours from some start of a day on, and whole
\* days before it; merges lose only days that are past.
UptimeInv ==
    /\ UptimeTypeOK
    /\ CountsAreSound(uptimeEntries)
    /\ \A t \in ObservedHours : t >= hour - Retention => hourlyStatistics[t] = observed[t]
    /\ \A d \in lostDays : d < MergeableBefore
    /\ \E b \in Int : /\ DayStart(b) = b /\ b <= MergeableBefore
                      /\ AreMerged(uptimeEntries, Known, b, Since(Retention))

LEMMA CountsAreNumbers ==
    ASSUME NEW c \in Counts
    PROVE  /\ Totals(c) \in [ObservedHours -> Nat] /\ Successes(c) \in [ObservedHours -> Nat]
           /\ \A t \in ObservedHours : /\ c[t] = [total |-> c[t].total, successful |-> c[t].successful]
                                       /\ Totals(c)[t] = c[t].total /\ Successes(c)[t] = c[t].successful
BY DEF Counts, Totals, Successes

\* SumOver sums the totals and the successful results separately.
LEMMA SumsOfHours ==
    ASSUME NEW c \in Counts, NEW S \in SUBSET ObservedHours
    PROVE  /\ SumOver(c, S) = [total |-> Total(Totals(c), S), successful |-> Total(Successes(c), S)]
           /\ Total(Totals(c), S) \in Nat /\ Total(Successes(c), S) \in Nat
<1> DEFINE h == [t \in S |-> c[t].total]
           g == [t \in S |-> c[t].successful]
<1>1. IsFiniteSet(S)
    BY HoursAreFinite
<1>2. /\ \A t \in S : Totals(c)[t] \in Nat /\ h[t] = Totals(c)[t]
      /\ \A t \in S : Successes(c)[t] \in Nat /\ g[t] = Successes(c)[t]
  <2>1. \A t \in S : t \in ObservedHours /\ h[t] = c[t].total /\ g[t] = c[t].successful
      OBVIOUS
  <2> HIDE DEF h, g
  <2> QED BY <2>1, CountsAreNumbers
<1>3. SumOver(c, S) = [total |-> Total(h, S), successful |-> Total(g, S)]
    BY SumsAreTotals, Zenon
<1> HIDE DEF h, g
<1>4. Total(h, S) = Total(Totals(c), S) /\ Total(g, S) = Total(Successes(c), S)
    BY <1>1, <1>2, TotalsAgree
<1>5. Total(Totals(c), S) \in Nat /\ Total(Successes(c), S) \in Nat
    BY <1>1, <1>2, TotalOfMore
<1> QED BY <1>3, <1>4, <1>5

Point(success) == IF success THEN 1 ELSE 0

LEMMA IncrementedCounts ==
    ASSUME hour \in ObservedHours, NEW success \in BOOLEAN, NEW c \in Counts
    PROVE  /\ Incremented(c, success) \in Counts
           /\ CountsAreSound(c) => CountsAreSound(Incremented(c, success))
           /\ Totals(Incremented(c, success)) = Raised(Totals(c), hour, 1)
           /\ Successes(Incremented(c, success)) = Raised(Successes(c), hour, Point(success))
           /\ \A t \in ObservedHours : t # hour => Incremented(c, success)[t] = c[t]
<1> PICK n \in Nat : n = IF success THEN 1 ELSE 0
    OBVIOUS
<1>0. n = Point(success)
    BY DEF Point
<1> DEFINE more == [total |-> c[hour].total + 1, successful |-> c[hour].successful + n]
           new == Incremented(c, success)
<1>1. /\ c \in [ObservedHours -> [total : Nat, successful : Nat]]
      /\ c[hour].total \in Nat /\ c[hour].successful \in Nat
    BY CountsAreNumbers DEF Counts
<1>2. new = [c EXCEPT ![hour] = more]
    BY <1>1 DEF Incremented
<1>3. more \in [total : Nat, successful : Nat] /\ more.total # 0
    BY <1>1
<1>4. /\ more.total = c[hour].total + 1 /\ more.successful = c[hour].successful + n
    OBVIOUS
<1> HIDE DEF new, more
<1>5. /\ new \in [ObservedHours -> [total : Nat, successful : Nat]]
      /\ new[hour] = more /\ \A t \in ObservedHours : t # hour => new[t] = c[t]
    BY <1>1, <1>2, <1>3
<1>6. new \in Counts /\ (CountsAreSound(c) => CountsAreSound(new))
    BY <1>3, <1>5 DEF Counts, CountsAreSound
<1>7. Totals(new) = Raised(Totals(c), hour, 1)
    BY <1>4, <1>5 DEF Totals, Raised
<1>8. Successes(new) = Raised(Successes(c), hour, n)
    BY <1>4, <1>5 DEF Successes, Raised
<1> QED BY <1>0, <1>5, <1>6, <1>7, <1>8 DEF new

LEMMA DeletedCounts ==
    ASSUME NEW c \in Counts, NEW x \in Int
    PROVE  /\ DeletedBefore(c, x) \in Counts
           /\ CountsAreSound(c) => CountsAreSound(DeletedBefore(c, x))
           /\ \A t \in ObservedHours : t >= x => DeletedBefore(c, x)[t] = c[t]
<1>1. Nothing \in [total : Nat, successful : Nat] /\ Nothing.successful = 0
    BY DEF Nothing
<1>2. /\ DeletedBefore(c, x) \in [ObservedHours -> [total : Nat, successful : Nat]]
      /\ \A t \in ObservedHours : DeletedBefore(c, x)[t] = IF t < x THEN Nothing ELSE c[t]
    BY <1>1 DEF DeletedBefore, Counts
<1>3. \A t \in ObservedHours : t >= x => ~(t < x)
    BY HoursAreFinite
<1> QED BY <1>1, <1>2, <1>3 DEF CountsAreSound, Counts

LEMMA SameIsMerged ==
    ASSUME NEW c \in Counts, NEW k \in Counts, NEW o, NEW b \in Int, NEW l \in Int, NEW x \in Int, x <= l,
           AreMerged(c, o, b, l), \A t \in ObservedHours : t >= x => k[t] = c[t]
    PROVE  AreMerged(k, o, b, l)
<1>1. \A t \in ObservedHours : t >= l => Totals(k)[t] = Totals(c)[t] /\ Successes(k)[t] = Successes(c)[t]
  <2> SUFFICES ASSUME NEW t \in ObservedHours, t >= l
               PROVE  Totals(k)[t] = Totals(c)[t] /\ Successes(k)[t] = Successes(c)[t]
      OBVIOUS
  <2>1. k[t] = c[t]
      BY HoursAreFinite
  <2> QED BY <2>1 DEF Totals, Successes
<1> QED BY <1>1 DEF AreMerged, IsMerged

LEMMA MergedCounts ==
    ASSUME hour \in ObservedHours, NEW c, CountsAreSound(c), NEW o \in Counts, NEW b \in Int, DayStart(b) = b,
           b <= MergeableBefore, AreMerged(c, o, b, Since(Retention))
    PROVE  /\ CountsAreSound(Merged(c, {}))
           /\ AreMerged(Merged(c, {}), o, MergeableBefore, Since(Retention))
<1> DEFINE l == Since(Retention)
           until == MergeableBefore
           E == Entries(c)
           read == {t \in E : t >= l /\ t < until}
           part(t) == {u \in read : DayStart(u) = t}
           k == Merged(c, {})
<1>0. hour \in Int /\ HourlyBuffer \in Int /\ Retention \in Int /\ ObservedHours \subseteq Int
    BY HoursAreFinite, UptimeAssumption DEF UptimeAssumption
<1>1. l \in Int /\ until \in Int /\ DayStart(until) = until
    BY <1>0, DaysAreInOrder DEF Since, MergeableBefore
<1>2. c \in Counts /\ E \in SUBSET ObservedHours /\ \A t : part(t) \in SUBSET ObservedHours /\ part(t) \in SUBSET E
    BY DEF CountsAreSound, Entries
<1>3. k = [t \in ObservedHours |-> IF t < until THEN SumOver(c, part(t)) ELSE c[t]]
  <2>1. \A t : {u \in ToMerge(c) : DayStart(u) = t /\ t \notin {}} = part(t)
      BY DEF ToMerge
  <2> QED BY <2>1, Zenon DEF Merged
<1>4. \A t : part(t) = PartOfDay(E, t, l, until)
    BY DEF PartOfDay
<1> HIDE DEF l, until, E, part, k
<1>5. \A t \in ObservedHours : ~(t < until) => k[t] = c[t]
    BY <1>3
<1>6. ASSUME NEW t \in ObservedHours, t < until, NEW s \in SUBSET ObservedHours, s = part(t)
      PROVE  /\ k[t] \in [total : Nat, successful : Nat]
             /\ k[t].total = Total(Totals(c), s) /\ k[t].successful = Total(Successes(c), s)
  <2>1. k[t] = SumOver(c, s)
      BY <1>3, <1>6
  <2>2. /\ SumOver(c, s) = [total |-> Total(Totals(c), s), successful |-> Total(Successes(c), s)]
        /\ Total(Totals(c), s) \in Nat /\ Total(Successes(c), s) \in Nat
      BY <1>2, SumsOfHours
  <2> QED BY <2>1, <2>2
<1>7. k \in Counts
  <2>1. \A t \in ObservedHours : k[t] \in [total : Nat, successful : Nat]
    <3> TAKE t \in ObservedHours
    <3>1. c[t] \in [total : Nat, successful : Nat]
        BY <1>2 DEF Counts
    <3> QED BY <1>2, <1>5, <1>6, <3>1
  <2>2. DOMAIN k = ObservedHours /\ k = [t \in DOMAIN k |-> k[t]]
      BY <1>3
  <2> QED BY <2>1, <2>2 DEF Counts
<1>8. \A t \in ObservedHours : /\ t \notin E => Totals(c)[t] = 0 /\ Successes(c)[t] = 0
                               /\ t \in E => Totals(c)[t] > 0
  <2> TAKE t \in ObservedHours
  <2>1. /\ Totals(c)[t] = c[t].total /\ Successes(c)[t] = c[t].successful /\ c[t].total \in Nat
      BY ZenonT(60), <1>2, CountsAreNumbers
  <2>2. t \in E <=> c[t].total > 0
      BY DEF E, Entries
  <2>3. c[t].total = 0 => c[t].successful = 0
      BY DEF CountsAreSound
  <2> QED BY <2>1, <2>2, <2>3
<1>9. CountsAreSound(k)
  <2> SUFFICES ASSUME NEW t \in ObservedHours, k[t].total = 0 PROVE k[t].successful = 0
      BY <1>7 DEF CountsAreSound
  <2>1. CASE ~(t < until)
    <3>1. k[t] = c[t]
        BY <1>5, <2>1
    <3> QED BY <3>1 DEF CountsAreSound
  <2>2. CASE t < until
    <3>1. PICK s \in SUBSET ObservedHours : s = part(t) /\ s \subseteq E
        BY <1>2
    <3>2. Total(Totals(c), s) = 0 /\ k[t].successful = Total(Successes(c), s)
        BY <1>6, <2>2, <3>1
    <3>3. ASSUME NEW x \in s PROVE FALSE
      <4>1. IsFiniteSet(s) /\ \A u \in s : Totals(c)[u] \in Nat
          BY <1>2, HoursAreFinite, CountsAreNumbers
      <4>2. Total(Totals(c), s) = Totals(c)[x] + Total(Totals(c), s \ {x})
          BY <4>1, TotalTakesAny
      <4>3. Total(Totals(c), s \ {x}) \in Nat /\ Totals(c)[x] \in Nat /\ Totals(c)[x] > 0
          BY <1>8, <3>1, <4>1, TotalTakesAny
      <4> QED BY <3>2, <4>2, <4>3
    <3>4. s = {}
        BY <3>3
    <3> QED BY <3>2, <3>4, TotalOfNothing
  <2> QED BY <2>1, <2>2
<1>10. /\ Totals(c) \in [ObservedHours -> Nat] /\ Successes(c) \in [ObservedHours -> Nat]
       /\ Totals(o) \in [ObservedHours -> Nat] /\ Successes(o) \in [ObservedHours -> Nat]
    BY <1>2, CountsAreNumbers
<1>11. \A t \in ObservedHours :
          /\ Totals(k)[t] = IF t < until THEN Total(Totals(c), PartOfDay(E, t, l, until)) ELSE Totals(c)[t]
          /\ Successes(k)[t] = IF t < until THEN Total(Successes(c), PartOfDay(E, t, l, until)) ELSE Successes(c)[t]
  <2> TAKE t \in ObservedHours
  <2>1. /\ Totals(k)[t] = k[t].total /\ Successes(k)[t] = k[t].successful
        /\ Totals(c)[t] = c[t].total /\ Successes(c)[t] = c[t].successful
      BY <1>2, <1>7, CountsAreNumbers
  <2>2. PICK s \in SUBSET ObservedHours : s = part(t) /\ s = PartOfDay(E, t, l, until)
      BY <1>2, <1>4
  <2>3. t < until => k[t].total = Total(Totals(c), s) /\ k[t].successful = Total(Successes(c), s)
      BY <1>6, <2>2
  <2>4. ~(t < until) => k[t] = c[t]
      BY <1>5
  <2> QED BY <2>1, <2>2, <2>3, <2>4
<1>12. IsMerged(Totals(c), Totals(o), b, l) /\ IsMerged(Successes(c), Successes(o), b, l) /\ b <= until
    BY DEF AreMerged, l, until
<1>13. IsMerged(Totals(k), Totals(o), until, l)
    BY <1>1, <1>2, <1>8, <1>10, <1>11, <1>12, MergeIsMerged
<1>14. IsMerged(Successes(k), Successes(o), until, l)
    BY <1>1, <1>2, <1>8, <1>10, <1>11, <1>12, MergeIsMerged
<1> QED BY <1>9, <1>13, <1>14 DEF AreMerged, k, until, l

\* A merge that fails loses the days whose sums it has not inserted.
LEMMA MergedButLost ==
    ASSUME hour \in ObservedHours, NEW c, CountsAreSound(c), NEW o \in Counts, NEW b \in Int, DayStart(b) = b,
           b <= MergeableBefore, AreMerged(c, o, b, Since(Retention)),
           NEW F \in SUBSET Int, \A d \in F : d < MergeableBefore
    PROVE  /\ CountsAreSound(Merged(c, F))
           /\ AreMerged(Merged(c, F), WithoutDays(o, F), MergeableBefore, Since(Retention))
<1> PICK until, l : until = MergeableBefore /\ l = Since(Retention)
    OBVIOUS
<1>0. hour \in Int /\ HourlyBuffer \in Int /\ Retention \in Int /\ ObservedHours \subseteq Int
    BY HoursAreFinite, UptimeAssumption DEF UptimeAssumption
<1>1. l \in Int /\ until \in Int /\ DayStart(until) = until
    BY <1>0, DaysAreInOrder DEF Since, MergeableBefore
<1>2. PICK m : m = Merged(c, {}) /\ CountsAreSound(m) /\ AreMerged(m, o, until, l)
    BY MergedCounts
<1>3. PICK k : k = Merged(c, F)
    OBVIOUS
<1>4. PICK p : p = WithoutDays(o, F)
    OBVIOUS
<1>5. c \in Counts /\ m \in Counts
    BY <1>2 DEF CountsAreSound
<1>6. \A t \in ObservedHours : k[t] = IF t \in F THEN Nothing ELSE m[t]
  <2> TAKE t \in ObservedHours
  <2> DEFINE read(G) == {u \in ToMerge(c) : DayStart(u) = t /\ t \notin G}
  <2>1. /\ k[t] = IF t < until THEN SumOver(c, read(F)) ELSE c[t]
        /\ m[t] = IF t < until THEN SumOver(c, read({})) ELSE c[t]
      BY <1>2, <1>3, Zenon DEF Merged
  <2>2. CASE t \in F
    <3>1. t < until
        BY <2>2
    <3>2. {} \in SUBSET ObservedHours /\ read(F) = {}
        BY <2>2
    <3>3. k[t] = SumOver(c, {})
        BY <2>1, <3>1, <3>2
    <3>4. SumOver(c, {}) = [total |-> Total(Totals(c), {}), successful |-> Total(Successes(c), {})]
        BY <1>5, <3>2, SumsOfHours
    <3> QED BY <2>2, <3>3, <3>4, TotalOfNothing DEF Nothing
  <2>3. CASE t \notin F
    <3>1. read(F) = read({})
        BY <2>3
    <3> HIDE DEF read
    <3> QED BY <2>1, <2>3, <3>1
  <2> QED BY <2>2, <2>3
<1>7. \A t \in ObservedHours : p[t] = IF DayStart(t) \in F THEN Nothing ELSE o[t]
    BY <1>4 DEF WithoutDays
<1>8. Nothing \in [total : Nat, successful : Nat] /\ Nothing.total = 0 /\ Nothing.successful = 0
    BY DEF Nothing
<1>9. k \in Counts /\ p \in Counts
  <2>1. DOMAIN k = ObservedHours /\ k = [t \in DOMAIN k |-> k[t]]
      BY <1>3 DEF Merged
  <2>2. DOMAIN p = ObservedHours /\ p = [t \in DOMAIN p |-> p[t]]
      BY <1>4 DEF WithoutDays
  <2>3. \A t \in ObservedHours : m[t] \in [total : Nat, successful : Nat] /\ o[t] \in [total : Nat, successful : Nat]
      BY <1>5 DEF Counts
  <2>4. \A t \in ObservedHours : k[t] \in [total : Nat, successful : Nat] /\ p[t] \in [total : Nat, successful : Nat]
      BY <1>6, <1>7, <1>8, <2>3
  <2> QED BY <2>1, <2>2, <2>4 DEF Counts
<1>10. CountsAreSound(k)
    BY <1>2, <1>6, <1>8, <1>9 DEF CountsAreSound
<1>11. /\ Totals(m) \in [ObservedHours -> Nat] /\ Successes(m) \in [ObservedHours -> Nat]
       /\ Totals(o) \in [ObservedHours -> Nat] /\ Successes(o) \in [ObservedHours -> Nat]
    BY <1>5, CountsAreNumbers
<1>12. \A t \in ObservedHours :
          /\ Totals(k)[t] = k[t].total /\ Successes(k)[t] = k[t].successful
          /\ Totals(m)[t] = m[t].total /\ Successes(m)[t] = m[t].successful
          /\ Totals(p)[t] = p[t].total /\ Successes(p)[t] = p[t].successful
          /\ Totals(o)[t] = o[t].total /\ Successes(o)[t] = o[t].successful
    BY ZenonT(60), <1>5, <1>9, CountsAreNumbers
<1>13. \A t \in ObservedHours :
          /\ Totals(k)[t] = IF t \in F THEN 0 ELSE Totals(m)[t]
          /\ Successes(k)[t] = IF t \in F THEN 0 ELSE Successes(m)[t]
          /\ Totals(p)[t] = IF DayStart(t) \in F THEN 0 ELSE Totals(o)[t]
          /\ Successes(p)[t] = IF DayStart(t) \in F THEN 0 ELSE Successes(o)[t]
  <2> TAKE t \in ObservedHours
  <2>1. k[t] = IF t \in F THEN Nothing ELSE m[t]
      BY <1>6
  <2>2. p[t] = IF DayStart(t) \in F THEN Nothing ELSE o[t]
      BY <1>7
  <2> QED BY <1>8, <1>12, <2>1, <2>2
<1>14. IsMerged(Totals(m), Totals(o), until, l) /\ IsMerged(Successes(m), Successes(o), until, l)
    BY <1>2 DEF AreMerged
<1>15. PICK tk, sk, tm, sm : /\ tk = Totals(k) /\ sk = Successes(k)
                             /\ tm = Totals(m) /\ sm = Successes(m)
    OBVIOUS
<1>16. PICK tp, sp, to, so : /\ tp = Totals(p) /\ sp = Successes(p)
                             /\ to = Totals(o) /\ so = Successes(o)
    OBVIOUS
<1>17. F \in SUBSET Int /\ \A d \in F : d < until
    OBVIOUS
<1>18. IsMerged(tk, tp, until, l)
  <2>1. /\ tm \in [ObservedHours -> Nat] /\ to \in [ObservedHours -> Nat] /\ IsMerged(tm, to, until, l)
        /\ \A t \in ObservedHours : tk[t] = IF t \in F THEN 0 ELSE tm[t]
        /\ \A t \in ObservedHours : tp[t] = IF DayStart(t) \in F THEN 0 ELSE to[t]
      BY <1>11, <1>13, <1>14, <1>15, <1>16
  <2> QED BY ZenonT(60), <1>1, <1>17, <2>1, LostDaysAreMerged
<1>19. IsMerged(sk, sp, until, l)
  <2>1. /\ sm \in [ObservedHours -> Nat] /\ so \in [ObservedHours -> Nat] /\ IsMerged(sm, so, until, l)
        /\ \A t \in ObservedHours : sk[t] = IF t \in F THEN 0 ELSE sm[t]
        /\ \A t \in ObservedHours : sp[t] = IF DayStart(t) \in F THEN 0 ELSE so[t]
      BY <1>11, <1>13, <1>14, <1>15, <1>16
  <2> QED BY ZenonT(60), <1>1, <1>17, <2>1, LostDaysAreMerged
<1> QED BY <1>2, <1>3, <1>4, <1>10, <1>15, <1>16, <1>18, <1>19 DEF AreMerged

LEMMA UptimeTimes ==
    ASSUME hour \in ObservedHours, sharp \in BOOLEAN
    PROVE  /\ hour \in Nat /\ Retention \in Nat /\ HourlyBuffer \in Nat /\ HoursPerDay <= HourlyBuffer
           /\ Since(Retention) \in Int /\ Since(Retention + 1) \in Int
           /\ Since(Retention + 1) <= Since(Retention) /\ Since(Retention + 1) <= hour - Retention
           /\ MergeableBefore \in Int /\ DayStart(MergeableBefore) = MergeableBefore
           /\ MergeableBefore <= hour - HourlyBuffer
<1>1. hour \in Nat /\ Retention \in Nat /\ HourlyBuffer \in Nat /\ HoursPerDay <= HourlyBuffer
    BY HoursAreFinite, UptimeAssumption DEF UptimeAssumption
<1>2. /\ Since(Retention) \in Int /\ Since(Retention + 1) \in Int
      /\ Since(Retention + 1) <= Since(Retention) /\ Since(Retention + 1) <= hour - Retention
    BY <1>1 DEF Since
<1>3. hour - HourlyBuffer \in Int
    BY <1>1
<1> QED BY <1>1, <1>2, <1>3, DaysAreInOrder DEF MergeableBefore

LEMMA UptimeInitially == UptimeInit => UptimeInv
<1> SUFFICES ASSUME UptimeInit PROVE UptimeInv
    OBVIOUS
<1>1. MaxHour \in Nat /\ Nothing \in [total : Nat, successful : Nat] /\ Nothing.successful = 0
    BY UptimeAssumption DEF UptimeAssumption, Nothing
<1>2. hour \in ObservedHours /\ hour = 0 /\ sharp \in BOOLEAN
    BY <1>1 DEF UptimeInit, ObservedHours
<1>3. /\ uptimeEntries = observed /\ hourlyStatistics = observed /\ updated = observed /\ lostDays = {}
      /\ observed = [t \in ObservedHours |-> Nothing]
    BY DEF UptimeInit
<1>9. Known = observed
    BY <1>3 DEF Known, WithoutDays
<1>4. observed \in Counts
    BY <1>1, <1>3 DEF Counts
<1>5. CountsAreSound(uptimeEntries)
    BY <1>1, <1>3, <1>4 DEF CountsAreSound
<1>6. \A t \in ObservedHours : t >= MergeableBefore
    BY <1>2, UptimeTimes DEF ObservedHours
<1>7. AreMerged(uptimeEntries, Known, MergeableBefore, Since(Retention))
    BY <1>3, <1>6, <1>9 DEF AreMerged, IsMerged
<1>8. \E b \in Int : /\ DayStart(b) = b /\ b <= MergeableBefore
                     /\ AreMerged(uptimeEntries, Known, b, Since(Retention))
    BY <1>2, <1>7, UptimeTimes
<1> QED BY <1>2, <1>3, <1>4, <1>5, <1>8 DEF UptimeInv, UptimeTypeOK

\* The hour it is does not belong to a day that is lost.
LEMMA TodayIsNotLost ==
    ASSUME UptimeInv, NEW t \in ObservedHours, MergeableBefore <= t
    PROVE  DayStart(t) \notin lostDays
<1>1. hour \in ObservedHours /\ sharp \in BOOLEAN /\ t \in Int /\ lostDays \subseteq Int
    BY HoursAreFinite DEF UptimeInv, UptimeTypeOK
<1>2. MergeableBefore \in Int /\ DayStart(MergeableBefore) = MergeableBefore
    BY <1>1, UptimeTimes
<1>3. MergeableBefore <= DayStart(t) /\ DayStart(t) \in Int
    BY <1>1, <1>2, DaysAreInOrder
<1> QED BY <1>1, <1>2, <1>3 DEF UptimeInv

LEMMA WithoutDaysIsCounts ==
    ASSUME NEW c \in Counts, NEW days
    PROVE  /\ WithoutDays(c, days) \in Counts
           /\ \A t \in ObservedHours : WithoutDays(c, days)[t] = IF DayStart(t) \in days THEN Nothing ELSE c[t]
<1>1. Nothing \in [total : Nat, successful : Nat]
    BY DEF Nothing
<1> QED BY <1>1 DEF WithoutDays, Counts

\* What remains known after a result and a merge that has lost some days.
LEMMA KnownAfter ==
    ASSUME UptimeInv, NEW success \in BOOLEAN, NEW done, NEW failed,
           updated' = Updated(updated, success, done), lostDays' = lostDays \cup failed
    PROVE  /\ Known \in Counts /\ updated' \in Counts
           /\ Known' = WithoutDays(Updated(Known, success, done), failed)
<1>1. hour \in ObservedHours /\ sharp \in BOOLEAN /\ updated \in Counts
    BY DEF UptimeInv, UptimeTypeOK
<1>2. MergeableBefore <= hour
    BY <1>1, UptimeTimes
<1>3. DayStart(hour) \notin lostDays
    BY <1>1, <1>2, TodayIsNotLost
<1>4. /\ Known \in Counts
      /\ \A t \in ObservedHours : Known[t] = IF DayStart(t) \in lostDays THEN Nothing ELSE updated[t]
    BY <1>1, WithoutDaysIsCounts DEF Known
<1>5. Known[hour] = updated[hour]
    BY <1>1, <1>3, <1>4
<1>6. PICK u, k : u = Updated(updated, success, done) /\ k = Updated(Known, success, done)
    OBVIOUS
<1>7. u \in Counts /\ \A t \in ObservedHours : k[t] = IF DayStart(t) \in lostDays THEN Nothing ELSE u[t]
  <2>1. CASE "update" \in done
    <3>1. u = Incremented(updated, success) /\ k = Incremented(Known, success)
        BY <1>6, <2>1 DEF Updated
    <3>2. /\ u \in Counts
          /\ \A t \in ObservedHours : t # hour => u[t] = updated[t] /\ k[t] = Known[t]
        BY <1>1, <1>4, <3>1, IncrementedCounts
    <3>3. u[hour] = k[hour]
        BY <1>1, <1>4, <1>5, <3>1 DEF Incremented, Counts
    <3> QED BY <1>3, <1>4, <3>2, <3>3
  <2>2. CASE "update" \notin done
      BY <1>1, <1>4, <1>6, <2>2 DEF Updated
  <2> QED BY <2>1, <2>2
<1>8. updated' = u
    BY <1>6
<1>9. Known' = [t \in ObservedHours |-> IF DayStart(t) \in lostDays \cup failed THEN Nothing ELSE u[t]]
    BY <1>8 DEF Known, WithoutDays, DayStart
<1>10. Known' = WithoutDays(k, failed)
    BY <1>7, <1>9 DEF WithoutDays
<1> QED BY <1>4, <1>6, <1>7, <1>8, <1>10

\* Updating keeps what is known and what the table holds together.
LEMMA UpdateIsMerged ==
    ASSUME hour \in ObservedHours, NEW success \in BOOLEAN, NEW done, NEW c, CountsAreSound(c), NEW o \in Counts,
           NEW b \in Int, DayStart(b) = b, b <= hour, NEW l \in Int, AreMerged(c, o, b, l)
    PROVE  /\ CountsAreSound(Updated(c, success, done)) /\ Updated(o, success, done) \in Counts
           /\ AreMerged(Updated(c, success, done), Updated(o, success, done), b, l)
<1>1. c \in Counts
    BY DEF CountsAreSound
<1>2. CASE "update" \notin done
    BY <1>2 DEF Updated
<1>3. CASE "update" \in done
  <2>1. PICK k, p : k = Incremented(c, success) /\ p = Incremented(o, success)
      OBVIOUS
  <2>2. Point(success) \in Nat /\ 1 \in Nat
      BY DEF Point
  <2>3. /\ Totals(k) = Raised(Totals(c), hour, 1) /\ Totals(p) = Raised(Totals(o), hour, 1)
        /\ Successes(k) = Raised(Successes(c), hour, Point(success))
        /\ Successes(p) = Raised(Successes(o), hour, Point(success))
        /\ CountsAreSound(k) /\ p \in Counts
      BY <1>1, <2>1, IncrementedCounts
  <2>4. /\ Totals(c) \in [ObservedHours -> Nat] /\ Successes(c) \in [ObservedHours -> Nat]
        /\ Totals(o) \in [ObservedHours -> Nat] /\ Successes(o) \in [ObservedHours -> Nat]
      BY <1>1, CountsAreNumbers
  <2>5. ASSUME NEW h \in [ObservedHours -> Nat], NEW g \in [ObservedHours -> Nat], NEW n \in Nat, IsMerged(h, g, b, l)
        PROVE  IsMerged(Raised(h, hour, n), Raised(g, hour, n), b, l)
      BY <2>5, IncrementIsMerged
  <2>6. IsMerged(Totals(c), Totals(o), b, l) /\ IsMerged(Successes(c), Successes(o), b, l)
      BY DEF AreMerged
  <2>7. IsMerged(Totals(k), Totals(p), b, l)
      BY <2>2, <2>3, <2>4, <2>5, <2>6
  <2>8. IsMerged(Successes(k), Successes(p), b, l)
      BY <2>2, <2>3, <2>4, <2>5, <2>6
  <2> QED BY <1>3, <2>1, <2>3, <2>7, <2>8 DEF AreMerged, Updated
<1> QED BY <1>2, <1>3

\* The days that a merge may lose are past.
LEMMA MergesOnlyThePast ==
    ASSUME hour \in ObservedHours, sharp \in BOOLEAN, NEW c, NEW done
    PROVE  \A d \in DaysMerged(c, done) : d \in ObservedHours /\ d < MergeableBefore
<1> SUFFICES ASSUME NEW d \in DaysMerged(c, done) PROVE d \in ObservedHours /\ d < MergeableBefore
    OBVIOUS
<1>1. PICK t \in ToMerge(c) : d = DayStart(t)
    BY DEF DaysMerged
<1>2. t \in ObservedHours /\ t < MergeableBefore /\ MergeableBefore \in Int
    BY UptimeTimes DEF ToMerge, Entries
<1>3. DayStart(t) \in ObservedHours /\ DayStart(t) \in Int /\ DayStart(t) <= t /\ t \in Int
    BY <1>2, DaysStartInTime, DaysAreInOrder, HoursAreFinite
<1> QED BY <1>1, <1>2, <1>3

LEMMA ResultsKeepUptime ==
    ASSUME UptimeInv, NEW success \in BOOLEAN, NEW done \in SUBSET UptimeStatements,
           NEW failed \in SUBSET DaysMerged(Updated(uptimeEntries, success, done), done),
           ObserveResult(success, done, failed)
    PROVE  UptimeInv'
<1> DEFINE l == Since(Retention)
           late == Since(Retention + 1)
           results == Incremented(observed, success)
           counted == Updated(uptimeEntries, success, done)
           known == Updated(Known, success, done)
           merged == IF "merge" \in done /\ Cardinality(Entries(counted)) >= MergeThreshold
                     THEN Merged(counted, failed) ELSE counted
           statistics == Incremented(hourlyStatistics, success)
<1>1. /\ hour \in ObservedHours /\ sharp \in BOOLEAN /\ hour' = hour /\ sharp' = sharp
      /\ uptimeEntries \in Counts /\ hourlyStatistics \in Counts /\ observed \in Counts /\ updated \in Counts
      /\ CountsAreSound(uptimeEntries)
    BY DEF UptimeInv, UptimeTypeOK, ObserveResult
<1>2. /\ hour \in Int /\ Retention \in Nat
      /\ l \in Int /\ late \in Int /\ late <= l /\ late <= hour - Retention
      /\ MergeableBefore \in Int /\ DayStart(MergeableBefore) = MergeableBefore /\ MergeableBefore <= hour
    BY <1>1, UptimeTimes
<1>3. Since(Retention)' = l /\ MergeableBefore' = MergeableBefore
    BY <1>1 DEF Since, MergeableBefore, DayStart
<1>4. PICK b \in Int : DayStart(b) = b /\ b <= MergeableBefore /\ AreMerged(uptimeEntries, Known, b, l)
    BY DEF UptimeInv
<1>5. results \in Counts /\ statistics \in Counts
    BY <1>1, IncrementedCounts
<1>6. \A d \in failed : d \in ObservedHours /\ d < MergeableBefore
    BY <1>1, MergesOnlyThePast
<1>7. Known \in Counts /\ updated' \in Counts /\ Known' = WithoutDays(known, failed)
  <2>1. updated' = Updated(updated, success, done) /\ lostDays' = lostDays \cup failed
      BY DEF ObserveResult
  <2> QED BY <2>1, KnownAfter
<1>8. CountsAreSound(counted) /\ known \in Counts /\ AreMerged(counted, known, b, l)
  <2> HIDE DEF l
  <2> QED BY <1>1, <1>2, <1>4, <1>7, UpdateIsMerged
<1>9. CountsAreSound(merged) /\ \E c \in Int : DayStart(c) = c /\ c <= MergeableBefore /\ AreMerged(merged, Known', c, l)
  <2> HIDE DEF counted, known
  <2>1. CASE "merge" \in done /\ Cardinality(Entries(counted)) >= MergeThreshold
    <3>1. failed \in SUBSET Int
      <4>1. \A d \in failed : d \in ObservedHours
          BY <1>6
      <4>2. \A d \in ObservedHours : d \in Int
          BY HoursAreFinite
      <4> QED BY <4>1, <4>2
    <3>2. CountsAreSound(Merged(counted, failed))
          /\ AreMerged(Merged(counted, failed), WithoutDays(known, failed), MergeableBefore, l)
        BY <1>1, <1>4, <1>6, <1>8, <3>1, MergedButLost
    <3> QED BY <1>2, <1>7, <2>1, <3>2
  <2>2. CASE ~("merge" \in done /\ Cardinality(Entries(counted)) >= MergeThreshold)
    <3>1. failed = {}
        BY <2>2 DEF DaysMerged, counted
    <3>2. AreMerged(counted, Known', b, l)
      <4>1. \A t \in ObservedHours : Known'[t] = known[t]
          BY <1>7, <1>8, <3>1, WithoutDaysIsCounts
      <4>2. Totals(known) = [t \in ObservedHours |-> known[t].total]
            /\ Successes(known) = [t \in ObservedHours |-> known[t].successful]
          BY DEF Totals, Successes
      <4>3. PICK w : w = Known'
          OBVIOUS
      <4>4. Totals(w) = Totals(known) /\ Successes(w) = Successes(known)
          BY <4>1, <4>3 DEF Totals, Successes
      <4>5. AreMerged(counted, w, b, l)
          BY <1>8, <4>4 DEF AreMerged
      <4> QED BY <4>3, <4>5
    <3> QED BY <1>4, <1>8, <2>2, <3>2
  <2> QED BY <2>1, <2>2
<1>10. PICK c \in Int : DayStart(c) = c /\ c <= MergeableBefore /\ AreMerged(merged, Known', c, l)
    BY <1>9
<1>11. uptimeEntries' = merged \/ uptimeEntries' = DeletedBefore(merged, late)
    BY DEF ObserveResult, SqlUptimeAfter
<1>12. hourlyStatistics' = statistics \/ hourlyStatistics' = DeletedBefore(statistics, late)
    BY DEF ObserveResult, MemoryUptimeAfter
<1>13. observed' = results /\ lostDays' = lostDays \cup failed
    BY DEF ObserveResult
<1>14. \A t \in ObservedHours : t >= hour - Retention => statistics[t] = results[t]
  <2> TAKE t \in ObservedHours
  <2>1. t >= hour - Retention => hourlyStatistics[t] = observed[t]
      BY DEF UptimeInv
  <2>2. CASE t # hour
      BY <1>1, <2>1, <2>2, IncrementedCounts
  <2>3. CASE t = hour
    <3>1. hourlyStatistics[hour] = observed[hour]
        BY <1>2, <2>1, <2>3
    <3> QED BY <1>1, <2>3, <3>1 DEF Incremented, Counts
  <2> QED BY <2>2, <2>3
<1> HIDE DEF l, late, results, counted, known, merged, statistics
<1>15. PICK w : w = Known'
    OBVIOUS
<1>16. CountsAreSound(uptimeEntries') /\ AreMerged(uptimeEntries', w, c, l)
  <2>1. CASE uptimeEntries' = merged
      BY <1>9, <1>10, <1>15, <2>1
  <2>2. CASE uptimeEntries' = DeletedBefore(merged, late)
    <3>1. PICK k : k = DeletedBefore(merged, late)
        OBVIOUS
    <3>2. /\ merged \in Counts /\ k \in Counts /\ CountsAreSound(k)
          /\ \A t \in ObservedHours : t >= late => k[t] = merged[t]
        BY <1>2, <1>9, <3>1, DeletedCounts DEF CountsAreSound
    <3>3. AreMerged(k, w, c, l)
        BY <1>2, <1>10, <1>15, <3>2, SameIsMerged
    <3> QED BY <2>2, <3>1, <3>2, <3>3
  <2> QED BY <1>11, <2>1, <2>2
<1>17. /\ hourlyStatistics' \in Counts
       /\ \A t \in ObservedHours : t >= hour - Retention => hourlyStatistics'[t] = results[t]
  <2>1. \A t \in ObservedHours : t >= hour - Retention => t >= late
      BY <1>2, HoursAreFinite
  <2> QED BY SMTT(30), <1>2, <1>5, <1>12, <1>14, <2>1, DeletedCounts
<1>18. UptimeTypeOK'
  <2>1. lostDays' \subseteq ObservedHours
      BY <1>6, <1>13 DEF UptimeInv, UptimeTypeOK
  <2> QED BY <1>1, <1>5, <1>7, <1>13, <1>16, <1>17, <2>1 DEF UptimeTypeOK, CountsAreSound
<1>19. CountsAreSound(uptimeEntries)'
    BY <1>16 DEF CountsAreSound
<1>20. AreMerged(uptimeEntries, Known, c, Since(Retention))'
  <2>1. PICK k : k = uptimeEntries'
      OBVIOUS
  <2>2. AreMerged(k, w, c, l)
      BY <1>16, <2>1
  <2> QED BY <1>3, <1>15, <2>1, <2>2 DEF AreMerged, IsMerged, Totals, Successes, DayStart, HoursOfDay
<1>21. (\E d \in Int : DayStart(d) = d /\ d <= MergeableBefore /\ AreMerged(uptimeEntries, Known, d, Since(Retention)))'
    BY <1>3, <1>10, <1>20 DEF DayStart
<1>22. (\A d \in lostDays : d < MergeableBefore)'
    BY <1>3, <1>6, <1>13 DEF UptimeInv
<1> QED BY <1>1, <1>13, <1>17, <1>18, <1>19, <1>21, <1>22 DEF UptimeInv

LEMMA DifferencesAreOrdered ==
    ASSUME NEW a \in Nat, NEW b \in Nat, a <= b, NEW c \in Nat
    PROVE  a - c <= b - c
OBVIOUS

LEMMA TimeKeepsUptime ==
    ASSUME UptimeInv, TimePasses
    PROVE  UptimeInv'
<1>1. /\ hour \in ObservedHours /\ sharp \in BOOLEAN /\ lostDays \subseteq ObservedHours
      /\ UNCHANGED <<uptimeEntries, hourlyStatistics, observed, updated, lostDays>>
    BY DEF UptimeInv, UptimeTypeOK, TimePasses
<1>2. hour \in Nat /\ Retention \in Nat /\ HourlyBuffer \in Nat /\ MaxHour \in Nat
    BY <1>1, HoursAreFinite, UptimeAssumption DEF UptimeAssumption
<1>3. hour' \in ObservedHours /\ hour' \in Nat /\ hour <= hour'
  <2>1. CASE UNCHANGED hour
      BY <1>1, <1>2, <2>1
  <2>2. CASE hour < MaxHour /\ hour' = hour + 1
      BY <1>2, <2>2 DEF ObservedHours
  <2> QED BY <2>1, <2>2 DEF TimePasses
<1>11. sharp' \in BOOLEAN
    BY DEF TimePasses
<1>0. Since(Retention) <= Since(Retention)' /\ Since(Retention) \in Int /\ Since(Retention)' \in Int
  <2>1. CASE sharp /\ sharp' = FALSE /\ UNCHANGED hour
    <3>1. Since(Retention) = hour - Retention + 0 /\ Since(Retention)' = hour - Retention + 1
        BY <2>1 DEF Since
    <3> QED BY <1>2, <3>1
  <2>2. CASE ~sharp /\ hour < MaxHour /\ hour' = hour + 1 /\ sharp' = TRUE
    <3>1. Since(Retention) = hour - Retention + 1 /\ Since(Retention)' = hour' - Retention + 0
        BY <2>2 DEF Since
    <3> QED BY <1>2, <2>2, <3>1
  <2> QED BY <2>1, <2>2 DEF TimePasses
<1>4. MergeableBefore <= MergeableBefore' /\ MergeableBefore \in Int /\ MergeableBefore' \in Int
  <2>1. PICK x, y \in Int : x = hour - HourlyBuffer /\ y = hour' - HourlyBuffer /\ x <= y
    <3>1. hour - HourlyBuffer \in Int
        BY <1>2
    <3>2. hour' - HourlyBuffer \in Int
        BY <1>2, <1>3
    <3>3. hour - HourlyBuffer <= hour' - HourlyBuffer
        BY <1>2, <1>3, DifferencesAreOrdered
    <3> QED BY <3>1, <3>2, <3>3
  <2>2. DayStart(x) <= DayStart(y) /\ DayStart(x) \in Int /\ DayStart(y) \in Int
      BY <2>1, DaysAreInOrder
  <2>3. MergeableBefore = DayStart(x) /\ MergeableBefore' = DayStart(y)
      BY <2>1 DEF MergeableBefore, DayStart
  <2> QED BY <2>2, <2>3
<1>5. PICK b \in Int : DayStart(b) = b /\ b <= MergeableBefore /\ AreMerged(uptimeEntries, Known, b, Since(Retention))
    BY DEF UptimeInv
<1>6. AreMerged(uptimeEntries, Known, b, Since(Retention)')
  <2>1. \A t \in ObservedHours : t >= Since(Retention)' => t >= Since(Retention)
      BY <1>0, HoursAreFinite
  <2> QED BY <1>5, <2>1 DEF AreMerged, IsMerged
<1>7. AreMerged(uptimeEntries, Known, b, Since(Retention))'
  <2>1. Known' = Known
      BY <1>1 DEF Known, WithoutDays, DayStart
  <2> QED BY <1>1, <1>6, <2>1 DEF AreMerged, IsMerged, Totals, Successes
<1>8. b <= MergeableBefore'
    BY <1>4, <1>5
<1>9. (\E d \in Int : DayStart(d) = d /\ d <= MergeableBefore /\ AreMerged(uptimeEntries, Known, d, Since(Retention)))'
    BY <1>5, <1>7, <1>8 DEF DayStart
<1>13. (\A d \in lostDays : d < MergeableBefore)'
  <2>1. \A d \in lostDays : d \in Int /\ d < MergeableBefore
      BY <1>1, HoursAreFinite DEF UptimeInv
  <2> QED BY <1>1, <1>4, <2>1
<1>10. \A t \in ObservedHours : t >= hour' - Retention => t >= hour - Retention
  <2>1. hour - Retention <= hour' - Retention
      BY <1>2, <1>3, DifferencesAreOrdered
  <2>2. hour - Retention \in Int
      BY <1>2
  <2>3. hour' - Retention \in Int
      BY <1>2, <1>3
  <2> QED BY <2>1, <2>2, <2>3, HoursAreFinite
<1>12. UptimeTypeOK' /\ CountsAreSound(uptimeEntries)'
    BY <1>1, <1>3, <1>11 DEF UptimeInv, UptimeTypeOK, CountsAreSound
<1> QED BY <1>1, <1>9, <1>10, <1>12, <1>13 DEF UptimeInv

LEMMA UptimeInvariant == UptimeSpec => []UptimeInv
<1>1. UptimeInv /\ [UptimeNext]_uptimeVars => UptimeInv'
  <2> SUFFICES ASSUME UptimeInv, [UptimeNext]_uptimeVars PROVE UptimeInv'
      OBVIOUS
  <2>1. CASE TimePasses
      BY <2>1, TimeKeepsUptime
  <2>2. ASSUME NEW success \in BOOLEAN, NEW done \in SUBSET UptimeStatements,
               NEW failed \in SUBSET DaysMerged(Updated(uptimeEntries, success, done), done),
               ObserveResult(success, done, failed)
        PROVE  UptimeInv'
      BY <2>2, ResultsKeepUptime
  <2>3. CASE UNCHANGED uptimeVars
    <3>1. UNCHANGED <<hour, sharp, uptimeEntries, hourlyStatistics, observed, updated, lostDays>>
        BY <2>3 DEF uptimeVars
    <3>2. Known' = Known
        BY <3>1 DEF Known, WithoutDays, DayStart
    <3> QED BY <3>1, <3>2 DEF UptimeInv, UptimeTypeOK, CountsAreSound, AreMerged, IsMerged, Totals, Successes,
                              Since, MergeableBefore, DayStart
  <2> QED BY <2>1, <2>2, <2>3 DEF UptimeNext
<1> QED BY <1>1, UptimeInitially, PTL DEF UptimeSpec

LEMMA UptimeIsCounted == UptimeInv => UptimeCountsResults
<1> SUFFICES ASSUME UptimeInv, NEW duration \in 1 .. Retention
             PROVE  LET inRange == {t \in 0 .. hour : t >= Since(duration)}
                        wholeDays == {t \in inRange : DayStart(t) >= Since(duration)}
                        counted == SqlUptime(duration)
                        most == SumOver(updated, inRange)
                        least == SumOver(updated, IF duration <= HoursPerDay THEN inRange
                                                  ELSE {t \in wholeDays : DayStart(t) \notin lostDays})
                    IN  /\ MemoryUptime(duration)
                             = SumOver(observed, {t \in 0 .. hour : t >= hour - duration})
                        /\ counted.total \in least.total .. most.total
                        /\ counted.successful \in least.successful .. most.successful
    BY DEF UptimeCountsResults
<1> DEFINE l == Since(duration)
           inRange == {t \in 0 .. hour : t >= l}
           wholeDays == {t \in inRange : DayStart(t) >= l}
           atLeast == IF duration <= HoursPerDay THEN inRange ELSE {t \in wholeDays : DayStart(t) \notin lostDays}
           range == {t \in ObservedHours : t >= l /\ t <= hour}
           recent == {t \in ObservedHours : t >= hour - duration /\ t <= hour}
<1>1. /\ hour \in ObservedHours /\ sharp \in BOOLEAN
      /\ uptimeEntries \in Counts /\ hourlyStatistics \in Counts /\ observed \in Counts /\ updated \in Counts
    BY DEF UptimeInv, UptimeTypeOK
<1>2. /\ hour \in Nat /\ Retention \in Nat /\ duration \in Nat /\ duration <= Retention
      /\ HoursPerDay \in Nat \ {0} /\ HoursPerDay <= HourlyBuffer /\ HourlyBuffer \in Nat
      /\ ObservedHours = 0 .. MaxHour /\ MaxHour \in Nat /\ hour <= MaxHour
    BY <1>1, UptimeTimes, UptimeAssumption DEF UptimeAssumption, ObservedHours
<1>3. l \in Int /\ Since(Retention) \in Int /\ Since(Retention) <= l /\ l >= hour - duration
    BY <1>1, <1>2 DEF Since
<1>4. PICK b \in Int : DayStart(b) = b /\ b <= MergeableBefore
                       /\ AreMerged(uptimeEntries, Known, b, Since(Retention))
    BY DEF UptimeInv
<1>5. b <= hour - HourlyBuffer /\ b <= hour
    BY <1>1, <1>2, <1>4, UptimeTimes
<1>6. /\ Totals(observed) \in [ObservedHours -> Nat] /\ Successes(observed) \in [ObservedHours -> Nat]
      /\ Totals(updated) \in [ObservedHours -> Nat] /\ Successes(updated) \in [ObservedHours -> Nat]
    BY <1>1, CountsAreNumbers
<1>7. /\ inRange \in SUBSET ObservedHours /\ atLeast \in SUBSET inRange /\ atLeast \in SUBSET ObservedHours
      /\ range \in SUBSET ObservedHours /\ recent \in SUBSET ObservedHours
      /\ recent = {t \in 0 .. hour : t >= hour - duration}
    BY <1>2
<1>8. PICK S : S = {t \in HoursCounted(b, l) : DayStart(t) \notin lostDays} /\ S \in SUBSET inRange
    BY DEF HoursCounted
<1>9. atLeast \in SUBSET S
  <2>1. ASSUME NEW t \in inRange, duration <= HoursPerDay PROVE t >= b /\ DayStart(t) \notin lostDays
    <3>1. t >= b /\ t \in Int /\ t >= hour - HourlyBuffer
        BY <1>2, <1>3, <1>5, <2>1
    <3>2. t \in ObservedHours /\ MergeableBefore <= t
        BY <1>1, <1>2, <1>7, <3>1, UptimeTimes
    <3> QED BY <3>1, <3>2, TodayIsNotLost
  <2> QED BY <1>8, <2>1 DEF HoursCounted
<1>10. MemoryUptime(duration) = SumOver(observed, recent)
  <2>1. MemoryUptime(duration) = SumOver(hourlyStatistics, recent)
      BY DEF MemoryUptime
  <2> HIDE DEF recent
  <2>2. \A t \in recent : /\ Totals(observed)[t] \in Nat /\ Totals(hourlyStatistics)[t] = Totals(observed)[t]
                          /\ Successes(observed)[t] \in Nat
                          /\ Successes(hourlyStatistics)[t] = Successes(observed)[t]
    <3> TAKE t \in recent
    <3>1. t \in ObservedHours /\ t >= hour - Retention
        BY <1>2, <1>7 DEF recent
    <3>2. hourlyStatistics[t] = observed[t]
        BY <3>1 DEF UptimeInv
    <3>3. Totals(observed)[t] \in Nat /\ Successes(observed)[t] \in Nat
        BY <1>6, <3>1
    <3>4. /\ Totals(hourlyStatistics)[t] = Totals(observed)[t]
          /\ Successes(hourlyStatistics)[t] = Successes(observed)[t]
        BY <3>1, <3>2 DEF Totals, Successes
    <3> QED BY <3>3, <3>4
  <2>3. /\ Total(Totals(hourlyStatistics), recent) = Total(Totals(observed), recent)
        /\ Total(Successes(hourlyStatistics), recent) = Total(Successes(observed), recent)
      BY <1>7, <2>2, HoursAreFinite, TotalsAgree
  <2> QED BY <1>1, <1>7, <2>1, <2>3, SumsOfHours
<1>15. /\ Total(Totals(Known), HoursCounted(b, l)) = Total(Totals(updated), S)
       /\ Total(Successes(Known), HoursCounted(b, l)) = Total(Successes(updated), S)
  <2>0. HoursCounted(b, l) \in SUBSET ObservedHours
      BY <1>2 DEF HoursCounted
  <2>1. PICK H \in SUBSET ObservedHours : H = HoursCounted(b, l) /\ IsFiniteSet(H) /\ S \in SUBSET H
      BY <1>8, <2>0, HoursAreFinite
  <2>2. Known \in Counts /\ \A t \in H : Known[t] = IF t \in S THEN updated[t] ELSE Nothing
      BY <1>1, <1>8, <2>1, WithoutDaysIsCounts DEF Known
  <2>3. Nothing.total = 0 /\ Nothing.successful = 0 /\ IsFiniteSet(S)
      BY <2>1, FS_Subset DEF Nothing
  <2>4. PICK h, g : h = Totals(Known) /\ g = Successes(Known)
      OBVIOUS
  <2>5. /\ \A t \in H : h[t] = Known[t].total /\ g[t] = Known[t].successful /\ h[t] \in Nat /\ g[t] \in Nat
        /\ \A t \in H : Totals(updated)[t] = updated[t].total /\ Successes(updated)[t] = updated[t].successful
      BY ZenonT(60), <1>1, <2>1, <2>2, <2>4, CountsAreNumbers
  <2>6. /\ \A t \in H \ S : h[t] = 0 /\ g[t] = 0
        /\ \A t \in S : /\ h[t] \in Nat /\ Totals(updated)[t] = h[t]
                        /\ g[t] \in Nat /\ Successes(updated)[t] = g[t]
      BY <2>1, <2>2, <2>3, <2>5
  <2>7. Total(h, S) = Total(h, H) /\ Total(g, S) = Total(g, H)
      BY <2>1, <2>5, <2>6, TotalOfMore
  <2>8. Total(Totals(updated), S) = Total(h, S) /\ Total(Successes(updated), S) = Total(g, S)
      BY <2>3, <2>6, TotalsAgree
  <2> QED BY <2>1, <2>4, <2>7, <2>8
<1>11. SqlUptime(duration) = [total |-> Total(Totals(updated), S),
                              successful |-> Total(Successes(updated), S)]
  <2>1. SqlUptime(duration) = SumOver(uptimeEntries, range)
      BY DEF SqlUptime
  <2>2. Totals(Known) \in [ObservedHours -> Nat] /\ Successes(Known) \in [ObservedHours -> Nat]
    <3>1. Known \in Counts
        BY <1>1, WithoutDaysIsCounts DEF Known
    <3> QED BY <3>1, CountsAreNumbers
  <2>3. /\ Total(Totals(uptimeEntries), range) = Total(Totals(Known), HoursCounted(b, l))
        /\ Total(Successes(uptimeEntries), range) = Total(Successes(Known), HoursCounted(b, l))
      BY <1>1, <1>3, <1>4, <1>5, <2>2, MergedTotals DEF AreMerged
  <2> HIDE DEF range
  <2> QED BY <1>1, <1>7, <1>15, <2>1, <2>3, SumsOfHours
<1> HIDE DEF inRange, wholeDays, atLeast, range, recent, l
<1>12. /\ SumOver(updated, inRange) = [total |-> Total(Totals(updated), inRange),
                                        successful |-> Total(Successes(updated), inRange)]
       /\ SumOver(updated, atLeast) = [total |-> Total(Totals(updated), atLeast),
                                        successful |-> Total(Successes(updated), atLeast)]
    BY <1>1, <1>7, SumsOfHours
<1>13. ASSUME NEW h \in [ObservedHours -> Nat]
       PROVE  Total(h, S) \in Total(h, atLeast) .. Total(h, inRange)
  <2>1. S \in SUBSET inRange /\ atLeast \in SUBSET S
      BY <1>8, <1>9
  <2>2. IsFiniteSet(S) /\ IsFiniteSet(inRange) /\ \A t \in inRange : h[t] \in Nat
      BY <1>7, <2>1, HoursAreFinite
  <2>3. Total(h, S) \in Nat /\ Total(h, inRange) \in Nat /\ Total(h, S) <= Total(h, inRange)
      BY <2>1, <2>2, TotalOfMore
  <2>4. Total(h, atLeast) \in Nat /\ Total(h, atLeast) <= Total(h, S)
      BY <2>1, <2>2, TotalOfMore
  <2> QED BY <2>1, <2>3, <2>4
<1>14. /\ SqlUptime(duration).total \in SumOver(updated, atLeast).total .. SumOver(updated, inRange).total
       /\ SqlUptime(duration).successful \in SumOver(updated, atLeast).successful .. SumOver(updated, inRange).successful
    BY <1>6, <1>11, <1>12, <1>13
<1> QED BY <1>7, <1>10, <1>14 DEF inRange, wholeDays, atLeast, l

(* The hourly statistics of both kinds of store keep their types, through
   merges, clean-ups and the sums that are taken for them. *)
THEOREM UptimeTypeCorrect == UptimeSpec => []UptimeTypeOK
<1>1. UptimeInv => UptimeTypeOK
    BY DEF UptimeInv
<1> QED BY <1>1, UptimeInvariant, PTL

(* UptimeCountsResults: for any lengths of days, buffers and retention, any number
   of hours and of results in them, however inserting, merging and cleaning up
   alternate and whichever of their statements fail, no result is counted twice or
   in a range it is not in; and of the results the table was updated with, a range
   loses at most the hours of the day it begins in and days that failed to be
   merged, which are never of the last day. *)
THEOREM UptimeAlwaysCountsResults == UptimeSpec => []UptimeCountsResults
BY UptimeInvariant, UptimeIsCounted, PTL

-----------------------------------------------------------------------------
(* The store that was chosen *)

(* Whatever store is chosen, and whatever else is asked of it, the part that is
   followed behaves as its own specification says: what was proved of the memory
   store and of the SQL stores holds of the stores as the program uses them. *)
THEOREM EachStoreKeepsItsPromise == StoresSpec => MemorySpec /\ SqlSpec /\ UptimeSpec
<1>1. Initialize => MemoryInit /\ SqlInit /\ UptimeInit
    BY DEF Initialize
<1>2. [UseStore]_storesVars => [MemoryNext]_memoryVars /\ [SqlNext]_sqlVars /\ [UptimeNext]_uptimeVars
    BY DEF UseStore, storesVars
<1> QED BY <1>1, <1>2, PTL DEF StoresSpec, MemorySpec, SqlSpec, UptimeSpec

\* The choice does not change, and what is not used stays as it was.
ChosenStoreInv ==
    /\ storageType = "memory" => SuitesMemoryInv
    /\ storageType # "memory" => SuitesSqlInv

LEMMA ChosenStoreKept == ChosenStoreInv /\ [UseStore]_storesVars => ChosenStoreInv'
<1> SUFFICES ASSUME ChosenStoreInv, [UseStore]_storesVars PROVE ChosenStoreInv'
    OBVIOUS
<1>1. storageType' = storageType
    BY DEF UseStore, storesVars
<1>2. storageType = "memory" => [SuitesInMemoryNext]_suiteVars
    BY DEF UseStore, storesVars
<1>3. storageType # "memory" => [SuitesInSqlNext]_suiteVars
    BY DEF UseStore, storesVars
<1> QED BY <1>1, <1>2, <1>3, SuitesInMemoryKept, SuitesInSqlKept DEF ChosenStoreInv

LEMMA ChosenStoreInvariant == StoresSpec => []ChosenStoreInv
<1>1. Initialize => ChosenStoreInv
    BY SuitesInMemoryInitially, SuitesInSqlInitially DEF Initialize, ChosenStoreInv
<1> QED BY <1>1, ChosenStoreKept, PTL DEF StoresSpec

(* StoresTypeOK: the state of either store keeps its types, for endpoints, for
   suites and for uptime. *)
THEOREM StoresTypeCorrect == StoresSpec => []StoresTypeOK
<1>1. ChosenStoreInv => SuitesTypeOK
  <2> SUFFICES ASSUME SuiteShapes PROVE SuitesTypeOK
      BY DEF ChosenStoreInv, SuitesMemoryInv, SuitesSqlInv
  <2> QED BY DEF SuiteShapes, SuitesTypeOK, SuiteTransaction, SuiteLink
<1>2. MemoryTypeOK /\ SqlTypeOK /\ SuitesTypeOK /\ UptimeTypeOK => StoresTypeOK
    BY DEF StoresTypeOK
<1> QED BY <1>1, <1>2, ChosenStoreInvariant, EachStoreKeepsItsPromise, MemoryTypeCorrect, SqlTypeCorrect,
           UptimeTypeCorrect, PTL

(* StoresAnswerFromHistory: any page of the results of an endpoint or of a suite
   that a request may ask for is cut out of everything that was inserted, by the
   memory store and by the SQL stores with either driver, for any endpoints,
   suites, goroutines and maxima; a suite's results refer to the endpoints that
   ran and to no others. *)
THEOREM StoresAlwaysAnswerFromHistory == StoresSpec => []StoresAnswerFromHistory
<1>1. StoresSpec => []MemoryAnswersFromHistory /\ []SqlAnswersFromHistory
    BY EachStoreKeepsItsPromise, MemoryPagesAreRight, SqlPagesAreRight
<1>2. ChosenStoreInv =>
        IF storageType = "memory" THEN AnswersFromSuiteHistory(MemorySuiteResults)
                                  ELSE AnswersFromSuiteHistory(SqlSuiteResults)
    BY SuitesInMemoryAnswer, SuitesInSqlAnswer DEF ChosenStoreInv
<1>3. MemoryAnswersFromHistory /\ SqlAnswersFromHistory /\ ChosenStoreInv => StoresAnswerFromHistory
    BY <1>2 DEF StoresAnswerFromHistory
<1> QED BY <1>1, <1>3, ChosenStoreInvariant, PTL

(* The results of the endpoints, whichever store keeps them, are a bounded
   history: StoresSpec implements the abstract one in both of its readings, the
   SQL stores as long as SQLite is the driver and no statement fails. *)
THEOREM ChosenStoreImplementsHistory == StoresSpec => MemoryImplementsHistory /\ SqlImplementsHistory
BY EachStoreKeepsItsPromise, MemoryStoreImplementsHistory, SqlStoreImplementsHistory

(* What SQLite promises of the events, the sizes of the tables and the cache, and
   what either kind of store promises of uptime, holds of the stores as the program
   uses them, too. *)
THEOREM ChosenStoreIsBoundedAndFresh ==
    StoresSpec => [](TablesStayBounded /\ LastEventIsLastResult /\ CacheIsFresh /\ UptimeCountsResults)
BY EachStoreKeepsItsPromise, TablesAlwaysStayBounded, LastEventAlwaysIsLastResult, CacheIsAlwaysFresh,
   UptimeAlwaysCountsResults, PTL
=============================================================================
