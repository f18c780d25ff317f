---------------------------- MODULE SqlStoreProofs ----------------------------
(***************************************************************************)
(* The SQL stores, for any endpoints, maxima, goroutines and requests: the *)
(* order of the rows in a table, what the transactions of an insertion do  *)
(* to it, and what the cache in front of it answers.                       *)
(***************************************************************************)
EXTENDS SqlStore, FiniteSetTheorems, SequenceTheorems, TLAPS

-----------------------------------------------------------------------------
(* Pages: they are cut out of a history in the same way by the slices of   *)
(* the memory store and by the queries of the SQL stores.                  *)

LEMMA PageProducts ==
    ASSUME NEW page \in Nat \ {0}, NEW pageSize \in Nat
    PROVE  /\ page * pageSize \in Nat
           /\ (page - 1) * pageSize \in Nat
           /\ page * pageSize = (page - 1) * pageSize + pageSize
OBVIOUS

(* getStartAndEndIndex returns bounds that a Go slice expression accepts, or
   a negative one, which ShallowCopyEndpointStatus tests for: no page and no
   page size make it panic. *)
THEOREM SliceBoundsAreValid ==
    ASSUME NEW n \in Nat, NEW page \in Int, NEW pageSize \in Int,
           StartIndex(n, page, pageSize) >= 0, EndIndex(n, page, pageSize) >= 0
    PROVE  /\ StartIndex(n, page, pageSize) <= EndIndex(n, page, pageSize)
           /\ EndIndex(n, page, pageSize) <= n
<1>1. page \in Nat \ {0} /\ pageSize \in Nat
  BY DEF StartIndex
<1>. DEFINE k == page * pageSize
            j == (page - 1) * pageSize
<1>2. k \in Nat /\ j \in Nat /\ k = j + pageSize
  BY <1>1, PageProducts
<1>3. /\ StartIndex(n, page, pageSize) = IF n - k < 0 THEN 0 ELSE n - k
      /\ EndIndex(n, page, pageSize) = n - j
  <2>1. ~(n - k > n) /\ ~(n - j > n) /\ ~(page < 1) /\ ~(pageSize < 0)
    BY <1>1, <1>2
  <2>. QED
    BY <2>1 DEF StartIndex, EndIndex
<1>. HIDE DEF k, j
<1>. QED
  BY <1>1, <1>2, <1>3

(* Rows j + 1 to last in descending order, reversed, are a slice. *)
LEMMA ReversedCut ==
    ASSUME NEW S, NEW s \in Seq(S), NEW j \in Nat, NEW last \in Nat,
           j <= last, last <= Len(s)
    PROVE  LET newestFirst == [i \in 1 .. Len(s) |-> s[Len(s) + 1 - i]]
               cut == SubSeq(newestFirst, j + 1, last)
           IN  [i \in 1 .. Len(cut) |-> cut[Len(cut) + 1 - i]]
                 = SubSeq(s, Len(s) - last + 1, Len(s) - j)
<1>. DEFINE newestFirst == [i \in 1 .. Len(s) |-> s[Len(s) + 1 - i]]
            cut == SubSeq(newestFirst, j + 1, last)
            reversed == [i \in 1 .. Len(cut) |-> cut[Len(cut) + 1 - i]]
            slice == SubSeq(s, Len(s) - last + 1, Len(s) - j)
<1>1. /\ newestFirst \in Seq(S)
      /\ Len(newestFirst) = Len(s)
      /\ \A i \in 1 .. Len(s) : newestFirst[i] = s[Len(s) + 1 - i]
  OBVIOUS
<1>. HIDE DEF newestFirst
<1>2. /\ cut \in Seq(S)
      /\ Len(cut) = last - j
      /\ \A i \in 1 .. last - j : cut[i] = newestFirst[j + i]
  BY <1>1, SubSeqProperties
<1>3. \A i \in 1 .. last - j : cut[(last - j) + 1 - i] = s[Len(s) - last + i]
  <2>. TAKE i \in 1 .. last - j
  <2>1. (last - j) + 1 - i \in 1 .. last - j
    OBVIOUS
  <2>2. j + ((last - j) + 1 - i) = last + 1 - i /\ last + 1 - i \in 1 .. Len(s)
    OBVIOUS
  <2>3. Len(s) + 1 - (last + 1 - i) = Len(s) - last + i
    OBVIOUS
  <2>. QED
    BY <1>1, <1>2, <2>1, <2>2, <2>3
<1>4. /\ slice \in Seq(S)
      /\ Len(slice) = last - j
      /\ \A i \in 1 .. last - j : slice[i] = s[Len(s) - last + i]
  BY SubSeqProperties
<1>. HIDE DEF cut, slice
<1>5. /\ reversed \in Seq(S)
      /\ Len(reversed) = last - j
      /\ \A i \in 1 .. last - j : reversed[i] = cut[(last - j) + 1 - i]
  BY <1>2
<1>6. reversed = slice
  <2>. HIDE DEF reversed
  <2>. QED
    BY <1>3, <1>4, <1>5, SeqEqual
<1>. QED
  BY <1>6 DEF newestFirst, cut, slice

(* Of the same history, both kinds of store return the same page, also when
   it is the last one and incomplete, or beyond the end and empty. *)
THEOREM StoresCutTheSamePage ==
    ASSUME NEW S, NEW s \in Seq(S), NEW page \in Nat \ {0}, NEW pageSize \in Nat \ {0}
    PROVE  MemoryPage(s, page, pageSize) = SqlPage(s, page, pageSize)
<1>1. PICK n \in Nat : n = Len(s)
  OBVIOUS
<1>2. PICK j \in Nat : j = (page - 1) * pageSize /\ page * pageSize = j + pageSize
  BY PageProducts
<1>. DEFINE last == IF j + pageSize < n THEN j + pageSize ELSE n
            newestFirst == [i \in 1 .. n |-> s[n + 1 - i]]
            cut == SubSeq(newestFirst, j + 1, last)
<1>3. /\ StartIndex(n, page, pageSize) = n - last
      /\ EndIndex(n, page, pageSize) = n - j
  <2>1. ~(n - (j + pageSize) > n) /\ ~(n - j > n) /\ ~(page < 1) /\ ~(pageSize < 0)
    OBVIOUS
  <2>. QED
    BY <1>2, <2>1 DEF StartIndex, EndIndex
<1>4. SqlPage(s, page, pageSize) = [i \in 1 .. Len(cut) |-> cut[Len(cut) + 1 - i]]
  BY <1>1, <1>2 DEF SqlPage
<1>5. last \in Nat /\ last <= n
  OBVIOUS
<1>. HIDE DEF last
<1>6. CASE n < j
  <2>1. MemoryPage(s, page, pageSize) = <<>>
    BY <1>1, <1>3, <1>6 DEF MemoryPage
  <2>2. /\ newestFirst \in Seq(S)
        /\ Len(newestFirst) = n
    BY <1>1
  <2>. HIDE DEF newestFirst
  <2>3. cut \in Seq(S) /\ Len(cut) = 0
    BY <1>5, <1>6, <2>2, SubSeqProperties
  <2>. HIDE DEF cut
  <2>4. 1 .. Len(cut) = {}
    BY <2>3
  <2>5. [i \in 1 .. Len(cut) |-> cut[Len(cut) + 1 - i]] = <<>>
    BY <2>4
  <2>. QED
    BY <1>4, <2>1, <2>5
<1>7. CASE j <= n
  <2>1. j <= last
    BY <1>7 DEF last
  <2>2. MemoryPage(s, page, pageSize) = SubSeq(s, n - last + 1, n - j)
    BY SMTT(60), <1>1, <1>3, <1>5, <1>7 DEF MemoryPage
  <2>3. j <= last /\ last <= Len(s) /\ last \in Nat
    BY <1>1, <1>5, <2>1
  <2>4. newestFirst = [i \in 1 .. Len(s) |-> s[Len(s) + 1 - i]]
    BY <1>1
  <2>. HIDE DEF newestFirst
  <2>5. [i \in 1 .. Len(cut) |-> cut[Len(cut) + 1 - i]]
          = SubSeq(s, Len(s) - last + 1, Len(s) - j)
    BY <2>3, <2>4, ReversedCut
  <2>. QED
    BY <1>1, <1>4, <2>2, <2>5
<1>. QED
  BY <1>6, <1>7

(* Whatever numbers a request asks with, the page and page size that
   extractPageAndPageSizeFromRequest makes of them mean the same page to
   every store. *)
THEOREM EveryRequestGetsTheSamePage ==
    ASSUME NEW S, NEW s \in Seq(S), NEW page \in Int, NEW pageSize \in Int
    PROVE  LET p == RequestedPage(page)
               size == RequestedPageSize(page, pageSize)
           IN  MemoryPage(s, p, size) = SqlPage(s, p, size)
<1>1. RequestedPage(page) \in Nat \ {0}
  BY DEF RequestedPage
<1>2. RequestedPageSize(page, pageSize) \in Nat \ {0}
  BY MaximaArePositive DEF RequestedPageSize
<1>. QED
  BY <1>1, <1>2, StoresCutTheSamePage

-----------------------------------------------------------------------------
(* Tables in the order of their ids *)

\* Rows of results or of events: the primary key is the id.
IsTable(S) ==
    /\ IsFiniteSet(S)
    /\ \A r \in S : r.id \in Nat
    /\ \A r, s \in S : r.id = s.id => r = s

Older(S, r) == Cardinality({s \in S : s.id < r.id})
Newer(S, r) == Cardinality({s \in S : s.id > r.id})

LEMMA SubsetIsTable ==
    ASSUME NEW S, IsTable(S), NEW T \in SUBSET S
    PROVE  IsTable(T) /\ Cardinality(T) \in Nat /\ Cardinality(T) <= Cardinality(S)
<1> QED BY FS_Subset, FS_CardinalityType DEF IsTable

\* Every other row is older or newer.
LEMMA RanksAddUp ==
    ASSUME NEW S, IsTable(S), NEW r \in S
    PROVE  /\ Older(S, r) \in Nat /\ Newer(S, r) \in Nat /\ Cardinality(S) \in Nat
           /\ Older(S, r) + 1 + Newer(S, r) = Cardinality(S)
<1> DEFINE O == {s \in S : s.id < r.id}
           N == {s \in S : s.id > r.id}
<1>1. IsFiniteSet(S) /\ IsFiniteSet(O) /\ IsFiniteSet(N)
    BY FS_Subset DEF IsTable
<1>2. Cardinality(O) \in Nat /\ Cardinality(N) \in Nat /\ Cardinality(S) \in Nat
    BY <1>1, FS_CardinalityType
<1>3. r \notin O /\ r \notin N /\ O \cap N = {} /\ S = (O \cup {r}) \cup N /\ (O \cup {r}) \cap N = {}
    BY DEF IsTable
<1> HIDE DEF O, N
<1>4. IsFiniteSet(O \cup {r}) /\ Cardinality(O \cup {r}) = Cardinality(O) + 1
    BY <1>1, <1>3, FS_AddElement
<1>5. Cardinality(S) = Cardinality(O \cup {r}) + Cardinality(N) - Cardinality({})
    BY <1>1, <1>3, <1>4, FS_Union
<1>6. Cardinality({}) = 0
    BY FS_EmptySet
<1> QED BY <1>2, <1>4, <1>5, <1>6 DEF Older, Newer, O, N

\* More rows are older than a newer row.
LEMMA RanksFollowIds ==
    ASSUME NEW S, IsTable(S), NEW r \in S, NEW s \in S
    PROVE  (r.id < s.id) <=> (Older(S, r) < Older(S, s))
<1>1. ASSUME NEW a \in S, NEW b \in S, a.id < b.id PROVE Older(S, a) < Older(S, b)
  <2> DEFINE A == {x \in S : x.id < a.id}
             B == {x \in S : x.id < b.id}
  <2>1. A \subseteq B /\ a \in B /\ a \notin A
      BY <1>1 DEF IsTable
  <2>2. IsFiniteSet(B)
      BY FS_Subset DEF IsTable
  <2> HIDE DEF A, B
  <2>3. Cardinality(A) \in Nat /\ Cardinality(B) \in Nat
      BY <2>1, <2>2, FS_Subset, FS_CardinalityType
  <2>4. Cardinality(A) <= Cardinality(B) /\ Cardinality(A) # Cardinality(B)
      BY <2>1, <2>2, FS_Subset
  <2>5. Cardinality(A) < Cardinality(B)
      BY <2>3, <2>4
  <2> QED BY <2>5 DEF Older, A, B
<1>2. Older(S, r) \in Nat /\ Older(S, s) \in Nat
    BY RanksAddUp
<1>3. r.id = s.id => Older(S, r) = Older(S, s)
    BY DEF Older
<1>4. r.id \in Nat /\ s.id \in Nat
    BY DEF IsTable
<1> QED BY <1>1, <1>2, <1>3, <1>4

LEMMA RankIsUnique ==
    ASSUME NEW S, IsTable(S), NEW r \in S, NEW s \in S, Older(S, r) = Older(S, s)
    PROVE  r = s
<1>1. Older(S, r) \in Nat
    BY RanksAddUp
<1>2. ~(r.id < s.id) /\ ~(s.id < r.id)
    BY <1>1, RanksFollowIds
<1> QED BY <1>2 DEF IsTable

\* Ranks are as many as rows, so none is left out.
LEMMA EveryRankIsTaken ==
    ASSUME NEW S, IsTable(S), NEW i \in 1 .. Cardinality(S)
    PROVE  \E r \in S : Older(S, r) = i - 1
<1> DEFINE n == Cardinality(S)
           rank == [r \in S |-> Older(S, r)]
<1>1. n \in Nat /\ IsFiniteSet(S)
    BY FS_CardinalityType DEF IsTable
<1>2. \A r \in S : Older(S, r) \in 0 .. n - 1
    BY <1>1, RanksAddUp
<1>3. rank \in [S -> 0 .. n - 1]
    BY <1>2
<1>4. \A r, s \in S : rank[r] = rank[s] => r = s
    BY RankIsUnique
<1> HIDE DEF n
<1>5. rank \in Injection(S, 0 .. n - 1)
    BY <1>3, <1>4 DEF Injection, IsInjective
<1>6. IsFiniteSet(0 .. n - 1) /\ Cardinality(0 .. n - 1) = n
    BY <1>1, FS_Interval
<1>7. rank \in Surjection(S, 0 .. n - 1)
    BY <1>5, <1>6, FS_Injection DEF n
<1>8. i - 1 \in 0 .. n - 1
    BY <1>1 DEF n
<1> QED BY <1>7, <1>8 DEF Surjection

\* ById lists every row once, the oldest first.
LEMMA ByIdSorts ==
    ASSUME NEW S, IsTable(S)
    PROVE  /\ ById(S) \in Seq(S) /\ Len(ById(S)) = Cardinality(S) /\ Cardinality(S) \in Nat
           /\ \A i \in 1 .. Cardinality(S) : ById(S)[i] \in S /\ Older(S, ById(S)[i]) = i - 1
           /\ \A r \in S : Older(S, r) + 1 \in 1 .. Cardinality(S) /\ ById(S)[Older(S, r) + 1] = r
<1>1. Cardinality(S) \in Nat
    BY FS_CardinalityType DEF IsTable
<1>2. ASSUME NEW i \in 1 .. Cardinality(S)
      PROVE  ById(S)[i] \in S /\ Older(S, ById(S)[i]) = i - 1
  <2>1. ById(S)[i] = CHOOSE r \in S : Older(S, r) = i - 1
      BY DEF ById, Older
  <2> QED BY <2>1, EveryRankIsTaken
<1>3. ById(S) \in [1 .. Cardinality(S) -> S]
  <2> DEFINE row(i) == CHOOSE r \in S : Cardinality({s \in S : s.id < r.id}) = i - 1
  <2>1. ById(S) = [i \in 1 .. Cardinality(S) |-> row(i)]
      BY DEF ById
  <2> HIDE DEF row
  <2>2. \A i \in 1 .. Cardinality(S) : row(i) \in S
      BY <1>2, <2>1
  <2> QED BY <2>1, <2>2
<1>4. ById(S) \in Seq(S) /\ Len(ById(S)) = Cardinality(S)
    BY <1>1, <1>3
<1>5. ASSUME NEW r \in S
      PROVE  Older(S, r) + 1 \in 1 .. Cardinality(S) /\ ById(S)[Older(S, r) + 1] = r
  <2>1. Older(S, r) + 1 \in 1 .. Cardinality(S) /\ Older(S, r) \in Nat
      BY RanksAddUp
  <2>2. ById(S)[Older(S, r) + 1] \in S /\ Older(S, ById(S)[Older(S, r) + 1]) = Older(S, r)
      BY <1>2, <2>1
  <2> QED BY <2>1, <2>2, RankIsUnique
<1> QED BY <1>1, <1>2, <1>4, <1>5

LEMMA NoRows == ById({}) = <<>> /\ IsTable({}) /\ Cardinality({}) = 0
<1>1. Cardinality({}) = 0 /\ IsFiniteSet({})
    BY FS_EmptySet
<1>2. IsTable({})
    BY <1>1 DEF IsTable
<1>3. ById({}) \in Seq({}) /\ Len(ById({})) = 0
    BY <1>1, <1>2, ByIdSorts
<1> QED BY <1>1, <1>2, <1>3

\* A new row gets a higher id than those of the table, and comes last.
LEMMA NewRowComesLast ==
    ASSUME NEW S, IsTable(S), NEW x, x.id \in Nat, \A r \in S : r.id < x.id
    PROVE  /\ IsTable(S \cup {x}) /\ x \notin S /\ Cardinality(S) \in Nat
           /\ Cardinality(S \cup {x}) = Cardinality(S) + 1
           /\ \A r \in S : Older(S \cup {x}, r) = Older(S, r)
           /\ Older(S \cup {x}, x) = Cardinality(S)
           /\ ById(S \cup {x}) = Append(ById(S), x)
<1> DEFINE T == S \cup {x}
           n == Cardinality(S)
<1>1. x \notin S /\ \A r \in S : r.id \in Nat
    BY DEF IsTable
<1>2. IsTable(T)
    BY <1>1, FS_AddElement DEF IsTable
<1>3. Cardinality(T) = n + 1 /\ n \in Nat
    BY <1>1, FS_AddElement, FS_CardinalityType DEF IsTable
<1>4. ASSUME NEW r \in S PROVE Older(T, r) = Older(S, r)
  <2>1. {s \in T : s.id < r.id} = {s \in S : s.id < r.id}
      BY <1>1
  <2> QED BY <2>1 DEF Older
<1>5. Older(T, x) = n
  <2>1. {s \in T : s.id < x.id} = S
      BY <1>1
  <2> QED BY <2>1 DEF Older
<1>6. /\ ById(S) \in Seq(T) /\ Len(ById(S)) = n
      /\ \A i \in 1 .. n : ById(S)[i] \in S /\ Older(S, ById(S)[i]) = i - 1
    BY <1>3, ByIdSorts, SeqMonotonic
<1>7. /\ ById(T) \in Seq(T) /\ Len(ById(T)) = n + 1
      /\ \A r \in T : ById(T)[Older(T, r) + 1] = r
    BY <1>2, <1>3, ByIdSorts
<1> HIDE DEF n, T
<1>8. x \in T /\ S \subseteq T
    BY DEF T
<1>9. /\ Append(ById(S), x) \in Seq(T) /\ Len(Append(ById(S), x)) = n + 1
      /\ \A i \in 1 .. n : Append(ById(S), x)[i] = ById(S)[i]
      /\ Append(ById(S), x)[n + 1] = x
    BY <1>6, <1>8, AppendProperties
<1>10. \A i \in 1 .. n : ById(T)[i] = ById(S)[i]
  <2> TAKE i \in 1 .. n
  <2>1. PICK r \in S : r = ById(S)[i] /\ Older(S, r) = i - 1
      BY <1>6
  <2>2. ById(T)[Older(T, r) + 1] = r /\ Older(T, r) + 1 = i
      BY <1>3, <1>4, <1>7, <1>8, <2>1
  <2> QED BY <2>1, <2>2
<1>11. ById(T)[n + 1] = x
    BY <1>5, <1>7, <1>8
<1>12. \A i \in 1 .. n + 1 : ById(T)[i] = Append(ById(S), x)[i]
    BY <1>3, <1>9, <1>10, <1>11
<1>13. ById(T) = Append(ById(S), x)
    BY <1>7, <1>9, <1>12, SeqEqual
<1> QED BY <1>1, <1>2, <1>3, <1>4, <1>5, <1>13 DEF T, n

\* The last row is the one that nothing is newer than.
LEMMA NewestRowIsLast ==
    ASSUME NEW S, IsTable(S), NEW x \in S, \A r \in S : r.id <= x.id
    PROVE  ById(S)[Len(ById(S))] = x /\ Len(ById(S)) \in Nat \ {0}
<1>1. {s \in S : s.id > x.id} = {}
    BY DEF IsTable
<1>2. Newer(S, x) = 0
    BY <1>1, FS_EmptySet DEF Newer
<1>3. Older(S, x) + 1 = Cardinality(S)
    BY <1>2, RanksAddUp
<1> QED BY <1>3, ByIdSorts

LEMMA SomeRowIsNewest ==
    ASSUME NEW S, IsTable(S), S # {}
    PROVE  \E x \in S : \A r \in S : r.id <= x.id
<1>1. Cardinality(S) \in Nat \ {0}
    BY FS_EmptySet, FS_CardinalityType DEF IsTable
<1>2. PICK x \in S : Older(S, x) = Cardinality(S) - 1
    BY <1>1, EveryRankIsTaken
<1>3. ASSUME NEW r \in S PROVE r.id <= x.id
  <2>1. Older(S, r) + 1 + Newer(S, r) = Cardinality(S) /\ Older(S, r) \in Nat /\ Newer(S, r) \in Nat
      BY RanksAddUp
  <2>2. ~(Older(S, x) < Older(S, r))
      BY <1>1, <1>2, <2>1
  <2>3. ~(x.id < r.id)
      BY <2>2, RanksFollowIds
  <2> QED BY <2>3 DEF IsTable
<1> QED BY <1>3

-----------------------------------------------------------------------------
(* Cleaning up *)

Surplus(S, max) == IF Cardinality(S) > max THEN Cardinality(S) - max ELSE 0

\* The two DELETE statements remove the oldest rows, as many as there are too
\* many, and leave the others in their order.
LEMMA CleaningUpDropsTheOldest ==
    ASSUME NEW S, IsTable(S), NEW max \in Nat \ {0}
    PROVE  LET T == S \ AllButMostRecent(S, max)
               k == Surplus(S, max)
           IN  /\ IsTable(T) /\ Cardinality(S) \in Nat /\ k \in 0 .. Cardinality(S)
               /\ Cardinality(T) = Cardinality(S) - k
               /\ ById(T) = SubSeq(ById(S), k + 1, Len(ById(S)))
               /\ \A x \in S : (\A r \in S : r.id <= x.id) => x \in T
<1> DEFINE T == S \ AllButMostRecent(S, max)
           k == Surplus(S, max)
           n == Cardinality(S)
           R == AllButMostRecent(S, max)
<1>1. /\ n \in Nat /\ IsFiniteSet(S) /\ k \in 0 .. n
      /\ ById(S) \in Seq(S) /\ Len(ById(S)) = n
      /\ \A i \in 1 .. n : ById(S)[i] \in S /\ Older(S, ById(S)[i]) = i - 1
      /\ \A r \in S : ById(S)[Older(S, r) + 1] = r
    BY SMTT(60), ByIdSorts DEF Surplus, IsTable
<1>2. \A r \in S : r \in R <=> Older(S, r) < k
  <2> TAKE r \in S
  <2>1. Older(S, r) + 1 + Newer(S, r) = n /\ Older(S, r) \in Nat /\ Newer(S, r) \in Nat
      BY RanksAddUp
  <2>2. r \in R <=> Newer(S, r) >= max
      BY DEF AllButMostRecent, Newer
  <2> QED BY <1>1, <2>1, <2>2 DEF Surplus
<1>3. R \subseteq S /\ IsFiniteSet(R)
    BY <1>1, FS_Subset DEF AllButMostRecent
<1>4. Cardinality(R) = k
  <2> DEFINE oldest == [i \in 1 .. k |-> ById(S)[i]]
  <2>1. \A i \in 1 .. k : ById(S)[i] \in R /\ Older(S, ById(S)[i]) = i - 1
      BY <1>1, <1>2
  <2>2. oldest \in [1 .. k -> R]
      BY <2>1
  <2>3. \A i, j \in 1 .. k : oldest[i] = oldest[j] => i = j
    <3> TAKE i, j \in 1 .. k
    <3> HAVE oldest[i] = oldest[j]
    <3>1. i - 1 = j - 1
        BY <2>1
    <3> QED BY <3>1, <1>1
  <2>4. \A r \in R : \E i \in 1 .. k : oldest[i] = r
    <3> TAKE r \in R
    <3>1. r \in S /\ Older(S, r) < k /\ Older(S, r) \in Nat
        BY <1>2, <1>3, RanksAddUp
    <3>2. Older(S, r) + 1 \in 1 .. k /\ oldest[Older(S, r) + 1] = r
        BY <1>1, <3>1
    <3> QED BY <3>2
  <2> HIDE DEF oldest
  <2>5. DOMAIN oldest = 1 .. k
      BY <2>2
  <2>6. oldest \in Injection(1 .. k, R)
      BY <2>2, <2>3, <2>5 DEF Injection, IsInjective
  <2>7. oldest \in Surjection(1 .. k, R)
      BY <2>2, <2>4 DEF Surjection
  <2>8. ExistsBijection(1 .. k, R)
      BY <2>6, <2>7 DEF ExistsBijection, Bijection
  <2> QED BY <1>1, <2>8, FS_CountingElements
<1>5. IsTable(T)
    BY SubsetIsTable
<1>6. Cardinality(T) = n - k
  <2>1. S \cap R = R
      BY <1>3
  <2> HIDE DEF n, k, R
  <2>2. Cardinality(S \ R) = Cardinality(S) - Cardinality(S \cap R)
      BY <1>1, FS_Difference
  <2> QED BY <1>4, <2>1, <2>2 DEF R, n
<1> HIDE DEF n, k, R
<1>7. ASSUME NEW r \in T PROVE Older(T, r) = Older(S, r) - k /\ Older(S, r) >= k
  <2>1. r \in S /\ Older(S, r) >= k /\ Older(S, r) \in Nat
      BY <1>1, <1>2, RanksAddUp DEF R
  <2> DEFINE all == {s \in S : s.id < r.id}
  <2>2. R \subseteq all
      BY <1>1, <1>2, <1>3, <2>1, RanksFollowIds, RanksAddUp
  <2>3. {s \in T : s.id < r.id} = all \ R
      BY DEF R
  <2>4. IsFiniteSet(all)
      BY <1>1, FS_Subset
  <2>5. all \cap R = R
      BY <2>2
  <2> HIDE DEF all
  <2>6. Cardinality(all \ R) = Cardinality(all) - k
      BY <1>4, <2>4, <2>5, FS_Difference
  <2> QED BY <2>1, <2>3, <2>6 DEF Older, all
<1>8. /\ ById(T) \in Seq(S) /\ Len(ById(T)) = n - k
      /\ \A i \in 1 .. n - k : ById(T)[i] \in T /\ Older(T, ById(T)[i]) = i - 1
  <2>1. T \subseteq S
      OBVIOUS
  <2>2. /\ ById(T) \in Seq(T) /\ Len(ById(T)) = n - k
        /\ \A i \in 1 .. n - k : ById(T)[i] \in T /\ Older(T, ById(T)[i]) = i - 1
      BY <1>5, <1>6, ByIdSorts
  <2> HIDE DEF T
  <2> QED BY <2>1, <2>2, SeqMonotonic
<1>9. /\ SubSeq(ById(S), k + 1, n) \in Seq(S)
      /\ Len(SubSeq(ById(S), k + 1, n)) = n - k
      /\ \A i \in 1 .. n - k : SubSeq(ById(S), k + 1, n)[i] = ById(S)[i + k]
  <2>1. \A i \in k + 1 .. n : ById(S)[i] \in S
      BY <1>1
  <2>2. k + 1 \in Int /\ n \in Int
      BY <1>1
  <2> QED BY <1>1, <2>1, <2>2, SubSeqProperties
<1>10. \A i \in 1 .. n - k : ById(T)[i] = ById(S)[i + k]
  <2> TAKE i \in 1 .. n - k
  <2>1. PICK r \in T : r = ById(T)[i] /\ Older(T, r) = i - 1
      BY <1>8
  <2>2. r \in S /\ Older(S, r) \in Nat /\ Older(T, r) = Older(S, r) - k
    <3>1. r \in S
        BY <2>1
    <3> HIDE DEF T
    <3> QED BY <1>7, <2>1, <3>1, RanksAddUp
  <2>3. Older(S, r) + 1 = i + k
      BY <1>1, <2>1, <2>2
  <2>4. ById(S)[Older(S, r) + 1] = r
      BY <1>1, <2>2
  <2> QED BY <2>1, <2>3, <2>4
<1>11. ById(T) = SubSeq(ById(S), k + 1, n)
    BY <1>8, <1>9, <1>10, SeqEqual
<1>12. ASSUME NEW x \in S, \A r \in S : r.id <= x.id PROVE x \in T
  <2>1. {s \in S : s.id > x.id} = {}
      BY <1>12 DEF IsTable
  <2>2. Cardinality({s \in S : s.id > x.id}) = 0
      BY <2>1, FS_EmptySet
  <2> QED BY <2>2 DEF AllButMostRecent
<1> QED BY <1>1, <1>5, <1>6, <1>11, <1>12 DEF n, k

-----------------------------------------------------------------------------
(* Pages of a table that lost only rows that are too old to be asked for *)

LEMMA SameNewestRows ==
    ASSUME NEW S, IsTable(S), NEW T \in SUBSET S, NEW max \in Nat \ {0},
           \A r \in S \ T : Newer(S, r) >= max
    PROVE  /\ Len(ById(S)) \in Nat /\ Len(ById(T)) \in Nat
           /\ \A i \in 0 .. max - 1 :
                /\ i < Len(ById(T)) <=> i < Len(ById(S))
                /\ i < Len(ById(S)) => ById(T)[Len(ById(T)) - i] = ById(S)[Len(ById(S)) - i]
<1>1. IsTable(T) /\ Cardinality(T) \in Nat /\ Cardinality(T) <= Cardinality(S)
    BY SubsetIsTable
<1>2. PICK n \in Nat, m \in Nat : n = Cardinality(S) /\ m = Cardinality(T) /\ m <= n
    BY <1>1, FS_CardinalityType DEF IsTable
<1>3. Len(ById(S)) = n /\ Len(ById(T)) = m
    BY <1>1, <1>2, ByIdSorts
<1>4. ASSUME NEW i \in 0 .. max - 1, i < n PROVE i < m /\ ById(T)[m - i] = ById(S)[n - i]
  <2>0. n - i \in 1 .. Cardinality(S)
      BY <1>2, <1>4
  <2>1. PICK r \in S : r = ById(S)[n - i] /\ Older(S, r) = n - i - 1
      BY <2>0, ByIdSorts
  <2>2. Newer(S, r) = i
      BY <1>2, <2>1, RanksAddUp
  <2>3. r \in T
      BY <2>2
  <2>4. ASSUME NEW s \in S, s.id > r.id PROVE s \in T
    <3>1. Older(S, r) < Older(S, s)
        BY <2>4, RanksFollowIds DEF IsTable
    <3>2. Newer(S, s) < i /\ Newer(S, s) \in Nat
        BY <1>2, <2>1, <3>1, RanksAddUp
    <3> QED BY <3>2
  <2>5. {s \in T : s.id > r.id} = {s \in S : s.id > r.id}
      BY <2>4
  <2>6. Newer(T, r) = i
      BY <2>2, <2>5 DEF Newer
  <2>7. Older(T, r) + 1 + i = m /\ Older(T, r) \in Nat
      BY <1>1, <1>2, <2>3, <2>6, RanksAddUp
  <2>8. ById(T)[Older(T, r) + 1] = r
      BY <1>1, <2>3, ByIdSorts
  <2>9. Older(T, r) + 1 = m - i /\ i < m
      BY <2>7
  <2> QED BY <2>1, <2>8, <2>9
<1> QED BY <1>2, <1>3, <1>4

SameNewest(q, s, max) ==
    \A i \in 0 .. max - 1 :
        /\ i < Len(q) <=> i < Len(s)
        /\ i < Len(s) => q[Len(q) - i] = s[Len(s) - i]

LEMMA SamePages ==
    ASSUME NEW A, NEW q \in Seq(A), NEW s \in Seq(A), NEW max \in Nat, SameNewest(q, s, max),
           NEW page \in Nat \ {0}, NEW size \in Nat \ {0}, page * size <= max
    PROVE  SqlPage(q, page, size) = SqlPage(s, page, size)
<1> USE DEF SameNewest
<1>1. PICK j \in Nat : j = (page - 1) * size /\ page * size = j + size
    BY PageProducts
<1>2. PICK n \in Nat, m \in Nat : n = Len(s) /\ m = Len(q)
    OBVIOUS
<1>3. (IF j + size < n THEN j + size ELSE n) = (IF j + size < m THEN j + size ELSE m)
  <2>1. j + size - 1 \in 0 .. max - 1
      BY <1>1
  <2>2. j + size - 1 < n <=> j + size - 1 < m
      BY <1>2, <2>1
  <2>3. CASE j + size - 1 < n
      BY <1>2, <2>2, <2>3
  <2>4. CASE ~(j + size - 1 < n)
    <3>1. n \in 0 .. max - 1 /\ m \in 0 .. max - 1
        BY <1>1, <1>2, <2>2, <2>4
    <3>2. ~(n < m) /\ ~(m < n)
        BY <1>2, <3>1
    <3> QED BY <1>2, <2>2, <2>4, <3>2
  <2> QED BY <2>3, <2>4
<1> DEFINE last == IF j + size < n THEN j + size ELSE n
<1>0. last \in Nat /\ last = IF j + size < m THEN j + size ELSE m
    BY <1>3
<1>4. last <= n /\ last <= m /\ last <= max
    BY <1>0, <1>1
<1> DEFINE sNewest == [i \in 1 .. n |-> s[n + 1 - i]]
           qNewest == [i \in 1 .. m |-> q[m + 1 - i]]
           sRows == SubSeq(sNewest, j + 1, last)
           qRows == SubSeq(qNewest, j + 1, last)
<1>5. /\ SqlPage(s, page, size) = [i \in 1 .. Len(sRows) |-> sRows[Len(sRows) + 1 - i]]
      /\ SqlPage(q, page, size) = [i \in 1 .. Len(qRows) |-> qRows[Len(qRows) + 1 - i]]
    BY <1>0, <1>1, <1>2 DEF SqlPage
<1> HIDE DEF last
<1>6. \A i \in j + 1 .. last : sNewest[i] \in A /\ qNewest[i] \in A /\ sNewest[i] = qNewest[i]
  <2> TAKE i \in j + 1 .. last
  <2>1. i \in 1 .. n /\ i \in 1 .. m /\ i - 1 \in 0 .. max - 1 /\ i - 1 < n
      BY <1>0, <1>4
  <2>2. q[m - (i - 1)] = s[n - (i - 1)] /\ m - (i - 1) = m + 1 - i /\ n - (i - 1) = n + 1 - i
      BY <1>2, <2>1
  <2>3. n + 1 - i \in 1 .. n /\ m + 1 - i \in 1 .. m
      BY <2>1
  <2>4. s[n + 1 - i] \in A /\ q[m + 1 - i] \in A
      BY <1>2, <2>3
  <2> QED BY <2>1, <2>2, <2>4
<1> HIDE DEF sNewest, qNewest
<1>7. /\ sRows \in Seq(A) /\ Len(sRows) = IF j + 1 <= last THEN last - j ELSE 0
      /\ \A i \in 1 .. last - j : sRows[i] = sNewest[j + i]
  <2>1. /\ sRows \in Seq(A) /\ Len(sRows) = IF j + 1 <= last THEN last - (j + 1) + 1 ELSE 0
        /\ \A i \in 1 .. last - (j + 1) + 1 : sRows[i] = sNewest[(j + 1) + i - 1]
    <3>1. \A i \in j + 1 .. last : sNewest[i] \in A
        BY <1>6
    <3>2. j + 1 \in Int /\ last \in Int
        BY <1>0
    <3> HIDE DEF sRows
    <3> QED BY <3>1, <3>2, SubSeqProperties DEF sRows
  <2> HIDE DEF sRows
  <2> QED BY <1>0, <2>1
<1>8. /\ qRows \in Seq(A) /\ Len(qRows) = IF j + 1 <= last THEN last - j ELSE 0
      /\ \A i \in 1 .. last - j : qRows[i] = qNewest[j + i]
  <2>1. /\ qRows \in Seq(A) /\ Len(qRows) = IF j + 1 <= last THEN last - (j + 1) + 1 ELSE 0
        /\ \A i \in 1 .. last - (j + 1) + 1 : qRows[i] = qNewest[(j + 1) + i - 1]
    <3>1. \A i \in j + 1 .. last : qNewest[i] \in A
        BY <1>6
    <3>2. j + 1 \in Int /\ last \in Int
        BY <1>0
    <3> HIDE DEF qRows
    <3> QED BY <3>1, <3>2, SubSeqProperties DEF qRows
  <2> HIDE DEF qRows
  <2> QED BY <1>0, <2>1
<1> HIDE DEF sRows, qRows
<1>9. \A i \in 1 .. Len(sRows) : sRows[i] = qRows[i]
    BY <1>0, <1>6, <1>7, <1>8
<1>10. sRows = qRows
    BY <1>7, <1>8, <1>9, SeqEqual
<1> QED BY <1>5, <1>10

-----------------------------------------------------------------------------
(* The tables and the transactions, with both drivers *)

Transaction ==
    [at : Steps, key : Endpoints, success : BOOLEAN, hour : Hours \cup {0}, id : Nat,
     created : BOOLEAN, newRows : SUBSET Result, newEvents : SUBSET EventRow,
     oldRows : SUBSET Result, oldEvents : SUBSET EventRow,
     todo : SUBSET (Endpoints \X Sizes), now : SUBSET (Endpoints \X Sizes), aborted : BOOLEAN]

Active(w) == tx[w].at # "idle"
Written(w) == tx[w].at \in {"uptime", "refresh", "fill", "commit"}

SqlShapes ==
    /\ driver \in {"sqlite", "postgres"}
    /\ endpoints \in [Endpoints -> Nat]
    /\ rows \in [Endpoints -> SUBSET Result] /\ taken \in [Endpoints -> SUBSET Result]
    /\ eventRows \in [Endpoints -> SUBSET EventRow]
    /\ tx \in [Writers -> Transaction]
    /\ sequence \in Nat
    /\ wiping \in BOOLEAN
    /\ faulty \in SUBSET Endpoints /\ lost \in SUBSET Endpoints

\* Ids are unique, an event has an id of the result it was inserted with, and
\* the results of an endpoint go with its row.
TablesAreSound ==
    \A e \in Endpoints :
        /\ IsTable(taken[e]) /\ rows[e] \subseteq taken[e]
        /\ \A r \in taken[e] : r.id <= sequence
        /\ IsTable(eventRows[e])
        /\ \A v \in eventRows[e] : \E r \in taken[e] : v.id \in {2 * r.id - 1, 2 * r.id}
        /\ endpoints[e] = 0 => taken[e] = {}

\* The only row that a transaction has inserted.
Inserted(w) == CHOOSE x \in tx[w].newRows : TRUE

\* What a transaction has written.
TransactionIsSound(w) ==
    /\ Active(w) /\ ~Written(w) =>
        /\ tx[w].newRows = {} /\ tx[w].newEvents = {}
        /\ tx[w].oldRows = {} /\ tx[w].oldEvents = {}
    /\ tx[w].at = "write" => tx[w].id # 0
    /\ tx[w].at = "create" => ~tx[w].created
    /\ Active(w) /\ tx[w].created => endpoints[tx[w].key] = 0
    /\ Written(w) =>
        /\ tx[w].newRows = {Inserted(w)}
        /\ Inserted(w).success = tx[w].success
        /\ Inserted(w).id <= sequence
        /\ \A r \in taken[tx[w].key] : r.id # Inserted(w).id
        /\ IsFiniteSet(tx[w].newEvents)
        /\ \A v \in tx[w].newEvents : v.id \in {2 * Inserted(w).id - 1, 2 * Inserted(w).id}
        /\ \A u, v \in tx[w].newEvents : u.id = v.id => u = v
        /\ tx[w].id # 0 /\ (~tx[w].created => endpoints[tx[w].key] = tx[w].id)

\* Nobody else creates the row of the same endpoint or writes the same result.
Apart(v, w) ==
    tx[v].key = tx[w].key =>
        /\ Active(v) /\ Active(w) => ~(tx[v].created /\ tx[w].created)
        /\ Written(v) /\ Written(w) => Inserted(v).id # Inserted(w).id

TransactionsAreSound ==
    /\ \A w \in Writers : TransactionIsSound(w)
    /\ \A v, w \in Writers : v # w => Apart(v, w)

\* What was or will be cleaned up has as many newer results as may be asked for.
OnlyOldRowsWent == \A e \in Endpoints : \A r \in taken[e] \ rows[e] : Newer(taken[e], r) >= MaxResults
CleansOnlyOldRows(w) ==
    Written(w) =>
        /\ tx[w].created => tx[w].oldRows = {}
        /\ \A r \in tx[w].oldRows : Newer(taken[tx[w].key] \cup {Inserted(w)}, r) >= MaxResults
OnlyOldRowsGo == OnlyOldRowsWent /\ \A w \in Writers : CleansOnlyOldRows(w)

SqlInv == SqlShapes /\ TablesAreSound /\ TransactionsAreSound /\ OnlyOldRowsGo

LEMMA IdleIsATransaction == Idle \in Transaction /\ Idle.at = "idle"
<1>1. \A e \in {CHOOSE e \in Endpoints : TRUE} : e \in Endpoints
    BY SqlStoreAssumption
<1> QED BY <1>1 DEF Idle, Transaction, Steps

LEMMA SqlInitEstablishes == SqlInit => SqlInv
<1> SUFFICES ASSUME SqlInit PROVE SqlInv
    OBVIOUS
<1>1. \A w \in Writers : tx[w] = Idle /\ tx[w].at = "idle"
    BY IdleIsATransaction DEF SqlInit
<1>2. SqlShapes
    BY IdleIsATransaction DEF SqlInit, SqlShapes
<1>3. TablesAreSound
    BY NoRows DEF SqlInit, TablesAreSound
<1>4. TransactionsAreSound
    BY <1>1 DEF TransactionsAreSound, TransactionIsSound, Apart, Active, Written
<1>5. OnlyOldRowsGo
    BY <1>1 DEF SqlInit, OnlyOldRowsGo, OnlyOldRowsWent, CleansOnlyOldRows, Written
<1> QED BY <1>2, <1>3, <1>4, <1>5 DEF SqlInv

\* A step of one transaction that leaves the tables alone.
LEMMA OneTransactionChanges ==
    ASSUME SqlInv, NEW w \in Writers, NEW t \in Transaction, tx' = [tx EXCEPT ![w] = t],
           UNCHANGED <<driver, endpoints, rows, eventRows, taken, wiping>>,
           sequence' \in Nat, sequence' >= sequence,
           faulty' \in SUBSET Endpoints, lost' \in SUBSET Endpoints,
           TransactionIsSound(w)', CleansOnlyOldRows(w)', \A v \in Writers \ {w} : Apart(v, w)'
    PROVE  SqlInv'
<1>1. SqlShapes'
    BY DEF SqlInv, SqlShapes
<1>2. TablesAreSound'
  <2>1. \A e \in Endpoints : \A r \in taken[e] : r.id \in Nat /\ r.id <= sequence'
      BY DEF SqlInv, SqlShapes, TablesAreSound, IsTable
  <2> QED BY <2>1 DEF SqlInv, TablesAreSound
<1>3. ASSUME NEW v \in Writers, v # w
      PROVE  tx'[v] = tx[v] /\ Inserted(v)' = Inserted(v) /\ (Active(v)' <=> Active(v))
             /\ (Written(v)' <=> Written(v))
    BY <1>3 DEF SqlInv, SqlShapes, Inserted, Active, Written
<1>4. ASSUME NEW v \in Writers, v # w PROVE TransactionIsSound(v)' /\ CleansOnlyOldRows(v)'
  <2>1. TransactionIsSound(v) /\ CleansOnlyOldRows(v)
      BY DEF SqlInv, TransactionsAreSound, OnlyOldRowsGo
  <2>2. Written(v) => Inserted(v) \in Result
      BY <2>1 DEF SqlInv, SqlShapes, Transaction, TransactionIsSound
  <2>3. Written(v) => Inserted(v).id <= sequence'
      BY <2>1, <2>2 DEF TransactionIsSound, Result, SqlInv, SqlShapes
  <2>4. TransactionIsSound(v)'
      BY <1>3, <1>4, <2>1, <2>3 DEF TransactionIsSound
  <2>5. CleansOnlyOldRows(v)'
      BY <1>3, <1>4, <2>1 DEF CleansOnlyOldRows
  <2> QED BY <2>4, <2>5
<1>5. ASSUME NEW u \in Writers, NEW v \in Writers, u # v PROVE Apart(u, v)'
  <2>1. CASE u # w /\ v # w
      BY <1>3, <1>5, <2>1 DEF SqlInv, TransactionsAreSound, Apart
  <2>2. CASE u = w
    <3>1. Apart(v, w)'
        BY <1>5, <2>2
    <3> QED BY <2>2, <3>1 DEF Apart
  <2>3. CASE v = w
      BY <1>5, <2>3
  <2> QED BY <2>1, <2>2, <2>3
<1> QED BY <1>1, <1>2, <1>4, <1>5 DEF SqlInv, TransactionsAreSound, OnlyOldRowsGo, OnlyOldRowsWent

\* A transaction that ends without a commit leaves nothing behind.
LEMMA RollingBackKeeps ==
    ASSUME SqlInv, NEW w \in Writers, tx' = [tx EXCEPT ![w] = Idle],
           UNCHANGED <<driver, endpoints, rows, eventRows, taken, wiping, sequence>>,
           faulty' \in SUBSET Endpoints, lost' \in SUBSET Endpoints
    PROVE  SqlInv'
<1>1. tx'[w].at = "idle"
    BY IdleIsATransaction DEF SqlInv, SqlShapes
<1>2. ~Active(w)' /\ ~Written(w)'
    BY <1>1 DEF Active, Written
<1>3. TransactionIsSound(w)' /\ CleansOnlyOldRows(w)' /\ \A v \in Writers \ {w} : Apart(v, w)'
    BY <1>1, <1>2 DEF TransactionIsSound, CleansOnlyOldRows, Apart
<1>4. sequence' \in Nat /\ sequence' >= sequence
    BY DEF SqlInv, SqlShapes
<1> QED BY <1>3, <1>4, IdleIsATransaction, OneTransactionChanges

\* What a transaction does after its rows are written changes none of them.
LEMMA GoingOnKeeps ==
    ASSUME SqlInv, NEW w \in Writers, NEW t \in Transaction, tx' = [tx EXCEPT ![w] = t],
           Written(w), t.at \in {"uptime", "refresh", "fill", "commit"},
           t.key = tx[w].key, t.success = tx[w].success, t.id = tx[w].id, t.created = tx[w].created,
           t.newRows = tx[w].newRows, t.newEvents = tx[w].newEvents,
           t.oldRows = tx[w].oldRows, t.oldEvents = tx[w].oldEvents,
           UNCHANGED <<driver, endpoints, rows, eventRows, taken, wiping, sequence, faulty, lost>>
    PROVE  SqlInv'
<1>1. tx'[w] = t /\ Inserted(w)' = Inserted(w) /\ Written(w)' /\ Active(w)' /\ Active(w)
    BY DEF SqlInv, SqlShapes, Inserted, Written, Active
<1>2. TransactionIsSound(w)' /\ CleansOnlyOldRows(w)'
  <2>1. TransactionIsSound(w) /\ CleansOnlyOldRows(w)
      BY DEF SqlInv, TransactionsAreSound, OnlyOldRowsGo
  <2> QED BY <1>1, <2>1 DEF TransactionIsSound, CleansOnlyOldRows
<1>3. \A v \in Writers \ {w} : Apart(v, w)'
  <2> TAKE v \in Writers \ {w}
  <2>1. tx'[v] = tx[v] /\ Inserted(v)' = Inserted(v) /\ (Active(v)' <=> Active(v))
        /\ (Written(v)' <=> Written(v))
      BY DEF SqlInv, SqlShapes, Inserted, Active, Written
  <2>2. Apart(v, w)
      BY DEF SqlInv, TransactionsAreSound
  <2> QED BY <1>1, <2>1, <2>2 DEF Apart
<1>4. /\ sequence' \in Nat /\ sequence' >= sequence
      /\ faulty' \in SUBSET Endpoints /\ lost' \in SUBSET Endpoints
    BY DEF SqlInv, SqlShapes
<1> QED BY <1>2, <1>3, <1>4, OneTransactionChanges

LEMMA BeginKeepsSql ==
    ASSUME SqlInv, NEW w \in Writers, NEW e \in Endpoints, NEW success \in BOOLEAN, NEW hour \in Hours,
           BeginTransaction(w, e, success, hour)
    PROVE  SqlInv'
<1> DEFINE t == [Idle EXCEPT !.at = IF endpoints[e] = 0 THEN "create" ELSE "write",
                             !.key = e, !.success = success, !.hour = hour, !.id = endpoints[e]]
<1>1. tx' = [tx EXCEPT ![w] = t]
    BY DEF BeginTransaction
<1>2. /\ t.at = (IF endpoints[e] = 0 THEN "create" ELSE "write") /\ t.key = e /\ t.id = endpoints[e]
      /\ t.created = FALSE /\ t.newRows = {} /\ t.newEvents = {} /\ t.oldRows = {} /\ t.oldEvents = {}
    BY DEF Idle
<1>3. t \in Transaction
    BY ZenonT(60), IdleIsATransaction DEF Transaction, Steps, SqlInv, SqlShapes
<1> HIDE DEF t
<1>4. tx'[w] = t
    BY <1>1 DEF SqlInv, SqlShapes
<1>5. TransactionIsSound(w)' /\ CleansOnlyOldRows(w)' /\ \A v \in Writers \ {w} : Apart(v, w)'
    BY <1>2, <1>4 DEF TransactionIsSound, CleansOnlyOldRows, Apart, Written, Active
<1>6. /\ sequence' \in Nat /\ sequence' >= sequence
      /\ faulty' \in SUBSET Endpoints /\ lost' \in SUBSET Endpoints
      /\ UNCHANGED <<driver, endpoints, rows, eventRows, taken, wiping>>
    BY DEF SqlInv, SqlShapes, BeginTransaction
<1> QED BY <1>1, <1>3, <1>5, <1>6, OneTransactionChanges

\* The key is unique: of the transactions that insert the same row, one goes on.
LEMMA CreateKeepsSql ==
    ASSUME SqlInv, NEW w \in Writers, CreateEndpoint(w)
    PROVE  SqlInv'
<1>1. CASE endpoints[tx[w].key] # 0
    BY <1>1, RollingBackKeeps DEF CreateEndpoint, SqlInv, SqlShapes
<1>2. CASE endpoints[tx[w].key] = 0
  <2> DEFINE t == [tx[w] EXCEPT !.at = "write", !.id = sequence + 1, !.created = TRUE]
  <2>1. /\ tx[w] \in Transaction /\ tx[w].at = "create" /\ sequence \in Nat
        /\ tx' = [tx EXCEPT ![w] = t] /\ sequence' = sequence + 1
      BY <1>2 DEF CreateEndpoint, SqlInv, SqlShapes
  <2>2. /\ t \in Transaction /\ t.at = "write" /\ t.id = sequence + 1 /\ t.key = tx[w].key
        /\ t.newRows = tx[w].newRows /\ t.newEvents = tx[w].newEvents
        /\ t.oldRows = tx[w].oldRows /\ t.oldEvents = tx[w].oldEvents
    <3>1. "write" \in Steps /\ sequence + 1 \in Nat
        BY <2>1 DEF Steps
    <3>2. t \in Transaction
        BY <2>1, <3>1 DEF Transaction
    <3> QED BY <2>1, <3>2 DEF Transaction
  <2> HIDE DEF t
  <2>3. tx'[w] = t /\ Active(w) /\ ~Written(w) /\ ~Written(w)' /\ TransactionIsSound(w)
      BY <2>1, <2>2 DEF SqlInv, SqlShapes, TransactionsAreSound, Active, Written
  <2>4. TransactionIsSound(w)' /\ CleansOnlyOldRows(w)'
      BY <1>2, <2>1, <2>2, <2>3 DEF TransactionIsSound, CleansOnlyOldRows, CreateEndpoint
  <2>5. \A v \in Writers \ {w} : Apart(v, w)'
    <3> TAKE v \in Writers \ {w}
    <3>1. tx'[v] = tx[v] /\ ~(Active(v) /\ tx[v].key = tx[w].key /\ tx[v].created)
        BY <2>1 DEF CreateEndpoint, Uncommitted, Active, SqlInv, SqlShapes
    <3> QED BY <2>2, <2>3, <3>1 DEF Apart, Active
  <2>6. /\ sequence' \in Nat /\ sequence' >= sequence
        /\ faulty' \in SUBSET Endpoints /\ lost' \in SUBSET Endpoints
        /\ UNCHANGED <<driver, endpoints, rows, eventRows, taken, wiping>>
      BY <2>1 DEF SqlInv, SqlShapes, CreateEndpoint
  <2> QED BY <2>1, <2>2, <2>4, <2>5, <2>6, OneTransactionChanges
<1> QED BY <1>1, <1>2

\* A row has no fewer newer rows when the table grows.
LEMMA NewerGrows ==
    ASSUME NEW S, IsFiniteSet(S), NEW T \in SUBSET S, NEW r
    PROVE  Newer(T, r) <= Newer(S, r) /\ Newer(T, r) \in Nat /\ Newer(S, r) \in Nat
<1> DEFINE A == {s \in S : s.id > r.id}
           B == {s \in T : s.id > r.id}
<1>1. IsFiniteSet(A) /\ B \in SUBSET A
    BY FS_Subset
<1> HIDE DEF A, B
<1>2. IsFiniteSet(B) /\ Cardinality(B) <= Cardinality(A) /\ Cardinality(B) \in Nat /\ Cardinality(A) \in Nat
    BY <1>1, FS_Subset, FS_CardinalityType
<1> QED BY <1>2 DEF Newer, A, B

\* The events of an insertion are a start event, its own, both or none.
LEMMA NewEventsAreOfTheResult ==
    ASSUME NEW t, NEW count, NEW failed, sequence \in Nat
    PROVE  LET event == [id |-> 2 * (sequence + 1), type |-> NewEventFromResult(t)]
               start == [id |-> 2 * (sequence + 1) - 1, type |-> START]
           IN  /\ NewEvents(t, count, failed) \subseteq {start, event}
               /\ {start, event} \subseteq EventRow /\ IsFiniteSet(NewEvents(t, count, failed))
<1> DEFINE event == [id |-> 2 * (sequence + 1), type |-> NewEventFromResult(t)]
           start == [id |-> 2 * (sequence + 1) - 1, type |-> START]
<1>1. NewEvents(t, count, failed) \subseteq {start, event}
    BY DEF NewEvents
<1>2. 2 * (sequence + 1) \in Nat /\ 2 * (sequence + 1) - 1 \in Nat
    OBVIOUS
<1>3. {start, event} \subseteq EventRow
    BY <1>2 DEF EventRow, EventType, NewEventFromResult, START, HEALTHY, UNHEALTHY
<1> HIDE DEF start, event
<1>4. IsFiniteSet({start, event})
  <2>1. {start, event} = {start} \cup {event}
      OBVIOUS
  <2>2. IsFiniteSet({start})
      BY FS_Singleton
  <2>3. IsFiniteSet({start} \cup {event})
      BY <2>2, FS_AddElement
  <2> QED BY <2>1, <2>3
<1>5. IsFiniteSet(NewEvents(t, count, failed))
    BY <1>1, <1>4, FS_Subset
<1> QED BY <1>1, <1>3, <1>5 DEF start, event

LEMMA AtWriteNothingIsWritten ==
    ASSUME SqlInv, NEW w \in Writers, tx[w].at = "write"
    PROVE  /\ RowsSeenBy(tx[w], tx[w].key) = rows[tx[w].key]
           /\ EventsSeenBy(tx[w], tx[w].key) = eventRows[tx[w].key]
<1>1. tx[w].newRows = {} /\ tx[w].newEvents = {} /\ tx[w].oldRows = {} /\ tx[w].oldEvents = {}
    BY DEF SqlInv, TransactionsAreSound, TransactionIsSound, Active, Written
<1> QED BY <1>1 DEF RowsSeenBy, EventsSeenBy

\* The rows that the statements of insertEndpointResult make.
RowsToWrite(w, failed, e, x, count, events) ==
    /\ tx[w].created \/ endpoints[tx[w].key] = tx[w].id
    /\ e = tx[w].key /\ x = [id |-> sequence + 1, success |-> tx[w].success]
    /\ count = IF "count" \in failed THEN 0 ELSE Cardinality(eventRows[e])
    /\ events = NewEvents(tx[w], count, failed)

RowsAreWritten(w, failed, e, x, count, events) ==
    /\ tx[w].at = "write" /\ sequence' = sequence + 1 /\ tx[w] \in Transaction /\ x \in Result
    /\ tx'[w] \in Transaction /\ tx' = [tx EXCEPT ![w] = tx'[w]]
    /\ tx'[w].at = "uptime" /\ tx'[w].key = e /\ tx'[w].success = tx[w].success
    /\ tx'[w].id = tx[w].id /\ tx'[w].created = tx[w].created
    /\ tx'[w].now = tx[w].now /\ tx'[w].todo = tx[w].todo
    /\ tx'[w].newRows = {x} /\ Inserted(w)' = x /\ tx'[w].newEvents = events
    /\ tx'[w].oldRows = IF Cardinality(rows[e] \cup {x}) > MaxResults + Slack /\ "clean" \notin failed
                        THEN AllButMostRecent(rows[e] \cup {x}, MaxResults) ELSE {}
    /\ tx'[w].oldEvents = IF count > MaxEvents + Slack /\ "clean" \notin failed
                          THEN AllButMostRecent(eventRows[e] \cup events, MaxEvents) ELSE {}
    /\ faulty' = IF failed = {} THEN faulty ELSE faulty \cup {e}

LEMMA WriteRowsWrites ==
    ASSUME SqlInv, NEW w \in Writers, NEW failed, WriteRows(w, failed),
           NEW e, NEW x, NEW count, NEW events, RowsToWrite(w, failed, e, x, count, events)
    PROVE  RowsAreWritten(w, failed, e, x, count, events)
<1> USE DEF RowsToWrite
<1> DEFINE oldRows == IF Cardinality(rows[e] \cup {x}) > MaxResults + Slack /\ "clean" \notin failed
                  THEN AllButMostRecent(rows[e] \cup {x}, MaxResults) ELSE {}
           oldEvents == IF count > MaxEvents + Slack /\ "clean" \notin failed
                    THEN AllButMostRecent(eventRows[e] \cup events, MaxEvents) ELSE {}
           t == [tx[w] EXCEPT !.at = "uptime", !.newRows = {x}, !.newEvents = events,
                          !.oldEvents = oldEvents, !.oldRows = oldRows]
<1>1. /\ tx[w] \in Transaction /\ sequence \in Nat /\ e \in Endpoints
      /\ rows[e] \subseteq Result /\ eventRows[e] \subseteq EventRow
    BY DEF SqlInv, SqlShapes, Transaction
<1>2. x \in Result
    BY <1>1 DEF Transaction, Result
<1>3. /\ tx[w].at = "write"
      /\ RowsSeenBy(tx[w], e) = rows[e] /\ EventsSeenBy(tx[w], e) = eventRows[e]
    BY AtWriteNothingIsWritten DEF WriteRows
<1>4. events \subseteq EventRow
  <2> QED BY ZenonT(60), <1>1, NewEventsAreOfTheResult
<1>5. oldRows \subseteq rows[e] \cup {x} /\ oldEvents \subseteq eventRows[e] \cup events
    BY DEF AllButMostRecent
<1>6. /\ tx' = [tx EXCEPT ![w] = t] /\ sequence' = sequence + 1
      /\ faulty' = IF failed = {} THEN faulty ELSE faulty \cup {e}
    BY <1>3 DEF WriteRows
<1> HIDE DEF oldRows, oldEvents
<1>7. /\ t.at = "uptime" /\ t.key = e /\ t.success = tx[w].success /\ t.id = tx[w].id
      /\ t.created = tx[w].created /\ t.newRows = {x} /\ t.newEvents = events
      /\ t.oldEvents = oldEvents /\ t.oldRows = oldRows /\ t.now = tx[w].now /\ t.todo = tx[w].todo
    BY <1>1 DEF Transaction
<1>8. t \in Transaction
  <2>1. "uptime" \in Steps /\ {x} \subseteq Result /\ oldRows \subseteq Result /\ oldEvents \subseteq EventRow
      BY <1>1, <1>2, <1>4, <1>5 DEF Steps
  <2> QED BY ZenonT(60), <1>1, <1>4, <2>1 DEF Transaction
<1> HIDE DEF t
<1>9. tx'[w] = t
    BY <1>6 DEF SqlInv, SqlShapes
<1>10. Inserted(w)' = x
  <2>1. \A y \in {x} : y = x
      OBVIOUS
  <2>2. (CHOOSE y \in {x} : TRUE) = x
      BY <2>1
  <2> QED BY <1>7, <1>9, <2>2 DEF Inserted
<1> QED BY <1>1, <1>2, <1>3, <1>6, <1>7, <1>8, <1>9, <1>10 DEF oldRows, oldEvents, RowsAreWritten

LEMMA WriteRowsKeepsSql ==
    ASSUME SqlInv, NEW w \in Writers, NEW failed, WriteRows(w, failed)
    PROVE  SqlInv'
<1> PICK e, x, count, events :
        /\ e = tx[w].key /\ x = [id |-> sequence + 1, success |-> tx[w].success]
        /\ count = IF "count" \in failed THEN 0 ELSE Cardinality(eventRows[e])
        /\ events = NewEvents(tx[w], count, failed)
    OBVIOUS
<1>0. UNCHANGED <<driver, endpoints, rows, eventRows, taken, wiping, lost>>
    BY DEF WriteRows
<1>1. CASE ~tx[w].created /\ endpoints[tx[w].key] # tx[w].id
  <2>1. tx' = [tx EXCEPT ![w] = Idle] /\ UNCHANGED <<sequence, faulty>>
      BY <1>1 DEF WriteRows
  <2>2. faulty' \in SUBSET Endpoints /\ lost' \in SUBSET Endpoints
      BY <1>0, <2>1 DEF SqlInv, SqlShapes
  <2> QED BY <1>0, <2>1, <2>2, RollingBackKeeps
<1>2. CASE tx[w].created \/ endpoints[tx[w].key] = tx[w].id
  <2>0. RowsAreWritten(w, failed, e, x, count, events)
    <3>1. RowsToWrite(w, failed, e, x, count, events)
        BY <1>2 DEF RowsToWrite
    <3> QED BY <3>1, WriteRowsWrites
  <2>1. /\ tx[w].at = "write" /\ sequence' = sequence + 1 /\ tx[w] \in Transaction /\ x \in Result
        /\ tx'[w] \in Transaction /\ tx' = [tx EXCEPT ![w] = tx'[w]]
        /\ tx'[w].at = "uptime" /\ tx'[w].key = e /\ tx'[w].success = tx[w].success
        /\ tx'[w].id = tx[w].id /\ tx'[w].created = tx[w].created
        /\ tx'[w].newRows = {x} /\ Inserted(w)' = x /\ tx'[w].newEvents = events
        /\ tx'[w].oldRows # {} => tx'[w].oldRows = AllButMostRecent(rows[e] \cup {x}, MaxResults)
        /\ faulty' = IF failed = {} THEN faulty ELSE faulty \cup {e}
      BY <2>0 DEF RowsAreWritten
  <2>2. /\ sequence \in Nat /\ e \in Endpoints /\ e = tx[w].key /\ x.id = sequence + 1 /\ x.success = tx[w].success
        /\ TransactionIsSound(w) /\ Active(w)
      BY <2>1 DEF SqlInv, SqlShapes, Transaction, TransactionsAreSound, Active
  <2>3. /\ IsFiniteSet(events)
        /\ \A v \in events : v.id \in {2 * x.id - 1, 2 * x.id}
        /\ \A u, v \in events : u.id = v.id => u = v
    <3> DEFINE event == [id |-> 2 * (sequence + 1), type |-> NewEventFromResult(tx[w])]
               start == [id |-> 2 * (sequence + 1) - 1, type |-> START]
    <3>0. events \subseteq {start, event} /\ IsFiniteSet(events)
        BY <2>2, NewEventsAreOfTheResult
    <3>1. event.id = 2 * (sequence + 1) /\ start.id = 2 * (sequence + 1) - 1
        OBVIOUS
    <3> HIDE DEF event, start
    <3>2. start.id # event.id
        BY <2>2, <3>1
    <3> QED BY <2>2, <3>0, <3>1, <3>2
  <2>4. /\ IsTable(taken[e]) /\ rows[e] \subseteq taken[e] /\ taken[e] \subseteq Result
        /\ \A r \in taken[e] : r.id <= sequence
        /\ endpoints[e] = 0 => taken[e] = {}
      BY <2>2 DEF SqlInv, SqlShapes, TablesAreSound
  <2>5. TransactionIsSound(w)'
    <3>1. \A r \in taken[e] : r.id # x.id
        BY <2>2, <2>4 DEF Result
    <3> QED BY <1>0, <1>2, <2>1, <2>2, <2>3, <3>1 DEF TransactionIsSound, Active, Written
  <2>6. CleansOnlyOldRows(w)'
    <3>1. tx'[w].oldRows # {} => tx'[w].oldRows = AllButMostRecent(rows[e] \cup {x}, MaxResults)
        BY <2>1
    <3>2. \A r \in tx'[w].oldRows : Newer(rows[e] \cup {x}, r) >= MaxResults
        BY <3>1 DEF AllButMostRecent, Newer
    <3>3. \A r \in tx'[w].oldRows : Newer(taken[e] \cup {x}, r) >= MaxResults
      <4> TAKE r \in tx'[w].oldRows
      <4>1. IsFiniteSet(taken[e] \cup {x}) /\ rows[e] \cup {x} \in SUBSET (taken[e] \cup {x})
          BY <2>4, FS_AddElement DEF IsTable
      <4> QED BY <3>2, <4>1, NewerGrows, MaximaArePositive
    <3>4. tx[w].created => tx'[w].oldRows = {}
      <4> HAVE tx[w].created
      <4>1. rows[e] \cup {x} = {x}
          BY <2>2, <2>4 DEF TransactionIsSound
      <4>2. {s \in {x} : s.id > x.id} = {}
          BY <2>2
      <4>3. Newer({x}, x) = 0
          BY <4>2, FS_EmptySet DEF Newer
      <4>4. AllButMostRecent({x}, MaxResults) = {}
          BY <4>3, MaximaArePositive DEF AllButMostRecent, Newer
      <4> QED BY <3>1, <4>1, <4>4
    <3> QED BY <1>0, <2>1, <3>3, <3>4 DEF CleansOnlyOldRows
  <2>7. \A v \in Writers \ {w} : Apart(v, w)'
    <3> TAKE v \in Writers \ {w}
    <3>1. tx'[v] = tx[v] /\ Inserted(v)' = Inserted(v) /\ (Active(v)' <=> Active(v))
          /\ (Written(v)' <=> Written(v))
        BY <2>1 DEF SqlInv, SqlShapes, Inserted, Active, Written
    <3>2. Apart(v, w) /\ TransactionIsSound(v)
        BY DEF SqlInv, TransactionsAreSound
    <3>3. Written(v) => Inserted(v) \in Result /\ Inserted(v).id <= sequence
        BY <3>2 DEF SqlInv, SqlShapes, Transaction, TransactionIsSound
    <3>4. Written(v) => Inserted(v).id # x.id
        BY <2>2, <3>3 DEF Result
    <3> QED BY <2>1, <2>2, <3>1, <3>2, <3>4 DEF Apart
  <2>8. /\ sequence' \in Nat /\ sequence' >= sequence
        /\ faulty' \in SUBSET Endpoints /\ lost' \in SUBSET Endpoints
    <3>1. faulty \in SUBSET Endpoints /\ lost \in SUBSET Endpoints
        BY DEF SqlInv, SqlShapes
    <3> QED BY <1>0, <2>1, <2>2, <3>1
  <2> QED BY <1>0, <2>1, <2>5, <2>6, <2>7, <2>8, OneTransactionChanges
<1> QED BY <1>1, <1>2

\* What reading one status again for the cache does.
LEMMA FillTakes ==
    ASSUME SqlInv, NEW w \in Writers, NEW failed \in QueryFailures, FillCached(w, failed)
    PROVE  \E d \in tx[w].now, aborted \in BOOLEAN :
              /\ tx[w].at = "fill"
              /\ cache' \in {cache, [cache EXCEPT ![d] = StatusRead(tx[w], d[1], d[2], failed)]}
              /\ tx' = [tx EXCEPT ![w] = [tx[w] EXCEPT
                         !.at = IF tx[w].todo = {} THEN "commit" ELSE "refresh",
                         !.now = {}, !.aborted = aborted]]
              /\ UNCHANGED <<driver, endpoints, rows, eventRows, taken, wiping, sequence, faulty, lost, reading>>
<1>1. tx[w] \in Transaction /\ tx \in [Writers -> Transaction]
    BY DEF SqlInv, SqlShapes
<1>2. PICK d \in tx[w].now :
        /\ tx[w].at = "fill"
        /\ cache' \in {cache, [cache EXCEPT ![d] = StatusRead(tx[w], d[1], d[2], failed)]}
        /\ tx' = [tx EXCEPT ![w].at = IF tx[w].todo = {} THEN "commit" ELSE "refresh",
                            ![w].now = {}, ![w].aborted = @ \/ (failed # {} /\ driver = "postgres")]
        /\ UNCHANGED <<driver, endpoints, rows, eventRows, taken, wiping, sequence, faulty, lost, reading>>
    BY DEF FillCached
<1>3. PICK aborted \in BOOLEAN : aborted = (tx[w].aborted \/ (failed # {} /\ driver = "postgres"))
    OBVIOUS
<1>4. tx' = [tx EXCEPT ![w] = [tx[w] EXCEPT
                 !.at = IF tx[w].todo = {} THEN "commit" ELSE "refresh", !.now = {}, !.aborted = aborted]]
    BY <1>1, <1>2, <1>3
<1> QED BY <1>2, <1>4

LEMMA RefreshingKeepsSql ==
    ASSUME SqlInv, NEW w \in Writers,
           UpdateUptime(w) \/ DropCached(w) \/ \E failed \in QueryFailures : FillCached(w, failed)
    PROVE  SqlInv'
<1>0. tx[w] \in Transaction /\ tx \in [Writers -> Transaction]
    BY DEF SqlInv, SqlShapes
<1>1. CASE UpdateUptime(w)
  <2> DEFINE listed == {p \in RefreshedWith[tx[w].key] \X Sizes : cache[p] # None}
             t == [tx[w] EXCEPT !.at = IF listed = {} THEN "commit" ELSE "refresh", !.todo = listed]
  <2>1. tx' = [tx EXCEPT ![w] = t] /\ tx[w].at = "uptime"
      BY <1>0, <1>1 DEF UpdateUptime
  <2>2. listed \subseteq Endpoints \X Sizes
      BY <1>0, SqlStoreAssumption DEF Transaction
  <2> HIDE DEF listed
  <2>3. t \in Transaction /\ t.at \in {"refresh", "commit"}
      BY <1>0, <2>2 DEF Transaction, Steps
  <2> QED BY ZenonT(60), <1>0, <1>1, <2>1, <2>3, GoingOnKeeps DEF UpdateUptime, Written, Transaction
<1>2. CASE DropCached(w)
  <2>1. PICK p \in tx[w].todo :
          /\ tx[w].at = "refresh"
          /\ tx' = [tx EXCEPT ![w].at = "fill", ![w].todo = tx[w].todo \ {p}, ![w].now = {p}]
      BY <1>2 DEF DropCached
  <2> DEFINE t == [tx[w] EXCEPT !.at = "fill", !.todo = tx[w].todo \ {p}, !.now = {p}]
  <2>2. tx' = [tx EXCEPT ![w] = t]
      BY <1>0, <2>1
  <2>3. t \in Transaction /\ t.at = "fill"
      BY ZenonT(60), <1>0 DEF Transaction, Steps
  <2>4. /\ t.key = tx[w].key /\ t.success = tx[w].success /\ t.id = tx[w].id
        /\ t.created = tx[w].created /\ t.newRows = tx[w].newRows /\ t.newEvents = tx[w].newEvents
        /\ t.oldRows = tx[w].oldRows /\ t.oldEvents = tx[w].oldEvents
      BY <1>0 DEF Transaction
  <2> HIDE DEF t
  <2>5. UNCHANGED <<driver, endpoints, rows, eventRows, taken, wiping, sequence, faulty, lost>>
      BY <1>2 DEF DropCached
  <2> QED BY <2>1, <2>2, <2>3, <2>4, <2>5, GoingOnKeeps DEF Written
<1>3. ASSUME NEW failed \in QueryFailures, FillCached(w, failed) PROVE SqlInv'
  <2>1. PICK aborted \in BOOLEAN :
          /\ tx[w].at = "fill"
          /\ tx' = [tx EXCEPT ![w] = [tx[w] EXCEPT
                     !.at = IF tx[w].todo = {} THEN "commit" ELSE "refresh", !.now = {}, !.aborted = aborted]]
          /\ UNCHANGED <<driver, endpoints, rows, eventRows, taken, wiping, sequence, faulty, lost>>
      BY <1>3, FillTakes
  <2> DEFINE t == [tx[w] EXCEPT !.at = IF tx[w].todo = {} THEN "commit" ELSE "refresh",
                                !.now = {}, !.aborted = aborted]
  <2>2. t \in Transaction /\ t.at \in {"refresh", "commit"}
      BY ZenonT(60), <1>0 DEF Transaction, Steps
  <2>3. /\ t.key = tx[w].key /\ t.success = tx[w].success /\ t.id = tx[w].id
        /\ t.created = tx[w].created /\ t.newRows = tx[w].newRows /\ t.newEvents = tx[w].newEvents
        /\ t.oldRows = tx[w].oldRows /\ t.oldEvents = tx[w].oldEvents
      BY <1>0 DEF Transaction
  <2> HIDE DEF t
  <2>4. tx' = [tx EXCEPT ![w] = t]
      BY <2>1 DEF t
  <2> QED BY <2>1, <2>2, <2>3, <2>4, GoingOnKeeps DEF Written
<1> QED BY <1>1, <1>2, <1>3

\* New rows fit into what is left of the tables.
LEMMA NewEventsFit ==
    ASSUME SqlInv, NEW w \in Writers, Written(w), NEW kept \in SUBSET eventRows[tx[w].key]
    PROVE  /\ IsTable(kept \cup tx[w].newEvents)
           /\ \A v \in kept \cup tx[w].newEvents :
                \E r \in taken[tx[w].key] \cup {Inserted(w)} : v.id \in {2 * r.id - 1, 2 * r.id}
<1> DEFINE new == tx[w].newEvents
           e == tx[w].key
           x == Inserted(w)
<1>1. /\ TransactionIsSound(w) /\ tx[w] \in Transaction
      /\ taken \in [Endpoints -> SUBSET Result] /\ eventRows \in [Endpoints -> SUBSET EventRow] /\ TablesAreSound
    BY DEF SqlInv, SqlShapes, TransactionsAreSound
<1>2. /\ IsFiniteSet(new) /\ \A v \in new : v.id \in {2 * x.id - 1, 2 * x.id}
      /\ \A u, v \in new : u.id = v.id => u = v
      /\ \A r \in taken[e] : r.id # x.id
    BY <1>1 DEF TransactionIsSound
<1>3. new \subseteq EventRow /\ e \in Endpoints /\ x \in Result
    BY <1>1 DEF Transaction, TransactionIsSound
<1>4. IsTable(eventRows[e]) /\ \A v \in eventRows[e] : \E r \in taken[e] : v.id \in {2 * r.id - 1, 2 * r.id}
    BY <1>1, <1>3 DEF TablesAreSound
<1>5. IsTable(kept)
    BY <1>4, SubsetIsTable
<1> HIDE DEF new
<1>6. \A u \in kept, v \in new : u.id # v.id
  <2> TAKE u \in kept, v \in new
  <2>1. PICK r \in taken[e] : u.id \in {2 * r.id - 1, 2 * r.id}
      BY <1>4
  <2>2. r.id \in Nat /\ x.id \in Nat /\ r.id # x.id
      BY <1>1, <1>2, <1>3, <2>1 DEF Result
  <2> QED BY <1>2, <2>1, <2>2
<1>7. IsFiniteSet(kept \cup new)
    BY <1>2, <1>5, FS_Union DEF IsTable
<1>8. IsTable(kept \cup new)
    BY <1>2, <1>3, <1>5, <1>6, <1>7 DEF IsTable, EventRow
<1>9. \A v \in kept \cup new : \E r \in taken[e] \cup {x} : v.id \in {2 * r.id - 1, 2 * r.id}
    BY <1>2, <1>4
<1> QED BY <1>8, <1>9 DEF new

LEMMA NewRowFits ==
    ASSUME SqlInv, NEW w \in Writers, Written(w), NEW e, e = tx[w].key, NEW x, x = Inserted(w)
    PROVE  e \in Endpoints /\ x \in Result /\ IsTable(taken[e] \cup {x})
<1>1. /\ TransactionIsSound(w) /\ tx[w] \in Transaction
      /\ taken \in [Endpoints -> SUBSET Result] /\ TablesAreSound
    BY DEF SqlInv, SqlShapes, TransactionsAreSound
<1>2. e \in Endpoints /\ x \in Result /\ \A r \in taken[e] : r.id # x.id
    BY <1>1 DEF Transaction, TransactionIsSound
<1>3. IsTable(taken[e])
    BY <1>1, <1>2 DEF TablesAreSound
<1>4. IsFiniteSet(taken[e] \cup {x}) /\ x.id \in Nat
    BY <1>2, <1>3, FS_AddElement DEF IsTable, Result
<1> QED BY <1>2, <1>3, <1>4 DEF IsTable

\* What a commit adds to the tables.
LEMMA CommitWrites ==
    ASSUME SqlInv, NEW w \in Writers, Commit(w), NEW e, e = tx[w].key, NEW x, x = Inserted(w)
    PROVE  /\ e \in Endpoints /\ x \in Result /\ Written(w) /\ tx' = [tx EXCEPT ![w] = Idle]
           /\ tx[w].newRows = {x} /\ tx[w].id \in Nat \ {0} /\ x.id <= sequence
           /\ \A r \in taken[e] : r.id # x.id
           /\ endpoints' = [endpoints EXCEPT ![e] = tx[w].id]
           /\ rows' = [rows EXCEPT ![e] = (rows[e] \ tx[w].oldRows) \cup {x}]
           /\ eventRows' = [eventRows EXCEPT ![e] = (eventRows[e] \ tx[w].oldEvents) \cup tx[w].newEvents]
           /\ taken' = [taken EXCEPT ![e] = taken[e] \cup {x}]
<1>1. tx[w] \in Transaction /\ Written(w) /\ TransactionIsSound(w) /\ tx[w].at = "commit"
    BY DEF SqlInv, SqlShapes, TransactionsAreSound, Commit, Written
<1>2. tx[w].newRows = {x} /\ tx[w].newRows \subseteq Result /\ e \in Endpoints /\ tx[w].id \in Nat
    BY <1>1 DEF TransactionIsSound, Transaction
<1>3. /\ RowsSeenBy(tx[w], e) = (rows[e] \ tx[w].oldRows) \cup {x}
      /\ EventsSeenBy(tx[w], e) = (eventRows[e] \ tx[w].oldEvents) \cup tx[w].newEvents
    BY <1>1, <1>2 DEF RowsSeenBy, EventsSeenBy, Uncommitted
<1> QED BY <1>1, <1>2, <1>3 DEF Commit, TransactionIsSound

LEMMA CommitKeepsTables ==
    ASSUME SqlInv, NEW w \in Writers, Commit(w)
    PROVE  SqlShapes' /\ TablesAreSound' /\ OnlyOldRowsWent'
<1> PICK e, x : e = tx[w].key /\ x = Inserted(w)
    OBVIOUS
<1>1. /\ e \in Endpoints /\ x \in Result /\ Written(w) /\ tx' = [tx EXCEPT ![w] = Idle]
      /\ tx[w].newRows = {x} /\ tx[w].id \in Nat \ {0} /\ x.id <= sequence
      /\ \A r \in taken[e] : r.id # x.id
      /\ endpoints' = [endpoints EXCEPT ![e] = tx[w].id]
      /\ rows' = [rows EXCEPT ![e] = (rows[e] \ tx[w].oldRows) \cup {x}]
      /\ eventRows' = [eventRows EXCEPT ![e] = (eventRows[e] \ tx[w].oldEvents) \cup tx[w].newEvents]
      /\ taken' = [taken EXCEPT ![e] = taken[e] \cup {x}]
    BY CommitWrites
<1>2. /\ tx[w] \in Transaction /\ TransactionIsSound(w) /\ CleansOnlyOldRows(w)
      /\ UNCHANGED <<driver, wiping, sequence, faulty>> /\ lost' = lost \ {tx[w].key}
    BY DEF SqlInv, SqlShapes, TransactionsAreSound, OnlyOldRowsGo, Commit
<1>3. SqlShapes'
  <2>1. tx[w].oldRows \subseteq Result /\ tx[w].newEvents \subseteq EventRow
      BY <1>2 DEF Transaction
  <2> QED BY <1>1, <1>2, <2>1, IdleIsATransaction DEF SqlInv, SqlShapes
<1>4. /\ taken \in [Endpoints -> SUBSET Result] /\ rows \in [Endpoints -> SUBSET Result]
      /\ eventRows \in [Endpoints -> SUBSET EventRow] /\ endpoints \in [Endpoints -> Nat] /\ TablesAreSound
    BY DEF SqlInv, SqlShapes
<1>5. IsTable(taken'[e])
  <2>1. taken'[e] = taken[e] \cup {x}
      BY <1>1, <1>4
  <2> QED BY <1>1, <2>1, NewRowFits
<1>6. IsTable(eventRows'[e]) /\ \A v \in eventRows'[e] : \E r \in taken'[e] : v.id \in {2 * r.id - 1, 2 * r.id}
  <2>1. eventRows'[e] = (eventRows[e] \ tx[w].oldEvents) \cup tx[w].newEvents /\ taken'[e] = taken[e] \cup {x}
      BY <1>1, <1>4
  <2>2. PICK kept \in SUBSET eventRows[e] : kept = eventRows[e] \ tx[w].oldEvents
      OBVIOUS
  <2>3. /\ IsTable(kept \cup tx[w].newEvents)
        /\ \A v \in kept \cup tx[w].newEvents : \E r \in taken[e] \cup {x} : v.id \in {2 * r.id - 1, 2 * r.id}
    <3>1. Written(w) /\ kept \in SUBSET eventRows[tx[w].key]
        BY <1>1
    <3>2. /\ IsTable(kept \cup tx[w].newEvents)
          /\ \A v \in kept \cup tx[w].newEvents :
                \E r \in taken[tx[w].key] \cup {Inserted(w)} : v.id \in {2 * r.id - 1, 2 * r.id}
        BY <3>1, NewEventsFit, Zenon
    <3> QED BY <3>2
  <2> QED BY <2>1, <2>2, <2>3
<1>7. TablesAreSound'
  <2> SUFFICES ASSUME NEW d \in Endpoints
               PROVE  /\ IsTable(taken'[d]) /\ rows'[d] \subseteq taken'[d]
                      /\ \A r \in taken'[d] : r.id <= sequence'
                      /\ IsTable(eventRows'[d])
                      /\ \A v \in eventRows'[d] : \E r \in taken'[d] : v.id \in {2 * r.id - 1, 2 * r.id}
                      /\ endpoints'[d] = 0 => taken'[d] = {}
      BY DEF TablesAreSound
  <2>1. CASE d = e
      BY <1>1, <1>2, <1>4, <1>5, <1>6, <2>1 DEF TablesAreSound
  <2>2. CASE d # e
      BY <1>1, <1>2, <1>4, <2>2 DEF TablesAreSound
  <2> QED BY <2>1, <2>2
<1>8. OnlyOldRowsWent'
  <2> SUFFICES ASSUME NEW d \in Endpoints, NEW r \in taken'[d] \ rows'[d]
               PROVE  Newer(taken'[d], r) >= MaxResults
      BY DEF OnlyOldRowsWent
  <2>1. CASE d # e
      BY <1>1, <1>4, <2>1 DEF SqlInv, OnlyOldRowsGo, OnlyOldRowsWent
  <2>2. CASE d = e /\ r \in tx[w].oldRows
      BY <1>1, <1>2, <1>4, <2>2 DEF CleansOnlyOldRows
  <2>3. CASE d = e /\ r \notin tx[w].oldRows
    <3>1. r \in taken[e] \ rows[e] /\ taken'[e] = taken[e] \cup {x}
        BY <1>1, <1>4, <2>3
    <3>2. Newer(taken[e], r) >= MaxResults
        BY <1>1, <3>1 DEF SqlInv, OnlyOldRowsGo, OnlyOldRowsWent
    <3>3. IsFiniteSet(taken'[e]) /\ taken[e] \in SUBSET taken'[e]
        BY <1>5, <3>1 DEF IsTable
    <3> QED BY <2>3, <3>2, <3>3, NewerGrows, MaximaArePositive
  <2> QED BY <2>1, <2>2, <2>3
<1> QED BY <1>3, <1>7, <1>8

LEMMA CommitKeepsSql ==
    ASSUME SqlInv, NEW w \in Writers, Commit(w)
    PROVE  SqlInv'
<1> PICK e, x : e = tx[w].key /\ x = Inserted(w)
    OBVIOUS
<1>1. /\ e \in Endpoints /\ x \in Result /\ Written(w) /\ tx' = [tx EXCEPT ![w] = Idle]
      /\ endpoints' = [endpoints EXCEPT ![e] = tx[w].id]
      /\ taken' = [taken EXCEPT ![e] = taken[e] \cup {x}]
      /\ UNCHANGED sequence
    BY CommitWrites DEF Commit
<1>2. /\ SqlShapes' /\ TablesAreSound' /\ OnlyOldRowsWent' /\ TransactionIsSound(w)
      /\ taken \in [Endpoints -> SUBSET Result] /\ endpoints \in [Endpoints -> Nat]
    BY CommitKeepsTables DEF SqlInv, TransactionsAreSound, SqlShapes
<1>3. TransactionIsSound(w)' /\ CleansOnlyOldRows(w)' /\ ~Active(w)' /\ ~Written(w)'
  <2>1. tx'[w].at = "idle"
      BY <1>1, IdleIsATransaction DEF SqlInv, SqlShapes
  <2> QED BY <2>1 DEF TransactionIsSound, CleansOnlyOldRows, Active, Written
<1>4. ASSUME NEW v \in Writers, v # w
      PROVE  /\ tx'[v] = tx[v] /\ Inserted(v)' = Inserted(v) /\ (Active(v)' <=> Active(v))
             /\ (Written(v)' <=> Written(v))
             /\ TransactionIsSound(v) /\ CleansOnlyOldRows(v) /\ Apart(v, w) /\ tx[v].key \in Endpoints
    BY <1>1, <1>4 DEF SqlInv, SqlShapes, Inserted, Active, Written, TransactionsAreSound, OnlyOldRowsGo,
       Transaction
\* Another insertion for the same endpoint found its row there, as this one did.
<1>5. ASSUME NEW v \in Writers, v # w, Active(v), tx[v].key = e
      PROVE  ~tx[v].created /\ (Written(v) => tx[v].id = endpoints'[e])
    BY <1>1, <1>2, <1>4, <1>5 DEF TransactionIsSound, Apart, Active, Written
<1>6. ASSUME NEW v \in Writers, v # w PROVE TransactionIsSound(v)' /\ CleansOnlyOldRows(v)'
  <2>1. CASE tx[v].key # e
    <3>1. taken'[tx[v].key] = taken[tx[v].key] /\ endpoints'[tx[v].key] = endpoints[tx[v].key]
        BY <1>1, <1>2, <1>4, <1>6, <2>1
    <3>2. TransactionIsSound(v)'
        BY <1>1, <1>4, <1>6, <3>1 DEF TransactionIsSound
    <3>3. CleansOnlyOldRows(v)'
        BY <1>1, <1>4, <1>6, <3>1 DEF CleansOnlyOldRows
    <3> QED BY <3>2, <3>3
  <2>2. CASE tx[v].key = e
    <3>1. taken'[e] = taken[e] \cup {x}
        BY <1>1, <1>2
    <3>2. Written(v) => \A r \in taken'[e] : r.id # Inserted(v).id
        BY <1>1, <1>4, <1>6, <2>2, <3>1 DEF TransactionIsSound, Apart
    <3>3. TransactionIsSound(v)'
      <4>1. TransactionIsSound(v) /\ tx'[v] = tx[v] /\ Inserted(v)' = Inserted(v)
          BY <1>4, <1>6
      <4>2. (Active(v)' <=> Active(v)) /\ (Written(v)' <=> Written(v)) /\ (Written(v) => Active(v))
          BY <1>4, <1>6 DEF Written, Active
      <4>3. Active(v) => ~tx[v].created /\ (Written(v) => tx[v].id = endpoints'[e])
          BY <1>5, <1>6, <2>2
      <4> QED BY <1>1, <2>2, <3>2, <4>1, <4>2, <4>3 DEF TransactionIsSound
    <3>4. ASSUME Written(v), NEW r \in tx[v].oldRows
          PROVE  Newer(taken'[e] \cup {Inserted(v)}, r) >= MaxResults
      <4>1. Newer(taken[e] \cup {Inserted(v)}, r) >= MaxResults
          BY <1>4, <1>6, <2>2, <3>4 DEF CleansOnlyOldRows
      <4>2. IsFiniteSet(taken'[e])
          BY <1>1, <1>2 DEF TablesAreSound, IsTable
      <4>3. IsFiniteSet(taken'[e] \cup {Inserted(v)})
          BY <4>2, FS_AddElement
      <4>4. taken[e] \cup {Inserted(v)} \in SUBSET (taken'[e] \cup {Inserted(v)})
          BY <3>1
      <4> QED BY <4>1, <4>3, <4>4, NewerGrows, MaximaArePositive
    <3>5. CleansOnlyOldRows(v)'
        BY <1>4, <1>6, <2>2, <3>4 DEF CleansOnlyOldRows
    <3> QED BY <3>3, <3>5
  <2> QED BY <2>1, <2>2
<1>7. ASSUME NEW u \in Writers, NEW v \in Writers, u # v PROVE Apart(u, v)'
  <2>1. CASE u # w /\ v # w
      BY <1>4, <1>7, <2>1 DEF SqlInv, TransactionsAreSound, Apart
  <2>2. CASE u = w \/ v = w
      BY <1>3, <2>2 DEF Apart
  <2> QED BY <2>1, <2>2
<1> QED BY <1>2, <1>3, <1>6, <1>7 DEF SqlInv, TransactionsAreSound, OnlyOldRowsGo

\* What readers and the cache do concerns no table.
LEMMA LeavingTheTablesKeepsSql ==
    ASSUME SqlInv, UNCHANGED <<driver, endpoints, rows, eventRows, tx, sequence, taken, faulty>>,
           wiping' \in BOOLEAN, lost' \in SUBSET Endpoints
    PROVE  SqlInv'
<1>1. SqlShapes'
    BY DEF SqlInv, SqlShapes
<1>2. TablesAreSound'
    BY DEF SqlInv, TablesAreSound
<1>3. ASSUME NEW w \in Writers
      PROVE  /\ Inserted(w)' = Inserted(w) /\ (Active(w)' <=> Active(w)) /\ (Written(w)' <=> Written(w))
             /\ TransactionIsSound(w)' /\ CleansOnlyOldRows(w)'
  <2>1. Inserted(w)' = Inserted(w) /\ (Active(w)' <=> Active(w)) /\ (Written(w)' <=> Written(w))
      BY DEF Inserted, Active, Written
  <2>2. TransactionIsSound(w)'
      BY <2>1 DEF SqlInv, TransactionsAreSound, TransactionIsSound
  <2>3. CleansOnlyOldRows(w)'
      BY <2>1 DEF SqlInv, OnlyOldRowsGo, CleansOnlyOldRows
  <2> QED BY <2>1, <2>2, <2>3
<1>4. ASSUME NEW v \in Writers, NEW w \in Writers, v # w PROVE Apart(v, w)'
    BY <1>3, <1>4 DEF SqlInv, TransactionsAreSound, Apart
<1>5. OnlyOldRowsWent'
    BY DEF SqlInv, OnlyOldRowsGo, OnlyOldRowsWent
<1> QED BY <1>1, <1>2, <1>3, <1>4, <1>5 DEF SqlInv, TransactionsAreSound, OnlyOldRowsGo

\* A deletion waits for the insertions that have written to the row it deletes,
\* unless they are to create it.
LEMMA DeleteRowsKeepsSql ==
    ASSUME SqlInv, NEW keys \in SUBSET Endpoints, DeleteRows(keys)
    PROVE  SqlInv'
<1> DEFINE gone == Endpoints \ keys
<1>1. /\ \A e \in Endpoints : e \in gone =>
            endpoints'[e] = 0 /\ rows'[e] = {} /\ eventRows'[e] = {} /\ taken'[e] = {}
      /\ \A e \in Endpoints : e \notin gone =>
            /\ endpoints'[e] = endpoints[e] /\ rows'[e] = rows[e] /\ eventRows'[e] = eventRows[e]
            /\ taken'[e] = taken[e]
      /\ UNCHANGED <<driver, tx, sequence, lost>>
    BY DEF DeleteRows
<1>2. SqlShapes'
  <2>1. /\ endpoints' = [e \in Endpoints |-> IF e \in gone THEN 0 ELSE endpoints[e]]
        /\ rows' = [e \in Endpoints |-> IF e \in gone THEN {} ELSE rows[e]]
        /\ eventRows' = [e \in Endpoints |-> IF e \in gone THEN {} ELSE eventRows[e]]
        /\ taken' = [e \in Endpoints |-> IF e \in gone THEN {} ELSE taken[e]]
        /\ wiping' = TRUE /\ faulty' = faulty \ gone
      BY DEF DeleteRows
  <2> HIDE DEF gone
  <2> QED BY <1>1, <2>1 DEF SqlInv, SqlShapes
<1>3. ASSUME NEW w \in Writers, Written(w), tx[w].key \in gone PROVE tx[w].created
    BY <1>3 DEF DeleteRows, Written
<1> HIDE DEF gone
<1>4. TablesAreSound'
  <2> SUFFICES ASSUME NEW d \in Endpoints
               PROVE  /\ IsTable(taken'[d]) /\ rows'[d] \subseteq taken'[d]
                      /\ \A r \in taken'[d] : r.id <= sequence'
                      /\ IsTable(eventRows'[d])
                      /\ \A v \in eventRows'[d] : \E r \in taken'[d] : v.id \in {2 * r.id - 1, 2 * r.id}
                      /\ endpoints'[d] = 0 => taken'[d] = {}
      BY DEF TablesAreSound
  <2>1. CASE d \in gone
      BY <1>1, <2>1, NoRows
  <2>2. CASE d \notin gone
      BY <1>1, <2>2 DEF SqlInv, TablesAreSound
  <2> QED BY <2>1, <2>2
<1>5. OnlyOldRowsWent'
  <2> SUFFICES ASSUME NEW d \in Endpoints, NEW r \in taken'[d] \ rows'[d]
               PROVE  Newer(taken'[d], r) >= MaxResults
      BY DEF OnlyOldRowsWent
  <2> QED BY <1>1 DEF SqlInv, OnlyOldRowsGo, OnlyOldRowsWent
<1>6. ASSUME NEW w \in Writers
      PROVE  /\ Inserted(w)' = Inserted(w) /\ (Active(w)' <=> Active(w)) /\ (Written(w)' <=> Written(w))
             /\ TransactionIsSound(w)' /\ CleansOnlyOldRows(w)'
  <2>1. Inserted(w)' = Inserted(w) /\ (Active(w)' <=> Active(w)) /\ (Written(w)' <=> Written(w))
      BY <1>1 DEF Inserted, Active, Written
  <2>2. TransactionIsSound(w) /\ CleansOnlyOldRows(w) /\ tx[w].key \in Endpoints
      BY DEF SqlInv, SqlShapes, Transaction, TransactionsAreSound, OnlyOldRowsGo
  <2>3. CASE tx[w].key \notin gone
    <3>1. TransactionIsSound(w)'
        BY <1>1, <2>1, <2>2, <2>3 DEF TransactionIsSound
    <3>2. CleansOnlyOldRows(w)'
        BY <1>1, <2>1, <2>2, <2>3 DEF CleansOnlyOldRows
    <3> QED BY <2>1, <3>1, <3>2
  <2>4. CASE tx[w].key \in gone
    <3>1. TransactionIsSound(w)'
        BY <1>1, <1>3, <2>1, <2>2, <2>4 DEF TransactionIsSound
    <3>2. CleansOnlyOldRows(w)'
        BY <1>1, <1>3, <2>1, <2>2, <2>4 DEF CleansOnlyOldRows
    <3> QED BY <2>1, <3>1, <3>2
  <2> QED BY <2>3, <2>4
<1>7. ASSUME NEW v \in Writers, NEW w \in Writers, v # w PROVE Apart(v, w)'
    BY <1>1, <1>6, <1>7 DEF SqlInv, TransactionsAreSound, Apart
<1> QED BY <1>2, <1>4, <1>5, <1>6, <1>7 DEF SqlInv, TransactionsAreSound, OnlyOldRowsGo

LEMMA SqlStutters == SqlInv /\ UNCHANGED sqlVars => SqlInv'
<1> SUFFICES ASSUME SqlInv, UNCHANGED sqlVars PROVE SqlInv'
    OBVIOUS
<1>1. wiping \in BOOLEAN /\ lost \in SUBSET Endpoints
    BY DEF SqlInv, SqlShapes
<1> QED BY <1>1, LeavingTheTablesKeepsSql DEF sqlVars

LEMMA SqlNextKeeps == SqlInv /\ SqlNext => SqlInv'
<1> SUFFICES ASSUME SqlInv, SqlNext PROVE SqlInv'
    OBVIOUS
<1>0. wiping \in BOOLEAN /\ lost \in SUBSET Endpoints /\ faulty \in SUBSET Endpoints
    BY DEF SqlInv, SqlShapes
<1>1. ASSUME NEW w \in Writers, WriterStep(w) PROVE SqlInv'
  <2>1. ASSUME NEW e \in Endpoints, NEW success \in BOOLEAN, NEW hour \in Hours,
               BeginTransaction(w, e, success, hour)
        PROVE  SqlInv'
      BY <2>1, BeginKeepsSql
  <2>2. CASE CreateEndpoint(w)
      BY <2>2, CreateKeepsSql
  <2>3. ASSUME NEW failed \in Failures, WriteRows(w, failed) PROVE SqlInv'
      BY <2>3, WriteRowsKeepsSql
  <2>4. CASE WriteFails(w)
      BY <1>0, <2>4, RollingBackKeeps DEF WriteFails
  <2>5. CASE UpdateUptime(w) \/ DropCached(w) \/ \E failed \in QueryFailures : FillCached(w, failed)
      BY <2>5, RefreshingKeepsSql
  <2>6. CASE Commit(w)
      BY <2>6, CommitKeepsSql
  <2>7. CASE CommitFails(w)
    <3>1. tx[w] \in Transaction
        BY DEF SqlInv, SqlShapes
    <3>2. tx[w].key \in Endpoints
        BY <3>1 DEF Transaction
    <3> QED BY <1>0, <2>7, <3>2, RollingBackKeeps DEF CommitFails
  <2> QED BY <1>1, <2>1, <2>2, <2>3, <2>4, <2>5, <2>6, <2>7 DEF WriterStep
<1>2. ASSUME NEW r \in Readers, NEW p \in Endpoints \X Sizes, NEW failed \in QueryFailures, ReadStatus(r, p, failed) PROVE SqlInv'
    BY <1>0, <1>2, LeavingTheTablesKeepsSql DEF ReadStatus
<1>3. ASSUME NEW r \in Readers, KeepStatus(r) PROVE SqlInv'
    BY <1>0, <1>3, LeavingTheTablesKeepsSql DEF KeepStatus
<1>4. ASSUME NEW p \in Endpoints \X Sizes, Expire(p) PROVE SqlInv'
    BY <1>0, <1>4, LeavingTheTablesKeepsSql DEF Expire
<1>5. ASSUME NEW keys \in SUBSET Endpoints, DeleteRows(keys) PROVE SqlInv'
    BY <1>5, DeleteRowsKeepsSql
<1>6. CASE WipeCache
    BY <1>0, <1>6, LeavingTheTablesKeepsSql DEF WipeCache
<1> QED BY <1>1, <1>2, <1>3, <1>4, <1>5, <1>6 DEF SqlNext

(* Every row that is missing from a table is too old to be asked for, whoever
   cleaned up and in whatever order the transactions committed, with both
   drivers and also after failed statements. *)
THEOREM TablesLackOnlyOldRows == SqlSpec => []SqlInv
<1> QED BY SqlInitEstablishes, SqlStutters, SqlNextKeeps, PTL DEF SqlSpec

LEMMA AnswersFollow == SqlInv => SqlAnswersFromHistory
<1> SUFFICES ASSUME SqlInv, NEW e \in Endpoints, NEW page \in 0 .. MaxResults, NEW pageSize \in 0 .. MaxResults,
                    NEW p, p = RequestedPage(page), NEW size, size = RequestedPageSize(page, pageSize),
                    p * size <= MaxResults
             PROVE  SqlPage(ById(rows[e]), p, size) = MemoryPage(ById(taken[e]), p, size)
    BY DEF SqlAnswersFromHistory
<1>1. /\ IsTable(taken[e]) /\ rows[e] \in SUBSET taken[e] /\ taken[e] \subseteq Result
      /\ \A r \in taken[e] \ rows[e] : Newer(taken[e], r) >= MaxResults
    BY DEF SqlInv, SqlShapes, TablesAreSound, OnlyOldRowsGo, OnlyOldRowsWent
<1>2. p \in Nat \ {0} /\ size \in Nat \ {0}
    BY MaximaArePositive DEF RequestedPage, RequestedPageSize
<1>3. ById(taken[e]) \in Seq(Result) /\ ById(rows[e]) \in Seq(Result)
  <2>1. ById(taken[e]) \in Seq(taken[e]) /\ ById(rows[e]) \in Seq(rows[e])
      BY <1>1, ByIdSorts, SubsetIsTable
  <2> QED BY <1>1, <2>1, SeqMonotonic
<1>4. \A i \in 0 .. MaxResults - 1 :
        /\ i < Len(ById(rows[e])) <=> i < Len(ById(taken[e]))
        /\ i < Len(ById(taken[e])) =>
             ById(rows[e])[Len(ById(rows[e])) - i] = ById(taken[e])[Len(ById(taken[e])) - i]
    BY <1>1, SameNewestRows, MaximaArePositive
<1>5. SqlPage(ById(rows[e]), p, size) = SqlPage(ById(taken[e]), p, size)
  <2>1. PICK q \in Seq(Result), s \in Seq(Result) : q = ById(rows[e]) /\ s = ById(taken[e])
      BY <1>3
  <2>2. MaxResults \in Nat /\ SameNewest(q, s, MaxResults)
      BY <1>4, <2>1, MaximaArePositive DEF SameNewest
  <2>3. SqlPage(q, p, size) = SqlPage(s, p, size)
      BY <1>2, <2>2, SamePages
  <2> QED BY <2>1, <2>3
<1>6. MemoryPage(ById(taken[e]), p, size) = SqlPage(ById(taken[e]), p, size)
    BY <1>2, <1>3, StoresCutTheSamePage
<1> QED BY <1>5, <1>6

(* SqlAnswersFromHistory: a page cut out of a table by the queries of the SQL
   stores is the page the memory store would cut out of everything that was
   inserted, for any maxima, any number of insertions at the same time and both
   drivers. *)
THEOREM SqlPagesAreRight == SqlSpec => []SqlAnswersFromHistory
<1> QED BY TablesLackOnlyOldRows, AnswersFollow, PTL

\* What a transaction reads are tables, too.
LEMMA SeenTables ==
    ASSUME SqlInv, NEW t, t = Idle \/ (\E w \in Writers : t = tx[w]), NEW e \in Endpoints
    PROVE  /\ IsTable(RowsSeenBy(t, e)) /\ RowsSeenBy(t, e) \subseteq Result
           /\ IsTable(EventsSeenBy(t, e)) /\ EventsSeenBy(t, e) \subseteq EventRow
<1>1. /\ IsTable(rows[e]) /\ rows[e] \subseteq Result /\ IsTable(eventRows[e]) /\ eventRows[e] \subseteq EventRow
      /\ rows[e] \subseteq taken[e]
    BY SubsetIsTable DEF SqlInv, SqlShapes, TablesAreSound
<1>2. CASE ~Uncommitted(t, e)
    BY <1>1, <1>2 DEF RowsSeenBy, EventsSeenBy
<1>3. CASE Uncommitted(t, e)
  <2>1. PICK w \in Writers : t = tx[w] /\ e = tx[w].key /\ Active(w)
      BY <1>3, IdleIsATransaction DEF Uncommitted, Active
  <2>2. /\ RowsSeenBy(t, e) = (rows[e] \ tx[w].oldRows) \cup tx[w].newRows
        /\ EventsSeenBy(t, e) = (eventRows[e] \ tx[w].oldEvents) \cup tx[w].newEvents
        /\ TransactionIsSound(w) /\ tx[w] \in Transaction
      BY <1>3, <2>1 DEF RowsSeenBy, EventsSeenBy, SqlInv, SqlShapes, TransactionsAreSound
  <2>3. CASE ~Written(w)
      BY <1>1, <2>1, <2>2, <2>3 DEF TransactionIsSound
  <2>4. CASE Written(w)
    <3>1. PICK x : x = Inserted(w) /\ x \in Result /\ tx[w].newRows = {x} /\ IsTable(taken[e] \cup {x})
        BY <2>1, <2>2, <2>4, NewRowFits DEF TransactionIsSound
    <3>2. RowsSeenBy(t, e) \in SUBSET (taken[e] \cup {x}) /\ RowsSeenBy(t, e) \subseteq Result
        BY <1>1, <2>2, <3>1
    <3>3. IsTable(RowsSeenBy(t, e))
        BY <3>1, <3>2, SubsetIsTable
    <3>4. IsTable(EventsSeenBy(t, e))
      <4>1. PICK kept \in SUBSET eventRows[e] : kept = eventRows[e] \ tx[w].oldEvents
          OBVIOUS
      <4> QED BY <2>1, <2>2, <2>4, <4>1, NewEventsFit
    <3>5. EventsSeenBy(t, e) \subseteq EventRow
        BY <1>1, <2>2 DEF Transaction
    <3> QED BY <3>2, <3>3, <3>4, <3>5
  <2> QED BY <2>3, <2>4
<1> QED BY <1>2, <1>3

LEMMA PageIsTyped ==
    ASSUME NEW S, NEW s \in Seq(S), NEW page \in Nat \ {0}, NEW size \in Nat \ {0}
    PROVE  SqlPage(s, page, size) \in Seq(S)
<1>1. MemoryPage(s, page, size) = SqlPage(s, page, size)
    BY StoresCutTheSamePage
<1> DEFINE i == StartIndex(Len(s), page, size)
           j == EndIndex(Len(s), page, size)
<1>2. i >= 0 /\ j >= 0 => i <= j /\ j <= Len(s)
  <2>1. Len(s) \in Nat /\ page \in Int /\ size \in Int
      OBVIOUS
  <2> QED BY <2>1, SliceBoundsAreValid
<1>3. i \in Int /\ j \in Int
  <2>1. page * size \in Nat /\ (page - 1) * size \in Nat
      BY PageProducts
  <2> QED BY <2>1 DEF StartIndex, EndIndex
<1> HIDE DEF i, j
<1>4. i >= 0 /\ j >= 0 => SubSeq(s, i + 1, j) \in Seq(S)
  <2> HAVE i >= 0 /\ j >= 0
  <2>1. \A k \in i + 1 .. j : s[k] \in S
      BY <1>2, <1>3
  <2> QED BY <1>3, <2>1, SubSeqProperties
<1>5. MemoryPage(s, page, size) = IF i < 0 \/ j < 0 THEN <<>> ELSE SubSeq(s, i + 1, j)
    BY DEF MemoryPage, i, j
<1>6. MemoryPage(s, page, size) \in Seq(S)
    BY <1>3, <1>4, <1>5
<1> QED BY <1>1, <1>6

LEMMA FailuresOfQueries == QueryFailures \subseteq SUBSET Queries
BY DEF QueryFailures, Queries

LEMMA StatusReadIsTyped ==
    ASSUME SqlInv, NEW t, t = Idle \/ (\E w \in Writers : t = tx[w]),
           NEW e \in Endpoints, NEW size \in Sizes, NEW failed \in QueryFailures
    PROVE  StatusRead(t, e, size, failed) \in Answer
<1>1. None \in Answer /\ failed \in SUBSET Queries
    BY FailuresOfQueries DEF None, Answer
<1>2. CASE ExistsFor(t, e) /\ "endpoint" \notin failed
  <2> DEFINE events == ById(EventsSeenBy(t, e))
             types == [i \in 1 .. Len(events) |-> events[i].type]
             results == ById(RowsSeenBy(t, e))
  <2>1. events \in Seq(EventRow) /\ results \in Seq(Result)
    <3>1. results \in Seq(RowsSeenBy(t, e)) /\ events \in Seq(EventsSeenBy(t, e))
        BY SeenTables, ByIdSorts
    <3> HIDE DEF events, results
    <3> QED BY <3>1, SeenTables, SeqMonotonic
  <2>2. StatusRead(t, e, size, failed) =
            [results |-> IF "results" \in failed THEN <<>> ELSE SqlPage(results, 1, size),
             events |-> IF "events" \in failed THEN <<>> ELSE SqlPage(types, 1, MaxEvents),
             found |-> TRUE, missing |-> failed]
      BY <1>2 DEF StatusRead
  <2> HIDE DEF events, results
  <2>3. types \in Seq(EventType)
    <3>1. PICK n \in Nat : n = Len(events)
        BY <2>1
    <3>2. \A i \in 1 .. n : events[i].type \in EventType
      <4> TAKE i \in 1 .. n
      <4>1. events[i] \in EventRow
          BY <2>1, <3>1
      <4> QED BY <4>1 DEF EventRow
    <3> QED BY <3>1, <3>2
  <2> HIDE DEF types
  <2>4. /\ SqlPage(results, 1, size) \in Seq(Result)
        /\ SqlPage(types, 1, MaxEvents) \in Seq(EventType)
      BY <2>1, <2>3, PageIsTyped, MaximaArePositive, SqlStoreAssumption
  <2>5. /\ (IF "results" \in failed THEN <<>> ELSE SqlPage(results, 1, size)) \in Seq(Result)
        /\ (IF "events" \in failed THEN <<>> ELSE SqlPage(types, 1, MaxEvents)) \in Seq(EventType)
      BY <2>4
  <2> QED BY <1>1, <2>2, <2>5 DEF Answer
<1> QED BY <1>1, <1>2 DEF StatusRead

-----------------------------------------------------------------------------
(* Readers and cached statuses *)

SqlTyped ==
    /\ cache \in [Endpoints \X Sizes -> Answer]
    /\ reading \in [Readers -> [busy : BOOLEAN, page : Endpoints \X Sizes, answer : Answer]]

LEMMA SqlInitIsTyped == SqlInit => SqlTyped
<1> SUFFICES ASSUME SqlInit PROVE SqlTyped
    OBVIOUS
<1>1. None \in Answer
    BY DEF None, Answer
<1>2. (CHOOSE p \in Endpoints \X Sizes : TRUE) \in Endpoints \X Sizes
  <2>1. PICK e \in Endpoints, size \in Sizes : TRUE
      BY SqlStoreAssumption
  <2>2. <<e, size>> \in Endpoints \X Sizes
      OBVIOUS
  <2>3. \E p : p \in Endpoints \X Sizes
      BY <2>2
  <2> QED BY <2>3
<1> QED BY <1>1, <1>2 DEF SqlInit, SqlTyped

LEMMA SqlNextIsTyped == SqlInv /\ SqlTyped /\ [SqlNext]_sqlVars => SqlTyped'
<1> SUFFICES ASSUME SqlInv, SqlTyped, [SqlNext]_sqlVars PROVE SqlTyped'
    OBVIOUS
<1>0. None \in Answer
    BY DEF None, Answer
<1>1. CASE UNCHANGED <<cache, reading>>
    BY <1>1 DEF SqlTyped
<1>2. ASSUME NEW w \in Writers, DropCached(w) \/ \E failed \in QueryFailures : FillCached(w, failed)
      PROVE  SqlTyped'
  <2>1. tx[w] \in Transaction
      BY DEF SqlInv, SqlShapes
  <2>2. CASE DropCached(w)
    <3>1. PICK p \in tx[w].todo : cache' = [cache EXCEPT ![p] = None] /\ UNCHANGED reading
        BY <2>2 DEF DropCached
    <3> QED BY <1>0, <3>1 DEF SqlTyped
  <2>3. ASSUME NEW failed \in QueryFailures, FillCached(w, failed) PROVE SqlTyped'
    <3>1. PICK p \in tx[w].now :
            /\ cache' \in {cache, [cache EXCEPT ![p] = StatusRead(tx[w], p[1], p[2], failed)]}
            /\ UNCHANGED reading
        BY <2>3, FillTakes
    <3>2. p \in Endpoints \X Sizes
        BY <2>1 DEF Transaction
    <3>3. StatusRead(tx[w], p[1], p[2], failed) \in Answer
        BY <3>2, StatusReadIsTyped
    <3> QED BY <3>1, <3>2, <3>3 DEF SqlTyped
  <2> QED BY <1>2, <2>2, <2>3
<1>3. ASSUME NEW r \in Readers, NEW p \in Endpoints \X Sizes, NEW failed \in QueryFailures, ReadStatus(r, p, failed) PROVE SqlTyped'
  <2>1. StatusRead(Idle, p[1], p[2], failed) \in Answer
      BY StatusReadIsTyped
  <2> QED BY <1>3, <2>1 DEF ReadStatus, SqlTyped
<1>4. ASSUME NEW r \in Readers, KeepStatus(r) PROVE SqlTyped'
  <2>1. reading[r].page \in Endpoints \X Sizes /\ reading[r].answer \in Answer
      BY DEF SqlTyped
  <2>2. cache' \in [Endpoints \X Sizes -> Answer]
      BY <1>4, <2>1 DEF KeepStatus, SqlTyped
  <2>3. reading' = [reading EXCEPT ![r] = [@ EXCEPT !.busy = FALSE, !.answer = None]]
      BY <1>4 DEF KeepStatus, SqlTyped
  <2> QED BY <1>0, <2>2, <2>3 DEF SqlTyped
<1>5. ASSUME NEW p \in Endpoints \X Sizes, Expire(p) PROVE SqlTyped'
    BY <1>0, <1>5 DEF Expire, SqlTyped
<1>6. CASE WipeCache
    BY <1>0, <1>6 DEF WipeCache, SqlTyped
<1>7. ASSUME NEW w \in Writers, WriterStep(w) PROVE SqlTyped'
  <2>1. CASE DropCached(w) \/ \E failed \in QueryFailures : FillCached(w, failed)
      BY <1>2, <2>1
  <2>2. ASSUME NEW e \in Endpoints, NEW success \in BOOLEAN, NEW hour \in Hours,
               BeginTransaction(w, e, success, hour)
        PROVE  UNCHANGED <<cache, reading>>
      BY <2>2 DEF BeginTransaction
  <2>3. ASSUME NEW failed \in Failures, WriteRows(w, failed) PROVE UNCHANGED <<cache, reading>>
      BY <2>3 DEF WriteRows
  <2>4. CASE CreateEndpoint(w) \/ WriteFails(w) \/ UpdateUptime(w) \/ Commit(w) \/ CommitFails(w)
      BY <1>1, <2>4 DEF CreateEndpoint, WriteFails, UpdateUptime, Commit, CommitFails
  <2> QED BY <1>1, <1>7, <2>1, <2>2, <2>3, <2>4 DEF WriterStep
<1>8. ASSUME NEW keys \in SUBSET Endpoints, DeleteRows(keys) PROVE SqlTyped'
    BY <1>1, <1>8 DEF DeleteRows
<1>9. CASE UNCHANGED sqlVars
    BY <1>1, <1>9 DEF sqlVars
<1> QED BY <1>3, <1>4, <1>5, <1>6, <1>7, <1>8, <1>9 DEF SqlNext

(* SqlTypeOK: the tables hold results and events, the cache whole statuses,
   and the transactions are at one of the steps of an insertion. *)
THEOREM SqlTypeCorrect == SqlSpec => []SqlTypeOK
<1>1. SqlInv /\ SqlTyped => SqlTypeOK
  <2> SUFFICES ASSUME SqlInv, SqlTyped PROVE SqlTypeOK
      OBVIOUS
  <2>1. \A w \in Writers : tx[w].at \in Steps /\ tx[w].key \in Endpoints
      BY DEF SqlInv, SqlShapes, Transaction
  <2>2. \A r \in Readers : reading[r].busy \in BOOLEAN /\ reading[r].answer \in Answer
      BY DEF SqlTyped
  <2> QED BY <2>1, <2>2 DEF SqlInv, SqlShapes, SqlTyped, SqlTypeOK
<1>2. SqlInv /\ [SqlNext]_sqlVars => SqlInv'
    BY SqlStutters, SqlNextKeeps
<1> QED BY <1>1, <1>2, SqlInitEstablishes, SqlInitIsTyped, SqlNextIsTyped, PTL DEF SqlSpec

-----------------------------------------------------------------------------
(* SQLite: one at a time *)

\* The pool has one connection.
OneAtATime ==
    driver = "sqlite" =>
        /\ \A v, w \in Writers : Active(v) /\ Active(w) => v = w
        /\ \A w \in Writers, r \in Readers : Active(w) => ~reading[r].busy

EventFor(x) == [id |-> 2 * x.id, type |-> NewEventFromResult(x)]
StartBefore(x) == [id |-> 2 * x.id - 1, type |-> START]

Last(s) == s[Len(s)]

\* The events to go with a new result x, after those in V for the results in R.
EventsToAdd(R, V, x) ==
    IF V = {} THEN {StartBefore(x), EventFor(x)}
    ELSE IF Last(ById(R)).success # x.success THEN {EventFor(x)} ELSE {}

\* What an insertion has written when no statement failed.
WroteAsMeant(w) ==
    LET t == tx[w]
        e == t.key
        x == Inserted(w)
        allRows == rows[e] \cup {x}
        allEvents == eventRows[e] \cup t.newEvents
    IN  /\ \A r \in taken[e] : r.id < x.id
        /\ t.newEvents = EventsToAdd(rows[e], eventRows[e], x)
        /\ t.oldRows = IF Cardinality(allRows) > MaxResults + Slack
                       THEN AllButMostRecent(allRows, MaxResults) ELSE {}
        /\ t.oldEvents = IF Cardinality(eventRows[e]) > MaxEvents + Slack
                         THEN AllButMostRecent(allEvents, MaxEvents) ELSE {}

\* A result never comes without the event that says what it was.
EventsMatch(e) ==
    /\ rows[e] = {} <=> eventRows[e] = {}
    /\ Cardinality(rows[e]) <= MaxResults + Slack
    /\ Cardinality(eventRows[e]) <= MaxEvents + Slack + 1
    /\ rows[e] # {} => Last(ById(eventRows[e])).type = NewEventFromResult(Last(ById(rows[e])))

EventsFollowResults ==
    driver = "sqlite" =>
        /\ \A e \in Endpoints \ faulty : EventsMatch(e)
        /\ \A w \in Writers : Written(w) /\ tx[w].key \notin faulty => WroteAsMeant(w)

LEMMA WriterStepIsLocal ==
    ASSUME SqlInv, NEW w \in Writers, WriterStep(w)
    PROVE  /\ UNCHANGED <<driver, reading, wiping>>
           /\ \A v \in Writers : v # w => tx'[v] = tx[v]
           /\ Active(w) \/ CanBegin
<1>0. tx \in [Writers -> Transaction]
    BY DEF SqlInv, SqlShapes
<1>1. ASSUME NEW e \in Endpoints, NEW success \in BOOLEAN, NEW hour \in Hours,
             BeginTransaction(w, e, success, hour)
      PROVE  UNCHANGED <<driver, reading, wiping>> /\ (\A v \in Writers : v # w => tx'[v] = tx[v]) /\ CanBegin
    BY <1>0, <1>1 DEF BeginTransaction
<1>2. ASSUME NEW failed \in Failures, WriteRows(w, failed)
      PROVE  UNCHANGED <<driver, reading, wiping>> /\ (\A v \in Writers : v # w => tx'[v] = tx[v]) /\ Active(w)
    BY <1>0, <1>2 DEF WriteRows, Active
<1>3. CASE CreateEndpoint(w)
    BY <1>0, <1>3 DEF CreateEndpoint, Active
<1>4. CASE WriteFails(w)
    BY <1>0, <1>4 DEF WriteFails, Active
<1>5. CASE UpdateUptime(w)
    BY <1>0, <1>5 DEF UpdateUptime, Active
<1>6. CASE DropCached(w)
    BY <1>0, <1>6 DEF DropCached, Active
<1>7. ASSUME NEW failed \in QueryFailures, FillCached(w, failed)
      PROVE  UNCHANGED <<driver, reading, wiping>> /\ (\A v \in Writers : v # w => tx'[v] = tx[v]) /\ Active(w)
    BY <1>0, <1>7, FillTakes DEF Active
<1>8. CASE Commit(w)
    BY <1>0, <1>8 DEF Commit, Active
<1>9. CASE CommitFails(w)
    BY <1>0, <1>9 DEF CommitFails, Active
<1> QED BY <1>1, <1>2, <1>3, <1>4, <1>5, <1>6, <1>7, <1>8, <1>9 DEF WriterStep

LEMMA OneAtATimeKept == SqlInv /\ SqlTyped /\ OneAtATime /\ [SqlNext]_sqlVars => OneAtATime'
<1> SUFFICES ASSUME SqlInv, SqlTyped, OneAtATime, [SqlNext]_sqlVars PROVE OneAtATime'
    OBVIOUS
<1>1. ASSUME NEW w \in Writers, WriterStep(w) PROVE OneAtATime'
  <2>1. /\ UNCHANGED <<driver, reading, wiping>>
        /\ \A v \in Writers : v # w => tx'[v] = tx[v]
        /\ Active(w) \/ CanBegin
      BY <1>1, WriterStepIsLocal
  <2>2. \A v \in Writers : v # w => (Active(v)' <=> Active(v))
      BY <2>1 DEF Active
  <2>3. driver = "sqlite" => (\A v \in Writers : v # w => ~Active(v)) /\ (\A r \in Readers : ~reading[r].busy)
      BY <2>1 DEF OneAtATime, CanBegin, Active
  <2>4. driver = "sqlite" => \A u, v \in Writers : Active(u)' /\ Active(v)' => u = v
      BY <2>2, <2>3
  <2>5. driver = "sqlite" => \A r \in Readers : ~reading'[r].busy
      BY <2>1, <2>3
  <2> HIDE DEF Active
  <2> QED BY <2>1, <2>4, <2>5 DEF OneAtATime
<1>2. ASSUME UNCHANGED <<driver, tx>>, \A r \in Readers : reading'[r].busy => reading[r].busy
      PROVE  OneAtATime'
    BY <1>2 DEF OneAtATime, Active
<1>3. ASSUME NEW r \in Readers, NEW p \in Endpoints \X Sizes, NEW failed \in QueryFailures, ReadStatus(r, p, failed) PROVE OneAtATime'
    BY <1>3 DEF ReadStatus, OneAtATime, CanBegin, Active
<1>4. ASSUME NEW r \in Readers, KeepStatus(r) PROVE OneAtATime'
  <2>1. reading' = [reading EXCEPT ![r] = [@ EXCEPT !.busy = FALSE, !.answer = None]]
      BY <1>4 DEF KeepStatus, SqlTyped
  <2>2. ~reading'[r].busy /\ \A q \in Readers : q # r => reading'[q] = reading[q]
      BY <2>1 DEF SqlTyped
  <2> QED BY <1>2, <1>4, <2>2 DEF KeepStatus
<1>5. ASSUME NEW p \in Endpoints \X Sizes, Expire(p) PROVE OneAtATime'
    BY <1>2, <1>5 DEF Expire
<1>6. ASSUME NEW keys \in SUBSET Endpoints, DeleteRows(keys) PROVE OneAtATime'
    BY <1>2, <1>6 DEF DeleteRows
<1>7. CASE WipeCache
    BY <1>2, <1>7 DEF WipeCache
<1>8. CASE UNCHANGED sqlVars
    BY <1>2, <1>8 DEF sqlVars
<1> QED BY <1>1, <1>3, <1>4, <1>5, <1>6, <1>7, <1>8 DEF SqlNext

\* The last row stays last, whatever is cleaned up.
LEMMA CleaningUpKeepsTheLast ==
    ASSUME NEW S, IsTable(S), NEW x \in S, \A r \in S : r.id <= x.id, NEW max \in Nat \ {0},
           NEW T, T = S \/ T = S \ AllButMostRecent(S, max)
    PROVE  /\ IsTable(T) /\ T \in SUBSET S /\ x \in T
           /\ Last(ById(T)) = x /\ Len(ById(T)) \in Nat \ {0}
<1>1. IsTable(T) /\ T \in SUBSET S /\ x \in T
  <2>1. CASE T = S
      BY <2>1
  <2>2. CASE T = S \ AllButMostRecent(S, max)
    <3>1. IsTable(S \ AllButMostRecent(S, max)) /\ x \in S \ AllButMostRecent(S, max)
        BY CleaningUpDropsTheOldest
    <3> QED BY <2>2, <3>1
  <2> QED BY <2>1, <2>2
<1>2. Last(ById(T)) = x /\ Len(ById(T)) \in Nat \ {0}
    BY <1>1, NewestRowIsLast DEF Last
<1> QED BY <1>1, <1>2

TypesOf(s) == [i \in 1 .. Len(s) |-> s[i].type]

LEMMA TypesOfAppend ==
    ASSUME NEW s \in Seq(EventRow), NEW v \in EventRow
    PROVE  /\ TypesOf(s) \in Seq(EventType) /\ Len(TypesOf(s)) = Len(s)
           /\ TypesOf(Append(s, v)) = Append(TypesOf(s), v.type)
<1>1. PICK n \in Nat : n = Len(s)
    OBVIOUS
<1>2. \A i \in 1 .. n : s[i].type \in EventType
  <2> TAKE i \in 1 .. n
  <2>1. s[i] \in EventRow
      BY <1>1
  <2> QED BY <2>1 DEF EventRow
<1>3. TypesOf(s) \in Seq(EventType) /\ Len(TypesOf(s)) = n /\ \A i \in 1 .. n : TypesOf(s)[i] = s[i].type
    BY <1>1, <1>2 DEF TypesOf
<1>4. v.type \in EventType
    BY DEF EventRow
<1> DEFINE q == Append(s, v)
<1>5. q \in Seq(EventRow) /\ Len(q) = n + 1 /\ (\A i \in 1 .. n : q[i] = s[i]) /\ q[n + 1] = v
    BY <1>1, AppendProperties
<1> HIDE DEF q
<1>6. \A i \in 1 .. n + 1 : q[i].type \in EventType
    BY <1>1, <1>2, <1>4, <1>5
<1>7. TypesOf(q) \in Seq(EventType) /\ Len(TypesOf(q)) = n + 1 /\ \A i \in 1 .. n + 1 : TypesOf(q)[i] = q[i].type
    BY <1>1, <1>5, <1>6 DEF TypesOf
<1> DEFINE p == Append(TypesOf(s), v.type)
<1>8. /\ p \in Seq(EventType) /\ Len(p) = n + 1
      /\ (\A i \in 1 .. n : p[i] = TypesOf(s)[i]) /\ p[n + 1] = v.type
    BY <1>1, <1>3, <1>4, AppendProperties
<1> HIDE DEF p
<1>9. \A i \in 1 .. n + 1 : p[i] = TypesOf(q)[i]
    BY SMTT(30), <1>1, <1>3, <1>5, <1>7, <1>8
<1>10. p = TypesOf(q)
    BY <1>1, <1>7, <1>8, <1>9, SeqEqual
<1> QED BY <1>1, <1>3, <1>10 DEF p, q

LEMMA AppendToOneEvent ==
    ASSUME NEW u \in EventRow, NEW v \in EventRow
    PROVE  Append(<<u>>, v) = <<u, v>>
<1>1. /\ <<u>> \in Seq(EventRow) /\ Len(<<u>>) = 1 /\ <<u>>[1] = u
    OBVIOUS
<1>2. /\ Append(<<u>>, v) \in Seq(EventRow) /\ Len(Append(<<u>>, v)) = 2
      /\ Append(<<u>>, v)[1] = u /\ Append(<<u>>, v)[2] = v
    BY <1>1, AppendProperties
<1>3. <<u, v>> \in Seq(EventRow) /\ Len(<<u, v>>) = 2 /\ <<u, v>>[1] = u /\ <<u, v>>[2] = v
    OBVIOUS
<1>4. \A i \in 1 .. 2 : Append(<<u>>, v)[i] = <<u, v>>[i]
    BY <1>2, <1>3
<1> QED BY <1>2, <1>3, <1>4, SeqEqual

LEMMA EventsAreAdded ==
    ASSUME NEW R, IsTable(R), R \subseteq Result, NEW x \in Result, \A r \in R : r.id < x.id,
           NEW V, IsTable(V), V \subseteq EventRow, \A v \in V : v.id < 2 * x.id - 1,
           R = {} <=> V = {},
           R # {} => Last(ById(V)).type = NewEventFromResult(Last(ById(R))),
           NEW new, new = EventsToAdd(R, V, x), new \subseteq EventRow
    PROVE  /\ IsTable(V \cup new)
           /\ Cardinality(V \cup new) <= (IF V = {} THEN 2 ELSE Cardinality(V) + 1)
           /\ \E z \in V \cup new :
                /\ \A v \in V \cup new : v.id <= z.id
                /\ z.type = NewEventFromResult(x)
                /\ V # {} => new \subseteq {z}
           /\ TypesOf(ById(V \cup new)) =
                IF ById(R) = <<>> THEN <<START, NewEventFromResult(x)>>
                ELSE IF Last(ById(R)).success # x.success
                THEN Append(TypesOf(ById(V)), NewEventFromResult(x)) ELSE TypesOf(ById(V))
<1> DEFINE event == EventFor(x)
           start == StartBefore(x)
<1>1. /\ event.id = 2 * x.id /\ event.type = NewEventFromResult(x)
      /\ start.id = 2 * x.id - 1 /\ start.type = START /\ x.id \in Nat
    BY DEF EventFor, StartBefore, Result
<1>2. Cardinality(V) \in Nat /\ ById(V) \in Seq(EventRow) /\ Cardinality(R) \in Nat /\ Len(ById(R)) = Cardinality(R)
  <2>1. ById(V) \in Seq(V) /\ Cardinality(V) \in Nat
      BY ByIdSorts
  <2> QED BY <2>1, ByIdSorts, SeqMonotonic
<1>3. R = {} <=> ById(R) = <<>>
  <2>1. R # {} => Cardinality(R) # 0
      BY FS_EmptySet DEF IsTable
  <2> QED BY <1>2, <2>1, NoRows
<1> HIDE DEF event, start
<1>4. CASE V = {}
  <2>1. new = {start, event} /\ start \in EventRow /\ event \in EventRow
      BY <1>4 DEF EventsToAdd, event, start
  <2>2. /\ IsTable({} \cup {start}) /\ Cardinality({} \cup {start}) = Cardinality({}) + 1
        /\ ById({} \cup {start}) = Append(ById({}), start)
      BY <1>1, <2>1, NoRows, NewRowComesLast DEF EventRow
  <2>3. /\ IsTable({start}) /\ Cardinality({start}) = 1 /\ ById({start}) = Append(<<>>, start)
        /\ {start} \cup {event} = new
    <3>1. {} \cup {start} = {start}
        OBVIOUS
    <3>2. IsTable({start}) /\ Cardinality({start}) = 0 + 1 /\ ById({start}) = Append(<<>>, start)
        BY ONLY <2>2, <3>1, NoRows, Zenon
    <3>3. {start} \cup {event} = new
        BY <2>1
    <3> QED BY <3>2, <3>3
  <2>4. \A v \in {start} : v.id < event.id
      BY <1>1
  <2>5. PICK S : S = {start}
      OBVIOUS
  <2>6. Cardinality(new) = 2 /\ IsTable(new) /\ ById(new) = Append(Append(<<>>, start), event)
    <3>1. IsTable(S) /\ Cardinality(S) = 1 /\ ById(S) = Append(<<>>, start) /\ S \cup {event} = new
        BY <2>3, <2>5
    <3>2. event.id \in Nat /\ \A v \in S : v.id < event.id
        BY <1>1, <2>4, <2>5
    <3>3. /\ IsTable(S \cup {event}) /\ Cardinality(S \cup {event}) = Cardinality(S) + 1
          /\ ById(S \cup {event}) = Append(ById(S), event)
        BY <3>1, <3>2, NewRowComesLast
    <3>4. new = S \cup {event}
        BY <3>1
    <3>5. IsTable(new) /\ Cardinality(new) = Cardinality(S) + 1 /\ ById(new) = Append(ById(S), event)
        BY ONLY <3>3, <3>4, Zenon
    <3> QED BY <3>1, <3>5
  <2>7. TypesOf(ById(new)) = <<START, NewEventFromResult(x)>>
    <3>1. Append(<<>>, start) = <<start>>
        OBVIOUS
    <3>2. Append(<<start>>, event) = <<start, event>>
        BY <2>1, AppendToOneEvent
    <3>3. TypesOf(<<start, event>>) = <<start.type, event.type>>
        BY <2>1 DEF TypesOf
    <3> QED BY <1>1, <2>6, <3>1, <3>2, <3>3
  <2>8. V \cup new = new
      BY <1>4
  <2>9. event \in new /\ \A v \in new : v.id <= event.id
      BY <1>1, <2>1
  <2> QED BY <1>1, <1>3, <1>4, <2>6, <2>7, <2>8, <2>9
<1>5. CASE V # {} /\ Last(ById(R)).success # x.success
  <2>1. new = {event} /\ event \in EventRow
      BY <1>5 DEF EventsToAdd, event
  <2>2. \A v \in V : v.id < event.id
      BY <1>1 DEF EventRow
  <2>3. /\ IsTable(V \cup new) /\ Cardinality(V \cup new) = Cardinality(V) + 1
        /\ ById(V \cup new) = Append(ById(V), event)
      BY ZenonT(60), <1>1, <2>1, <2>2, NewRowComesLast DEF EventRow
  <2>4. TypesOf(ById(V \cup new)) = Append(TypesOf(ById(V)), NewEventFromResult(x))
      BY <1>1, <1>2, <2>1, <2>3, TypesOfAppend
  <2>5. event \in V \cup new /\ \A v \in V \cup new : v.id <= event.id
      BY <1>1, <2>1, <2>2 DEF EventRow
  <2>6. Cardinality(V \cup new) <= Cardinality(V) + 1
      BY <1>2, <2>3
  <2>7. \E z \in V \cup new :
          /\ \A v \in V \cup new : v.id <= z.id
          /\ z.type = NewEventFromResult(x)
          /\ V # {} => new \subseteq {z}
      BY <1>1, <2>1, <2>5
  <2> QED BY <1>3, <1>5, <2>3, <2>4, <2>6, <2>7
<1>6. CASE V # {} /\ Last(ById(R)).success = x.success
  <2>1. new = {} /\ V \cup new = V
      BY <1>6 DEF EventsToAdd
  <2>2. PICK z \in V : \A v \in V : v.id <= z.id
      BY <1>6, SomeRowIsNewest
  <2>3. Last(ById(V)) = z
      BY <2>2, NewestRowIsLast DEF Last
  <2>4. z.type = NewEventFromResult(x)
      BY <1>6, <2>3 DEF NewEventFromResult
  <2> QED BY <1>2, <1>3, <1>6, <2>1, <2>2, <2>4
<1> QED BY <1>4, <1>5, <1>6

LEMMA CleaningUpBounds ==
    ASSUME NEW S, IsTable(S), NEW max \in Nat \ {0}
    PROVE  Cardinality(S \ AllButMostRecent(S, max)) <= max
<1>1. /\ Cardinality(S) \in Nat
      /\ Cardinality(S \ AllButMostRecent(S, max)) = Cardinality(S) - Surplus(S, max)
    BY CleaningUpDropsTheOldest
<1> QED BY <1>1 DEF Surplus

\* What a commit makes of the tables with SQLite, if no statement failed.
TablesAfter(e, x, allRows, allEvents) ==
    /\ e \in Endpoints /\ x \in Result
    /\ IsTable(allRows) /\ allRows \subseteq Result /\ x \in allRows
    /\ \A r \in allRows : r.id <= x.id
    /\ ById(allRows) = Append(ById(rows[e]), x) /\ ById(rows[e]) \in Seq(Result)
    /\ rows'[e] = allRows \/ rows'[e] = allRows \ AllButMostRecent(allRows, MaxResults)
    /\ Cardinality(rows'[e]) <= MaxResults + Slack
    /\ IsTable(allEvents) /\ allEvents \subseteq EventRow
    /\ \E z \in allEvents :
          (\A v \in allEvents : v.id <= z.id) /\ z.type = NewEventFromResult(x)
    /\ TypesOf(ById(allEvents)) =
          IF ById(rows[e]) = <<>> THEN <<START, NewEventFromResult(x)>>
          ELSE IF Last(ById(rows[e])).success # x.success
          THEN Append(TypesOf(ById(eventRows[e])), NewEventFromResult(x)) ELSE TypesOf(ById(eventRows[e]))
    /\ eventRows'[e] = allEvents \/ eventRows'[e] = allEvents \ AllButMostRecent(allEvents, MaxEvents)
    /\ Cardinality(eventRows'[e]) <= MaxEvents + Slack + 1

LEMMA CommitAsMeant ==
    ASSUME SqlInv, EventsFollowResults, driver = "sqlite", NEW w \in Writers, Commit(w),
           NEW e, e = tx[w].key, e \notin faulty, NEW x, x = Inserted(w),
           NEW allRows, allRows = rows[e] \cup {x},
           NEW allEvents, allEvents = eventRows[e] \cup tx[w].newEvents
    PROVE  TablesAfter(e, x, allRows, allEvents)
<1>1. /\ e \in Endpoints /\ x \in Result /\ Written(w)
      /\ rows' = [rows EXCEPT ![e] = (rows[e] \ tx[w].oldRows) \cup {x}]
      /\ eventRows' = [eventRows EXCEPT ![e] = (eventRows[e] \ tx[w].oldEvents) \cup tx[w].newEvents]
    BY CommitWrites
<1>2. /\ tx[w] \in Transaction /\ rows \in [Endpoints -> SUBSET Result]
      /\ eventRows \in [Endpoints -> SUBSET EventRow] /\ taken \in [Endpoints -> SUBSET Result]
      /\ IsTable(taken[e]) /\ rows[e] \in SUBSET taken[e] /\ IsTable(eventRows[e])
      /\ \A v \in eventRows[e] : \E r \in taken[e] : v.id \in {2 * r.id - 1, 2 * r.id}
    BY <1>1 DEF SqlInv, SqlShapes, TablesAreSound
<1>3. EventsMatch(e) /\ WroteAsMeant(w)
    BY <1>1 DEF EventsFollowResults
<1>4. /\ \A r \in taken[e] : r.id < x.id
      /\ tx[w].newEvents = EventsToAdd(rows[e], eventRows[e], x)
      /\ tx[w].oldRows = IF Cardinality(allRows) > MaxResults + Slack
                         THEN AllButMostRecent(allRows, MaxResults) ELSE {}
      /\ tx[w].oldEvents = IF Cardinality(eventRows[e]) > MaxEvents + Slack
                           THEN AllButMostRecent(allEvents, MaxEvents) ELSE {}
    BY <1>3 DEF WroteAsMeant
<1>5. IsTable(rows[e]) /\ x.id \in Nat /\ (\A r \in rows[e] : r.id < x.id /\ r.id \in Nat)
    BY <1>1, <1>2, <1>4, SubsetIsTable DEF Result
<1>6. /\ IsTable(rows[e] \cup {x}) /\ ById(rows[e] \cup {x}) = Append(ById(rows[e]), x)
      /\ Cardinality(rows[e] \cup {x}) = Cardinality(rows[e]) + 1 /\ Cardinality(rows[e]) \in Nat
  <2>1. \A r \in rows[e] : r.id < x.id
      BY <1>5
  <2> QED BY ONLY <1>5, <2>1, NewRowComesLast
<1>7. /\ IsTable(allRows) /\ ById(allRows) = Append(ById(rows[e]), x)
      /\ Cardinality(allRows) = Cardinality(rows[e]) + 1 /\ Cardinality(rows[e]) \in Nat
    BY ONLY <1>6, allRows = rows[e] \cup {x}, Zenon
<1>8. x \in allRows /\ allRows \subseteq Result /\ \A r \in allRows : r.id <= x.id
    BY <1>1, <1>2, <1>5
<1>9. ById(rows[e]) \in Seq(Result)
  <2>1. ById(rows[e]) \in Seq(rows[e]) /\ rows[e] \subseteq Result
      BY <1>1, <1>2, <1>5, ByIdSorts
  <2> QED BY <2>1, SeqMonotonic
<1>10. /\ rows'[e] = allRows \/ rows'[e] = allRows \ AllButMostRecent(allRows, MaxResults)
       /\ Cardinality(rows'[e]) <= MaxResults + Slack
  <2>1. rows'[e] = (rows[e] \ tx[w].oldRows) \cup {x}
      BY <1>1, <1>2
  <2>2. x \notin AllButMostRecent(allRows, MaxResults)
      BY <1>7, <1>8, CleaningUpDropsTheOldest, MaximaArePositive
  <2>3. CASE Cardinality(allRows) > MaxResults + Slack
    <3>1. rows'[e] = allRows \ AllButMostRecent(allRows, MaxResults)
        BY <1>4, <2>1, <2>2, <2>3
    <3>2. Cardinality(allRows \ AllButMostRecent(allRows, MaxResults)) <= MaxResults
        BY <1>7, CleaningUpBounds, MaximaArePositive
    <3>3. Cardinality(rows'[e]) <= MaxResults
        BY ONLY <3>1, <3>2, Zenon
    <3>4. IsTable(allRows \ AllButMostRecent(allRows, MaxResults))
        BY <1>7, SubsetIsTable
    <3>5. Cardinality(allRows \ AllButMostRecent(allRows, MaxResults)) \in Nat
        BY <3>4, FS_CardinalityType DEF IsTable
    <3>6. Cardinality(rows'[e]) \in Nat
        BY ONLY <3>1, <3>5, Zenon
    <3> QED BY <3>1, <3>3, <3>6, MaximaArePositive, SqlStoreAssumption
  <2>4. CASE ~(Cardinality(allRows) > MaxResults + Slack)
    <3>1. rows'[e] = allRows
        BY <1>4, <2>1, <2>4
    <3> QED BY <1>7, <2>4, <3>1, MaximaArePositive, SqlStoreAssumption
  <2> QED BY <2>3, <2>4
<1>11. /\ eventRows[e] \subseteq EventRow /\ tx[w].newEvents \subseteq EventRow
       /\ \A v \in eventRows[e] : v.id < 2 * x.id - 1
  <2>1. eventRows[e] \subseteq EventRow /\ tx[w].newEvents \subseteq EventRow
      BY <1>1, <1>2 DEF Transaction
  <2>2. ASSUME NEW v \in eventRows[e] PROVE v.id < 2 * x.id - 1
    <3>1. PICK r \in taken[e] : v.id \in {2 * r.id - 1, 2 * r.id}
        BY <1>2
    <3>2. r.id \in Nat /\ x.id \in Nat /\ r.id < x.id
        BY <1>1, <1>2, <1>4, <3>1 DEF Result
    <3> QED BY <3>1, <3>2
  <2> QED BY <2>1, <2>2
<1>12. PICK V, new, R : V = eventRows[e] /\ new = tx[w].newEvents /\ R = rows[e]
    OBVIOUS
<1>13. /\ IsTable(V \cup new)
       /\ Cardinality(V \cup new) <= (IF V = {} THEN 2 ELSE Cardinality(V) + 1)
       /\ \E z \in V \cup new :
            /\ \A v \in V \cup new : v.id <= z.id
            /\ z.type = NewEventFromResult(x)
            /\ V # {} => new \subseteq {z}
       /\ TypesOf(ById(V \cup new)) =
            IF ById(R) = <<>> THEN <<START, NewEventFromResult(x)>>
            ELSE IF Last(ById(R)).success # x.success
            THEN Append(TypesOf(ById(V)), NewEventFromResult(x)) ELSE TypesOf(ById(V))
  <2>1. /\ IsTable(R) /\ R \subseteq Result /\ x \in Result /\ \A r \in R : r.id < x.id
        /\ IsTable(V) /\ V \subseteq EventRow /\ \A v \in V : v.id < 2 * x.id - 1
        /\ R = {} <=> V = {}
        /\ R # {} => Last(ById(V)).type = NewEventFromResult(Last(ById(R)))
        /\ new = EventsToAdd(R, V, x) /\ new \subseteq EventRow
      BY <1>1, <1>2, <1>3, <1>4, <1>5, <1>11, <1>12 DEF EventsMatch
  <2> QED BY <2>1, EventsAreAdded
<1>14. allEvents = V \cup new
    BY <1>12
<1>15. /\ IsTable(allEvents) /\ TypesOf(ById(allEvents)) = TypesOf(ById(V \cup new))
       /\ Cardinality(allEvents) = Cardinality(V \cup new)
    BY ONLY <1>13, <1>14, Zenon
<1>16. allEvents \subseteq EventRow
    BY <1>11
<1>17. PICK z \in allEvents :
         /\ \A v \in allEvents : v.id <= z.id
         /\ z.type = NewEventFromResult(x)
         /\ V # {} => new \subseteq {z}
    BY <1>13, <1>14
<1>18. z \notin AllButMostRecent(allEvents, MaxEvents)
    BY ZenonT(60), <1>15, <1>17, CleaningUpDropsTheOldest, MaximaArePositive
<1>19. Cardinality(V) \in Nat /\ Cardinality(allEvents) \in Nat /\ Cardinality(V) <= MaxEvents + Slack + 1
       /\ (V = {} => Cardinality(V) = 0)
    BY <1>2, <1>3, <1>12, <1>15, FS_CardinalityType, FS_EmptySet DEF EventsMatch, IsTable
<1>20. eventRows'[e] = (V \ tx[w].oldEvents) \cup new
    BY <1>1, <1>2, <1>12
<1>21. /\ eventRows'[e] = allEvents \/ eventRows'[e] = allEvents \ AllButMostRecent(allEvents, MaxEvents)
       /\ Cardinality(eventRows'[e]) <= MaxEvents + Slack + 1
  <2>1. CASE Cardinality(V) > MaxEvents + Slack
    <3>1. tx[w].oldEvents = AllButMostRecent(allEvents, MaxEvents)
        BY <1>4, <1>12, <2>1
    <3>2. new \subseteq {z}
        BY <1>17, <1>19, <2>1, MaximaArePositive, SqlStoreAssumption
    <3>3. eventRows'[e] = allEvents \ AllButMostRecent(allEvents, MaxEvents)
        BY <1>14, <1>18, <1>20, <3>1, <3>2
    <3>4. Cardinality(allEvents \ AllButMostRecent(allEvents, MaxEvents)) <= MaxEvents
        BY <1>15, CleaningUpBounds, MaximaArePositive
    <3>5. Cardinality(allEvents \ AllButMostRecent(allEvents, MaxEvents)) \in Nat
        BY <1>15, SubsetIsTable
    <3>6. Cardinality(eventRows'[e]) <= MaxEvents /\ Cardinality(eventRows'[e]) \in Nat
        BY ONLY <3>3, <3>4, <3>5, Zenon
    <3> QED BY <3>3, <3>6, MaximaArePositive, SqlStoreAssumption
  <2>2. CASE ~(Cardinality(V) > MaxEvents + Slack)
    <3>1. tx[w].oldEvents = {}
        BY <1>4, <1>12, <2>2
    <3>2. eventRows'[e] = allEvents
        BY <1>14, <1>20, <3>1
    <3>3. Cardinality(allEvents) <= MaxEvents + Slack + 1
        BY <1>13, <1>15, <1>19, <2>2, MaximaArePositive, SqlStoreAssumption
    <3> QED BY <3>2, <3>3
  <2> QED BY <2>1, <2>2
<1>22. TypesOf(ById(allEvents)) =
         IF ById(rows[e]) = <<>> THEN <<START, NewEventFromResult(x)>>
         ELSE IF Last(ById(rows[e])).success # x.success
         THEN Append(TypesOf(ById(eventRows[e])), NewEventFromResult(x)) ELSE TypesOf(ById(eventRows[e]))
    BY ONLY <1>12, <1>13, <1>15, Zenon
<1> QED BY <1>1, <1>7, <1>8, <1>9, <1>10, <1>15, <1>16, <1>17, <1>21, <1>22 DEF TablesAfter

\* The last result has its event.
LEMMA CommitMatches ==
    ASSUME NEW e, NEW x, NEW allRows, NEW allEvents, TablesAfter(e, x, allRows, allEvents)
    PROVE  EventsMatch(e)'
<1> USE DEF TablesAfter
<1>1. PICK R : R = rows'[e] /\ (R = allRows \/ R = allRows \ AllButMostRecent(allRows, MaxResults))
    OBVIOUS
<1>2. x \in R /\ Last(ById(R)) = x
    BY <1>1, CleaningUpKeepsTheLast, MaximaArePositive
<1>3. PICK z \in allEvents : (\A v \in allEvents : v.id <= z.id) /\ z.type = NewEventFromResult(x)
    OBVIOUS
<1>4. PICK V : V = eventRows'[e] /\ (V = allEvents \/ V = allEvents \ AllButMostRecent(allEvents, MaxEvents))
    OBVIOUS
<1>5. z \in V /\ Last(ById(V)) = z
    BY <1>3, <1>4, CleaningUpKeepsTheLast, MaximaArePositive
<1>6. Last(ById(eventRows'[e])).type = NewEventFromResult(Last(ById(rows'[e])))
    BY <1>1, <1>2, <1>3, <1>4, <1>5
<1> QED BY <1>1, <1>2, <1>4, <1>5, <1>6 DEF EventsMatch

\* Whoever writes to an SQLite database does so alone.
LEMMA WriterIsAlone ==
    ASSUME SqlInv, OneAtATime, driver = "sqlite", NEW w \in Writers, WriterStep(w)
    PROVE  /\ \A v \in Writers : v # w => ~Active(v) /\ ~Active(v)' /\ ~Written(v)'
           /\ \A r \in Readers : ~reading[r].busy /\ ~reading'[r].busy
<1>1. /\ UNCHANGED <<driver, reading, wiping>>
      /\ \A v \in Writers : v # w => tx'[v] = tx[v]
      /\ Active(w) \/ CanBegin
    BY WriterStepIsLocal
<1>2. \A v \in Writers : v # w => ~Active(v)
    BY <1>1 DEF OneAtATime, CanBegin, Active
<1>3. \A r \in Readers : ~reading[r].busy
    BY <1>1 DEF OneAtATime, CanBegin, Active
<1>4. \A v \in Writers : v # w => ~Active(v)' /\ ~Written(v)'
    BY <1>1, <1>2 DEF Active, Written
<1> QED BY <1>1, <1>2, <1>3, <1>4

LEMMA WriteRowsAsMeant ==
    ASSUME SqlInv, EventsFollowResults, driver = "sqlite", NEW w \in Writers, NEW failed,
           WriteRows(w, failed), Written(w)', tx'[w].key \notin faulty'
    PROVE  WroteAsMeant(w)'
<1> PICK e, x, count, events :
        /\ e = tx[w].key /\ x = [id |-> sequence + 1, success |-> tx[w].success]
        /\ count = IF "count" \in failed THEN 0 ELSE Cardinality(eventRows[e])
        /\ events = NewEvents(tx[w], count, failed)
    OBVIOUS
<1>1. tx[w].created \/ endpoints[tx[w].key] = tx[w].id
  <2>1. tx' = [tx EXCEPT ![w] = Idle] => tx'[w].at = "idle"
      BY IdleIsATransaction DEF SqlInv, SqlShapes
  <2> QED BY <2>1 DEF WriteRows, Written
<1>2. RowsAreWritten(w, failed, e, x, count, events)
  <2>1. RowsToWrite(w, failed, e, x, count, events)
      BY <1>1 DEF RowsToWrite
  <2> QED BY <2>1, WriteRowsWrites
<1>3. failed = {} /\ faulty' = faulty /\ e \notin faulty /\ tx'[w].key = e
  <2>1. e \in faulty' \/ failed = {}
      BY <1>2 DEF RowsAreWritten
  <2>2. tx'[w].key = e
      BY <1>2 DEF RowsAreWritten
  <2> QED BY <1>2, <2>1, <2>2 DEF RowsAreWritten
<1>4. /\ tx[w].at = "write" /\ tx[w] \in Transaction /\ sequence \in Nat /\ e \in Endpoints
      /\ EventsMatch(e) /\ IsTable(rows[e]) /\ IsTable(eventRows[e])
      /\ \A r \in taken[e] : r.id \in Nat /\ r.id <= sequence
      /\ UNCHANGED <<rows, eventRows, taken>>
  <2>1. tx[w].at = "write" /\ tx[w] \in Transaction /\ sequence \in Nat /\ UNCHANGED <<rows, eventRows, taken>>
      BY <1>2 DEF RowsAreWritten, SqlInv, SqlShapes, WriteRows
  <2>2. e \in Endpoints
      BY <2>1 DEF Transaction
  <2>3. IsTable(taken[e]) /\ rows[e] \in SUBSET taken[e] /\ IsTable(eventRows[e]) /\ \A r \in taken[e] : r.id <= sequence
      BY <2>2 DEF SqlInv, TablesAreSound
  <2>4. IsTable(rows[e])
      BY <2>3, SubsetIsTable
  <2>5. EventsMatch(e)
      BY <1>3, <2>2 DEF EventsFollowResults
  <2> QED BY <2>1, <2>2, <2>3, <2>4, <2>5 DEF IsTable
<1>5. events = EventsToAdd(rows[e], eventRows[e], x)
  <2>1. count = Cardinality(eventRows[e]) /\ RowsSeenBy(tx[w], e) = rows[e]
      BY <1>3, <1>4, AtWriteNothingIsWritten
  <2>2. count = 0 <=> eventRows[e] = {}
      BY <1>4, <2>1, FS_EmptySet DEF IsTable
  <2>3. rows[e] # {} => ById(rows[e]) # <<>>
    <3>1. Len(ById(rows[e])) = Cardinality(rows[e])
        BY <1>4, ByIdSorts
    <3>2. rows[e] # {} => Cardinality(rows[e]) # 0
        BY <1>4, FS_EmptySet DEF IsTable
    <3> QED BY <3>1, <3>2
  <2>4. eventRows[e] # {} => rows[e] # {}
      BY <1>4 DEF EventsMatch
  <2>5. /\ EventFor(x) = [id |-> 2 * (sequence + 1), type |-> NewEventFromResult(tx[w])]
        /\ StartBefore(x) = [id |-> 2 * (sequence + 1) - 1, type |-> START]
        /\ x.success = tx[w].success
      BY DEF EventFor, StartBefore, NewEventFromResult
  <2> DEFINE event == EventFor(x)
             start == StartBefore(x)
  <2>6. events = IF count = 0 THEN {start, event}
                 ELSE IF ById(rows[e]) # <<>> /\ Last(ById(rows[e])).success # x.success THEN {event} ELSE {}
    <3>1. events = NewEvents(tx[w], count, {})
        BY <1>3
    <3> HIDE DEF event, start
    <3> QED BY <2>1, <2>5, <3>1 DEF NewEvents, Last, event, start
  <2> HIDE DEF event, start
  <2> QED BY <2>2, <2>3, <2>4, <2>6 DEF EventsToAdd, event, start
<1>6. PICK t : t = tx'[w]
    OBVIOUS
<1>7. /\ Inserted(w)' = x /\ t.key = e /\ t.newEvents = events
      /\ t.oldRows = IF Cardinality(rows[e] \cup {x}) > MaxResults + Slack
                     THEN AllButMostRecent(rows[e] \cup {x}, MaxResults) ELSE {}
      /\ t.oldEvents = IF Cardinality(eventRows[e]) > MaxEvents + Slack
                       THEN AllButMostRecent(eventRows[e] \cup events, MaxEvents) ELSE {}
    BY <1>2, <1>3, <1>6 DEF RowsAreWritten
<1>8. \A r \in taken[e] : r.id < x.id
    BY <1>4
<1> HIDE DEF WroteAsMeant
<1> QED BY <1>4, <1>5, <1>6, <1>7, <1>8 DEF WroteAsMeant

\* Until it commits a transaction changes no table, and once its rows are
\* written it leaves them as they are.
LEMMA WriterStepEffects ==
    ASSUME SqlInv, NEW w \in Writers, WriterStep(w), ~Commit(w)
    PROVE  /\ UNCHANGED <<driver, endpoints, rows, eventRows, taken>> /\ faulty \subseteq faulty'
           /\ \/ ~Written(w)'
              \/ \E failed : WriteRows(w, failed)
              \/ /\ Written(w) /\ tx'[w].key = tx[w].key /\ Inserted(w)' = Inserted(w)
                 /\ tx'[w].newRows = tx[w].newRows /\ tx'[w].newEvents = tx[w].newEvents
                 /\ tx'[w].oldRows = tx[w].oldRows /\ tx'[w].oldEvents = tx[w].oldEvents
                 /\ tx'[w].at \in {"refresh", "fill", "commit"} /\ tx'[w].created = tx[w].created
<1>0. /\ tx \in [Writers -> Transaction] /\ tx[w] \in Transaction
      /\ (tx' = [tx EXCEPT ![w] = Idle] => ~Written(w)')
    BY IdleIsATransaction DEF SqlInv, SqlShapes, Written
<1>1. ASSUME NEW e \in Endpoints, NEW success \in BOOLEAN, NEW hour \in Hours,
             BeginTransaction(w, e, success, hour)
      PROVE  UNCHANGED <<driver, endpoints, rows, eventRows, taken, faulty>> /\ ~Written(w)'
  <2>1. tx'[w].at = IF endpoints[e] = 0 THEN "create" ELSE "write"
      BY <1>0, <1>1 DEF BeginTransaction, Idle
  <2> QED BY <1>1, <2>1 DEF BeginTransaction, Written
<1>2. ASSUME NEW failed \in Failures, WriteRows(w, failed)
      PROVE  UNCHANGED <<driver, endpoints, rows, eventRows, taken>> /\ faulty \subseteq faulty'
    BY <1>2 DEF WriteRows
<1>3. CASE CreateEndpoint(w)
  <2>1. tx'[w] = Idle \/ tx'[w].at = "write"
      BY <1>0, <1>3 DEF CreateEndpoint, Transaction
  <2> QED BY <1>3, <2>1, IdleIsATransaction DEF CreateEndpoint, Written
<1>4. CASE WriteFails(w)
    BY <1>0, <1>4 DEF WriteFails
<1>5. CASE CommitFails(w)
    BY <1>0, <1>5 DEF CommitFails
<1>6. ASSUME Written(w), NEW t, tx'[w] = t, t.newRows = tx[w].newRows
      PROVE  Inserted(w)' = Inserted(w)
    BY <1>6 DEF Inserted
<1>7. CASE UpdateUptime(w)
  <2> DEFINE listed == {p \in RefreshedWith[tx[w].key] \X Sizes : cache[p] # None}
             t == [tx[w] EXCEPT !.at = IF listed = {} THEN "commit" ELSE "refresh", !.todo = listed]
  <2>1. tx' = [tx EXCEPT ![w] = t] /\ Written(w)
      BY <1>0, <1>7 DEF UpdateUptime, Written
  <2> HIDE DEF listed
  <2>2. /\ t.key = tx[w].key /\ t.newRows = tx[w].newRows /\ t.newEvents = tx[w].newEvents
        /\ t.oldRows = tx[w].oldRows /\ t.oldEvents = tx[w].oldEvents /\ t.created = tx[w].created
        /\ t.at \in {"refresh", "fill", "commit"}
      BY <1>0 DEF Transaction
  <2> HIDE DEF t
  <2>3. tx'[w] = t
      BY <1>0, <2>1
  <2> QED BY <1>6, <1>7, <2>1, <2>2, <2>3 DEF UpdateUptime
<1>8. CASE DropCached(w)
  <2>1. PICK p \in tx[w].todo :
          /\ tx[w].at = "refresh"
          /\ tx' = [tx EXCEPT ![w].at = "fill", ![w].todo = tx[w].todo \ {p}, ![w].now = {p}]
      BY <1>8 DEF DropCached
  <2> DEFINE t == [tx[w] EXCEPT !.at = "fill", !.todo = tx[w].todo \ {p}, !.now = {p}]
  <2>2. tx' = [tx EXCEPT ![w] = t] /\ Written(w)
      BY <1>0, <2>1 DEF Written
  <2>3. /\ t.key = tx[w].key /\ t.newRows = tx[w].newRows /\ t.newEvents = tx[w].newEvents
        /\ t.oldRows = tx[w].oldRows /\ t.oldEvents = tx[w].oldEvents /\ t.created = tx[w].created
        /\ t.at \in {"refresh", "fill", "commit"}
      BY <1>0 DEF Transaction
  <2> HIDE DEF t
  <2>4. tx'[w] = t
      BY <1>0, <2>2
  <2> QED BY <1>6, <1>8, <2>2, <2>3, <2>4 DEF DropCached
<1>9. ASSUME NEW failed \in QueryFailures, FillCached(w, failed)
      PROVE  /\ UNCHANGED <<driver, endpoints, rows, eventRows, taken, faulty>>
             /\ Written(w) /\ tx'[w].key = tx[w].key /\ Inserted(w)' = Inserted(w)
             /\ tx'[w].newRows = tx[w].newRows /\ tx'[w].newEvents = tx[w].newEvents
             /\ tx'[w].oldRows = tx[w].oldRows /\ tx'[w].oldEvents = tx[w].oldEvents
             /\ tx'[w].at \in {"refresh", "fill", "commit"} /\ tx'[w].created = tx[w].created
  <2>0. PICK aborted \in BOOLEAN :
          /\ tx[w].at = "fill"
          /\ tx' = [tx EXCEPT ![w] = [tx[w] EXCEPT
                     !.at = IF tx[w].todo = {} THEN "commit" ELSE "refresh", !.now = {}, !.aborted = aborted]]
          /\ UNCHANGED <<driver, endpoints, rows, eventRows, taken, faulty>>
      BY <1>9, FillTakes
  <2> DEFINE t == [tx[w] EXCEPT !.at = IF tx[w].todo = {} THEN "commit" ELSE "refresh",
                                !.now = {}, !.aborted = aborted]
  <2>1. tx' = [tx EXCEPT ![w] = t] /\ Written(w)
      BY <1>0, <2>0 DEF Written
  <2>2. /\ t.key = tx[w].key /\ t.newRows = tx[w].newRows /\ t.newEvents = tx[w].newEvents
        /\ t.oldRows = tx[w].oldRows /\ t.oldEvents = tx[w].oldEvents /\ t.created = tx[w].created
        /\ t.at \in {"refresh", "fill", "commit"}
      BY <1>0 DEF Transaction
  <2> HIDE DEF t
  <2>3. tx'[w] = t
      BY <1>0, <2>1
  <2> QED BY <1>6, <2>0, <2>1, <2>2, <2>3
<1> QED BY <1>1, <1>2, <1>3, <1>4, <1>5, <1>7, <1>8, <1>9 DEF WriterStep

LEMMA EventsKept ==
    SqlInv /\ OneAtATime /\ EventsFollowResults /\ [SqlNext]_sqlVars => EventsFollowResults'
<1> SUFFICES ASSUME SqlInv, OneAtATime, EventsFollowResults, [SqlNext]_sqlVars, driver' = "sqlite"
             PROVE  /\ \A e \in Endpoints : e \notin faulty' => EventsMatch(e)'
                    /\ \A w \in Writers : Written(w)' /\ tx'[w].key \notin faulty' => WroteAsMeant(w)'
    BY DEF EventsFollowResults
<1>1. ASSUME NEW w \in Writers, WriterStep(w), ~Commit(w)
      PROVE  /\ \A e \in Endpoints : e \notin faulty' => EventsMatch(e)'
             /\ \A v \in Writers : Written(v)' /\ tx'[v].key \notin faulty' => WroteAsMeant(v)'
  <2>1. /\ UNCHANGED <<driver, endpoints, rows, eventRows, taken>> /\ faulty \subseteq faulty'
        /\ \/ ~Written(w)'
           \/ \E failed : WriteRows(w, failed)
           \/ /\ Written(w) /\ tx'[w].key = tx[w].key /\ Inserted(w)' = Inserted(w)
              /\ tx'[w].newEvents = tx[w].newEvents
              /\ tx'[w].oldRows = tx[w].oldRows /\ tx'[w].oldEvents = tx[w].oldEvents
      BY <1>1, WriterStepEffects
  <2>2. driver = "sqlite"
      BY <2>1
  <2>3. \A e \in Endpoints : e \notin faulty' => EventsMatch(e)'
      BY <2>1, <2>2 DEF EventsFollowResults, EventsMatch
  <2>4. \A v \in Writers : v # w => ~Written(v)'
      BY <1>1, <2>2, WriterIsAlone
  <2>5. Written(w)' /\ tx'[w].key \notin faulty' => WroteAsMeant(w)'
    <3> SUFFICES ASSUME Written(w)', tx'[w].key \notin faulty' PROVE WroteAsMeant(w)'
        OBVIOUS
    <3>1. ASSUME NEW failed, WriteRows(w, failed) PROVE WroteAsMeant(w)'
        BY <2>2, <3>1, WriteRowsAsMeant
    <3>2. CASE /\ Written(w) /\ tx'[w].key = tx[w].key /\ Inserted(w)' = Inserted(w)
               /\ tx'[w].newEvents = tx[w].newEvents
               /\ tx'[w].oldRows = tx[w].oldRows /\ tx'[w].oldEvents = tx[w].oldEvents
      <4>1. WroteAsMeant(w)
          BY <2>1, <2>2, <3>2 DEF EventsFollowResults
      <4> QED BY <2>1, <3>2, <4>1 DEF WroteAsMeant
    <3> QED BY <2>1, <3>1, <3>2
  <2> QED BY <2>3, <2>4, <2>5
<1>2. ASSUME NEW w \in Writers, Commit(w)
      PROVE  /\ \A e \in Endpoints : e \notin faulty' => EventsMatch(e)'
             /\ \A v \in Writers : Written(v)' /\ tx'[v].key \notin faulty' => WroteAsMeant(v)'
  <2>1. driver = "sqlite" /\ UNCHANGED faulty /\ WriterStep(w)
      BY <1>2 DEF Commit, WriterStep
  <2>2. PICK e, x, allRows, allEvents :
          /\ e = tx[w].key /\ x = Inserted(w)
          /\ allRows = rows[e] \cup {x} /\ allEvents = eventRows[e] \cup tx[w].newEvents
      OBVIOUS
  <2>3. \A d \in Endpoints : d # e => rows'[d] = rows[d] /\ eventRows'[d] = eventRows[d]
      BY <1>2, <2>2, CommitWrites DEF SqlInv, SqlShapes
  <2>4. e \notin faulty => EventsMatch(e)'
      BY <1>2, <2>1, <2>2, CommitAsMeant, CommitMatches
  <2>5. \A d \in Endpoints : d # e /\ d \notin faulty => EventsMatch(d)'
      BY <2>1, <2>3 DEF EventsFollowResults, EventsMatch
  <2>6. \A v \in Writers : v # w => ~Written(v)'
      BY <2>1, WriterIsAlone
  <2>7. ~Written(w)'
      BY <1>2, IdleIsATransaction DEF Commit, SqlInv, SqlShapes, Written
  <2> QED BY <2>1, <2>4, <2>5, <2>6, <2>7
<1>3. ASSUME UNCHANGED <<driver, rows, eventRows, taken, tx, faulty>>
      PROVE  /\ \A e \in Endpoints : e \notin faulty' => EventsMatch(e)'
             /\ \A v \in Writers : Written(v)' /\ tx'[v].key \notin faulty' => WroteAsMeant(v)'
    BY <1>3 DEF EventsFollowResults, EventsMatch, WroteAsMeant, Inserted, Written
<1>4. ASSUME NEW keys \in SUBSET Endpoints, DeleteRows(keys)
      PROVE  /\ \A e \in Endpoints : e \notin faulty' => EventsMatch(e)'
             /\ \A v \in Writers : Written(v)' /\ tx'[v].key \notin faulty' => WroteAsMeant(v)'
  <2>1. driver = "sqlite" /\ UNCHANGED tx /\ faulty' = faulty \ (Endpoints \ keys) /\ CanBegin
      BY <1>4 DEF DeleteRows
  <2>2. \A v \in Writers : ~Written(v)'
      BY <2>1 DEF CanBegin, Written
  <2>3. ASSUME NEW e \in Endpoints, e \notin faulty' PROVE EventsMatch(e)'
    <3>1. CASE e \in keys
      <4>1. rows'[e] = rows[e] /\ eventRows'[e] = eventRows[e] /\ e \notin faulty
          BY <1>4, <2>1, <2>3, <3>1 DEF DeleteRows
      <4> QED BY <2>1, <4>1 DEF EventsFollowResults, EventsMatch
    <3>2. CASE e \notin keys
      <4>1. rows'[e] = {} /\ eventRows'[e] = {}
          BY <1>4, <3>2 DEF DeleteRows
      <4> QED BY <4>1, NoRows, MaximaArePositive, SqlStoreAssumption DEF EventsMatch
    <3> QED BY <3>1, <3>2
  <2> QED BY <2>2, <2>3
<1>5. ASSUME NEW r \in Readers, NEW p \in Endpoints \X Sizes, NEW failed \in QueryFailures, ReadStatus(r, p, failed)
      PROVE  UNCHANGED <<driver, rows, eventRows, taken, tx, faulty>>
    BY <1>5 DEF ReadStatus
<1>6. ASSUME NEW r \in Readers, KeepStatus(r)
      PROVE  UNCHANGED <<driver, rows, eventRows, taken, tx, faulty>>
    BY <1>6 DEF KeepStatus
<1>7. ASSUME NEW p \in Endpoints \X Sizes, Expire(p)
      PROVE  UNCHANGED <<driver, rows, eventRows, taken, tx, faulty>>
    BY <1>7 DEF Expire
<1>8. WipeCache \/ UNCHANGED sqlVars => UNCHANGED <<driver, rows, eventRows, taken, tx, faulty>>
    BY DEF WipeCache, sqlVars
<1> QED BY <1>1, <1>2, <1>3, <1>4, <1>5, <1>6, <1>7, <1>8 DEF SqlNext

LEMMA SerialInit == SqlInit => OneAtATime /\ EventsFollowResults
<1> SUFFICES ASSUME SqlInit PROVE OneAtATime /\ EventsFollowResults
    OBVIOUS
<1>1. \A w \in Writers : ~Active(w) /\ ~Written(w)
    BY IdleIsATransaction DEF SqlInit, Active, Written
<1>2. \A e \in Endpoints : EventsMatch(e)
    BY NoRows, MaximaArePositive, SqlStoreAssumption DEF SqlInit, EventsMatch
<1> QED BY <1>1, <1>2 DEF OneAtATime, EventsFollowResults

(* With SQLite insertions, deletions and reads take turns; and as long as no
   statement of an insertion fails, the events of an endpoint follow its
   results. *)
THEOREM EventsAlwaysFollowResults == SqlSpec => [](OneAtATime /\ EventsFollowResults)
<1>1. SqlInv /\ [SqlNext]_sqlVars => SqlInv'
    BY SqlStutters, SqlNextKeeps
<1> QED BY <1>1, SqlInitEstablishes, SqlInitIsTyped, SqlNextIsTyped, SerialInit, OneAtATimeKept, EventsKept,
    PTL DEF SqlSpec

(* TablesStayBounded: with SQLite no table outgrows its slack above the
   maximum, events by one more as they are counted before they are added. *)
THEOREM TablesAlwaysStayBounded == SqlSpec => []TablesStayBounded
<1>1. EventsFollowResults => TablesStayBounded
    BY DEF EventsFollowResults, TablesStayBounded, EventsMatch
<1> QED BY <1>1, EventsAlwaysFollowResults, PTL

(* LastEventIsLastResult: the last event of an endpoint says what its last
   result was, whatever was deleted or rolled back in between. *)
THEOREM LastEventAlwaysIsLastResult == SqlSpec => []LastEventIsLastResult
<1>1. SqlInv /\ EventsFollowResults => LastEventIsLastResult
  <2> SUFFICES ASSUME SqlInv, EventsFollowResults, NEW e \in Endpoints, driver = "sqlite", e \notin faulty,
                      rows[e] # {}, NEW s, s = ById(rows[e])
               PROVE  Types(e)[Len(Types(e))] = NewEventFromResult(s[Len(s)])
      BY DEF LastEventIsLastResult
  <2>1. PICK v : v = ById(eventRows[e])
      OBVIOUS
  <2>2. EventsMatch(e) /\ IsTable(eventRows[e])
      BY DEF EventsFollowResults, SqlInv, TablesAreSound
  <2>3. v[Len(v)].type = NewEventFromResult(s[Len(s)]) /\ eventRows[e] # {}
      BY <2>1, <2>2 DEF EventsMatch, Last
  <2>4. Len(v) = Cardinality(eventRows[e]) /\ Cardinality(eventRows[e]) \in Nat \ {0}
    <3>1. Len(v) = Cardinality(eventRows[e]) /\ Cardinality(eventRows[e]) \in Nat
        BY <2>1, <2>2, ByIdSorts
    <3>2. Cardinality(eventRows[e]) # 0
        BY <2>2, <2>3, FS_EmptySet DEF IsTable
    <3> QED BY <3>1, <3>2
  <2>5. PICK n \in Nat \ {0} : n = Len(v)
      BY <2>4
  <2>6. Types(e) = [i \in 1 .. n |-> v[i].type]
      BY <2>1, <2>5 DEF Types
  <2>7. Len(Types(e)) = n /\ Types(e)[n] = v[n].type
      BY <2>5, <2>6
  <2> QED BY <2>3, <2>5, <2>7
<1> QED BY <1>1, TablesLackOnlyOldRows, EventsAlwaysFollowResults, PTL

-----------------------------------------------------------------------------
(* SQLite: the cache *)

\* What is cached for p is what a transaction t reads if the same queries fail.
Fresh(p, t) == cache[p] = None \/ cache[p] = StatusRead(t, p[1], p[2], cache[p].missing)
Refreshing(w) == tx[w].at \in {"refresh", "fill", "commit"}

\* A cached status is what the tables say, or will say when the transaction
\* that refreshes it commits.
ReadersAreRight ==
    \A r \in Readers :
        reading[r].busy =>
            reading[r].answer =
                StatusRead(Idle, reading[r].page[1], reading[r].page[2], reading[r].answer.missing)

RefreshIsInOrder(w) ==
    /\ Active(w) => \A p \in tx[w].now : cache[p] = None
    /\ Active(w) /\ tx[w].at # "fill" => tx[w].now = {}
    /\ tx[w].at = "commit" => tx[w].todo = {}

NothingIsStale ==
    ~wiping => \A p \in Endpoints \X Sizes :
        \/ p[1] \in lost
        \/ Fresh(p, Idle)
        \/ \E w \in Writers : Refreshing(w) /\ tx[w].key = p[1]

IsRefreshed(w) ==
    ~wiping => \A p \in Endpoints \X Sizes :
        Refreshing(w) /\ tx[w].key = p[1] => p \in tx[w].todo \/ Fresh(p, tx[w])

CacheFollows ==
    driver = "sqlite" =>
        /\ ReadersAreRight
        /\ \A w \in Writers : RefreshIsInOrder(w) /\ IsRefreshed(w)
        /\ NothingIsStale

\* The same while w is the only transaction and nobody reads.
CacheFollowsOne(w) ==
    /\ RefreshIsInOrder(w) /\ IsRefreshed(w)
    /\ ~wiping => \A p \in Endpoints \X Sizes :
        p[1] \in lost \/ Fresh(p, Idle) \/ (Refreshing(w) /\ tx[w].key = p[1])

LEMMA OfOne ==
    ASSUME NEW w \in Writers, CacheFollows, driver = "sqlite", \A v \in Writers : v # w => ~Active(v)
    PROVE  CacheFollowsOne(w)
<1>1. \A v \in Writers : Refreshing(v) => v = w
    BY DEF Refreshing, Active
<1> QED BY <1>1 DEF CacheFollows, CacheFollowsOne, NothingIsStale

LEMMA FromOne ==
    ASSUME NEW w \in Writers, CacheFollowsOne(w)', \A v \in Writers : v # w => ~Active(v)',
           \A r \in Readers : ~reading'[r].busy
    PROVE  CacheFollows'
<1>1. ReadersAreRight'
    BY DEF ReadersAreRight
<1>2. ASSUME NEW v \in Writers, v # w PROVE RefreshIsInOrder(v)' /\ IsRefreshed(v)'
  <2>1. ~Active(v)' /\ ~Refreshing(v)' /\ tx'[v].at # "commit"
      BY <1>2 DEF Refreshing, Active
  <2> QED BY <2>1 DEF RefreshIsInOrder, IsRefreshed
<1>3. NothingIsStale'
    BY DEF CacheFollowsOne, NothingIsStale
<1> QED BY <1>1, <1>2, <1>3 DEF CacheFollows, CacheFollowsOne

LEMMA SameRead ==
    ASSUME NEW t, NEW u, NEW e, NEW size, NEW failed, ExistsFor(u, e)' <=> ExistsFor(t, e),
           RowsSeenBy(u, e)' = RowsSeenBy(t, e), EventsSeenBy(u, e)' = EventsSeenBy(t, e)
    PROVE  StatusRead(u, e, size, failed)' = StatusRead(t, e, size, failed)
BY DEF StatusRead

\* A read past the cache depends on the tables of the endpoint and on what its
\* own transaction has written for it.
LEMMA ReadFollowsTables ==
    ASSUME NEW t, NEW u, NEW e, NEW size, NEW failed,
           endpoints'[e] = endpoints[e], rows'[e] = rows[e], eventRows'[e] = eventRows[e],
           Uncommitted(u, e) <=> Uncommitted(t, e),
           Uncommitted(t, e) =>
                /\ u.created = t.created /\ u.newRows = t.newRows /\ u.newEvents = t.newEvents
                /\ u.oldRows = t.oldRows /\ u.oldEvents = t.oldEvents
    PROVE  StatusRead(u, e, size, failed)' = StatusRead(t, e, size, failed)
<1>1. ExistsFor(u, e)' <=> ExistsFor(t, e)
    BY DEF ExistsFor, Uncommitted
<1>2. RowsSeenBy(u, e)' = RowsSeenBy(t, e) /\ EventsSeenBy(u, e)' = EventsSeenBy(t, e)
    BY DEF RowsSeenBy, EventsSeenBy, Uncommitted
<1> QED BY <1>1, <1>2, SameRead

LEMMA IdleReadFollowsTables ==
    ASSUME NEW e, NEW size, NEW failed,
           endpoints'[e] = endpoints[e], rows'[e] = rows[e], eventRows'[e] = eventRows[e]
    PROVE  StatusRead(Idle, e, size, failed)' = StatusRead(Idle, e, size, failed)
BY ReadFollowsTables

LEMMA OthersReadTheTables ==
    ASSUME NEW t, NEW e, NEW size, NEW failed, ~Uncommitted(t, e)
    PROVE  StatusRead(t, e, size, failed) = StatusRead(Idle, e, size, failed)
<1>1. ~Uncommitted(Idle, e)
    BY IdleIsATransaction DEF Uncommitted
<1> QED BY <1>1 DEF StatusRead, ExistsFor, RowsSeenBy, EventsSeenBy

\* A status says of itself which of its queries failed.
LEMMA ReadIsMarked ==
    ASSUME NEW t, NEW e, NEW size, NEW failed, StatusRead(t, e, size, failed) # None
    PROVE  StatusRead(t, e, size, failed).missing = failed
BY DEF StatusRead

LEMMA ReadIsFresh ==
    ASSUME NEW p \in Endpoints \X Sizes, NEW t, NEW failed,
           cache'[p] = StatusRead(t, p[1], p[2], failed)'
    PROVE  Fresh(p, t)'
<1>1. cache'[p] # None => cache'[p].missing = failed
    BY DEF StatusRead
<1> QED BY <1>1 DEF Fresh

LEMMA FreshAsBefore ==
    ASSUME NEW p \in Endpoints \X Sizes, NEW t, NEW u, Fresh(p, t), cache'[p] = cache[p],
           \A failed : StatusRead(u, p[1], p[2], failed)' = StatusRead(t, p[1], p[2], failed)
    PROVE  Fresh(p, u)'
BY DEF Fresh

LEMMA FreshWithTables ==
    ASSUME NEW p \in Endpoints \X Sizes, Fresh(p, Idle), cache'[p] = cache[p],
           UNCHANGED <<endpoints, rows, eventRows>>
    PROVE  Fresh(p, Idle)'
<1>1. \A failed : StatusRead(Idle, p[1], p[2], failed)' = StatusRead(Idle, p[1], p[2], failed)
    BY IdleReadFollowsTables
<1> QED BY <1>1, FreshAsBefore

\* Steps before the cache is refreshed, and roll-backs before that.
LEMMA OutsideRefresh ==
    ASSUME NEW w \in Writers, CacheFollowsOne(w), ~Refreshing(w), ~Refreshing(w)',
           UNCHANGED <<endpoints, rows, eventRows, cache, wiping, lost>>,
           Active(w)' => tx'[w].now = {}
    PROVE  CacheFollowsOne(w)'
<1>1. RefreshIsInOrder(w)' /\ IsRefreshed(w)'
    BY DEF RefreshIsInOrder, IsRefreshed, Refreshing
<1>2. ASSUME ~wiping', NEW p \in Endpoints \X Sizes PROVE p[1] \in lost' \/ Fresh(p, Idle)'
  <2>1. p[1] \in lost \/ Fresh(p, Idle)
      BY <1>2 DEF CacheFollowsOne
  <2> QED BY <2>1, FreshWithTables
<1> QED BY <1>1, <1>2 DEF CacheFollowsOne

LEMMA UptimeKeepsCache ==
    ASSUME SqlInv, NEW w \in Writers, CacheFollowsOne(w), UpdateUptime(w)
    PROVE  CacheFollowsOne(w)'
<1> DEFINE listed == {p \in RefreshedWith[tx[w].key] \X Sizes : cache[p] # None}
           t == [tx[w] EXCEPT !.at = IF listed = {} THEN "commit" ELSE "refresh", !.todo = listed]
<1>1. /\ tx \in [Writers -> Transaction] /\ tx[w] \in Transaction /\ tx[w].at = "uptime"
      /\ tx' = [tx EXCEPT ![w] = t] /\ UNCHANGED <<endpoints, rows, eventRows, cache, wiping, lost>>
    BY DEF SqlInv, SqlShapes, UpdateUptime
<1>2. /\ tx'[w] = t /\ t.at = (IF listed = {} THEN "commit" ELSE "refresh") /\ t.todo = listed
      /\ t.now = tx[w].now /\ t.key = tx[w].key
    BY <1>1 DEF Transaction
<1> HIDE DEF t
<1>3. Active(w) /\ ~Refreshing(w) /\ tx[w].now = {}
    BY <1>1 DEF Active, Refreshing, CacheFollowsOne, RefreshIsInOrder
<1>4. RefreshIsInOrder(w)'
  <2> HIDE DEF listed
  <2> QED BY <1>2, <1>3 DEF RefreshIsInOrder
<1>5. ASSUME NEW p \in Endpoints \X Sizes, tx[w].key = p[1], p \notin listed PROVE cache[p] = None
  <2>1. tx[w].key \in Endpoints
      BY <1>1 DEF Transaction
  <2>2. p[1] \in RefreshedWith[tx[w].key] /\ p[2] \in Sizes /\ p = <<p[1], p[2]>>
      BY <1>5, <2>1, SqlStoreAssumption
  <2>3. p \in RefreshedWith[tx[w].key] \X Sizes
      BY <2>2
  <2> QED BY <1>5, <2>3
<1> HIDE DEF listed
<1>6. IsRefreshed(w)'
    BY <1>1, <1>2, <1>5 DEF IsRefreshed, Fresh
<1>7. ASSUME ~wiping', NEW p \in Endpoints \X Sizes PROVE p[1] \in lost' \/ Fresh(p, Idle)'
  <2>1. p[1] \in lost \/ Fresh(p, Idle)
      BY <1>1, <1>3, <1>7 DEF CacheFollowsOne
  <2> QED BY <1>1, <2>1, FreshWithTables
<1> QED BY <1>4, <1>6, <1>7 DEF CacheFollowsOne

LEMMA DropKeepsCache ==
    ASSUME SqlInv, SqlTyped, NEW w \in Writers, CacheFollowsOne(w), DropCached(w)
    PROVE  CacheFollowsOne(w)'
<1>1. PICK d \in tx[w].todo :
        /\ tx[w].at = "refresh" /\ cache' = [cache EXCEPT ![d] = None]
        /\ tx' = [tx EXCEPT ![w].at = "fill", ![w].todo = tx[w].todo \ {d}, ![w].now = {d}]
        /\ UNCHANGED <<endpoints, rows, eventRows, wiping, lost>>
    BY DEF DropCached
<1> DEFINE u == [tx[w] EXCEPT !.at = "fill", !.todo = tx[w].todo \ {d}, !.now = {d}]
<1>2. tx \in [Writers -> Transaction] /\ tx[w] \in Transaction /\ d \in Endpoints \X Sizes
    BY DEF SqlInv, SqlShapes, Transaction
<1>3. /\ tx'[w] = u /\ u.at = "fill" /\ u.todo = tx[w].todo \ {d} /\ u.now = {d} /\ u.key = tx[w].key
      /\ u.created = tx[w].created /\ u.newRows = tx[w].newRows /\ u.newEvents = tx[w].newEvents
      /\ u.oldRows = tx[w].oldRows /\ u.oldEvents = tx[w].oldEvents
    BY <1>1, <1>2 DEF Transaction
<1> HIDE DEF u
<1>4. /\ cache'[d] = None
      /\ \A p \in Endpoints \X Sizes : p # d => cache'[p] = cache[p]
    BY <1>1, <1>2 DEF SqlTyped
<1>5. RefreshIsInOrder(w)'
    BY <1>3, <1>4 DEF RefreshIsInOrder
<1>6. ASSUME ~wiping', NEW p \in Endpoints \X Sizes, tx'[w].key = p[1], p \notin tx'[w].todo
      PROVE  Fresh(p, tx[w])'
  <2>1. CASE p = d
      BY <1>4, <2>1 DEF Fresh
  <2>2. CASE p # d
    <3>1. PICK t, v : t = tx[w] /\ v = tx'[w]
        OBVIOUS
    <3>2. Fresh(p, t) /\ cache'[p] = cache[p]
        BY <1>1, <1>3, <1>4, <1>6, <2>2, <3>1 DEF CacheFollowsOne, IsRefreshed, Refreshing
    <3>3. \A failed : StatusRead(v, p[1], p[2], failed)' = StatusRead(t, p[1], p[2], failed)
        BY <1>1, <1>3, <3>1, ReadFollowsTables DEF Uncommitted
    <3>4. Fresh(p, v)'
        BY <3>2, <3>3, FreshAsBefore
    <3> QED BY <3>1, <3>4
  <2> QED BY <2>1, <2>2
<1>7. ASSUME ~wiping', NEW p \in Endpoints \X Sizes, tx'[w].key # p[1]
      PROVE  p[1] \in lost' \/ Fresh(p, Idle)'
  <2>1. CASE p = d
      BY <1>4, <2>1 DEF Fresh
  <2>2. CASE p # d
    <3>1. p[1] \in lost \/ Fresh(p, Idle)
        BY <1>1, <1>3, <1>7 DEF CacheFollowsOne
    <3> QED BY <1>1, <1>4, <2>2, <3>1, FreshWithTables
  <2> QED BY <2>1, <2>2
<1>8. Refreshing(w)'
    BY <1>3 DEF Refreshing
<1> QED BY <1>5, <1>6, <1>7, <1>8 DEF CacheFollowsOne, IsRefreshed

LEMMA FillKeepsCache ==
    ASSUME SqlInv, SqlTyped, NEW w \in Writers, CacheFollowsOne(w),
           NEW failed \in QueryFailures, FillCached(w, failed)
    PROVE  CacheFollowsOne(w)'
<1>1. PICK d \in tx[w].now, aborted \in BOOLEAN :
        /\ tx[w].at = "fill"
        /\ cache' \in {cache, [cache EXCEPT ![d] = StatusRead(tx[w], d[1], d[2], failed)]}
        /\ tx' = [tx EXCEPT ![w] = [tx[w] EXCEPT
                   !.at = IF tx[w].todo = {} THEN "commit" ELSE "refresh", !.now = {}, !.aborted = aborted]]
        /\ UNCHANGED <<endpoints, rows, eventRows, wiping, lost>>
    BY FillTakes
<1> DEFINE u == [tx[w] EXCEPT !.at = IF tx[w].todo = {} THEN "commit" ELSE "refresh",
                              !.now = {}, !.aborted = aborted]
<1>2. tx \in [Writers -> Transaction] /\ tx[w] \in Transaction /\ d \in Endpoints \X Sizes
    BY DEF SqlInv, SqlShapes, Transaction
<1>3. /\ tx'[w] = u /\ u.at = (IF tx[w].todo = {} THEN "commit" ELSE "refresh") /\ u.todo = tx[w].todo
      /\ u.now = {} /\ u.key = tx[w].key
      /\ u.created = tx[w].created /\ u.newRows = tx[w].newRows /\ u.newEvents = tx[w].newEvents
      /\ u.oldRows = tx[w].oldRows /\ u.oldEvents = tx[w].oldEvents
    BY <1>1, <1>2 DEF Transaction
<1> HIDE DEF u
<1>4. Active(w) /\ Refreshing(w) /\ cache[d] = None
    BY <1>1 DEF Active, Refreshing, CacheFollowsOne, RefreshIsInOrder
<1>5. /\ cache'[d] \in {None, StatusRead(tx[w], d[1], d[2], failed)}
      /\ \A p \in Endpoints \X Sizes : p # d => cache'[p] = cache[p]
    BY <1>1, <1>2, <1>4 DEF SqlTyped
<1>6. RefreshIsInOrder(w)'
    BY <1>3 DEF RefreshIsInOrder
<1>7. PICK t, v : t = tx[w] /\ v = tx'[w]
    OBVIOUS
<1>8. ASSUME NEW e, NEW size, NEW f PROVE StatusRead(v, e, size, f)' = StatusRead(t, e, size, f)
    BY <1>1, <1>3, <1>7, ReadFollowsTables DEF Uncommitted
<1>9. ASSUME ~wiping', NEW p \in Endpoints \X Sizes, tx'[w].key = p[1], p \notin tx'[w].todo
      PROVE  Fresh(p, v)'
  <2>1. CASE p = d
    <3>1. cache'[p] = None \/ cache'[p] = StatusRead(v, p[1], p[2], failed)'
        BY <1>5, <1>7, <1>8, <2>1
    <3>2. cache'[p] = None => Fresh(p, v)'
        BY DEF Fresh
    <3> QED BY <3>1, <3>2, ReadIsFresh
  <2>2. CASE p # d
    <3>1. Fresh(p, t) /\ cache'[p] = cache[p]
        BY <1>1, <1>3, <1>4, <1>5, <1>7, <1>9, <2>2 DEF CacheFollowsOne, IsRefreshed
    <3> QED BY <1>8, <3>1, FreshAsBefore
  <2> QED BY <2>1, <2>2
<1>10. ASSUME ~wiping', NEW p \in Endpoints \X Sizes, tx'[w].key # p[1]
       PROVE  p[1] \in lost' \/ Fresh(p, Idle)'
  <2>1. CASE p = d
    <3>1. ~Uncommitted(t, p[1])
        BY <1>3, <1>7, <1>10 DEF Uncommitted
    <3>2. cache'[p] = None \/ cache'[p] = StatusRead(Idle, p[1], p[2], failed)
        BY <1>5, <1>7, <2>1, <3>1, OthersReadTheTables
    <3>3. StatusRead(Idle, p[1], p[2], failed)' = StatusRead(Idle, p[1], p[2], failed)
        BY <1>1, IdleReadFollowsTables
    <3>4. cache'[p] = None => Fresh(p, Idle)'
        BY DEF Fresh
    <3> QED BY <3>2, <3>3, <3>4, ReadIsFresh
  <2>2. CASE p # d
    <3>1. p[1] \in lost \/ Fresh(p, Idle)
        BY <1>1, <1>3, <1>10 DEF CacheFollowsOne
    <3> QED BY <1>1, <1>5, <2>2, <3>1, FreshWithTables
  <2> QED BY <2>1, <2>2
<1>11. Refreshing(w)'
    BY <1>3 DEF Refreshing
<1>12. IsRefreshed(w)'
    BY <1>7, <1>9 DEF IsRefreshed
<1> QED BY <1>6, <1>10, <1>11, <1>12 DEF CacheFollowsOne

\* What was read for the cache is committed with it.
LEMMA CommitKeepsCache ==
    ASSUME SqlInv, NEW w \in Writers, CacheFollowsOne(w), Commit(w)
    PROVE  CacheFollowsOne(w)'
<1> PICK e, t : e = tx[w].key /\ t = tx[w]
    OBVIOUS
<1>1. /\ tx[w].at = "commit" /\ tx' = [tx EXCEPT ![w] = Idle] /\ UNCHANGED <<cache, wiping>>
      /\ lost' = lost \ {e} /\ endpoints' = [endpoints EXCEPT ![e] = t.id]
      /\ rows' = [rows EXCEPT ![e] = RowsSeenBy(t, e)]
      /\ eventRows' = [eventRows EXCEPT ![e] = EventsSeenBy(t, e)]
    BY DEF Commit
<1>2. /\ tx \in [Writers -> Transaction] /\ e \in Endpoints /\ TransactionIsSound(w)
      /\ endpoints \in [Endpoints -> Nat] /\ rows \in [Endpoints -> SUBSET Result]
      /\ eventRows \in [Endpoints -> SUBSET EventRow]
    BY DEF SqlInv, SqlShapes, Transaction, TransactionsAreSound
<1>3. tx'[w].at = "idle" /\ ~Active(w)' /\ ~Refreshing(w)' /\ Refreshing(w)
    BY <1>1, <1>2, IdleIsATransaction DEF Active, Refreshing
<1>4. RefreshIsInOrder(w)' /\ IsRefreshed(w)'
    BY <1>3 DEF RefreshIsInOrder, IsRefreshed
<1>5. tx[w].todo = {}
    BY <1>1 DEF CacheFollowsOne, RefreshIsInOrder
<1>6. ASSUME ~wiping', NEW p \in Endpoints \X Sizes PROVE p[1] \in lost' \/ Fresh(p, Idle)'
  <2>1. CASE p[1] # e
    <3>1. p[1] \in lost \/ Fresh(p, Idle)
        BY <1>1, <1>6, <2>1 DEF CacheFollowsOne
    <3>2. endpoints'[p[1]] = endpoints[p[1]] /\ rows'[p[1]] = rows[p[1]] /\ eventRows'[p[1]] = eventRows[p[1]]
        BY <1>1, <1>2, <2>1
    <3>3. \A f : StatusRead(Idle, p[1], p[2], f)' = StatusRead(Idle, p[1], p[2], f)
        BY <3>2, IdleReadFollowsTables
    <3> QED BY <1>1, <2>1, <3>1, <3>3, FreshAsBefore
  <2>2. CASE p[1] = e
    <3>1. Fresh(p, t)
        BY <1>1, <1>3, <1>5, <1>6, <2>2 DEF CacheFollowsOne, IsRefreshed
    <3>2. endpoints'[e] # 0 /\ rows'[e] = RowsSeenBy(t, e) /\ eventRows'[e] = EventsSeenBy(t, e)
        BY <1>1, <1>2 DEF TransactionIsSound, Written
    <3>3. ExistsFor(t, e)
        BY <1>1, <1>2 DEF ExistsFor, Uncommitted, TransactionIsSound, Written
    <3>4. ~Uncommitted(Idle, e)
        BY IdleIsATransaction DEF Uncommitted
    <3>5. ExistsFor(Idle, e)' /\ RowsSeenBy(Idle, e)' = rows'[e] /\ EventsSeenBy(Idle, e)' = eventRows'[e]
        BY <3>2, <3>4 DEF ExistsFor, RowsSeenBy, EventsSeenBy, Uncommitted
    <3>6. \A f : StatusRead(Idle, p[1], p[2], f)' = StatusRead(t, p[1], p[2], f)
        BY <2>2, <3>2, <3>3, <3>5, SameRead
    <3> QED BY <1>1, <3>1, <3>6, FreshAsBefore
  <2> QED BY <2>1, <2>2
<1> QED BY <1>4, <1>6 DEF CacheFollowsOne

LEMMA CommitFailsKeepsCache ==
    ASSUME SqlInv, NEW w \in Writers, CacheFollowsOne(w), CommitFails(w)
    PROVE  CacheFollowsOne(w)'
<1>1. /\ tx \in [Writers -> Transaction] /\ tx' = [tx EXCEPT ![w] = Idle]
      /\ lost' = lost \cup {tx[w].key} /\ UNCHANGED <<endpoints, rows, eventRows, cache, wiping>>
    BY DEF SqlInv, SqlShapes, CommitFails
<1>2. ~Active(w)' /\ ~Refreshing(w)' /\ tx'[w].at = "idle"
    BY <1>1, IdleIsATransaction DEF Active, Refreshing
<1>3. RefreshIsInOrder(w)' /\ IsRefreshed(w)'
    BY <1>2 DEF RefreshIsInOrder, IsRefreshed
<1>4. ASSUME ~wiping', NEW p \in Endpoints \X Sizes PROVE p[1] \in lost' \/ Fresh(p, Idle)'
  <2>1. p[1] \in lost' \/ Fresh(p, Idle)
      BY <1>1, <1>4 DEF CacheFollowsOne
  <2> QED BY <1>1, <2>1, FreshWithTables
<1> QED BY <1>3, <1>4 DEF CacheFollowsOne

LEMMA BeforeRefreshKeepsCache ==
    ASSUME SqlInv, NEW w \in Writers, CacheFollowsOne(w),
           \/ \E e \in Endpoints, success \in BOOLEAN, hour \in Hours : BeginTransaction(w, e, success, hour)
           \/ CreateEndpoint(w) \/ WriteFails(w)
           \/ \E failed \in Failures : WriteRows(w, failed)
    PROVE  CacheFollowsOne(w)'
<1>0. /\ tx \in [Writers -> Transaction] /\ tx[w] \in Transaction
      /\ (tx' = [tx EXCEPT ![w] = Idle] => ~Active(w)' /\ ~Refreshing(w)')
    BY IdleIsATransaction DEF SqlInv, SqlShapes, Active, Refreshing
<1>1. ASSUME NEW e \in Endpoints, NEW success \in BOOLEAN, NEW hour \in Hours,
             BeginTransaction(w, e, success, hour)
      PROVE  CacheFollowsOne(w)'
  <2>1. /\ tx[w].at = "idle" /\ UNCHANGED <<endpoints, rows, eventRows, cache, wiping, lost>>
        /\ tx'[w].at \in {"create", "write"} /\ tx'[w].now = {}
      BY <1>0, <1>1 DEF BeginTransaction, Idle
  <2>2. ~Refreshing(w) /\ ~Refreshing(w)'
      BY <2>1 DEF Refreshing
  <2> QED BY <2>1, <2>2, OutsideRefresh
<1>2. CASE CreateEndpoint(w)
  <2>1. tx[w].at = "create" /\ UNCHANGED <<endpoints, rows, eventRows, cache, wiping, lost>>
      BY <1>2 DEF CreateEndpoint
  <2>2. Active(w) /\ ~Refreshing(w) /\ tx[w].now = {}
      BY <2>1 DEF Active, Refreshing, CacheFollowsOne, RefreshIsInOrder
  <2>3. tx' = [tx EXCEPT ![w] = Idle] \/ (tx'[w].at = "write" /\ tx'[w].now = tx[w].now)
      BY <1>0, <1>2 DEF CreateEndpoint, Transaction
  <2>4. ~Refreshing(w)' /\ (Active(w)' => tx'[w].now = {})
      BY <1>0, <2>2, <2>3 DEF Refreshing
  <2> QED BY <2>1, <2>2, <2>4, OutsideRefresh
<1>3. CASE WriteFails(w)
  <2>1. /\ tx[w].at = "write" /\ UNCHANGED <<endpoints, rows, eventRows, cache, wiping, lost>>
        /\ tx' = [tx EXCEPT ![w] = Idle]
      BY <1>3 DEF WriteFails
  <2>2. ~Refreshing(w)
      BY <2>1 DEF Refreshing
  <2> QED BY <1>0, <2>1, <2>2, OutsideRefresh
<1>4. ASSUME NEW failed \in Failures, WriteRows(w, failed) PROVE CacheFollowsOne(w)'
  <2>1. tx[w].at = "write" /\ UNCHANGED <<endpoints, rows, eventRows, cache, wiping, lost>>
      BY <1>4 DEF WriteRows
  <2>2. Active(w) /\ ~Refreshing(w) /\ tx[w].now = {}
      BY <2>1 DEF Active, Refreshing, CacheFollowsOne, RefreshIsInOrder
  <2>3. CASE ~tx[w].created /\ endpoints[tx[w].key] # tx[w].id
    <3>1. tx' = [tx EXCEPT ![w] = Idle]
        BY <1>4, <2>3 DEF WriteRows
    <3> QED BY <1>0, <2>1, <2>2, <3>1, OutsideRefresh
  <2>4. CASE tx[w].created \/ endpoints[tx[w].key] = tx[w].id
    <3>1. PICK e, x, count, events : RowsToWrite(w, failed, e, x, count, events)
        BY <2>4 DEF RowsToWrite
    <3>2. tx'[w].at = "uptime" /\ tx'[w].now = tx[w].now
        BY <1>4, <3>1, WriteRowsWrites DEF RowsAreWritten
    <3>3. ~Refreshing(w)'
        BY <3>2 DEF Refreshing
    <3> QED BY <2>1, <2>2, <3>2, <3>3, OutsideRefresh
  <2> QED BY <2>3, <2>4
<1> QED BY <1>1, <1>2, <1>3, <1>4

LEMMA CacheKept ==
    SqlInv /\ SqlTyped /\ OneAtATime /\ CacheFollows /\ [SqlNext]_sqlVars => CacheFollows'
<1> SUFFICES ASSUME SqlInv, SqlTyped, OneAtATime, CacheFollows, [SqlNext]_sqlVars, driver' = "sqlite"
             PROVE  CacheFollows'
    BY DEF CacheFollows
<1>1. ASSUME NEW w \in Writers, WriterStep(w) PROVE CacheFollows'
  <2>1. driver = "sqlite"
      BY <1>1, WriterStepIsLocal
  <2>2. /\ \A v \in Writers : v # w => ~Active(v) /\ ~Active(v)'
        /\ \A r \in Readers : ~reading'[r].busy
      BY <1>1, <2>1, WriterIsAlone
  <2>3. CacheFollowsOne(w)
      BY <2>1, <2>2, OfOne
  <2>4. CacheFollowsOne(w)'
    <3>1. CASE \/ \E e \in Endpoints, success \in BOOLEAN, hour \in Hours : BeginTransaction(w, e, success, hour)
               \/ CreateEndpoint(w) \/ WriteFails(w)
               \/ \E failed \in Failures : WriteRows(w, failed)
        BY <2>3, <3>1, BeforeRefreshKeepsCache
    <3>2. CASE UpdateUptime(w)
        BY <2>3, <3>2, UptimeKeepsCache
    <3>3. CASE DropCached(w)
        BY <2>3, <3>3, DropKeepsCache
    <3>4. CASE \E failed \in QueryFailures : FillCached(w, failed)
        BY <2>3, <3>4, FillKeepsCache
    <3>5. CASE Commit(w)
        BY <2>3, <3>5, CommitKeepsCache
    <3>6. CASE CommitFails(w)
        BY <2>3, <3>6, CommitFailsKeepsCache
    <3> QED BY <1>1, <3>1, <3>2, <3>3, <3>4, <3>5, <3>6 DEF WriterStep
  <2> QED BY <2>2, <2>4, FromOne
\* Everything else leaves the transactions alone.
<1>2. ASSUME UNCHANGED tx
      PROVE  \A w \in Writers : (Active(w)' <=> Active(w)) /\ (Refreshing(w)' <=> Refreshing(w))
    BY <1>2 DEF Active, Refreshing
<1>3. ASSUME NEW r \in Readers, NEW p \in Endpoints \X Sizes, NEW failed \in QueryFailures, ReadStatus(r, p, failed) PROVE CacheFollows'
  <2>1. /\ driver = "sqlite" /\ CanBegin /\ UNCHANGED <<driver, endpoints, rows, eventRows, cache, tx, wiping, lost>>
        /\ reading' = [reading EXCEPT ![r] =
                         [busy |-> TRUE, page |-> p, answer |-> StatusRead(Idle, p[1], p[2], failed)]]
      BY <1>3 DEF ReadStatus
  <2>2. ReadersAreRight'
    <3>1. \A e, size, f : StatusRead(Idle, e, size, f)' = StatusRead(Idle, e, size, f)
        BY <2>1, IdleReadFollowsTables
    <3>2. ReadersAreRight
        BY <2>1 DEF CacheFollows
    <3>3. ASSUME NEW q \in Readers, reading'[q].busy
          PROVE  reading'[q].answer = StatusRead(Idle, reading'[q].page[1], reading'[q].page[2],
                                                 reading'[q].answer.missing)
      <4>1. CASE q = r
        <5>1. reading'[q].page = p /\ reading'[q].answer = StatusRead(Idle, p[1], p[2], failed)
            BY <2>1, <4>1 DEF SqlTyped
        <5>2. StatusRead(Idle, p[1], p[2], failed) # None
            BY <1>3 DEF ReadStatus, StatusRead, ExistsFor, None
        <5> QED BY <5>1, <5>2, ReadIsMarked
      <4>2. CASE q # r
          BY <2>1, <3>2, <3>3, <4>2 DEF ReadersAreRight, SqlTyped
      <4> QED BY <4>1, <4>2
    <3> QED BY <3>1, <3>3 DEF ReadersAreRight
  <2>3. \A w \in Writers : ~Active(w) /\ ~Refreshing(w)
      BY <2>1 DEF CanBegin, Active, Refreshing
  <2>4. \A w \in Writers : RefreshIsInOrder(w)' /\ IsRefreshed(w)'
      BY <1>2, <2>1, <2>3 DEF RefreshIsInOrder, IsRefreshed, Refreshing
  <2>5. ASSUME ~wiping', NEW q \in Endpoints \X Sizes PROVE q[1] \in lost' \/ Fresh(q, Idle)'
    <3>1. q[1] \in lost \/ Fresh(q, Idle)
        BY <2>1, <2>3, <2>5 DEF CacheFollows, NothingIsStale
    <3> QED BY <2>1, <3>1, FreshWithTables
  <2> QED BY <2>2, <2>4, <2>5 DEF CacheFollows, NothingIsStale
<1>4. ASSUME NEW r \in Readers, KeepStatus(r) PROVE CacheFollows'
  <2>1. /\ driver = "sqlite" /\ reading[r].busy /\ UNCHANGED <<driver, endpoints, rows, eventRows, tx, wiping, lost>>
        /\ cache' = [cache EXCEPT ![reading[r].page] = reading[r].answer]
        /\ reading' = [reading EXCEPT ![r].busy = FALSE, ![r].answer = None]
      BY <1>4 DEF KeepStatus
  <2>2. \A w \in Writers : ~Active(w) /\ ~Refreshing(w)
      BY <2>1 DEF OneAtATime, Active, Refreshing
  <2>3. ReadersAreRight
      BY <2>1 DEF CacheFollows
  <2>4. \A e, size, f : StatusRead(Idle, e, size, f)' = StatusRead(Idle, e, size, f)
      BY <2>1, IdleReadFollowsTables
  <2>5. ReadersAreRight'
    <3>1. ASSUME NEW q \in Readers, reading'[q].busy
          PROVE  reading'[q].answer = StatusRead(Idle, reading'[q].page[1], reading'[q].page[2],
                                                 reading'[q].answer.missing)
      <4>1. reading' = [reading EXCEPT ![r] = [@ EXCEPT !.busy = FALSE, !.answer = None]]
          BY <2>1 DEF SqlTyped
      <4>2. reading'[q] = reading[q]
          BY <3>1, <4>1 DEF SqlTyped
      <4> QED BY <2>3, <3>1, <4>2 DEF ReadersAreRight
    <3> QED BY <2>4, <3>1 DEF ReadersAreRight
  <2>6. \A w \in Writers : RefreshIsInOrder(w)' /\ IsRefreshed(w)'
      BY <1>2, <2>1, <2>2 DEF RefreshIsInOrder, IsRefreshed, Refreshing
  <2>7. ASSUME ~wiping', NEW q \in Endpoints \X Sizes PROVE q[1] \in lost' \/ Fresh(q, Idle)'
    <3>1. CASE q = reading[r].page
      <4>1. cache'[q] = StatusRead(Idle, q[1], q[2], cache'[q].missing)
          BY <2>1, <2>3, <3>1 DEF ReadersAreRight, SqlTyped
      <4> QED BY <2>4, <4>1 DEF Fresh
    <3>2. CASE q # reading[r].page
      <4>1. q[1] \in lost \/ Fresh(q, Idle)
          BY <2>1, <2>2, <2>7 DEF CacheFollows, NothingIsStale
      <4>2. cache'[q] = cache[q]
          BY <2>1, <3>2 DEF SqlTyped
      <4> QED BY <2>1, <4>1, <4>2, FreshWithTables
    <3> QED BY <3>1, <3>2
  <2> QED BY <2>5, <2>6, <2>7 DEF CacheFollows, NothingIsStale
<1>5. ASSUME UNCHANGED <<driver, endpoints, rows, eventRows, tx, reading, wiping, lost>>,
             \A p \in Endpoints \X Sizes : cache'[p] \in {cache[p], None}
      PROVE  CacheFollows'
  <2>1. \A e, size, f : StatusRead(Idle, e, size, f)' = StatusRead(Idle, e, size, f)
      BY <1>5, IdleReadFollowsTables
  <2>2. ReadersAreRight'
      BY <1>5, <2>1 DEF CacheFollows, ReadersAreRight
  <2>3. ASSUME NEW w \in Writers PROVE RefreshIsInOrder(w)' /\ IsRefreshed(w)'
    <3>1. RefreshIsInOrder(w) /\ IsRefreshed(w) /\ tx[w] \in Transaction
        BY <1>5 DEF CacheFollows, SqlInv, SqlShapes
    <3>2. RefreshIsInOrder(w)'
        BY <1>2, <1>5, <3>1 DEF RefreshIsInOrder, Transaction
    <3>3. PICK t : t = tx[w]
        OBVIOUS
    <3>4. \A e, size, f : StatusRead(t, e, size, f)' = StatusRead(t, e, size, f)
        BY <1>5, ReadFollowsTables DEF Uncommitted
    <3>5. ASSUME ~wiping', NEW p \in Endpoints \X Sizes, Refreshing(w)', tx'[w].key = p[1], p \notin tx'[w].todo
          PROVE  Fresh(p, t)'
      <4>1. Fresh(p, t)
          BY <1>2, <1>5, <3>1, <3>3, <3>5 DEF IsRefreshed
      <4> QED BY <1>5, <3>4, <4>1 DEF Fresh
    <3>6. t = tx'[w]
        BY <1>5, <3>3
    <3>7. IsRefreshed(w)'
        BY <3>5, <3>6 DEF IsRefreshed
    <3> QED BY <3>2, <3>7
  <2>4. ASSUME ~wiping', NEW p \in Endpoints \X Sizes
        PROVE  \/ p[1] \in lost' \/ Fresh(p, Idle)'
               \/ \E w \in Writers : Refreshing(w)' /\ tx'[w].key = p[1]
    <3>1. p[1] \in lost \/ Fresh(p, Idle) \/ \E w \in Writers : Refreshing(w) /\ tx[w].key = p[1]
        BY <1>5, <2>4 DEF CacheFollows, NothingIsStale
    <3>2. Fresh(p, Idle) => Fresh(p, Idle)'
        BY <1>5, <2>1 DEF Fresh
    <3> QED BY <1>2, <1>5, <3>1, <3>2
  <2> QED BY <2>2, <2>3, <2>4 DEF CacheFollows, NothingIsStale
<1>6. ASSUME NEW p \in Endpoints \X Sizes, Expire(p) PROVE CacheFollows'
    BY <1>5, <1>6 DEF Expire, SqlTyped
<1>7. ASSUME NEW keys \in SUBSET Endpoints, DeleteRows(keys) PROVE CacheFollows'
  <2>1. driver = "sqlite" /\ CanBegin /\ UNCHANGED <<tx, reading>> /\ wiping' = TRUE
      BY <1>7 DEF DeleteRows
  <2>2. (\A w \in Writers : ~Active(w)' /\ ~Refreshing(w)' /\ tx'[w].at # "commit")
        /\ \A r \in Readers : ~reading'[r].busy
      BY <2>1 DEF CanBegin, Active, Refreshing
  <2> QED BY <2>1, <2>2 DEF CacheFollows, ReadersAreRight, RefreshIsInOrder, NothingIsStale, IsRefreshed
<1>8. CASE WipeCache
  <2>1. /\ driver = "sqlite" /\ UNCHANGED <<driver, endpoints, rows, eventRows, tx, reading>>
        /\ \A p \in Endpoints \X Sizes : cache'[p] = None
      BY <1>8 DEF WipeCache
  <2>2. \A e, size, f : StatusRead(Idle, e, size, f)' = StatusRead(Idle, e, size, f)
      BY <2>1, IdleReadFollowsTables
  <2>3. ReadersAreRight'
      BY <2>1, <2>2 DEF CacheFollows, ReadersAreRight
  <2>4. ASSUME NEW w \in Writers PROVE RefreshIsInOrder(w)' /\ IsRefreshed(w)'
    <3>1. RefreshIsInOrder(w) /\ tx[w] \in Transaction
        BY <2>1 DEF CacheFollows, SqlInv, SqlShapes
    <3>2. RefreshIsInOrder(w)'
        BY <1>2, <2>1, <3>1 DEF RefreshIsInOrder, Transaction
    <3>3. IsRefreshed(w)'
        BY <2>1 DEF IsRefreshed, Fresh
    <3> QED BY <3>2, <3>3
  <2>5. NothingIsStale'
      BY <2>1 DEF NothingIsStale, Fresh
  <2> QED BY <2>3, <2>4, <2>5 DEF CacheFollows
<1>9. CASE UNCHANGED sqlVars
    BY <1>5, <1>9 DEF sqlVars
<1> QED BY <1>1, <1>3, <1>4, <1>6, <1>7, <1>8, <1>9 DEF SqlNext

LEMMA CacheInit == SqlInit => CacheFollows
<1> SUFFICES ASSUME SqlInit PROVE CacheFollows
    OBVIOUS
<1>1. \A w \in Writers : ~Active(w) /\ ~Refreshing(w) /\ tx[w].at # "commit"
    BY IdleIsATransaction DEF SqlInit, Active, Refreshing
<1>2. ReadersAreRight /\ NothingIsStale
    BY DEF SqlInit, ReadersAreRight, NothingIsStale, Fresh
<1> QED BY <1>1, <1>2 DEF CacheFollows, RefreshIsInOrder, IsRefreshed

(* CacheIsFresh: with SQLite a cached status is what the tables say whenever
   nothing is under way, through insertions, failed statements, deletions,
   evictions and requests that put what they read into the cache late; only a
   commit that failed leaves what it would have made visible. *)
THEOREM CacheIsAlwaysFresh == SqlSpec => []CacheIsFresh
<1>1. CacheFollows => CacheIsFresh
  <2> SUFFICES ASSUME CacheFollows, driver = "sqlite", ~wiping, \A w \in Writers : tx[w].at = "idle",
                      NEW p \in Endpoints \X Sizes, cache[p] # None, p[1] \notin lost
               PROVE  cache[p] = StatusRead(Idle, p[1], p[2], cache[p].missing)
      BY DEF CacheIsFresh
  <2>1. \A w \in Writers : ~Refreshing(w)
      BY DEF Refreshing
  <2> QED BY <2>1 DEF CacheFollows, NothingIsStale, Fresh
<1>2. SqlInv /\ [SqlNext]_sqlVars => SqlInv'
    BY SqlStutters, SqlNextKeeps
<1> QED BY <1>1, <1>2, SqlInitEstablishes, SqlInitIsTyped, SqlNextIsTyped, SerialInit, OneAtATimeKept,
    CacheInit, CacheKept, PTL DEF SqlSpec

-----------------------------------------------------------------------------
(* SQLite: the bounded history *)

\* What cleaning up leaves is the table without its oldest rows: all of them
\* unless there were more than the maximum, which then are left.
LEMMA CleaningUpTrims ==
    ASSUME NEW S, IsTable(S), NEW max \in Nat \ {0},
           NEW T, T = S \/ T = S \ AllButMostRecent(S, max)
    PROVE  \E k \in 0 .. Len(ById(S)) :
              /\ ById(T) = SubSeq(ById(S), k + 1, Len(ById(S)))
              /\ k = 0 \/ Len(ById(S)) - k >= max
<1>1. ById(S) \in Seq(S) /\ Len(ById(S)) = Cardinality(S) /\ Cardinality(S) \in Nat
    BY ByIdSorts
<1>2. CASE T = S
  <2>1. SubSeq(ById(S), 0 + 1, Len(ById(S))) = ById(S)
      BY <1>1
  <2> QED BY <1>1, <1>2, <2>1
<1>3. CASE T = S \ AllButMostRecent(S, max)
  <2>1. /\ Surplus(S, max) \in 0 .. Cardinality(S)
        /\ ById(T) = SubSeq(ById(S), Surplus(S, max) + 1, Len(ById(S)))
      BY <1>3, CleaningUpDropsTheOldest
  <2>2. Surplus(S, max) = 0 \/ Cardinality(S) - Surplus(S, max) >= max
      BY <1>1 DEF Surplus
  <2> QED BY <1>1, <2>1, <2>2
<1> QED BY <1>2, <1>3

LEMMA TypesOfRest ==
    ASSUME NEW q \in Seq(EventRow), NEW k \in 0 .. Len(q)
    PROVE  /\ Len(TypesOf(q)) = Len(q)
           /\ TypesOf(SubSeq(q, k + 1, Len(q))) = SubSeq(TypesOf(q), k + 1, Len(q))
<1>1. PICK n \in Nat : n = Len(q)
    OBVIOUS
<1>2. PICK p : p = TypesOf(q)
    OBVIOUS
<1>3. \A i \in 1 .. n : q[i] \in EventRow
    BY <1>1
<1>4. p \in Seq(EventType) /\ Len(p) = n /\ \A i \in 1 .. n : p[i] = q[i].type
    BY <1>1, <1>2, <1>3 DEF TypesOf, EventRow
<1>5. PICK rest : rest = SubSeq(q, k + 1, n)
    OBVIOUS
<1>6. /\ rest \in Seq(EventRow) /\ Len(rest) = n - k
      /\ \A i \in 1 .. n - k : rest[i] = q[k + i]
    BY <1>1, <1>5
<1>7. PICK cut : cut = SubSeq(p, k + 1, n)
    OBVIOUS
<1>8. /\ cut \in Seq(EventType) /\ Len(cut) = n - k
      /\ \A i \in 1 .. n - k : cut[i] = p[k + i]
    BY <1>1, <1>4, <1>7
<1>9. \A i \in 1 .. n - k : rest[i] \in EventRow /\ rest[i].type = cut[i]
    BY <1>1, <1>4, <1>6, <1>8
<1>10. /\ TypesOf(rest) \in Seq(EventType) /\ Len(TypesOf(rest)) = n - k
       /\ \A i \in 1 .. n - k : TypesOf(rest)[i] = rest[i].type
    BY <1>1, <1>6, <1>9 DEF TypesOf, EventRow
<1>11. \A i \in 1 .. n - k : TypesOf(rest)[i] = cut[i]
    BY <1>9, <1>10
<1>12. TypesOf(rest) = cut
    BY <1>1, <1>8, <1>10, <1>11, SeqEqual
<1> QED BY <1>1, <1>2, <1>4, <1>5, <1>7, <1>12

LEMMA TablesAreTrimmed ==
    ASSUME NEW e, NEW x, NEW allRows, NEW allEvents, TablesAfter(e, x, allRows, allEvents)
    PROVE  /\ SqlHistory!TrimmedTo(ById(rows'[e]), ById(allRows), MaxResults)
           /\ SqlHistory!TrimmedTo(TypesOf(ById(eventRows'[e])), TypesOf(ById(allEvents)), MaxEvents)
<1>1. /\ IsTable(allRows) /\ IsTable(allEvents) /\ allEvents \subseteq EventRow
      /\ rows'[e] = allRows \/ rows'[e] = allRows \ AllButMostRecent(allRows, MaxResults)
      /\ eventRows'[e] = allEvents \/ eventRows'[e] = allEvents \ AllButMostRecent(allEvents, MaxEvents)
    BY DEF TablesAfter
<1>2. PICK R, V : R = rows'[e] /\ V = eventRows'[e]
    OBVIOUS
<1>3. SqlHistory!TrimmedTo(ById(R), ById(allRows), MaxResults)
  <2>1. PICK k \in 0 .. Len(ById(allRows)) :
          /\ ById(R) = SubSeq(ById(allRows), k + 1, Len(ById(allRows)))
          /\ k = 0 \/ Len(ById(allRows)) - k >= MaxResults
      BY <1>1, <1>2, CleaningUpTrims, MaximaArePositive
  <2> QED BY <2>1 DEF SqlHistory!TrimmedTo
<1>4. SqlHistory!TrimmedTo(TypesOf(ById(V)), TypesOf(ById(allEvents)), MaxEvents)
  <2>1. PICK q : q = ById(allEvents)
      OBVIOUS
  <2>2. PICK k \in 0 .. Len(q) :
          ById(V) = SubSeq(q, k + 1, Len(q)) /\ (k = 0 \/ Len(q) - k >= MaxEvents)
      BY <1>1, <1>2, <2>1, CleaningUpTrims, MaximaArePositive
  <2>3. q \in Seq(EventRow)
    <3>1. q \in Seq(allEvents)
        BY <1>1, <2>1, ByIdSorts
    <3> QED BY <1>1, <3>1, SeqMonotonic
  <2>4. Len(TypesOf(q)) = Len(q) /\ TypesOf(ById(V)) = SubSeq(TypesOf(q), k + 1, Len(q))
      BY <2>2, <2>3, TypesOfRest
  <2> QED BY <2>1, <2>2, <2>4 DEF SqlHistory!TrimmedTo
<1> QED BY <1>2, <1>3, <1>4

\* A commit is the history's insertion.
LEMMA CommitInserts ==
    ASSUME NEW e, NEW x, NEW allRows, NEW allEvents, TablesAfter(e, x, allRows, allEvents),
           \A d \in Endpoints : d # e => rows'[d] = rows[d] /\ eventRows'[d] = eventRows[d]
    PROVE  SqlHistory!Insert(e)
<1> DEFINE mapped == [f \in Endpoints |-> ById(rows[f])]
           mappedEvents == [f \in Endpoints |-> Types(f)]
<1>1. PICK s, s2, v, v2 : /\ s = ById(rows[e]) /\ s2 = ById(rows'[e])
                          /\ v = TypesOf(ById(eventRows[e])) /\ v2 = TypesOf(ById(eventRows'[e]))
    OBVIOUS
<1>2. e \in Endpoints /\ x \in Result /\ s \in Seq(Result) /\ ById(allRows) = Append(s, x)
    BY <1>1 DEF TablesAfter
<1>3. /\ mapped[e] = s /\ mapped'[e] = s2 /\ mappedEvents[e] = v /\ mappedEvents'[e] = v2
      /\ \A f \in Endpoints \ {e} : mapped'[f] = mapped[f] /\ mappedEvents'[f] = mappedEvents[f]
    BY <1>1, <1>2 DEF Types, TypesOf
<1>4. s2 # <<>> /\ s2[Len(s2)] = x
  <2>1. PICK R : R = rows'[e] /\ (R = allRows \/ R = allRows \ AllButMostRecent(allRows, MaxResults))
      BY DEF TablesAfter
  <2>2. Last(ById(R)) = x /\ Len(ById(R)) \in Nat \ {0}
      BY <2>1, CleaningUpKeepsTheLast, MaximaArePositive DEF TablesAfter
  <2>3. s2 = ById(R)
      BY <1>1, <2>1
  <2> QED BY <2>2, <2>3 DEF Last
<1>5. /\ SqlHistory!TrimmedTo(s2, Append(s, x), MaxResults)
      /\ SqlHistory!TrimmedTo(v2, TypesOf(ById(allEvents)), MaxEvents)
    BY <1>1, <1>2, TablesAreTrimmed
<1>6. TypesOf(ById(allEvents)) = SqlHistory!EventsAfter(v, s, x)
  <2>1. TypesOf(ById(allEvents)) = IF s = <<>> THEN <<START, NewEventFromResult(x)>>
                                   ELSE IF s[Len(s)].success # x.success
                                   THEN Append(v, NewEventFromResult(x)) ELSE v
      BY <1>1 DEF TablesAfter, Last
  <2> QED BY <2>1 DEF SqlHistory!EventsAfter, SqlHistory!START, START, SqlHistory!NewEventFromResult,
         SqlHistory!HEALTHY, SqlHistory!UNHEALTHY, NewEventFromResult, HEALTHY, UNHEALTHY
<1> HIDE DEF mapped, mappedEvents
<1>7. /\ mapped'[e] # <<>>
      /\ LET last == mapped'[e][Len(mapped'[e])] IN
         /\ SqlHistory!TrimmedTo(mapped'[e], Append(mapped[e], last), MaxResults)
         /\ SqlHistory!TrimmedTo(mappedEvents'[e],
               SqlHistory!EventsAfter(mappedEvents[e], mapped[e], last), MaxEvents)
    BY <1>3, <1>4, <1>5, <1>6
<1> QED BY <1>3, <1>7 DEF SqlHistory!Insert, mapped, mappedEvents

\* An endpoint without rows has no history.
LEMMA NoHistory ==
    /\ \A e \in Endpoints : rows[e] = {} /\ eventRows[e] = {} => ById(rows[e]) = <<>> /\ Types(e) = <<>>
    /\ \A e \in Endpoints :
          rows'[e] = {} /\ eventRows'[e] = {} => ById(rows'[e]) = <<>> /\ Types(e)' = <<>>
<1>1. \A v : v = <<>> => [i \in 1 .. Len(v) |-> v[i].type] = <<>>
  <2> TAKE v
  <2> SUFFICES ASSUME v = <<>> PROVE [i \in 1 .. Len(v) |-> v[i].type] = <<>>
      OBVIOUS
  <2>1. PICK q : q = [i \in 1 .. Len(v) |-> v[i].type]
      OBVIOUS
  <2>2. 1 .. Len(v) = {}
      OBVIOUS
  <2>3. q \in [1 .. 0 -> EventType]
      BY <2>1, <2>2
  <2>4. q \in Seq(EventType) /\ Len(q) = 0
      BY <2>3
  <2> QED BY <2>1, <2>4
<1> QED BY <1>1, NoRows DEF Types

\* A deletion forgets endpoints as a whole.
LEMMA DeletionForgetsRows ==
    ASSUME NEW keys \in SUBSET Endpoints, DeleteRows(keys)
    PROVE  SqlHistory!Forget
<1>1. \A e \in Endpoints : \/ rows'[e] = {} /\ eventRows'[e] = {}
                           \/ rows'[e] = rows[e] /\ eventRows'[e] = eventRows[e]
    BY DEF DeleteRows
<1>2. \A e \in Endpoints : \/ ById(rows'[e]) = <<>> /\ Types(e)' = <<>>
                           \/ ById(rows'[e]) = ById(rows[e]) /\ Types(e)' = Types(e)
  <2> TAKE e \in Endpoints
  <2>1. rows'[e] = rows[e] /\ eventRows'[e] = eventRows[e] =>
          ById(rows'[e]) = ById(rows[e]) /\ Types(e)' = Types(e)
      BY DEF Types
  <2> QED BY <1>1, <2>1, NoHistory
<1> QED BY <1>2 DEF SqlHistory!Forget

(* SqlImplementsHistory: with SQLite, as long as no statement of an insertion
   fails, every step of the store is an insertion into the bounded history,
   forgets endpoints of it, or leaves it alone. *)
THEOREM SqlStoreImplementsHistory == SqlSpec => SqlImplementsHistory
<1>1. SqlInit => SqlHistory!HistoryInit
  <2> SUFFICES ASSUME SqlInit PROVE SqlHistory!HistoryInit
      OBVIOUS
  <2>1. \A e \in Endpoints : rows[e] = {} /\ eventRows[e] = {}
      BY DEF SqlInit
  <2>2. \A e \in Endpoints : ById(rows[e]) = <<>> /\ Types(e) = <<>>
      BY <2>1, NoHistory
  <2> QED BY <2>2 DEF SqlHistory!HistoryInit
<1>2. SqlInv /\ OneAtATime /\ EventsFollowResults /\ [SqlNext]_sqlVars =>
        [driver = "sqlite" /\ faulty' = {} =>
            SqlHistory!HistoryNext \/ UNCHANGED <<rows, eventRows>>]_<<rows, eventRows>>
  <2> SUFFICES ASSUME SqlInv, EventsFollowResults, [SqlNext]_sqlVars, driver = "sqlite", faulty' = {}
               PROVE  SqlHistory!HistoryNext \/ UNCHANGED <<rows, eventRows>>
      OBVIOUS
  <2>1. ASSUME NEW w \in Writers, WriterStep(w), ~Commit(w) PROVE UNCHANGED <<rows, eventRows>>
      BY <2>1, WriterStepEffects
  <2>2. ASSUME NEW w \in Writers, Commit(w) PROVE SqlHistory!HistoryNext
    <3>1. UNCHANGED faulty
        BY <2>2 DEF Commit
    <3>2. PICK e, x, allRows, allEvents :
            /\ e = tx[w].key /\ x = Inserted(w)
            /\ allRows = rows[e] \cup {x} /\ allEvents = eventRows[e] \cup tx[w].newEvents
        OBVIOUS
    <3>3. e \in Endpoints /\ \A d \in Endpoints : d # e => rows'[d] = rows[d] /\ eventRows'[d] = eventRows[d]
        BY <2>2, <3>2, CommitWrites DEF SqlInv, SqlShapes
    <3>4. TablesAfter(e, x, allRows, allEvents)
        BY <2>2, <3>1, <3>2, CommitAsMeant
    <3>5. SqlHistory!Insert(e)
        BY <3>3, <3>4, CommitInserts
    <3> QED BY <3>3, <3>5 DEF SqlHistory!HistoryNext
  <2>3. ASSUME NEW keys \in SUBSET Endpoints, DeleteRows(keys) PROVE SqlHistory!HistoryNext
      BY <2>3, DeletionForgetsRows DEF SqlHistory!HistoryNext
  <2>4. ASSUME NEW r \in Readers, NEW p \in Endpoints \X Sizes, NEW failed \in QueryFailures, ReadStatus(r, p, failed)
        PROVE  UNCHANGED <<rows, eventRows>>
      BY <2>4 DEF ReadStatus
  <2>5. ASSUME NEW r \in Readers, KeepStatus(r) PROVE UNCHANGED <<rows, eventRows>>
      BY <2>5 DEF KeepStatus
  <2>6. ASSUME NEW p \in Endpoints \X Sizes, Expire(p) PROVE UNCHANGED <<rows, eventRows>>
      BY <2>6 DEF Expire
  <2>7. WipeCache \/ UNCHANGED sqlVars => UNCHANGED <<rows, eventRows>>
      BY DEF WipeCache, sqlVars
  <2> QED BY <2>1, <2>2, <2>3, <2>4, <2>5, <2>6, <2>7 DEF SqlNext
<1>3. SqlInv /\ [SqlNext]_sqlVars => SqlInv'
    BY SqlStutters, SqlNextKeeps
<1> QED BY <1>1, <1>2, <1>3, SqlInitEstablishes, SqlInitIsTyped, SqlNextIsTyped, SerialInit, OneAtATimeKept,
    EventsKept, PTL DEF SqlSpec, SqlImplementsHistory
=============================================================================
