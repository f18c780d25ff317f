--------------------------- MODULE LifecycleProofs ---------------------------
(***************************************************************************)
(* The slots of the monitoring semaphores are accounted for, for every set *)
(* of endpoints, every concurrency and every number of reloads.            *)
(***************************************************************************)
EXTENDS Lifecycle, FiniteSetTheorems, SequenceTheorems, TLAPS

-----------------------------------------------------------------------------
(* Queues without repetition. *)

\* A goroutine that is put at the end of the queue is in it once.
LEMMA AppendToQueue ==
    ASSUME NEW S, NEW q \in Seq(S), NEW e \in S, IsInjective(q), e \notin ToSet(q)
    PROVE  /\ Append(q, e) \in Seq(S) /\ Append(q, e) # <<>>
           /\ IsInjective(Append(q, e))
           /\ ToSet(Append(q, e)) = ToSet(q) \cup {e}
<1> DEFINE a == Append(q, e)
<1>1. /\ a \in Seq(S) /\ a # <<>> /\ Len(a) = Len(q) + 1
      /\ \A i \in 1 .. Len(q) : a[i] = q[i]
      /\ a[Len(q) + 1] = e
    BY AppendProperties
<1>2. /\ Len(q) \in Nat
      /\ DOMAIN q = 1 .. Len(q) /\ DOMAIN a = 1 .. Len(q) + 1
    BY <1>1, LenProperties
<1>3. \A i \in DOMAIN q : q[i] # e
    BY DEF ToSet
<1> HIDE DEF a
<1>4. IsInjective(a)
    BY <1>1, <1>2, <1>3 DEF IsInjective
<1>5. ToSet(a) = ToSet(q) \cup {e}
    BY <1>1, <1>2 DEF ToSet
<1> QED BY <1>1, <1>4, <1>5 DEF a

\* The head of the queue is in it, and in the rest no more.
LEMMA TailOfQueue ==
    ASSUME NEW S, NEW q \in Seq(S), q # <<>>, IsInjective(q)
    PROVE  /\ Head(q) \in S /\ Head(q) \in ToSet(q)
           /\ Tail(q) \in Seq(S)
           /\ IsInjective(Tail(q))
           /\ ToSet(Tail(q)) = ToSet(q) \ {Head(q)}
<1> DEFINE t == Tail(q)
<1>1. /\ Head(q) \in S /\ t \in Seq(S) /\ Len(t) = Len(q) - 1
      /\ \A i \in 1 .. Len(t) : t[i] = q[i + 1]
    BY HeadTailProperties
<1>2. /\ Len(q) \in Nat \ {0} /\ Head(q) = q[1]
      /\ DOMAIN q = 1 .. Len(q) /\ DOMAIN t = 1 .. Len(q) - 1
    BY <1>1, LenProperties, EmptySeq
<1> HIDE DEF t
<1>3. IsInjective(t)
    BY SMTT(30), <1>1, <1>2 DEF IsInjective
<1>4. ToSet(t) \subseteq ToSet(q) \ {Head(q)}
    BY SMTT(30), <1>1, <1>2 DEF ToSet, IsInjective
<1>5. ASSUME NEW i \in DOMAIN q, q[i] # Head(q) PROVE q[i] \in ToSet(t)
  <2>1. i - 1 \in DOMAIN t /\ q[i] = t[i - 1]
      BY <1>1, <1>2, <1>5
  <2> QED BY <2>1 DEF ToSet
<1>6. ToSet(q) \ {Head(q)} \subseteq ToSet(t)
    BY <1>5 DEF ToSet
<1>7. Head(q) \in ToSet(q)
    BY <1>2 DEF ToSet
<1> QED BY <1>1, <1>3, <1>4, <1>6, <1>7 DEF t

\* What leaves the queue from the middle of it is in the rest no more.
LEMMA RemoveFromQueue ==
    ASSUME NEW S, NEW q \in Seq(S), IsInjective(q), NEW i \in DOMAIN q
    PROVE  /\ RemoveAt(q, i) \in Seq(S)
           /\ IsInjective(RemoveAt(q, i))
           /\ ToSet(RemoveAt(q, i)) = ToSet(q) \ {q[i]}
<1> DEFINE before == SubSeq(q, 1, i - 1)
           after == SubSeq(q, i + 1, Len(q))
           r == before \o after
<1>1. /\ Len(q) \in Nat /\ DOMAIN q = 1 .. Len(q) /\ i \in 1 .. Len(q)
      /\ \A j \in 1 .. Len(q) : q[j] \in S
    BY LenProperties, ElementOfSeq
<1>2. /\ before \in Seq(S) /\ Len(before) = i - 1
      /\ \A j \in 1 .. i - 1 : before[j] = q[j]
  <2>1. /\ before \in Seq(S) /\ Len(before) = IF 1 <= i - 1 THEN (i - 1) - 1 + 1 ELSE 0
        /\ \A j \in 1 .. (i - 1) - 1 + 1 : before[j] = q[1 + j - 1]
    <3>1. \A j \in 1 .. i - 1 : q[j] \in S  BY <1>1
    <3> QED BY <1>1, <3>1, SubSeqProperties
  <2>2. \A j \in 1 .. i - 1 : j \in 1 .. (i - 1) - 1 + 1 /\ 1 + j - 1 = j
      BY <1>1
  <2> HIDE DEF before
  <2> QED BY <1>1, <2>1, <2>2
<1>3. /\ after \in Seq(S) /\ Len(after) = Len(q) - i
      /\ \A j \in 1 .. Len(q) - i : after[j] = q[i + j]
  <2>1. /\ after \in Seq(S) /\ Len(after) = IF i + 1 <= Len(q) THEN Len(q) - (i + 1) + 1 ELSE 0
        /\ \A j \in 1 .. Len(q) - (i + 1) + 1 : after[j] = q[(i + 1) + j - 1]
    <3>1. \A j \in i + 1 .. Len(q) : q[j] \in S  BY <1>1
    <3> QED BY <1>1, <3>1, SubSeqProperties
  <2>2. \A j \in 1 .. Len(q) - i : j \in 1 .. Len(q) - (i + 1) + 1 /\ (i + 1) + j - 1 = i + j
      BY <1>1
  <2> HIDE DEF after
  <2> QED BY <1>1, <2>1, <2>2
<1> HIDE DEF before, after
<1>4. /\ r \in Seq(S) /\ Len(r) = Len(q) - 1
      /\ \A j \in 1 .. Len(q) - 1 : r[j] = IF j < i THEN q[j] ELSE q[j + 1]
  <2>1. /\ r \in Seq(S) /\ Len(r) = Len(before) + Len(after)
        /\ \A j \in 1 .. Len(before) + Len(after) :
              r[j] = IF j <= Len(before) THEN before[j] ELSE after[j - Len(before)]
      BY <1>2, <1>3, ConcatProperties
  <2>2. ASSUME NEW j \in 1 .. Len(q) - 1
        PROVE  r[j] = IF j < i THEN q[j] ELSE q[j + 1]
    <3>1. j \in 1 .. Len(before) + Len(after) /\ (j <= Len(before) <=> j < i)
        BY <1>1, <1>2, <1>3
    <3>2. CASE j < i
        BY <1>1, <1>2, <2>1, <3>1, <3>2
    <3>3. CASE ~(j < i)
      <4>1. j - Len(before) \in 1 .. Len(q) - i /\ i + (j - Len(before)) = j + 1
          BY <1>1, <1>2, <3>3
      <4> QED BY <1>3, <2>1, <3>1, <3>3, <4>1
    <3> QED BY <3>2, <3>3
  <2>3. Len(before) + Len(after) = Len(q) - 1
      BY <1>1, <1>2, <1>3
  <2> QED BY <2>1, <2>2, <2>3
<1>5. RemoveAt(q, i) = r
    BY DEF RemoveAt, before, after
<1> HIDE DEF r
<1>6. DOMAIN r = 1 .. Len(q) - 1
    BY <1>4, LenProperties
<1>7. IsInjective(r)
    BY SMTT(30), <1>1, <1>4, <1>6 DEF IsInjective
<1>8. ToSet(r) \subseteq ToSet(q) \ {q[i]}
    BY SMTT(30), <1>1, <1>4, <1>6 DEF ToSet, IsInjective
<1>9. ASSUME NEW j \in DOMAIN q, q[j] # q[i] PROVE q[j] \in ToSet(r)
  <2>1. CASE j < i
      BY <1>1, <1>4, <1>6, <2>1 DEF ToSet
  <2>2. CASE j > i
    <3>1. j - 1 \in DOMAIN r /\ r[j - 1] = q[j]
        BY <1>1, <1>4, <1>6, <2>2
    <3> QED BY <3>1 DEF ToSet
  <2> QED BY <1>1, <1>9, <2>1, <2>2
<1>10. ToSet(q) \ {q[i]} \subseteq ToSet(r)
    BY <1>9 DEF ToSet
<1> QED BY <1>4, <1>5, <1>7, <1>8, <1>10
-----------------------------------------------------------------------------
(* The inductive invariant. *)

\* The account of one semaphore.
SlotsOf(s) ==
    /\ s \notin mixed => IsFiniteSet(Holders(s)) /\ inUse[s] = Cardinality(Holders(s))
    /\ waiters[s] # <<>> => inUse[s] = Concurrency
    /\ IsInjective(waiters[s])
    /\ ToSet(waiters[s]) = Queued(s)

Slots == \A s \in Generations : SlotsOf(s)

\* What the semaphore in use counts will be given back.
NoSlotIsLost ==
    /\ IsFiniteSet(Releasing(semaphore))
    /\ inUse[semaphore] <= Cardinality(Releasing(semaphore))

\* A goroutine knows no semaphore that Monitor has not made, and two semaphores
\* that one goroutine acquired and deferred are remembered.
IsSound(p) ==
    /\ heldSemaphore[p] <= semaphore /\ deferred[p] <= semaphore
    /\ HasDeferred(p) /\ deferred[p] # heldSemaphore[p] =>
            deferred[p] \in mixed /\ heldSemaphore[p] \in mixed

HeldAreKnown ==
    /\ \A p \in Goroutines : IsSound(p)
    /\ \A s \in mixed : s <= semaphore

\* A generation that Monitor has not reached has no goroutines, and its semaphore
\* is the last one made: a goroutine that is started was not there before.
ReloadsAreOrdered ==
    /\ semaphore <= generation
    /\ generation <= modifications
    /\ listener = "stopped" => generation < modifications
    /\ listener \in {"loaded", "monitoring"} =>
            semaphore < generation /\ \A p \in Goroutines : p[1] = generation => state[p] = "absent"
    /\ \A p \in Goroutines : p[1] > generation => state[p] = "absent"
    /\ listener = "starting" => \A e \in toStart : state[<<generation, e>>] = "absent"

IInv == TypeOK /\ Slots /\ NoSlotIsLost /\ HeldAreKnown /\ ReloadsAreOrdered

DeferredStates == {"running", "hanging", "stored"}
HoldingStates == {"granted", "acquired", "running", "hanging", "stored"}
States == {"absent", "due", "calling", "queued", "granted", "acquired",
           "running", "hanging", "stored", "selecting", "ended"}

-----------------------------------------------------------------------------
(* What the steps do to the account. *)

\* The account of a semaphore whose goroutines and queue stay the same is kept.
LEMMA SameAccount ==
    ASSUME NEW s \in Generations, SlotsOf(s), s \in mixed => s \in mixed',
           s \notin mixed => Holders(s)' = Holders(s),
           Queued(s)' = Queued(s), inUse'[s] = inUse[s], waiters'[s] = waiters[s]
    PROVE  SlotsOf(s)'
  BY DEF SlotsOf

\* Only p changes what it knows, and it still knows what it holds or waits for.
OnlyKnows(p) ==
    /\ heldSemaphore' \in [Goroutines -> Generations]
    /\ \A q \in Goroutines \ {p} : heldSemaphore'[q] = heldSemaphore[q] /\ deferred'[q] = deferred[q]
    /\ Holding(p) \/ state[p] = "queued" => heldSemaphore'[p] = heldSemaphore[p]
    /\ \A s \in mixed : s \in mixed'

\* A goroutine that goes on without touching a semaphore keeps every account.
LEMMA StepKeepsSlots ==
    ASSUME TypeOK, Slots, NEW p \in Goroutines, NEW next \in States,
           Holding(p) <=> next \in HoldingStates,
           state[p] = "queued" <=> next = "queued",
           state' = [state EXCEPT ![p] = next],
           OnlyKnows(p), UNCHANGED <<inUse, waiters>>
    PROVE  Slots'
<1> SUFFICES ASSUME NEW s \in Generations PROVE SlotsOf(s)'
    BY DEF Slots
<1>1. state \in [Goroutines -> States] /\ heldSemaphore \in [Goroutines -> Generations]
    BY DEF TypeOK, States
<1>2. \A q \in Goroutines : /\ Holding(q)' <=> Holding(q)
                            /\ state'[q] = "queued" <=> state[q] = "queued"
                            /\ Holding(q) \/ state[q] = "queued" => heldSemaphore'[q] = heldSemaphore[q]
    BY <1>1 DEF Holding, HasDeferred, HoldingStates, OnlyKnows
<1>3. Holders(s)' = Holders(s) /\ Queued(s)' = Queued(s)
    BY <1>2 DEF Holders, Queued
<1> QED BY <1>3, SameAccount DEF Slots, OnlyKnows

\* ... and gives back in the end what it would have given back.
LEMMA StepKeepsReleasing ==
    ASSUME TypeOK, NoSlotIsLost, NEW p \in Goroutines, NEW next \in States,
           Holding(p) <=> next \in HoldingStates,
           HasDeferred(p) <=> next \in DeferredStates,
           state' = [state EXCEPT ![p] = next],
           OnlyKnows(p), Holding(p) => deferred'[p] = deferred[p], UNCHANGED <<inUse, semaphore>>
    PROVE  NoSlotIsLost'
<1>1. state \in [Goroutines -> States]
    BY DEF TypeOK, States
<1>2. \A q \in Goroutines : /\ Holding(q)' <=> Holding(q)
                            /\ HasDeferred(q)' <=> HasDeferred(q)
                            /\ Holding(q) => heldSemaphore'[q] = heldSemaphore[q] /\ deferred'[q] = deferred[q]
    BY <1>1 DEF Holding, HasDeferred, HoldingStates, DeferredStates, OnlyKnows
<1>3. Releasing(semaphore)' = Releasing(semaphore)
    BY <1>2 DEF Releasing
<1> QED BY <1>3 DEF NoSlotIsLost

\* What the others know stays known.
LEMMA StepKeepsKnown ==
    ASSUME TypeOK, HeldAreKnown, NEW p \in Goroutines, OnlyKnows(p), UNCHANGED semaphore,
           \A q \in Goroutines \ {p} : HasDeferred(q)' => HasDeferred(q),
           IsSound(p)', \A s \in mixed' : s <= semaphore
    PROVE  HeldAreKnown'
<1>1. ASSUME NEW q \in Goroutines, q # p PROVE IsSound(q)'
    BY <1>1 DEF HeldAreKnown, IsSound, OnlyKnows
<1> QED BY <1>1 DEF HeldAreKnown

\* The order of the reloads does not depend on what goroutines that exist do.
LEMMA OrderIsKept ==
    ASSUME TypeOK, ReloadsAreOrdered, UNCHANGED <<listenerVars, globalVars, toStart>>,
           \A q \in Goroutines : state[q] = "absent" => state'[q] = "absent"
    PROVE  ReloadsAreOrdered'
<1>1. \A q \in Goroutines : (q[1] > generation => state'[q] = "absent")
    BY DEF ReloadsAreOrdered
<1>2. listener \in {"loaded", "monitoring"} => \A q \in Goroutines : q[1] = generation => state'[q] = "absent"
    BY DEF ReloadsAreOrdered
<1>3. listener = "starting" => \A e \in toStart : state'[<<generation, e>>] = "absent"
    BY DEF ReloadsAreOrdered, TypeOK, Goroutines
<1> QED BY <1>1, <1>2, <1>3 DEF ReloadsAreOrdered, listenerVars, cfgVars, globalVars

\* A goroutine that goes on, and touches no semaphore, keeps the invariant.
LEMMA StepKeepsIInv ==
    ASSUME IInv, NEW p \in Goroutines, NEW next \in States,
           Holding(p) <=> next \in HoldingStates,
           HasDeferred(p) <=> next \in DeferredStates,
           state[p] = "queued" <=> next = "queued",
           state[p] # "absent", state' = [state EXCEPT ![p] = next],
           OnlyKnows(p), Holding(p) => deferred'[p] = deferred[p],
           UNCHANGED <<listenerVars, globalVars, toStart, inUse, waiters, mixed>>,
           heldCtx' \in [Goroutines -> Generations], deferred' \in [Goroutines -> Generations],
           heldSemaphore'[p] <= semaphore, deferred'[p] <= semaphore
    PROVE  IInv'
<1> USE DEF listenerVars, cfgVars, globalVars
<1>1. TypeOK'
    BY DEF IInv, TypeOK, States, OnlyKnows
<1>2. Slots'
    BY StepKeepsSlots DEF IInv
<1>3. NoSlotIsLost'
    BY StepKeepsReleasing DEF IInv
<1>4. HeldAreKnown'
  <2>0. state \in [Goroutines -> States]
      BY DEF IInv, TypeOK, States
  <2>1. \A q \in Goroutines : HasDeferred(q)' => HasDeferred(q)
      BY <2>0 DEF HasDeferred, DeferredStates
  <2>2. HasDeferred(p) => heldSemaphore'[p] = heldSemaphore[p] /\ deferred'[p] = deferred[p]
      BY DEF Holding, OnlyKnows
  <2>3. IsSound(p)
      BY DEF IInv, HeldAreKnown
  <2>4. IsSound(p)'
      BY <2>1, <2>2, <2>3 DEF IsSound
  <2>5. \A s \in mixed' : s <= semaphore
      BY DEF IInv, HeldAreKnown
  <2> QED BY <2>1, <2>4, <2>5, StepKeepsKnown DEF IInv
<1>5. ReloadsAreOrdered'
  <2>1. \A q \in Goroutines : state[q] = "absent" => state'[q] = "absent"
      BY DEF IInv, TypeOK
  <2> QED BY <2>1, OrderIsKept DEF IInv
<1> QED BY <1>1, <1>2, <1>3, <1>4, <1>5 DEF IInv

\* Acquire takes a free slot or queues, and neither happens while the other could.
LEMMA AcquireKeepsSlots ==
    ASSUME IInv, NEW p \in Goroutines, Acquire(p)
    PROVE  /\ Slots' /\ NoSlotIsLost'
           /\ inUse' \in [Generations -> 0 .. Concurrency]
           /\ waiters' \in [Generations -> Seq(Goroutines)]
<1>0. PICK a \in Generations : a = heldSemaphore[p]
    BY DEF IInv, TypeOK
<1>1. /\ a \in Generations /\ state[p] = "calling" /\ Concurrency \in Nat \ {0}
      /\ state \in [Goroutines -> States] /\ heldSemaphore \in [Goroutines -> Generations]
      /\ inUse \in [Generations -> 0 .. Concurrency] /\ waiters \in [Generations -> Seq(Goroutines)]
      /\ UNCHANGED <<heldSemaphore, deferred, mixed, semaphore>> /\ heldSemaphore[p] = a
      /\ semaphore \in Generations
    BY <1>0, LifecycleAssumption DEF IInv, TypeOK, Acquire, States, globalVars
<1>r. IsFiniteSet(Releasing(semaphore)) /\ inUse[semaphore] <= Cardinality(Releasing(semaphore))
    BY DEF IInv, NoSlotIsLost
<1>2. CASE SlotIsFree(a)
  <2>1. /\ inUse' = [inUse EXCEPT ![a] = @ + 1] /\ UNCHANGED waiters
        /\ state' = [state EXCEPT ![p] = "acquired"] /\ inUse[a] < Concurrency /\ waiters[a] = <<>>
      BY <1>0, <1>2 DEF Acquire, SlotIsFree
  <2>2. \A s \in Generations : Queued(s)' = Queued(s)
      BY <1>1, <2>1 DEF Queued
  <2>3. \A s \in Generations \ {a} : Holders(s)' = Holders(s)
      BY <1>1, <2>1 DEF Holders, Holding, HasDeferred
  <2>4. Holders(a)' = Holders(a) \cup {p} /\ p \notin Holders(a)
      BY <1>1, <2>1 DEF Holders, Holding, HasDeferred
  <2>5. SlotsOf(a)
      BY <1>1 DEF IInv, Slots
  <2>6. a \notin mixed => IsFiniteSet(Holders(a)') /\ Cardinality(Holders(a)') = inUse[a] + 1
      BY <2>4, <2>5, FS_AddElement DEF SlotsOf
  <2>7. SlotsOf(a)'
      BY <1>1, <2>1, <2>2, <2>5, <2>6 DEF SlotsOf
  <2>8. \A s \in Generations \ {a} : SlotsOf(s)'
      BY <1>1, <2>1, <2>2, <2>3, SameAccount DEF IInv, Slots
  <2>9. NoSlotIsLost'
    <3>1. CASE a = semaphore
      <4>1. Releasing(semaphore)' = Releasing(semaphore) \cup {p} /\ p \notin Releasing(semaphore)
          BY <1>1, <2>1, <3>1 DEF Releasing, Holding, HasDeferred
      <4>2. /\ IsFiniteSet(Releasing(semaphore)')
            /\ Cardinality(Releasing(semaphore)') = Cardinality(Releasing(semaphore)) + 1
            /\ Cardinality(Releasing(semaphore)) \in Nat
          BY <1>r, <4>1, FS_AddElement, FS_CardinalityType
      <4> QED BY <1>r, <1>1, <2>1, <3>1, <4>2 DEF NoSlotIsLost
    <3>2. CASE a # semaphore
      <4>1. Releasing(semaphore)' = Releasing(semaphore)
          BY <1>1, <2>1, <3>2 DEF Releasing, Holding, HasDeferred
      <4> QED BY <1>r, <1>1, <2>1, <3>2, <4>1 DEF NoSlotIsLost
    <3> QED BY <3>1, <3>2
  <2> QED BY <1>1, <2>1, <2>7, <2>8, <2>9 DEF Slots
<1>3. CASE ~SlotIsFree(a)
  <2>1. /\ waiters' = [waiters EXCEPT ![a] = Append(@, p)] /\ UNCHANGED inUse
        /\ state' = [state EXCEPT ![p] = "queued"]
        /\ inUse[a] >= Concurrency \/ waiters[a] # <<>>
      BY <1>0, <1>1, <1>3 DEF Acquire, SlotIsFree
  <2>2. \A s \in Generations : Holders(s)' = Holders(s)
      BY <1>1, <2>1 DEF Holders, Holding, HasDeferred
  <2>3. \A s \in Generations \ {a} : Queued(s)' = Queued(s)
      BY <1>1, <2>1 DEF Queued
  <2>4. Queued(a)' = Queued(a) \cup {p} /\ p \notin Queued(a)
      BY <1>1, <2>1 DEF Queued
  <2>5. SlotsOf(a) /\ waiters[a] \in Seq(Goroutines)
      BY <1>1 DEF IInv, Slots
  <2>6. /\ Append(waiters[a], p) \in Seq(Goroutines)
        /\ IsInjective(Append(waiters[a], p))
        /\ ToSet(Append(waiters[a], p)) = ToSet(waiters[a]) \cup {p}
      BY <2>4, <2>5, AppendToQueue DEF SlotsOf
  <2>7. inUse[a] = Concurrency
      BY <1>1, <2>1, <2>5 DEF SlotsOf
  <2>8. waiters'[a] = Append(waiters[a], p)
      BY <1>1, <2>1
  <2>9. SlotsOf(a)'
      BY <2>1, <2>2, <2>4, <2>5, <2>6, <2>7, <2>8, <1>1 DEF SlotsOf
  <2>10. \A s \in Generations \ {a} : SlotsOf(s)'
      BY <1>1, <2>1, <2>2, <2>3, SameAccount DEF IInv, Slots
  <2>11. NoSlotIsLost'
    <3>1. Releasing(semaphore)' = Releasing(semaphore)
        BY <1>1, <2>1 DEF Releasing, Holding, HasDeferred
    <3> QED BY <1>r, <1>1, <2>1, <3>1 DEF NoSlotIsLost
  <2> QED BY <1>1, <2>1, <2>6, <2>9, <2>10, <2>11 DEF Slots
<1> QED BY <1>2, <1>3

\* The semaphore that is released is the one that was acquired, or both of them
\* are remembered.
Gives(p, a) ==
    /\ Holding(p)
    /\ a = IF HasDeferred(p) THEN deferred[p] ELSE heldSemaphore[p]

LEMMA GivesBackWhatItHolds ==
    ASSUME IInv, NEW p \in Goroutines, NEW a \in Generations, Gives(p, a),
           NEW s \in Generations, s \notin mixed
    PROVE  p \in Holders(s) <=> s = a
<1>1. IsSound(p)
    BY DEF IInv, HeldAreKnown
<1> QED BY <1>1 DEF IsSound, Gives, Holders

\* What is left of p once it has returned.
Left(p, s) ==
    /\ state' = AfterRelease(s, p)
    /\ Forgets(p)

\* Release hands the slot on to the head of the queue, or frees it.
LEMMA ReleaseKeepsSlots ==
    ASSUME IInv, NEW p \in Goroutines, NEW a \in Generations, Gives(p, a),
           inUse[a] # 0, GiveBack(a), Left(p, a), UNCHANGED semaphore
    PROVE  /\ Slots' /\ NoSlotIsLost'
           /\ inUse' \in [Generations -> 0 .. Concurrency]
           /\ waiters' \in [Generations -> Seq(Goroutines)]
           /\ state' \in [Goroutines -> States]
           /\ \A q \in Goroutines : state[q] = "absent" => state'[q] = "absent"
           /\ \A q \in Goroutines : HasDeferred(q)' => HasDeferred(q) /\ q # p
<1>1. /\ state[p] \in HoldingStates /\ Concurrency \in Nat \ {0}
      /\ state \in [Goroutines -> States] /\ heldSemaphore \in [Goroutines -> Generations]
      /\ deferred \in [Goroutines -> Generations] /\ semaphore \in Generations
      /\ inUse \in [Generations -> 0 .. Concurrency] /\ waiters \in [Generations -> Seq(Goroutines)]
      /\ UNCHANGED mixed
      /\ \A q \in Goroutines \ {p} : heldSemaphore'[q] = heldSemaphore[q] /\ deferred'[q] = deferred[q]
      /\ state' = AfterRelease(a, p)
    BY LifecycleAssumption
       DEF IInv, TypeOK, Gives, Holding, HasDeferred, HoldingStates, States, Left, Forgets
<1>2. SlotsOf(a)
    BY <1>1 DEF IInv, Slots
<1>3. \A s \in Generations \ mixed : p \in Holders(s) <=> s = a
    BY GivesBackWhatItHolds
<1>4. p \in Releasing(semaphore) <=> semaphore = a
    BY DEF Gives, Releasing
<1>r. IsFiniteSet(Releasing(semaphore)) /\ inUse[semaphore] <= Cardinality(Releasing(semaphore))
    BY DEF IInv, NoSlotIsLost
<1>5. CASE waiters[a] = <<>>
  <2>1. inUse' = [inUse EXCEPT ![a] = @ - 1] /\ UNCHANGED waiters
      BY <1>1, <1>5 DEF GiveBack
  <2>2. state' = [state EXCEPT ![p] = "selecting"]
      BY <1>1, <1>5 DEF AfterRelease
  <2>3. \A s \in Generations : Queued(s)' = Queued(s)
      BY <1>1, <2>2 DEF Queued, HoldingStates
  <2>4. \A s \in Generations : Holders(s)' = Holders(s) \ {p}
      BY <1>1, <2>2 DEF Holders, Holding, HasDeferred
  <2>5. a \notin mixed => IsFiniteSet(Holders(a)') /\ Cardinality(Holders(a)') = inUse[a] - 1
      BY <1>2, <1>3, <2>4, FS_RemoveElement DEF SlotsOf
  <2>6. inUse[a] - 1 \in 0 .. Concurrency
      BY SMTT(60), <1>1
  <2>7. SlotsOf(a)'
      BY <1>1, <1>2, <1>5, <2>1, <2>3, <2>5 DEF SlotsOf
  <2>8. \A s \in Generations \ {a} : s \notin mixed => Holders(s)' = Holders(s)
      BY <1>3, <2>4
  <2>9. \A s \in Generations \ {a} : SlotsOf(s)'
      BY <1>1, <2>1, <2>3, <2>8, SameAccount DEF IInv, Slots
  <2>10. inUse' \in [Generations -> 0 .. Concurrency] /\ waiters' \in [Generations -> Seq(Goroutines)]
      BY <1>1, <2>1, <2>6
  <2>11. state' \in [Goroutines -> States] /\ \A q \in Goroutines : state[q] = "absent" => state'[q] = "absent"
      BY <1>1, <2>2 DEF States, HoldingStates
  <2>12. NoSlotIsLost'
    <3>1. Releasing(semaphore)' = Releasing(semaphore) \ {p}
        BY <1>1, <2>2 DEF Releasing, Holding, HasDeferred
    <3>2. CASE semaphore = a
      <4>1. /\ IsFiniteSet(Releasing(semaphore)')
            /\ Cardinality(Releasing(semaphore)') = Cardinality(Releasing(semaphore)) - 1
            /\ Cardinality(Releasing(semaphore)) \in Nat
          BY <1>r, <1>4, <3>1, <3>2, FS_RemoveElement, FS_CardinalityType
      <4> QED BY <1>1, <1>r, <2>1, <3>2, <4>1 DEF NoSlotIsLost
    <3>3. CASE semaphore # a
      <4>1. Releasing(semaphore)' = Releasing(semaphore)
          BY <1>4, <3>1, <3>3
      <4> QED BY <1>1, <1>r, <2>1, <3>3, <4>1 DEF NoSlotIsLost
    <3> QED BY <3>2, <3>3
  <2>13. \A q \in Goroutines : HasDeferred(q)' => HasDeferred(q) /\ q # p
      BY <1>1, <2>2 DEF HasDeferred
  <2> QED BY <2>7, <2>9, <2>10, <2>11, <2>12, <2>13 DEF Slots
<1>6. CASE waiters[a] # <<>>
  <2>0. PICK h \in Goroutines : h = Head(waiters[a])
      BY <1>1, <1>2, <1>6, TailOfQueue DEF SlotsOf
  <2>1. waiters' = [waiters EXCEPT ![a] = Tail(@)] /\ UNCHANGED inUse
      BY <1>1, <1>6 DEF GiveBack
  <2>2. /\ h \in Goroutines /\ h \in Queued(a) /\ Tail(waiters[a]) \in Seq(Goroutines)
        /\ IsInjective(Tail(waiters[a])) /\ ToSet(Tail(waiters[a])) = Queued(a) \ {h}
    <3>1. /\ waiters[a] \in Seq(Goroutines) /\ IsInjective(waiters[a])
          /\ ToSet(waiters[a]) = Queued(a)
        BY <1>1, <1>2 DEF SlotsOf
    <3> QED BY <1>6, <2>0, <3>1, TailOfQueue
  <2>3. /\ state' = [q \in Goroutines |-> IF q = p THEN "selecting"
                                          ELSE IF q = h THEN "granted" ELSE state[q]]
        /\ h # p /\ state[h] = "queued" /\ heldSemaphore[h] = a /\ heldSemaphore'[h] = a
      BY <1>1, <1>6, <2>0, <2>2 DEF AfterRelease, Queued, HoldingStates
  <2>4. Queued(a)' = Queued(a) \ {h}
      BY <1>1, <2>2, <2>3 DEF Queued, HoldingStates
  <2>5. \A s \in Generations \ {a} : Queued(s)' = Queued(s)
    <3>1. ASSUME NEW s \in Generations \ {a}, NEW q \in Goroutines
          PROVE  q \in Queued(s)' <=> q \in Queued(s)
      <4>1. CASE q = p
          BY <1>1, <2>3, <4>1 DEF Queued, HoldingStates
      <4>2. CASE q # p
          BY <1>1, <2>3, <4>2 DEF Queued
      <4> QED BY <4>1, <4>2
    <3> QED BY <3>1 DEF Queued
  <2>6. \A s \in Generations \ {a} : Holders(s)' = Holders(s) \ {p}
      BY SMTT(60), <1>1, <2>2, <2>3 DEF Holders, Holding, HasDeferred
  <2>7. Holders(a)' = (Holders(a) \ {p}) \cup {h} /\ h \notin Holders(a) \ {p}
      BY <1>1, <2>2, <2>3 DEF Holders, Holding, HasDeferred
  <2>8. a \notin mixed => IsFiniteSet(Holders(a) \ {p}) /\ Cardinality(Holders(a) \ {p}) = inUse[a] - 1
      BY <1>2, <1>3, FS_RemoveElement DEF SlotsOf
  <2>9. a \notin mixed => IsFiniteSet(Holders(a)') /\ Cardinality(Holders(a)') = (inUse[a] - 1) + 1
      BY SMTT(30), <2>7, <2>8, FS_AddElement
  <2>10. waiters'[a] = Tail(waiters[a]) /\ inUse'[a] = inUse[a] /\ (inUse[a] - 1) + 1 = inUse[a]
      BY <1>1, <2>1
  <2>11. SlotsOf(a)'
      BY <1>1, <1>2, <1>6, <2>2, <2>4, <2>9, <2>10 DEF SlotsOf
  <2>12. \A s \in Generations \ {a} : s \notin mixed => Holders(s)' = Holders(s)
      BY <1>3, <2>6
  <2>13. \A s \in Generations \ {a} : SlotsOf(s)'
      BY <1>1, <2>1, <2>5, <2>12, SameAccount DEF IInv, Slots
  <2>14. \A q \in Goroutines : state[q] = "absent" => state'[q] = "absent"
      BY <1>1, <2>3 DEF HoldingStates
  <2>15. NoSlotIsLost'
    <3>1. CASE semaphore = a
      <4>1. /\ Releasing(semaphore)' = (Releasing(semaphore) \ {p}) \cup {h}
            /\ h \notin Releasing(semaphore) \ {p}
          BY <1>1, <2>2, <2>3, <3>1 DEF Releasing, Holding, HasDeferred
      <4>2. /\ IsFiniteSet(Releasing(semaphore) \ {p})
            /\ Cardinality(Releasing(semaphore) \ {p}) = Cardinality(Releasing(semaphore)) - 1
            /\ Cardinality(Releasing(semaphore)) \in Nat
          BY <1>r, <1>4, <3>1, FS_RemoveElement, FS_CardinalityType
      <4>3. /\ IsFiniteSet(Releasing(semaphore)')
            /\ Cardinality(Releasing(semaphore)') = Cardinality(Releasing(semaphore) \ {p}) + 1
        <5> DEFINE R == Releasing(semaphore) \ {p}
        <5>1. IsFiniteSet(R) /\ h \notin R
            BY <4>1, <4>2
        <5> HIDE DEF R
        <5>2. IsFiniteSet(R \cup {h}) /\ Cardinality(R \cup {h}) = Cardinality(R) + 1
            BY <5>1, FS_AddElement
        <5>3. Releasing(semaphore)' = R \cup {h}
            BY <4>1 DEF R
        <5> QED BY <5>2, <5>3 DEF R
      <4>4. Cardinality(Releasing(semaphore)') = Cardinality(Releasing(semaphore))
          BY <4>2, <4>3
      <4> QED BY <1>1, <1>r, <2>1, <4>3, <4>4 DEF NoSlotIsLost
    <3>2. CASE semaphore # a
      <4>1. Releasing(semaphore)' = Releasing(semaphore)
          BY <1>1, <1>4, <2>2, <2>3, <3>2 DEF Releasing, Holding, HasDeferred
      <4> QED BY <1>1, <1>r, <2>1, <4>1 DEF NoSlotIsLost
    <3> QED BY <3>1, <3>2
  <2>16. \A q \in Goroutines : HasDeferred(q)' => HasDeferred(q) /\ q # p
      BY <1>1, <2>3 DEF HasDeferred
  <2>17. /\ inUse' \in [Generations -> 0 .. Concurrency]
         /\ waiters' \in [Generations -> Seq(Goroutines)]
      BY <1>1, <2>1, <2>2
  <2>18. state' \in [Goroutines -> States]
      BY <1>1, <2>3 DEF States
  <2> QED BY <2>11, <2>13, <2>14, <2>15, <2>16, <2>17, <2>18 DEF Slots
<1> QED BY <1>5, <1>6

\* A cancelled goroutine leaves the queue and takes nothing along.
LEMMA LeaveQueueKeepsSlots ==
    ASSUME IInv, NEW p \in Goroutines, LeaveQueue(p)
    PROVE  Slots' /\ NoSlotIsLost' /\ waiters' \in [Generations -> Seq(Goroutines)]
<1>0. PICK a \in Generations : a = heldSemaphore[p]
    BY DEF IInv, TypeOK
<1>1. /\ a \in Generations /\ state[p] = "queued"
      /\ state \in [Goroutines -> States] /\ heldSemaphore \in [Goroutines -> Generations]
      /\ deferred \in [Goroutines -> Generations]
      /\ inUse \in [Generations -> 0 .. Concurrency] /\ waiters \in [Generations -> Seq(Goroutines)]
      /\ UNCHANGED <<inUse, mixed, semaphore>> /\ heldSemaphore[p] = a
      /\ heldSemaphore' = [heldSemaphore EXCEPT ![p] = 0] /\ deferred' = [deferred EXCEPT ![p] = 0]
      /\ state' = [state EXCEPT ![p] = "selecting"]
    BY <1>0 DEF IInv, TypeOK, States, LeaveQueue, Forgets, globalVars
<1>2. PICK i \in DOMAIN waiters[a] :
        /\ waiters[a][i] = p
        /\ waiters' = [waiters EXCEPT ![a] = RemoveAt(@, i)]
    BY <1>0 DEF LeaveQueue
<1>3. SlotsOf(a)
    BY <1>1 DEF IInv, Slots
<1>4. /\ RemoveAt(waiters[a], i) \in Seq(Goroutines)
      /\ IsInjective(RemoveAt(waiters[a], i))
      /\ ToSet(RemoveAt(waiters[a], i)) = Queued(a) \ {p}
    BY <1>1, <1>2, <1>3, RemoveFromQueue DEF SlotsOf
<1>5. \A s \in Generations : Holders(s)' = Holders(s)
    BY <1>1 DEF Holders, Holding, HasDeferred
<1>6. Queued(a)' = Queued(a) \ {p} /\ \A s \in Generations \ {a} : Queued(s)' = Queued(s)
    BY <1>1 DEF Queued
<1>7. waiters'[a] = RemoveAt(waiters[a], i) /\ waiters[a] # <<>>
    BY <1>1, <1>2
<1>8. SlotsOf(a)'
    BY <1>1, <1>3, <1>4, <1>5, <1>6, <1>7 DEF SlotsOf
<1>9. \A s \in Generations \ {a} : SlotsOf(s)'
    BY <1>1, <1>2, <1>5, <1>6, SameAccount DEF IInv, Slots
<1>10. Releasing(semaphore)' = Releasing(semaphore)
    BY <1>1 DEF Releasing, Holding, HasDeferred
<1>11. NoSlotIsLost'
    BY <1>1, <1>10 DEF IInv, NoSlotIsLost
<1> QED BY <1>1, <1>2, <1>4, <1>8, <1>9, <1>11 DEF Slots

-----------------------------------------------------------------------------
(* The theorems. *)

\* Nobody waits in an empty queue.
LEMMA EmptyQueue == <<>> \in Seq(Goroutines) /\ IsInjective(<<>>) /\ ToSet(<<>>) = {}
<1>1. <<>> \in Seq(Goroutines) /\ DOMAIN <<>> = {}
    BY EmptySeq
<1> QED BY <1>1 DEF IsInjective, ToSet

\* At the start nobody holds or waits for a slot.
LEMMA InitEstablishesIInv == Init => IInv
<1> SUFFICES ASSUME Init PROVE IInv
    OBVIOUS
<1>1. /\ 0 \in Generations /\ MaxReloads \in Nat /\ Concurrency \in Nat \ {0}
      /\ FirstEndpoints \subseteq Endpoints
    BY LifecycleAssumption DEF Generations
<1>2. <<>> \in Seq(Goroutines)
    BY EmptySeq
<1>3. TypeOK
    BY <1>1, <1>2 DEF Init, InitWith, TypeOK
<1>4. Slots /\ NoSlotIsLost
  <2>1. ASSUME NEW s \in Generations PROVE SlotsOf(s)
    <3>1. Holders(s) = {} /\ Queued(s) = {} /\ inUse[s] = 0 /\ waiters[s] = <<>>
        BY DEF Init, InitWith, Holders, Queued, Holding, HasDeferred
    <3> QED BY <3>1, EmptyQueue, FS_EmptySet DEF SlotsOf
  <2>2. Releasing(semaphore) = {} /\ inUse[semaphore] = 0
      BY <1>1 DEF Init, InitWith, Releasing, Holding, HasDeferred
  <2> QED BY <2>1, <2>2, FS_EmptySet DEF Slots, NoSlotIsLost
<1>5. ReloadsAreOrdered
    BY <1>1 DEF Init, InitWith, ReloadsAreOrdered, Goroutines, Generations
<1>6. HeldAreKnown
    BY <1>1 DEF Init, InitWith, HeldAreKnown, IsSound, HasDeferred
<1> QED BY <1>3, <1>4, <1>5, <1>6 DEF IInv

\* A process that has died keeps nothing.
LEMMA DiesKeepsIInv == IInv /\ Dies => IInv'
<1> SUFFICES ASSUME IInv, Dies PROVE IInv'
    OBVIOUS
<1> USE DEF cfgVars, globalVars, heldVars
<1>1. <<>> \in Seq(Goroutines) /\ 0 \in 0 .. Concurrency
    BY EmptySeq, LifecycleAssumption
<1>2. TypeOK'
    BY <1>1 DEF IInv, Dies, TypeOK
<1>3. \A p \in Goroutines : state'[p] = "absent"
    BY DEF Dies
<1>4. Slots' /\ NoSlotIsLost'
  <2>1. ASSUME NEW s \in Generations PROVE SlotsOf(s)'
    <3>1. Holders(s)' = {} /\ Queued(s)' = {} /\ inUse'[s] = 0 /\ waiters'[s] = <<>>
        BY DEF Dies, Holders, Queued, Holding, HasDeferred
    <3> QED BY <3>1, EmptyQueue, FS_EmptySet DEF SlotsOf
  <2>2. Releasing(semaphore)' = {} /\ inUse'[semaphore'] = 0
      BY <1>3 DEF Dies, IInv, TypeOK, Releasing, Holding, HasDeferred
  <2> QED BY <2>1, <2>2, FS_EmptySet DEF Slots, NoSlotIsLost
<1>5. ReloadsAreOrdered'
    BY <1>3 DEF IInv, Dies, ReloadsAreOrdered
<1>6. HeldAreKnown'
    BY <1>3 DEF IInv, Dies, HeldAreKnown, IsSound, HasDeferred
<1> QED BY <1>2, <1>4, <1>5, <1>6 DEF IInv

\* A goroutine that releases what it has to, in whichever state it is.
LEMMA ReleaseKeepsIInv ==
    ASSUME IInv, NEW p \in Goroutines, NEW a \in Generations, Gives(p, a), Release(a, p)
    PROVE  IInv'
<1>1. CASE inUse[a] = 0
    BY <1>1, DiesKeepsIInv DEF Release
<1>2. CASE inUse[a] # 0
  <2>1. /\ GiveBack(a) /\ Left(p, a)
        /\ UNCHANGED <<listenerVars, globalVars, toStart, mixed>>
      BY <1>2 DEF Release, Left, Forgets
  <2>2. /\ Slots' /\ NoSlotIsLost'
        /\ inUse' \in [Generations -> 0 .. Concurrency]
        /\ waiters' \in [Generations -> Seq(Goroutines)]
        /\ state' \in [Goroutines -> States]
        /\ \A q \in Goroutines : state[q] = "absent" => state'[q] = "absent"
        /\ \A q \in Goroutines : HasDeferred(q)' => HasDeferred(q) /\ q # p
      BY <1>2, <2>1, ReleaseKeepsSlots DEF globalVars
  <2>3. /\ heldCtx' \in [Goroutines -> Generations] /\ deferred' \in [Goroutines -> Generations]
        /\ heldSemaphore' \in [Goroutines -> Generations]
        /\ heldSemaphore'[p] = 0 /\ deferred'[p] = 0
        /\ \A q \in Goroutines \ {p} : heldSemaphore'[q] = heldSemaphore[q] /\ deferred'[q] = deferred[q]
    <3>1. 0 \in Generations
        BY LifecycleAssumption DEF Generations
    <3> QED BY <2>1, <3>1 DEF IInv, TypeOK, Left, Forgets
  <2>4. TypeOK'
      BY <2>1, <2>2, <2>3 DEF IInv, TypeOK, States, listenerVars, cfgVars, globalVars
  <2>5. ReloadsAreOrdered'
      BY <2>1, <2>2, OrderIsKept DEF IInv
  <2>6. HeldAreKnown'
    <3>1. semaphore \in Nat /\ semaphore' = semaphore /\ mixed' = mixed
        BY <2>1 DEF IInv, TypeOK, Generations, globalVars
    <3>2. IsSound(p)'
        BY <2>2, <2>3, <3>1 DEF IsSound
    <3>3. ASSUME NEW q \in Goroutines, q # p PROVE IsSound(q)'
        BY <2>2, <2>3, <3>1, <3>3 DEF IInv, HeldAreKnown, IsSound
    <3> QED BY <3>1, <3>2, <3>3 DEF IInv, HeldAreKnown
  <2> QED BY <2>2, <2>4, <2>5, <2>6 DEF IInv
<1> QED BY <1>1, <1>2

\* defer reads the semaphore again: what it will release instead of what it has
\* acquired is remembered.
LEMMA DeferKeepsIInv ==
    ASSUME IInv, NEW p \in Goroutines, DeferRelease(p)
    PROVE  IInv'
<1> USE DEF listenerVars, cfgVars, globalVars, semVars
<1>1. /\ state[p] = "acquired" /\ state' = [state EXCEPT ![p] = "running"]
      /\ state \in [Goroutines -> States] /\ deferred \in [Goroutines -> Generations]
      /\ heldSemaphore \in [Goroutines -> Generations] /\ semaphore \in Generations
      /\ deferred' = [deferred EXCEPT ![p] = semaphore]
      /\ UNCHANGED <<listenerVars, globalVars, toStart, heldCtx, heldSemaphore, inUse, waiters>>
      /\ \A s \in mixed : s \in mixed'
      /\ heldSemaphore[p] # semaphore => heldSemaphore[p] \in mixed' /\ semaphore \in mixed'
      /\ \A s \in mixed' : s \in mixed \/ s = heldSemaphore[p] \/ s = semaphore
      /\ mixed \subseteq Generations /\ semaphore \in Nat
    BY DEF IInv, TypeOK, States, DeferRelease, Generations
<1>2. OnlyKnows(p)
    BY <1>1 DEF OnlyKnows
<1>3. TypeOK'
  <2>1. state' \in [Goroutines -> States] /\ deferred' \in [Goroutines -> Generations]
        /\ mixed' \subseteq Generations
      BY <1>1 DEF States
  <2> QED BY <1>1, <2>1 DEF IInv, TypeOK, States
<1>4. Slots'
    BY <1>1, <1>2, StepKeepsSlots DEF IInv, Holding, HasDeferred, HoldingStates, States
<1>5. IsSound(p)
    BY DEF IInv, HeldAreKnown
<1>6. HeldAreKnown'
  <2>1. \A s \in mixed' : s <= semaphore
    <3>1. heldSemaphore[p] <= semaphore /\ semaphore <= semaphore
        BY <1>1, <1>5 DEF IsSound
    <3>2. \A s \in mixed : s <= semaphore
        BY DEF IInv, HeldAreKnown
    <3> QED BY <1>1, <3>1, <3>2
  <2>2. IsSound(p)'
      BY <1>1, <1>5 DEF IsSound
  <2>3. \A q \in Goroutines \ {p} : HasDeferred(q)' => HasDeferred(q)
      BY <1>1 DEF HasDeferred
  <2> QED BY <1>1, <1>2, <2>1, <2>2, <2>3, StepKeepsKnown DEF IInv
<1>7. NoSlotIsLost'
  <2>1. Releasing(semaphore)' = Releasing(semaphore) \cup {p}
      BY <1>1 DEF Releasing, Holding, HasDeferred
  <2>2. IsFiniteSet(Releasing(semaphore)) /\ inUse[semaphore] <= Cardinality(Releasing(semaphore))
      BY DEF IInv, NoSlotIsLost
  <2>3. /\ IsFiniteSet(Releasing(semaphore)')
        /\ Cardinality(Releasing(semaphore)') >= Cardinality(Releasing(semaphore))
        /\ Cardinality(Releasing(semaphore)) \in Nat /\ Cardinality(Releasing(semaphore)') \in Nat
    <3>1. Cardinality(Releasing(semaphore)) \in Nat
        BY <2>2, FS_CardinalityType
    <3>2. CASE p \in Releasing(semaphore)
      <4>1. Releasing(semaphore)' = Releasing(semaphore)
          BY <2>1, <3>2
      <4> QED BY <2>2, <3>1, <4>1
    <3>3. CASE p \notin Releasing(semaphore)
      <4>1. /\ IsFiniteSet(Releasing(semaphore)')
            /\ Cardinality(Releasing(semaphore)') = Cardinality(Releasing(semaphore)) + 1
          BY <2>1, <2>2, <3>3, FS_AddElement
      <4> QED BY <3>1, <4>1
    <3> QED BY <3>2, <3>3
  <2>4. inUse[semaphore] \in Int
      BY <1>1, LifecycleAssumption DEF IInv, TypeOK
  <2> QED BY <1>1, <2>2, <2>3, <2>4 DEF NoSlotIsLost
<1>8. ReloadsAreOrdered'
  <2>1. \A q \in Goroutines : state[q] = "absent" => state'[q] = "absent"
      BY <1>1
  <2> QED BY <1>1, <2>1, OrderIsKept DEF IInv
<1> QED BY <1>3, <1>4, <1>6, <1>7, <1>8 DEF IInv

\* Steps that leave the goroutines and the semaphores as they are.
LEMMA ListenerKeepsAccounts ==
    ASSUME IInv, UNCHANGED <<state, heldVars, semVars, semaphore>>
    PROVE  Slots' /\ NoSlotIsLost' /\ HeldAreKnown'
<1>1. /\ UNCHANGED <<state, heldSemaphore, deferred, inUse, waiters, mixed, semaphore>>
      /\ Slots /\ NoSlotIsLost /\ HeldAreKnown
    BY DEF IInv, heldVars, semVars
<1>2. Slots'
    BY <1>1 DEF Slots, SlotsOf, Holders, Queued, Holding, HasDeferred
<1>3. NoSlotIsLost'
    BY <1>1 DEF NoSlotIsLost, Releasing, Holding, HasDeferred
<1>4. HeldAreKnown'
    BY <1>1 DEF HeldAreKnown, IsSound, HasDeferred
<1> QED BY <1>2, <1>3, <1>4

\* A new semaphore has been given to nobody.
LEMMA ReplaceSemaphoreKeepsIInv == IInv /\ ReplaceSemaphore => IInv'
<1> SUFFICES ASSUME IInv, ReplaceSemaphore PROVE IInv'
    OBVIOUS
<1>1. /\ listener = "monitoring" /\ semaphore' = generation /\ listener' = "starting"
      /\ toStart' = configured
      /\ UNCHANGED <<generation, configured, skipInvalid, modifications, ctx, cancelled, state,
                     heldCtx, heldSemaphore, deferred, mixed, inUse, waiters>>
      /\ semaphore < generation /\ generation \in Generations /\ semaphore \in Nat /\ generation \in Nat
      /\ heldSemaphore \in [Goroutines -> Generations] /\ deferred \in [Goroutines -> Generations]
      /\ mixed \subseteq Generations /\ Generations \subseteq Nat
    BY DEF IInv, TypeOK, ReplaceSemaphore, ReloadsAreOrdered, cfgVars, heldVars, semVars, Generations
<1>2. TypeOK'
    BY <1>1 DEF IInv, TypeOK
<1>3. ReloadsAreOrdered'
    BY <1>1 DEF IInv, TypeOK, ReloadsAreOrdered, Goroutines
<1>4. Slots'
    BY <1>1 DEF IInv, Slots, SlotsOf, Holders, Queued, Holding, HasDeferred
<1>5. \A p \in Goroutines : /\ heldSemaphore[p] \in Nat /\ deferred[p] \in Nat
                            /\ heldSemaphore[p] < generation /\ deferred[p] < generation
  <2> SUFFICES ASSUME NEW p \in Goroutines
               PROVE  /\ heldSemaphore[p] \in Nat /\ deferred[p] \in Nat
                      /\ heldSemaphore[p] < generation /\ deferred[p] < generation
      OBVIOUS
  <2>1. heldSemaphore[p] \in Nat /\ deferred[p] \in Nat
      BY <1>1
  <2>2. heldSemaphore[p] <= semaphore /\ deferred[p] <= semaphore
      BY DEF IInv, HeldAreKnown, IsSound
  <2> QED BY <1>1, <2>1, <2>2
<1>6. HeldAreKnown'
  <2>1. ASSUME NEW p \in Goroutines PROVE IsSound(p)'
      BY <1>1, <1>5 DEF IInv, HeldAreKnown, IsSound, HasDeferred
  <2>2. \A s \in mixed' : s <= semaphore'
      BY <1>1 DEF IInv, HeldAreKnown
  <2> QED BY <2>1, <2>2 DEF HeldAreKnown
<1>7. NoSlotIsLost'
  <2>1. generation \notin mixed
      BY <1>1 DEF IInv, HeldAreKnown
  <2>2. Holders(generation) = {}
      BY <1>5 DEF Holders
  <2>3. inUse[generation] = 0
      BY <1>1, <2>1, <2>2, FS_EmptySet DEF IInv, Slots, SlotsOf
  <2>4. Releasing(semaphore)' = {}
      BY <1>1, <1>5 DEF Releasing, Holding, HasDeferred
  <2> QED BY <1>1, <2>3, <2>4, FS_EmptySet DEF NoSlotIsLost
<1> QED BY <1>2, <1>3, <1>4, <1>6, <1>7 DEF IInv

\* Every step of the listener, of Monitor and of a goroutine keeps the invariant.
LEMMA NextKeepsIInv == IInv /\ [Next]_vars => IInv'
<1> SUFFICES ASSUME IInv, [Next]_vars PROVE IInv'
    OBVIOUS
<1>0. /\ TypeOK /\ ReloadsAreOrdered
      /\ MaxReloads \in Nat /\ Concurrency \in Nat \ {0} /\ 0 \in Generations
      /\ Generations \subseteq Nat
    BY LifecycleAssumption DEF IInv, Generations
<1> USE DEF listenerVars, cfgVars, globalVars
<1>1. CASE UNCHANGED vars
  <2>1. TypeOK' /\ ReloadsAreOrdered'
      BY <1>0, <1>1 DEF vars, heldVars, semVars, TypeOK, ReloadsAreOrdered
  <2> QED BY <1>1, <2>1, ListenerKeepsAccounts DEF IInv, vars
<1>2. ASSUME NEW e \in Endpoints, StartGoroutine(e) PROVE IInv'
  <2>1. PICK p \in Goroutines : p = <<generation, e>>
      BY <1>0 DEF TypeOK, Goroutines
  <2>2. state[p] = "absent" /\ state' = [state EXCEPT ![p] = "due"]
      BY <1>0, <1>2, <2>1 DEF StartGoroutine, ReloadsAreOrdered
  <2>3. OnlyKnows(p) /\ UNCHANGED <<inUse, waiters, deferred, mixed, semaphore>>
      BY <1>0, <1>2 DEF StartGoroutine, OnlyKnows, heldVars, semVars, TypeOK
  <2>4. Slots' /\ NoSlotIsLost'
      BY <1>0, <2>2, <2>3, StepKeepsSlots, StepKeepsReleasing
         DEF IInv, Holding, HasDeferred, HoldingStates, DeferredStates, States
  <2>5. TypeOK'
      BY <1>0, <1>2, <2>2 DEF StartGoroutine, TypeOK, heldVars, semVars
  <2>6. HeldAreKnown'
    <3>1. \A q \in Goroutines : HasDeferred(q)' <=> HasDeferred(q)
        BY <1>0, <2>2 DEF HasDeferred, TypeOK
    <3>2. UNCHANGED heldSemaphore
        BY <1>2 DEF StartGoroutine, heldVars
    <3> QED BY <2>3, <3>1, <3>2 DEF IInv, HeldAreKnown, IsSound
  <2>7. ReloadsAreOrdered'
    <3>1. \A q \in Goroutines : q[1] > generation => state'[q] = "absent"
      <4> SUFFICES ASSUME NEW q \in Goroutines, q[1] > generation PROVE state'[q] = "absent"
          OBVIOUS
      <4>1. q[1] \in Nat /\ generation \in Nat
          BY <1>0 DEF TypeOK, Goroutines
      <4>2. q[1] # generation
          BY <4>1
      <4>3. state[q] = "absent"
          BY <1>0 DEF ReloadsAreOrdered
      <4>4. q # p
          BY <2>1, <4>2
      <4> QED BY <1>0, <2>2, <4>3, <4>4 DEF TypeOK
    <3>2. \A f \in toStart' : state'[<<generation, f>>] = "absent"
        BY <1>0, <1>2, <2>1, <2>2 DEF StartGoroutine, TypeOK, ReloadsAreOrdered, Goroutines
    <3> QED BY <1>0, <1>2, <3>1, <3>2 DEF StartGoroutine, ReloadsAreOrdered
  <2> QED BY <2>4, <2>5, <2>6, <2>7 DEF IInv
<1>3. ASSUME MonitorReturns \/ SkipUpdate \/ Stop PROVE IInv'
  <2>1. TypeOK'
    <3>1. CASE MonitorReturns
        BY <1>0, <3>1 DEF MonitorReturns, TypeOK, heldVars, semVars
    <3>2. CASE SkipUpdate
        BY <1>0, <3>2 DEF SkipUpdate, TypeOK, heldVars, semVars
    <3>3. CASE Stop
      <4>1. modifications' \in 0 .. MaxReloads
          BY <1>0, <3>3, LifecycleAssumption DEF Stop, TypeOK
      <4>2. cancelled' \subseteq Generations
          BY <1>0, <3>3 DEF Stop, TypeOK
      <4> QED BY <1>0, <3>3, <4>1, <4>2 DEF Stop, TypeOK, cfgVars, heldVars, semVars
    <3> QED BY <1>3, <3>1, <3>2, <3>3
  <2>2. ReloadsAreOrdered'
    <3>1. /\ UNCHANGED <<generation, semaphore, state>>
          /\ modifications' \in Nat /\ modifications' >= modifications
          /\ listener' = "stopped" => modifications' = modifications + 1
          /\ listener' \notin {"starting", "loaded", "monitoring"}
        BY SMTT(60), <1>0, <1>3 DEF MonitorReturns, SkipUpdate, Stop, TypeOK
    <3> QED BY <1>0, <3>1 DEF TypeOK, ReloadsAreOrdered, Generations
  <2>3. UNCHANGED <<state, heldVars, semVars, semaphore>>
      BY <1>3 DEF MonitorReturns, SkipUpdate, Stop
  <2> QED BY <2>1, <2>2, <2>3, ListenerKeepsAccounts DEF IInv
<1>4. ASSUME NEW endpoints \in LaterEndpoints, NEW skips \in BOOLEAN, Reload(endpoints, skips)
      PROVE  IInv'
  <2>1. generation + 1 \in Generations /\ generation + 1 <= modifications /\ generation \in Nat
      BY <1>0, <1>4 DEF Reload, TypeOK, ReloadsAreOrdered, Generations
  <2>2. TypeOK'
    <3>1. endpoints \subseteq Endpoints
        BY LifecycleAssumption
    <3> QED BY <1>0, <1>4, <2>1, <3>1 DEF Reload, TypeOK, heldVars, semVars
  <2>3. ReloadsAreOrdered'
    <3>1. \A q \in Goroutines : q[1] >= generation + 1 => state[q] = "absent"
      <4>1. \A q \in Goroutines : q[1] \in Nat
          BY <1>0 DEF Goroutines
      <4> QED BY <1>0, <2>1, <4>1 DEF ReloadsAreOrdered
    <3>2. \A q \in Goroutines : q[1] \in Nat
        BY <1>0 DEF Goroutines
    <3>3. semaphore \in Nat /\ semaphore < generation + 1
        BY <1>0, <2>1 DEF TypeOK, ReloadsAreOrdered
    <3> QED BY <1>4, <2>1, <3>1, <3>2, <3>3 DEF Reload, ReloadsAreOrdered
  <2>4. UNCHANGED <<state, heldVars, semVars, semaphore>>
      BY <1>4 DEF Reload
  <2> QED BY <2>2, <2>3, <2>4, ListenerKeepsAccounts DEF IInv
<1>5. ASSUME ReplaceContext PROVE IInv'
  <2>1. TypeOK'
      BY <1>0, <1>5 DEF ReplaceContext, TypeOK, heldVars, semVars
  <2>2. ReloadsAreOrdered'
      BY <1>0, <1>5 DEF ReplaceContext, ReloadsAreOrdered
  <2>3. UNCHANGED <<state, heldVars, semVars, semaphore>>
      BY <1>5 DEF ReplaceContext
  <2> QED BY <2>1, <2>2, <2>3, ListenerKeepsAccounts DEF IInv
<1>6. ASSUME Panic \/ StoragePanics PROVE IInv'
    BY <1>6, DiesKeepsIInv DEF Panic, StoragePanics
<1>7. ASSUME NEW p \in Goroutines, CallAcquire(p) PROVE IInv'
  <2>1. /\ state' = [state EXCEPT ![p] = "calling"] /\ state[p] \in {"due", "selecting"}
        /\ heldSemaphore' = [heldSemaphore EXCEPT ![p] = semaphore]
        /\ UNCHANGED <<listenerVars, globalVars, toStart, inUse, waiters, mixed, deferred, heldCtx>>
      BY <1>7 DEF CallAcquire, semVars
  <2>2. /\ heldSemaphore' \in [Goroutines -> Generations] /\ heldSemaphore'[p] = semaphore
        /\ semaphore \in Nat /\ heldSemaphore'[p] <= semaphore /\ deferred[p] <= semaphore
        /\ OnlyKnows(p)
      BY <1>0, <2>1 DEF TypeOK, OnlyKnows, Holding, HasDeferred, IInv, HeldAreKnown, IsSound
  <2> QED BY <1>0, <2>1, <2>2, StepKeepsIInv
          DEF TypeOK, Holding, HasDeferred, HoldingStates, DeferredStates, States
<1>8. ASSUME NEW p \in Goroutines, AcquireFails(p) PROVE IInv'
  <2>1. /\ state' = [state EXCEPT ![p] = "selecting"] /\ state[p] = "calling"
        /\ heldSemaphore' = [heldSemaphore EXCEPT ![p] = 0] /\ deferred' = [deferred EXCEPT ![p] = 0]
        /\ heldCtx' = [heldCtx EXCEPT ![p] = 0]
        /\ UNCHANGED <<listenerVars, globalVars, toStart, inUse, waiters, mixed>>
      BY <1>8 DEF AcquireFails, Forgets, semVars
  <2>2. /\ heldSemaphore' \in [Goroutines -> Generations] /\ heldSemaphore'[p] = 0
        /\ deferred' \in [Goroutines -> Generations] /\ deferred'[p] = 0
        /\ heldCtx' \in [Goroutines -> Generations]
        /\ semaphore \in Nat /\ OnlyKnows(p)
      BY <1>0, <2>1 DEF TypeOK, OnlyKnows, Holding, HasDeferred
  <2>3. heldSemaphore'[p] <= semaphore /\ deferred'[p] <= semaphore
      BY <2>2
  <2> QED BY <2>1, <2>2, <2>3, StepKeepsIInv
          DEF Holding, HasDeferred, HoldingStates, DeferredStates, States
<1>9. ASSUME NEW p \in Goroutines, NEW next \in States, state' = [state EXCEPT ![p] = next],
             \/ state[p] = "selecting" /\ next = "ended"
             \/ state[p] = "running" /\ next \in {"hanging", "stored"}
             \/ state[p] = "granted" /\ next = "acquired",
             UNCHANGED <<listenerVars, globalVars, toStart, heldVars, semVars>>
      PROVE  IInv'
  <2>1. OnlyKnows(p) /\ UNCHANGED <<inUse, waiters, heldCtx, heldSemaphore, deferred, mixed>>
      BY <1>0, <1>9 DEF OnlyKnows, TypeOK, heldVars, semVars
  <2>2. /\ Holding(p) <=> next \in HoldingStates
        /\ HasDeferred(p) <=> next \in DeferredStates
        /\ state[p] = "queued" <=> next = "queued" /\ state[p] # "absent"
      BY <1>9 DEF Holding, HasDeferred, HoldingStates, DeferredStates
  <2>3. /\ heldSemaphore'[p] <= semaphore /\ deferred'[p] <= semaphore
        /\ heldCtx' \in [Goroutines -> Generations] /\ deferred' \in [Goroutines -> Generations]
      BY <1>0, <2>1 DEF TypeOK, IInv, HeldAreKnown, IsSound
  <2>4. state[p] # "absent" /\ (state[p] = "queued" <=> next = "queued")
      BY <1>9
  <2> QED BY <1>9, <2>1, <2>2, <2>3, <2>4, StepKeepsIInv
<1>10. ASSUME NEW p \in Goroutines, Cancel(p) \/ Hang(p) \/ Store(p) PROVE IInv'
  <2>1. CASE Cancel(p)
      BY <1>9, <2>1 DEF Cancel, States
  <2>2. CASE Hang(p)
      BY <1>9, <2>2 DEF Hang, States
  <2>3. CASE Store(p)
      BY <1>9, <2>3 DEF Store, States
  <2> QED BY <1>10, <2>1, <2>2, <2>3
<1>11. ASSUME NEW p \in Goroutines, Acquire(p) PROVE IInv'
  <2>1. /\ Slots' /\ NoSlotIsLost'
        /\ inUse' \in [Generations -> 0 .. Concurrency]
        /\ waiters' \in [Generations -> Seq(Goroutines)]
      BY <1>11, AcquireKeepsSlots
  <2>2. PICK next \in {"acquired", "queued"} : state' = [state EXCEPT ![p] = next]
      BY <1>11 DEF Acquire
  <2>3. /\ state[p] = "calling" /\ heldCtx' = [heldCtx EXCEPT ![p] = ctx]
        /\ UNCHANGED <<listenerVars, globalVars, toStart, heldSemaphore, deferred, mixed>>
      BY <1>11 DEF Acquire
  <2>4. TypeOK'
      BY <1>0, <2>1, <2>2, <2>3 DEF TypeOK
  <2>5. ReloadsAreOrdered'
      BY <1>0, <2>2, <2>3, OrderIsKept DEF TypeOK
  <2>6. \A q \in Goroutines : HasDeferred(q)' <=> HasDeferred(q)
      BY <1>0, <2>2, <2>3 DEF HasDeferred, TypeOK
  <2>7. HeldAreKnown'
      BY <2>3, <2>6 DEF IInv, HeldAreKnown, IsSound
  <2> QED BY <2>1, <2>4, <2>5, <2>7 DEF IInv
<1>12. ASSUME NEW p \in Goroutines, LeaveQueue(p) PROVE IInv'
  <2>1. Slots' /\ NoSlotIsLost' /\ waiters' \in [Generations -> Seq(Goroutines)]
      BY <1>12, LeaveQueueKeepsSlots
  <2>2. /\ state' = [state EXCEPT ![p] = "selecting"] /\ state[p] = "queued"
        /\ heldSemaphore' = [heldSemaphore EXCEPT ![p] = 0] /\ deferred' = [deferred EXCEPT ![p] = 0]
        /\ heldCtx' = [heldCtx EXCEPT ![p] = 0]
        /\ UNCHANGED <<listenerVars, globalVars, toStart, inUse, mixed>>
      BY <1>12 DEF LeaveQueue, Forgets
  <2>3. TypeOK'
      BY <1>0, <2>1, <2>2 DEF TypeOK
  <2>4. ReloadsAreOrdered'
      BY <1>0, <2>2, OrderIsKept DEF TypeOK
  <2>5. \A q \in Goroutines : HasDeferred(q)' => HasDeferred(q) /\ q # p
      BY <1>0, <2>2 DEF HasDeferred, TypeOK
  <2>6. ASSUME NEW q \in Goroutines PROVE IsSound(q)'
    <3>1. heldSemaphore'[q] \in {0, heldSemaphore[q]} /\ deferred'[q] \in {0, deferred[q]}
        BY <1>0, <2>2 DEF TypeOK
    <3>2. q # p => heldSemaphore'[q] = heldSemaphore[q] /\ deferred'[q] = deferred[q]
        BY <1>0, <2>2 DEF TypeOK
    <3>3. IsSound(q) /\ semaphore \in Nat
        BY <1>0 DEF IInv, HeldAreKnown, TypeOK
    <3>4. UNCHANGED <<semaphore, mixed>>
        BY <2>2
    <3>5. heldSemaphore'[q] <= semaphore' /\ deferred'[q] <= semaphore'
        BY <3>1, <3>3, <3>4 DEF IsSound
    <3> QED BY <2>5, <3>2, <3>3, <3>4, <3>5 DEF IsSound
  <2>7. HeldAreKnown'
      BY <2>2, <2>6 DEF IInv, HeldAreKnown
  <2> QED BY <2>1, <2>3, <2>4, <2>7 DEF IInv
<1>13. ASSUME NEW p \in Goroutines, Proceed(p) PROVE IInv'
  <2>1. CASE heldCtx[p] \in cancelled
    <3>1. PICK a \in Generations : a = heldSemaphore[p]
        BY <1>0 DEF TypeOK
    <3>2. Gives(p, a) /\ Release(a, p)
        BY <1>13, <2>1, <3>1 DEF Proceed, Gives, Holding, HasDeferred
    <3> QED BY <3>2, ReleaseKeepsIInv
  <2>2. CASE heldCtx[p] \notin cancelled
      BY <1>9, <1>13, <2>2 DEF Proceed, States
  <2> QED BY <2>1, <2>2
<1>14. ASSUME NEW p \in Goroutines, SkipExecution(p) \/ Return(p) PROVE IInv'
  <2>1. PICK a \in Generations : a = deferred[p]
      BY <1>0 DEF TypeOK
  <2>2. Gives(p, a) /\ Release(a, p)
      BY <1>14, <2>1 DEF SkipExecution, Return, Gives, Holding, HasDeferred
  <2> QED BY <2>2, ReleaseKeepsIInv
<1> QED BY <1>1, <1>2, <1>3, <1>4, <1>5, <1>6, <1>7, <1>8, <1>10, <1>11, <1>12, <1>13, <1>14,
           ReplaceSemaphoreKeepsIInv, DeferKeepsIInv
        DEF Next, Listen, Work, Execute

\* The shapes, the limit of the semaphore, and the account of its slots.
THEOREM AccountIsInvariant == Spec => []IInv
<1> QED BY InitEstablishesIInv, NextKeepsIInv, PTL DEF Spec

\* No semaphore counts more slots than monitoring-concurrency allows or fewer than
\* none, however many goroutines of however many generations compete for them,
\* and whichever of two semaphores one of them releases.
THEOREM LifecycleTypeCorrect == Spec => []TypeOK
<1>1. IInv => TypeOK
    BY DEF IInv
<1> QED BY <1>1, AccountIsInvariant, PTL

\* Where no goroutine mixes up two semaphores no slot is lost or released twice,
\* through cancellations, early returns, panics and reloads; where one does, the
\* semaphore in use still loses none; and in no case a wake-up is lost.
THEOREM SlotsAreAccountedFor == Spec => []SlotsAreNeitherLostNorIdle
<1>1. IInv => SlotsAreNeitherLostNorIdle
    BY DEF IInv, Slots, SlotsOf, NoSlotIsLost, SlotsAreNeitherLostNorIdle
<1> QED BY <1>1, AccountIsInvariant, PTL
=============================================================================
