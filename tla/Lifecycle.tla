------------------------------ MODULE Lifecycle -----------------------------
(***************************************************************************)
(* The monitoring goroutines of the watchdog, the semaphore they share,    *)
(* and the listener of main.go that stops and restarts them when the       *)
(* configuration file has changed.                                         *)
(*                                                                         *)
(* Every configuration in use has a generation.  A goroutine is named by   *)
(* the generation whose Monitor started it and by its endpoint.  It selects*)
(* on the context it was given, but reads the package variables ctx and    *)
(* monitoringSemaphore when it calls Acquire, and monitoringSemaphore once *)
(* more for the deferred Release.  Monitor, Shutdown and the listener run  *)
(* on one goroutine and replace the variables one after the other.         *)
(***************************************************************************)
EXTENDS Naturals, FiniteSets, Sequences, SequencesExt

CONSTANTS
    Endpoints,               \* every endpoint some configuration has
    FirstEndpoints,          \* the endpoints of the first configuration
    LaterEndpoints,          \* the sets of endpoints of the others
    Concurrency,             \* the weight Monitor gives to the semaphore
    MaxReloads,              \* bound: modifications of the file
    MayBeInvalid             \* may a modified file be invalid?

ASSUME LifecycleAssumption ==
    /\ FirstEndpoints \subseteq Endpoints
    /\ LaterEndpoints \subseteq SUBSET Endpoints
    /\ {} \notin {FirstEndpoints} \union LaterEndpoints   \* ErrNoEndpointOrSuiteInConfig
    /\ Concurrency \in Nat \ {0}
    /\ MaxReloads \in Nat
    /\ MayBeInvalid \in BOOLEAN

Generations == 0 .. MaxReloads
Goroutines == Generations \X Endpoints

VARIABLES
    listener,        \* where the goroutine of main.go is
    generation,      \* the configuration in use
    configured,      \* its endpoints
    skipInvalid,     \* its SkipInvalidConfigUpdate
    modifications,   \* how often the file was modified so far
    ctx,             \* generation of the variable ctx
    semaphore,       \* generation of the variable monitoringSemaphore
    cancelled,       \* generations whose context is cancelled
    toStart,         \* endpoints Monitor has not started a goroutine for
    state,           \* of every goroutine
    heldCtx,         \* the context and the semaphore a goroutine called
    heldSemaphore,   \* Acquire with, and the semaphore whose Release it
    deferred,        \* deferred; 0 outside of executeEndpoint
    inUse,           \* slots taken, per semaphore
    waiters,         \* goroutines queued for a slot, per semaphore
    mixed            \* history: semaphores taken from one goroutine and given
                     \* back to another, or the reverse

cfgVars == <<generation, configured, skipInvalid>>
listenerVars == <<listener, cfgVars, modifications>>
globalVars == <<ctx, semaphore, cancelled>>
heldVars == <<heldCtx, heldSemaphore, deferred, mixed>>
semVars == <<inUse, waiters>>
vars == <<listenerVars, globalVars, toStart, state, heldVars, semVars>>

InitWith(listenerState) ==
    /\ listener = listenerState
    /\ generation = 0
    /\ configured = FirstEndpoints
    /\ skipInvalid \in BOOLEAN
    /\ modifications = 0
    /\ ctx = 0
    /\ semaphore = 0
    /\ cancelled = {}
    /\ toStart = FirstEndpoints
    /\ state = [p \in Goroutines |-> "absent"]
    /\ heldCtx = [p \in Goroutines |-> 0]
    /\ heldSemaphore = [p \in Goroutines |-> 0]
    /\ deferred = [p \in Goroutines |-> 0]
    /\ inUse = [g \in Generations |-> 0]
    /\ waiters = [g \in Generations |-> <<>>]
    /\ mixed = {}

Init == InitWith("starting")

-----------------------------------------------------------------------------
(* Monitor and the listener *)

StartGoroutine(e) ==
    /\ listener = "starting"
    /\ e \in toStart
    /\ toStart' = toStart \ {e}
    /\ state' = [state EXCEPT ![<<generation, e>>] = "due"]
    /\ UNCHANGED <<listenerVars, globalVars, heldVars, semVars>>

MonitorReturns ==
    /\ listener = "starting"
    /\ toStart = {}
    /\ listener' = "sleeping"
    /\ UNCHANGED <<cfgVars, modifications, globalVars, toStart, state, heldVars, semVars>>

\* HasLoadedConfigurationBeenModified, then stop(cfg): Shutdown cancels the
\* context and waits for nobody.
Stop ==
    /\ listener = "sleeping"
    /\ modifications < MaxReloads
    /\ modifications' = modifications + 1
    /\ cancelled' = cancelled \union {ctx}
    /\ listener' = "stopped"
    /\ UNCHANGED <<cfgVars, ctx, semaphore, toStart, state, heldVars, semVars>>

\* The second of time.Sleep has passed, the file is read, and the store is closed
\* and opened again.
Reload(endpoints, skips) ==
    /\ listener = "stopped"
    /\ generation' = generation + 1
    /\ configured' = endpoints
    /\ skipInvalid' = skips
    /\ listener' = "loaded"
    /\ UNCHANGED <<modifications, globalVars, toStart, state, heldVars, semVars>>

\* Monitor replaces the context ...
ReplaceContext ==
    /\ listener = "loaded"
    /\ ctx' = generation
    /\ listener' = "monitoring"
    /\ UNCHANGED <<cfgVars, modifications, semaphore, cancelled, toStart, state, heldVars, semVars>>

\* ... and then the semaphore, before it starts a goroutine.
ReplaceSemaphore ==
    /\ listener = "monitoring"
    /\ semaphore' = generation
    /\ toStart' = configured
    /\ listener' = "starting"
    /\ UNCHANGED <<cfgVars, modifications, ctx, cancelled, state, heldVars, semVars>>

\* The file does not parse: the error is logged and the listener goes back to
\* sleep ...
SkipUpdate ==
    /\ listener = "stopped"
    /\ MayBeInvalid /\ skipInvalid
    /\ listener' = "sleeping"
    /\ UNCHANGED <<cfgVars, modifications, globalVars, toStart, state, heldVars, semVars>>

\* Nothing is left of a process that panics.
Dies ==
    /\ listener' = "panicked"
    /\ state' = [p \in Goroutines |-> "absent"]
    /\ inUse' = [s \in Generations |-> 0]
    /\ waiters' = [s \in Generations |-> <<>>]
    /\ UNCHANGED <<cfgVars, modifications, globalVars, toStart, heldVars>>

\* ... or the process panics, as it does when the new store cannot be opened.
Panic == listener = "stopped" /\ MayBeInvalid /\ ~skipInvalid /\ Dies
StoragePanics == listener = "stopped" /\ Dies

-----------------------------------------------------------------------------
(* semaphore.Weighted of golang.org/x/sync *)

\* Release hands the slot to the goroutine that has waited longest, if any ...
GiveBack(s) ==
    IF waiters[s] = <<>>
    THEN inUse' = [inUse EXCEPT ![s] = @ - 1] /\ UNCHANGED waiters
    ELSE waiters' = [waiters EXCEPT ![s] = Tail(@)] /\ UNCHANGED inUse

\* executeEndpoint has returned: what it held is forgotten.
Forgets(p) ==
    /\ heldCtx' = [heldCtx EXCEPT ![p] = 0]
    /\ heldSemaphore' = [heldSemaphore EXCEPT ![p] = 0]
    /\ deferred' = [deferred EXCEPT ![p] = 0]
    /\ UNCHANGED mixed

\* The states of the goroutines once p is selecting and has released s.
AfterRelease(s, p) ==
    [q \in Goroutines |->
        CASE q = p -> "selecting"
          [] waiters[s] # <<>> /\ q = Head(waiters[s]) -> "granted"
          [] OTHER -> state[q]]

\* ... and panics if more is released than is held.
Release(s, p) ==
    IF inUse[s] = 0 THEN Dies
    ELSE /\ GiveBack(s)
         /\ state' = AfterRelease(s, p)
         /\ Forgets(p)
         /\ UNCHANGED <<listenerVars, globalVars, toStart>>

SlotIsFree(s) == inUse[s] < Concurrency /\ waiters[s] = <<>>

-----------------------------------------------------------------------------
(* monitorEndpoint and executeEndpoint *)

\* A goroutine that was started, or whose ticker has fired, calls Acquire: it reads
\* monitoringSemaphore ...  When its context is done as well, the select of
\* monitorEndpoint may take this case or Cancel.
CallAcquire(p) ==
    /\ state[p] \in {"due", "selecting"}
    /\ heldSemaphore' = [heldSemaphore EXCEPT ![p] = semaphore]
    /\ state' = [state EXCEPT ![p] = "calling"]
    /\ UNCHANGED <<listenerVars, globalVars, toStart, heldCtx, deferred, mixed, semVars>>

\* ... and ctx.  It fails at once when that is done.
AcquireFails(p) ==
    /\ state[p] = "calling"
    /\ ctx \in cancelled
    /\ state' = [state EXCEPT ![p] = "selecting"]
    /\ Forgets(p)
    /\ UNCHANGED <<listenerVars, globalVars, toStart, semVars>>

Acquire(p) ==
    LET s == heldSemaphore[p] IN
    /\ state[p] = "calling"
    /\ ctx \notin cancelled
    /\ heldCtx' = [heldCtx EXCEPT ![p] = ctx]
    /\ IF SlotIsFree(s)
       THEN /\ inUse' = [inUse EXCEPT ![s] = @ + 1]
            /\ state' = [state EXCEPT ![p] = "acquired"]
            /\ UNCHANGED waiters
       ELSE /\ waiters' = [waiters EXCEPT ![s] = Append(@, p)]
            /\ state' = [state EXCEPT ![p] = "queued"]
            /\ UNCHANGED inUse
    /\ UNCHANGED <<listenerVars, globalVars, toStart, heldSemaphore, deferred, mixed>>

\* Slip: a cancelled goroutine stays in the queue.
StayInQueue(p) ==
    /\ state[p] = "queued"
    /\ heldCtx[p] \in cancelled
    /\ state' = [state EXCEPT ![p] = "selecting"]
    /\ UNCHANGED <<listenerVars, globalVars, toStart, heldVars, semVars>>

\* A queued goroutine whose context is cancelled leaves the queue.
LeaveQueue(p) ==
    /\ state[p] = "queued"
    /\ heldCtx[p] \in cancelled
    /\ \E i \in DOMAIN waiters[heldSemaphore[p]] :
         /\ waiters[heldSemaphore[p]][i] = p
         /\ waiters' = [waiters EXCEPT ![heldSemaphore[p]] = RemoveAt(@, i)]
    /\ state' = [state EXCEPT ![p] = "selecting"]
    /\ Forgets(p)
    /\ UNCHANGED <<listenerVars, globalVars, toStart, inUse>>

\* A goroutine that was handed a slot keeps it unless its context is done.
Proceed(p) ==
    /\ state[p] = "granted"
    /\ IF heldCtx[p] \in cancelled
       THEN Release(heldSemaphore[p], p)
       ELSE /\ state' = [state EXCEPT ![p] = "acquired"]
            /\ UNCHANGED <<listenerVars, globalVars, toStart, heldVars, semVars>>

\* defer monitoringSemaphore.Release(1) reads the variable again: this need not
\* be the semaphore that was acquired.
DeferRelease(p) ==
    /\ state[p] = "acquired"
    /\ deferred' = [deferred EXCEPT ![p] = semaphore]
    /\ mixed' = IF heldSemaphore[p] = semaphore THEN mixed ELSE mixed \union {heldSemaphore[p], semaphore}
    /\ state' = [state EXCEPT ![p] = "running"]
    /\ UNCHANGED <<listenerVars, globalVars, toStart, heldCtx, heldSemaphore, semVars>>

\* Slip: the early return without connectivity does not release the slot.
SkipWithoutRelease(p) ==
    /\ state[p] = "running"
    /\ state' = [state EXCEPT ![p] = "selecting"]
    /\ UNCHANGED <<listenerVars, globalVars, toStart, heldVars, semVars>>

\* No connectivity: nothing is evaluated, the deferred Release runs.
SkipExecution(p) == state[p] = "running" /\ Release(deferred[p], p)

\* The peer is silent and the call has no deadline: EvaluateHealth never returns.
Hang(p) ==
    /\ state[p] = "running"
    /\ state' = [state EXCEPT ![p] = "hanging"]
    /\ UNCHANGED <<listenerVars, globalVars, toStart, heldVars, semVars>>

\* EvaluateHealth has returned; UpdateEndpointStatus inserts into the store that
\* store.Get() returns now.
Store(p) ==
    /\ state[p] = "running"
    /\ state' = [state EXCEPT ![p] = "stored"]
    /\ UNCHANGED <<listenerVars, globalVars, toStart, heldVars, semVars>>

\* HandleAlerting has returned, too.
Return(p) == state[p] = "stored" /\ Release(deferred[p], p)

\* Slip: a goroutine looks at the variable ctx instead of its own context.
CancelByGlobal(p) ==
    /\ state[p] = "selecting"
    /\ ctx \in cancelled
    /\ state' = [state EXCEPT ![p] = "ended"]
    /\ UNCHANGED <<listenerVars, globalVars, toStart, heldVars, semVars>>

Cancel(p) ==
    /\ state[p] = "selecting"
    /\ p[1] \in cancelled
    /\ state' = [state EXCEPT ![p] = "ended"]
    /\ UNCHANGED <<listenerVars, globalVars, toStart, heldVars, semVars>>

Work(p) ==
    \/ AcquireFails(p) \/ Acquire(p) \/ LeaveQueue(p) \/ Proceed(p)
    \/ DeferRelease(p) \/ Return(p)

\* Evaluated or, without connectivity, not.
Execute(p) == SkipExecution(p) \/ Store(p) \/ Hang(p)

Listen ==
    \/ \E e \in Endpoints : StartGoroutine(e)
    \/ MonitorReturns
    \/ \E endpoints \in LaterEndpoints, skips \in BOOLEAN : Reload(endpoints, skips)
    \/ ReplaceContext \/ ReplaceSemaphore
    \/ SkipUpdate \/ Panic \/ StoragePanics

Next ==
    \/ Listen
    \/ Stop
    \/ \E p \in Goroutines : Work(p) \/ CallAcquire(p) \/ Execute(p) \/ Cancel(p)

Spec == Init /\ [][Next]_vars

(***************************************************************************)
(* Fairness: a running goroutine goes on; tickers fire; an evaluation      *)
(* returns or hangs for good; there is connectivity again and again, and   *)
(* not every evaluation hangs (Store is taken if it can be forever so      *)
(* often); and select, which chooses at random among the cases that are    *)
(* ready, does not prefer the ticker forever.  A modification of the file  *)
(* need never happen.                                                      *)
(***************************************************************************)
Fairness ==
    /\ WF_vars(Listen)
    /\ \A p \in Goroutines :
         /\ WF_vars(Work(p))
         /\ WF_vars(Execute(p))
         /\ SF_vars(Store(p))
         /\ WF_vars(CallAcquire(p))
         /\ SF_vars(Cancel(p))

FairSpec == Spec /\ Fairness
-----------------------------------------------------------------------------
(* Properties *)

(* The shapes of the state of all goroutines, and the limit of the semaphore:
   no semaphore counts more slots than its concurrency, or fewer than none. *)
TypeOK ==
    /\ listener \in {"starting", "sleeping", "stopped", "loaded", "monitoring", "panicked"}
    /\ generation \in Generations
    /\ configured \subseteq Endpoints
    /\ skipInvalid \in BOOLEAN
    /\ modifications \in 0 .. MaxReloads
    /\ ctx \in Generations
    /\ semaphore \in Generations
    /\ cancelled \subseteq Generations
    /\ toStart \subseteq Endpoints
    /\ state \in [Goroutines -> {"absent", "due", "calling", "queued", "granted", "acquired",
                                 "running", "hanging", "stored", "selecting", "ended"}]
    /\ heldCtx \in [Goroutines -> Generations]
    /\ heldSemaphore \in [Goroutines -> Generations]
    /\ deferred \in [Goroutines -> Generations]
    /\ inUse \in [Generations -> 0 .. Concurrency]
    /\ waiters \in [Generations -> Seq(Goroutines)]
    /\ mixed \subseteq Generations

\* Goroutines that have a slot they acquired from s, that will give one back to
\* s, and that wait for one of s.
HasDeferred(p) == state[p] \in {"running", "hanging", "stored"}
Holding(p) == state[p] \in {"granted", "acquired"} \/ HasDeferred(p)
Holders(s) == {p \in Goroutines : Holding(p) /\ heldSemaphore[p] = s}
Releasing(s) ==
    {p \in Goroutines : Holding(p) /\ s = IF HasDeferred(p) THEN deferred[p] ELSE heldSemaphore[p]}
Queued(s) == {p \in Goroutines : state[p] = "queued" /\ heldSemaphore[p] = s}

\* As long as no goroutine was between its two reads of monitoringSemaphore when
\* Monitor replaced it, the slots taken are exactly those of the goroutines that
\* hold one: no early return, cancellation or panic loses a slot or releases one
\* twice.  Where one was, the semaphore in use may let too many goroutines in, but
\* never loses a slot: what it counts will all be given back.  In either case a
\* goroutine waits only while all slots are taken, and is queued exactly once: no
\* wake-up is lost.
SlotsAreNeitherLostNorIdle ==
    /\ \A s \in Generations :
        /\ s \notin mixed => inUse[s] = Cardinality(Holders(s))
        /\ waiters[s] # <<>> => inUse[s] = Concurrency
        /\ IsInjective(waiters[s])
        /\ ToSet(waiters[s]) = Queued(s)
    /\ inUse[semaphore] <= Cardinality(Releasing(semaphore))

\* All slots of s are with evaluations that never return.
AllHang(s) == Cardinality({p \in Releasing(s) : state[p] = "hanging"}) >= Concurrency

\* Whatever the reloads, once the configuration stays and its context is not
\* cancelled, every one of its endpoints is evaluated again and again, unless one
\* of its evaluations hangs or evaluations that hang have taken all slots: with
\* fewer slots than goroutines none of them is starved, not even by goroutines of
\* an earlier generation that take a slot of the new semaphore.
EveryEndpointIsEvaluated ==
    \A e \in Endpoints :
        <>[](/\ listener = "sleeping" /\ e \in configured /\ ctx \notin cancelled
             /\ state[<<generation, e>>] # "hanging" /\ ~AllHang(semaphore))
            => []<>(state[<<generation, e>>] = "stored")

\* Waiting for a semaphore that no slot is given back to: all of them hang, or
\* the semaphore was replaced and a goroutine will release another one instead.
IsStuck(p) ==
    \/ state[p] = "hanging"
    \/ /\ state[p] = "queued"
       /\ AllHang(heldSemaphore[p]) \/ heldSemaphore[p] \in mixed \ {semaphore}

\* The goroutines of a generation that was stopped end, although they may go on
\* executing with the context of a later generation for a while.  Only one that
\* in the end is stuck for ever, in an evaluation or behind others that are, does
\* not.  (A context stays cancelled and a goroutine that ended does not come back.)
StoppedGenerationEnds ==
    \A p \in Goroutines :
        []<>(p[1] \in cancelled /\ ~IsStuck(p)) => []<>(state[p] \in {"absent", "ended"})

\* If an invalid update is skipped, the old configuration continues being used:
\* unless an evaluation hangs, every endpoint goes on being evaluated.
MonitoringContinues ==
    \A e \in Endpoints :
        [](e \in configured /\ listener # "panicked" /\ \A p \in Goroutines : state[p] # "hanging")
            => []<>(\E g \in Generations : state[<<g, e>>] = "stored")
=============================================================================
