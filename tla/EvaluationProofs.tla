--------------------------- MODULE EvaluationProofs --------------------------
(***************************************************************************)
(* What an evaluation takes, for any number of endpoints, goroutines and   *)
(* connections: which endpoints of a suite run and what their context      *)
(* holds, what the verdict of an endpoint is about, the SSH connections    *)
(* that stay open, and the settings of the client that goroutines share.   *)
(***************************************************************************)
EXTENDS Suite, Evaluation, Tunnel, HttpClient, SequenceTheorems, TLAPS

-----------------------------------------------------------------------------
(* The suite. *)

\* One more result at the end of the results.
LEMMA AppendResult ==
    ASSUME NEW S, NEW q \in Seq(S), NEW e \in S
    PROVE  /\ Append(q, e) \in Seq(S)
           /\ Len(Append(q, e)) = Len(q) + 1 /\ Len(q) \in Nat
           /\ \A i \in 1 .. Len(q) : Append(q, e)[i] = q[i]
           /\ Append(q, e)[Len(q) + 1] = e
           /\ ToSet(Append(q, e)) = ToSet(q) \cup {e}
<1> DEFINE a == Append(q, e)
<1>1. /\ a \in Seq(S) /\ Len(a) = Len(q) + 1
      /\ \A i \in 1 .. Len(q) : a[i] = q[i]
      /\ a[Len(q) + 1] = e
    BY AppendProperties
<1>2. Len(q) \in Nat /\ DOMAIN q = 1 .. Len(q) /\ DOMAIN a = 1 .. Len(q) + 1
    BY <1>1, LenProperties
<1> HIDE DEF a
<1>3. ToSet(a) = ToSet(q) \cup {e}
    BY <1>1, <1>2 DEF ToSet
<1> QED BY <1>1, <1>2, <1>3 DEF a

\* The first endpoint that the loop has not come to.
Reached == IF phase = "alerting" THEN EndpointCount + 1 ELSE next

\* The results so far are those of endpoints before the one the loop is at, in
\* their order, and suiteHasFailed says whether one of them failed.
ResultsSoFar ==
    /\ \A m \in 1 .. Len(results) : results[m].endpoint < Reached
    /\ \A m, n \in 1 .. Len(results) : m < n => results[m].endpoint < results[n].endpoint
    /\ suiteHasFailed <=> \E r \in ToSet(results) : ~r.success

RanSoFar ==
    \A i \in 1 .. Reached - 1 : Ran(i) <=> AlwaysRun[i] \/ ~\E j \in 1 .. i - 1 : Failed(j)

SuccessIsCalculated == success <=> CalculateSuccess

ContextSoFar ==
    /\ \A k \in Keys :
        /\ context[k] \in Endpoints => Ran(context[k]) /\ k \in Stores[context[k]]
        /\ context[k] = Initial => k \in InitialContext
    /\ \A k \in extracted : context[k] \in Endpoints

SuiteInv ==
    /\ TypeOK
    /\ phase # "waiting" => ResultsSoFar /\ RanSoFar /\ ContextSoFar
    /\ phase = "evaluating" => ~suiteHasFailed \/ AlwaysRun[next]
    /\ phase = "alerting" => SuccessIsCalculated

\* A result is one of an endpoint of the suite.
LEMMA ResultsAreOfEndpoints ==
    ASSUME TypeOK
    PROVE  /\ Len(results) \in Nat
           /\ \A m \in 1 .. Len(results) : results[m] \in EndpointResult
           /\ \A r : r \in ToSet(results) <=> \E m \in 1 .. Len(results) : r = results[m]
           /\ \A r \in ToSet(results) : r.endpoint \in Endpoints /\ r.success \in BOOLEAN
<1>1. /\ results \in Seq(EndpointResult)
      /\ Len(results) \in Nat /\ DOMAIN results = 1 .. Len(results)
    BY LenProperties DEF TypeOK
<1>2. \A m \in 1 .. Len(results) : results[m] \in EndpointResult
    BY <1>1, ElementOfSeq
<1>3. \A r : r \in ToSet(results) <=> \E m \in 1 .. Len(results) : r = results[m]
    BY <1>1 DEF ToSet
<1> QED BY <1>1, <1>2, <1>3 DEF EndpointResult

\* The configured context is a context.
LEMMA FreshContext == Fresh \in [Keys -> Endpoints \union {Initial, Missing}]
<1>1. \A k \in Keys : Fresh[k] \in {Initial, Missing}
    BY DEF Fresh
<1> QED BY <1>1 DEF Fresh

\* A state in which an execution begins, or none has begun.
LEMMA FreshTypes ==
    /\ 1 \in 1 .. EndpointCount + 1
    /\ <<>> \in Seq(EndpointResult)
    /\ [i \in Endpoints |-> NoResult] \in [Endpoints -> EndpointResult \union {NoResult}]
    /\ Fresh \in [Keys -> Endpoints \union {Initial, Missing}]
<1>1. 1 \in 1 .. EndpointCount + 1
    BY SuiteAssumption
<1>2. <<>> \in Seq(EndpointResult)
    BY EmptySeq
<1> QED BY <1>1, <1>2, FreshContext

LEMMA SuiteInitEstablishes == Init => SuiteInv
<1> SUFFICES ASSUME Init PROVE SuiteInv
    OBVIOUS
<1>1. TypeOK
    BY FreshTypes DEF Init, TypeOK
<1> QED BY <1>1 DEF Init, SuiteInv

LEMMA SuiteNextKeeps == SuiteInv /\ [Next]_vars => SuiteInv'
<1> SUFFICES ASSUME SuiteInv, [Next]_vars PROVE SuiteInv'
    OBVIOUS
<1>0. /\ TypeOK /\ EndpointCount \in Nat \ {0} /\ Endpoints = 1 .. EndpointCount
      /\ AlwaysRun \in [Endpoints -> BOOLEAN] /\ Stores \in [Endpoints -> SUBSET Keys]
      /\ Initial \notin Endpoints /\ Missing \notin Endpoints /\ Initial # Missing
    BY SuiteAssumption DEF SuiteInv, Endpoints
<1>1. CASE UNCHANGED vars
    BY <1>0, <1>1 DEF vars, SuiteInv, TypeOK, ResultsSoFar, RanSoFar, ContextSoFar,
                      SuccessIsCalculated, CalculateSuccess, Ran, Failed, Reached
<1>2. CASE Execute
  <2>1. <<>> \in Seq(EndpointResult) /\ Len(<<>>) = 0 /\ ToSet(<<>>) = {}
      BY EmptySeq DEF ToSet
  <2>2. TypeOK'
      BY <1>2, FreshTypes DEF Execute, TypeOK
  <2>3. (ResultsSoFar /\ RanSoFar)'
      BY <1>2, <2>1 DEF Execute, ResultsSoFar, RanSoFar, Reached
  <2>4. ContextSoFar'
      BY <1>0, <1>2 DEF Execute, ContextSoFar, Fresh
  <2> QED BY <1>2, <2>2, <2>3, <2>4 DEF Execute, SuiteInv
<1>3. CASE TimerFires
  <2>1. TypeOK' /\ phase # "alerting"
      BY <1>0, <1>3 DEF TimerFires, TypeOK
  <2>2. UNCHANGED <<phase, next, context, suiteHasFailed, results, extracted>>
      BY <1>3 DEF TimerFires
  <2> QED BY <2>1, <2>2 DEF SuiteInv, ResultsSoFar, RanSoFar, ContextSoFar, Ran, Failed, Reached
<1>4. CASE Skip
  <2>1. TypeOK'
      BY <1>0, <1>4 DEF Skip, TypeOK
  <2>2. /\ ResultsSoFar /\ RanSoFar /\ ContextSoFar
        /\ phase = "looping" /\ phase' = "looping" /\ next' = next + 1 /\ next \in 1 .. EndpointCount
        /\ Reached = next /\ Reached' = next + 1
        /\ UNCHANGED <<context, suiteHasFailed, results, extracted>>
        /\ suiteHasFailed /\ ~AlwaysRun[next]
      BY <1>0, <1>4 DEF Skip, SuiteInv, Reached
  <2>3. ResultsSoFar'
      BY <1>0, <2>2, ResultsAreOfEndpoints DEF ResultsSoFar, EndpointResult
  <2>4. ~Ran(next) /\ \E j \in 1 .. next - 1 : Failed(j)
      BY SMTT(60), <1>0, <2>2, ResultsAreOfEndpoints DEF ResultsSoFar, Ran, Failed
  <2>5. RanSoFar'
      BY <2>2, <2>4 DEF RanSoFar, Ran, Failed
  <2>6. ContextSoFar'
      BY <2>2 DEF ContextSoFar, Ran
  <2> QED BY <2>1, <2>2, <2>3, <2>5, <2>6 DEF SuiteInv
<1>5. CASE CheckTimeout
  <2>1. TypeOK'
      BY <1>0, <1>5 DEF CheckTimeout, TypeOK
  <2>2. /\ phase = "looping" /\ phase' = "evaluating"
        /\ UNCHANGED <<next, context, suiteHasFailed, results, extracted>>
        /\ ~suiteHasFailed \/ AlwaysRun[next]
      BY <1>5 DEF CheckTimeout
  <2> QED BY <2>1, <2>2 DEF SuiteInv, ResultsSoFar, RanSoFar, ContextSoFar, Ran, Failed, Reached
<1>6. CASE Evaluate
  <2>1. PICK healthy \in BOOLEAN, stored \in SUBSET Stores[next], result_ \in EndpointResult :
          /\ result_.endpoint = next
          /\ context' = [k \in Keys |-> IF k \in stored THEN next ELSE context[k]]
          /\ extracted' = extracted \union stored
          /\ results' = Append(results, result_)
          /\ suiteHasFailed' = (suiteHasFailed \/ ~result_.success)
          /\ success' = (success /\ result_.success)
      BY <1>0, <1>6 DEF Evaluate, StoreResultValues, EndpointResult, TypeOK
  <2>2. /\ phase = "evaluating" /\ phase' = "looping" /\ next' = next + 1 /\ next \in 1 .. EndpointCount
        /\ UNCHANGED <<timer, errors, handled>>
        /\ ResultsSoFar /\ RanSoFar /\ ContextSoFar
        /\ ~suiteHasFailed \/ AlwaysRun[next]
        /\ Reached = next /\ Reached' = next + 1
      BY <1>0, <1>6 DEF Evaluate, SuiteInv, TypeOK, Reached
  <2>3. /\ results' \in Seq(EndpointResult)
        /\ Len(results') = Len(results) + 1 /\ Len(results) \in Nat
        /\ \A i \in 1 .. Len(results) : results'[i] = results[i]
        /\ results'[Len(results) + 1] = result_
        /\ ToSet(results') = ToSet(results) \cup {result_}
      BY <1>0, <2>1, AppendResult DEF TypeOK
  <2>4. TypeOK'
    <3>1. result_.success \in BOOLEAN /\ stored \subseteq Keys
        BY <1>0, <2>1, <2>2 DEF EndpointResult
    <3> QED BY <1>0, <2>1, <2>2, <2>3, <3>1 DEF TypeOK
  <2>5. ResultsSoFar'
    <3>1. \A m \in 1 .. Len(results) : results[m].endpoint < next /\ results[m].endpoint \in Endpoints
        BY <1>0, <2>2, ResultsAreOfEndpoints DEF ResultsSoFar, EndpointResult
    <3>2. \A m \in 1 .. Len(results') : results'[m].endpoint < Reached'
        BY <1>0, <2>1, <2>2, <2>3, <3>1
    <3>3. \A m, n \in 1 .. Len(results') : m < n => results'[m].endpoint < results'[n].endpoint
        BY <2>1, <2>2, <2>3, <3>1 DEF ResultsSoFar
    <3>4. suiteHasFailed' <=> \E r \in ToSet(results') : ~r.success
        BY <2>1, <2>2, <2>3 DEF ResultsSoFar
    <3> QED BY <3>2, <3>3, <3>4 DEF ResultsSoFar
  <2>6. \A i \in 1 .. next - 1 : (Ran(i)' <=> Ran(i)) /\ (Failed(i)' <=> Failed(i))
      BY <2>1, <2>2, <2>3 DEF Ran, Failed
  <2>7. PICK n \in Endpoints : n = next /\ Ran(n)'
      BY <1>0, <2>1, <2>2, <2>3 DEF Ran
  <2>8. AlwaysRun[next] \/ ~\E j \in 1 .. next - 1 : Failed(j)
      BY <2>2 DEF ResultsSoFar, Failed
  <2>9. RanSoFar'
      BY <2>2, <2>6, <2>7, <2>8 DEF RanSoFar
  <2>10. ContextSoFar'
    <3>1. \A i : Ran(i) => Ran(i)'
        BY <2>3 DEF Ran
    <3>2. next \in Endpoints /\ next # Initial
        BY <1>0, <2>2
    <3>3. ASSUME NEW k \in Keys, NEW i \in Endpoints, context'[k] = i
          PROVE  Ran(i)' /\ k \in Stores[i]
      <4>1. CASE k \in stored
          BY <2>1, <2>7, <3>3, <4>1
      <4>2. CASE k \notin stored
          BY <2>1, <2>2, <3>1, <3>3, <4>2 DEF ContextSoFar
      <4> QED BY <4>1, <4>2
    <3>4. \A k \in Keys : context'[k] = Initial => k \in InitialContext
        BY <2>1, <2>2, <3>2 DEF ContextSoFar
    <3>5. \A k \in extracted' : context'[k] \in Endpoints
        BY <1>0, <2>1, <2>2, <3>2 DEF ContextSoFar, TypeOK
    <3> QED BY <3>3, <3>4, <3>5 DEF ContextSoFar
  <2> QED BY <2>2, <2>4, <2>5, <2>9, <2>10 DEF SuiteInv
<1>7. CASE Finish
  <2>1. TypeOK'
      BY <1>0, <1>7 DEF Finish, TypeOK, CalculateSuccess
  <2>2. /\ phase = "looping" /\ phase' = "alerting" /\ Reached' = Reached
        /\ UNCHANGED <<context, suiteHasFailed, errors, results, extracted>>
        /\ success' = CalculateSuccess
      BY <1>7 DEF Finish, Reached
  <2> QED BY ZenonT(60), <2>1, <2>2 DEF SuiteInv, ResultsSoFar, RanSoFar, ContextSoFar, Ran, Failed,
                            SuccessIsCalculated, CalculateSuccess
<1>8. CASE Alert
  <2>1. TypeOK'
    <3>1. next <= Len(results) => results[next] \in EndpointResult
        BY <1>0, <1>8, ResultsAreOfEndpoints DEF Alert
    <3>2. handled' \in [Endpoints -> EndpointResult \union {NoResult}]
        BY <1>0, <1>8, <3>1 DEF Alert, TypeOK
    <3> QED BY <1>0, <1>8, <3>2 DEF Alert, TypeOK
  <2>2. /\ phase = "alerting" /\ Reached' = Reached
        /\ UNCHANGED <<phase, context, suiteHasFailed, success, errors, results, extracted>>
      BY <1>8 DEF Alert, Reached
  <2> QED BY <2>1, <2>2 DEF SuiteInv, ResultsSoFar, RanSoFar, ContextSoFar, Ran, Failed,
                            SuccessIsCalculated, CalculateSuccess
<1>9. CASE Done
    BY <1>0, <1>9 DEF Done, SuiteInv, TypeOK
<1> QED BY <1>1, <1>2, <1>3, <1>4, <1>5, <1>6, <1>7, <1>8, <1>9 DEF Next

LEMMA SuiteInvariant == Spec => []SuiteInv
<1> QED BY SuiteInitEstablishes, SuiteNextKeeps, PTL DEF Spec

\* Whatever suite is configured, and whenever its timer fires, the endpoints that
\* ran are those that had to, and the stored verdict is theirs.
THEOREM RightEndpointsAlwaysRan == Spec => []RightEndpointsRan
<1>1. SuiteInv => RightEndpointsRan
  <2> SUFFICES ASSUME SuiteInv, phase = "alerting"
               PROVE  /\ success <=> (\A i \in Endpoints : Ran(i) /\ ~Failed(i)) /\ ~errors
                      /\ \A i \in Endpoints : Ran(i) <=> AlwaysRun[i] \/ ~\E j \in 1 .. i - 1 : Failed(j)
                      /\ \A m, n \in 1 .. Len(results) :
                            m < n => results[m].endpoint < results[n].endpoint
      BY DEF RightEndpointsRan
  <2>1. /\ ResultsSoFar /\ RanSoFar /\ SuccessIsCalculated /\ TypeOK
        /\ Endpoints = 1 .. Reached - 1 /\ EndpointCount \in Nat
      BY SuiteAssumption DEF SuiteInv, Reached, Endpoints
  <2>2. \A i \in Endpoints : Ran(i) <=> AlwaysRun[i] \/ ~\E j \in 1 .. i - 1 : Failed(j)
      BY <2>1 DEF RanSoFar
  <2>3. (\A r \in ToSet(results) : r.success) <=> \A i \in Endpoints : ~Failed(i)
      BY <2>1, ResultsAreOfEndpoints DEF Failed
  <2>4. (\A i \in Endpoints : ~Failed(i)) => \A i \in Endpoints : Ran(i)
      BY <2>1, <2>2 DEF Endpoints
  <2> QED BY <2>1, <2>2, <2>3, <2>4 DEF SuccessIsCalculated, CalculateSuccess, ResultsSoFar
<1> QED BY <1>1, SuiteInvariant, PTL

\* Nothing leaks from one execution of a suite to the next, and nothing that was
\* extracted is missing from the context.
THEOREM ContextIsAlwaysOfThisExecution == Spec => []ContextIsOfThisExecution
<1>1. SuiteInv => ContextIsOfThisExecution
    BY DEF SuiteInv, ContextSoFar, ContextIsOfThisExecution
<1> QED BY <1>1, SuiteInvariant, PTL

\* The suite's state keeps its shapes.
THEOREM SuiteTypeCorrect == Spec => []TypeOK
<1>1. SuiteInv => TypeOK
    BY DEF SuiteInv
<1> QED BY <1>1, SuiteInvariant, PTL

-----------------------------------------------------------------------------
(* The SSH tunnel. *)

TunnelSpec == TunnelInit /\ [][TunnelNext]_tunnelVars

TunnelInv == TunnelTypeOK /\ NoConnectionIsLeaked

LEMMA TunnelNextKeeps == TunnelInv /\ [TunnelNext]_tunnelVars => TunnelInv'
<1> SUFFICES ASSUME TunnelInv, [TunnelNext]_tunnelVars PROVE TunnelInv'
    OBVIOUS
<1> USE TunnelAssumption DEF TunnelInv, TunnelTypeOK, NoConnectionIsLeaked, MaxRetries
<1>1. CASE UNCHANGED tunnelVars
    BY <1>1 DEF tunnelVars
<1>2. ASSUME NEW g \in Dialers, ReadClient(g) PROVE TunnelInv'
    BY <1>2 DEF ReadClient, Goto
<1>3. ASSUME NEW g \in Dialers, ConnectOnce(g) PROVE TunnelInv'
  <2>1. CASE tunnelClient # NoClient
      BY <1>3, <2>1 DEF ConnectOnce, Goto
  <2>2. CASE tunnelClient = NoClient
    <3>1. opened = {} /\ working = {}
        BY <2>2
    <3> QED BY <1>3, <2>2, <3>1 DEF ConnectOnce, connectUnsafe, Goto, Return
  <2> QED BY <2>1, <2>2
<1>4. ASSUME NEW g \in Dialers, DialSucceeds(g) PROVE TunnelInv'
    BY <1>4 DEF DialSucceeds, Return
<1>5. ASSUME NEW g \in Dialers, DialFails(g) PROVE TunnelInv'
    BY <1>5 DEF DialFails, NextAttempt, Return, Goto
<1>6. ASSUME NEW g \in Dialers, Reconnect(g) PROVE TunnelInv'
  <2>1. opened \ {tunnelClient} = {}
      OBVIOUS
  <2>2. CASE connectUnsafe(g, {}) /\ Goto(g, "dial") /\ UNCHANGED attempt
      BY <2>2 DEF connectUnsafe, Goto
  <2>3. CASE /\ tunnelClient' = NoClient
             /\ \/ /\ attempt[g] + 1 < MaxRetries
                   /\ NextAttempt(g)
                   /\ ConnectFails(g, {})
                \/ /\ attempt[g] + 1 = MaxRetries
                   /\ Return(g)
                   /\ opened' = {}
                   /\ working' = working \cap {}
      BY <2>3 DEF NextAttempt, ConnectFails, Return, Goto
  <2> QED BY <1>6, <2>1, <2>2, <2>3 DEF Reconnect
<1>7. CASE CloseTunnel
    BY <1>7 DEF CloseTunnel
<1>8. ASSUME NEW c \in SshClients, ServerDrops(c) PROVE TunnelInv'
    BY <1>8 DEF ServerDrops
<1> QED BY <1>1, <1>2, <1>3, <1>4, <1>5, <1>6, <1>7, <1>8 DEF TunnelNext

LEMMA TunnelInvariant == TunnelSpec => []TunnelInv
<1>1. TunnelInit => TunnelInv
    BY DEF TunnelInit, TunnelInv, TunnelTypeOK, NoConnectionIsLeaked, MaxRetries
<1> QED BY <1>1, TunnelNextKeeps, PTL DEF TunnelSpec

\* However many goroutines connect, reconnect and close the tunnel at once, and
\* whenever the server drops a connection, at most the tunnel's own is open.
THEOREM NoConnectionIsEverLeaked == TunnelSpec => []NoConnectionIsLeaked
<1>1. TunnelInv => NoConnectionIsLeaked
    BY DEF TunnelInv
<1> QED BY <1>1, TunnelInvariant, PTL

-----------------------------------------------------------------------------
(* The HTTP client. *)

HttpClientSpec == HttpClientInit /\ [][HttpClientNext]_httpClientVars

ClientPointers == [base : Callers, wraps : Nat]

CallingStates ==
    {"outside", "create", "proxy", "resolver", "auth", "token", "tunnel", "return"}

ClientShapes ==
    /\ configured \subseteq Settings
    /\ httpClient \in ClientPointers \cup {NilClient}
    /\ applied \in [Callers -> SUBSET Settings]
    /\ calling \in [Callers -> CallingStates]
    /\ wrapping \in [Callers -> ClientPointers \cup {NilClient}]
    /\ panicked \in BOOLEAN /\ refused \in BOOLEAN

\* The clients that c.httpClient is or can become again.
InPlay(b) ==
    \/ httpClient # NilClient /\ httpClient.base = b
    \/ \E g \in Callers : wrapping[g] # NilClient /\ wrapping[g].base = b

\* Where a goroutine is that has not made a setting yet.
BeforeSetting(setting) ==
    CASE setting = "proxy" -> {"proxy"}
      [] setting = "resolver" -> {"proxy", "resolver"}
      [] OTHER -> {"proxy", "resolver", "auth", "token", "tunnel"}

\* The goroutine that made a client has configured it as far as it has come.
ConfiguredSoFar(b, setting) ==
    setting \in configured /\ calling[b] \notin BeforeSetting(setting) => setting \in applied[b]

NothingBeforeCreation ==
    /\ httpClient = NilClient =>
        \A g \in Callers : calling[g] \in {"outside", "create"} /\ wrapping[g] = NilClient
    /\ \A g \in Callers : InPlay(g) => calling[g] # "create"

WrappingHasAClient ==
    \A g \in Callers :
        IF calling[g] = "token" THEN AsksForToken /\ wrapping[g] # NilClient
        ELSE wrapping[g] = NilClient

WrappedInTheEnd ==
    httpClient # NilClient =>
        /\ ~AsksForToken => httpClient.wraps = 0
        /\ AsksForToken /\ ~panicked /\ ~refused /\ httpClient.wraps = 0 =>
                calling[httpClient.base] \in {"proxy", "resolver", "auth", "token"}

\* Without OAuth2 and IAP the client that is there was made last, and is the one
\* that its creator configures.
LastClientIsConfigured ==
    httpClient # NilClient /\ ~AsksForToken =>
        \A setting \in {"proxy", "resolver", "tunnel"} : ConfiguredSoFar(httpClient.base, setting)

\* With two goroutines, one that wraps the other's new client has it in
\* c.httpClient as long as the other has not configured it.
TwoConfigureTheirOwn ==
    TwoAtOnce =>
        /\ ~panicked => \A b \in Callers : InPlay(b) =>
                ConfiguredSoFar(b, "proxy") /\ ConfiguredSoFar(b, "resolver")
        /\ \A g \in Callers : \A b \in Callers :
                /\ calling[g] = "token" /\ wrapping[g] # NilClient /\ wrapping[g].base = b
                /\ calling[b] \in {"proxy", "resolver"}
                => httpClient.base = b

HttpClientInv ==
    /\ ClientShapes
    /\ NothingBeforeCreation
    /\ WrappingHasAClient
    /\ WrappedInTheEnd
    /\ LastClientIsConfigured
    /\ TwoConfigureTheirOwn

LEMMA HttpClientInitEstablishes == HttpClientInit => HttpClientInv
<1> USE HttpClientAssumption DEF HttpClientInit, ClientPointers
<1>1. HttpClientInit => ClientShapes
    BY DEF ClientShapes, CallingStates
<1>2. HttpClientInit => NothingBeforeCreation /\ WrappingHasAClient
    BY DEF NothingBeforeCreation, WrappingHasAClient, InPlay
<1>3. HttpClientInit => WrappedInTheEnd /\ LastClientIsConfigured
    BY DEF WrappedInTheEnd, LastClientIsConfigured
<1>4. HttpClientInit => TwoConfigureTheirOwn
    BY DEF TwoConfigureTheirOwn, InPlay
<1> QED BY <1>1, <1>2, <1>3, <1>4 DEF HttpClientInv

\* The Config is loaded while there is no client and nobody makes one.
LEMMA LoadingKeeps ==
    ASSUME HttpClientInv, LoadClientConfig
    PROVE  HttpClientInv'
<1>1. /\ httpClient = NilClient /\ httpClient' = NilClient /\ configured' \subseteq Settings
      /\ \A g \in Callers : calling[g] = "outside" /\ wrapping[g] = NilClient
      /\ UNCHANGED <<applied, calling, wrapping, panicked, refused>>
    BY DEF LoadClientConfig, At, HttpClientInv, NothingBeforeCreation
<1>2. ClientShapes'
    BY <1>1 DEF HttpClientInv, ClientShapes
<1>3. NothingBeforeCreation' /\ WrappingHasAClient'
    BY <1>1 DEF NothingBeforeCreation, WrappingHasAClient, InPlay
<1>4. WrappedInTheEnd' /\ LastClientIsConfigured'
    BY <1>1 DEF WrappedInTheEnd, LastClientIsConfigured
<1>5. TwoConfigureTheirOwn'
    BY <1>1 DEF TwoConfigureTheirOwn, InPlay
<1> QED BY <1>2, <1>3, <1>4, <1>5 DEF HttpClientInv

\* A goroutine that comes or goes changes no client.
LEMMA ComingAndGoingKeeps ==
    ASSUME HttpClientInv, NEW g \in Callers, CheckNil(g) \/ ReturnClient(g)
    PROVE  HttpClientInv'
<1>1. PICK where \in {"create", "return", "outside"} :
        /\ calling' = [calling EXCEPT ![g] = where]
        /\ where = "create" => httpClient = NilClient
        /\ where # "create" => httpClient # NilClient
    BY DEF CheckNil, ReturnClient, Go, At, HttpClientInv, ClientShapes, CallingStates, NothingBeforeCreation
<1>2. /\ UNCHANGED <<configured, httpClient, applied, wrapping, panicked, refused>>
      /\ AsksForToken' = AsksForToken
      /\ calling \in [Callers -> CallingStates] /\ calling[g] \in {"outside", "return"}
    BY DEF CheckNil, ReturnClient, At, HttpClientInv, ClientShapes, AsksForToken
<1>3. ClientShapes'
    BY <1>1, <1>2 DEF HttpClientInv, ClientShapes, CallingStates
<1>4. \A b \in Callers : InPlay(b)' <=> InPlay(b)
    BY <1>2 DEF InPlay
<1>5. NothingBeforeCreation'
    BY <1>1, <1>2, <1>4 DEF HttpClientInv, NothingBeforeCreation, InPlay
<1>6. WrappingHasAClient'
    BY <1>1, <1>2 DEF HttpClientInv, WrappingHasAClient
<1>7. ASSUME NEW b \in Callers, NEW setting, ConfiguredSoFar(b, setting)
      PROVE  ConfiguredSoFar(b, setting)'
    BY <1>1, <1>2, <1>7 DEF ConfiguredSoFar, BeforeSetting
<1>8. httpClient # NilClient => httpClient.base \in Callers
    BY DEF HttpClientInv, ClientShapes, ClientPointers
<1>9. WrappedInTheEnd'
    BY <1>1, <1>2, <1>8 DEF HttpClientInv, WrappedInTheEnd
<1>10. LastClientIsConfigured'
    BY <1>2, <1>7, <1>8 DEF HttpClientInv, LastClientIsConfigured, ConfiguredSoFar
<1>11. TwoConfigureTheirOwn'
    BY <1>1, <1>2, <1>4, <1>7 DEF HttpClientInv, TwoConfigureTheirOwn
<1> QED BY <1>3, <1>5, <1>6, <1>9, <1>10, <1>11 DEF HttpClientInv

\* A new client is the one its creator goes on to configure.
LEMMA CreateKeeps ==
    ASSUME HttpClientInv, NEW g \in Callers, Create(g)
    PROVE  HttpClientInv'
<1>1. /\ calling' = [calling EXCEPT ![g] = "proxy"] /\ calling[g] = "create"
      /\ httpClient' = [base |-> g, wraps |-> 0]
      /\ httpClient' \in ClientPointers /\ httpClient'.base = g /\ httpClient'.wraps = 0
      /\ httpClient' # NilClient
      /\ UNCHANGED <<configured, applied, wrapping, panicked, refused>> /\ AsksForToken' = AsksForToken
      /\ calling \in [Callers -> CallingStates]
    BY HttpClientAssumption DEF Create, Go, At, HttpClientInv, ClientShapes, ClientPointers, AsksForToken
<1>2. ClientShapes'
    BY <1>1 DEF HttpClientInv, ClientShapes, CallingStates
<1>3. ~InPlay(g) /\ \A b \in Callers : InPlay(b)' => b = g \/ InPlay(b)
    BY <1>1 DEF HttpClientInv, NothingBeforeCreation, InPlay
<1>4. NothingBeforeCreation'
    BY <1>1, <1>3 DEF HttpClientInv, NothingBeforeCreation
<1>5. WrappingHasAClient'
    BY <1>1 DEF HttpClientInv, WrappingHasAClient
<1>6. WrappedInTheEnd'
    BY <1>1 DEF WrappedInTheEnd
<1>7. \A setting \in {"proxy", "resolver", "tunnel"} : ConfiguredSoFar(g, setting)'
    BY <1>1 DEF ConfiguredSoFar, BeforeSetting
<1>8. LastClientIsConfigured'
    BY <1>1, <1>7 DEF LastClientIsConfigured, ConfiguredSoFar
<1>9. ASSUME NEW b \in Callers, b # g, NEW setting, ConfiguredSoFar(b, setting)
      PROVE  ConfiguredSoFar(b, setting)'
    BY <1>1, <1>9 DEF ConfiguredSoFar
<1>10. TwoConfigureTheirOwn'
  <2> SUFFICES ASSUME TwoAtOnce PROVE TwoConfigureTheirOwn'
      BY DEF TwoConfigureTheirOwn, TwoAtOnce
  <2>1. ASSUME ~panicked, NEW b \in Callers, InPlay(b)'
        PROVE  ConfiguredSoFar(b, "proxy")' /\ ConfiguredSoFar(b, "resolver")'
      BY <1>1, <1>3, <1>7, <1>9, <2>1 DEF HttpClientInv, TwoConfigureTheirOwn
  <2>2. ASSUME NEW h \in Callers, NEW b \in Callers,
               calling'[h] = "token", wrapping'[h] # NilClient, wrapping'[h].base = b,
               calling'[b] \in {"proxy", "resolver"}
        PROVE  httpClient'.base = b
    <3>1. h # g /\ calling[h] = "token" /\ h # b
        BY <1>1, <2>2
    <3>2. InPlay(b) /\ b # g
        BY <1>1, <1>3, <2>2 DEF InPlay
    <3> QED BY <3>1, <3>2 DEF TwoAtOnce
  <2> QED BY <1>1, <2>1, <2>2 DEF TwoConfigureTheirOwn
<1> QED BY <1>2, <1>4, <1>5, <1>6, <1>8, <1>10 DEF HttpClientInv

\* A setting is made on the client that is there: with two goroutines, or when
\* no client is wrapped, that is the one whose configuration needs it.
LEMMA ApplyKeeps ==
    ASSUME HttpClientInv, NEW g \in Callers,
           NEW setting \in {"proxy", "resolver"}, NEW where \in {"resolver", "auth"},
           calling[g] = setting, setting = "proxy" <=> where = "resolver",
           Apply(g, setting, where), UNCHANGED <<configured, httpClient, wrapping, refused>>
    PROVE  HttpClientInv'
<1>1. /\ httpClient # NilClient /\ httpClient \in ClientPointers /\ httpClient.base \in Callers
      /\ calling \in [Callers -> CallingStates] /\ applied \in [Callers -> SUBSET Settings]
      /\ wrapping[g] = NilClient /\ AsksForToken' = AsksForToken
    BY DEF HttpClientInv, ClientShapes, ClientPointers, NothingBeforeCreation, WrappingHasAClient,
           AsksForToken
<1>2. PICK to \in {where, "return"} : calling' = [calling EXCEPT ![g] = to]
    BY DEF Apply, Go
<1>3. /\ to = "return" => panicked' /\ AsksForToken
      /\ panicked => panicked'
      /\ to = "return" \/ setting \notin configured \/ setting \in applied'[httpClient.base]
    BY <1>1, <1>2 DEF Apply, Go, HttpClientInv, WrappedInTheEnd, ClientPointers
<1>4. \A b \in Callers : applied[b] \subseteq applied'[b]
    BY <1>1 DEF Apply
<1>5. ClientShapes'
  <2>1. applied' \in [Callers -> SUBSET Settings]
      BY <1>1 DEF Apply, Settings
  <2>2. panicked' \in BOOLEAN /\ calling' \in [Callers -> CallingStates]
      BY <1>1, <1>2 DEF Apply, HttpClientInv, ClientShapes, CallingStates
  <2> QED BY <2>1, <2>2 DEF HttpClientInv, ClientShapes
<1>6. \A b \in Callers : InPlay(b)' <=> InPlay(b)
    BY DEF InPlay
<1>7. NothingBeforeCreation'
    BY <1>1, <1>2, <1>6 DEF HttpClientInv, NothingBeforeCreation
<1>8. WrappingHasAClient'
    BY <1>1, <1>2 DEF HttpClientInv, WrappingHasAClient
<1>9. WrappedInTheEnd'
    BY <1>1, <1>2, <1>3 DEF HttpClientInv, WrappedInTheEnd
<1>10. ASSUME NEW b \in Callers, NEW s \in Settings, ConfiguredSoFar(b, s),
              b = g => to = "return" \/ b = httpClient.base \/ s \notin {"proxy", "resolver"}
       PROVE  (to = "return" /\ b = g) \/ ConfiguredSoFar(b, s)'
    BY <1>1, <1>2, <1>3, <1>4, <1>10 DEF ConfiguredSoFar, BeforeSetting, Settings
<1>11. LastClientIsConfigured'
    BY <1>1, <1>2, <1>3, <1>10 DEF HttpClientInv, LastClientIsConfigured, ConfiguredSoFar, Settings
<1>12. TwoConfigureTheirOwn'
  <2> SUFFICES ASSUME TwoAtOnce PROVE TwoConfigureTheirOwn'
      BY DEF TwoConfigureTheirOwn, TwoAtOnce
  <2>1. ASSUME ~panicked', NEW b \in Callers, InPlay(b)
        PROVE  ConfiguredSoFar(b, "proxy")' /\ ConfiguredSoFar(b, "resolver")'
    <3>1. ConfiguredSoFar(b, "proxy") /\ ConfiguredSoFar(b, "resolver")
        BY <1>3, <2>1 DEF HttpClientInv, TwoConfigureTheirOwn
    <3>2. b = g => b = httpClient.base
      <4> SUFFICES ASSUME InPlay(g) PROVE httpClient.base = g
          BY <2>1
      <4>1. ASSUME NEW h \in Callers, wrapping[h] # NilClient, wrapping[h].base = g
            PROVE  httpClient.base = g
        <5>1. calling[h] = "token"
            BY <4>1 DEF HttpClientInv, WrappingHasAClient
        <5> QED BY <4>1, <5>1 DEF HttpClientInv, TwoConfigureTheirOwn
      <4> QED BY <4>1 DEF InPlay
    <3> QED BY <1>3, <1>10, <2>1, <3>1, <3>2 DEF Settings
  <2>2. ASSUME NEW h \in Callers, NEW b \in Callers,
               calling'[h] = "token", wrapping[h] # NilClient, wrapping[h].base = b,
               calling'[b] \in {"proxy", "resolver"}
        PROVE  httpClient.base = b
    <3>1. calling[h] = "token" /\ calling[b] \in {"proxy", "resolver"}
        BY <1>1, <1>2, <2>2
    <3> QED BY <2>2, <3>1 DEF HttpClientInv, TwoConfigureTheirOwn
  <2> QED BY <1>6, <2>1, <2>2 DEF TwoConfigureTheirOwn
<1> QED BY <1>5, <1>7, <1>8, <1>9, <1>11, <1>12 DEF HttpClientInv

\* The client that is read is wrapped later, if a token is asked for at all.
LEMMA ReadingKeeps ==
    ASSUME HttpClientInv, NEW g \in Callers, ReadClientToWrap(g)
    PROVE  HttpClientInv'
<1>1. /\ calling[g] = "auth" /\ httpClient # NilClient /\ httpClient \in ClientPointers
      /\ calling \in [Callers -> CallingStates]
      /\ wrapping \in [Callers -> ClientPointers \cup {NilClient}] /\ wrapping[g] = NilClient
      /\ UNCHANGED <<configured, httpClient, applied, panicked, refused>> /\ AsksForToken' = AsksForToken
    BY DEF ReadClientToWrap, At, HttpClientInv, ClientShapes, NothingBeforeCreation, WrappingHasAClient,
           AsksForToken
<1>2. \/ /\ AsksForToken
         /\ wrapping' = [wrapping EXCEPT ![g] = httpClient] /\ calling' = [calling EXCEPT ![g] = "token"]
      \/ /\ ~AsksForToken
         /\ UNCHANGED wrapping /\ calling' = [calling EXCEPT ![g] = "tunnel"]
    BY DEF ReadClientToWrap, Go
<1>3. ClientShapes'
    BY <1>1, <1>2 DEF HttpClientInv, ClientShapes, CallingStates
<1>4. \A b \in Callers : InPlay(b)' <=> InPlay(b)
    BY <1>1, <1>2 DEF InPlay
<1>5. NothingBeforeCreation'
    BY <1>1, <1>2, <1>4 DEF HttpClientInv, NothingBeforeCreation
<1>6. WrappingHasAClient'
    BY <1>1, <1>2 DEF HttpClientInv, WrappingHasAClient
<1>7. httpClient.base \in Callers
    BY <1>1 DEF ClientPointers
<1>8. WrappedInTheEnd'
    BY <1>1, <1>2, <1>7 DEF HttpClientInv, WrappedInTheEnd
<1>9. ASSUME NEW b \in Callers, NEW setting, ConfiguredSoFar(b, setting)
      PROVE  ConfiguredSoFar(b, setting)'
    BY <1>1, <1>2, <1>9 DEF ConfiguredSoFar, BeforeSetting
<1>10. LastClientIsConfigured'
    BY <1>1, <1>7, <1>9 DEF HttpClientInv, LastClientIsConfigured, ConfiguredSoFar
<1>11. TwoConfigureTheirOwn'
  <2> SUFFICES ASSUME TwoAtOnce PROVE TwoConfigureTheirOwn'
      BY DEF TwoConfigureTheirOwn, TwoAtOnce
  <2>1. ASSUME ~panicked, NEW b \in Callers, InPlay(b)'
        PROVE  ConfiguredSoFar(b, "proxy")' /\ ConfiguredSoFar(b, "resolver")'
      BY <1>4, <1>9, <2>1 DEF HttpClientInv, TwoConfigureTheirOwn
  <2>2. ASSUME NEW h \in Callers, NEW b \in Callers,
               calling'[h] = "token", wrapping'[h] # NilClient, wrapping'[h].base = b,
               calling'[b] \in {"proxy", "resolver"}
        PROVE  httpClient.base = b
    <3>1. CASE h = g
        BY <1>1, <1>2, <2>2, <3>1
    <3>2. CASE h # g
      <4>1. /\ calling[h] = "token" /\ wrapping[h] # NilClient /\ wrapping[h].base = b
            /\ calling[b] \in {"proxy", "resolver"}
          BY <1>1, <1>2, <2>2, <3>2
      <4> QED BY <4>1 DEF HttpClientInv, TwoConfigureTheirOwn
    <3> QED BY <3>1, <3>2
  <2> QED BY <1>1, <2>1, <2>2 DEF TwoConfigureTheirOwn
<1> QED BY <1>3, <1>5, <1>6, <1>8, <1>10, <1>11 DEF HttpClientInv

\* The client that was read comes back, wrapped or after a refusal as it was.
LEMMA WrappingKeeps ==
    ASSUME HttpClientInv, NEW g \in Callers, AssignWrapped(g) \/ AssignUnwrapped(g)
    PROVE  HttpClientInv'
<1>1. /\ calling[g] = "token" /\ AsksForToken
      /\ calling \in [Callers -> CallingStates]
      /\ wrapping \in [Callers -> ClientPointers \cup {NilClient}] /\ wrapping[g] # NilClient
      /\ wrapping' = [wrapping EXCEPT ![g] = NilClient]
      /\ calling' = [calling EXCEPT ![g] = "tunnel"]
      /\ UNCHANGED <<configured, applied, panicked>> /\ AsksForToken' = AsksForToken
      /\ refused' \in BOOLEAN
    BY DEF AssignWrapped, AssignUnwrapped, At, Go, HttpClientInv, ClientShapes, WrappingHasAClient,
           AsksForToken
<1>2. /\ httpClient' \in ClientPointers /\ httpClient' # NilClient
      /\ httpClient'.base = wrapping[g].base /\ httpClient'.base \in Callers
      /\ httpClient'.wraps > 0 \/ refused'
  <2>1. wrapping[g] \in [base : Callers, wraps : Nat]
      BY <1>1 DEF ClientPointers
  <2>2. CASE AssignWrapped(g)
    <3>1. httpClient' = [wrapping[g] EXCEPT !.wraps = @ + 1]
        BY <2>2 DEF AssignWrapped
    <3> QED BY <2>1, <3>1, HttpClientAssumption DEF ClientPointers
  <2>3. CASE AssignUnwrapped(g)
    <3>1. httpClient' = wrapping[g] /\ refused'
        BY <2>3 DEF AssignUnwrapped
    <3> QED BY <2>1, <3>1, HttpClientAssumption DEF ClientPointers
  <2> QED BY <2>2, <2>3
<1>3. httpClient # NilClient
    BY <1>1 DEF HttpClientInv, NothingBeforeCreation
<1>4. ClientShapes'
    BY <1>1, <1>2 DEF HttpClientInv, ClientShapes, CallingStates
<1>5. \A b \in Callers : InPlay(b)' => InPlay(b)
    BY <1>1, <1>2 DEF InPlay
<1>6. NothingBeforeCreation'
    BY <1>1, <1>2, <1>5 DEF HttpClientInv, NothingBeforeCreation
<1>7. WrappingHasAClient'
    BY <1>1 DEF HttpClientInv, WrappingHasAClient
<1>8. WrappedInTheEnd' /\ LastClientIsConfigured'
    BY <1>1, <1>2 DEF WrappedInTheEnd, LastClientIsConfigured
<1>9. ASSUME NEW b \in Callers, NEW setting \in {"proxy", "resolver"}, ConfiguredSoFar(b, setting)
      PROVE  ConfiguredSoFar(b, setting)'
    BY <1>1, <1>9 DEF ConfiguredSoFar, BeforeSetting
<1>10. TwoConfigureTheirOwn'
  <2> SUFFICES ASSUME TwoAtOnce PROVE TwoConfigureTheirOwn'
      BY DEF TwoConfigureTheirOwn, TwoAtOnce
  <2>1. ASSUME ~panicked, NEW b \in Callers, InPlay(b)'
        PROVE  ConfiguredSoFar(b, "proxy")' /\ ConfiguredSoFar(b, "resolver")'
      BY <1>5, <1>9, <2>1 DEF HttpClientInv, TwoConfigureTheirOwn
  <2>2. ASSUME NEW h \in Callers, NEW b \in Callers,
               calling'[h] = "token", wrapping'[h] # NilClient, wrapping'[h].base = b,
               calling'[b] \in {"proxy", "resolver"}
        PROVE  httpClient'.base = b
      \* Both g and h wrap, so that nobody else is there to be b.
      BY <1>1, <2>2 DEF TwoAtOnce
  <2> QED BY <1>1, <2>1, <2>2 DEF TwoConfigureTheirOwn
<1> QED BY <1>4, <1>6, <1>7, <1>8, <1>10 DEF HttpClientInv

\* The tunnel is the last setting, and only a client that is not wrapped gets it.
LEMMA TunnelKeeps ==
    ASSUME HttpClientInv, NEW g \in Callers, SetTunnel(g)
    PROVE  HttpClientInv'
<1>1. /\ calling[g] = "tunnel" /\ httpClient # NilClient /\ httpClient \in ClientPointers
      /\ httpClient.base \in Callers
      /\ calling \in [Callers -> CallingStates] /\ applied \in [Callers -> SUBSET Settings]
      /\ calling' = [calling EXCEPT ![g] = "return"]
      /\ UNCHANGED <<configured, httpClient, wrapping, panicked, refused>> /\ AsksForToken' = AsksForToken
    BY DEF SetTunnel, At, Go, HttpClientInv, ClientShapes, ClientPointers, NothingBeforeCreation,
           AsksForToken
<1>2. /\ applied' \in [Callers -> SUBSET Settings]
      /\ \A b \in Callers : applied[b] \subseteq applied'[b]
      /\ "tunnel" \in configured /\ httpClient.wraps = 0 => "tunnel" \in applied'[httpClient.base]
    BY <1>1 DEF SetTunnel, Settings
<1>3. ClientShapes'
    BY <1>1, <1>2 DEF HttpClientInv, ClientShapes, CallingStates
<1>4. \A b \in Callers : InPlay(b)' <=> InPlay(b)
    BY <1>1 DEF InPlay
<1>5. NothingBeforeCreation'
    BY <1>1, <1>4 DEF HttpClientInv, NothingBeforeCreation
<1>6. WrappingHasAClient'
    BY <1>1 DEF HttpClientInv, WrappingHasAClient
<1>7. WrappedInTheEnd'
    BY <1>1 DEF HttpClientInv, WrappedInTheEnd
<1>8. ASSUME NEW b \in Callers, NEW setting \in {"proxy", "resolver"}, ConfiguredSoFar(b, setting)
      PROVE  ConfiguredSoFar(b, setting)'
    BY <1>1, <1>2, <1>8 DEF ConfiguredSoFar, BeforeSetting
<1>9. LastClientIsConfigured'
  <2> SUFFICES ASSUME ~AsksForToken
               PROVE  \A setting \in {"proxy", "resolver", "tunnel"} :
                        ConfiguredSoFar(httpClient.base, setting)'
      BY <1>1 DEF LastClientIsConfigured, ConfiguredSoFar
  <2>1. PICK b \in Callers : b = httpClient.base
      BY <1>1
  <2>2. \A setting \in {"proxy", "resolver", "tunnel"} : ConfiguredSoFar(b, setting)
      BY <1>1, <2>1 DEF HttpClientInv, LastClientIsConfigured
  <2>3. ConfiguredSoFar(b, "tunnel")'
      BY <1>1, <1>2, <2>1, <2>2 DEF HttpClientInv, WrappedInTheEnd, ConfiguredSoFar, BeforeSetting
  <2> QED BY <1>1, <1>8, <2>1, <2>2, <2>3 DEF ConfiguredSoFar
<1>10. TwoConfigureTheirOwn'
    BY <1>1, <1>4, <1>8 DEF HttpClientInv, TwoConfigureTheirOwn
<1> QED BY <1>3, <1>5, <1>6, <1>7, <1>9, <1>10 DEF HttpClientInv

LEMMA HttpClientNextKeeps == HttpClientInv /\ [HttpClientNext]_httpClientVars => HttpClientInv'
<1> SUFFICES ASSUME HttpClientInv, [HttpClientNext]_httpClientVars PROVE HttpClientInv'
    OBVIOUS
<1>1. CASE UNCHANGED httpClientVars
    BY <1>1 DEF httpClientVars, HttpClientInv, ClientShapes, NothingBeforeCreation, WrappingHasAClient,
                WrappedInTheEnd, LastClientIsConfigured, TwoConfigureTheirOwn, ConfiguredSoFar, InPlay,
                AsksForToken
<1>2. ASSUME NEW g \in Callers, SetProxy(g) PROVE HttpClientInv'
    BY <1>2, ApplyKeeps DEF SetProxy, At
<1>3. ASSUME NEW g \in Callers, SetResolver(g) PROVE HttpClientInv'
    BY <1>3, ApplyKeeps DEF SetResolver, At
<1> QED BY <1>1, <1>2, <1>3, LoadingKeeps, ComingAndGoingKeeps, CreateKeeps, ReadingKeeps,
           WrappingKeeps, TunnelKeeps DEF HttpClientNext

LEMMA HttpClientInvariant == HttpClientSpec => []HttpClientInv
<1> QED BY HttpClientInitEstablishes, HttpClientNextKeeps, PTL DEF HttpClientSpec

\* Whatever number of goroutines make the first call at once, the client that
\* remains asks for a token if it has to and none was refused, and without one is
\* fully configured; with two goroutines it has the proxy and the resolver in any case.
THEOREM QuietClientIsAlwaysComplete == HttpClientSpec => []QuietClientIsComplete
<1>1. HttpClientInv => QuietClientIsComplete
  <2> SUFFICES ASSUME HttpClientInv, ~panicked, \A g \in Callers : calling[g] = "outside",
                      httpClient # NilClient
               PROVE  /\ AsksForToken /\ ~refused => httpClient.wraps > 0
                      /\ ~AsksForToken =>
                            /\ httpClient.wraps = 0
                            /\ configured \ {"oauth2", "iap"} \subseteq applied[httpClient.base]
                      /\ TwoAtOnce => configured \cap {"proxy", "resolver"} \subseteq applied[httpClient.base]
      BY DEF QuietClientIsComplete, Quiet
  <2>1. /\ httpClient.base \in Callers /\ httpClient.wraps \in Nat /\ InPlay(httpClient.base)
        /\ configured \subseteq Settings
      BY DEF HttpClientInv, ClientShapes, ClientPointers, InPlay
  <2>2. \A setting \in Settings :
            ConfiguredSoFar(httpClient.base, setting) /\ setting \in configured
                => setting \in applied[httpClient.base]
      BY <2>1 DEF ConfiguredSoFar, BeforeSetting
  <2>3. /\ AsksForToken /\ ~refused => httpClient.wraps > 0
        /\ ~AsksForToken => httpClient.wraps = 0
      BY <2>1 DEF HttpClientInv, WrappedInTheEnd
  <2>4. ~AsksForToken => configured \ {"oauth2", "iap"} \subseteq applied[httpClient.base]
      BY <2>1, <2>2 DEF HttpClientInv, LastClientIsConfigured, Settings
  <2>5. TwoAtOnce => configured \cap {"proxy", "resolver"} \subseteq applied[httpClient.base]
      BY <2>1, <2>2 DEF HttpClientInv, TwoConfigureTheirOwn, Settings
  <2> QED BY <2>3, <2>4, <2>5
<1> QED BY <1>1, HttpClientInvariant, PTL

-----------------------------------------------------------------------------
(* The endpoint. *)

EvaluationSpec == EvaluationInit /\ [][EvaluationNext]_evaluationVars

\* Reading less than there is changes nothing but the body of an HTTP answer,
\* unless the answer breaks off.
LEMMA AnswerWithoutBody ==
    ASSUME NEW e, e.type \in Types, NEW reads \in BOOLEAN, NEW p \in Peers,
           ~AnswerOf(e, TRUE, p).error
    PROVE  /\ ~AnswerOf(e, reads, p).error
           /\ AnswerOf(e, reads, p).status = AnswerOf(e, TRUE, p).status
           /\ AnswerOf(e, reads, p).connected = AnswerOf(e, TRUE, p).connected
           /\ reads => AnswerOf(e, reads, p).body = AnswerOf(e, TRUE, p).body
<1>1. CASE e.type # "HTTP"
  <2>1. AnswerOf(e, reads, p) = AnswerOf(e, TRUE, p)
      BY <1>1 DEF AnswerOf, Types
  <2> QED BY <2>1
<1>2. CASE e.type = "HTTP"
  <2>1. AnswerOf(e, TRUE, p) = Do(TRUE, p) /\ AnswerOf(e, reads, p) = Do(reads, p)
      BY <1>2 DEF AnswerOf
  <2>2. CASE p.manner = "answers"
    <3>1. \A r \in BOOLEAN :
            /\ Do(r, p).status = p.status /\ Do(r, p).connected = TRUE
            /\ Do(r, p).error = (r /\ p.manner = "truncates")
        BY <2>2 DEF Do
    <3>2. reads => reads = TRUE
        OBVIOUS
    <3> QED BY <2>1, <2>2, <3>1, <3>2
  <2>3. CASE p.manner = "truncates"
    <3>1. Do(TRUE, p).error = TRUE
        BY <2>3 DEF Do
    <3> QED BY <2>1, <3>1
  <2>4. CASE p.manner \notin {"truncates", "answers"}
      BY <2>1, <2>4 DEF Do, ByDeadline, Error, NotConnected, Peers, Manners
  <2> QED BY <2>2, <2>3, <2>4
<1> QED BY <1>1, <1>2

\* A call that only the peer can end ends with an error.
LEMMA BlockedCallFails ==
    ASSUME NEW e, e.type \in Types, NEW reads \in BOOLEAN, NEW p \in Peers,
           AnswerOf(e, reads, p).returns = "if the peer ends it"
    PROVE  AnswerOf(e, TRUE, p).error
<1> USE DEF ByDeadline, Unbounded, Error, Connected, NotConnected
<1>0. p.manner \in Manners
    BY DEF Peers, Manners
<1>1. e.type # "HTTP"
    BY <1>0 DEF AnswerOf, Do, Manners
<1>2. AnswerOf(e, reads, p) = AnswerOf(e, TRUE, p)
    BY <1>1 DEF AnswerOf, Types
<1>3. CASE e.type = "STARTTLS"
    BY <1>0, <1>2, <1>3 DEF AnswerOf, CanPerformStartTLS, Manners
<1>4. CASE e.type = "SSH"
    BY <1>0, <1>2, <1>4 DEF AnswerOf, SSHCommand, CanCreateSSHConnection, ExecuteSSHCommand, Manners
<1>5. CASE e.type = "WEBSOCKET"
    BY <1>0, <1>2, <1>5 DEF AnswerOf, QueryWebSocket, Manners
<1>6. CASE e.type \in {"TCP", "UDP"}
    BY <1>0, <1>2, <1>6 DEF AnswerOf, CanCreateNetworkConnection, Manners
<1>7. CASE e.type \in {"SCTP", "TLS", "SSH banner", "ICMP", "DNS", "GRPC"}
    BY <1>0, <1>2, <1>7 DEF AnswerOf, CanCreateSCTPConnection, CanPerformTLS, CheckSSHBanner, Ping,
                            QueryDNS, PerformGRPCHealthCheck, Manners
<1> QED BY <1>1, <1>3, <1>4, <1>5, <1>6, <1>7 DEF Types

\* A condition tells two results apart only by what its placeholder stands for.
LEMMA ConditionSeesItsPlaceholder ==
    ASSUME NEW c, c.left.of \in Placeholders, NEW r, NEW s, NEW ctx,
           c.left.of = "[STATUS]" => r.status = s.status,
           c.left.of = "[IP]" => r.ip = s.ip,
           c.left.of = "[CONNECTED]" => r.connected = s.connected,
           c.left.of = "[DOMAIN_EXPIRATION]" => r.domainExpiration = s.domainExpiration,
           c.left.of \in {"[BODY]", "[BODY].status"} => r.body = s.body
    PROVE  EvaluateCondition(c, r, ctx) = EvaluateCondition(c, s, ctx)
<1>1. ResolvePlaceholder(c.left, r, ctx) = ResolvePlaceholder(c.left, s, ctx)
    BY DEF ResolvePlaceholder, Placeholders
<1> QED BY <1>1 DEF EvaluateCondition

\* A condition is fulfilled or not.
LEMMA ConditionIsBoolean ==
    ASSUME NEW c, c.op \in Operators, NEW r, NEW ctx
    PROVE  EvaluateCondition(c, r, ctx) \in BOOLEAN
<1>1. ASSUME NEW left PROVE Satisfies(left, c.op, c.right) \in BOOLEAN
  <2>1. isEqual(left, c.right) \in BOOLEAN
    <3>1. CASE c.right.kind \in {"pat", "any"}
      <4>1. isEqual(left, c.right) = (left \in c.right.values)
          BY <3>1 DEF isEqual
      <4> QED BY <4>1
    <3>2. CASE c.right.kind \notin {"pat", "any"}
        BY <3>2, Zenon DEF isEqual
    <3> QED BY <3>1, <3>2
  <2>2. \A v : Number(v) \in Int
      BY DEF Number
  <2>3. CASE c.op \in {"==", "!="}
      BY <2>1, <2>3 DEF Satisfies
  <2>4. CASE c.op \in {"<=", ">=", ">", "<"}
    <3>1. \A x, y \in Int : {x <= y, x >= y, x > y, x < y} \subseteq BOOLEAN
        OBVIOUS
    <3> DEFINE n == Number(left)
               m == Number(Literal(c.right))
    <3>2. n \in Int /\ m \in Int
        BY <2>2
    <3> HIDE DEF n, m
    <3>3. Satisfies(left, c.op, c.right) \in {n <= m, n >= m, n > m, n < m}
      <4> USE DEF n, m, Satisfies
      <4>1. CASE c.op = "<="
          BY <4>1
      <4>2. CASE c.op = ">="
          BY <4>2
      <4>3. CASE c.op = ">"
          BY <4>3
      <4>4. CASE c.op = "<"
          BY <4>4
      <4> QED BY <2>4, <4>1, <4>2, <4>3, <4>4
    <3> QED BY <3>1, <3>2, <3>3
  <2> QED BY <2>3, <2>4 DEF Operators
<1> QED BY <1>1 DEF EvaluateCondition

\* What a condition needs to be known before the endpoint is called is known.
LookedUp ==
    /\ needsToRetrieveIP => result.ip = world.ip
    /\ (\E c \in ToSet(endpoint.conditions) : hasDomainExpirationPlaceholder(c))
            => result.domainExpiration = world.domainExpiration

\* A call that was answered kept of the answer what a condition can ask for.
Kept ==
    ~AnswerOf(endpoint, TRUE, world.answered).error =>
        LET a == AnswerOf(endpoint, TRUE, world.answered)
        IN  /\ result.success /\ LookedUp
            /\ result.status = a.status /\ result.connected = a.connected
            /\ needsToReadBody => result.body = a.body

EvaluationInv ==
    /\ DOMAIN result = {"success", "errors", "hostname", "ip", "body", "status", "connected",
                        "domainExpiration", "conditionResults"}
    /\ DOMAIN world = {"ip", "domainExpiration", "answered"}
    /\ result.success \in BOOLEAN
    /\ evaluating # "idle" => endpoint \in Monitored
    /\ world.answered \in Peers \cup {Nobody}
    /\ evaluating \in {"idle", "lookups", "asking", "call"} => world.answered = Nobody
    /\ evaluating \in {"lookups", "asking"} => result.success /\ (result.hostname \/ result.errors # {})
    /\ evaluating = "call" => result.success /\ LookedUp
    /\ evaluating = "blocked" =>
            /\ world.answered # Nobody
            /\ AnswerOf(endpoint, needsToReadBody, world.answered).returns = "if the peer ends it"
    /\ evaluating = "conditions" /\ world.answered # Nobody => Kept
    /\ VerdictMatchesResponse

LEMMA EvaluationInitEstablishes == EvaluationInit => EvaluationInv
<1> SUFFICES ASSUME EvaluationInit PROVE EvaluationInv
    OBVIOUS
<1>1. /\ DOMAIN result = {"success", "errors", "hostname", "ip", "body", "status", "connected",
                          "domainExpiration", "conditionResults"}
      /\ result.success = TRUE
    BY DEF EvaluationInit, NewResult
<1>2. DOMAIN world = {"ip", "domainExpiration", "answered"} /\ world.answered = Nobody
    BY DEF EvaluationInit, Unknown
<1> QED BY <1>1, <1>2 DEF EvaluationInit, EvaluationInv, VerdictMatchesResponse, Answered

LEMMA BeginKeeps == ASSUME EvaluationInv, BeginEvaluation PROVE EvaluationInv'
<1>1. PICK e \in Monitored, ctx \in Contexts, parses \in BOOLEAN :
        endpoint' = e /\ result' = ParseHost(preprocessWithContext(e, ctx), parses)
    BY DEF BeginEvaluation
<1>2. /\ DOMAIN result' = {"success", "errors", "hostname", "ip", "body", "status", "connected",
                           "domainExpiration", "conditionResults"}
      /\ result'.success = TRUE /\ (result'.hostname \/ result'.errors # {})
    BY <1>1 DEF ParseHost, preprocessWithContext, AddError, NewResult
<1> QED BY <1>1, <1>2 DEF EvaluationInv, BeginEvaluation, VerdictMatchesResponse, Answered

\* The endpoint is only called when every lookup that it needs succeeded.
LEMMA LookUpKeeps == ASSUME EvaluationInv, LookUp \/ RegistryAnswers PROVE EvaluationInv'
<1>1. PICK ip \in {"", "9"}, left \in {"", "11"} :
        /\ world' = [world EXCEPT !.ip = ip, !.domainExpiration = left]
        /\ LET withIP == IF needsToRetrieveIP THEN getIP(result, ip) ELSE result
               complete == IF needsToRetrieveDomainExpiration THEN getDomainExpiration(withIP, left)
                           ELSE withIP
           IN  IF complete.errors = {}
               THEN result' = complete /\ evaluating' = "call"
               ELSE result' = [complete EXCEPT !.success = FALSE] /\ evaluating' = "conditions"
    BY DEF LookUp, RegistryAnswers, FindOut
<1> DEFINE withIP == IF needsToRetrieveIP THEN getIP(result, ip) ELSE result
           complete == IF needsToRetrieveDomainExpiration THEN getDomainExpiration(withIP, left)
                       ELSE withIP
<1>2. /\ evaluating \in {"lookups", "asking"} /\ endpoint \in Monitored /\ endpoint' = endpoint
      /\ result.success = TRUE /\ (result.hostname \/ result.errors # {})
      /\ DOMAIN world' = {"ip", "domainExpiration", "answered"}
      /\ world'.answered = Nobody /\ world'.ip = ip /\ world'.domainExpiration = left
    BY <1>1 DEF EvaluationInv, LookUp, RegistryAnswers, FindOut
<1>3. /\ DOMAIN withIP = DOMAIN result /\ withIP.success = TRUE /\ withIP.hostname = result.hostname
      /\ withIP.errors = {} => result.errors = {} /\ (needsToRetrieveIP => withIP.ip = ip)
    BY <1>2 DEF getIP, AddError, EvaluationInv
<1>4. /\ DOMAIN complete = DOMAIN result /\ complete.success = TRUE
      /\ complete.errors = {} =>
            /\ withIP.errors = {} /\ complete.ip = withIP.ip
            /\ needsToRetrieveDomainExpiration => complete.domainExpiration = left
  <2> HIDE DEF withIP
  <2> QED BY <1>3 DEF getDomainExpiration, AddError, EvaluationInv
<1> HIDE DEF withIP, complete
<1>5. \/ result' = complete /\ evaluating' = "call" /\ complete.errors = {}
      \/ result' = [complete EXCEPT !.success = FALSE] /\ evaluating' = "conditions"
    BY <1>1 DEF withIP, complete
<1>6. CASE evaluating' = "call"
  <2>1. LookedUp'
      BY <1>2, <1>3, <1>4, <1>5, <1>6 DEF LookedUp, needsToRetrieveIP, needsToRetrieveDomainExpiration
  <2> QED BY <1>2, <1>4, <1>5, <1>6, <2>1 DEF EvaluationInv, VerdictMatchesResponse, Answered
<1>7. CASE evaluating' = "conditions"
    BY <1>2, <1>4, <1>5, <1>7 DEF EvaluationInv, VerdictMatchesResponse, Answered
<1> QED BY <1>5, <1>6, <1>7

\* What an answer without an error leaves in the result.
LEMMA CalledKeeps ==
    ASSUME EvaluationInv, LookedUp, result.success, endpoint \in Monitored, NEW p \in Peers,
           UNCHANGED endpoint, result' = Called(result, AnswerOf(endpoint, needsToReadBody, p)),
           DOMAIN world' = DOMAIN world, world'.answered = p,
           world'.ip = world.ip, world'.domainExpiration = world.domainExpiration
    PROVE  Kept' /\ DOMAIN result' = DOMAIN result /\ result'.success \in BOOLEAN
<1>1. endpoint.type \in Types /\ needsToReadBody \in BOOLEAN
    BY EvaluationAssumption DEF needsToReadBody
<1>2. DOMAIN result' = DOMAIN result /\ result'.success \in BOOLEAN
    BY DEF Called, AddError, EvaluationInv
<1>3. ASSUME ~AnswerOf(endpoint, TRUE, p).error
      PROVE  /\ result'.success /\ LookedUp'
             /\ result'.status = AnswerOf(endpoint, TRUE, p).status
             /\ result'.connected = AnswerOf(endpoint, TRUE, p).connected
             /\ needsToReadBody' => result'.body = AnswerOf(endpoint, TRUE, p).body
  <2>1. PICK a : a = AnswerOf(endpoint, needsToReadBody, p)
      OBVIOUS
  <2>2. /\ ~a.error /\ a.status = AnswerOf(endpoint, TRUE, p).status
        /\ a.connected = AnswerOf(endpoint, TRUE, p).connected
        /\ needsToReadBody => a.body = AnswerOf(endpoint, TRUE, p).body
      BY <1>1, <1>3, <2>1, AnswerWithoutBody
  <2>3. result' = [result EXCEPT !.connected = a.connected, !.status = a.status,
                       !.body = IF endpoint.type \notin {"SSH", "GRPC"} \/ needsToReadBody
                                THEN a.body ELSE ""]
      BY <2>1, <2>2 DEF Called
  <2>4. needsToReadBody' = needsToReadBody
      BY DEF needsToReadBody
  <2>5. LookedUp'
      BY <2>3 DEF EvaluationInv, LookedUp, needsToRetrieveIP
  <2> QED BY <2>2, <2>3, <2>4, <2>5 DEF EvaluationInv
<1> QED BY <1>2, <1>3 DEF Kept

LEMMA CallKeeps == ASSUME EvaluationInv, NEW p \in Peers, Call(p) PROVE EvaluationInv'
<1>1. /\ evaluating = "call" /\ endpoint \in Monitored /\ LookedUp /\ result.success
      /\ endpoint' = endpoint /\ world' = [world EXCEPT !.answered = p] /\ evaluating' = "conditions"
      /\ result' = Called(result, AnswerOf(endpoint, needsToReadBody, p))
    BY DEF Call, EvaluationInv
<1>2. /\ DOMAIN world' = DOMAIN world /\ world'.answered = p
      /\ world'.ip = world.ip /\ world'.domainExpiration = world.domainExpiration
    BY <1>1 DEF EvaluationInv
<1>3. Kept' /\ DOMAIN result' = DOMAIN result /\ result'.success \in BOOLEAN
    BY <1>1, <1>2, CalledKeeps
<1> QED BY <1>1, <1>2, <1>3 DEF EvaluationInv, VerdictMatchesResponse, Answered

LEMMA BlockingKeeps ==
    ASSUME EvaluationInv, NEW p \in Peers, CallBlocks(p) \/ PeerEndsIt
    PROVE  EvaluationInv'
<1>1. CASE CallBlocks(p)
  <2>1. /\ endpoint \in Monitored /\ p # Nobody
        /\ AnswerOf(endpoint, needsToReadBody, p).returns = "if the peer ends it"
        /\ world' = [world EXCEPT !.answered = p] /\ evaluating' = "blocked"
        /\ UNCHANGED <<endpoint, result>>
    <3>1. p.manner # Nobody.manner
        BY DEF Peers, Manners, Nobody
    <3> QED BY <1>1, <3>1 DEF CallBlocks, EvaluationInv
  <2>2. DOMAIN world' = DOMAIN world /\ world'.answered = p /\ needsToReadBody' = needsToReadBody
      BY <2>1 DEF EvaluationInv, needsToReadBody
  <2> QED BY <2>1, <2>2 DEF EvaluationInv, VerdictMatchesResponse, Answered
<1>2. CASE PeerEndsIt
  <2>1. /\ evaluating = "blocked" /\ endpoint \in Monitored /\ evaluating' = "conditions"
        /\ result' = Called(result, AnswerOf(endpoint, needsToReadBody, world.answered))
        /\ UNCHANGED <<endpoint, world>>
        /\ world.answered \in Peers
        /\ AnswerOf(endpoint, needsToReadBody, world.answered).returns = "if the peer ends it"
      BY <1>2 DEF PeerEndsIt, EvaluationInv
  <2>2. DOMAIN result' = DOMAIN result /\ result'.success \in BOOLEAN
      BY <2>1 DEF Called, AddError, EvaluationInv
  <2>3. AnswerOf(endpoint, TRUE, world.answered).error
    <3>1. endpoint.type \in Types /\ needsToReadBody \in BOOLEAN
        BY <2>1, EvaluationAssumption DEF needsToReadBody
    <3> QED BY <2>1, <3>1, BlockedCallFails
  <2>4. Kept'
      BY <2>1, <2>3 DEF Kept
  <2> QED BY <2>1, <2>2, <2>4 DEF EvaluationInv, VerdictMatchesResponse, Answered
<1> QED BY <1>1, <1>2

\* What was kept is enough for every condition that is written in capitals.
LEMMA ConditionsKeep == ASSUME EvaluationInv, EvaluateConditions PROVE EvaluationInv'
<1> DEFINE verdicts == [i \in DOMAIN endpoint.conditions |->
                            EvaluateCondition(endpoint.conditions[i], result, suiteContext)]
<1>1. /\ evaluating = "conditions" /\ endpoint \in Monitored /\ evaluating' = "redact"
      /\ result' = [result EXCEPT !.conditionResults = verdicts,
                                  !.success = @ /\ FALSE \notin ToSet(verdicts)]
      /\ UNCHANGED <<endpoint, suiteContext, world>>
    BY DEF EvaluateConditions, EvaluationInv
<1>2. ToSet(verdicts) = {EvaluateCondition(c, result, suiteContext) : c \in ToSet(endpoint.conditions)}
    BY DEF ToSet
<1> HIDE DEF verdicts
<1>3. /\ DOMAIN result' = DOMAIN result /\ result'.body = result.body
      /\ result'.success = (result.success /\ FALSE \notin ToSet(verdicts))
    BY <1>1 DEF EvaluationInv
<1>4. ASSUME Answered', InCapitals'
      PROVE  /\ result'.success =
                (\A c \in ToSet(endpoint.conditions) : EvaluateCondition(c, Eager, suiteContext))
             /\ endpoint.stores => result'.body = Eager.body
  <2>1. /\ ~AnswerOf(endpoint, TRUE, world.answered).error /\ world.answered # Nobody
        /\ \A c \in ToSet(endpoint.conditions) : c.left.capitals
      BY <1>1, <1>4 DEF Answered, InCapitals
  <2>2. /\ result.success /\ LookedUp
        /\ result.status = Eager.status /\ result.connected = Eager.connected
        /\ needsToReadBody => result.body = Eager.body
      BY <1>1, <2>1 DEF EvaluationInv, Kept, Eager
  <2>3. world.ip = Eager.ip /\ world.domainExpiration = Eager.domainExpiration
      BY DEF Eager
  <2>4. ASSUME NEW c \in ToSet(endpoint.conditions)
        PROVE  /\ EvaluateCondition(c, result, suiteContext) = EvaluateCondition(c, Eager, suiteContext)
               /\ EvaluateCondition(c, Eager, suiteContext) \in BOOLEAN
    <3>1. c.left.of \in Placeholders /\ c.op \in Operators /\ c.left.capitals
        BY <1>1, <2>1, EvaluationAssumption
    <3>2. /\ c.left.of = "[IP]" => result.ip = Eager.ip
          /\ c.left.of = "[DOMAIN_EXPIRATION]" => result.domainExpiration = Eager.domainExpiration
          /\ c.left.of \in {"[BODY]", "[BODY].status"} => result.body = Eager.body
        BY <2>2, <2>3, <3>1 DEF LookedUp, needsToRetrieveIP, needsToReadBody, hasIPPlaceholder,
                               hasDomainExpirationPlaceholder, hasBodyPlaceholder
    <3> QED BY <2>2, <3>1, <3>2, ConditionSeesItsPlaceholder, ConditionIsBoolean
  <2>5. FALSE \notin ToSet(verdicts)
            <=> \A c \in ToSet(endpoint.conditions) : EvaluateCondition(c, Eager, suiteContext)
      BY <1>2, <2>4
  <2> QED BY <1>3, <2>2, <2>5 DEF needsToReadBody
<1>5. VerdictMatchesResponse'
  <2>1. Eager' = Eager
      BY <1>1 DEF Eager
  <2> QED BY <1>1, <1>4, <2>1 DEF VerdictMatchesResponse
<1> QED BY <1>1, <1>3, <1>5 DEF EvaluationInv

LEMMA CleanUpKeeps == ASSUME EvaluationInv, CleanUp PROVE EvaluationInv'
<1>1. PICK hides \in Hides : result' = Redact(result, hides)
    BY DEF CleanUp
<1>2. DOMAIN result' = DOMAIN result /\ result'.success = result.success /\ result'.body = result.body
    BY <1>1 DEF Redact, EvaluationInv
<1>3. Answered' /\ InCapitals' => Answered /\ InCapitals /\ Eager' = Eager
    BY DEF CleanUp, Answered, InCapitals, Eager
<1>4. VerdictMatchesResponse'
    BY <1>2, <1>3 DEF CleanUp, EvaluationInv, VerdictMatchesResponse
<1> QED BY <1>2, <1>4 DEF CleanUp, EvaluationInv

LEMMA EvaluationNextKeeps == EvaluationInv /\ [EvaluationNext]_evaluationVars => EvaluationInv'
<1> SUFFICES ASSUME EvaluationInv, [EvaluationNext]_evaluationVars PROVE EvaluationInv'
    OBVIOUS
<1>1. CASE UNCHANGED evaluationVars
  <2>1. UNCHANGED <<evaluating, endpoint, suiteContext, result, world>>
      BY <1>1 DEF evaluationVars
  <2>2. /\ Kept' = Kept /\ needsToReadBody' = needsToReadBody /\ LookedUp' = LookedUp
        /\ VerdictMatchesResponse' = VerdictMatchesResponse
      BY <2>1 DEF Kept, LookedUp, needsToReadBody, needsToRetrieveIP, VerdictMatchesResponse, Answered,
                  InCapitals, Eager
  <2> QED BY <2>1, <2>2 DEF EvaluationInv
<1>2. CASE ReturnResult
  <2>1. evaluating' = "idle" /\ result' = NewResult /\ world' = Unknown
      BY <1>2 DEF ReturnResult
  <2>2. /\ DOMAIN result' = {"success", "errors", "hostname", "ip", "body", "status", "connected",
                             "domainExpiration", "conditionResults"}
        /\ result'.success = TRUE
      BY <2>1 DEF NewResult
  <2>3. DOMAIN world' = {"ip", "domainExpiration", "answered"} /\ world'.answered = Nobody
      BY <2>1 DEF Unknown
  <2> QED BY <2>1, <2>2, <2>3 DEF EvaluationInv, VerdictMatchesResponse, Answered
<1>3. CASE PeerEndsIt
  <2>1. [manner |-> "mute", status |-> "200", body |-> "plain text"] \in Peers
      BY DEF Peers, Manners
  <2> QED BY <1>3, <2>1, BlockingKeeps
<1>4. CASE LookUpBlocks
    BY <1>4 DEF LookUpBlocks, EvaluationInv, VerdictMatchesResponse, Answered
<1> QED BY <1>1, <1>2, <1>3, <1>4, BeginKeeps, LookUpKeeps, CallKeeps, BlockingKeeps, ConditionsKeep,
           CleanUpKeeps DEF EvaluationNext

\* Whatever the endpoints, their conditions and what is hidden from the
\* result, skipping lookups never changes the verdict on an answered call.
THEOREM VerdictAlwaysMatchesResponse == EvaluationSpec => []VerdictMatchesResponse
<1>1. EvaluationInv => VerdictMatchesResponse
    BY DEF EvaluationInv
<1> QED BY <1>1, EvaluationInitEstablishes, EvaluationNextKeeps, PTL DEF EvaluationSpec
=============================================================================
