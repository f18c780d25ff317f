------------------------------ MODULE Evaluation ------------------------------
(***************************************************************************)
(* config/endpoint/endpoint.go: EvaluateHealthWithContext, one step per    *)
(* thing that it asks somebody else for.  An endpoint is                   *)
(*   [type, body, resolver, conditions, stores, mentionsContext]           *)
(* : its protocol, the body it sends, whether its client has a DNS resolver*)
(* of its own, its conditions, whether a store mapping of the suite refers *)
(* to [BODY], and whether its URL, body or headers refer to [CONTEXT].id.  *)
(***************************************************************************)
EXTENDS Client, Conditions, SequencesExt

CONSTANTS
    Monitored,   \* the endpoints
    Contexts,    \* the values of [CONTEXT].id; "" is none, NoContext no suite
    Hides        \* what UIConfig may keep out of a result

Types == {"HTTP", "TCP", "UDP", "SCTP", "STARTTLS", "TLS", "SSH banner", "SSH",
          "ICMP", "WEBSOCKET", "DNS", "GRPC"}

\* Nothing, some text, or a JSON object: the command of an SSH endpoint.
SentBodies == {"nothing", "text", "command"}

ASSUME EvaluationAssumption ==
    /\ \A e \in Monitored :
        /\ e.type \in Types /\ e.body \in SentBodies
        /\ {e.resolver, e.stores, e.mentionsContext} \subseteq BOOLEAN
        /\ \A c \in ToSet(e.conditions) :
            /\ c.left.of \in Placeholders /\ c.left.capitals \in BOOLEAN
            /\ c.op \in Operators
    /\ Hides \subseteq SUBSET {"url", "hostname", "errors", "conditions"}

VARIABLES
    evaluating,  \* where the evaluation is
    endpoint,    \* the Endpoint
    suiteContext,\* the Gontext it is evaluated with
    result,      \* the Result
    world,       \* what the peer, the resolver and the registry said (auxiliary)
    hidden       \* UIConfig

evaluationVars == <<evaluating, endpoint, suiteContext, result, world, hidden>>

\* An error is the set of what its text mentions.
Silent == {}
NewResult == [success |-> TRUE, errors |-> {}, hostname |-> FALSE, ip |-> "", body |-> "",
              status |-> "0", connected |-> FALSE, domainExpiration |-> "0", conditionResults |-> <<>>]

NoEndpoint == [type |-> "none"]
Nobody == [manner |-> "none"]
Unknown == [ip |-> "", domainExpiration |-> "", answered |-> Nobody]

EvaluationInit ==
    /\ evaluating = "idle"
    /\ endpoint = NoEndpoint
    /\ suiteContext = NoContext
    /\ result = NewResult
    /\ world = Unknown
    /\ hidden = {}

AddError(r, error) == [r EXCEPT !.errors = @ \cup {error}]

\* A placeholder that is not found stays in the URL, and is an error.
preprocessWithContext(e, context) ==
    IF e.mentionsContext /\ context = "" THEN AddError(NewResult, Silent) ELSE NewResult

\* The URL of an HTTP endpoint may hold what is no host once the context was
\* filled in; the error quotes the URL.
ParseHost(r, parses) ==
    IF parses THEN [r EXCEPT !.hostname = TRUE] ELSE AddError(r, {"url"})

BeginEvaluation ==
    /\ evaluating = "idle"
    /\ \E e \in Monitored, context \in Contexts, parses \in BOOLEAN :
        /\ e.mentionsContext \/ parses
        /\ e.mentionsContext => context # NoContext
        /\ endpoint' = e
        /\ suiteContext' = context
        /\ result' = ParseHost(preprocessWithContext(e, context), parses)
    /\ evaluating' = "lookups"
    /\ UNCHANGED <<world, hidden>>

needsToRetrieveIP == \E c \in ToSet(endpoint.conditions) : hasIPPlaceholder(c)
needsToRetrieveDomainExpiration ==
    /\ \E c \in ToSet(endpoint.conditions) : hasDomainExpirationPlaceholder(c)
    /\ result.hostname
\* Slip: only the conditions are looked at.
conditionsNeedBody == \E c \in ToSet(endpoint.conditions) : hasBodyPlaceholder(c)

needsToReadBody ==
    \/ \E c \in ToSet(endpoint.conditions) : hasBodyPlaceholder(c)
    \/ endpoint.stores

\* The IP and the expiration of the domain are asked for when a condition
\* needs them; what fails is an error of the result.
getIP(r, ip) == IF ip = "" THEN AddError(r, {"hostname"}) ELSE [r EXCEPT !.ip = ip]
getDomainExpiration(r, left) ==
    IF left = "" THEN AddError(r, {"hostname"}) ELSE [r EXCEPT !.domainExpiration = left]

FindOut ==
    /\ \E ip \in {"", "9"}, left \in {"", "11"} :
        /\ world' = [world EXCEPT !.ip = ip, !.domainExpiration = left]
        /\ LET withIP == IF needsToRetrieveIP THEN getIP(result, ip) ELSE result
               complete == IF needsToRetrieveDomainExpiration THEN getDomainExpiration(withIP, left)
                           ELSE withIP
           IN  \* With an error the endpoint is not called, and unhealthy.
               IF complete.errors = {}
               THEN result' = complete /\ evaluating' = "call"
               ELSE result' = [complete EXCEPT !.success = FALSE] /\ evaluating' = "conditions"
    /\ UNCHANGED <<endpoint, suiteContext, hidden>>

LookUp == evaluating = "lookups" /\ FindOut

\* The client that asks the registry (RDAP) has no deadline: only the registry
\* ends the wait.
LookUpBlocks ==
    /\ evaluating = "lookups"
    /\ needsToRetrieveDomainExpiration
    /\ evaluating' = "asking"
    /\ UNCHANGED <<endpoint, suiteContext, result, world, hidden>>

RegistryAnswers == evaluating = "asking" /\ FindOut

AnswerOf(e, reads, p) ==
    CASE e.type \in {"TCP", "UDP"} -> CanCreateNetworkConnection(e.type, e.body # "nothing", p)
      [] e.type = "SCTP" -> CanCreateSCTPConnection(p)
      [] e.type = "STARTTLS" -> CanPerformStartTLS(e.resolver, p)
      [] e.type = "TLS" -> CanPerformTLS(e.body # "nothing", p)
      [] e.type = "SSH banner" -> CheckSSHBanner(p)
      [] e.type = "SSH" -> SSHCommand(e.body, p)
      [] e.type = "ICMP" -> Ping(p)
      [] e.type = "WEBSOCKET" -> QueryWebSocket(p)
      [] e.type = "DNS" -> QueryDNS(p)
      [] e.type = "GRPC" -> PerformGRPCHealthCheck(p)
      [] OTHER -> Do(reads, p)

\* The bodies of an SSH command and of gRPC are kept when they are needed.
\* An SSH call that fails is unhealthy; with every other protocol an error of
\* the call leaves the verdict to the conditions.
Called(r, a) ==
    LET keepsBody == endpoint.type \notin {"SSH", "GRPC"} \/ needsToReadBody
        told == [r EXCEPT !.connected = a.connected, !.status = a.status,
                          !.body = IF keepsBody THEN a.body ELSE ""]
    IN  IF ~a.error THEN told
        ELSE [AddError(told, {"url", "hostname"}) EXCEPT
                !.success = @ /\ ~(endpoint.type = "SSH" /\ a.connected)]

Call(p) ==
    /\ evaluating = "call"
    /\ LET a == AnswerOf(endpoint, needsToReadBody, p)
       IN  /\ a.returns # "if the peer ends it"
           /\ result' = Called(result, a)
           /\ world' = [world EXCEPT !.answered = p]
    /\ evaluating' = "conditions"
    /\ UNCHANGED <<endpoint, suiteContext, hidden>>

\* Nothing wakes the caller but the peer.
CallBlocks(p) ==
    /\ evaluating = "call"
    /\ AnswerOf(endpoint, needsToReadBody, p).returns = "if the peer ends it"
    /\ evaluating' = "blocked"
    /\ world' = [world EXCEPT !.answered = p]
    /\ UNCHANGED <<endpoint, suiteContext, result, hidden>>

PeerEndsIt ==
    /\ evaluating = "blocked"
    /\ result' = Called(result, AnswerOf(endpoint, needsToReadBody, world.answered))
    /\ evaluating' = "conditions"
    /\ UNCHANGED <<endpoint, suiteContext, world, hidden>>

\* Every condition is evaluated, with whatever was found out.
EvaluateConditions ==
    /\ evaluating = "conditions"
    /\ LET verdicts == [i \in DOMAIN endpoint.conditions |->
                            EvaluateCondition(endpoint.conditions[i], result, suiteContext)]
       IN  result' = [result EXCEPT !.conditionResults = verdicts,
                                    !.success = @ /\ FALSE \notin ToSet(verdicts)]
    /\ evaluating' = "redact"
    /\ UNCHANGED <<endpoint, suiteContext, world, hidden>>

\* What is hidden is taken out of the errors: the URL first, and with it the
\* host name inside it.
Redact(r, hides) ==
    LET withoutURL == IF "url" \in hides THEN {e \ {"url"} : e \in r.errors} ELSE r.errors
        withoutHost == IF "hostname" \in hides THEN {e \ {"hostname"} : e \in withoutURL} ELSE withoutURL
    IN  [r EXCEPT !.errors = IF "errors" \in hides THEN {} ELSE withoutHost,
                  !.hostname = @ /\ "hostname" \notin hides,
                  !.conditionResults = IF "conditions" \in hides THEN <<>> ELSE @]

CleanUp ==
    /\ evaluating = "redact"
    /\ \E hides \in Hides :
        /\ hidden' = hides
        /\ result' = Redact(result, hides)
    /\ evaluating' = "done"
    /\ UNCHANGED <<endpoint, suiteContext, world>>

ReturnResult ==
    /\ evaluating = "done"
    /\ evaluating' = "idle"
    /\ endpoint' = NoEndpoint
    /\ suiteContext' = NoContext
    /\ result' = NewResult
    /\ world' = Unknown
    /\ hidden' = {}

EvaluationNext ==
    \/ BeginEvaluation
    \/ LookUp \/ LookUpBlocks \/ RegistryAnswers
    \/ \E p \in Peers : Call(p) \/ CallBlocks(p)
    \/ PeerEndsIt
    \/ EvaluateConditions
    \/ CleanUp
    \/ ReturnResult

\* A goroutine runs until it has to wait for somebody else, and every wait ends
\* but the one for a peer without a deadline and the one for the registry.
EvaluationFairness ==
    WF_evaluationVars(\/ LookUp
                      \/ \E p \in Peers : Call(p) \/ CallBlocks(p)
                      \/ EvaluateConditions
                      \/ CleanUp
                      \/ ReturnResult)

EvaluationTypeOK ==
    /\ evaluating \in {"idle", "lookups", "asking", "call", "blocked", "conditions", "redact", "done"}
    /\ endpoint \in Monitored \cup {NoEndpoint}
    /\ suiteContext \in Contexts \cup {NoContext}
    /\ world \in [ip : STRING, domainExpiration : STRING, answered : Peers \cup {Nobody}]
    /\ hidden \in Hides \cup {{}}
    /\ result.errors \subseteq SUBSET {"url", "hostname"}
    /\ result.body \in Bodies /\ result.status \in Statuses \cup {"0", "1"}
    /\ {result.success, result.hostname, result.connected} \subseteq BOOLEAN

-----------------------------------------------------------------------------
(* Properties. *)

\* What the result would be if everything were always asked for and kept.
Eager ==
    LET a == AnswerOf(endpoint, TRUE, world.answered)
    IN  [status |-> a.status, connected |-> a.connected, body |-> a.body,
         ip |-> world.ip, domainExpiration |-> world.domainExpiration]

Answered ==
    /\ evaluating \in {"redact", "done"}
    /\ world.answered # Nobody
    /\ ~AnswerOf(endpoint, TRUE, world.answered).error

InCapitals == \A c \in ToSet(endpoint.conditions) : c.left.capitals

\* The IP, the expiration of the domain and the body are only retrieved when a
\* condition or a store mapping seems to need them.  The verdict on a call that
\* was answered is the one that all of them would have led to, whatever is
\* hidden from the result afterwards, and a store mapping finds the body.
VerdictMatchesResponse ==
    Answered /\ InCapitals =>
        /\ result.success =
            \A c \in ToSet(endpoint.conditions) : EvaluateCondition(c, Eager, suiteContext)
        /\ endpoint.stores => result.body = Eager.body

\* The protocols every step of whose calls has a deadline.
Bounded == Types \ {"STARTTLS", "SSH", "SSH banner", "WEBSOCKET"}

\* Unless it waits for the registry for ever, an evaluation over one of these
\* protocols ends, and gives its slot of the monitoring semaphore back, however
\* the peer behaves: a peer that cannot be reached, or accepts the connection and
\* says nothing, or nothing more, holds it until a deadline passes and no longer.
EvaluationEnds ==
    \/ <>[](evaluating = "asking")
    \/ \A t \in Bounded : endpoint.type = t ~> evaluating = "idle"
=============================================================================
