----------------------------- MODULE MCEvaluation -----------------------------
(***************************************************************************)
(* What evaluating takes: a suite, an endpoint, the HTTP client and the    *)
(* SSH tunnel it may need.  They are checked side by side, one of them in  *)
(* every behaviour.                                                        *)
(***************************************************************************)
EXTENDS MCSuite, Evaluation, Tunnel, HttpClient

VARIABLE checked  \* the part this behaviour is about

evaluationParts == <<vars, evaluationVars, tunnelVars, httpClientVars, checked>>

PartsInit ==
    /\ checked \in {"suite", "endpoint", "tunnel", "http client"}
    /\ Init /\ EvaluationInit /\ TunnelInit /\ HttpClientInit

PartsNext ==
    /\ \/ checked = "suite" /\ Next
            /\ UNCHANGED <<evaluationVars, tunnelVars, httpClientVars>>
       \/ checked = "endpoint" /\ EvaluationNext
            /\ UNCHANGED <<vars, tunnelVars, httpClientVars>>
       \/ checked = "tunnel" /\ TunnelNext
            /\ UNCHANGED <<vars, evaluationVars, httpClientVars>>
       \/ checked = "http client" /\ HttpClientNext
            /\ UNCHANGED <<vars, evaluationVars, tunnelVars>>
    /\ UNCHANGED checked

PartsSpec == PartsInit /\ [][PartsNext]_evaluationParts /\ EvaluationFairness

PartsTypeOK == TypeOK /\ EvaluationTypeOK /\ TunnelTypeOK /\ HttpClientTypeOK

Placeholder(of, function) == [of |-> of, function |-> function, capitals |-> TRUE]
Is(left, op, kind, values) == [left |-> left, op |-> op, right |-> [kind |-> kind, values |-> values]]

StatusIs200 == Is(Placeholder("[STATUS]", ""), "==", "literal", {"0xC8"})
StatusBelow300 == Is(Placeholder("[STATUS]", ""), "<", "literal", {"300"})
IsConnected == Is(Placeholder("[CONNECTED]", ""), "!=", "literal", {"false"})
IpIsKnown == Is(Placeholder("[IP]", ""), "==", "any", {"9", "11"})
DomainLasts == Is(Placeholder("[DOMAIN_EXPIRATION]", ""), ">", "literal", {"9"})
BodyIsUp == Is(Placeholder("[BODY].status", ""), "==", "pat", {"UP"})
BodyIsShort == Is(Placeholder("[BODY]", "len"), "<=", "literal", {"10"})
HasStatus == Is(Placeholder("[BODY].status", "has"), "==", "literal", {"true"})
IdIsLong == Is(Placeholder("[CONTEXT].id", "len"), ">=", "literal", {"2"})
IdIsSet == Is(Placeholder("[CONTEXT].id", "has"), "==", "literal", {"true"})
BodyInSmallLetters == [BodyIsUp EXCEPT !.left.capitals = FALSE]

MCConditions == {<<StatusIs200>>, <<StatusBelow300, HasStatus>>, <<IsConnected>>,
                 <<IpIsKnown, DomainLasts>>, <<DomainLasts, StatusBelow300>>,
                 <<BodyIsUp, StatusIs200>>, <<BodyIsShort>>, <<IdIsLong>>,
                 <<IdIsSet, IpIsKnown>>, <<BodyInSmallLetters>>}

\* HTTP endpoints with every list of conditions, and the other protocols with a few.
MCMonitored ==
    [type : {"HTTP"}, body : {"text"}, resolver : {FALSE}, conditions : MCConditions,
     stores : BOOLEAN, mentionsContext : BOOLEAN]
    \cup [type : Types \ {"HTTP"}, body : SentBodies, resolver : {FALSE}, stores : {FALSE},
          mentionsContext : {FALSE},
          conditions : {<<IsConnected>>, <<StatusBelow300, HasStatus>>, <<BodyIsUp, StatusIs200>>}]
    \cup [type : {"STARTTLS"}, body : {"nothing"}, resolver : {TRUE}, stores : {FALSE},
          mentionsContext : {FALSE}, conditions : {<<IsConnected>>}]
MCHides == {{}, {"url", "hostname"}, {"errors", "conditions"}}
=============================================================================
