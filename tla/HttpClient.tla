------------------------------ MODULE HttpClient ------------------------------
(***************************************************************************)
(* client/config.go: getHTTPClient, which creates the client of a Config   *)
(* the first time and configures it in place, without a lock.  Providers   *)
(* share their Config between the goroutines that send alerts, and all of  *)
(* those without one share defaultConfig.                                  *)
(*                                                                         *)
(* Every &http.Client{} is named by the goroutine that made it, since each *)
(* makes one at most; a pointer is [base, wraps], where wraps counts the   *)
(* oauth2 clients around it: they share its transport.                     *)
(***************************************************************************)
EXTENDS Naturals, FiniteSets

CONSTANTS
    Callers,      \* goroutines that call getHTTPClient
    NilClient     \* c.httpClient before the first call

ASSUME HttpClientAssumption == NilClient \notin [base : Callers, wraps : Nat]

Settings == {"proxy", "resolver", "oauth2", "iap", "tunnel"}

VARIABLES
    configured,   \* what the Config asks for
    httpClient,   \* c.httpClient
    applied,      \* what every transport was configured with
    calling,      \* where every goroutine is in getHTTPClient
    wrapping,     \* the client a goroutine is fetching a token for
    panicked,     \* has a type assertion failed?
    refused       \* has a goroutine got no valid IAP token? (history)

httpClientVars == <<configured, httpClient, applied, calling, wrapping, panicked, refused>>

\* With both OAuth2 and IAP there is an error in the log, and no token.
AsksForToken == ("oauth2" \in configured) # ("iap" \in configured)

Pointers == [base : Callers, wraps : 0 .. Cardinality(Callers)] \cup {NilClient}

HttpClientTypeOK ==
    /\ configured \subseteq Settings
    /\ httpClient \in Pointers
    /\ applied \in [Callers -> SUBSET Settings]
    /\ calling \in [Callers -> {"outside", "create", "proxy", "resolver", "auth", "token",
                                "tunnel", "return"}]
    /\ wrapping \in [Callers -> Pointers]
    /\ {panicked, refused} \subseteq BOOLEAN

HttpClientInit ==
    /\ configured = {}
    /\ httpClient = NilClient
    /\ applied = [g \in Callers |-> {}]
    /\ calling = [g \in Callers |-> "outside"]
    /\ wrapping = [g \in Callers |-> NilClient]
    /\ panicked = FALSE
    /\ refused = FALSE

At(g, where) == calling[g] = where
Go(g, where) == calling' = [calling EXCEPT ![g] = where]

\* The configuration is loaded before anybody calls.
LoadClientConfig ==
    /\ configured = {} /\ httpClient = NilClient
    /\ \A g \in Callers : At(g, "outside")
    /\ \E s \in SUBSET Settings : configured' = s
    /\ UNCHANGED <<httpClient, applied, calling, wrapping, panicked, refused>>

CheckNil(g) ==
    /\ At(g, "outside")
    /\ Go(g, IF httpClient = NilClient THEN "create" ELSE "return")
    /\ UNCHANGED <<configured, httpClient, applied, wrapping, panicked, refused>>

\* c.httpClient is assigned before it is configured.
Create(g) ==
    /\ At(g, "create")
    /\ httpClient' = [base |-> g, wraps |-> 0]
    /\ Go(g, "proxy")
    /\ UNCHANGED <<configured, applied, wrapping, panicked, refused>>

\* c.httpClient.Transport.(*http.Transport): of the client that is there now.
\* The transport of an oauth2 client is another type, and the assertion panics.
Apply(g, setting, where) ==
    \/ /\ setting \notin configured
       /\ Go(g, where)
       /\ UNCHANGED <<applied, panicked>>
    \/ /\ setting \in configured /\ httpClient.wraps = 0
       /\ applied' = [applied EXCEPT ![httpClient.base] = @ \cup {setting}]
       /\ Go(g, where)
       /\ UNCHANGED panicked
    \/ /\ setting \in configured /\ httpClient.wraps > 0
       /\ panicked' = TRUE
       /\ Go(g, "return")
       /\ UNCHANGED applied

SetProxy(g) ==
    /\ At(g, "proxy")
    /\ Apply(g, "proxy", "resolver")
    /\ UNCHANGED <<configured, httpClient, wrapping, refused>>

SetResolver(g) ==
    /\ At(g, "resolver")
    /\ Apply(g, "resolver", "auth")
    /\ UNCHANGED <<configured, httpClient, wrapping, refused>>

\* configureOAuth2 and configureIAP: the client is read, ...
ReadClientToWrap(g) ==
    /\ At(g, "auth")
    /\ IF AsksForToken
       THEN wrapping' = [wrapping EXCEPT ![g] = httpClient] /\ Go(g, "token")
       ELSE UNCHANGED wrapping /\ Go(g, "tunnel")
    /\ UNCHANGED <<configured, httpClient, applied, panicked, refused>>

\* Slip: what is wrapped is the client this goroutine made, not the one it read.
AssignOwnWrapped(g) ==
    /\ At(g, "token")
    /\ httpClient' = [base |-> g, wraps |-> 1]
    /\ wrapping' = [wrapping EXCEPT ![g] = NilClient]
    /\ Go(g, "tunnel")
    /\ UNCHANGED <<configured, applied, panicked, refused>>

\* ... and, IAP having asked for its token meanwhile, replaced ...
AssignWrapped(g) ==
    /\ At(g, "token")
    /\ httpClient' = [wrapping[g] EXCEPT !.wraps = @ + 1]
    /\ wrapping' = [wrapping EXCEPT ![g] = NilClient]
    /\ Go(g, "tunnel")
    /\ UNCHANGED <<configured, applied, panicked, refused>>

\* ... or, when that token does not come or is not valid, put back as it was read.
AssignUnwrapped(g) ==
    /\ At(g, "token") /\ "iap" \in configured
    /\ httpClient' = wrapping[g]
    /\ refused' = TRUE
    /\ wrapping' = [wrapping EXCEPT ![g] = NilClient]
    /\ Go(g, "tunnel")
    /\ UNCHANGED <<configured, applied, panicked>>

\* The last assertion is a checked one: an oauth2 client gets no tunnel.
SetTunnel(g) ==
    /\ At(g, "tunnel")
    /\ applied' = IF "tunnel" \in configured /\ httpClient.wraps = 0
                  THEN [applied EXCEPT ![httpClient.base] = @ \cup {"tunnel"}]
                  ELSE applied
    /\ Go(g, "return")
    /\ UNCHANGED <<configured, httpClient, wrapping, panicked, refused>>

ReturnClient(g) ==
    /\ At(g, "return")
    /\ ~panicked
    /\ Go(g, "outside")
    /\ UNCHANGED <<configured, httpClient, applied, wrapping, panicked, refused>>

HttpClientNext ==
    \/ LoadClientConfig
    \/ \E g \in Callers : \/ CheckNil(g)
                          \/ Create(g)
                          \/ SetProxy(g)
                          \/ SetResolver(g)
                          \/ ReadClientToWrap(g)
                          \/ AssignWrapped(g)
                          \/ AssignUnwrapped(g)
                          \/ SetTunnel(g)
                          \/ ReturnClient(g)

-----------------------------------------------------------------------------
(* Property. *)

Quiet == ~panicked /\ \A g \in Callers : calling[g] = "outside"

\* At most two goroutines ever make the first call at once.
TwoAtOnce == \A g, h, k \in Callers : g = h \/ g = k \/ h = k

\* Goroutines that make the first call at once each create a client and configure
\* the one that is there.  When they are through, the client that remains sends
\* a token if the Config asks for one, unless IAP gave some goroutine none that is
\* valid: then it may be left without for good.  When the Config asks for none, or
\* for both kinds, it sends none and has everything else the Config asks for.
\* One that sends a token has no tunnel, and the proxy and the resolver for certain
\* only if no more than two goroutines were at it: one of three can wrap the
\* client of the second, which has meanwhile configured the third's.
QuietClientIsComplete ==
    Quiet /\ httpClient # NilClient =>
        /\ AsksForToken /\ ~refused => httpClient.wraps > 0
        /\ ~AsksForToken => /\ httpClient.wraps = 0
                            /\ configured \ {"oauth2", "iap"} \subseteq applied[httpClient.base]
        /\ TwoAtOnce => configured \cap {"proxy", "resolver"} \subseteq applied[httpClient.base]
=============================================================================
