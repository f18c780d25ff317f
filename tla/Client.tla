-------------------------------- MODULE Client --------------------------------
(***************************************************************************)
(* client/client.go and client/grpc.go: one function per protocol, from    *)
(* what the monitored peer does to what the caller is told.                *)
(*                                                                         *)
(* A peer is [manner, status, body].  Its manner says how far it           *)
(* cooperates:                                                             *)
(*   unreachable   no connection can be made                               *)
(*   mute          it accepts the connection and never says a word         *)
(*   garbles       it answers, but not in the protocol                     *)
(*   speechless    it completes the handshake and does not answer then     *)
(*   truncates     it answers and breaks off inside the body               *)
(*   answers       it answers with its status and its body                 *)
(*                                                                         *)
(* An answer says whether the caller is connected, the status, the body,   *)
(* whether an error is returned, and when the function returns: at once,   *)
(* when a deadline passes, or only when the peer, or the system that tries *)
(* to reach it, ends the connection.                                       *)
(***************************************************************************)
EXTENDS Naturals, FiniteSets

Manners == {"unreachable", "mute", "garbles", "speechless", "truncates", "answers"}
Statuses == {"200", "500"}
Bodies == {"", "status UP", "status DOWN", "plain text"}
\* The status and the body of a peer that says nothing do not matter.
Peers == [manner : {"truncates", "answers"}, status : Statuses, body : Bodies \ {""}]
            \cup [manner : Manners \ {"truncates", "answers"}, status : {"200"}, body : {"plain text"}]

Answer == [connected : BOOLEAN, status : Statuses \cup {"0", "1"}, body : Bodies,
           error : BOOLEAN, returns : {"at once", "by deadline", "if the peer ends it"}]

NotConnected == [connected |-> FALSE, status |-> "0", body |-> "", error |-> FALSE, returns |-> "at once"]
Connected == [NotConnected EXCEPT !.connected = TRUE]
Error == [NotConnected EXCEPT !.error = TRUE]
ByDeadline(a) == [a EXCEPT !.returns = "by deadline"]
\* Nothing bounds the wait: when the connection is ended an error is returned.
Unbounded == [Error EXCEPT !.returns = "if the peer ends it"]

Speaks(p) == p.manner \in {"truncates", "answers"}
Reachable(p) == p.manner # "unreachable"

\* Slip: no deadline is set before the body is sent.
NetworkWithoutDeadline(network, sends, p) ==
    CASE ~Reachable(p) /\ (network = "TCP" \/ sends) -> ByDeadline(NotConnected)
      [] ~sends -> Connected
      [] p.manner \in {"mute", "speechless"} -> Unbounded
      [] OTHER -> [Connected EXCEPT !.body = p.body]

\* TCP and UDP: the deadline is set when there is a body to send; without one
\* the connection is enough, and UDP connects to whatever address it is given.
CanCreateNetworkConnection(network, sends, p) ==
    CASE ~Reachable(p) /\ (network = "TCP" \/ sends) -> ByDeadline(NotConnected)
      [] ~sends -> Connected
      [] p.manner \in {"mute", "speechless"} -> ByDeadline(NotConnected)
      [] OTHER -> [Connected EXCEPT !.body = p.body]

\* The connection is made in a goroutine of its own; the caller waits for it
\* or for the timeout.
CanCreateSCTPConnection(p) == IF Reachable(p) THEN Connected ELSE ByDeadline(NotConnected)

\* The timeout is that of the TCP connection, which has none either when the
\* client has a DNS resolver of its own; nor have the greeting and the handshake.
CanPerformStartTLS(resolver, p) ==
    CASE ~Reachable(p) -> IF resolver THEN Unbounded ELSE ByDeadline(Error)
      [] p.manner = "mute" -> Unbounded
      [] p.manner = "garbles" -> Error
      [] OTHER -> Connected

\* The dialer's timeout covers the handshake, the deadline the exchange.  An
\* error of the exchange is returned together with connected = true.
CanPerformTLS(sends, p) ==
    CASE p.manner \in {"unreachable", "mute"} -> ByDeadline(Error)
      [] p.manner = "garbles" -> Error
      [] ~sends -> Connected
      [] p.manner = "speechless" -> ByDeadline([Connected EXCEPT !.error = TRUE])
      [] OTHER -> [Connected EXCEPT !.body = p.body]

\* The dialer has no timeout; then there is one read with a deadline of a second.
\* The status is 1 with every error.
CheckSSHBanner(p) ==
    CASE ~Reachable(p) -> [Unbounded EXCEPT !.status = "1"]
      [] p.manner = "mute" -> ByDeadline([Error EXCEPT !.status = "1"])
      [] OTHER -> Connected

\* ssh.Dial's timeout is that of the TCP connection: the handshake, the
\* session and the command have none.
CanCreateSSHConnection(p) ==
    CASE ~Reachable(p) -> ByDeadline(Error)
      [] p.manner = "mute" -> Unbounded
      [] p.manner = "garbles" -> Error
      [] OTHER -> Connected

\* The body has to be the command, in JSON: any other one, and none, is an error
\* before the peer is asked for a session.
ExecuteSSHCommand(sent, p) ==
    CASE sent # "command" -> Error
      [] p.manner = "speechless" -> Unbounded
      [] p.manner = "truncates" -> Error
      [] OTHER -> [Connected EXCEPT !.status = p.status, !.body = p.body]

\* The error of the command is reported after result.Connected was set.
SSHCommand(sent, p) ==
    LET connection == CanCreateSSHConnection(p)
    IN  IF connection = Connected
        THEN [ExecuteSSHCommand(sent, p) EXCEPT !.connected = TRUE]
        ELSE connection

\* One packet, and the pinger's timeout.
Ping(p) == IF p.manner \in {"truncates", "answers"} THEN Connected ELSE ByDeadline(NotConnected)

\* The context bounds the dialing, and neither the write nor the read.
QueryWebSocket(p) ==
    CASE p.manner \in {"unreachable", "mute"} -> ByDeadline(Error)
      [] p.manner \in {"garbles", "truncates"} -> Error
      [] p.manner = "speechless" -> Unbounded
      [] OTHER -> [Connected EXCEPT !.body = p.body]

\* The library bounds the exchange; the body is the last record's value.
QueryDNS(p) ==
    CASE Speaks(p) -> [Connected EXCEPT !.body = p.body]
      [] p.manner = "garbles" -> Error
      [] OTHER -> ByDeadline(Error)

\* One context bounds the connection and the call.
PerformGRPCHealthCheck(p) ==
    CASE p.manner = "answers" -> [Connected EXCEPT !.body = p.body]
      [] p.manner \in {"garbles", "truncates"} -> Error
      [] OTHER -> ByDeadline(Error)

\* The client's timeout covers the whole exchange, the body included.  Only a
\* body that is read can fail to be read, and what was read of it is kept.
Do(readsBody, p) ==
    CASE p.manner \in {"unreachable", "mute", "speechless"} -> ByDeadline(Error)
      [] p.manner = "garbles" -> Error
      [] OTHER -> [connected |-> TRUE, status |-> p.status, returns |-> "at once",
                   body |-> CASE ~readsBody -> ""
                              [] p.manner = "truncates" -> "plain text"
                              [] OTHER -> p.body,
                   error |-> readsBody /\ p.manner = "truncates"]
=============================================================================
