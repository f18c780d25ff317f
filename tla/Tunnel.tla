-------------------------------- MODULE Tunnel --------------------------------
(***************************************************************************)
(* config/tunneling/sshtunnel: one SSHTunnel that several goroutines dial  *)
(* through.  t.client is replaced under t.mu; the dialing itself happens   *)
(* outside the lock, on the client a goroutine has read.                   *)
(***************************************************************************)
EXTENDS Naturals, FiniteSets

CONSTANTS
    Dialers,       \* goroutines that call Dial
    SshClients,    \* connections to the SSH server
    NoClient       \* nil

ASSUME TunnelAssumption == NoClient \notin SshClients

MaxRetries == 3

VARIABLES
    tunnelClient,  \* t.client
    opened,        \* the connections nobody closed
    working,       \* those the server still serves
    dialing,       \* where every goroutine is in Dial
    client,        \* its local variable
    attempt        \* its loop counter

tunnelVars == <<tunnelClient, opened, working, dialing, client, attempt>>

TunnelTypeOK ==
    /\ tunnelClient \in SshClients \cup {NoClient}
    /\ working \subseteq opened /\ opened \subseteq SshClients
    /\ dialing \in [Dialers -> {"idle", "connect", "dial", "reconnect"}]
    /\ client \in [Dialers -> SshClients \cup {NoClient}]
    /\ attempt \in [Dialers -> 0 .. MaxRetries]

TunnelInit ==
    /\ tunnelClient = NoClient
    /\ opened = {}
    /\ working = {}
    /\ dialing = [g \in Dialers |-> "idle"]
    /\ client = [g \in Dialers |-> NoClient]
    /\ attempt = [g \in Dialers |-> 0]

\* A connection that is neither open nor in anybody's hands.
Fresh_(c) == c \notin opened /\ c # tunnelClient /\ \A g \in Dialers : client[g] # c

\* ssh.Dial failed: t.client is what it was.
ConnectFails(g, open) ==
    /\ opened' = open
    /\ working' = working \cap open
    /\ UNCHANGED client

\* connectUnsafe: t.client is a new connection, and the caller's.
connectUnsafe(g, open) ==
    \E c \in SshClients :
        /\ Fresh_(c)
        /\ tunnelClient' = c
        /\ opened' = open \cup {c}
        /\ working' = (working \cap open) \cup {c}
        /\ client' = [client EXCEPT ![g] = c]

Goto(g, where) == dialing' = [dialing EXCEPT ![g] = where]

Return(g) ==
    /\ dialing' = [dialing EXCEPT ![g] = "idle"]
    /\ client' = [client EXCEPT ![g] = NoClient]
    /\ attempt' = [attempt EXCEPT ![g] = 0]

\* t.mu.RLock: the client is read.
ReadClient(g) ==
    /\ dialing[g] = "idle"
    /\ client' = [client EXCEPT ![g] = tunnelClient]
    /\ Goto(g, IF tunnelClient = NoClient THEN "connect" ELSE "dial")
    /\ UNCHANGED <<tunnelClient, opened, working, attempt>>

\* Slip: the tunnel is not looked at again under the lock.
ConnectUnchecked(g) ==
    /\ dialing[g] = "connect"
    /\ \/ /\ connectUnsafe(g, opened)
          /\ Goto(g, "dial")
          /\ UNCHANGED attempt
       \/ /\ Return(g)
          /\ UNCHANGED <<tunnelClient, opened, working>>

\* t.mu.Lock: another goroutine may have connected in between.
ConnectOnce(g) ==
    /\ dialing[g] = "connect"
    /\ \/ /\ tunnelClient # NoClient
          /\ client' = [client EXCEPT ![g] = tunnelClient]
          /\ Goto(g, "dial")
          /\ UNCHANGED <<tunnelClient, opened, working, attempt>>
       \/ /\ tunnelClient = NoClient
          /\ connectUnsafe(g, opened)
          /\ Goto(g, "dial")
          /\ UNCHANGED attempt
       \/ /\ tunnelClient = NoClient
          /\ Return(g)
          /\ UNCHANGED <<tunnelClient, opened, working>>

\* client.Dial: through a connection that works, and even then it may fail.
DialSucceeds(g) ==
    /\ dialing[g] = "dial"
    /\ client[g] \in working
    /\ Return(g)
    /\ UNCHANGED <<tunnelClient, opened, working>>

NextAttempt(g) ==
    /\ attempt' = [attempt EXCEPT ![g] = @ + 1]
    /\ Goto(g, "reconnect")

DialFails(g) ==
    /\ dialing[g] = "dial"
    /\ \/ attempt[g] + 1 < MaxRetries /\ NextAttempt(g) /\ UNCHANGED client
       \/ attempt[g] + 1 = MaxRetries /\ Return(g)
    /\ UNCHANGED <<tunnelClient, opened, working>>

\* Under the lock: whatever connection the tunnel has by now is closed, and a
\* new one is made.  When it cannot be made the loop goes on.
Reconnect(g) ==
    /\ dialing[g] = "reconnect"
    /\ LET open == opened \ {tunnelClient}
       IN  \/ connectUnsafe(g, open) /\ Goto(g, "dial") /\ UNCHANGED attempt
           \/ /\ tunnelClient' = NoClient
              /\ \/ /\ attempt[g] + 1 < MaxRetries
                    /\ NextAttempt(g)
                    /\ ConnectFails(g, open)
                 \/ /\ attempt[g] + 1 = MaxRetries
                    /\ Return(g)
                    /\ opened' = open
                    /\ working' = working \cap open

\* Config.Close, when the program stops or reloads.  It waits for no dialer.
CloseTunnel ==
    /\ tunnelClient # NoClient
    /\ opened' = opened \ {tunnelClient}
    /\ working' = working \ {tunnelClient}
    /\ tunnelClient' = NoClient
    /\ UNCHANGED <<dialing, client, attempt>>

\* The SSH server forgets a connection.
ServerDrops(c) ==
    /\ c \in working
    /\ working' = working \ {c}
    /\ UNCHANGED <<tunnelClient, opened, dialing, client, attempt>>

TunnelNext ==
    \/ \E g \in Dialers : \/ ReadClient(g)
                          \/ ConnectOnce(g)
                          \/ DialSucceeds(g)
                          \/ DialFails(g)
                          \/ Reconnect(g)
    \/ CloseTunnel
    \/ \E c \in SshClients : ServerDrops(c)

-----------------------------------------------------------------------------
(* Property. *)

\* Goroutines that find the tunnel down at the same time, or reconnect it at
\* the same time, leave no connection to the SSH server behind: one that is
\* open is the one the tunnel has, and the next Close closes it.
NoConnectionIsLeaked == opened \subseteq {tunnelClient}
=============================================================================
