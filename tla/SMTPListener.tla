------------------------------ MODULE SMTPListener ------------------------------
(***************************************************************************)
(* The connections of the SMTP process and its end: admission under the    *)
(* connection cap, both listeners, STARTTLS, the idle timer, and what the  *)
(* stop signal starts (smtp/server.py:263-316 and 411-533,                 *)
(* smtp/__main__.py).                                                      *)
(*                                                                         *)
(* asyncio and aiosmtpd are outside the source and are modelled by how it  *)
(* uses them: connection_made is called once a transport is up, and once   *)
(* more after STARTTLS; every transport that was up ends in                *)
(* connection_lost; a listener that was closed has wait_closed wait for    *)
(* every connection it accepted (Python 3.12, the version of the image).   *)
(* What a session does between two commands is in RelayDelivery.           *)
(***************************************************************************)
EXTENDS Naturals, FiniteSets

CONSTANTS
    Connections,    \* TCP connections that clients make
    Implicit,       \* those that arrive at the implicit-TLS listener
    Chatty,         \* those whose client goes on sending commands
    MaxConnections  \* max_connections

ASSUME ListenerAssumption ==
    /\ Implicit \subseteq Connections /\ Chatty \subseteq Connections
    /\ IsFiniteSet(Connections)
    /\ MaxConnections \in Nat \ {0}

VARIABLES
    link,           \* the transport of every connection
    quiet,          \* connections whose idle timer has run out
    admitted,       \* _RelaySMTP._admitted
    released,       \* _RelaySMTP._connection_released
    protocols,      \* SMTPRelayServer._protocols
    drained,        \* SMTPRelayServer._drained is set
    main            \* where the main task is

listenerVars == <<link, quiet, admitted, released, protocols, drained, main>>

Links == {"none", "handshake", "plain", "upgrade", "tls", "closing", "lost"}

\* Connections a listener has accepted and not seen the end of.
Attached == {c \in Connections : link[c] \notin {"none", "lost"}}

ListenerTypeOK ==
    /\ link \in [Connections -> Links]
    /\ quiet \subseteq Connections
    /\ released \subseteq admitted /\ admitted \subseteq Connections
    /\ protocols \subseteq Attached
    /\ drained \in BOOLEAN
    /\ main \in {"serving", "waiting", "closing", "draining", "exited"}

ListenerInit ==
    /\ link = [c \in Connections |-> "none"]
    /\ quiet = {}
    /\ admitted = {}
    /\ released = {}
    /\ protocols = {}
    /\ drained = TRUE
    /\ main = "serving"

-----------------------------------------------------------------------------
(* Admission.                                                              *)

\* _admit_connection: refused connections leave no trace.
Admit(c, up) ==
    IF Cardinality(protocols) >= MaxConnections
    THEN /\ link' = [link EXCEPT ![c] = "closing"]
         /\ UNCHANGED <<admitted, protocols, drained>>
    ELSE /\ link' = [link EXCEPT ![c] = up]
         /\ admitted' = admitted \cup {c}
         /\ protocols' = protocols \cup {c}
         /\ drained' = FALSE

\* A second call, after STARTTLS, keeps the place the session has.
ConnectionMade(c, up) ==
    /\ IF c \in admitted
       THEN link' = [link EXCEPT ![c] = up] /\ UNCHANGED <<admitted, protocols, drained>>
       ELSE Admit(c, up)
    /\ UNCHANGED <<quiet, released, main>>

\* Mutant: the place is taken before the TLS handshake.
AcceptAdmitting(c) ==
    /\ main = "serving" /\ link[c] = "none"
    /\ IF c \in Implicit
       THEN Admit(c, "handshake") /\ UNCHANGED <<quiet, released, main>>
       ELSE ConnectionMade(c, "plain")

Accept(c) ==
    /\ main = "serving" /\ link[c] = "none"
    /\ IF c \in Implicit
       THEN /\ link' = [link EXCEPT ![c] = "handshake"]
            /\ UNCHANGED <<quiet, admitted, released, protocols, drained, main>>
       ELSE ConnectionMade(c, "plain")

\* A handshake on a new connection: connection_made is called when it is done.
HandshakeDone(c) == link[c] = "handshake" /\ ConnectionMade(c, "tls")

\* It fails, or takes longer than ssl_handshake_timeout.
HandshakeFails(c) ==
    /\ link[c] = "handshake"
    /\ link' = [link EXCEPT ![c] = "lost"]
    /\ UNCHANGED <<quiet, admitted, released, protocols, drained, main>>

-----------------------------------------------------------------------------
(* A session.                                                              *)

StartTLS(c) ==
    /\ link[c] = "plain"
    /\ link' = [link EXCEPT ![c] = "upgrade"]
    /\ UNCHANGED <<quiet, admitted, released, protocols, drained, main>>

UpgradeDone(c) == link[c] = "upgrade" /\ ConnectionMade(c, "tls")

\* Mutant: the event is set by whichever session ends first.
ReleaseSetsEvent(c) ==
    /\ released' = released \cup {c}
    /\ protocols' = protocols \ {c}
    /\ drained' = TRUE

\* _release_connection, at most once for a connection.
ReleaseOnce(c) ==
    IF c \in admitted /\ c \notin released
    THEN /\ released' = released \cup {c}
         /\ protocols' = protocols \ {c}
         /\ drained' = (drained \/ protocols' = {})
    ELSE UNCHANGED <<released, protocols, drained>>

\* aiosmtpd reports a failed upgrade through connection_lost itself; the
\* transport's own report follows.
UpgradeFails(c) ==
    /\ link[c] = "upgrade"
    /\ ReleaseOnce(c)
    /\ link' = [link EXCEPT ![c] = "closing"]
    /\ UNCHANGED <<quiet, admitted, main>>

\* A command sets the idle timer again.
Command(c) ==
    /\ c \in Chatty /\ link[c] \in {"plain", "tls"} /\ c \in quiet
    /\ quiet' = quiet \ {c}
    /\ UNCHANGED <<link, admitted, released, protocols, drained, main>>

\* Mutant: the timer stops with STARTTLS and nobody starts it again.
IdleTimerPlainOnly(c) ==
    /\ link[c] = "plain" /\ c \notin quiet
    /\ quiet' = quiet \cup {c}
    /\ UNCHANGED <<link, admitted, released, protocols, drained, main>>

IdleTimer(c) ==
    /\ link[c] \in {"plain", "tls"} /\ c \notin quiet
    /\ quiet' = quiet \cup {c}
    /\ UNCHANGED <<link, admitted, released, protocols, drained, main>>

\* The timer's callback closes the transport.
IdleTimeout(c) ==
    /\ link[c] \in {"plain", "tls"} /\ c \in quiet
    /\ link' = [link EXCEPT ![c] = "closing"]
    /\ UNCHANGED <<quiet, admitted, released, protocols, drained, main>>

\* The client hangs up or quits, or a transport that was closed is gone.
ConnectionLost(c) ==
    /\ link[c] \in {"plain", "upgrade", "tls", "closing"}
    /\ ReleaseOnce(c)
    /\ link' = [link EXCEPT ![c] = "lost"]
    /\ UNCHANGED <<quiet, admitted, main>>

-----------------------------------------------------------------------------
(* The end of the process.                                                 *)

\* SIGTERM or SIGINT cancels the main task.  serve_forever of both listeners
\* closes them and waits for their connections before it lets go; a second
\* signal breaks that wait off, a third one that of close().
Signal ==
    /\ main \in {"serving", "waiting", "closing", "draining"}
    /\ main' = CASE main = "serving" -> "waiting"
                 [] main = "waiting" -> "closing"
                 [] OTHER -> "exited"
    /\ UNCHANGED <<link, quiet, admitted, released, protocols, drained>>

\* shutdown calls close(), which waits for both listeners again.
WaitClosed ==
    /\ main \in {"waiting", "closing"}
    /\ Attached = {}
    /\ main' = IF main = "waiting" THEN "closing" ELSE "draining"
    /\ UNCHANGED <<link, quiet, admitted, released, protocols, drained>>

\* The drain ends with the event or with its timer, and closes what is left.
Drain ==
    /\ main = "draining"
    /\ main' = "exited"
    /\ link' = [c \in Connections |-> IF c \in protocols THEN "closing" ELSE link[c]]
    /\ UNCHANGED <<quiet, admitted, released, protocols, drained>>

-----------------------------------------------------------------------------
SessionStep(c) ==
    \/ Accept(c)
    \/ HandshakeDone(c)
    \/ HandshakeFails(c)
    \/ StartTLS(c)
    \/ UpgradeDone(c)
    \/ UpgradeFails(c)
    \/ Command(c)
    \/ IdleTimer(c)
    \/ IdleTimeout(c)
    \/ ConnectionLost(c)

\* A process that has exited does nothing more.
ListenerNext ==
    /\ main # "exited"
    /\ \/ \E c \in Connections : SessionStep(c)
       \/ Signal
       \/ WaitClosed
       \/ Drain

ListenerSpec == ListenerInit /\ [][ListenerNext]_listenerVars

\* The event loop runs timers and callbacks that are due: handshakes end,
\* the idle timer runs out when no command comes, a transport that was
\* closed is lost, the main task goes on.  Nothing is assumed of clients.
Fairness ==
    /\ \A c \in Connections :
         /\ WF_listenerVars(HandshakeDone(c) \/ HandshakeFails(c))
         /\ WF_listenerVars(UpgradeDone(c) \/ UpgradeFails(c))
         /\ WF_listenerVars(IdleTimer(c))
         /\ WF_listenerVars(IdleTimeout(c))
         /\ WF_listenerVars(link[c] = "closing" /\ ConnectionLost(c))
    /\ WF_listenerVars(WaitClosed)
    /\ WF_listenerVars(Drain)

FairListenerSpec == ListenerSpec /\ Fairness

-----------------------------------------------------------------------------
(* Properties.                                                             *)

\* The cap counts sessions and nothing else: one place for each session from
\* its first connection_made to its connection_lost, none for handshakes,
\* refused connections or a second connection_made; and the event that
\* shutdown waits for is set exactly when no session is left
\* (server.py:446-456).
SlotsAccounted ==
    /\ protocols = {c \in admitted : link[c] # "lost"} \ released
    /\ Cardinality(protocols) <= MaxConnections
    /\ \A c \in Connections : link[c] \in {"plain", "upgrade", "tls"} => c \in protocols
    /\ drained <=> protocols = {}

\* Once the process is told to stop it exits, whatever its connections are
\* doing at that moment, unless a client that goes on sending commands keeps
\* its connection: nothing but the idle timer bounds the wait before the drain
\* (server.py:510-533).
StopEnds == main = "waiting" ~> main = "exited" \/ Chatty \cap Attached # {}
=============================================================================
