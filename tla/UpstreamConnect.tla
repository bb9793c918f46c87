----------------------------- MODULE UpstreamConnect -----------------------------
(***************************************************************************)
(* One connection to an upstream server (upstream.py): the stored endpoint *)
(* is validated again, its host resolved and every address of the answer   *)
(* required to be public, the addresses dialled in turn, the session       *)
(* secured and authenticated, and closed on every path.  The task may be   *)
(* cancelled at each await.  This is what Connect and CloseUpstream of     *)
(* RelayDelivery stand for.                                                *)
(*                                                                         *)
(* The resolver, the network and aiosmtplib are outside the source: each   *)
(* await ends well or badly.                                               *)
(***************************************************************************)
EXTENDS Naturals, FiniteSets, Sequences, SequencesExt

CONSTANTS
    Addresses,      \* addresses a resolver may answer with
    Public,         \* those of a known family that _is_public_address accepts
    Names,          \* host names
    Endpoints,      \* rows of smtp_configs, as a request or a mix of two left them
    Answers         \* the record lists that name resolution may yield

ASSUME UpstreamAssumption ==
    /\ Public \subseteq Addresses
    /\ Names \cap Addresses = {}
    /\ Answers \subseteq Seq(Addresses)
    /\ \A e \in Endpoints : e.security \in {"none", "starttls", "tls"}

VARIABLES
    endpoint,       \* UpstreamSMTP.endpoint
    dns,            \* what the resolver would answer now
    answer,         \* the addresses resolve_public_addresses has returned
    turn,           \* the address of the loop over them
    phase,
    open,           \* addresses a socket is open to
    dialled,        \* addresses connected to, in order
    tls,            \* the session is encrypted
    secret          \* how the password went out: not at all, over TLS, in clear

upstreamVars == <<endpoint, dns, answer, turn, phase, open, dialled, tls, secret>>

Phases == {"new", "resolve", "dial", "dialling", "greet", "starttls", "login",
           "ready", "quit", "closed", "failed"}

UpstreamTypeOK ==
    /\ endpoint \in Endpoints /\ dns \in Answers
    /\ answer \in Seq(Addresses) /\ turn \in 1..(Len(answer) + 1)
    /\ phase \in Phases
    /\ open \subseteq Addresses /\ dialled \in Seq(Addresses)
    /\ tls \in BOOLEAN /\ secret \in {"kept", "tls", "clear"}

UpstreamInit ==
    /\ endpoint \in Endpoints /\ dns \in Answers
    /\ answer = <<>> /\ turn = 1
    /\ phase = "new"
    /\ open = {} /\ dialled = <<>>
    /\ tls = FALSE /\ secret = "kept"

-----------------------------------------------------------------------------
(* Validation.                                                             *)

Ports == 1..65535

\* validate_upstream_endpoint; username and password tell whether they are set.
ValidEndpoint(e) ==
    /\ e.host \in Names \cup Addresses
    /\ e.port \in Ports
    /\ e.auth = "password" => e.security # "none" /\ e.username /\ e.password
    /\ e.auth # "password" => ~e.username /\ ~e.password

\* UpstreamSMTP.__init__
Construct ==
    /\ phase = "new"
    /\ phase' = IF ValidEndpoint(endpoint) THEN "resolve" ELSE "failed"
    /\ UNCHANGED <<endpoint, dns, answer, turn, open, dialled, tls, secret>>

-----------------------------------------------------------------------------
(* Resolution.                                                             *)

\* _system_resolver drops records that repeat an address: what is left has
\* every address once, in the order of their first records.
Unique(records) ==
    {u \in SetToSeqs(ToSet(records)) :
        \A i, j \in DOMAIN u : i < j =>
            \E first \in DOMAIN records :
                /\ records[first] = u[i]
                /\ \A earlier \in 1..first : records[earlier] # u[j]}

\* The one answer that the stored host has now, a literal address or a name.
Resolved == IF endpoint.host \in Addresses THEN {<<endpoint.host>>} ELSE Unique(dns)

\* resolve_public_addresses: all of them or none.
Resolve ==
    /\ phase = "resolve"
    /\ \E found \in Resolved :
          IF found # <<>> /\ ToSet(found) \subseteq Public
          THEN phase' = "dial" /\ answer' = found
          ELSE phase' = "failed" /\ UNCHANGED answer
    /\ UNCHANGED <<endpoint, dns, turn, open, dialled, tls, secret>>

ResolveFails ==
    /\ phase = "resolve"
    /\ phase' = "failed"
    /\ UNCHANGED <<endpoint, dns, answer, turn, open, dialled, tls, secret>>

\* The owner of the name changes its records.
Rebind ==
    /\ \E a \in Answers : dns' = a
    /\ UNCHANGED <<endpoint, answer, turn, phase, open, dialled, tls, secret>>

-----------------------------------------------------------------------------
(* Dialling.                                                               *)

\* Mutant: the name is dialled, and resolved once more by that.
DialByName ==
    /\ phase = "dial"
    /\ \E found \in Resolved \ {<<>>} :
          /\ dialled' = Append(dialled, Head(found))
          /\ open' = open \cup {Head(found)}
    /\ phase' = "dialling"
    /\ UNCHANGED <<endpoint, dns, answer, turn, tls, secret>>

\* Mutant: when no address answers, the name is resolved and tried anew.
DialStartsOver ==
    /\ phase = "dial"
    /\ IF turn > Len(answer)
       THEN phase' = "resolve" /\ turn' = 1 /\ dialled' = <<>> /\ open' = {}
       ELSE /\ open' = open \cup {answer[turn]}
            /\ dialled' = Append(dialled, answer[turn])
            /\ phase' = "dialling" /\ turn' = turn
    /\ UNCHANGED <<endpoint, dns, answer, tls, secret>>

\* _connect_socket opens a socket and waits, at most connect_timeout.
Dial ==
    /\ phase = "dial"
    /\ IF turn > Len(answer)
       THEN phase' = "failed" /\ UNCHANGED <<open, dialled>>
       ELSE /\ open' = open \cup {answer[turn]}
            /\ dialled' = Append(dialled, answer[turn])
            /\ phase' = "dialling"
    /\ UNCHANGED <<endpoint, dns, answer, turn, tls, secret>>

Dialled ==
    /\ phase = "dialling"
    /\ phase' = "greet"
    /\ UNCHANGED <<endpoint, dns, answer, turn, open, dialled, tls, secret>>

\* Mutant: the loop moves on twice.
DialFailsSkips ==
    /\ phase = "dialling"
    /\ open' = {} /\ phase' = "dial" /\ turn' = turn + 2
    /\ UNCHANGED <<endpoint, dns, answer, dialled, tls, secret>>

DialFails ==
    /\ phase = "dialling"
    /\ open' = open \ {answer[turn]}
    /\ turn' = turn + 1
    /\ phase' = "dial"
    /\ UNCHANGED <<endpoint, dns, answer, dialled, tls, secret>>

-----------------------------------------------------------------------------
(* The session.                                                            *)

\* The phase after the greeting, and after STARTTLS.
AfterTLS == IF endpoint.auth = "password" THEN "login" ELSE "ready"

\* client.connect(sock=...), with TLS at once when the endpoint says so.
Greet ==
    /\ phase = "greet"
    /\ tls' = (endpoint.security = "tls")
    /\ phase' = IF endpoint.security = "starttls" THEN "starttls" ELSE AfterTLS
    /\ UNCHANGED <<endpoint, dns, answer, turn, open, dialled, secret>>

\* Mutant: a server without STARTTLS is talked to in clear.
StartTLSIfOffered ==
    /\ phase = "starttls"
    /\ tls' \in BOOLEAN
    /\ phase' = AfterTLS
    /\ UNCHANGED <<endpoint, dns, answer, turn, open, dialled, secret>>

StartTLS ==
    /\ phase = "starttls"
    /\ tls' = TRUE
    /\ phase' = AfterTLS
    /\ UNCHANGED <<endpoint, dns, answer, turn, open, dialled, secret>>

Login ==
    /\ phase = "login"
    /\ secret' = IF tls THEN "tls" ELSE "clear"
    /\ phase' = "ready"
    /\ UNCHANGED <<endpoint, dns, answer, turn, open, dialled, tls>>

\* Any of the three fails or times out: client.close().
SessionFails ==
    /\ phase \in {"greet", "starttls", "login"}
    /\ open' = {} /\ phase' = "failed"
    /\ UNCHANGED <<endpoint, dns, answer, turn, dialled, tls, secret>>

\* deliver() has returned or raised, and relay() closes the connection.
EndDelivery ==
    /\ phase = "ready"
    /\ phase' = "quit"
    /\ UNCHANGED <<endpoint, dns, answer, turn, open, dialled, tls, secret>>

\* QUIT is answered, or whatever happened to it is dropped.
Quit ==
    /\ phase = "quit"
    /\ open' = {} /\ phase' = "closed"
    /\ UNCHANGED <<endpoint, dns, answer, turn, dialled, tls, secret>>

\* Mutant: _connect_socket closes its socket for the errors connect() expects.
CancelledLeaks ==
    /\ phase \in {"resolve", "dialling", "greet", "starttls", "login"}
    /\ phase' = "failed"
    /\ open' = IF phase = "dialling" THEN open ELSE {}
    /\ UNCHANGED <<endpoint, dns, answer, turn, dialled, tls, secret>>

\* The transaction timeout or the loss of the client cancels the await of
\* connect(); during QUIT it counts as the end of QUIT.
Cancelled ==
    /\ phase \in {"resolve", "dialling", "greet", "starttls", "login"}
    /\ open' = {} /\ phase' = "failed"
    /\ UNCHANGED <<endpoint, dns, answer, turn, dialled, tls, secret>>

Step ==
    \/ Construct
    \/ Resolve \/ ResolveFails
    \/ Dial \/ Dialled \/ DialFails
    \/ Greet \/ StartTLS \/ Login \/ SessionFails
    \/ EndDelivery \/ Quit

UpstreamNext == Step \/ Rebind \/ Cancelled

UpstreamSpec == UpstreamInit /\ [][UpstreamNext]_upstreamVars

\* Every await has a timeout of its own; that the task is ever cancelled is
\* not assumed.
FairUpstreamSpec == UpstreamSpec /\ WF_upstreamVars(Step)

-----------------------------------------------------------------------------
(* Properties.                                                             *)

\* Only addresses of one answer that was public as a whole are connected to,
\* each once, whatever the name resolves to by then (upstream.py:241-262 and
\* 336-343).
OnlyPublicDialled ==
    /\ ToSet(dialled) \subseteq Public
    /\ IsPrefix(dialled, answer) /\ IsInjective(dialled)

\* The password goes out over TLS or not at all, also when the row is a mix
\* of two updates and when the server does not offer STARTTLS
\* (upstream.py:178-190 and 360-373).
PasswordOverTLS ==
    /\ secret # "clear"
    /\ secret = "tls" => endpoint.auth = "password" /\ endpoint.security # "none"

\* There is one socket from the first dialling to the end, and none is left
\* by a failure, a timeout or a cancellation at any await (upstream.py:289,
\* 374 and 439).
NoSocketIsLeft ==
    Cardinality(open) =
        IF phase \in {"dialling", "greet", "starttls", "login", "ready", "quit"} THEN 1 ELSE 0

\* Every connection attempt ends, with no help from the transaction timeout:
\* each address gets its turn once (upstream.py:334-347).
ConnectEnds == phase = "new" ~> phase \in {"closed", "failed"}
=============================================================================
