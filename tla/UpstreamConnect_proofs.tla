-------------------------- MODULE UpstreamConnect_proofs --------------------------
(***************************************************************************)
(* A connection only ever reaches addresses of the one answer that was     *)
(* validated, hands its password to an encrypted session or to none, and   *)
(* leaves no socket behind: for every set of addresses, names, endpoints   *)
(* and answers, and wherever the task is cancelled.                        *)
(***************************************************************************)
EXTENDS UpstreamConnect, FiniteSetTheorems, TLAPS

-----------------------------------------------------------------------------
(* The inductive invariant.                                                *)

Socketed == {"dialling", "greet", "starttls", "login", "ready", "quit"}

\* The answer that was validated, and the loop's place in it.
AnswerInv ==
    /\ ToSet(answer) \subseteq Public
    /\ IsInjective(answer)
    /\ phase \in {"new", "resolve"} => answer = <<>> /\ turn = 1

\* What has been dialled is the answer up to the loop's turn.
DialInv ==
    /\ Len(dialled) <= Len(answer)
    /\ \A i \in 1..Len(dialled) : dialled[i] = answer[i]
    /\ phase \in {"new", "resolve", "dial"} => Len(dialled) = turn - 1
    /\ phase \in Socketed => Len(dialled) = turn

\* The one socket is that of the current turn.
SocketInv ==
    /\ phase \in Socketed => open = {answer[turn]}
    /\ phase \notin Socketed => open = {}

\* What the session may do with the password.
SecretInv ==
    /\ phase \notin {"new", "failed"} => ValidEndpoint(endpoint)
    /\ phase = "login" => endpoint.auth = "password" /\ tls
    /\ secret # "clear"
    /\ secret = "tls" => endpoint.auth = "password" /\ endpoint.security # "none"

ConnectInv == UpstreamTypeOK /\ AnswerInv /\ DialInv /\ SocketInv /\ SecretInv

LEMMA InitInv == UpstreamInit => ConnectInv
<1> SUFFICES ASSUME UpstreamInit PROVE ConnectInv
  OBVIOUS
<1>1. answer = <<>> /\ dialled = <<>> /\ turn = 1 /\ phase = "new" /\ open = {}
      /\ secret = "kept" /\ tls = FALSE /\ endpoint \in Endpoints /\ dns \in Answers
  BY DEF UpstreamInit
<1>2. UpstreamTypeOK
  <2>1. answer \in Seq(Addresses) /\ dialled \in Seq(Addresses) /\ Len(answer) = 0
    BY <1>1
  <2>2. phase \in Phases
    BY <1>1 DEF Phases
  <2>3. tls \in BOOLEAN /\ secret \in {"kept", "tls", "clear"}
    BY <1>1
  <2>4. QED
    BY <1>1, <2>1, <2>2, <2>3 DEF UpstreamTypeOK
<1>3. AnswerInv
  BY <1>1 DEF AnswerInv, ToSet, IsInjective
<1>4. DialInv /\ SocketInv /\ SecretInv
  BY <1>1 DEF DialInv, SocketInv, SecretInv, Socketed
<1>5. QED
  BY <1>2, <1>3, <1>4 DEF ConnectInv

-----------------------------------------------------------------------------
(* Resolution.                                                             *)

\* Dropping repeated records leaves every address of the answer, once.
LEMMA UniqueProperties ==
    ASSUME NEW records \in Seq(Addresses), NEW u \in Unique(records)
    PROVE  u \in Seq(Addresses) /\ IsInjective(u)
<1> DEFINE S == ToSet(records)
<1>1. S \subseteq Addresses
  BY DEF ToSet
<1>2. IsFiniteSet(1..Len(records))
  BY FS_Interval
<1>3. records \in Surjection(1..Len(records), S)
  BY DEF Surjection, ToSet
<1>4. Cardinality(S) \in Nat
  BY <1>2, <1>3, FS_Surjection, FS_CardinalityType
<1>5. /\ u \in [1..Cardinality(S) -> S]
      /\ \A i, j \in 1..Cardinality(S) : i # j => u[i] # u[j]
  BY DEF Unique, SetToSeqs
<1> HIDE DEF S
<1>6. u \in Seq(Addresses)
  BY <1>1, <1>4, <1>5
<1>7. IsInjective(u)
  BY <1>5 DEF IsInjective
<1>8. QED
  BY <1>6, <1>7

\* So does the answer for a host, name or address.
LEMMA ResolvedProperties ==
    ASSUME UpstreamTypeOK, NEW found \in Resolved
    PROVE  found \in Seq(Addresses) /\ IsInjective(found)
<1>1. CASE endpoint.host \in Addresses
  <2>1. found = <<endpoint.host>>
    BY <1>1 DEF Resolved
  <2>2. QED
    BY <1>1, <2>1 DEF IsInjective
<1>2. CASE endpoint.host \notin Addresses
  <2>1. dns \in Seq(Addresses) /\ found \in Unique(dns)
    BY <1>2, UpstreamAssumption DEF Resolved, UpstreamTypeOK
  <2>2. QED
    BY <2>1, UniqueProperties
<1>3. QED
  BY <1>1, <1>2

-----------------------------------------------------------------------------
(* Every step keeps the invariant.                                         *)

\* A row that passes validation asks for a password only over TLS.
LEMMA PasswordNeedsTLS ==
    ASSUME NEW row \in Endpoints, ValidEndpoint(row), row.auth = "password"
    PROVE  row.security # "none"
BY DEF ValidEndpoint

LEMMA StepInv == ConnectInv /\ [UpstreamNext]_upstreamVars => ConnectInv'
<1> SUFFICES ASSUME ConnectInv, [UpstreamNext]_upstreamVars
             PROVE  ConnectInv'
  OBVIOUS
<1>1. UpstreamTypeOK /\ AnswerInv /\ DialInv /\ SocketInv /\ SecretInv
  BY DEF ConnectInv
<1> USE <1>1 DEF ConnectInv, UpstreamTypeOK, AnswerInv, DialInv, SocketInv, SecretInv
<1>2. CASE Construct
  BY <1>2 DEF Construct, Phases, Socketed
<1>3. CASE Resolve
  BY <1>3, ResolvedProperties DEF Resolve, Phases, Socketed
<1>4. CASE ResolveFails
  BY <1>4 DEF ResolveFails, Phases, Socketed
<1>5. CASE Dial
  <2>1. CASE turn > Len(answer)
    BY <1>5, <2>1 DEF Dial, Phases, Socketed
  <2>2. CASE turn <= Len(answer)
    <3>1. /\ phase = "dial" /\ phase' = "dialling" /\ open = {} /\ open' = {answer[turn]}
          /\ dialled' = Append(dialled, answer[turn])
          /\ UNCHANGED <<endpoint, dns, answer, turn, tls, secret>>
      BY <1>5, <2>2 DEF Dial, Socketed
    <3>2. /\ turn \in 1..Len(answer) /\ Len(dialled) = turn - 1
          /\ answer[turn] \in Addresses
      BY <2>2, <3>1
    <3>3. /\ dialled' \in Seq(Addresses) /\ Len(dialled') = turn
          /\ \A i \in 1..turn : dialled'[i] = answer[i]
      BY <3>1, <3>2
    <3>4. UpstreamTypeOK'
      BY <3>1, <3>2, <3>3 DEF Phases
    <3>5. AnswerInv'
      BY <3>1
    <3>6. DialInv'
      BY <3>1, <3>2, <3>3 DEF Socketed
    <3>7. SocketInv' /\ SecretInv'
      BY <3>1 DEF Socketed
    <3>8. QED
      BY <3>4, <3>5, <3>6, <3>7
  <2>3. QED
    BY <2>1, <2>2
<1>6. CASE Dialled
  BY <1>6 DEF Dialled, Phases, Socketed
<1>7. CASE DialFails
  BY <1>7 DEF DialFails, Phases, Socketed
<1>8. CASE Greet
  <2>1. /\ phase = "greet" /\ phase' \in {"starttls", "login", "ready"}
        /\ tls' \in BOOLEAN
        /\ phase' = "login" => endpoint.auth = "password" /\ endpoint.security # "starttls"
        /\ endpoint.security = "tls" => tls'
        /\ UNCHANGED <<endpoint, dns, answer, turn, open, dialled, secret>>
    BY <1>8 DEF Greet, AfterTLS
  <2>2. ValidEndpoint(endpoint) /\ endpoint.security \in {"none", "starttls", "tls"}
    BY <2>1, UpstreamAssumption
  <2>3. SecretInv'
    BY <2>1, <2>2, PasswordNeedsTLS
  <2>4. QED
    BY <2>1, <2>3 DEF Phases, Socketed
<1>9. CASE StartTLS
  BY <1>9 DEF StartTLS, AfterTLS, Phases, Socketed
<1>10. CASE Login
  <2>1. /\ phase = "login" /\ phase' = "ready" /\ secret' = "tls"
        /\ UNCHANGED <<endpoint, dns, answer, turn, open, dialled, tls>>
    BY <1>10 DEF Login
  <2>2. ValidEndpoint(endpoint) /\ endpoint.auth = "password" /\ endpoint.security # "none"
    BY <2>1, PasswordNeedsTLS
  <2>3. QED
    BY <2>1, <2>2 DEF Phases, Socketed
<1>11. CASE SessionFails
  BY <1>11 DEF SessionFails, Phases, Socketed
<1>12. CASE EndDelivery
  BY <1>12 DEF EndDelivery, Phases, Socketed
<1>13. CASE Quit
  BY <1>13 DEF Quit, Phases, Socketed
<1>14. CASE Rebind
  BY <1>14 DEF Rebind
<1>15. CASE Cancelled
  BY <1>15 DEF Cancelled, Phases, Socketed
<1>16. CASE UNCHANGED upstreamVars
  BY <1>16 DEF upstreamVars
<1>17. QED
  BY <1>2, <1>3, <1>4, <1>5, <1>6, <1>7, <1>8, <1>9, <1>10, <1>11, <1>12, <1>13,
     <1>14, <1>15, <1>16 DEF UpstreamNext, Step

THEOREM ConnectInvariant == UpstreamSpec => []ConnectInv
BY InitInv, StepInv, PTL DEF UpstreamSpec

-----------------------------------------------------------------------------
(* What follows.                                                           *)

\* The typing of the connection, for every endpoint and answer; in particular
\* the loop never looks past the end of the answer.
THEOREM UpstreamTypeCorrect == UpstreamSpec => []UpstreamTypeOK
BY ConnectInvariant, PTL DEF ConnectInv

\* Only addresses of one answer that was public as a whole are connected to,
\* each at most once (upstream.py:241-262 and 336-343), however often the
\* name's records change meanwhile.
THEOREM OnlyPublicAreDialled == UpstreamSpec => []OnlyPublicDialled
<1>1. ConnectInv => OnlyPublicDialled
  <2> SUFFICES ASSUME ConnectInv PROVE OnlyPublicDialled
    OBVIOUS
  <2>1. /\ dialled \in Seq(Addresses) /\ answer \in Seq(Addresses)
        /\ Len(dialled) <= Len(answer)
        /\ \A i \in 1..Len(dialled) : dialled[i] = answer[i]
        /\ ToSet(answer) \subseteq Public /\ IsInjective(answer)
    BY DEF ConnectInv, UpstreamTypeOK, AnswerInv, DialInv
  <2>2. ToSet(dialled) \subseteq Public
    BY <2>1 DEF ToSet
  <2>3. IsPrefix(dialled, answer)
    BY <2>1 DEF IsPrefix
  <2>4. IsInjective(dialled)
    BY <2>1 DEF IsInjective
  <2>5. QED
    BY <2>2, <2>3, <2>4 DEF OnlyPublicDialled
<1>2. QED
  BY <1>1, ConnectInvariant, PTL

\* The password is handed to an encrypted session or to none, for every row
\* and server (upstream.py:178-190 and 360-373).
THEOREM PasswordIsEncrypted == UpstreamSpec => []PasswordOverTLS
<1>1. ConnectInv => PasswordOverTLS
  BY DEF ConnectInv, SecretInv, PasswordOverTLS
<1>2. QED
  BY <1>1, ConnectInvariant, PTL

\* One socket is open while the session lasts, and none after any of its ends
\* (upstream.py:289, 374 and 439).
THEOREM SocketsAreClosed == UpstreamSpec => []NoSocketIsLeft
<1>1. ConnectInv => NoSocketIsLeft
  BY FS_EmptySet, FS_Singleton DEF ConnectInv, SocketInv, Socketed, NoSocketIsLeft
<1>2. QED
  BY <1>1, ConnectInvariant, PTL
=============================================================================
