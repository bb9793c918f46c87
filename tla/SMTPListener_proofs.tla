-------------------------- MODULE SMTPListener_proofs --------------------------
(***************************************************************************)
(* The connection cap and the drained event of SMTPListener, proved for    *)
(* every set of connections and every max_connections.                     *)
(***************************************************************************)
EXTENDS SMTPListener, FiniteSetTheorems, TLAPS

\* A connection has no place before connection_made, and keeps the one it has
\* until it is reported lost, by the transport or by a failed upgrade.
PlacesFollowLinks ==
    \A c \in Connections :
      /\ link[c] \in {"none", "handshake"} => c \notin admitted
      /\ c \in admitted => c \in protocols \/ c \in released
      /\ c \in protocols => c \in admitted /\ c \notin released /\ link[c] # "lost"
      /\ link[c] \in {"plain", "upgrade", "tls"} => c \in protocols
      /\ link[c] = "lost" => c \notin protocols

\* The cap and the event.
CapAndEvent ==
    /\ Cardinality(protocols) <= MaxConnections
    /\ drained <=> protocols = {}

ListenerInv == ListenerTypeOK /\ PlacesFollowLinks /\ CapAndEvent

-----------------------------------------------------------------------------
LEMMA ListenerInitInv == ListenerInit => ListenerInv
<1> SUFFICES ASSUME ListenerInit PROVE ListenerInv
  OBVIOUS
<1> USE DEF ListenerInit
<1>1. ListenerTypeOK
  BY DEF ListenerTypeOK, Links, Attached
<1>2. PlacesFollowLinks
  BY DEF PlacesFollowLinks
<1>3. CapAndEvent
  BY FS_EmptySet, ListenerAssumption DEF CapAndEvent
<1>4. QED
  BY <1>1, <1>2, <1>3 DEF ListenerInv

\* Sessions are connections, so they can be counted.
LEMMA ProtocolsFinite == ListenerTypeOK => IsFiniteSet(protocols) /\ Cardinality(protocols) \in Nat
BY ListenerAssumption, FS_Subset, FS_CardinalityType DEF ListenerTypeOK, Attached

\* What links a step may change without touching any place: none of a session
\* to one without a session or back.
LEMMA LinkInv ==
    ASSUME ListenerInv, UNCHANGED <<admitted, released, protocols, drained>>,
           quiet' \subseteq Connections,
           main' \in {"serving", "waiting", "closing", "draining", "exited"},
           link' \in [Connections -> Links],
           \A c \in Connections :
             /\ link'[c] \in {"plain", "upgrade", "tls"} => c \in protocols
             /\ link'[c] \in {"none", "handshake"} => c \notin admitted
             /\ c \in protocols => link'[c] \notin {"none", "lost"}
    PROVE  ListenerInv'
<1>1. ListenerTypeOK'
  BY DEF ListenerInv, ListenerTypeOK, Attached
<1>2. PlacesFollowLinks'
  BY DEF ListenerInv, PlacesFollowLinks
<1>3. CapAndEvent'
  BY DEF ListenerInv, CapAndEvent
<1>4. QED
  BY <1>1, <1>2, <1>3 DEF ListenerInv

LEMMA AdmitInv ==
    ASSUME NEW c \in Connections, NEW up \in {"plain", "tls"}, ListenerInv, Admit(c, up),
           UNCHANGED <<quiet, released, main>>, c \notin admitted
    PROVE  ListenerInv'
<1>1. CASE Cardinality(protocols) >= MaxConnections
  <2>1. /\ link' = [link EXCEPT ![c] = "closing"]
        /\ UNCHANGED <<admitted, released, protocols, drained, quiet, main>>
    BY <1>1 DEF Admit
  <2>2. QED
    BY <2>1, LinkInv DEF ListenerInv, ListenerTypeOK, PlacesFollowLinks, Links, Attached
<1>2. CASE ~(Cardinality(protocols) >= MaxConnections)
  <2>1. /\ link' = [link EXCEPT ![c] = up] /\ admitted' = admitted \cup {c}
        /\ protocols' = protocols \cup {c} /\ drained' = FALSE
    BY <1>2 DEF Admit
  <2>2. ListenerTypeOK'
    BY <2>1 DEF ListenerInv, ListenerTypeOK, Links, Attached
  <2>3. PlacesFollowLinks'
    BY <2>1 DEF ListenerInv, ListenerTypeOK, PlacesFollowLinks
  <2>4. Cardinality(protocols') <= MaxConnections
    <3>1. IsFiniteSet(protocols) /\ Cardinality(protocols) \in Nat
      BY ProtocolsFinite DEF ListenerInv
    <3>2. Cardinality(protocols') = Cardinality(protocols) \/ Cardinality(protocols') = Cardinality(protocols) + 1
      BY <2>1, <3>1, FS_AddElement
    <3>3. QED
      BY <1>2, <3>1, <3>2, ListenerAssumption
  <2>5. CapAndEvent'
    BY <2>1, <2>4 DEF CapAndEvent
  <2>6. QED
    BY <2>2, <2>3, <2>5 DEF ListenerInv
<1>3. QED
  BY <1>1, <1>2

LEMMA ConnectionMadeInv ==
    ASSUME NEW c \in Connections, NEW up \in {"plain", "tls"}, ListenerInv, ConnectionMade(c, up),
           link[c] \in {"none", "handshake", "upgrade"}
    PROVE  ListenerInv'
<1>1. CASE c \in admitted
  <2>1. /\ link' = [link EXCEPT ![c] = up] /\ c \in protocols
        /\ UNCHANGED <<admitted, released, protocols, drained, quiet, main>>
    BY <1>1 DEF ConnectionMade, ListenerInv, PlacesFollowLinks
  <2>2. QED
    BY <2>1, LinkInv DEF ListenerInv, ListenerTypeOK, PlacesFollowLinks, Links, Attached
<1>2. CASE c \notin admitted
  BY <1>2, AdmitInv DEF ConnectionMade
<1>3. QED
  BY <1>1, <1>2

\* The end of a session: its place is given back exactly once.
LEMMA ReleaseInv ==
    ASSUME NEW c \in Connections, NEW gone \in {"closing", "lost"}, ListenerInv, ReleaseOnce(c),
           link[c] \notin {"none", "handshake"},
           link' = [link EXCEPT ![c] = gone],
           UNCHANGED <<quiet, admitted, main>>
    PROVE  ListenerInv'
<1>1. CASE c \in admitted /\ c \notin released
  <2>1. /\ released' = released \cup {c} /\ protocols' = protocols \ {c}
        /\ drained' = (drained \/ protocols' = {})
    BY <1>1 DEF ReleaseOnce
  <2>2. ListenerTypeOK'
    BY <1>1, <2>1 DEF ListenerInv, ListenerTypeOK, Links, Attached
  <2>3. PlacesFollowLinks'
    BY <2>1 DEF ListenerInv, ListenerTypeOK, PlacesFollowLinks
  <2>4. Cardinality(protocols') <= MaxConnections
    <3>1. Cardinality(protocols') <= Cardinality(protocols) /\ Cardinality(protocols') \in Nat
      BY <2>1, ProtocolsFinite, FS_Subset, FS_CardinalityType DEF ListenerInv
    <3>2. QED
      BY <3>1, ProtocolsFinite, ListenerAssumption DEF ListenerInv, CapAndEvent
  <2>5. drained' <=> protocols' = {}
    BY <2>1, Zenon DEF ListenerInv, CapAndEvent
  <2>6. QED
    BY <2>2, <2>3, <2>4, <2>5 DEF ListenerInv, CapAndEvent
<1>2. CASE ~(c \in admitted /\ c \notin released)
  <2>1. UNCHANGED <<admitted, released, protocols, drained, quiet, main>> /\ c \notin protocols
    BY <1>2 DEF ReleaseOnce, ListenerInv, PlacesFollowLinks
  <2>2. QED
    BY <2>1, LinkInv DEF ListenerInv, ListenerTypeOK, PlacesFollowLinks, Links, Attached
<1>3. QED
  BY <1>1, <1>2

-----------------------------------------------------------------------------
LEMMA SessionStepInv == ASSUME NEW c \in Connections PROVE ListenerInv /\ SessionStep(c) => ListenerInv'
<1> SUFFICES ASSUME ListenerInv, SessionStep(c) PROVE ListenerInv'
  OBVIOUS
<1> USE DEF ListenerInv, ListenerTypeOK, PlacesFollowLinks, Links, Attached
<1>1. CASE Accept(c)
  <2>1. CASE c \in Implicit
    BY <1>1, <2>1, LinkInv DEF Accept
  <2>2. CASE c \notin Implicit
    BY <1>1, <2>2, ConnectionMadeInv DEF Accept
  <2>3. QED
    BY <2>1, <2>2
<1>2. CASE HandshakeDone(c)
  BY <1>2, ConnectionMadeInv DEF HandshakeDone
<1>3. CASE HandshakeFails(c)
  BY <1>3, LinkInv DEF HandshakeFails
<1>4. CASE StartTLS(c)
  BY <1>4, LinkInv DEF StartTLS
<1>5. CASE UpgradeDone(c)
  BY <1>5, ConnectionMadeInv DEF UpgradeDone
<1>6. CASE UpgradeFails(c)
  BY <1>6, ReleaseInv DEF UpgradeFails
<1>7. CASE Command(c)
  BY <1>7, LinkInv DEF Command
<1>8. CASE IdleTimer(c)
  BY <1>8, LinkInv DEF IdleTimer
<1>9. CASE IdleTimeout(c)
  BY <1>9, LinkInv DEF IdleTimeout
<1>10. CASE ConnectionLost(c)
  BY <1>10, ReleaseInv DEF ConnectionLost
<1>11. QED
  BY <1>1, <1>2, <1>3, <1>4, <1>5, <1>6, <1>7, <1>8, <1>9, <1>10 DEF SessionStep

LEMMA ListenerStepInv == ListenerInv /\ [ListenerNext]_listenerVars => ListenerInv'
<1> SUFFICES ASSUME ListenerInv, [ListenerNext]_listenerVars PROVE ListenerInv'
  OBVIOUS
<1>1. CASE \E c \in Connections : SessionStep(c)
  BY <1>1, SessionStepInv
<1> USE DEF ListenerInv, ListenerTypeOK, PlacesFollowLinks, Links, Attached
<1>2. CASE Signal
  BY <1>2, LinkInv DEF Signal
<1>3. CASE WaitClosed
  BY <1>3, LinkInv DEF WaitClosed
<1>4. CASE Drain
  BY <1>4, LinkInv DEF Drain
<1>5. CASE UNCHANGED listenerVars
  BY <1>5, LinkInv DEF listenerVars
<1>6. QED
  BY <1>1, <1>2, <1>3, <1>4, <1>5 DEF ListenerNext

\* The inductive invariant of the listener.
THEOREM ListenerInvariant == ListenerSpec => []ListenerInv
<1>1. ListenerInit => ListenerInv
  BY ListenerInitInv
<1>2. ListenerInv /\ [ListenerNext]_listenerVars => ListenerInv'
  BY ListenerStepInv
<1>3. QED
  BY <1>1, <1>2, PTL DEF ListenerSpec

\* The server's fields keep their types, and no session is counted whose
\* connection is gone.
THEOREM ListenerTypeCorrect == ListenerSpec => []ListenerTypeOK
<1>1. ListenerInv => ListenerTypeOK
  BY DEF ListenerInv
<1>2. QED
  BY <1>1, ListenerInvariant, PTL

\* The cap counts exactly the sessions, whatever order admissions, upgrades
\* and losses come in, and shutdown's event is set exactly when none is left
\* (server.py:446-456).
THEOREM SlotsAreAccounted == ListenerSpec => []SlotsAccounted
<1>1. ListenerInv => SlotsAccounted
  BY DEF ListenerInv, ListenerTypeOK, PlacesFollowLinks, CapAndEvent, SlotsAccounted, Attached
<1>2. QED
  BY <1>1, ListenerInvariant, PTL
=============================================================================
