-------------------------- MODULE Certificates_proofs --------------------------
(***************************************************************************)
(* What Certificates checks on two pairs, proved for every set of          *)
(* certificates, validity periods and sessions.                            *)
(***************************************************************************)
EXTENDS Certificates, TLAPS

\* A pair that reload() has looked at and found good; the clock may go on
\* before it is activated, so only the beginning of its validity is left.
CheckedPair ==
    reload = "activate" =>
        /\ snapshot.cert \in Named \ Odd
        /\ snapshot.key = snapshot.cert
        /\ NotBefore[snapshot.cert] <= now

\* The certificate is there before the process serves; reload() is under way
\* as long as the process starts.
StartedLoaded == process = "ready" => active # None /\ reload = "no"

CertInv ==
    /\ CertTypeOK
    /\ StartedLoaded
    /\ CheckedPair
    /\ ActiveIsOnePair
    /\ SessionsBeganValid

-----------------------------------------------------------------------------
LEMMA CertInitInv == CertInit => CertInv
<1> SUFFICES ASSUME CertInit PROVE CertInv
  OBVIOUS
<1> USE CertificatesAssumption DEF CertInit
<1>1. now \in 0..MaxTime
  OBVIOUS
<1>2. Nothing \in Pair
  BY DEF Nothing, Pair, Contents
<1>3. \A s \in Sessions : context[s] = NoSession
  OBVIOUS
<1>4. context \in [Sessions -> [cert : Certs, at : 0..MaxTime] \cup {NoSession}]
  OBVIOUS
<1>5. CertTypeOK
  BY <1>1, <1>2, <1>4 DEF CertTypeOK
<1>6. StartedLoaded /\ CheckedPair /\ ActiveIsOnePair
  BY DEF StartedLoaded, CheckedPair, ActiveIsOnePair
<1>7. SessionsBeganValid
  BY <1>3 DEF SessionsBeganValid
<1>8. QED
  BY <1>5, <1>6, <1>7 DEF CertInv

\* A process that ends drops its sessions and its reload.
LEMMA ExitInv ==
    ASSUME CertInv, Exit, UNCHANGED <<now, files, loaded>>, snapshot' \in Pair
    PROVE  CertInv'
BY DEF CertInv, CertTypeOK, StartedLoaded, CheckedPair, ActiveIsOnePair, SessionsBeganValid,
       Exit, loaded, NoSession, Pair, Contents

\* A reload that leaves everything as it was, before anything was checked.
LEMMA LeaveInv ==
    ASSUME CertInv, Leave, UNCHANGED <<now, files>>, snapshot' \in Pair, reload # "no"
    PROVE  CertInv'
<1>1. CASE process = "starting"
  BY <1>1, ExitInv DEF Leave, loaded, Exit
<1>2. CASE process # "starting"
  BY <1>2 DEF Leave, CertInv, CertTypeOK, StartedLoaded, CheckedPair, ActiveIsOnePair,
       SessionsBeganValid, loaded, NoSession
<1>3. QED
  BY <1>1, <1>2

LEMMA WatchDiesInv ==
    ASSUME CertInv, WatchDies, UNCHANGED <<now, files, snapshot>>, reload # "no"
    PROVE  CertInv'
<1>1. CASE process = "starting"
  BY <1>1, ExitInv DEF WatchDies, loaded, CertInv, CertTypeOK
<1>2. CASE process # "starting"
  BY <1>2 DEF WatchDies, CertInv, CertTypeOK, StartedLoaded, CheckedPair, ActiveIsOnePair,
       SessionsBeganValid, loaded, NoSession
<1>3. QED
  BY <1>1, <1>2

LEMMA ReadCertificateInv == CertInv /\ ReadCertificate => CertInv'
<1> SUFFICES ASSUME CertInv, ReadCertificate PROVE CertInv'
  OBVIOUS
<1>1. snapshot' \in Pair
  BY DEF ReadCertificate, CertInv, CertTypeOK, Pair, Contents
<1>2. CASE files.cert = Absent
  BY <1>1, <1>2, LeaveInv DEF ReadCertificate, Reject
<1>3. CASE files.cert # Absent
  BY <1>1, <1>3 DEF ReadCertificate, CertInv, CertTypeOK, StartedLoaded, CheckedPair,
     ActiveIsOnePair, SessionsBeganValid, loaded, NoSession
<1>4. QED
  BY <1>2, <1>3

LEMMA ReadKeyInv == CertInv /\ ReadKey => CertInv'
<1> SUFFICES ASSUME CertInv, ReadKey PROVE CertInv'
  OBVIOUS
<1>1. snapshot' \in Pair
  BY DEF ReadKey, CertInv, CertTypeOK, Pair, Contents
<1>2. CASE files.key = Absent
  BY <1>1, <1>2, LeaveInv DEF ReadKey, Reject
<1>3. CASE files.key # Absent
  BY <1>1, <1>3 DEF ReadKey, CertInv, CertTypeOK, StartedLoaded, CheckedPair,
     ActiveIsOnePair, SessionsBeganValid, loaded, NoSession
<1>4. QED
  BY <1>2, <1>3

LEMMA CheckInv == CertInv /\ Check => CertInv'
<1> SUFFICES ASSUME CertInv, Check PROVE CertInv'
  OBVIOUS
<1>1. reload # "no" /\ UNCHANGED <<now, files, snapshot>> /\ snapshot' \in Pair
  BY DEF Check, CertInv, CertTypeOK
<1>2. CASE Leave
  BY <1>1, <1>2, LeaveInv
<1>3. CASE WatchDies
  BY <1>1, <1>3, WatchDiesInv
<1>4. CASE /\ ~Raises(snapshot) /\ Valid(snapshot)
           /\ reload' = "activate"
           /\ UNCHANGED <<process, watching, loaded, context>>
  BY <1>1, <1>4 DEF Check, Raises, Valid, InDates, CertInv, CertTypeOK, StartedLoaded,
     CheckedPair, ActiveIsOnePair, SessionsBeganValid, loaded, NoSession
<1>5. QED
  BY <1>2, <1>3, <1>4 DEF Check, Reject

LEMMA ActivateInv == CertInv /\ Activate => CertInv'
<1> SUFFICES ASSUME CertInv, Activate PROVE CertInv'
  OBVIOUS
<1>1. /\ snapshot \in Pair /\ snapshot.cert \in Certs /\ snapshot.cert \in Named \ Odd
      /\ snapshot = [cert |-> snapshot.cert, key |-> snapshot.cert]
      /\ NotBefore[snapshot.cert] <= now /\ NotAfter[snapshot.cert] \in Nat
  BY CertificatesAssumption DEF Activate, CertInv, CheckedPair, CertTypeOK, Pair
<1>2. active' \in Certs /\ notAfter' \in Nat /\ fingerprint' \in Pair /\ active' # None
  BY <1>1, CertificatesAssumption DEF Activate
<1>3. process \in {"starting", "up"} /\ process' \in {"ready", "up"} /\ reload' = "no"
  BY DEF Activate, CertInv, CertTypeOK
<1>4. CertTypeOK' /\ StartedLoaded'
  BY <1>1, <1>2, <1>3 DEF Activate, CertInv, CertTypeOK, StartedLoaded
<1>5. ActiveIsOnePair' /\ CheckedPair'
  BY <1>1 DEF Activate, ActiveIsOnePair, CheckedPair
<1>6. SessionsBeganValid'
  BY DEF Activate, CertInv, SessionsBeganValid, NoSession
<1>7. QED
  BY <1>4, <1>5, <1>6 DEF CertInv

\* usable is asked at the handshake, so the end of the validity need not be
\* an invariant of what is active.
LEMMA HandshakeInv == ASSUME NEW s \in Sessions PROVE CertInv /\ Handshake(s) => CertInv'
<1> SUFFICES ASSUME CertInv, Handshake(s) PROVE CertInv'
  OBVIOUS
<1>1. /\ active \in Certs /\ active \in Named /\ NotBefore[active] <= now
      /\ now < NotAfter[active] /\ now \in 0..MaxTime
  BY DEF Handshake, usable, CertInv, CertTypeOK, ActiveIsOnePair
<1>2. context' = [context EXCEPT ![s] = [cert |-> active, at |-> now]]
  BY DEF Handshake
<1>3. CertTypeOK'
  BY <1>1, <1>2 DEF Handshake, CertInv, CertTypeOK, loaded
<1>4. SessionsBeganValid'
  BY <1>1, <1>2 DEF CertInv, CertTypeOK, SessionsBeganValid, NoSession
<1>5. StartedLoaded' /\ CheckedPair' /\ ActiveIsOnePair'
  BY DEF Handshake, CertInv, StartedLoaded, CheckedPair, ActiveIsOnePair, loaded
<1>6. QED
  BY <1>3, <1>4, <1>5 DEF CertInv

LEMMA SessionEndsInv == ASSUME NEW s \in Sessions PROVE CertInv /\ SessionEnds(s) => CertInv'
BY DEF SessionEnds, CertInv, CertTypeOK, StartedLoaded, CheckedPair, ActiveIsOnePair,
       SessionsBeganValid, loaded, NoSession

LEMMA CertStepInv == CertInv /\ [CertNext]_certVars => CertInv'
<1> SUFFICES ASSUME CertInv, [CertNext]_certVars PROVE CertInv'
  OBVIOUS
<1> USE DEF CertInv
<1>1. CASE Tick
  BY <1>1, CertificatesAssumption DEF Tick, CertTypeOK, StartedLoaded, CheckedPair, ActiveIsOnePair,
     SessionsBeganValid, loaded, NoSession, Pair, Contents
<1>2. CASE Renew
  BY <1>2 DEF Renew, CertTypeOK, StartedLoaded, CheckedPair, ActiveIsOnePair,
     SessionsBeganValid, loaded, NoSession, Pair, Contents
<1>3. CASE Start
  BY <1>3 DEF Start, CertTypeOK, StartedLoaded, CheckedPair, ActiveIsOnePair,
     SessionsBeganValid, loaded, NoSession
<1>4. CASE Crash
  BY <1>4, ExitInv DEF Crash, CertTypeOK
<1>5. CASE Serve
  <2>1. CASE Exit
    BY <1>5, <2>1, ExitInv DEF Serve, CertTypeOK
  <2>2. CASE ~Exit
    BY <1>5, <2>2 DEF Serve, CertTypeOK, StartedLoaded, CheckedPair, ActiveIsOnePair,
       SessionsBeganValid, loaded, NoSession
  <2>3. QED
    BY <2>1, <2>2
<1>6. CASE WatchReload
  BY <1>6 DEF WatchReload, CertTypeOK, StartedLoaded, CheckedPair, ActiveIsOnePair,
     SessionsBeganValid, loaded, NoSession
<1>7. CASE ReloadStep
  BY <1>7, ReadCertificateInv, ReadKeyInv, CheckInv, ActivateInv DEF ReloadStep
<1>8. CASE \E s \in Sessions : Handshake(s) \/ SessionEnds(s)
  BY <1>8, HandshakeInv, SessionEndsInv
<1>9. CASE UNCHANGED certVars
  BY <1>9 DEF certVars, CertTypeOK, StartedLoaded, CheckedPair, ActiveIsOnePair,
     SessionsBeganValid, loaded, NoSession
<1>10. QED
  BY <1>1, <1>2, <1>3, <1>4, <1>5, <1>6, <1>7, <1>8, <1>9 DEF CertNext

\* The inductive invariant of the certificate manager.
THEOREM CertInvariant == CertSpec => []CertInv
<1>1. CertInit => CertInv
  BY CertInitInv
<1>2. CertInv /\ [CertNext]_certVars => CertInv'
  BY CertStepInv
<1>3. QED
  BY <1>1, <1>2, PTL DEF CertSpec

-----------------------------------------------------------------------------
\* The manager's fields keep their types; a process that serves has a
\* certificate, and reloads run in a process that starts or watches.
THEOREM CertTypeCorrect == CertSpec => []CertTypeOK
<1>1. CertInv => CertTypeOK
  BY DEF CertInv
<1>2. QED
  BY <1>1, CertInvariant, PTL

\* Whatever the two files become while reload() reads them, what is active is
\* one pair that was checked as a whole (certificates.py:159-189).
THEOREM OnePairIsActive == CertSpec => []ActiveIsOnePair
<1>1. CertInv => ActiveIsOnePair
  BY DEF CertInv
<1>2. QED
  BY <1>1, CertInvariant, PTL

\* No session begins under a certificate out of its dates, though none is
\* ever unloaded for that (certificates.py:107-123).
THEOREM SessionsBeginValid == CertSpec => []SessionsBeganValid
<1>1. CertInv => SessionsBeganValid
  BY DEF CertInv
<1>2. QED
  BY <1>1, CertInvariant, PTL
=============================================================================
