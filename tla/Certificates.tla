------------------------------ MODULE Certificates ------------------------------
(***************************************************************************)
(* The TLS certificate of the SMTP process (smtp/certificates.py): the     *)
(* files that the operator's own tooling replaces while they are read,     *)
(* the reload at start and every interval after it, and the handshakes     *)
(* that use what was loaded last.                                          *)
(*                                                                         *)
(* A certificate and its private key carry the same name, so a pair of     *)
(* files matches when both contents are equal.  reload() blocks the event  *)
(* loop: files and clock move between its steps, handshakes do not.        *)
(***************************************************************************)
EXTENDS Naturals

CONSTANTS
    Certs,          \* certificates, and their keys
    NotBefore,      \* [Certs -> Nat]: not_valid_before_utc
    NotAfter,       \* [Certs -> Nat]: not_valid_after_utc
    Named,          \* certificates whose names _matches_hostname accepts
    Odd,            \* those whose extensions the x509 library refuses with an
                    \* error that is no ValueError (DuplicateExtension)
    Absent,         \* a file that is missing, unreadable or no PEM data
    Sessions,       \* TLS sessions
    None,
    MaxTime         \* bound: the clock stops there

ASSUME CertificatesAssumption ==
    /\ NotBefore \in [Certs -> Nat] /\ NotAfter \in [Certs -> Nat]
    /\ Named \subseteq Certs /\ Odd \subseteq Certs
    /\ Absent \notin Certs /\ None \notin Certs \cup {Absent}
    /\ MaxTime \in Nat

VARIABLES
    now,            \* the clock
    files,          \* fullchain.pem and privkey.pem
    process,        \* the SMTP process: down, in reload(required=True), ready, up
    reload,         \* where reload() is
    snapshot,       \* the bytes _read_files has returned
    active,         \* the certificate of _active_context
    fingerprint,    \* _fingerprint: the pair of contents it is the hash of
    notAfter,       \* _not_after
    watching,       \* the task of watch() runs
    context         \* per session: its certificate and when it was agreed on

loaded == <<active, fingerprint, notAfter>>
certVars == <<now, files, process, reload, snapshot, loaded, watching, context>>

Contents == Certs \cup {Absent}
Pair == [cert : Contents, key : Contents]
Nothing == [cert |-> Absent, key |-> Absent]

NoSession == [cert |-> None, at |-> 0]

\* The fields' types, and what belongs to which process: one that serves has a
\* context whatever the files become (README.md:50 "Invalid replacements
\* leave the last valid context active").
CertTypeOK ==
    /\ now \in 0..MaxTime
    /\ files \in Pair /\ snapshot \in Pair
    /\ process \in {"down", "starting", "ready", "up"}
    /\ reload \in {"no", "certificate", "key", "check", "activate"}
    /\ active \in Certs \cup {None}
    /\ fingerprint \in Pair \cup {None}
    /\ notAfter \in Nat
    /\ watching \in BOOLEAN
    /\ context \in [Sessions -> [cert : Certs, at : 0..MaxTime] \cup {NoSession}]
    /\ process = "up" => active # None
    /\ process = "down" => ~watching /\ context = [s \in Sessions |-> NoSession]
    /\ reload # "no" => process = "starting" \/ (process = "up" /\ watching)

CertInit ==
    /\ now = 0
    /\ files = Nothing
    /\ process = "down" /\ watching = FALSE
    /\ reload = "no" /\ snapshot = Nothing
    /\ active = None /\ fingerprint = None /\ notAfter = 0
    /\ context = [s \in Sessions |-> NoSession]

-----------------------------------------------------------------------------
(* The surroundings.                                                       *)

Tick ==
    /\ now < MaxTime
    /\ now' = now + 1
    /\ UNCHANGED <<files, process, reload, snapshot, loaded, watching, context>>

\* The renewal writes one file at a time, in any order.
Renew ==
    /\ \E c \in Contents : files' \in {[files EXCEPT !.cert = c], [files EXCEPT !.key = c]}
    /\ UNCHANGED <<now, process, reload, snapshot, loaded, watching, context>>

-----------------------------------------------------------------------------
(* The process.                                                            *)

\* __main__.main: a new CertificateManager and reload(required=True).
Start ==
    /\ process = "down"
    /\ process' = "starting" /\ reload' = "certificate"
    /\ active' = None /\ fingerprint' = None /\ notAfter' = 0
    /\ UNCHANGED <<now, files, snapshot, watching, context>>

Exit ==
    /\ process' = "down" /\ watching' = FALSE /\ reload' = "no"
    /\ context' = [s \in Sessions |-> NoSession]

\* The process is killed; its supervisor may start it again.
Crash ==
    /\ process # "down"
    /\ Exit
    /\ UNCHANGED <<now, files, snapshot, loaded>>

usable == notAfter > now

\* SMTPRelayServer.start looks at the certificate once more.
Serve ==
    /\ process = "ready"
    /\ \/ /\ usable
          /\ process' = "up" /\ watching' = TRUE
          /\ UNCHANGED <<reload, context>>
       \/ ~usable /\ Exit
    /\ UNCHANGED <<now, files, snapshot, loaded>>

-----------------------------------------------------------------------------
(* reload().                                                               *)

\* The interval of watch() is over.
WatchReload ==
    /\ process = "up" /\ watching /\ reload = "no"
    /\ reload' = "certificate"
    /\ UNCHANGED <<now, files, process, snapshot, loaded, watching, context>>

\* Nothing is activated.  At start the error ends the process; watch() only
\* logs it, usable or not.
Leave ==
    /\ IF process = "starting"
       THEN Exit
       ELSE reload' = "no" /\ UNCHANGED <<process, watching, context>>
    /\ UNCHANGED loaded

\* Mutant: a rejected pair takes the context with it.
RejectUnloads ==
    IF process = "starting"
    THEN Leave
    ELSE /\ reload' = "no" /\ active' = None /\ fingerprint' = None /\ notAfter' = 0
         /\ UNCHANGED <<process, watching, context>>

Reject == Leave

\* _read_files: one file after the other.
ReadCertificate ==
    /\ reload = "certificate"
    /\ snapshot' = [snapshot EXCEPT !.cert = files.cert]
    /\ IF files.cert = Absent
       THEN Reject
       ELSE reload' = "key" /\ UNCHANGED <<process, watching, loaded, context>>
    /\ UNCHANGED <<now, files>>

ReadKey ==
    /\ reload = "key"
    /\ snapshot' = [snapshot EXCEPT !.key = files.key]
    /\ IF files.key = Absent
       THEN Reject
       ELSE reload' = "check" /\ UNCHANGED <<process, watching, loaded, context>>
    /\ UNCHANGED <<now, files>>

InDates(c) == NotBefore[c] <= now /\ now < NotAfter[c]

\* Mutant: the certificate is looked at and the key is not.
ValidIgnoringKey(p) == InDates(p.cert) /\ p.cert \in Named

\* Dates, names, and load_cert_chain, which compares the key.
Valid(p) == InDates(p.cert) /\ p.cert \in Named /\ p.key = p.cert

\* The names are asked for once the dates are found right.
Raises(p) == InDates(p.cert) /\ p.cert \in Odd

\* An error that neither reload() nor watch() expects ends the task.
WatchDies ==
    /\ IF process = "starting"
       THEN Exit
       ELSE reload' = "no" /\ watching' = FALSE /\ UNCHANGED <<process, context>>
    /\ UNCHANGED loaded

\* Mutant: the fingerprint is remembered before the pair is found valid.
CheckRemembers ==
    /\ reload = "check"
    /\ fingerprint' = snapshot
    /\ reload' = IF snapshot # fingerprint /\ Valid(snapshot) THEN "activate" ELSE "no"
    /\ UNCHANGED <<now, files, process, snapshot, active, notAfter, watching, context>>

Check ==
    /\ reload = "check"
    /\ \/ snapshot = fingerprint /\ Leave
       \/ snapshot # fingerprint /\ Raises(snapshot) /\ WatchDies
       \/ snapshot # fingerprint /\ ~Raises(snapshot) /\ ~Valid(snapshot) /\ Reject
       \/ /\ snapshot # fingerprint /\ ~Raises(snapshot) /\ Valid(snapshot)
          /\ reload' = "activate"
          /\ UNCHANGED <<process, watching, loaded, context>>
    /\ UNCHANGED <<now, files, snapshot>>

Activate ==
    /\ reload = "activate"
    /\ reload' = "no"
    /\ process' = IF process = "starting" THEN "ready" ELSE process
    /\ fingerprint' = snapshot
    /\ notAfter' = NotAfter[snapshot.cert]
    /\ active' = snapshot.cert
    /\ UNCHANGED <<now, files, snapshot, watching, context>>

-----------------------------------------------------------------------------
(* Handshakes.                                                             *)

\* Mutant: _check_sni hands the context out without asking usable.
HandshakeUnchecked(s) ==
    /\ process = "up" /\ reload = "no"
    /\ context[s] = NoSession
    /\ context' = [context EXCEPT ![s] = [cert |-> active, at |-> now]]
    /\ UNCHANGED <<now, files, process, reload, snapshot, loaded, watching>>

\* _check_sni, for a client that names the host or nothing.
Handshake(s) ==
    /\ process = "up" /\ reload = "no"
    /\ usable /\ active # None
    /\ context[s] = NoSession
    /\ context' = [context EXCEPT ![s] = [cert |-> active, at |-> now]]
    /\ UNCHANGED <<now, files, process, reload, snapshot, loaded, watching>>

SessionEnds(s) ==
    /\ context[s] # NoSession /\ reload = "no"
    /\ context' = [context EXCEPT ![s] = NoSession]
    /\ UNCHANGED <<now, files, process, reload, snapshot, loaded, watching>>

ReloadStep == ReadCertificate \/ ReadKey \/ Check \/ Activate

CertNext ==
    \/ Tick
    \/ Renew
    \/ Start
    \/ Crash
    \/ Serve
    \/ WatchReload
    \/ ReloadStep
    \/ \E s \in Sessions : Handshake(s) \/ SessionEnds(s)

CertSpec == CertInit /\ [][CertNext]_certVars

\* The interval timer fires and reload() runs to its end.  Nothing is
\* assumed of the clock, the files, the clients or the supervisor.
FairCertSpec ==
    /\ CertSpec
    /\ WF_certVars(WatchReload) /\ WF_certVars(ReloadStep) /\ WF_certVars(Serve)

-----------------------------------------------------------------------------
(* Properties.                                                             *)

\* What is active is one pair of matching files that carried the right name
\* and had begun to be valid, and the cached fingerprint and end date are
\* that pair's, however the two files changed while they were read
\* (certificates.py:159-189).
ActiveIsOnePair ==
    active # None /\ process # "down" =>
        /\ fingerprint = [cert |-> active, key |-> active]
        /\ notAfter = NotAfter[active]
        /\ active \in Named \ Odd /\ NotBefore[active] <= now

\* Every session was agreed on with a certificate that was valid then,
\* though nothing takes an expired one out of the router context and an
\* interval may end between its check and its activation
\* (certificates.py:107-123, README.md:50 "expired certificates reject new
\* TLS handshakes").
SessionsBeganValid ==
    \A s \in Sessions : context[s] # NoSession =>
        /\ context[s].cert \in Named
        /\ NotBefore[context[s].cert] <= context[s].at
        /\ context[s].at < NotAfter[context[s].cert]

\* A valid pair that stays in place is activated in the end, also when it was
\* looked at and refused before its first day or while it was half written,
\* as long as the watching task lives (certificates.py:145-155 and 195-208,
\* README.md:50 "checks the mounted files every 30 seconds").
InPlace(c) ==
    process = "up" /\ files = [cert |-> c, key |-> c] /\ Valid(files) /\ c \notin Odd

PairIsActivated == \A c \in Certs : <>[](InPlace(c) /\ watching) => <>[](active = c)
=============================================================================
