---------------------------- MODULE RelayDelivery ----------------------------
(***************************************************************************)
(* One SMTP submission from AUTH to the reply to DATA: the handlers of     *)
(* smtp/server.py, RelayService and UpstreamSMTP, beside the management    *)
(* requests of SenderPolicy and the maintenance loop of the web process.   *)
(*                                                                         *)
(* Every await of the code at which another task may run, a timer may fire *)
(* or the process may stop is a value of pc; the step that leaves it is    *)
(* the code up to the next such await.  A CancelledError can be raised at  *)
(* each of them, by asyncio.timeout around DATA or by the loss of the      *)
(* client connection, and the code answers it differently at each one.     *)
(***************************************************************************)
EXTENDS SenderPolicy

CONSTANTS
    Submissions,    \* mail transactions, each on an authenticated session
    CredentialOf,   \* the credential a submission's session authenticates with
    MaxRecipients,  \* smtp_max_recipients
    MaxData,        \* smtp_max_data_connections, the permits of data_limit
    NoDomain        \* route of a submission that has not been prepared

ASSUME RelayAssumption ==
    /\ CredentialOf \in [Submissions -> Credentials]
    /\ MaxRecipients \in Nat \ {0}
    /\ MaxData \in Nat \ {0}
    /\ NoDomain \notin Domains
    /\ IsFiniteSet(Submissions)

VARIABLES
    task,       \* the connection's handler task, by submission
    upstream,   \* what the upstream server did with the message
    log,        \* send_attempts.status
    reply,      \* the reply the client received to DATA
    permits,    \* free permits of the data_limit semaphore
    aged,       \* attempts whose updated_at is more than ten minutes old
    relayUp     \* the SMTP process runs

relayVars == <<task, upstream, log, reply, permits, aged, relayUp>>
vars == <<relayVars, policyVars>>

\* pc values from smtp_DATA's acquire to its release.
InRelay == {"record", "connect", "mail", "rcpt", "rset", "reauth", "send",
            "data", "close", "finalize"}
InData == InRelay \cup {"receiving", "authorize", "reply"}

\* pc values at which the task is suspended and can be cancelled.
Awaiting == InData \ {"send", "reply"}

\* What relay() has come to: "returned" is a DATA response that is no success,
\* "garbled" an error response whose code is no SMTP failure.
Results == {"none", "accepted", "returned", "failed", "garbled", "uncertain"}
FailureCodes == {"4xx", "5xx"}
Refusals == FailureCodes \cup {"odd"}

Task ==
    [pc : InData \cup {"new", "authed", "envelope", "done"},
     recipients : 0..MaxRecipients,
     answered : 0..MaxRecipients,
     refusals : SUBSET Refusals,
     route : Domains \cup {NoDomain},
     result : Results,
     code : FailureCodes \cup {"none", "2xx"},
     timer : {"idle", "running", "fired"},
     client : {"connected", "lost"}]

TypeOK ==
    /\ task \in [Submissions -> Task]
    /\ upstream \in [Submissions -> {"none", "data", "accepted", "refused", "malformed"}]
    /\ log \in [Submissions -> {"none", "pending", "accepted", "failed", "unknown", "deleted"}]
    /\ reply \in [Submissions -> FailureCodes \cup {"none", "2xx"}]
    /\ permits \in Nat
    /\ aged \subseteq Submissions
    /\ relayUp \in BOOLEAN

NewTask ==
    [pc |-> "new", recipients |-> 0, answered |-> 0, refusals |-> {},
     route |-> NoDomain, result |-> "none", code |-> "none",
     timer |-> "idle", client |-> "connected"]

RelayInit ==
    /\ task = [s \in Submissions |-> NewTask]
    /\ upstream = [s \in Submissions |-> "none"]
    /\ log = [s \in Submissions |-> "none"]
    /\ reply = [s \in Submissions |-> "none"]
    /\ permits = MaxData
    /\ aged = {}
    /\ relayUp = TRUE

Init == RelayInit /\ PolicyInit

\* The task moves on and changes nothing but itself.
Continue(s, t) ==
    /\ task' = [task EXCEPT ![s] = t]
    /\ UNCHANGED <<upstream, log, reply, permits, aged, relayUp>>

At(s, point) == task[s].pc = point

Go(s, next) == Continue(s, [task[s] EXCEPT !.pc = next])

\* relay() ends: outcome and reply class are fixed, the code goes on at next.
End(s, outcome, class, next) ==
    Continue(s, [task[s] EXCEPT !.result = outcome, !.code = class, !.pc = next])

\* handle_DATA answers without an attempt to finalize.
Refuse(s, class) ==
    Continue(s, [task[s] EXCEPT !.code = class, !.pc = "reply"])

-----------------------------------------------------------------------------
(* The SMTP dialogue before DATA.                                          *)

\* AUTH: authenticate_smtp in a transaction of its own.
Authenticate(s) ==
    /\ At(s, "new")
    /\ relayUp
    /\ Authentic(CredentialOf[s])
    /\ Go(s, "authed")

\* handle_MAIL: the sender is authorized and the transaction clock starts.
HandleMAIL(s) ==
    /\ At(s, "authed")
    /\ Authorized(CredentialOf[s])
    /\ Continue(s, [task[s] EXCEPT !.pc = "envelope", !.timer = "running"])

\* Mutant: max_recipients is not enforced.
HandleAnyRCPT(s) ==
    /\ At(s, "envelope")
    /\ task[s].recipients <= MaxRecipients
    /\ Continue(s, [task[s] EXCEPT !.recipients = @ + 1])

HandleRCPT(s) ==
    /\ At(s, "envelope")
    /\ task[s].recipients < MaxRecipients
    /\ Continue(s, [task[s] EXCEPT !.recipients = @ + 1])

\* smtp_DATA with a permit free; with none free it answers 452 at once and the
\* session stays where it is.
AcquireData(s) ==
    /\ At(s, "envelope")
    /\ task[s].recipients > 0
    /\ permits > 0
    /\ permits' = permits - 1
    /\ task' = [task EXCEPT ![s].pc = "receiving"]
    /\ UNCHANGED <<upstream, log, reply, aged, relayUp>>

\* Mutant: rejected content leaves smtp_DATA past the release of the permit.
HandleDATAKeepingPermit(s) ==
    /\ At(s, "receiving")
    /\ Go(s, "authorize") \/ Go(s, "done")

\* The content has arrived and its From and Sender headers match, or not.
HandleDATA(s) ==
    /\ At(s, "receiving")
    /\ Go(s, "authorize") \/ Refuse(s, "5xx")

-----------------------------------------------------------------------------
(* RelayService.relay and UpstreamSMTP.                                    *)

\* _prepare_attempt: authorize_sender chooses the domain to route through.
PrepareAuthorize(s) ==
    /\ At(s, "authorize")
    /\ \/ \E d \in AuthorizedDomains(CredentialOf[s]) :
            Continue(s, [task[s] EXCEPT !.pc = "record", !.route = d])
       \/ ~Authorized(CredentialOf[s]) /\ Refuse(s, "5xx")
       \/ Refuse(s, "4xx")                             \* the database failed

\* _prepare_attempt: the domain's configuration is read in a second statement
\* and the pending row is committed.  A failing commit may have been durable.
PrepareRecord(s) ==
    /\ At(s, "record")
    /\ \/ /\ task[s].route \in configured
          /\ task' = [task EXCEPT ![s].pc = "connect"]
          /\ log' = [log EXCEPT ![s] = "pending"]
          /\ UNCHANGED <<upstream, reply, permits, aged, relayUp>>
       \/ task[s].route \notin configured /\ Refuse(s, "5xx")
       \/ Refuse(s, "4xx")
       \/ /\ task[s].route \in configured
          /\ task' = [task EXCEPT ![s] = [@ EXCEPT !.code = "4xx", !.pc = "reply"]]
          /\ log' = [log EXCEPT ![s] = "pending"]
          /\ UNCHANGED <<upstream, reply, permits, aged, relayUp>>

\* Resolve, connect, secure and log in.  There is no client to close on failure.
Connect(s) ==
    /\ At(s, "connect")
    /\ \/ Go(s, "mail")
       \/ \E class \in FailureCodes : End(s, "failed", class, "finalize")

UpstreamMAIL(s) ==
    /\ At(s, "mail")
    /\ \/ Go(s, "rcpt")
       \/ \E class \in FailureCodes : End(s, "failed", class, "close")

\* Mutant: one accepted recipient is enough.
UpstreamRCPTAny(s) ==
    LET t == task[s]
        Answered(refused) ==
            [t EXCEPT !.answered = @ + 1, !.refusals = @ \cup refused,
                      !.pc = IF t.answered + 1 < t.recipients THEN "rcpt"
                             ELSE IF refused = {} THEN "reauth" ELSE "rset"]
    IN  /\ At(s, "rcpt")
        /\ t.answered < t.recipients
        /\ \/ Continue(s, Answered({}))
           \/ \E r \in Refusals : Continue(s, Answered({r}))

\* One RCPT reply; after the last, RSET if any recipient was refused.
UpstreamRCPT(s) ==
    LET t == task[s]
        Answered(refused) ==
            [t EXCEPT !.answered = @ + 1, !.refusals = @ \cup refused,
                      !.pc = IF t.answered + 1 < t.recipients THEN "rcpt"
                             ELSE IF t.refusals \cup refused = {} THEN "reauth"
                             ELSE "rset"]
    IN  /\ At(s, "rcpt")
        /\ t.answered < t.recipients
        /\ \/ Continue(s, Answered({}))
           \/ \E r \in Refusals : Continue(s, Answered({r}))
           \/ End(s, "failed", "4xx", "close")         \* connection or timeout

\* Mutant: permanent or temporary or default.
PermanentRefusalCode(refused) == IF "5xx" \in refused THEN "5xx" ELSE "4xx"

\* _smtp_code of RecipientRejected: a temporary refusal wins over a permanent.
RefusalCode(refused) ==
    IF "4xx" \notin refused /\ "5xx" \in refused THEN "5xx" ELSE "4xx"

\* RSET, whatever its outcome, ends in RecipientRejected.
UpstreamRSET(s) ==
    /\ At(s, "rset")
    /\ End(s, "failed", RefusalCode(task[s].refusals), "close")

\* Mutant: no pre_data_hook.
SkipReauthorize(s) == At(s, "reauth") /\ Go(s, "send")

\* pre_data_hook: authorize_sender again, in a fresh transaction.
Reauthorize(s) ==
    /\ At(s, "reauth")
    /\ \/ Authorized(CredentialOf[s]) /\ Go(s, "send")
       \/ ~Authorized(CredentialOf[s]) /\ End(s, "failed", "5xx", "close")
       \/ End(s, "failed", "4xx", "close")             \* the database failed

\* client.data starts: from here the message is out of the relay's hands.
BeginDATA(s) ==
    /\ At(s, "send")
    /\ task' = [task EXCEPT ![s].pc = "data"]
    /\ upstream' = [upstream EXCEPT ![s] = "data"]
    /\ UNCHANGED <<log, reply, permits, aged, relayUp>>

\* Mutant: handle_DATA does not look at the code of the response.
EndDATAAnyCode(s) ==
    /\ At(s, "data")
    /\ \/ upstream[s] \in {"accepted", "refused"} /\ End(s, "accepted", "2xx", "close")
       \/ End(s, "uncertain", "4xx", "close")

\* Mutant: a connection lost after DATA began is an ordinary failure.
EndDATACertain(s) ==
    /\ At(s, "data")
    /\ \/ upstream[s] = "accepted" /\ End(s, "accepted", "2xx", "close")
       \/ End(s, "failed", "4xx", "close")

\* client.data ends: a success, an error response (raised by the library or
\* returned), a response that is no verdict, or the connection or time is lost.
EndDATA(s) ==
    /\ At(s, "data")
    /\ \/ upstream[s] = "accepted" /\ End(s, "accepted", "2xx", "close")
       \/ /\ upstream[s] = "refused"
          /\ \E class \in FailureCodes, outcome \in {"failed", "returned"} :
                End(s, outcome, class, "close")
       \/ upstream[s] = "malformed" /\ End(s, "garbled", "4xx", "close")
       \/ End(s, "uncertain", "4xx", "close")

\* UpstreamSMTP.close obscures nothing.
CloseUpstream(s) == At(s, "close") /\ Go(s, "finalize")

\* The status each end of relay() is recorded with.
Verdict(outcome) ==
    CASE outcome = "accepted"  -> "accepted"
      [] outcome = "uncertain" -> "unknown"
      [] OTHER                 -> "failed"

\* mark_accepted, mark_failed, mark_unknown: _finalize commits.
Finalize(s) ==
    /\ At(s, "finalize")
    /\ task' = [task EXCEPT ![s].pc = "reply"]
    /\ log' = [log EXCEPT ![s] = Verdict(task[s].result)]
    /\ UNCHANGED <<upstream, reply, permits, aged, relayUp>>

\* Mutant: mark_accepted lets the error through.
FinalizeFailsLoudly(s) ==
    /\ At(s, "finalize")
    /\ task' = [task EXCEPT ![s].pc = "reply",
                  ![s].code = IF task[s].result \in {"accepted", "returned"} THEN "4xx" ELSE @]
    /\ UNCHANGED log \/ log' = [log EXCEPT ![s] = Verdict(task[s].result)]
    /\ UNCHANGED <<upstream, reply, permits, aged, relayUp>>

\* _finalize fails, perhaps after its commit was durable.  mark_accepted and
\* _record_failure swallow the error; the mark_failed inside handle_DATA's try
\* does not, and the error turns the reply into 451.
FinalizeFails(s) ==
    /\ At(s, "finalize")
    /\ task' = [task EXCEPT ![s].pc = "reply",
                            ![s].code = IF task[s].result = "returned" THEN "4xx" ELSE @]
    /\ UNCHANGED log \/ log' = [log EXCEPT ![s] = Verdict(task[s].result)]
    /\ UNCHANGED <<upstream, reply, permits, aged, relayUp>>

\* The reply is written, if there is still a client, and the permit released.
SendReply(s) ==
    /\ At(s, "reply")
    /\ task' = [task EXCEPT ![s].pc = "done"]
    /\ reply' = [reply EXCEPT ![s] =
                   IF task[s].client = "connected" THEN task[s].code ELSE @]
    /\ permits' = permits + 1
    /\ UNCHANGED <<upstream, log, aged, relayUp>>

-----------------------------------------------------------------------------
(* Cancellation.                                                           *)

\* Mutant: deliver does not turn a cancellation in DATA into DeliveryUncertain.
CancelledCertain(t) ==
    CASE t.pc \in {"receiving", "authorize", "record", "finalize"} ->
            [t EXCEPT !.code = "4xx", !.pc = "reply"]
      [] t.pc = "connect" ->
            [t EXCEPT !.result = "failed", !.code = "4xx", !.pc = "finalize"]
      [] t.pc \in {"mail", "rcpt", "rset", "reauth", "data"} ->
            [t EXCEPT !.result = "failed", !.code = "4xx", !.pc = "close"]
      [] t.pc = "close" ->
            [t EXCEPT !.pc = "finalize"]
      [] OTHER -> t

\* The task after CancelledError was raised at its await.
Cancelled(t) ==
    CASE t.pc \in {"receiving", "authorize", "record"} ->
            [t EXCEPT !.code = "4xx", !.pc = "reply"]
      [] t.pc = "connect" ->
            [t EXCEPT !.result = "failed", !.code = "4xx", !.pc = "finalize"]
      [] t.pc \in {"mail", "rcpt", "reauth"} ->
            [t EXCEPT !.result = "failed", !.code = "4xx", !.pc = "close"]
      [] t.pc = "rset" ->
            [t EXCEPT !.result = "failed", !.code = RefusalCode(t.refusals), !.pc = "close"]
      [] t.pc = "data" ->
            [t EXCEPT !.result = "uncertain", !.code = "4xx", !.pc = "close"]
      [] t.pc = "close" ->
            [t EXCEPT !.pc = "finalize"]
      [] t.pc = "finalize" ->
            [t EXCEPT !.code = IF t.result = "accepted" THEN @ ELSE "4xx", !.pc = "reply"]
      [] OTHER -> t

\* A cancelled transaction may have committed all the same.
CancelledLog(s) ==
    \/ UNCHANGED log
    \/ At(s, "record") /\ task[s].route \in configured /\ log' = [log EXCEPT ![s] = "pending"]
    \/ At(s, "finalize") /\ log' = [log EXCEPT ![s] = Verdict(task[s].result)]

\* Mutant: the timeout covers relay() and not the reception of the content.
RelayTimeout(s) ==
    /\ task[s].timer = "running"
    /\ task[s].pc \in Awaiting \ {"receiving"}
    /\ task' = [task EXCEPT ![s] = [Cancelled(task[s]) EXCEPT !.timer = "fired"]]
    /\ CancelledLog(s)
    /\ UNCHANGED <<upstream, reply, permits, aged, relayUp>>

\* asyncio.timeout fires, once; the transaction clock runs since MAIL.
TransactionTimeout(s) ==
    /\ task[s].timer = "running"
    /\ task[s].pc \in Awaiting
    /\ task' = [task EXCEPT ![s] = [Cancelled(task[s]) EXCEPT !.timer = "fired"]]
    /\ CancelledLog(s)
    /\ UNCHANGED <<upstream, reply, permits, aged, relayUp>>

\* connection_lost, because the client went away or idled too long: aiosmtpd
\* cancels the handler task.  Before DATA nothing is left to do.
ClientLost(s) ==
    /\ task[s].client = "connected"
    /\ task[s].pc \in Awaiting \cup {"authed", "envelope", "reply"}
    /\ task' = [task EXCEPT ![s] =
          [Cancelled(task[s]) EXCEPT
              !.client = "lost",
              !.pc = IF task[s].pc \in {"authed", "envelope"} THEN "done" ELSE @]]
    /\ CancelledLog(s)
    /\ UNCHANGED <<upstream, reply, permits, aged, relayUp>>

-----------------------------------------------------------------------------
(* The surroundings.                                                       *)

\* The upstream server answers DATA, whether or not the relay still listens.
UpstreamDecides(s) ==
    /\ upstream[s] = "data"
    /\ \E verdict \in {"accepted", "refused", "malformed"} :
          upstream' = [upstream EXCEPT ![s] = verdict]
    /\ UNCHANGED <<task, log, reply, permits, aged, relayUp>>

\* The SMTP process stops at any point and every session with it.
Crash ==
    /\ relayUp
    /\ task' = [s \in Submissions |->
                  IF task[s].pc \in {"new", "done"} THEN task[s]
                  ELSE [task[s] EXCEPT !.pc = "done", !.client = "lost"]]
    /\ permits' = MaxData
    /\ relayUp' = FALSE
    /\ UNCHANGED <<upstream, log, reply, aged>>

Restart ==
    /\ ~relayUp
    /\ relayUp' = TRUE
    /\ UNCHANGED <<task, upstream, log, reply, permits, aged>>

\* Mutant: rows count as abandoned while the transaction may still run.
AgeRunningAttempt(s) ==
    /\ log[s] = "pending"
    /\ s \notin aged
    /\ aged' = aged \cup {s}
    /\ UNCHANGED <<task, upstream, log, reply, permits, relayUp>>

\* Ten minutes pass.  The transaction timeout is far shorter, so it has fired
\* before the row of a task that still runs is that old.
AgeAttempt(s) ==
    /\ log[s] = "pending"
    /\ s \notin aged
    /\ task[s].timer = "fired" \/ At(s, "done")
    /\ aged' = aged \cup {s}
    /\ UNCHANGED <<task, upstream, log, reply, permits, relayUp>>

\* Mutant: the update does not ask for status = "pending".
RunMaintenanceOnAny(old) ==
    /\ \A s \in old : At(s, "done") /\ log[s] \notin {"none", "deleted"}
    /\ aged \cup old # {}
    /\ log' = [s \in Submissions |->
                 IF s \in old THEN "deleted" ELSE IF s \in aged THEN "unknown" ELSE log[s]]
    /\ aged' = {}
    /\ UNCHANGED <<task, upstream, reply, permits, relayUp>>

\* Mutant: only the retention is applied.
RunRetention(old) ==
    /\ old # {}
    /\ \A s \in old : At(s, "done") /\ log[s] \in {"accepted", "failed", "unknown"}
    /\ log' = [s \in Submissions |-> IF s \in old THEN "deleted" ELSE log[s]]
    /\ UNCHANGED <<task, upstream, reply, permits, aged, relayUp>>

\* run_maintenance_once: abandoned attempts become unknown, then the attempts
\* past the retention period are deleted, in one transaction.
RunMaintenance(old) ==
    LET abandoned == {s \in aged : log[s] = "pending"}
    IN  /\ \A s \in old : At(s, "done") /\ log[s] \notin {"none", "deleted"}
                           /\ (log[s] = "pending" => s \in aged)
        /\ abandoned \cup old # {}
        /\ log' = [s \in Submissions |->
                     IF s \in old THEN "deleted"
                     ELSE IF s \in abandoned THEN "unknown" ELSE log[s]]
        /\ aged' = aged \ (abandoned \cup old)
        /\ UNCHANGED <<task, upstream, reply, permits, relayUp>>

-----------------------------------------------------------------------------

ClientStep(s) ==
    \/ Authenticate(s)
    \/ HandleMAIL(s)
    \/ HandleRCPT(s)
    \/ AcquireData(s)
    \/ HandleDATA(s)

\* Steps the relay takes by itself, each bounded by a connect, command or
\* database timeout.
ServiceStep(s) ==
    \/ PrepareAuthorize(s)
    \/ PrepareRecord(s)
    \/ Connect(s)
    \/ UpstreamMAIL(s)
    \/ UpstreamRCPT(s)
    \/ UpstreamRSET(s)
    \/ Reauthorize(s)
    \/ BeginDATA(s)
    \/ EndDATA(s)
    \/ CloseUpstream(s)
    \/ Finalize(s)
    \/ FinalizeFails(s)
    \/ SendReply(s)

RelayNext ==
    \/ \E s \in Submissions :
          \/ ClientStep(s)
          \/ ServiceStep(s)
          \/ TransactionTimeout(s)
          \/ ClientLost(s)
          \/ UpstreamDecides(s)
          \/ AgeAttempt(s)
    \/ Crash
    \/ Restart
    \/ \E old \in SUBSET Submissions : RunMaintenance(old)

Next ==
    \/ RelayNext /\ UNCHANGED policyVars
    \/ PolicyNext /\ UNCHANGED relayVars

\* The relay's own steps, its timer, the passage of time and the hourly
\* maintenance go on; clients, the upstream server and managers need not act.
Fairness ==
    /\ \A s \in Submissions :
          /\ WF_vars(ServiceStep(s) /\ UNCHANGED policyVars)
          /\ WF_vars(TransactionTimeout(s) /\ UNCHANGED policyVars)
          /\ WF_vars(AgeAttempt(s) /\ UNCHANGED policyVars)
    /\ WF_vars(RunMaintenance({}) /\ UNCHANGED policyVars)

Spec == Init /\ [][Next]_vars
FairSpec == Spec /\ Fairness

-----------------------------------------------------------------------------
(* Properties.                                                             *)

\* The ledger's promises, kept by every step of the relay.
Ledger == INSTANCE DeliveryLedger
LedgerSpec == Ledger!LedgerSpec

\* The reply to DATA never misstates the upstream server's verdict: 250 only
\* after it accepted, a permanent failure only if it never will have.
ReplyTruthful ==
    \A s \in Submissions :
        /\ reply[s] = "2xx" => upstream[s] = "accepted"
        /\ reply[s] = "5xx" => upstream[s] \in {"none", "refused"}

\* The delivery log never misstates it either.  A malformed response to the
\* message is the one case recorded as failed without a verdict.
LogTruthful ==
    \A s \in Submissions :
        /\ log[s] = "accepted" => upstream[s] = "accepted"
        /\ log[s] = "failed" => upstream[s] \in {"none", "refused", "malformed"}

\* README: once upstream acceptance is known, neither a log-write failure nor
\* a timeout or disconnect turns success into a retryable response.
KnownAcceptanceIsReported ==
    \A s \in Submissions :
        (task[s].result = "accepted" /\ reply[s] # "none") => reply[s] = "2xx"

\* README: all upstream recipients must be accepted before DATA is sent.
AllRecipientsBeforeData ==
    \A s \in Submissions :
        upstream[s] # "none" =>
            /\ task[s].answered = task[s].recipients
            /\ task[s].answered > 0
            /\ task[s].refusals = {}

\* A client gives up for good on a 5xx reply: as long as one recipient was
\* refused only temporarily the reply invites another try.
TemporaryRefusalIsRetryable ==
    \A s \in Submissions : "4xx" \in task[s].refusals => reply[s] # "5xx"

\* A message is handed over only under a row that says pending: never without
\* a durable row, and never for an attempt maintenance has already classified.
OnlyPendingIsSent ==
    \A s \in Submissions :
        /\ upstream[s] # "none" => log[s] # "none"
        /\ task[s].pc \in {"connect", "mail", "rcpt", "rset", "reauth", "send", "data"}
              => log[s] = "pending"

\* The tasks between smtp_DATA's acquire and its release.
Busy == {s \in Submissions : task[s].pc \in InData}

\* README: concurrent DATA operations are bounded.  Every path out of smtp_DATA
\* gives the permit back exactly once.
PermitsAccounted == permits + Cardinality(Busy) = MaxData

\* What a step may do to a row that is no longer pending.
VerdictsKept ==
    \A s \in Submissions :
        /\ log[s] \in {"accepted", "failed"} => log'[s] \in {log[s], "deleted"}
        /\ log[s] = "unknown" => log'[s] # "pending"
        /\ log[s] = "deleted" => log'[s] = "deleted"

\* A verdict in the log is final: accepted and failed only ever disappear with
\* the row, and the relay's late result may only sharpen maintenance's unknown.
VerdictsAreFinal == [][VerdictsKept]_vars

\* README: revocations are checked again immediately before upstream DATA.  A
\* credential revoked before that check never has its message sent.
BeforeRecheck ==
    {"new", "authed", "envelope", "receiving", "authorize", "record", "connect",
     "mail", "rcpt", "reauth"}

RevokedIsNeverSent ==
    \A s \in Submissions :
        []((task[s].pc \in BeforeRecheck /\ token[CredentialOf[s]] = "revoked")
              => [](upstream[s] = "none"))

\* authorize_sender returns the approved domain to route through: when the
\* check before DATA passes, it passes for the domain whose upstream server
\* the message is about to be handed to.
RouteIsAuthorized ==
    [][\A s \in Submissions :
         (At(s, "reauth") /\ At(s, "send")') =>
             task[s].route \in AuthorizedDomains(CredentialOf[s])]_vars

\* Every DATA command is answered or its session is gone, and its permit is
\* free again, however often upstream, database and client fail.
DataEnds ==
    \A s \in Submissions : (task[s].pc \in InData) ~> At(s, "done")

\* README: incomplete attempts are classified as unknown after a crash; no
\* attempt stays pending for ever.
PendingIsResolved ==
    \A s \in Submissions : (log[s] = "pending") ~> (log[s] # "pending")

-----------------------------------------------------------------------------
(* The inductive invariant behind the safety properties: what the program  *)
(* point of a submission says about the other variables.                   *)

\* Nothing has left the relay and nothing is recorded.
BeforeAttempt == {"new", "authed", "envelope", "receiving", "authorize", "record"}

\* The attempt is recorded and the message not yet handed over.
BeforeData == {"connect", "mail", "rcpt", "rset", "reauth", "send"}

\* What the end of relay() knows about the upstream server and answers.
OutcomeInv(s) ==
    LET t == task[s] IN
    /\ t.result = "accepted" => upstream[s] = "accepted" /\ t.code = "2xx"
    /\ t.result \in {"failed", "returned"} =>
          upstream[s] \in {"none", "refused"} /\ t.code \in FailureCodes
    /\ t.result = "garbled" => upstream[s] = "malformed" /\ t.code = "4xx"
    /\ t.result = "uncertain" => t.code = "4xx"
    /\ t.result = "none" /\ t.pc = "reply" => upstream[s] = "none" /\ t.code \in FailureCodes

PointInv(s) ==
    LET t == task[s] IN
    /\ t.pc \in BeforeAttempt => upstream[s] = "none" /\ log[s] = "none" /\ t.result = "none"
    /\ t.pc \in BeforeData => upstream[s] = "none" /\ log[s] = "pending" /\ t.result = "none"
    /\ t.pc = "data" => upstream[s] # "none" /\ log[s] = "pending" /\ t.result = "none"
    /\ t.pc \in {"close", "finalize"} => log[s] \in {"pending", "unknown"} /\ t.result # "none"
    /\ t.pc # "done" => reply[s] = "none"
    /\ upstream[s] # "none" => log[s] # "none"

RecipientInv(s) ==
    LET t == task[s] IN
    /\ t.pc \in InData => t.recipients > 0
    /\ t.pc \in BeforeAttempt \cup {"connect", "mail"} => t.answered = 0 /\ t.refusals = {}
    /\ t.pc = "rcpt" => t.answered < t.recipients
    /\ t.pc \in {"reauth", "send"} => t.answered = t.recipients /\ t.refusals = {}
    /\ upstream[s] # "none" =>
          t.answered = t.recipients /\ t.answered > 0 /\ t.refusals = {}

\* Only a task that is past its timeout, or gone, has an aged row.
AgeInv(s) ==
    LET t == task[s] IN
    /\ t.timer = "fired" => t.pc \in {"close", "finalize", "reply", "done"}
    /\ s \in aged => t.timer = "fired" \/ t.pc = "done"

\* Reply and log against the upstream server's verdict.
TruthInv(s) ==
    /\ reply[s] = "2xx" => upstream[s] = "accepted"
    /\ reply[s] = "5xx" => upstream[s] \in {"none", "refused"}
    /\ log[s] = "accepted" => upstream[s] = "accepted"
    /\ log[s] = "failed" => upstream[s] \in {"none", "refused", "malformed"}
    /\ (task[s].result = "accepted" /\ reply[s] # "none") => reply[s] = "2xx"

SubmissionInv(s) ==
    /\ OutcomeInv(s)
    /\ PointInv(s)
    /\ RecipientInv(s)
    /\ AgeInv(s)
    /\ TruthInv(s)

RelayInv == TypeOK /\ \A s \in Submissions : SubmissionInv(s)
=============================================================================
