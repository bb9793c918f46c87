--------------------------- MODULE DeliveryLedger ---------------------------
(***************************************************************************)
(* What the relay promises about one submission, without saying how: the   *)
(* upstream server's verdict on the message, the send_attempts row and the *)
(* reply the client gets to DATA never contradict one another, whatever    *)
(* fails in between.                                                       *)
(***************************************************************************)
CONSTANT Submissions

VARIABLES
    upstream,   \* what the upstream server did with the message
    log,        \* send_attempts.status of the submission
    reply       \* the reply the client received to DATA

ledgerVars == <<upstream, log, reply>>

\* "malformed": the upstream server answered the message, and not with a verdict.
LedgerTypeOK ==
    /\ upstream \in [Submissions -> {"none", "data", "accepted", "refused", "malformed"}]
    /\ log \in [Submissions -> {"none", "pending", "accepted", "failed", "unknown", "deleted"}]
    /\ reply \in [Submissions -> {"none", "2xx", "4xx", "5xx"}]

LedgerInit ==
    /\ upstream = [s \in Submissions |-> "none"]
    /\ log = [s \in Submissions |-> "none"]
    /\ reply = [s \in Submissions |-> "none"]

\* The attempt is durable before anything is said to the upstream server.
Open(s) ==
    /\ log[s] = "none"
    /\ upstream[s] = "none"
    /\ reply[s] = "none"
    /\ log' = [log EXCEPT ![s] = "pending"]
    /\ UNCHANGED <<upstream, reply>>

\* At most once, and never for an attempt that was answered or classified.
Transmit(s) ==
    /\ upstream[s] = "none"
    /\ log[s] = "pending"
    /\ reply[s] = "none"
    /\ upstream' = [upstream EXCEPT ![s] = "data"]
    /\ UNCHANGED <<log, reply>>

Decide(s, verdict) ==
    /\ upstream[s] = "data"
    /\ upstream' = [upstream EXCEPT ![s] = verdict]
    /\ UNCHANGED <<log, reply>>

\* "accepted" and "failed" are statements about the upstream server and are
\* made once; "unknown" is not and may be corrected.
Settle(s, outcome) ==
    /\ log[s] \in {"pending", "unknown"}
    /\ outcome = "accepted" => upstream[s] = "accepted"
    /\ outcome = "failed" => upstream[s] \in {"none", "refused", "malformed"}
    /\ log' = [log EXCEPT ![s] = outcome]
    /\ UNCHANGED <<upstream, reply>>

Answer(s, class) ==
    /\ reply[s] = "none"
    /\ class = "2xx" => upstream[s] = "accepted"
    /\ class = "5xx" => upstream[s] \in {"none", "refused"}
    /\ reply' = [reply EXCEPT ![s] = class]
    /\ UNCHANGED <<upstream, log>>

\* Abandoned rows become unknown, old rows are deleted, in one transaction.
Maintain(abandoned, old) ==
    /\ \A s \in abandoned : log[s] = "pending"
    /\ \A s \in old : log[s] # "none"
    /\ log' = [s \in Submissions |->
                 IF s \in old THEN "deleted"
                 ELSE IF s \in abandoned THEN "unknown" ELSE log[s]]
    /\ UNCHANGED <<upstream, reply>>

LedgerNext ==
    \/ \E s \in Submissions :
          \/ Open(s)
          \/ Transmit(s)
          \/ \E verdict \in {"accepted", "refused", "malformed"} : Decide(s, verdict)
          \/ \E outcome \in {"accepted", "failed", "unknown"} : Settle(s, outcome)
          \/ \E class \in {"2xx", "4xx", "5xx"} : Answer(s, class)
    \/ \E abandoned, old \in SUBSET Submissions : Maintain(abandoned, old)

LedgerSpec == LedgerInit /\ [][LedgerNext]_ledgerVars
=============================================================================
