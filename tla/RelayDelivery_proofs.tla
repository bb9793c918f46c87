------------------------ MODULE RelayDelivery_proofs ------------------------
(***************************************************************************)
(* Proofs about RelayDelivery, for every number of submissions, domains    *)
(* and credentials and every limit: type correctness; the invariant        *)
(* RelayInv, and what the relay replies, logs and transmits under it; the  *)
(* implementation of DeliveryLedger; the conservation of permits.          *)
(***************************************************************************)
EXTENDS RelayDelivery, SenderPolicy_proofs

-----------------------------------------------------------------------------
(* Type correctness.                                                       *)

\* A step that only moves a submission's task to another task is well typed.
LEMMA ContinueType ==
    ASSUME TypeOK, NEW s \in Submissions, NEW t \in Task, Continue(s, t)
    PROVE  TypeOK'
BY DEF TypeOK, Continue

\* Moving the program point and fixing outcome and code keep a task a task.
LEMMA GoType ==
    ASSUME TypeOK, NEW s \in Submissions,
           NEW next \in InData \cup {"new", "authed", "envelope", "done"}
    PROVE  /\ Go(s, next) => TypeOK'
           /\ \A outcome \in Results, class \in FailureCodes \cup {"none", "2xx"} :
                 End(s, outcome, class, next) => TypeOK'
<1>1. task[s] \in Task
  BY DEF TypeOK
<1>2. [task[s] EXCEPT !.pc = next] \in Task
  BY <1>1 DEF Task
<1>3. ASSUME NEW outcome \in Results, NEW class \in FailureCodes \cup {"none", "2xx"}
      PROVE  [task[s] EXCEPT !.result = outcome, !.code = class, !.pc = next] \in Task
  BY <1>1 DEF Task
<1>4. QED
  BY <1>2, <1>3, ContinueType DEF Go, End

\* Cancellation keeps a task a task.
LEMMA CancelledType ==
    ASSUME NEW t \in Task
    PROVE  Cancelled(t) \in Task
<1>1. \A refused : RefusalCode(refused) \in FailureCodes
  BY DEF RefusalCode, FailureCodes
<1>2. CASE t.pc \in {"receiving", "authorize", "record"}
  BY <1>2 DEF Cancelled, Task, FailureCodes, InData
<1>3. CASE t.pc = "connect"
  BY <1>3 DEF Cancelled, Task, FailureCodes, InData, InRelay, Results
<1>4. CASE t.pc \in {"mail", "rcpt", "reauth"}
  BY <1>4, ZenonT(60) DEF Cancelled, Task, FailureCodes, InData, InRelay, Results
<1>5. CASE t.pc = "rset"
  BY <1>1, <1>5 DEF Cancelled, Task, InData, InRelay, Results
<1>6. CASE t.pc = "data"
  BY <1>6 DEF Cancelled, Task, FailureCodes, InData, InRelay, Results
<1>7. CASE t.pc = "close"
  BY <1>7 DEF Cancelled, Task, InData, InRelay
<1>8. CASE t.pc = "finalize"
  BY <1>8 DEF Cancelled, Task, FailureCodes, InData
<1>9. CASE t.pc \notin {"receiving", "authorize", "record", "connect", "mail",
                        "rcpt", "reauth", "rset", "data", "close", "finalize"}
  BY <1>9 DEF Cancelled
<1>10. QED
  BY <1>2, <1>3, <1>4, <1>5, <1>6, <1>7, <1>8, <1>9

\* Every outcome has a status in the log.
LEMMA VerdictType ==
    ASSUME NEW outcome
    PROVE  Verdict(outcome) \in {"accepted", "failed", "unknown"}
BY DEF Verdict

\* The dialogue before DATA preserves the type invariant.
LEMMA ClientStepType ==
    ASSUME TypeOK, NEW s \in Submissions, ClientStep(s)
    PROVE  TypeOK'
<1> USE RelayAssumption
<1>1. task[s] \in Task
  BY DEF TypeOK
<1>2. CASE Authenticate(s)
  BY <1>2, GoType DEF Authenticate
<1>3. CASE HandleMAIL(s)
  <2>1. [task[s] EXCEPT !.pc = "envelope", !.timer = "running"] \in Task
    BY <1>1 DEF Task
  <2>2. QED
    BY <1>3, <2>1, ContinueType DEF HandleMAIL
<1>4. CASE HandleRCPT(s)
  <2>1. [task[s] EXCEPT !.recipients = @ + 1] \in Task
    BY <1>1, <1>4 DEF Task, HandleRCPT
  <2>2. QED
    BY <1>4, <2>1, ContinueType DEF HandleRCPT
<1>5. CASE AcquireData(s)
  <2>1. [task[s] EXCEPT !.pc = "receiving"] \in Task
    BY <1>1 DEF Task, InData
  <2>2. permits - 1 \in Nat
    BY <1>5 DEF AcquireData, TypeOK
  <2>3. QED
    BY <1>5, <2>1, <2>2 DEF AcquireData, TypeOK
<1>6. CASE HandleDATA(s)
  <2>1. [task[s] EXCEPT !.code = "5xx", !.pc = "reply"] \in Task
    BY <1>1 DEF Task, InData, FailureCodes
  <2>2. "authorize" \in InData
    BY DEF InData
  <2>3. QED
    BY <1>6, <2>1, <2>2, ContinueType, GoType DEF HandleDATA, Refuse
<1>7. QED
  BY <1>2, <1>3, <1>4, <1>5, <1>6 DEF ClientStep

\* So do the steps the relay takes by itself.
LEMMA ServiceStepType ==
    ASSUME TypeOK, NEW s \in Submissions, ServiceStep(s)
    PROVE  TypeOK'
<1> USE RelayAssumption
<1>1. task[s] \in Task
  BY DEF TypeOK
<1>2. /\ InData \subseteq InData \cup {"new", "authed", "envelope", "done"}
      /\ {"record", "connect", "mail", "rcpt", "rset", "reauth", "send", "data",
          "close", "finalize", "reply"} \subseteq InData
      /\ {"accepted", "returned", "failed", "garbled", "uncertain"} \subseteq Results
      /\ {"4xx", "5xx"} \subseteq FailureCodes
  BY DEF InData, InRelay, Results, FailureCodes
<1>3. ASSUME NEW class \in FailureCodes, Refuse(s, class)
      PROVE  TypeOK'
  <2>1. [task[s] EXCEPT !.code = class, !.pc = "reply"] \in Task
    BY <1>1, <1>2 DEF Task
  <2>2. QED
    BY <1>3, <2>1, ContinueType DEF Refuse
<1>4. CASE PrepareAuthorize(s)
  <2>1. ASSUME NEW d \in AuthorizedDomains(CredentialOf[s])
        PROVE  [task[s] EXCEPT !.pc = "record", !.route = d] \in Task
    BY <1>1, <1>2 DEF Task, AuthorizedDomains
  <2>2. QED
    BY <1>2, <1>3, <1>4, <2>1, ContinueType DEF PrepareAuthorize
<1>5. CASE PrepareRecord(s)
  <2>1. [task[s] EXCEPT !.pc = "connect"] \in Task
    BY <1>1, <1>2 DEF Task
  <2>2. [task[s] EXCEPT !.code = "4xx", !.pc = "reply"] \in Task
    BY <1>1, <1>2 DEF Task
  <2>3. QED
    BY <1>2, <1>3, <1>5, <2>1, <2>2 DEF PrepareRecord, TypeOK
<1>6. CASE Connect(s)
  BY <1>2, <1>6, GoType DEF Connect
<1>7. CASE UpstreamMAIL(s)
  BY <1>2, <1>7, GoType DEF UpstreamMAIL
<1>8. CASE UpstreamRCPT(s)
  <2> DEFINE Answered(refused) ==
               [task[s] EXCEPT !.answered = @ + 1, !.refusals = @ \cup refused,
                  !.pc = IF task[s].answered + 1 < task[s].recipients THEN "rcpt"
                         ELSE IF task[s].refusals \cup refused = {} THEN "reauth"
                         ELSE "rset"]
  <2>a. /\ task[s].answered < task[s].recipients
        /\ task[s].answered \in 0..MaxRecipients
        /\ task[s].recipients \in 0..MaxRecipients
    BY <1>1, <1>8 DEF Task, UpstreamRCPT
  <2>1. task[s].answered + 1 \in 0..MaxRecipients
    BY <2>a
  <2>2. ASSUME NEW refused \in SUBSET Refusals
        PROVE  Answered(refused) \in Task
    BY <1>1, <1>2, <2>1 DEF Task
  <2>3. \/ \E refused \in SUBSET Refusals : Continue(s, Answered(refused))
        \/ End(s, "failed", "4xx", "close")
    BY <1>8 DEF UpstreamRCPT
  <2>4. QED
    BY <1>2, <2>2, <2>3, ContinueType, GoType
<1>9. CASE UpstreamRSET(s)
  <2>1. RefusalCode(task[s].refusals) \in FailureCodes
    BY <1>2 DEF RefusalCode
  <2>2. QED
    BY <1>2, <1>9, <2>1, GoType DEF UpstreamRSET
<1>10. CASE Reauthorize(s)
  BY <1>2, <1>10, GoType DEF Reauthorize
<1>11. CASE BeginDATA(s)
  <2>1. [task[s] EXCEPT !.pc = "data"] \in Task
    BY <1>1, <1>2 DEF Task
  <2>2. QED
    BY <1>11, <2>1 DEF BeginDATA, TypeOK
<1>12. CASE EndDATA(s)
  BY <1>2, <1>12, GoType DEF EndDATA
<1>13. CASE CloseUpstream(s)
  BY <1>2, <1>13, GoType DEF CloseUpstream
<1>14. CASE Finalize(s)
  <2>1. [task[s] EXCEPT !.pc = "reply"] \in Task
    BY <1>1, <1>2 DEF Task
  <2>2. QED
    BY <1>14, <2>1, VerdictType DEF Finalize, TypeOK
<1>15. CASE FinalizeFails(s)
  <2>1. [task[s] EXCEPT !.pc = "reply",
                        !.code = IF task[s].result = "returned" THEN "4xx" ELSE @] \in Task
    BY <1>1, <1>2 DEF Task
  <2>2. QED
    BY <1>15, <2>1, VerdictType DEF FinalizeFails, TypeOK
<1>16. CASE SendReply(s)
  <2>1. [task[s] EXCEPT !.pc = "done"] \in Task
    BY <1>1, <1>2 DEF Task
  <2>2. task[s].code \in FailureCodes \cup {"none", "2xx"}
    BY <1>1 DEF Task
  <2>3. QED
    BY <1>16, <2>1, <2>2 DEF SendReply, TypeOK
<1>17. QED
  BY <1>4, <1>5, <1>6, <1>7, <1>8, <1>9, <1>10, <1>11, <1>12, <1>13, <1>14, <1>15,
     <1>16 DEF ServiceStep

\* So do cancellations, the upstream server, the clock and the processes.
LEMMA SurroundingsType ==
    ASSUME TypeOK, RelayNext,
           \A s \in Submissions : ~ClientStep(s) /\ ~ServiceStep(s)
    PROVE  TypeOK'
<1> USE RelayAssumption
<1>1. \A s \in Submissions : task[s] \in Task /\ Cancelled(task[s]) \in Task
  BY CancelledType DEF TypeOK
<1>2. ASSUME NEW s \in Submissions, CancelledLog(s)
      PROVE  log' \in [Submissions -> {"none", "pending", "accepted", "failed", "unknown",
                                       "deleted"}]
  BY <1>2, VerdictType DEF CancelledLog, TypeOK
<1>3. ASSUME NEW s \in Submissions, TransactionTimeout(s)
      PROVE  TypeOK'
  <2>1. [Cancelled(task[s]) EXCEPT !.timer = "fired"] \in Task
    BY <1>1 DEF Task
  <2>2. QED
    BY <1>2, <1>3, <2>1 DEF TransactionTimeout, TypeOK
<1>4. ASSUME NEW s \in Submissions, ClientLost(s)
      PROVE  TypeOK'
  <2>1. [Cancelled(task[s]) EXCEPT
           !.client = "lost",
           !.pc = IF task[s].pc \in {"authed", "envelope"} THEN "done" ELSE @] \in Task
    BY <1>1, ZenonT(60) DEF Task
  <2>2. QED
    BY <1>2, <1>4, <2>1 DEF ClientLost, TypeOK
<1>5. ASSUME NEW s \in Submissions, UpstreamDecides(s)
      PROVE  TypeOK'
  BY <1>5 DEF UpstreamDecides, TypeOK
<1>6. ASSUME NEW s \in Submissions, AgeAttempt(s)
      PROVE  TypeOK'
  BY <1>6 DEF AgeAttempt, TypeOK
<1>7. CASE Crash
  <2>1. \A s \in Submissions : [task[s] EXCEPT !.pc = "done", !.client = "lost"] \in Task
    BY <1>1, ZenonT(60) DEF Task
  <2>2. QED
    BY <1>1, <1>7, <2>1 DEF Crash, TypeOK
<1>8. CASE Restart
  BY <1>8 DEF Restart, TypeOK
<1>9. ASSUME NEW old \in SUBSET Submissions, RunMaintenance(old)
      PROVE  TypeOK'
  BY <1>9 DEF RunMaintenance, TypeOK
<1>10. QED
  BY <1>3, <1>4, <1>5, <1>6, <1>7, <1>8, <1>9 DEF RelayNext

\* The initial states are well typed.
LEMMA InitType == Init => TypeOK
<1>1. NewTask \in Task
  BY RelayAssumption DEF NewTask, Task, Results
<1>2. QED
  BY <1>1, RelayAssumption DEF Init, RelayInit, TypeOK

\* Every step, of the relay or of a manager, preserves the type invariant.
LEMMA StepType == TypeOK /\ [Next]_vars => TypeOK'
<1>1. TypeOK /\ RelayNext => TypeOK'
  BY ClientStepType, ServiceStepType, SurroundingsType
<1>2. TypeOK /\ UNCHANGED relayVars => TypeOK'
  BY DEF relayVars, TypeOK
<1>3. QED
  BY <1>1, <1>2 DEF Next, vars

\* Every variable of the relay keeps its type in every reachable state.
THEOREM TypeCorrect == Spec => []TypeOK
BY InitType, StepType, PTL DEF Spec

-----------------------------------------------------------------------------
(* Every step is a step of one submission, or touches none of what RelayInv *)
(* says of the others.                                                     *)

\* Nothing of submission r changes, and its row does not age.
Untouched(r) ==
    /\ task'[r] = task[r]
    /\ upstream'[r] = upstream[r]
    /\ log'[r] = log[r]
    /\ reply'[r] = reply[r]
    /\ r \in aged' => r \in aged

\* What is untouched keeps its invariant.
LEMMA UntouchedInv ==
    ASSUME NEW r \in Submissions, SubmissionInv(r), Untouched(r)
    PROVE  SubmissionInv(r)'
<1>1. OutcomeInv(r)'
  BY DEF SubmissionInv, OutcomeInv, Untouched
<1>2. PointInv(r)'
  BY DEF SubmissionInv, PointInv, Untouched
<1>3. RecipientInv(r)'
  BY DEF SubmissionInv, RecipientInv, Untouched
<1>4. AgeInv(r)'
  BY DEF SubmissionInv, AgeInv, Untouched
<1>5. TruthInv(r)'
  BY DEF SubmissionInv, TruthInv, Untouched
<1>6. QED
  BY <1>1, <1>2, <1>3, <1>4, <1>5 DEF SubmissionInv

\* A step that only moves the task of s to t.
LEMMA ContinueInv ==
    ASSUME TypeOK, NEW s \in Submissions, NEW t, Continue(s, t)
    PROVE  /\ task'[s] = t
           /\ upstream'[s] = upstream[s] /\ log'[s] = log[s] /\ reply'[s] = reply[s]
           /\ aged' = aged
           /\ \A r \in Submissions \ {s} : Untouched(r)
BY DEF TypeOK, Continue, Untouched

-----------------------------------------------------------------------------
(* Each step of a submission preserves its invariant.                      *)

\* The dialogue before DATA.
LEMMA ClientStepInv ==
    ASSUME RelayInv, NEW s \in Submissions, ClientStep(s)
    PROVE  SubmissionInv(s)' /\ \A r \in Submissions \ {s} : Untouched(r)
<1>1. TypeOK /\ SubmissionInv(s) /\ task[s] \in Task
  BY DEF RelayInv, TypeOK
<1> USE DEF SubmissionInv, OutcomeInv, PointInv, RecipientInv, AgeInv, TruthInv
<1>2. CASE Authenticate(s)
  <2>1. /\ task[s].pc = "new"
        /\ task'[s] = [task[s] EXCEPT !.pc = "authed"]
        /\ upstream'[s] = upstream[s] /\ log'[s] = log[s] /\ reply'[s] = reply[s]
        /\ aged' = aged
        /\ \A r \in Submissions \ {s} : Untouched(r)
    BY <1>1, <1>2, ContinueInv
       DEF Authenticate, Go, At
  <2>2. OutcomeInv(s)'
    BY <1>1, <2>1 DEF Task, FailureCodes, Results, BeforeAttempt, BeforeData
  <2>3. PointInv(s)'
    BY <1>1, <2>1 DEF Task, BeforeAttempt, BeforeData
  <2>4. RecipientInv(s)'
    BY <1>1, <2>1 DEF Task, BeforeAttempt, InData, InRelay
  <2>5. AgeInv(s)'
    BY <1>1, <2>1 DEF Task
  <2>6. TruthInv(s)'
    BY <1>1, <2>1 DEF Task, FailureCodes, BeforeAttempt, BeforeData
  <2>7. QED
    BY <2>1, <2>2, <2>3, <2>4, <2>5, <2>6
<1>3. CASE HandleMAIL(s)
  <2>1. /\ task[s].pc = "authed"
        /\ task'[s] = [task[s] EXCEPT !.pc = "envelope", !.timer = "running"]
        /\ upstream'[s] = upstream[s] /\ log'[s] = log[s] /\ reply'[s] = reply[s]
        /\ aged' = aged
        /\ \A r \in Submissions \ {s} : Untouched(r)
    BY <1>1, <1>3, ContinueInv
       DEF HandleMAIL, At
  <2>2. OutcomeInv(s)'
    BY <1>1, <2>1 DEF Task, FailureCodes, Results, BeforeAttempt, BeforeData
  <2>3. PointInv(s)'
    BY <1>1, <2>1 DEF Task, BeforeAttempt, BeforeData
  <2>4. RecipientInv(s)'
    BY <1>1, <2>1 DEF Task, BeforeAttempt, InData, InRelay
  <2>5. AgeInv(s)'
    BY <1>1, <2>1 DEF Task
  <2>6. TruthInv(s)'
    BY <1>1, <2>1 DEF Task, FailureCodes, BeforeAttempt, BeforeData
  <2>7. QED
    BY <2>1, <2>2, <2>3, <2>4, <2>5, <2>6
<1>4. CASE HandleRCPT(s)
  <2>1. /\ task[s].pc = "envelope"
        /\ task'[s] = [task[s] EXCEPT !.recipients = @ + 1]
        /\ upstream'[s] = upstream[s] /\ log'[s] = log[s] /\ reply'[s] = reply[s]
        /\ aged' = aged
        /\ \A r \in Submissions \ {s} : Untouched(r)
    BY <1>1, <1>4, ContinueInv
       DEF HandleRCPT, At
  <2>2. OutcomeInv(s)'
    BY <1>1, <2>1 DEF Task, FailureCodes, Results, BeforeAttempt, BeforeData
  <2>3. PointInv(s)'
    BY <1>1, <2>1 DEF Task, BeforeAttempt, BeforeData
  <2>4. RecipientInv(s)'
    BY <1>1, <2>1 DEF Task, BeforeAttempt, InData, InRelay
  <2>5. AgeInv(s)'
    BY <1>1, <2>1 DEF Task
  <2>6. TruthInv(s)'
    BY <1>1, <2>1 DEF Task, FailureCodes, BeforeAttempt, BeforeData
  <2>7. QED
    BY <2>1, <2>2, <2>3, <2>4, <2>5, <2>6
<1>5. CASE AcquireData(s)
  <2>1. /\ task[s].pc = "envelope"
        /\ task[s].recipients > 0
        /\ task'[s] = [task[s] EXCEPT !.pc = "receiving"]
        /\ upstream'[s] = upstream[s] /\ log'[s] = log[s] /\ reply'[s] = reply[s]
        /\ aged' = aged
        /\ \A r \in Submissions \ {s} : Untouched(r)
    BY <1>1, <1>5
       DEF AcquireData, At, TypeOK, Untouched
  <2>2. OutcomeInv(s)'
    BY <1>1, <2>1 DEF Task, FailureCodes, Results, BeforeAttempt, BeforeData
  <2>3. PointInv(s)'
    BY <1>1, <2>1 DEF Task, BeforeAttempt, BeforeData
  <2>4. RecipientInv(s)'
    BY <1>1, <2>1 DEF Task, BeforeAttempt, InData, InRelay
  <2>5. AgeInv(s)'
    BY <1>1, <2>1 DEF Task
  <2>6. TruthInv(s)'
    BY <1>1, <2>1 DEF Task, FailureCodes, BeforeAttempt, BeforeData
  <2>7. QED
    BY <2>1, <2>2, <2>3, <2>4, <2>5, <2>6
<1>6. CASE HandleDATA(s)
  <2>1. /\ task[s].pc = "receiving"
        /\ \/ task'[s] = [task[s] EXCEPT !.pc = "authorize"]
           \/ task'[s] = [task[s] EXCEPT !.code = "5xx", !.pc = "reply"]
        /\ upstream'[s] = upstream[s] /\ log'[s] = log[s] /\ reply'[s] = reply[s]
        /\ aged' = aged
        /\ \A r \in Submissions \ {s} : Untouched(r)
    BY <1>1, <1>6, ContinueInv
       DEF HandleDATA, Go, Refuse, At
  <2>2. OutcomeInv(s)'
    BY <1>1, <2>1 DEF Task, FailureCodes, Results, BeforeAttempt, BeforeData
  <2>3. PointInv(s)'
    BY <1>1, <2>1, ZenonT(60) DEF Task, BeforeAttempt, BeforeData
  <2>4. RecipientInv(s)'
    BY <1>1, <2>1 DEF Task, BeforeAttempt, InData, InRelay
  <2>5. AgeInv(s)'
    BY <1>1, <2>1 DEF Task
  <2>6. TruthInv(s)'
    BY <1>1, <2>1 DEF Task, FailureCodes, BeforeAttempt, BeforeData
  <2>7. QED
    BY <2>1, <2>2, <2>3, <2>4, <2>5, <2>6
<1>7. QED
  BY <1>2, <1>3, <1>4, <1>5, <1>6 DEF ClientStep

\* The steps of _prepare_attempt and of the upstream dialogue before DATA.
LEMMA BeforeDataInv ==
    ASSUME RelayInv, NEW s \in Submissions,
           \/ PrepareAuthorize(s) \/ PrepareRecord(s) \/ Connect(s) \/ UpstreamMAIL(s)
           \/ UpstreamRCPT(s) \/ UpstreamRSET(s) \/ Reauthorize(s)
    PROVE  SubmissionInv(s)' /\ \A r \in Submissions \ {s} : Untouched(r)
<1>1. TypeOK /\ SubmissionInv(s) /\ task[s] \in Task
  BY DEF RelayInv, TypeOK
<1> USE DEF SubmissionInv, OutcomeInv, PointInv, RecipientInv, AgeInv, TruthInv
<1>2. CASE PrepareAuthorize(s)
  <2>1. /\ task[s].pc = "authorize"
        /\ \/ \E d \in AuthorizedDomains(CredentialOf[s]) :
                 task'[s] = [task[s] EXCEPT !.pc = "record", !.route = d]
           \/ \E class \in FailureCodes : task'[s] = [task[s] EXCEPT !.code = class, !.pc = "reply"]
        /\ upstream'[s] = upstream[s] /\ log'[s] = log[s] /\ reply'[s] = reply[s]
        /\ aged' = aged
        /\ \A r \in Submissions \ {s} : Untouched(r)
    BY <1>1, <1>2, ContinueInv
       DEF PrepareAuthorize, Refuse, At, FailureCodes
  <2>2. OutcomeInv(s)'
    BY <1>1, <2>1 DEF Task, FailureCodes, Results, BeforeAttempt, BeforeData
  <2>3. PointInv(s)'
    BY <1>1, <2>1 DEF Task, BeforeAttempt, BeforeData
  <2>4. RecipientInv(s)'
    BY <1>1, <2>1 DEF Task, BeforeAttempt, InData, InRelay
  <2>5. AgeInv(s)'
    BY <1>1, <2>1 DEF Task
  <2>6. TruthInv(s)'
    BY <1>1, <2>1 DEF Task, FailureCodes, BeforeAttempt, BeforeData
  <2>7. QED
    BY <2>1, <2>2, <2>3, <2>4, <2>5, <2>6
<1>3. CASE PrepareRecord(s)
  <2>1. /\ task[s].pc = "record"
        /\ \/ task'[s] = [task[s] EXCEPT !.pc = "connect"] /\ log'[s] = "pending"
           \/ \E class \in FailureCodes : task'[s] = [task[s] EXCEPT !.code = class, !.pc = "reply"]
              /\ log'[s] \in {log[s], "pending"}
        /\ upstream'[s] = upstream[s] /\ reply'[s] = reply[s]
        /\ aged' = aged
        /\ \A r \in Submissions \ {s} : Untouched(r)
    BY <1>1, <1>3
       DEF PrepareRecord, Refuse, Continue, At, FailureCodes, TypeOK, Untouched
  <2>2. OutcomeInv(s)'
    BY <1>1, <2>1 DEF Task, FailureCodes, Results, BeforeAttempt, BeforeData
  <2>3. PointInv(s)'
    BY <1>1, <2>1, ZenonT(60) DEF Task, BeforeAttempt, BeforeData
  <2>4. RecipientInv(s)'
    BY <1>1, <2>1 DEF Task, BeforeAttempt, InData, InRelay
  <2>5. AgeInv(s)'
    BY <1>1, <2>1 DEF Task
  <2>6. TruthInv(s)'
    BY <1>1, <2>1 DEF Task, FailureCodes, BeforeAttempt, BeforeData
  <2>7. QED
    BY <2>1, <2>2, <2>3, <2>4, <2>5, <2>6
<1>4. CASE Connect(s)
  <2>1. /\ task[s].pc = "connect"
        /\ \/ task'[s] = [task[s] EXCEPT !.pc = "mail"]
           \/ \E class \in FailureCodes : task'[s] = [task[s] EXCEPT !.result = "failed", !.code = class, !.pc = "finalize"]
        /\ upstream'[s] = upstream[s] /\ log'[s] = log[s] /\ reply'[s] = reply[s]
        /\ aged' = aged
        /\ \A r \in Submissions \ {s} : Untouched(r)
    BY <1>1, <1>4, ContinueInv
       DEF Connect, Go, End, At
  <2>2. OutcomeInv(s)'
    BY <1>1, <2>1 DEF Task, FailureCodes, Results, BeforeAttempt, BeforeData
  <2>3. PointInv(s)'
    BY <1>1, <2>1, ZenonT(60) DEF Task, BeforeAttempt, BeforeData
  <2>4. RecipientInv(s)'
    BY <1>1, <2>1, ZenonT(60) DEF Task, BeforeAttempt, InData, InRelay
  <2>5. AgeInv(s)'
    BY <1>1, <2>1 DEF Task
  <2>6. TruthInv(s)'
    BY <1>1, <2>1 DEF Task, FailureCodes, BeforeAttempt, BeforeData
  <2>7. QED
    BY <2>1, <2>2, <2>3, <2>4, <2>5, <2>6
<1>5. CASE UpstreamMAIL(s)
  <2>1. /\ task[s].pc = "mail"
        /\ \/ task'[s] = [task[s] EXCEPT !.pc = "rcpt"]
           \/ \E class \in FailureCodes : task'[s] = [task[s] EXCEPT !.result = "failed", !.code = class, !.pc = "close"]
        /\ upstream'[s] = upstream[s] /\ log'[s] = log[s] /\ reply'[s] = reply[s]
        /\ aged' = aged
        /\ \A r \in Submissions \ {s} : Untouched(r)
    BY <1>1, <1>5, ContinueInv
       DEF UpstreamMAIL, Go, End, At
  <2>2. OutcomeInv(s)'
    BY <1>1, <2>1 DEF Task, FailureCodes, Results, BeforeAttempt, BeforeData
  <2>3. PointInv(s)'
    BY <1>1, <2>1, ZenonT(60) DEF Task, BeforeAttempt, BeforeData
  <2>4. RecipientInv(s)'
    <3>1. task[s].recipients > 0 /\ task[s].answered = 0 /\ task[s].refusals = {}
      BY <1>1, <2>1 DEF InData, InRelay
    <3>2. QED
      BY <1>1, <2>1, <3>1 DEF Task, BeforeAttempt
  <2>5. AgeInv(s)'
    BY <1>1, <2>1 DEF Task
  <2>6. TruthInv(s)'
    BY <1>1, <2>1 DEF Task, FailureCodes, BeforeAttempt, BeforeData
  <2>7. QED
    BY <2>1, <2>2, <2>3, <2>4, <2>5, <2>6
<1>6. CASE UpstreamRCPT(s)
  <2>1. /\ task[s].pc = "rcpt"
        /\ task[s].answered < task[s].recipients
        /\ \/ \E refused \in SUBSET Refusals :
                 task'[s] = [task[s] EXCEPT
                   !.answered = @ + 1, !.refusals = @ \cup refused,
                   !.pc = IF task[s].answered + 1 < task[s].recipients THEN "rcpt"
                          ELSE IF task[s].refusals \cup refused = {} THEN "reauth"
                          ELSE "rset"]
           \/ task'[s] = [task[s] EXCEPT !.result = "failed", !.code = "4xx", !.pc = "close"]
        /\ upstream'[s] = upstream[s] /\ log'[s] = log[s] /\ reply'[s] = reply[s]
        /\ aged' = aged
        /\ \A r \in Submissions \ {s} : Untouched(r)
    <3> DEFINE Answered(refused) ==
                 [task[s] EXCEPT
                   !.answered = @ + 1, !.refusals = @ \cup refused,
                   !.pc = IF task[s].answered + 1 < task[s].recipients THEN "rcpt"
                          ELSE IF task[s].refusals \cup refused = {} THEN "reauth"
                          ELSE "rset"]
    <3>1. /\ At(s, "rcpt") /\ task[s].answered < task[s].recipients
          /\ \/ \E refused \in SUBSET Refusals : Continue(s, Answered(refused))
             \/ End(s, "failed", "4xx", "close")
      BY <1>6 DEF UpstreamRCPT
    <3> HIDE DEF Answered
    <3>2. /\ \/ \E refused \in SUBSET Refusals : task'[s] = Answered(refused)
             \/ task'[s] = [task[s] EXCEPT !.result = "failed", !.code = "4xx",
                                           !.pc = "close"]
          /\ upstream'[s] = upstream[s] /\ log'[s] = log[s] /\ reply'[s] = reply[s]
          /\ aged' = aged
          /\ \A r \in Submissions \ {s} : Untouched(r)
      BY <1>1, <3>1, ContinueInv DEF End
    <3>3. QED
      BY <3>1, <3>2 DEF At, Answered
  <2>2. OutcomeInv(s)'
    BY <1>1, <2>1 DEF Task, FailureCodes, Results, BeforeAttempt, BeforeData
  <2>3. PointInv(s)'
    BY <1>1, <2>1, ZenonT(60) DEF Task, BeforeAttempt, BeforeData
  <2>4. RecipientInv(s)'
    <3>1. task[s].recipients > 0 /\ upstream[s] = "none"
      BY <1>1, <2>1 DEF InData, InRelay, BeforeData
    <3>2. task[s].answered \in Nat /\ task[s].recipients \in Nat
      BY <1>1, RelayAssumption DEF Task
    <3>3. \/ /\ task'[s].pc \in {"rcpt", "reauth", "rset"}
             /\ task'[s].pc = "rcpt" => task'[s].answered < task'[s].recipients
             /\ task'[s].pc = "reauth" => /\ ~(task[s].answered + 1 < task[s].recipients)
                                          /\ task'[s].answered = task[s].answered + 1
                                          /\ task'[s].refusals = {}
          \/ task'[s].pc = "close"
      BY <1>1, <2>1, <3>2 DEF Task
    <3>4. task'[s].recipients = task[s].recipients /\ upstream'[s] = "none"
      BY <1>1, <2>1, <3>1 DEF Task
    <3>5. task'[s].pc = "reauth" => task'[s].answered = task'[s].recipients
      <4>1. task[s].answered < task[s].recipients
        BY <2>1
      <4>2. ~(task[s].answered + 1 < task[s].recipients)
               => task[s].answered + 1 = task[s].recipients
        BY <3>2, <4>1
      <4>3. QED
        BY <3>3, <3>4, <4>2
    <3>6. QED
      BY <3>1, <3>3, <3>4, <3>5 DEF BeforeAttempt
  <2>5. AgeInv(s)'
    BY <1>1, <2>1 DEF Task
  <2>6. TruthInv(s)'
    BY <1>1, <2>1 DEF Task, FailureCodes, BeforeAttempt, BeforeData
  <2>7. QED
    BY <2>1, <2>2, <2>3, <2>4, <2>5, <2>6
<1>7. CASE UpstreamRSET(s)
  <2>1. /\ task[s].pc = "rset"
        /\ \E class \in FailureCodes : task'[s] = [task[s] EXCEPT !.result = "failed", !.code = class, !.pc = "close"]
        /\ upstream'[s] = upstream[s] /\ log'[s] = log[s] /\ reply'[s] = reply[s]
        /\ aged' = aged
        /\ \A r \in Submissions \ {s} : Untouched(r)
    BY <1>1, <1>7, ContinueInv
       DEF UpstreamRSET, RefusalCode, End, At, FailureCodes
  <2>2. OutcomeInv(s)'
    BY <1>1, <2>1 DEF Task, FailureCodes, Results, BeforeAttempt, BeforeData
  <2>3. PointInv(s)'
    BY <1>1, <2>1 DEF Task, BeforeAttempt, BeforeData
  <2>4. RecipientInv(s)'
    BY <1>1, <2>1 DEF Task, BeforeAttempt, InData, InRelay
  <2>5. AgeInv(s)'
    BY <1>1, <2>1 DEF Task
  <2>6. TruthInv(s)'
    BY <1>1, <2>1 DEF Task, FailureCodes, BeforeAttempt, BeforeData
  <2>7. QED
    BY <2>1, <2>2, <2>3, <2>4, <2>5, <2>6
<1>8. CASE Reauthorize(s)
  <2>1. /\ task[s].pc = "reauth"
        /\ \/ task'[s] = [task[s] EXCEPT !.pc = "send"]
           \/ \E class \in FailureCodes : task'[s] = [task[s] EXCEPT !.result = "failed", !.code = class, !.pc = "close"]
        /\ upstream'[s] = upstream[s] /\ log'[s] = log[s] /\ reply'[s] = reply[s]
        /\ aged' = aged
        /\ \A r \in Submissions \ {s} : Untouched(r)
    BY <1>1, <1>8, ContinueInv
       DEF Reauthorize, Go, End, At, FailureCodes
  <2>2. OutcomeInv(s)'
    BY <1>1, <2>1 DEF Task, FailureCodes, Results, BeforeAttempt, BeforeData
  <2>3. PointInv(s)'
    BY <1>1, <2>1, ZenonT(60) DEF Task, BeforeAttempt, BeforeData
  <2>4. RecipientInv(s)'
    BY <1>1, <2>1 DEF Task, BeforeAttempt, InData, InRelay
  <2>5. AgeInv(s)'
    BY <1>1, <2>1 DEF Task
  <2>6. TruthInv(s)'
    BY <1>1, <2>1 DEF Task, FailureCodes, BeforeAttempt, BeforeData
  <2>7. QED
    BY <2>1, <2>2, <2>3, <2>4, <2>5, <2>6
<1>9. QED
  BY <1>2, <1>3, <1>4, <1>5, <1>6, <1>7, <1>8

\* The steps from DATA to the reply.
LEMMA AfterDataInv ==
    ASSUME RelayInv, NEW s \in Submissions,
           \/ BeginDATA(s) \/ EndDATA(s) \/ CloseUpstream(s)
           \/ Finalize(s) \/ FinalizeFails(s) \/ SendReply(s)
    PROVE  SubmissionInv(s)' /\ \A r \in Submissions \ {s} : Untouched(r)
<1>1. TypeOK /\ SubmissionInv(s) /\ task[s] \in Task
  BY DEF RelayInv, TypeOK
<1> USE DEF SubmissionInv, OutcomeInv, PointInv, RecipientInv, AgeInv, TruthInv
<1>2. CASE BeginDATA(s)
  <2>1. /\ task[s].pc = "send"
        /\ task'[s] = [task[s] EXCEPT !.pc = "data"]
        /\ upstream'[s] = "data" /\ log'[s] = log[s] /\ reply'[s] = reply[s]
        /\ aged' = aged
        /\ \A r \in Submissions \ {s} : Untouched(r)
    BY <1>1, <1>2
       DEF BeginDATA, At, TypeOK, Untouched
  <2>2. OutcomeInv(s)'
    BY <1>1, <2>1 DEF Task, FailureCodes, Results, BeforeAttempt, BeforeData
  <2>3. PointInv(s)'
    BY <1>1, <2>1 DEF Task, BeforeAttempt, BeforeData
  <2>4. RecipientInv(s)'
    BY <1>1, <2>1 DEF Task, BeforeAttempt, InData, InRelay
  <2>5. AgeInv(s)'
    BY <1>1, <2>1 DEF Task
  <2>6. TruthInv(s)'
    BY <1>1, <2>1 DEF Task, FailureCodes, BeforeAttempt, BeforeData
  <2>7. QED
    BY <2>1, <2>2, <2>3, <2>4, <2>5, <2>6
<1>3. CASE EndDATA(s)
  <2>1. /\ task[s].pc = "data"
        /\ \/ upstream[s] = "accepted" /\ task'[s] = [task[s] EXCEPT !.result = "accepted", !.code = "2xx", !.pc = "close"]
           \/ \E class \in FailureCodes, outcome \in {"failed", "returned"} :
                 upstream[s] = "refused" /\ task'[s] = [task[s] EXCEPT !.result = outcome, !.code = class, !.pc = "close"]
           \/ upstream[s] = "malformed" /\ task'[s] = [task[s] EXCEPT !.result = "garbled", !.code = "4xx", !.pc = "close"]
           \/ task'[s] = [task[s] EXCEPT !.result = "uncertain", !.code = "4xx", !.pc = "close"]
        /\ upstream'[s] = upstream[s] /\ log'[s] = log[s] /\ reply'[s] = reply[s]
        /\ aged' = aged
        /\ \A r \in Submissions \ {s} : Untouched(r)
    BY <1>1, <1>3, ContinueInv
       DEF EndDATA, End, At
  <2>2. OutcomeInv(s)'
    BY <1>1, <2>1, ZenonT(60) DEF Task, FailureCodes, Results, BeforeAttempt, BeforeData
  <2>3. PointInv(s)'
    BY <1>1, <2>1, ZenonT(60) DEF Task, BeforeAttempt, BeforeData
  <2>4. RecipientInv(s)'
    BY <1>1, <2>1, ZenonT(60) DEF Task, BeforeAttempt, InData, InRelay
  <2>5. AgeInv(s)'
    BY <1>1, <2>1 DEF Task
  <2>6. TruthInv(s)'
    BY <1>1, <2>1 DEF Task, FailureCodes, BeforeAttempt, BeforeData
  <2>7. QED
    BY <2>1, <2>2, <2>3, <2>4, <2>5, <2>6
<1>4. CASE CloseUpstream(s)
  <2>1. /\ task[s].pc = "close"
        /\ task'[s] = [task[s] EXCEPT !.pc = "finalize"]
        /\ upstream'[s] = upstream[s] /\ log'[s] = log[s] /\ reply'[s] = reply[s]
        /\ aged' = aged
        /\ \A r \in Submissions \ {s} : Untouched(r)
    BY <1>1, <1>4, ContinueInv
       DEF CloseUpstream, Go, At
  <2>2. OutcomeInv(s)'
    BY <1>1, <2>1 DEF Task, FailureCodes, Results, BeforeAttempt, BeforeData
  <2>3. PointInv(s)'
    BY <1>1, <2>1 DEF Task, BeforeAttempt, BeforeData
  <2>4. RecipientInv(s)'
    BY <1>1, <2>1 DEF Task, BeforeAttempt, InData, InRelay
  <2>5. AgeInv(s)'
    BY <1>1, <2>1 DEF Task
  <2>6. TruthInv(s)'
    BY <1>1, <2>1 DEF Task, FailureCodes, BeforeAttempt, BeforeData
  <2>7. QED
    BY <2>1, <2>2, <2>3, <2>4, <2>5, <2>6
<1>5. CASE Finalize(s)
  <2>1. /\ task[s].pc = "finalize"
        /\ task'[s] = [task[s] EXCEPT !.pc = "reply"]
        /\ log'[s] = Verdict(task[s].result)
        /\ upstream'[s] = upstream[s] /\ reply'[s] = reply[s]
        /\ aged' = aged
        /\ \A r \in Submissions \ {s} : Untouched(r)
    BY <1>1, <1>5
       DEF Finalize, At, TypeOK, Untouched
  <2>2. OutcomeInv(s)'
    BY <1>1, <2>1 DEF Task, FailureCodes, Results, BeforeAttempt, BeforeData
  <2>3. PointInv(s)'
    BY <1>1, <2>1 DEF Task, BeforeAttempt, BeforeData, Results, Verdict
  <2>4. RecipientInv(s)'
    BY <1>1, <2>1 DEF Task, BeforeAttempt, InData, InRelay
  <2>5. AgeInv(s)'
    BY <1>1, <2>1 DEF Task
  <2>6. TruthInv(s)'
    BY <1>1, <2>1 DEF Task, FailureCodes, Results, Verdict
  <2>7. QED
    BY <2>1, <2>2, <2>3, <2>4, <2>5, <2>6
<1>6. CASE FinalizeFails(s)
  <2>1. /\ task[s].pc = "finalize"
        /\ task'[s] = [task[s] EXCEPT !.pc = "reply",
                        !.code = IF task[s].result = "returned" THEN "4xx" ELSE @]
        /\ log'[s] \in {log[s], Verdict(task[s].result)}
        /\ upstream'[s] = upstream[s] /\ reply'[s] = reply[s]
        /\ aged' = aged
        /\ \A r \in Submissions \ {s} : Untouched(r)
    BY <1>1, <1>6
       DEF FinalizeFails, At, TypeOK, Untouched
  <2>2. OutcomeInv(s)'
    BY <1>1, <2>1 DEF Task, FailureCodes, Results, BeforeAttempt, BeforeData
  <2>3. PointInv(s)'
    BY <1>1, <2>1 DEF Task, BeforeAttempt, BeforeData, Results, Verdict
  <2>4. RecipientInv(s)'
    BY <1>1, <2>1 DEF Task, BeforeAttempt, InData, InRelay
  <2>5. AgeInv(s)'
    BY <1>1, <2>1 DEF Task
  <2>6. TruthInv(s)'
    BY <1>1, <2>1 DEF Task, FailureCodes, Results, Verdict
  <2>7. QED
    BY <2>1, <2>2, <2>3, <2>4, <2>5, <2>6
<1>7. CASE SendReply(s)
  <2>1. /\ task[s].pc = "reply"
        /\ task'[s] = [task[s] EXCEPT !.pc = "done"]
        /\ reply'[s] \in {task[s].code, reply[s]}
        /\ upstream'[s] = upstream[s] /\ log'[s] = log[s]
        /\ aged' = aged
        /\ \A r \in Submissions \ {s} : Untouched(r)
    BY <1>1, <1>7
       DEF SendReply, At, TypeOK, Untouched
  <2>2. OutcomeInv(s)'
    BY <1>1, <2>1 DEF Task, FailureCodes, Results, BeforeAttempt, BeforeData
  <2>3. PointInv(s)'
    BY <1>1, <2>1 DEF Task, BeforeAttempt, BeforeData
  <2>4. RecipientInv(s)'
    BY <1>1, <2>1 DEF Task, BeforeAttempt, InData, InRelay
  <2>5. AgeInv(s)'
    BY <1>1, <2>1 DEF Task
  <2>6. TruthInv(s)'
    BY <1>1, <2>1 DEF Task, FailureCodes, BeforeAttempt, BeforeData, Results
  <2>7. QED
    BY <2>1, <2>2, <2>3, <2>4, <2>5, <2>6
<1>8. QED
  BY <1>2, <1>3, <1>4, <1>5, <1>6, <1>7

\* Wherever CancelledError is raised, what the task does next is right.
LEMMA CancelledInv ==
    ASSUME RelayInv, NEW s \in Submissions, task[s].pc \in Awaiting, CancelledLog(s),
           task'[s] \in Task,
           task'[s] = [Cancelled(task[s]) EXCEPT !.timer = task'[s].timer,
                                                !.client = task'[s].client],
           upstream' = upstream, reply' = reply, aged' = aged,
           task[s].timer = "fired" => task'[s].timer = "fired"
    PROVE  SubmissionInv(s)'
<1> DEFINE t == task[s]
           u == task'[s]
<1>1. TypeOK /\ SubmissionInv(s) /\ t \in Task
  BY DEF RelayInv, TypeOK
<1>2. /\ u.recipients = t.recipients /\ u.answered = t.answered /\ u.refusals = t.refusals
      /\ \/ /\ t.pc \in {"receiving", "authorize", "record"}
            /\ u.pc = "reply" /\ u.code = "4xx" /\ u.result = t.result
         \/ /\ t.pc \in {"connect", "mail", "rcpt", "rset", "reauth"}
            /\ u.pc \in {"close", "finalize"} /\ u.code \in FailureCodes
            /\ u.result = "failed"
         \/ /\ t.pc = "data"
            /\ u.pc = "close" /\ u.code = "4xx" /\ u.result = "uncertain"
         \/ /\ t.pc = "close"
            /\ u.pc = "finalize" /\ u.code = t.code /\ u.result = t.result
         \/ /\ t.pc = "finalize"
            /\ u.pc = "reply" /\ u.result = t.result
            /\ u.code = IF t.result = "accepted" THEN t.code ELSE "4xx"
  <2>1. CASE t.pc \in {"receiving", "authorize", "record"}
    BY <1>1, <2>1 DEF Cancelled, Task
  <2>2. CASE t.pc \in {"connect", "mail", "rcpt", "reauth"}
    BY <1>1, <2>2, ZenonT(60) DEF Cancelled, Task, FailureCodes
  <2>3. CASE t.pc = "rset"
    BY <1>1, <2>3 DEF Cancelled, RefusalCode, Task, FailureCodes
  <2>4. CASE t.pc = "data"
    BY <1>1, <2>4 DEF Cancelled, Task
  <2>5. CASE t.pc \in {"close", "finalize"}
    BY <1>1, <2>5, ZenonT(60) DEF Cancelled, Task
  <2>6. QED
    BY <2>1, <2>2, <2>3, <2>4, <2>5 DEF Awaiting, InData, InRelay
<1>3. \/ log'[s] = log[s]
      \/ t.pc = "record" /\ log'[s] = "pending"
      \/ t.pc = "finalize" /\ log'[s] = Verdict(t.result)
  <2>1. \A value : [log EXCEPT ![s] = value][s] = value
    BY <1>1 DEF TypeOK
  <2>2. CASE UNCHANGED log
    BY <2>2
  <2>3. CASE At(s, "record") /\ log' = [log EXCEPT ![s] = "pending"]
    BY <2>1, <2>3 DEF At
  <2>4. CASE At(s, "finalize") /\ log' = [log EXCEPT ![s] = Verdict(task[s].result)]
    BY <2>1, <2>4 DEF At
  <2>5. QED
    BY <2>2, <2>3, <2>4 DEF CancelledLog
<1> HIDE DEF t, u
<1> USE DEF SubmissionInv, OutcomeInv, PointInv, RecipientInv, AgeInv, TruthInv
<1>4. OutcomeInv(s)'
  BY <1>1, <1>2 DEF t, u, Task, FailureCodes, Results, BeforeAttempt, BeforeData
<1>5. PointInv(s)'
  BY <1>1, <1>2, <1>3 DEF t, u, Task, BeforeAttempt, BeforeData, Results, Verdict
<1>6. RecipientInv(s)'
  BY <1>1, <1>2 DEF t, u, Task, BeforeAttempt, InData, InRelay, Awaiting
<1>7. AgeInv(s)'
  BY <1>1, <1>2 DEF t, u, Task
<1>8. TruthInv(s)'
  BY <1>1, <1>2, <1>3 DEF t, u, Task, BeforeAttempt, BeforeData, Results, Verdict
<1>9. QED
  BY <1>4, <1>5, <1>6, <1>7, <1>8

\* Timer, client, upstream server and clock act on one submission.
LEMMA EventInv ==
    ASSUME RelayInv, TypeOK', NEW s \in Submissions,
           \/ TransactionTimeout(s) \/ ClientLost(s)
           \/ UpstreamDecides(s) \/ AgeAttempt(s)
    PROVE  SubmissionInv(s)' /\ \A r \in Submissions \ {s} : Untouched(r)
<1>1. TypeOK /\ SubmissionInv(s) /\ task[s] \in Task /\ task'[s] \in Task
  BY DEF RelayInv, TypeOK
<1>2. ASSUME CancelledLog(s)
      PROVE  \A r \in Submissions \ {s} : log'[r] = log[r]
  BY <1>1, <1>2 DEF CancelledLog, TypeOK
<1>3. Cancelled(task[s]) \in Task
  BY <1>1, CancelledType
<1>4. CASE TransactionTimeout(s)
  <2>1. /\ task'[s] = [Cancelled(task[s]) EXCEPT !.timer = "fired"]
        /\ \A r \in Submissions \ {s} : Untouched(r)
    BY <1>1, <1>2, <1>4 DEF TransactionTimeout, TypeOK, Untouched
  <2>2. /\ Cancelled(task[s]).client = task'[s].client
        /\ task'[s].timer = "fired"
    BY <1>3, <2>1 DEF Task
  <2>3. task'[s] = [Cancelled(task[s]) EXCEPT !.timer = task'[s].timer,
                                             !.client = task'[s].client]
    BY <1>1, <1>3, <2>1, <2>2 DEF Task
  <2>4. QED
    BY <1>1, <1>4, <2>1, <2>2, <2>3, CancelledInv DEF TransactionTimeout
<1>5. CASE ClientLost(s)
  <2>1. /\ task'[s] = [Cancelled(task[s]) EXCEPT
                        !.client = "lost",
                        !.pc = IF task[s].pc \in {"authed", "envelope"} THEN "done" ELSE @]
        /\ \A r \in Submissions \ {s} : Untouched(r)
    BY <1>1, <1>2, <1>5 DEF ClientLost, TypeOK, Untouched
  <2>2. CASE task[s].pc \in Awaiting
    <3>1. task[s].pc \notin {"authed", "envelope"}
      BY <2>2 DEF Awaiting, InData, InRelay
    <3>2. Cancelled(task[s]).timer = task[s].timer
      BY <1>1 DEF Cancelled, Task
    <3>3. task'[s] = [Cancelled(task[s]) EXCEPT !.client = "lost"]
      BY <1>3, <2>1, <3>1 DEF Task
    <3>4. task'[s].timer = task[s].timer /\ task'[s].client = "lost"
      BY <1>3, <3>2, <3>3 DEF Task
    <3>5. task'[s] = [Cancelled(task[s]) EXCEPT !.timer = task'[s].timer,
                                               !.client = task'[s].client]
      BY <1>3, <3>2, <3>3, <3>4 DEF Task
    <3>6. QED
      BY <1>1, <1>5, <2>1, <2>2, <3>4, <3>5, CancelledInv DEF ClientLost
  <2>3. CASE task[s].pc \in {"authed", "envelope", "reply"}
    <3>1. Cancelled(task[s]) = task[s]
      BY <2>3 DEF Cancelled
    <3>2. log' = log /\ upstream' = upstream /\ reply' = reply /\ aged' = aged
      BY <1>5, <2>3 DEF ClientLost, CancelledLog, At
    <3>3. /\ task'[s].pc = IF task[s].pc = "reply" THEN "reply" ELSE "done"
          /\ \A field \in {"recipients", "answered", "refusals", "result", "code", "timer"} :
                task'[s][field] = task[s][field]
      BY <1>1, <2>1, <2>3, <3>1 DEF Task
    <3>4. OutcomeInv(s)'
      BY <1>1, <3>2, <3>3 DEF SubmissionInv, OutcomeInv
    <3>5. PointInv(s)'
      BY <1>1, <2>3, <3>2, <3>3 DEF SubmissionInv, PointInv, BeforeAttempt, BeforeData
    <3>6. RecipientInv(s)'
      BY <1>1, <2>3, <3>2, <3>3 DEF SubmissionInv, RecipientInv, BeforeAttempt, InData, InRelay
    <3>7. AgeInv(s)'
      BY <1>1, <2>3, <3>2, <3>3 DEF SubmissionInv, AgeInv
    <3>8. TruthInv(s)'
      BY <1>1, <3>2, <3>3 DEF SubmissionInv, TruthInv
    <3>9. QED
      BY <2>1, <3>4, <3>5, <3>6, <3>7, <3>8 DEF SubmissionInv
  <2>4. QED
    BY <1>5, <2>2, <2>3 DEF ClientLost
<1>6. CASE UpstreamDecides(s)
  <2>1. /\ upstream[s] = "data" /\ upstream'[s] \in {"accepted", "refused", "malformed"}
        /\ task' = task /\ log' = log /\ reply' = reply /\ aged' = aged
        /\ \A r \in Submissions \ {s} : Untouched(r)
    BY <1>1, <1>6 DEF UpstreamDecides, TypeOK, Untouched
  <2>2. OutcomeInv(s)'
    BY <1>1, <2>1 DEF SubmissionInv, OutcomeInv
  <2>3. PointInv(s)'
    BY <1>1, <2>1 DEF SubmissionInv, PointInv
  <2>4. RecipientInv(s)'
    BY <1>1, <2>1 DEF SubmissionInv, RecipientInv
  <2>5. AgeInv(s)'
    BY <1>1, <2>1 DEF SubmissionInv, AgeInv
  <2>6. TruthInv(s)'
    BY <1>1, <2>1 DEF SubmissionInv, TruthInv
  <2>7. QED
    BY <2>1, <2>2, <2>3, <2>4, <2>5, <2>6 DEF SubmissionInv
<1>7. CASE AgeAttempt(s)
  <2>1. /\ task[s].timer = "fired" \/ task[s].pc = "done"
        /\ task' = task /\ upstream' = upstream /\ log' = log /\ reply' = reply
        /\ \A r \in Submissions \ {s} : Untouched(r)
    BY <1>7 DEF AgeAttempt, At, Untouched
  <2>2. QED
    BY <1>1, <2>1
       DEF SubmissionInv, OutcomeInv, PointInv, RecipientInv, AgeInv, TruthInv
<1>8. QED
  BY <1>4, <1>5, <1>6, <1>7

-----------------------------------------------------------------------------
(* RelayInv is inductive, and safety follows.                              *)

\* Every step of the relay and its surroundings preserves RelayInv.
LEMMA RelayStepInv ==
    ASSUME RelayInv, TypeOK', RelayNext
    PROVE  \A r \in Submissions : SubmissionInv(r)'
<1>1. /\ TypeOK
      /\ \A r \in Submissions : SubmissionInv(r) /\ task[r] \in Task
  BY DEF RelayInv, TypeOK
<1>2. ASSUME NEW s \in Submissions,
             \/ ClientStep(s) \/ ServiceStep(s) \/ TransactionTimeout(s)
             \/ ClientLost(s) \/ UpstreamDecides(s) \/ AgeAttempt(s)
      PROVE  \A r \in Submissions : SubmissionInv(r)'
  <2>1. SubmissionInv(s)' /\ \A r \in Submissions \ {s} : Untouched(r)
    BY <1>2, ClientStepInv, BeforeDataInv, AfterDataInv, EventInv DEF ServiceStep
  <2>2. QED
    BY <1>1, <2>1, UntouchedInv
<1> USE DEF SubmissionInv, OutcomeInv, PointInv, RecipientInv, AgeInv, TruthInv
<1>3. ASSUME Crash, NEW r \in Submissions
      PROVE  SubmissionInv(r)'
  <2>1. /\ task'[r] = IF task[r].pc \in {"new", "done"} THEN task[r]
                     ELSE [task[r] EXCEPT !.pc = "done", !.client = "lost"]
        /\ upstream' = upstream /\ log' = log /\ reply' = reply /\ aged' = aged
    BY <1>3 DEF Crash
  <2>2. OutcomeInv(r)'
    BY <1>1, <2>1 DEF Task
  <2>3. PointInv(r)'
    BY <1>1, <2>1 DEF Task, BeforeAttempt, BeforeData
  <2>4. RecipientInv(r)'
    BY <1>1, <2>1 DEF Task, BeforeAttempt, InData, InRelay
  <2>5. AgeInv(r)'
    BY <1>1, <2>1 DEF Task
  <2>6. TruthInv(r)'
    BY <1>1, <2>1 DEF Task
  <2>7. QED
    BY <2>2, <2>3, <2>4, <2>5, <2>6
<1>4. ASSUME Restart, NEW r \in Submissions
      PROVE  SubmissionInv(r)'
  BY <1>1, <1>4, UntouchedInv DEF Restart, Untouched
<1>5. ASSUME NEW old \in SUBSET Submissions, RunMaintenance(old), NEW r \in Submissions
      PROVE  SubmissionInv(r)'
  <2>1. /\ task' = task /\ upstream' = upstream /\ reply' = reply /\ aged' \subseteq aged
        /\ \/ log'[r] = log[r]
           \/ log'[r] = "deleted" /\ task[r].pc = "done" /\ log[r] # "none"
           \/ log'[r] = "unknown" /\ log[r] = "pending" /\ r \in aged
    BY <1>5 DEF RunMaintenance, At
  <2>2. OutcomeInv(r)'
    BY <1>1, <2>1
  <2>3. PointInv(r)'
    BY <1>1, <2>1 DEF Task, BeforeAttempt, BeforeData
  <2>4. RecipientInv(r)'
    BY <1>1, <2>1
  <2>5. AgeInv(r)'
    BY <1>1, <2>1
  <2>6. TruthInv(r)'
    BY <1>1, <2>1
  <2>7. QED
    BY <2>2, <2>3, <2>4, <2>5, <2>6
<1>6. QED
  BY <1>2, <1>3, <1>4, <1>5 DEF RelayNext

\* RelayInv holds initially and is preserved by every step: in every reachable
\* state the program point of a submission determines what may be true of its
\* recipients, its row, its reply and the upstream server's verdict.
THEOREM Inductive == Spec => []RelayInv
<1>1. Init => RelayInv
  <2>1. ASSUME Init, NEW s \in Submissions
        PROVE  SubmissionInv(s)
    BY <2>1 DEF Init, RelayInit, NewTask, SubmissionInv, OutcomeInv, PointInv, RecipientInv,
                AgeInv, TruthInv, BeforeAttempt, BeforeData, InData, InRelay, FailureCodes
  <2>2. QED
    BY <2>1, InitType DEF RelayInv
<1>2. RelayInv /\ [Next]_vars => RelayInv'
  <2>1. RelayInv /\ [Next]_vars => TypeOK'
    BY StepType DEF RelayInv
  <2>2. RelayInv /\ TypeOK' /\ RelayNext => RelayInv'
    BY RelayStepInv DEF RelayInv
  <2>3. RelayInv /\ UNCHANGED relayVars => RelayInv'
    <3>1. ASSUME RelayInv, UNCHANGED relayVars, NEW r \in Submissions
          PROVE  SubmissionInv(r)'
      BY <3>1, UntouchedInv DEF RelayInv, relayVars, Untouched
    <3>2. QED
      BY <2>1, <3>1 DEF RelayInv, relayVars, TypeOK
  <2>4. QED
    BY <2>1, <2>2, <2>3 DEF Next, vars
<1>3. QED
  BY <1>1, <1>2, PTL DEF Spec

\* The reply to DATA is never a false 250 nor a false permanent failure.
THEOREM RepliesAreTruthful == Spec => []ReplyTruthful
<1>1. RelayInv => ReplyTruthful
  BY DEF RelayInv, SubmissionInv, TruthInv, ReplyTruthful
<1>2. QED
  BY <1>1, Inductive, PTL

\* The log never says accepted or failed against the upstream server's verdict.
THEOREM LogIsTruthful == Spec => []LogTruthful
<1>1. RelayInv => LogTruthful
  BY DEF RelayInv, SubmissionInv, TruthInv, LogTruthful
<1>2. QED
  BY <1>1, Inductive, PTL

\* An acceptance the relay knows of is the reply, whatever fails after it.
THEOREM AcceptanceIsReported == Spec => []KnownAcceptanceIsReported
<1>1. RelayInv => KnownAcceptanceIsReported
  BY DEF RelayInv, SubmissionInv, TruthInv, KnownAcceptanceIsReported
<1>2. QED
  BY <1>1, Inductive, PTL

\* No message is handed over before every one of its recipients was accepted.
THEOREM RecipientsComeFirst == Spec => []AllRecipientsBeforeData
<1>1. RelayInv => AllRecipientsBeforeData
  BY DEF RelayInv, SubmissionInv, RecipientInv, AllRecipientsBeforeData
<1>2. QED
  BY <1>1, Inductive, PTL

\* No message is handed over without a durable row that is still pending.
THEOREM SentUnderPendingRow == Spec => []OnlyPendingIsSent
<1>1. RelayInv => OnlyPendingIsSent
  BY DEF RelayInv, SubmissionInv, PointInv, OnlyPendingIsSent, BeforeData
<1>2. QED
  BY <1>1, Inductive, PTL

-----------------------------------------------------------------------------
(* What a recipient refused for the moment does to the reply.              *)

\* The reply that is chosen, and the one that was sent, are not permanent.
RefusalInv(s) ==
    "4xx" \in task[s].refusals =>
        /\ task[s].pc \in {"close", "finalize", "reply"} => task[s].code # "5xx"
        /\ reply[s] # "5xx"

\* Moving on, ending the relay and refusing keep the refusals and the reply.
LEMMA RefusalsKept ==
    ASSUME TypeOK, NEW s \in Submissions
    PROVE  LET Kept == task'[s].refusals = task[s].refusals /\ reply' = reply IN
           /\ \A next : Go(s, next) => Kept /\ task'[s].code = task[s].code
           /\ \A outcome, class, next :
                End(s, outcome, class, next) => Kept /\ task'[s].code = class
           /\ \A class : Refuse(s, class) => Kept
<1>1. task[s] \in Task
  BY DEF TypeOK
<1>2. ASSUME NEW next, Go(s, next)
      PROVE  /\ task'[s].refusals = task[s].refusals /\ reply' = reply
             /\ task'[s].code = task[s].code
  <2>1. task'[s] = [task[s] EXCEPT !.pc = next] /\ reply' = reply
    BY <1>2 DEF Go, Continue, TypeOK
  <2>2. QED
    BY <1>1, <2>1 DEF Task
<1>3. ASSUME NEW outcome, NEW class, NEW next, End(s, outcome, class, next)
      PROVE  /\ task'[s].refusals = task[s].refusals /\ reply' = reply
             /\ task'[s].code = class
  <2>1. /\ task'[s] = [task[s] EXCEPT !.result = outcome, !.code = class, !.pc = next]
        /\ reply' = reply
    BY <1>3 DEF End, Continue, TypeOK
  <2>2. QED
    BY <1>1, <2>1 DEF Task
<1>4. ASSUME NEW class, Refuse(s, class)
      PROVE  task'[s].refusals = task[s].refusals /\ reply' = reply
  <2>1. task'[s] = [task[s] EXCEPT !.code = class, !.pc = "reply"] /\ reply' = reply
    BY <1>4 DEF Refuse, Continue, TypeOK
  <2>2. QED
    BY <1>1, <2>1 DEF Task
<1>5. QED
  BY <1>2, <1>3, <1>4

\* The dialogue after the last recipient knows no refusal that RSET or the
\* end of the relay has not turned into the code.
LEMMA RefusalServiceStep ==
    ASSUME RelayInv, TypeOK', NEW s \in Submissions, RefusalInv(s),
           ClientStep(s) \/ ServiceStep(s)
    PROVE  RefusalInv(s)'
<1>1. TypeOK /\ PointInv(s) /\ RecipientInv(s) /\ task[s] \in Task
  BY DEF RelayInv, SubmissionInv, TypeOK
<1> USE DEF PointInv, RecipientInv, RefusalInv, BeforeAttempt
<1>2. CASE ClientStep(s)
  <2>1. task'[s].refusals = task[s].refusals /\ task[s].pc \in BeforeAttempt /\ reply' = reply
    <3>1. CASE Authenticate(s) \/ HandleDATA(s)
      BY <1>1, <3>1, RefusalsKept DEF Authenticate, HandleDATA, At
    <3>2. CASE HandleMAIL(s)
      BY <1>1, <3>2 DEF HandleMAIL, Continue, At, TypeOK, Task
    <3>3. CASE HandleRCPT(s)
      BY <1>1, <3>3 DEF HandleRCPT, Continue, At, TypeOK, Task
    <3>4. CASE AcquireData(s)
      BY <1>1, <3>4 DEF AcquireData, At, TypeOK, Task
    <3>5. QED
      BY <1>2, <3>1, <3>2, <3>3, <3>4 DEF ClientStep
  <2>2. QED
    BY <1>1, <2>1
<1>3. CASE PrepareAuthorize(s) \/ PrepareRecord(s) \/ Connect(s) \/ UpstreamMAIL(s)
  <2>1. /\ task'[s].refusals = task[s].refusals /\ reply' = reply
        /\ task[s].pc \in BeforeAttempt \cup {"connect", "mail"}
    <3>1. CASE PrepareAuthorize(s)
      <4>1. CASE \E d \in AuthorizedDomains(CredentialOf[s]) :
                   Continue(s, [task[s] EXCEPT !.pc = "record", !.route = d])
        <5>1. /\ \E d \in AuthorizedDomains(CredentialOf[s]) :
                    task'[s] = [task[s] EXCEPT !.pc = "record", !.route = d]
              /\ reply' = reply /\ task[s].pc = "authorize"
          BY <1>1, <3>1, <4>1 DEF PrepareAuthorize, Continue, At, TypeOK
        <5>2. QED
          BY <1>1, <5>1 DEF Task
      <4>2. CASE \E class \in FailureCodes : Refuse(s, class)
        BY <1>1, <3>1, <4>2, RefusalsKept DEF PrepareAuthorize, At
      <4>3. QED
        BY <3>1, <4>1, <4>2 DEF PrepareAuthorize, FailureCodes
    <3>2. CASE PrepareRecord(s)
      <4>1. /\ \/ task'[s] = [task[s] EXCEPT !.pc = "connect"]
               \/ \E class \in FailureCodes :
                    task'[s] = [task[s] EXCEPT !.code = class, !.pc = "reply"]
            /\ reply' = reply /\ task[s].pc = "record"
        BY <1>1, <3>2 DEF PrepareRecord, Refuse, Continue, At, FailureCodes, TypeOK
      <4>2. QED
        BY <1>1, <4>1 DEF Task
    <3>3. CASE Connect(s) \/ UpstreamMAIL(s)
      BY <1>1, <3>3, RefusalsKept DEF Connect, UpstreamMAIL, At
    <3>4. QED
      BY <1>3, <3>1, <3>2, <3>3
  <2>2. QED
    BY <1>1, <2>1
<1>4. CASE UpstreamRCPT(s)
  <2>1. /\ task'[s].pc \in {"rcpt", "rset", "reauth"} \/ task'[s].code = "4xx"
        /\ reply' = reply /\ reply[s] = "none"
    <3>1. task[s].pc = "rcpt" /\ reply[s] = "none"
      BY <1>1, <1>4 DEF UpstreamRCPT, At
    <3>2. CASE End(s, "failed", "4xx", "close")
      BY <1>1, <3>1, <3>2, RefusalsKept
    <3>3. ASSUME NEW refused, NEW next \in {"rcpt", "rset", "reauth"},
                 Continue(s, [task[s] EXCEPT !.answered = @ + 1, !.refusals = @ \cup refused,
                                             !.pc = next])
          PROVE  /\ task'[s].pc \in {"rcpt", "rset", "reauth"}
                 /\ reply' = reply
      <4>1. /\ task'[s] = [task[s] EXCEPT !.answered = @ + 1, !.refusals = @ \cup refused,
                                          !.pc = next]
            /\ reply' = reply
        BY <3>3 DEF Continue, TypeOK
      <4>2. QED
        BY <1>1, <4>1 DEF Task
    <3>4. CASE ~End(s, "failed", "4xx", "close")
      <4> DEFINE after(refused) == IF task[s].answered + 1 < task[s].recipients THEN "rcpt"
                                   ELSE IF task[s].refusals \cup refused = {} THEN "reauth"
                                   ELSE "rset"
      <4>1. PICK refused : Continue(s,
               [task[s] EXCEPT !.answered = @ + 1, !.refusals = @ \cup refused,
                               !.pc = after(refused)])
        BY <1>4, <3>4 DEF UpstreamRCPT
      <4>2. after(refused) \in {"rcpt", "rset", "reauth"}
        OBVIOUS
      <4> HIDE DEF after
      <4>3. QED
        BY <3>1, <3>3, <4>1, <4>2
    <3>5. QED
      BY <3>2, <3>4
  <2>2. QED
    BY <2>1
<1>5. CASE UpstreamRSET(s)
  <2>1. /\ task'[s].refusals = task[s].refusals
        /\ task'[s].code = RefusalCode(task[s].refusals)
        /\ reply' = reply /\ reply[s] = "none"
    BY <1>1, <1>5 DEF UpstreamRSET, End, Continue, At, TypeOK, Task
  <2>2. QED
    BY <2>1 DEF RefusalCode
<1>6. CASE Reauthorize(s) \/ BeginDATA(s) \/ EndDATA(s)
  <2>1. /\ task'[s].refusals = task[s].refusals /\ reply' = reply
        /\ task[s].pc \in {"reauth", "send", "data"}
    <3>1. CASE Reauthorize(s) \/ EndDATA(s)
      BY <1>1, <3>1, RefusalsKept DEF Reauthorize, EndDATA, At
    <3>2. CASE BeginDATA(s)
      BY <1>1, <3>2 DEF BeginDATA, At, TypeOK, Task
    <3>3. QED
      BY <1>6, <3>1, <3>2
  <2>2. QED
    BY <1>1, <2>1
<1>7. CASE CloseUpstream(s) \/ Finalize(s) \/ FinalizeFails(s)
  <2>1. /\ task'[s].refusals = task[s].refusals /\ reply' = reply
        /\ task[s].pc \in {"close", "finalize"}
        /\ task'[s].code \in {task[s].code, "4xx"}
    BY <1>1, <1>7 DEF CloseUpstream, Finalize, FinalizeFails, Go, Continue, At, TypeOK, Task
  <2>2. QED
    BY <2>1
<1>8. CASE SendReply(s)
  <2>1. /\ task'[s].refusals = task[s].refusals /\ task[s].pc = "reply" /\ task'[s].pc = "done"
        /\ reply'[s] \in {task[s].code, reply[s]}
    BY <1>1, <1>8 DEF SendReply, At, TypeOK, Task
  <2>2. QED
    BY <2>1
<1>9. QED
  BY <1>2, <1>3, <1>4, <1>5, <1>6, <1>7, <1>8 DEF ServiceStep

\* A cancellation chooses 451, or the code of the refusals when RSET is broken
\* off, or leaves the code that was chosen.
LEMMA RefusalCancelled ==
    ASSUME RelayInv, NEW s \in Submissions, RefusalInv(s),
           TransactionTimeout(s) \/ ClientLost(s)
    PROVE  RefusalInv(s)'
<1> DEFINE t == task[s]
           u == Cancelled(task[s])
<1>1. /\ PointInv(s) /\ RecipientInv(s) /\ t \in Task /\ u \in Task
      /\ task \in [Submissions -> Task]
  BY CancelledType DEF RelayInv, SubmissionInv, TypeOK
<1>2. reply' = reply /\ task'[s].refusals = u.refusals /\ task'[s].code = u.code
      /\ task'[s].pc \in {u.pc, "done"}
  <2>1. CASE TransactionTimeout(s)
    <3>1. task'[s] = [u EXCEPT !.timer = "fired"] /\ reply' = reply
      BY <1>1, <2>1 DEF TransactionTimeout
    <3>2. QED
      BY <1>1, <3>1 DEF Task
  <2>2. CASE ClientLost(s)
    <3>1. /\ task'[s] = [u EXCEPT !.client = "lost",
                          !.pc = IF task[s].pc \in {"authed", "envelope"} THEN "done" ELSE @]
          /\ reply' = reply
      BY <1>1, <2>2 DEF ClientLost
    <3>2. QED
      BY <1>1, <3>1 DEF Task
  <2>3. QED
    BY <2>1, <2>2
<1>3. /\ u.refusals = t.refusals
      /\ u.code \in {t.code, "4xx", RefusalCode(t.refusals)}
      /\ \/ t.pc \in {"close", "finalize"} \/ u.pc = t.pc
         \/ u.code \in {"4xx", RefusalCode(t.refusals)}
  <2>1. CASE t.pc \in {"receiving", "authorize", "record", "connect", "mail", "rcpt", "reauth"}
    BY <1>1, <2>1 DEF Cancelled, Task
  <2>2. CASE t.pc \in {"rset", "data"}
    <3>1. CASE t.pc = "rset"
      <4>1. u = [t EXCEPT !.result = "failed", !.code = RefusalCode(t.refusals), !.pc = "close"]
        BY <3>1 DEF Cancelled
      <4>2. u.refusals = t.refusals /\ u.code = RefusalCode(t.refusals) /\ u.pc = "close"
        BY <1>1, <4>1 DEF Task
      <4>3. QED
        BY <4>2
    <3>2. CASE t.pc = "data"
      BY <1>1, <3>2 DEF Cancelled, Task
    <3>3. QED
      BY <2>2, <3>1, <3>2
  <2>3. CASE t.pc \in {"close", "finalize"}
    BY <1>1, <2>3 DEF Cancelled, Task
  <2>4. CASE t.pc \in {"new", "authed", "envelope", "send", "reply", "done"}
    BY <1>1, <2>4 DEF Cancelled, Task
  <2>5. QED
    BY <1>1, <2>1, <2>2, <2>3, <2>4 DEF Task, InData, InRelay
<1> HIDE DEF t, u
<1>4. QED
  BY <1>2, <1>3 DEF t, RefusalInv, RefusalCode

\* A recipient refused for the moment never makes the reply permanent.
THEOREM RefusalsAreRetryable == Spec => []TemporaryRefusalIsRetryable
<1> DEFINE Inv == \A s \in Submissions : RefusalInv(s)
<1>1. Init => Inv
  BY DEF Init, RelayInit, NewTask, RefusalInv
<1>2. RelayInv /\ RelayInv' /\ Inv /\ [Next]_vars => Inv'
  <2> SUFFICES ASSUME RelayInv, TypeOK', Inv, [Next]_vars, NEW r \in Submissions
               PROVE  RefusalInv(r)'
    BY DEF RelayInv
  <2>1. ASSUME task'[r] = task[r], reply'[r] = reply[r]
        PROVE  RefusalInv(r)'
    BY <2>1 DEF RefusalInv
  <2>2. ASSUME NEW s \in Submissions,
               \/ ClientStep(s) \/ ServiceStep(s) \/ TransactionTimeout(s)
               \/ ClientLost(s) \/ UpstreamDecides(s) \/ AgeAttempt(s)
        PROVE  RefusalInv(r)'
    <3>1. CASE r # s
      BY <2>1, <2>2, <3>1, ClientStepInv, BeforeDataInv, AfterDataInv, EventInv
         DEF ServiceStep, Untouched
    <3>2. CASE r = s
      BY <2>1, <2>2, <3>2, RefusalServiceStep, RefusalCancelled DEF UpstreamDecides, AgeAttempt
    <3>3. QED
      BY <3>1, <3>2
  <2>3. ASSUME Crash
        PROVE  RefusalInv(r)'
    <3>1. /\ reply' = reply
          /\ task'[r] = task[r] \/ (task'[r].refusals = task[r].refusals /\ task'[r].pc = "done")
      <4>1. task[r] \in Task
        BY DEF RelayInv, TypeOK
      <4>2. /\ task'[r] = IF task[r].pc \in {"new", "done"} THEN task[r]
                          ELSE [task[r] EXCEPT !.pc = "done", !.client = "lost"]
            /\ reply' = reply
        BY <2>3 DEF Crash
      <4>3. QED
        BY <4>1, <4>2 DEF Task
    <3>2. QED
      BY <3>1 DEF RefusalInv
  <2>4. CASE Restart \/ \E old \in SUBSET Submissions : RunMaintenance(old)
    BY <2>1, <2>4 DEF Restart, RunMaintenance
  <2>5. CASE UNCHANGED relayVars
    BY <2>1, <2>5 DEF relayVars
  <2>6. QED
    BY <2>2, <2>3, <2>4, <2>5 DEF Next, RelayNext, vars
<1>3. Inv => TemporaryRefusalIsRetryable
  BY DEF RefusalInv, TemporaryRefusalIsRetryable
<1>4. QED
  BY <1>1, <1>2, <1>3, Inductive, PTL DEF Spec

-----------------------------------------------------------------------------
(* Refinement.                                                             *)

\* The status relay()'s result is recorded with may be written in the ledger.
SettlesTruly(s) ==
    LET outcome == Verdict(task[s].result) IN
    /\ log[s] \in {"pending", "unknown"}
    /\ outcome = "accepted" => upstream[s] = "accepted"
    /\ outcome = "failed" => upstream[s] \in {"none", "refused", "malformed"}

\* At the point of finalizing, whatever relay() came to, the status is true.
LEMMA VerdictSettles ==
    ASSUME NEW s \in Submissions, SubmissionInv(s), task[s] \in Task,
           task[s].pc = "finalize"
    PROVE  SettlesTruly(s)
BY DEF SettlesTruly, Verdict, SubmissionInv, OutcomeInv, PointInv, Task, Results

\* The relay's own steps map to a step of the ledger or to a stutter.
LEMMA ServiceStepRefines ==
    ASSUME RelayInv, NEW s \in Submissions, ServiceStep(s)
    PROVE  [Ledger!LedgerNext]_(Ledger!ledgerVars)
<1>1. TypeOK /\ SubmissionInv(s) /\ task[s] \in Task
  BY DEF RelayInv, TypeOK
<1> USE DEF SubmissionInv, Ledger!ledgerVars
<1>2. ASSUME UNCHANGED <<upstream, log, reply>>
      PROVE  [Ledger!LedgerNext]_(Ledger!ledgerVars)
  BY <1>2
<1>3. CASE PrepareRecord(s)
  <2>1. CASE UNCHANGED <<upstream, log, reply>>
    BY <1>2, <2>1
  <2>2. CASE log' = [log EXCEPT ![s] = "pending"] /\ UNCHANGED <<upstream, reply>>
    <3>1. log[s] = "none" /\ upstream[s] = "none" /\ reply[s] = "none"
      BY <1>1, <1>3 DEF PrepareRecord, At, PointInv, BeforeAttempt
    <3>2. Ledger!Open(s)
      BY <2>2, <3>1 DEF Ledger!Open
    <3>3. QED
      BY <3>2 DEF Ledger!LedgerNext
  <2>3. QED
    BY <1>3, <2>1, <2>2 DEF PrepareRecord, Refuse, Continue
<1>4. CASE BeginDATA(s)
  <2>1. upstream[s] = "none" /\ log[s] = "pending" /\ reply[s] = "none"
    BY <1>1, <1>4 DEF BeginDATA, At, PointInv, BeforeData
  <2>2. Ledger!Transmit(s)
    BY <1>4, <2>1 DEF BeginDATA, Ledger!Transmit
  <2>3. QED
    BY <2>2 DEF Ledger!LedgerNext
<1>5. CASE Finalize(s) \/ FinalizeFails(s)
  <2>1. CASE UNCHANGED log
    BY <1>2, <1>5, <2>1 DEF Finalize, FinalizeFails
  <2>2. CASE ~UNCHANGED log
    <3>1. /\ log' = [log EXCEPT ![s] = Verdict(task[s].result)]
          /\ UNCHANGED <<upstream, reply>>
          /\ task[s].pc = "finalize"
      BY <1>5, <2>2 DEF Finalize, FinalizeFails, At
    <3>2. SettlesTruly(s)
      BY <1>1, <3>1, VerdictSettles
    <3>3. QED
      BY <3>1, <3>2, VerdictType DEF SettlesTruly, Ledger!Settle, Ledger!LedgerNext
  <2>3. QED
    BY <2>1, <2>2
<1>6. CASE SendReply(s)
  <2>1. CASE task[s].client = "connected"
    <3>1. /\ task[s].code \in FailureCodes \cup {"2xx"}
          /\ reply[s] = "none"
          /\ task[s].code = "2xx" => upstream[s] = "accepted"
          /\ task[s].code = "5xx" => upstream[s] \in {"none", "refused"}
      BY <1>1, <1>6
         DEF SendReply, At, OutcomeInv, PointInv, Task, Results, FailureCodes
    <3>2. Ledger!Answer(s, task[s].code)
      BY <1>6, <2>1, <3>1 DEF SendReply, Ledger!Answer
    <3>3. QED
      BY <3>1, <3>2 DEF Ledger!LedgerNext, FailureCodes
  <2>2. CASE task[s].client # "connected"
    BY <1>1, <1>2, <1>6, <2>2 DEF SendReply, TypeOK
  <2>3. QED
    BY <2>1, <2>2
<1>7. CASE \/ PrepareAuthorize(s) \/ Connect(s) \/ UpstreamMAIL(s) \/ UpstreamRCPT(s)
           \/ UpstreamRSET(s) \/ Reauthorize(s) \/ EndDATA(s) \/ CloseUpstream(s)
  BY <1>2, <1>7
     DEF PrepareAuthorize, Connect, UpstreamMAIL, UpstreamRCPT, UpstreamRSET, Reauthorize,
         EndDATA, CloseUpstream, Go, End, Refuse, Continue
<1>8. QED
  BY <1>3, <1>4, <1>5, <1>6, <1>7 DEF ServiceStep

\* A cancelled commit may have been durable: then it opened or settled the row.
LEMMA CancellationRefines ==
    ASSUME RelayInv, NEW s \in Submissions, TransactionTimeout(s) \/ ClientLost(s)
    PROVE  [Ledger!LedgerNext]_(Ledger!ledgerVars)
<1>1. TypeOK /\ SubmissionInv(s) /\ task[s] \in Task
  BY DEF RelayInv, TypeOK
<1>2. CancelledLog(s) /\ UNCHANGED <<upstream, reply>>
  BY DEF TransactionTimeout, ClientLost
<1>3. CASE UNCHANGED log
  BY <1>2, <1>3 DEF Ledger!ledgerVars
<1>4. CASE At(s, "record") /\ log' = [log EXCEPT ![s] = "pending"]
  <2>1. log[s] = "none" /\ upstream[s] = "none" /\ reply[s] = "none"
    BY <1>1, <1>4 DEF At, SubmissionInv, PointInv, BeforeAttempt
  <2>2. Ledger!Open(s)
    BY <1>2, <1>4, <2>1 DEF Ledger!Open
  <2>3. QED
    BY <2>2 DEF Ledger!LedgerNext
<1>5. CASE At(s, "finalize") /\ log' = [log EXCEPT ![s] = Verdict(task[s].result)]
  <2>1. SettlesTruly(s)
    BY <1>1, <1>5, VerdictSettles DEF At
  <2>2. QED
    BY <1>2, <1>5, <2>1, VerdictType DEF SettlesTruly, Ledger!Settle, Ledger!LedgerNext
<1>6. QED
  BY <1>2, <1>3, <1>4, <1>5 DEF CancelledLog

\* Clients, processes and clock are not seen in the ledger; the upstream
\* server's verdict and maintenance are.
LEMMA SurroundingsRefine ==
    ASSUME RelayInv,
           \/ \E s \in Submissions : ClientStep(s) \/ UpstreamDecides(s) \/ AgeAttempt(s)
           \/ Crash \/ Restart
           \/ \E old \in SUBSET Submissions : RunMaintenance(old)
    PROVE  [Ledger!LedgerNext]_(Ledger!ledgerVars)
<1>1. ASSUME NEW s \in Submissions, ClientStep(s) \/ AgeAttempt(s)
      PROVE  UNCHANGED Ledger!ledgerVars
  BY <1>1 DEF ClientStep, Authenticate, HandleMAIL, HandleRCPT, AcquireData, HandleDATA,
              Go, Refuse, Continue, AgeAttempt, Ledger!ledgerVars
<1>2. ASSUME NEW s \in Submissions, UpstreamDecides(s)
      PROVE  Ledger!LedgerNext
  BY <1>2 DEF UpstreamDecides, Ledger!Decide, Ledger!LedgerNext
<1>3. CASE Crash \/ Restart
  BY <1>3 DEF Crash, Restart, Ledger!ledgerVars
<1>4. ASSUME NEW old \in SUBSET Submissions, RunMaintenance(old)
      PROVE  Ledger!LedgerNext
  <2> DEFINE abandoned == {s \in aged : log[s] = "pending"}
  <2>1. abandoned \in SUBSET Submissions
    BY DEF RelayInv, TypeOK
  <2>2. Ledger!Maintain(abandoned, old)
    BY <1>4 DEF RunMaintenance, Ledger!Maintain
  <2>3. QED
    BY <2>1, <2>2 DEF Ledger!LedgerNext
<1>5. QED
  BY <1>1, <1>2, <1>3, <1>4

\* The relay implements the ledger: whatever fails, is cancelled or crashes,
\* row, reply and verdict change only as DeliveryLedger allows.
THEOREM RefinesLedger == Spec => LedgerSpec
<1>1. Init => Ledger!LedgerInit
  BY DEF Init, RelayInit, Ledger!LedgerInit
<1>2. RelayInv /\ [Next]_vars => [Ledger!LedgerNext]_(Ledger!ledgerVars)
  <2> SUFFICES ASSUME RelayInv, [Next]_vars
               PROVE  [Ledger!LedgerNext]_(Ledger!ledgerVars)
    OBVIOUS
  <2>1. CASE RelayNext
    BY <2>1, ServiceStepRefines, CancellationRefines, SurroundingsRefine DEF RelayNext
  <2>2. CASE UNCHANGED relayVars
    BY <2>2 DEF relayVars, Ledger!ledgerVars
  <2>3. QED
    BY <2>1, <2>2 DEF Next, vars
<1>3. QED
  BY <1>1, <1>2, Inductive, PTL DEF Spec, LedgerSpec, Ledger!LedgerSpec

-----------------------------------------------------------------------------
(* Finality.                                                               *)

\* A step of the ledger takes back no verdict, so neither does the relay's.
THEOREM VerdictsStay == Spec => VerdictsAreFinal
<1>1. TypeOK /\ [Ledger!LedgerNext]_(Ledger!ledgerVars) => VerdictsKept
  <2> SUFFICES ASSUME TypeOK, [Ledger!LedgerNext]_(Ledger!ledgerVars), NEW r \in Submissions
               PROVE  /\ log[r] \in {"accepted", "failed"} => log'[r] \in {log[r], "deleted"}
                      /\ log[r] = "unknown" => log'[r] # "pending"
                      /\ log[r] = "deleted" => log'[r] = "deleted"
    BY DEF VerdictsKept
  <2>1. ASSUME NEW s \in Submissions, Ledger!Open(s)
        PROVE  log'[r] = log[r] \/ log[r] = "none"
    BY <2>1 DEF Ledger!Open, TypeOK
  <2>2. ASSUME NEW s \in Submissions, NEW outcome \in {"accepted", "failed", "unknown"},
               Ledger!Settle(s, outcome)
        PROVE  \/ log'[r] = log[r]
               \/ log[r] \in {"pending", "unknown"} /\ log'[r] = outcome
    BY <2>2 DEF Ledger!Settle, TypeOK
  <2>3. ASSUME NEW abandoned \in SUBSET Submissions, NEW old \in SUBSET Submissions,
               Ledger!Maintain(abandoned, old)
        PROVE  \/ log'[r] = log[r]
               \/ log'[r] = "deleted"
               \/ log[r] = "pending" /\ log'[r] = "unknown"
    BY <2>3 DEF Ledger!Maintain
  <2>4. CASE UNCHANGED log
    BY <2>4
  <2>5. \/ UNCHANGED log
        \/ \E s \in Submissions : Ledger!Open(s)
        \/ \E s \in Submissions, outcome \in {"accepted", "failed", "unknown"} :
              Ledger!Settle(s, outcome)
        \/ \E abandoned, old \in SUBSET Submissions : Ledger!Maintain(abandoned, old)
    BY DEF Ledger!LedgerNext, Ledger!Transmit, Ledger!Decide, Ledger!Answer,
           Ledger!ledgerVars
  <2>6. QED
    BY <2>1, <2>2, <2>3, <2>4, <2>5
<1>2. TypeOK /\ [Ledger!LedgerNext]_(Ledger!ledgerVars) => [VerdictsKept]_vars
  BY <1>1
<1>3. QED
  BY <1>2, TypeCorrect, RefinesLedger, PTL
     DEF LedgerSpec, Ledger!LedgerSpec, VerdictsAreFinal

-----------------------------------------------------------------------------
(* Permits.                                                                *)

\* A step at one submission that neither takes nor returns a permit.
KeepsPermit(s) ==
    /\ permits' = permits
    /\ \A r \in Submissions \ {s} : task'[r] = task[r]
    /\ task'[s].pc \in InData <=> task[s].pc \in InData

\* Such a step leaves the account as it is.
LEMMA KeepsPermits ==
    ASSUME NEW s \in Submissions, KeepsPermit(s), PermitsAccounted
    PROVE  PermitsAccounted'
<1>1. Busy' = Busy
  BY DEF Busy, KeepsPermit
<1>2. QED
  BY <1>1 DEF PermitsAccounted, KeepsPermit

\* The acquire takes a permit and makes one more task busy.
LEMMA AcquireAccounts ==
    ASSUME RelayInv, PermitsAccounted, NEW s \in Submissions, AcquireData(s)
    PROVE  PermitsAccounted'
<1>1. /\ task'[s].pc = "receiving" /\ task[s].pc = "envelope"
      /\ \A r \in Submissions \ {s} : task'[r] = task[r]
  BY DEF RelayInv, TypeOK, Task, AcquireData, At
<1>2. Busy' = Busy \cup {s} /\ s \notin Busy
  BY <1>1 DEF Busy, InData, InRelay
<1>3. IsFiniteSet(Busy)
  BY RelayAssumption, FS_Subset DEF Busy
<1>4. Cardinality(Busy') = Cardinality(Busy) + 1 /\ Cardinality(Busy) \in Nat
  BY <1>2, <1>3, FS_AddElement, FS_CardinalityType
<1>5. permits' = permits - 1 /\ permits \in Nat /\ permits > 0
  BY DEF AcquireData, RelayInv, TypeOK
<1>6. QED
  BY <1>4, <1>5 DEF PermitsAccounted

\* The release gives it back, and the task is no longer busy.
LEMMA ReleaseAccounts ==
    ASSUME RelayInv, PermitsAccounted, NEW s \in Submissions, SendReply(s)
    PROVE  PermitsAccounted'
<1>1. /\ task'[s].pc = "done" /\ task[s].pc = "reply"
      /\ \A r \in Submissions \ {s} : task'[r] = task[r]
  BY DEF RelayInv, TypeOK, Task, SendReply, At
<1>2. Busy' = Busy \ {s} /\ s \in Busy
  BY <1>1 DEF Busy, InData, InRelay
<1>3. IsFiniteSet(Busy)
  BY RelayAssumption, FS_Subset DEF Busy
<1>4. Cardinality(Busy') = Cardinality(Busy) - 1 /\ Cardinality(Busy) \in Nat
  BY <1>2, <1>3, FS_RemoveElement, FS_CardinalityType
<1>5. permits' = permits + 1 /\ permits \in Nat
  BY DEF SendReply, RelayInv, TypeOK
<1>6. QED
  BY <1>4, <1>5 DEF PermitsAccounted

\* The remaining steps of a submission move between program points that both
\* hold a permit, or both hold none.
LEMMA StepsKeepPermits ==
    ASSUME TypeOK, NEW s \in Submissions,
           \/ ClientStep(s) /\ ~AcquireData(s)
           \/ ServiceStep(s) /\ ~SendReply(s)
    PROVE  KeepsPermit(s)
<1>1. task \in [Submissions -> Task] /\ task[s] \in Task
  BY DEF TypeOK
<1>2. ASSUME NEW t, Continue(s, t)
      PROVE  /\ task'[s] = t /\ permits' = permits
             /\ \A r \in Submissions \ {s} : task'[r] = task[r]
  BY <1>1, <1>2 DEF Continue
<1>3. ASSUME NEW next \in InData, task[s].pc \in InData, Go(s, next)
      PROVE  KeepsPermit(s)
  BY <1>1, <1>2, <1>3 DEF Go, Task, KeepsPermit
<1>4. ASSUME NEW next \in InData, task[s].pc \in InData, NEW outcome, NEW class,
             End(s, outcome, class, next)
      PROVE  KeepsPermit(s)
  <2>1. task'[s] = [task[s] EXCEPT !.result = outcome, !.code = class, !.pc = next]
    BY <1>2, <1>4 DEF End
  <2>2. task'[s].pc = next
    BY <1>1, <2>1 DEF Task
  <2>3. permits' = permits /\ \A r \in Submissions \ {s} : task'[r] = task[r]
    BY <1>2, <1>4 DEF End
  <2>4. QED
    BY <1>1, <1>4, <2>2, <2>3 DEF KeepsPermit
<1>5. ASSUME NEW class, task[s].pc \in InData, Refuse(s, class)
      PROVE  KeepsPermit(s)
  <2>1. task'[s] = [task[s] EXCEPT !.code = class, !.pc = "reply"]
    BY <1>2, <1>5 DEF Refuse
  <2>2. task'[s].pc = "reply"
    BY <1>1, <2>1 DEF Task
  <2>3. permits' = permits /\ \A r \in Submissions \ {s} : task'[r] = task[r]
    BY <1>2, <1>5 DEF Refuse
  <2>4. QED
    BY <1>1, <1>5, <2>2, <2>3 DEF KeepsPermit, InData
<1>6. InRelay \cup {"receiving", "authorize", "reply"} \subseteq InData
      /\ InRelay = {"record", "connect", "mail", "rcpt", "rset", "reauth", "send", "data",
                    "close", "finalize"}
  BY DEF InData, InRelay
<1>7. CASE Authenticate(s)
  BY <1>1, <1>2, <1>7 DEF Authenticate, Go, At, Task, KeepsPermit, InData, InRelay
<1>8. CASE HandleMAIL(s)
  <2>1. /\ task[s].pc = "authed"
        /\ task'[s] = [task[s] EXCEPT !.pc = "envelope", !.timer = "running"]
        /\ permits' = permits /\ \A r \in Submissions \ {s} : task'[r] = task[r]
    BY <1>2, <1>8 DEF HandleMAIL, At
  <2>2. task'[s].pc = "envelope"
    BY <1>1, <2>1 DEF Task
  <2>3. QED
    BY <2>1, <2>2 DEF KeepsPermit, InData, InRelay
<1>9. CASE HandleRCPT(s)
  BY <1>1, <1>2, <1>9 DEF HandleRCPT, At, Task, KeepsPermit, InData, InRelay
<1>10. CASE HandleDATA(s)
  BY <1>3, <1>5, <1>6, <1>10 DEF HandleDATA, At
<1>11. CASE PrepareAuthorize(s)
  <2>1. ASSUME NEW d, Continue(s, [task[s] EXCEPT !.pc = "record", !.route = d])
        PROVE  KeepsPermit(s)
    <3>1. /\ task[s].pc = "authorize"
          /\ task'[s] = [task[s] EXCEPT !.pc = "record", !.route = d]
          /\ permits' = permits /\ \A r \in Submissions \ {s} : task'[r] = task[r]
      BY <1>2, <1>11, <2>1 DEF PrepareAuthorize, At
    <3>2. task'[s].pc = "record"
      BY <1>1, <3>1 DEF Task
    <3>3. QED
      BY <1>6, <3>1, <3>2 DEF KeepsPermit
  <2>2. QED
    BY <1>5, <1>6, <1>11, <2>1 DEF PrepareAuthorize, At
<1>12. CASE PrepareRecord(s)
  <2>1. CASE Refuse(s, "5xx") \/ Refuse(s, "4xx")
    BY <1>5, <1>6, <1>12, <2>1 DEF PrepareRecord, At
  <2>2. CASE ~(Refuse(s, "5xx") \/ Refuse(s, "4xx"))
    <3>1. /\ task[s].pc = "record" /\ permits' = permits
          /\ \/ task' = [task EXCEPT ![s].pc = "connect"]
             \/ task' = [task EXCEPT ![s] = [@ EXCEPT !.code = "4xx", !.pc = "reply"]]
      BY <1>12, <2>2 DEF PrepareRecord, At
    <3>2. \A r \in Submissions \ {s} : task'[r] = task[r]
      BY <1>1, <3>1
    <3>3. CASE task' = [task EXCEPT ![s].pc = "connect"]
      <4>1. task'[s].pc = "connect"
        BY <1>1, <3>3 DEF Task
      <4>2. QED
        BY <1>6, <3>1, <3>2, <4>1 DEF KeepsPermit
    <3>4. CASE task' = [task EXCEPT ![s] = [@ EXCEPT !.code = "4xx", !.pc = "reply"]]
      <4>1. task'[s] = [task[s] EXCEPT !.code = "4xx", !.pc = "reply"]
        BY <1>1, <3>4
      <4>2. task'[s].pc = "reply"
        BY <1>1, <4>1 DEF Task
      <4>3. QED
        BY <1>6, <3>1, <3>2, <4>2 DEF KeepsPermit
    <3>5. QED
      BY <3>1, <3>3, <3>4
  <2>3. QED
    BY <2>1, <2>2
<1>13. CASE Connect(s)
  BY <1>3, <1>4, <1>6, <1>13 DEF Connect, At
<1>14. CASE UpstreamMAIL(s)
  BY <1>3, <1>4, <1>6, <1>14 DEF UpstreamMAIL, At
<1>15. CASE Reauthorize(s)
  BY <1>3, <1>4, <1>6, <1>15 DEF Reauthorize, At
<1>16. CASE UpstreamRCPT(s)
  <2>1. ASSUME NEW refused,
               Continue(s, [task[s] EXCEPT
                 !.answered = @ + 1, !.refusals = @ \cup refused,
                 !.pc = IF task[s].answered + 1 < task[s].recipients THEN "rcpt"
                        ELSE IF task[s].refusals \cup refused = {} THEN "reauth"
                        ELSE "rset"])
        PROVE  KeepsPermit(s)
    <3>1. /\ task[s].pc = "rcpt"
          /\ task'[s] = [task[s] EXCEPT
                 !.answered = @ + 1, !.refusals = @ \cup refused,
                 !.pc = IF task[s].answered + 1 < task[s].recipients THEN "rcpt"
                        ELSE IF task[s].refusals \cup refused = {} THEN "reauth"
                        ELSE "rset"]
          /\ permits' = permits /\ \A r \in Submissions \ {s} : task'[r] = task[r]
      BY <1>2, <1>16, <2>1 DEF UpstreamRCPT, At
    <3>2. task'[s].pc \in {"rcpt", "reauth", "rset"}
      BY <1>1, <3>1 DEF Task
    <3>3. QED
      BY <1>6, <3>1, <3>2 DEF KeepsPermit
  <2>2. QED
    BY <1>4, <1>6, <1>16, <2>1 DEF UpstreamRCPT, At
<1>17. CASE UpstreamRSET(s)
  BY <1>4, <1>6, <1>17 DEF UpstreamRSET, At
<1>18. CASE EndDATA(s)
  BY <1>4, <1>6, <1>18 DEF EndDATA, At
<1>19. CASE CloseUpstream(s)
  BY <1>3, <1>6, <1>19 DEF CloseUpstream, At
<1>20. CASE BeginDATA(s)
  BY <1>1, <1>6, <1>20 DEF BeginDATA, At, Task, KeepsPermit
<1>21. CASE Finalize(s)
  BY <1>1, <1>6, <1>21 DEF Finalize, At, Task, KeepsPermit
<1>22. CASE FinalizeFails(s)
  BY <1>1, <1>6, <1>22 DEF FinalizeFails, At, Task, KeepsPermit
<1>23. QED
  BY <1>7, <1>8, <1>9, <1>10, <1>11, <1>12, <1>13, <1>14, <1>15, <1>16, <1>17, <1>18, <1>19, <1>20, <1>21, <1>22
     DEF ClientStep, ServiceStep

\* Cancellation goes to a program point that still holds the permit.
LEMMA CancellationKeepsPermits ==
    ASSUME TypeOK, NEW s \in Submissions, TransactionTimeout(s) \/ ClientLost(s)
    PROVE  KeepsPermit(s)
<1>1. /\ task \in [Submissions -> Task] /\ task[s] \in Task
      /\ Cancelled(task[s]) \in Task
  BY CancelledType DEF TypeOK
<1>2. ASSUME task[s].pc \in Awaiting
      PROVE  Cancelled(task[s]).pc \in InData
  BY <1>1, <1>2 DEF Cancelled, Awaiting, Task, InData, InRelay
<1>3. CASE TransactionTimeout(s)
  BY <1>1, <1>2, <1>3 DEF TransactionTimeout, KeepsPermit, Task, Awaiting
<1>4. CASE ClientLost(s)
  <2>1. /\ task' = [task EXCEPT ![s] =
             [Cancelled(task[s]) EXCEPT
                 !.client = "lost",
                 !.pc = IF task[s].pc \in {"authed", "envelope"} THEN "done" ELSE @]]
        /\ permits' = permits
        /\ task[s].pc \in Awaiting \cup {"authed", "envelope", "reply"}
    BY <1>4 DEF ClientLost
  <2>2. CASE task[s].pc \in Awaiting
    BY <1>1, <1>2, <2>1, <2>2 DEF KeepsPermit, Task, Awaiting, InData, InRelay
  <2>3. CASE task[s].pc = "reply"
    BY <1>1, <2>1, <2>3 DEF Cancelled, KeepsPermit, Task
  <2>4. CASE task[s].pc \in {"authed", "envelope"}
    BY <1>1, <2>1, <2>4 DEF KeepsPermit, Task, InData, InRelay
  <2>5. QED
    BY <2>1, <2>2, <2>3, <2>4
<1>5. QED
  BY <1>3, <1>4

\* Permits are conserved for every limit and number of submissions: each path
\* out of smtp_DATA, cancelled or not, returns exactly the permit it took.
THEOREM PermitsAreConserved == Spec => []PermitsAccounted
<1>1. Init => PermitsAccounted
  <2> SUFFICES ASSUME Init PROVE PermitsAccounted
    OBVIOUS
  <2>1. Busy = {} /\ permits = MaxData
    BY DEF Init, RelayInit, NewTask, Busy, InData, InRelay
  <2>2. QED
    BY <2>1, FS_EmptySet, RelayAssumption DEF PermitsAccounted
<1>2. RelayInv /\ PermitsAccounted /\ [Next]_vars => PermitsAccounted'
  <2> SUFFICES ASSUME RelayInv, PermitsAccounted, [Next]_vars
               PROVE  PermitsAccounted'
    OBVIOUS
  <2> TypeOK
    BY DEF RelayInv
  <2>1. ASSUME NEW s \in Submissions, ClientStep(s) \/ ServiceStep(s)
        PROVE  PermitsAccounted'
    BY <2>1, AcquireAccounts, ReleaseAccounts, StepsKeepPermits, KeepsPermits
  <2>2. ASSUME NEW s \in Submissions, TransactionTimeout(s) \/ ClientLost(s)
        PROVE  PermitsAccounted'
    BY <2>2, CancellationKeepsPermits, KeepsPermits
  <2>3. ASSUME UNCHANGED <<task, permits>>
        PROVE  PermitsAccounted'
    BY <2>3 DEF PermitsAccounted, Busy
  <2>4. CASE Crash
    <3>1. ASSUME NEW r \in Submissions
          PROVE  task'[r].pc \notin InData
      <4>1. task[r] \in Task
        BY DEF TypeOK
      <4>2. task'[r] = IF task[r].pc \in {"new", "done"} THEN task[r]
                       ELSE [task[r] EXCEPT !.pc = "done", !.client = "lost"]
        BY <2>4 DEF Crash
      <4>3. task'[r].pc \in {"new", "done"}
        BY <4>1, <4>2 DEF Task
      <4>4. QED
        BY <4>3 DEF InData, InRelay
    <3>2. Busy' = {}
      BY <3>1 DEF Busy
    <3>3. permits' = MaxData
      BY <2>4 DEF Crash
    <3>4. QED
      BY <3>2, <3>3, FS_EmptySet, RelayAssumption DEF PermitsAccounted
  <2>5. CASE \/ \E s \in Submissions : UpstreamDecides(s) \/ AgeAttempt(s)
             \/ Restart
             \/ \E old \in SUBSET Submissions : RunMaintenance(old)
             \/ UNCHANGED relayVars
    BY <2>3, <2>5 DEF UpstreamDecides, AgeAttempt, Restart, RunMaintenance, relayVars
  <2>6. QED
    BY <2>1, <2>2, <2>4, <2>5 DEF Next, RelayNext, vars
<1>3. QED
  BY <1>1, <1>2, Inductive, PTL DEF Spec
-----------------------------------------------------------------------------
(* Revocation.                                                             *)

\* The relay reads the policy tables and writes none of them: what holds of
\* them by themselves holds beside it (policy.py, smtp/service.py).
THEOREM RelayKeepsPolicy == Spec => PolicySpec
<1>1. Init => PolicyInit
  BY DEF Init
<1>2. [Next]_vars => [PolicyNext]_policyVars
  BY DEF Next, vars
<1>3. QED
  BY <1>1, <1>2, PTL DEF Spec, PolicySpec

\* A submission whose credential was revoked in time: the message was not
\* handed over, and is not about to be.
Stopped(s) ==
    /\ token[CredentialOf[s]] = "revoked"
    /\ task[s].pc \notin {"send", "data"}
    /\ upstream[s] = "none"

\* Only the check before DATA leads to DATA.
LEMMA OnlyReauthorizedIsSent ==
    ASSUME TypeOK, NEW s \in Submissions, task[s].pc \notin {"send", "data"}, upstream[s] = "none",
           ClientStep(s) \/ ServiceStep(s)
    PROVE  /\ upstream'[s] = "none"
           /\ task'[s].pc \in {"send", "data"} => Authorized(CredentialOf[s])
<1> DEFINE Goal == /\ upstream'[s] = "none"
                   /\ task'[s].pc \in {"send", "data"} => Authorized(CredentialOf[s])
<1>1. task[s] \in Task /\ task \in [Submissions -> Task]
  BY DEF TypeOK
<1>2. ASSUME NEW t, Continue(s, t), t.pc \notin {"send", "data"} PROVE Goal
  BY <1>1, <1>2 DEF Continue
<1>3. ASSUME NEW next, Go(s, next), next \notin {"send", "data"} PROVE Goal
  <2>1. [task[s] EXCEPT !.pc = next].pc = next
    BY <1>1 DEF Task
  <2>2. QED
    BY <1>2, <1>3, <2>1 DEF Go
<1>4. ASSUME NEW outcome, NEW class, NEW next, End(s, outcome, class, next), next \notin {"send", "data"}
      PROVE  Goal
  <2>1. [task[s] EXCEPT !.result = outcome, !.code = class, !.pc = next].pc = next
    BY <1>1 DEF Task
  <2>2. QED
    BY <1>2, <1>4, <2>1 DEF End
<1>5. ASSUME NEW class, Refuse(s, class) PROVE Goal
  <2>1. [task[s] EXCEPT !.code = class, !.pc = "reply"].pc = "reply"
    BY <1>1 DEF Task
  <2>2. QED
    BY <1>2, <1>5, <2>1 DEF Refuse
<1>6. CASE ClientStep(s)
  <2>1. CASE Authenticate(s) \/ HandleDATA(s)
    BY <1>3, <1>5, <2>1 DEF Authenticate, HandleDATA
  <2>2. CASE HandleMAIL(s)
    <3>1. [task[s] EXCEPT !.pc = "envelope", !.timer = "running"].pc = "envelope"
      BY <1>1 DEF Task
    <3>2. QED
      BY <1>2, <2>2, <3>1 DEF HandleMAIL
  <2>3. CASE HandleRCPT(s)
    <3>1. [task[s] EXCEPT !.recipients = @ + 1].pc = task[s].pc
      BY <1>1 DEF Task
    <3>2. QED
      BY <1>2, <2>3, <3>1 DEF HandleRCPT
  <2>4. CASE AcquireData(s)
    BY <1>1, <2>4 DEF AcquireData, Task
  <2>5. QED
    BY <1>6, <2>1, <2>2, <2>3, <2>4 DEF ClientStep
<1>7. CASE PrepareAuthorize(s)
  <2>1. CASE \E d \in AuthorizedDomains(CredentialOf[s]) :
               Continue(s, [task[s] EXCEPT !.pc = "record", !.route = d])
    <3>1. \A d : [task[s] EXCEPT !.pc = "record", !.route = d].pc = "record"
      BY <1>1 DEF Task
    <3>2. QED
      BY <1>2, <2>1, <3>1
  <2>2. QED
    BY <1>5, <1>7, <2>1 DEF PrepareAuthorize
<1>8. CASE PrepareRecord(s)
  <2>1. CASE \E class : Refuse(s, class)
    BY <1>5, <2>1
  <2>2. CASE ~ \E class : Refuse(s, class)
    <3>1. /\ upstream' = upstream
          /\ \/ task'[s] = [task[s] EXCEPT !.pc = "connect"]
             \/ task'[s] = [task[s] EXCEPT !.code = "4xx", !.pc = "reply"]
      BY <1>1, <1>8, <2>2 DEF PrepareRecord
    <3>2. QED
      BY <1>1, <3>1 DEF Task
  <2>3. QED
    BY <2>1, <2>2
<1>9. CASE Connect(s) \/ UpstreamMAIL(s) \/ UpstreamRSET(s) \/ CloseUpstream(s)
  BY <1>3, <1>4, <1>9 DEF Connect, UpstreamMAIL, UpstreamRSET, CloseUpstream
<1>10. CASE UpstreamRCPT(s)
  <2>1. CASE End(s, "failed", "4xx", "close")
    BY <1>4, <2>1
  <2>2. CASE ~End(s, "failed", "4xx", "close")
    <3> DEFINE after(refused) == IF task[s].answered + 1 < task[s].recipients THEN "rcpt"
                                 ELSE IF task[s].refusals \cup refused = {} THEN "reauth"
                                 ELSE "rset"
               next(refused) == [task[s] EXCEPT !.answered = @ + 1, !.refusals = @ \cup refused,
                                                !.pc = after(refused)]
    <3>1. PICK refused : Continue(s, next(refused))
      BY <1>10, <2>2 DEF UpstreamRCPT
    <3>2. after(refused) \in {"rcpt", "rset", "reauth"}
      OBVIOUS
    <3> HIDE DEF after
    <3>3. next(refused).pc = after(refused)
      BY <1>1 DEF Task
    <3>4. QED
      BY <1>2, <3>1, <3>2, <3>3
  <2>3. QED
    BY <2>1, <2>2
<1>11. CASE Reauthorize(s)
  <2>1. CASE Authorized(CredentialOf[s])
    BY <1>11, <2>1 DEF Reauthorize, Go, End, Continue
  <2>2. CASE ~Authorized(CredentialOf[s])
    BY <1>4, <1>11, <2>2 DEF Reauthorize
  <2>3. QED
    BY <2>1, <2>2
<1>12. CASE Finalize(s) \/ FinalizeFails(s) \/ SendReply(s)
  <2>1. upstream' = upstream /\ task'[s].pc \in {"reply", "done"}
    BY <1>1, <1>12 DEF Finalize, FinalizeFails, SendReply, Task
  <2>2. QED
    BY <2>1
<1>13. QED
  BY <1>6, <1>7, <1>8, <1>9, <1>10, <1>11, <1>12 DEF ServiceStep, BeginDATA, EndDATA, At

\* What a cancellation leaves the task to do is no sending.
LEMMA CancelledSendsNothing ==
    ASSUME NEW t \in Task, t.pc \notin {"send", "data"}
    PROVE  Cancelled(t) \in Task /\ Cancelled(t).pc \notin {"send", "data"}
<1>1. Cancelled(t) \in Task
  BY CancelledType
<1>2. Cancelled(t).pc \in {t.pc, "reply", "finalize", "close"}
  <2>1. CASE t.pc = "rset"
    <3>1. Cancelled(t) = [t EXCEPT !.result = "failed", !.code = RefusalCode(t.refusals), !.pc = "close"]
      BY <2>1 DEF Cancelled
    <3>2. QED
      BY <3>1 DEF Task
  <2>2. CASE t.pc = "finalize"
    <3>1. Cancelled(t) = [t EXCEPT !.code = IF t.result = "accepted" THEN t.code ELSE "4xx", !.pc = "reply"]
      BY <2>2 DEF Cancelled
    <3>2. QED
      BY <3>1 DEF Task
  <2>3. CASE t.pc \in {"receiving", "authorize", "record", "connect", "mail", "rcpt", "reauth", "close"}
    BY <2>3 DEF Cancelled, Task
  <2>4. CASE t.pc \in {"new", "authed", "envelope", "reply", "done"}
    BY <2>4 DEF Cancelled
  <2>5. QED
    BY <2>1, <2>2, <2>3, <2>4 DEF Task, InData, InRelay
<1>3. QED
  BY <1>1, <1>2

\* A stopped submission stays stopped, whatever relay, client and managers do.
LEMMA StoppedStays ==
    ASSUME RelayInv, PolicyTypeOK, NEW s \in Submissions, Stopped(s), [Next]_vars
    PROVE  Stopped(s)'
<1>1. TypeOK /\ task[s] \in Task /\ task \in [Submissions -> Task]
  BY DEF RelayInv, TypeOK
<1>2. ~Authorized(CredentialOf[s])
  BY DEF Stopped, Authorized, AuthorizedDomains, Authentic
<1>3. token'[CredentialOf[s]] = "revoked"
  <2>1. [PolicyNext]_policyVars
    BY DEF Next, vars
  <2>2. QED
    BY <2>1, EndsAreFinal, RelayAssumption DEF Stopped
<1>4. ASSUME task'[s] = task[s], upstream'[s] = upstream[s] PROVE Stopped(s)'
  BY <1>3, <1>4 DEF Stopped
<1>5. ASSUME NEW r \in Submissions,
             \/ ClientStep(r) \/ ServiceStep(r) \/ TransactionTimeout(r)
             \/ ClientLost(r) \/ UpstreamDecides(r) \/ AgeAttempt(r),
             TypeOK'
      PROVE  Stopped(s)'
  <2>1. CASE r # s
    BY <1>4, <1>5, <2>1, ClientStepInv, BeforeDataInv, AfterDataInv, EventInv DEF ServiceStep, Untouched
  <2>2. CASE ClientStep(s) \/ ServiceStep(s)
    BY <1>1, <1>2, <1>3, <2>2, OnlyReauthorizedIsSent DEF Stopped
  <2>3. CASE TransactionTimeout(s) \/ ClientLost(s)
    <3> DEFINE t == Cancelled(task[s])
    <3>1. t \in Task /\ t.pc \notin {"send", "data"}
      BY <1>1, CancelledSendsNothing DEF Stopped
    <3>2. upstream' = upstream /\ task'[s].pc \in {t.pc, "done"}
      <4>1. CASE TransactionTimeout(s)
        <5>1. task'[s] = [t EXCEPT !.timer = "fired"] /\ upstream' = upstream
          BY <1>1, <4>1 DEF TransactionTimeout
        <5> HIDE DEF t
        <5>2. QED
          BY <3>1, <5>1 DEF Task
      <4>2. CASE ClientLost(s)
        <5>1. /\ task'[s] = [t EXCEPT !.client = "lost",
                               !.pc = IF task[s].pc \in {"authed", "envelope"} THEN "done" ELSE @]
              /\ upstream' = upstream
          BY <1>1, <4>2 DEF ClientLost
        <5> HIDE DEF t
        <5>2. QED
          BY <3>1, <5>1 DEF Task
      <4>3. QED
        BY <2>3, <4>1, <4>2
    <3> HIDE DEF t
    <3>3. QED
      BY <1>3, <3>1, <3>2 DEF Stopped
  <2>4. CASE UpstreamDecides(s) \/ AgeAttempt(s)
    BY <1>4, <2>4 DEF UpstreamDecides, AgeAttempt, Stopped
  <2>5. QED
    BY <1>5, <2>1, <2>2, <2>3, <2>4
<1>6. CASE Crash
  <2>1. /\ task'[s] = task[s] \/ task'[s] = [task[s] EXCEPT !.pc = "done", !.client = "lost"]
        /\ upstream' = upstream
    BY <1>1, <1>6 DEF Crash
  <2>2. task'[s].pc \in {task[s].pc, "done"}
    BY <1>1, <2>1 DEF Task
  <2>3. QED
    BY <1>3, <2>1, <2>2 DEF Stopped
<1>7. CASE Restart \/ \E old \in SUBSET Submissions : RunMaintenance(old)
  BY <1>4, <1>7 DEF Restart, RunMaintenance
<1>8. CASE UNCHANGED relayVars
  BY <1>4, <1>8 DEF relayVars
<1>9. TypeOK'
  BY <1>1, StepType
<1>10. QED
  BY <1>5, <1>6, <1>7, <1>8, <1>9 DEF Next, RelayNext, vars

\* A credential revoked before the check that precedes DATA never has its
\* message sent, neither by that check nor by any way around it
\* (README; service.py, pre_data_hook).
THEOREM RevocationStopsSubmissions == Spec => RevokedIsNeverSent
<1> SUFFICES ASSUME NEW s \in Submissions
             PROVE  Spec => []((task[s].pc \in BeforeRecheck /\ token[CredentialOf[s]] = "revoked")
                                 => [](upstream[s] = "none"))
  BY DEF RevokedIsNeverSent
<1> DEFINE Revoked == task[s].pc \in BeforeRecheck /\ token[CredentialOf[s]] = "revoked"
           Unsent == upstream[s] = "none"
<1>1. RelayInv /\ Revoked => Stopped(s)
  BY DEF RelayInv, SubmissionInv, PointInv, BeforeAttempt, BeforeData, BeforeRecheck, Stopped
<1>2. RelayInv /\ PolicyTypeOK /\ Stopped(s) /\ [Next]_vars => Stopped(s)'
  BY StoppedStays
<1>3. Stopped(s) => Unsent
  BY DEF Stopped
<1>4. Spec => [](Revoked => []Unsent)
  <2> HIDE DEF Revoked, Unsent
  <2>1. QED
    BY <1>1, <1>2, <1>3, Inductive, RelayKeepsPolicy, PolicyTypeCorrect, PTL DEF Spec
<1>5. QED
  BY <1>4
=============================================================================
