----------------------------- MODULE AccountRules -----------------------------
(***************************************************************************)
(* What the account requests promise, each as if it ran alone: who may     *)
(* become active, that an operator always remains, how an invitation ends. *)
(* Accounts shows that the requests, taken apart into the statements they  *)
(* run on the database, still make only these steps.                       *)
(***************************************************************************)
EXTENDS FiniteSets

CONSTANTS
    Users,          \* identities of users, registered or not
    Invitations,    \* identities of invitation rows
    InviteeOf,      \* Invitation.user_id, fixed when the row is inserted
    Founders,       \* operators created on the command line before the start
    Bodies          \* update_user bodies: sets of changes that do not conflict

VARIABLES
    known,          \* users with a row
    active,         \* User.active
    operator,       \* User.is_operator
    password,       \* users with a password_hash
    invitation,     \* state of every invitation row
    owning          \* users who own a live domain

rulesVars == <<known, active, operator, password, invitation, owning>>

RulesInit ==
    /\ known = Founders
    /\ active = Founders
    /\ operator = Founders
    /\ password = Founders
    /\ invitation = [i \in Invitations |-> "none"]
    /\ owning \in SUBSET Founders

InvitationsOf(u) == {i \in Invitations : InviteeOf[i] = u}
Rows(u) == {i \in InvitationsOf(u) : invitation[i] # "none"}

Replace(gone, new) ==
    invitation' = [i \in Invitations |->
                     IF i \in new THEN "open" ELSE IF i \in gone THEN "none" ELSE invitation[i]]

\* A new user is pending: no password, and one open invitation.
Register(u, i) ==
    /\ u \notin known /\ InviteeOf[i] = u /\ invitation[i] = "none"
    /\ known' = known \cup {u}
    /\ Replace({}, {i})
    /\ UNCHANGED <<active, operator, password, owning>>

RegisterOperator(u) ==
    /\ u \notin known
    /\ known' = known \cup {u}
    /\ active' = active \cup {u}
    /\ operator' = operator \cup {u}
    /\ password' = password \cup {u}
    /\ UNCHANGED <<invitation, owning>>

\* Only an invitation that was neither used, revoked nor deleted is accepted,
\* and only by a user who never had a password.
Accept(i) ==
    /\ invitation[i] \in {"open", "expired"} /\ InviteeOf[i] \in known \ password
    /\ active' = active \cup {InviteeOf[i]}
    /\ password' = password \cup {InviteeOf[i]}
    /\ invitation' = [invitation EXCEPT ![i] = "used"]
    /\ UNCHANGED <<known, operator, owning>>

\* The user's invitation rows give way to a new one; a user without any row
\* cannot be invited again.
Reissue(u, i) ==
    /\ u \in known \ password /\ Rows(u) # {}
    /\ InviteeOf[i] = u /\ invitation[i] = "none"
    /\ Replace(Rows(u), {i})
    /\ UNCHANGED <<known, active, operator, password, owning>>

\* An operator who loses the role or the account leaves another one active;
\* a user who loses the account owns no domain and keeps no open invitation.
Update(u, body) ==
    /\ u \in known
    /\ u \in operator /\ (("disable" \in body /\ u \in active) \/ "demote" \in body)
          => (active \cap operator) \ {u} # {}
    /\ "disable" \in body /\ u \in active => u \notin owning
    /\ active' = IF "enable" \in body THEN active \cup {u}
                 ELSE IF "disable" \in body THEN active \ {u} ELSE active
    /\ operator' = IF "promote" \in body THEN operator \cup {u}
                   ELSE IF "demote" \in body THEN operator \ {u} ELSE operator
    /\ IF "disable" \in body
       THEN Replace({i \in Rows(u) : invitation[i] # "used"}, {})
       ELSE UNCHANGED invitation
    /\ UNCHANGED <<known, password, owning>>

Expire(i) ==
    /\ invitation[i] = "open"
    /\ invitation' = [invitation EXCEPT ![i] = "expired"]
    /\ UNCHANGED <<known, active, operator, password, owning>>

\* A used invitation cannot be revoked.
Revoke(i) ==
    /\ invitation[i] \in {"open", "expired", "revoked"}
    /\ invitation' = [invitation EXCEPT ![i] = "revoked"]
    /\ UNCHANGED <<known, active, operator, password, owning>>

Purge(gone) ==
    /\ \A i \in gone : invitation[i] \in {"expired", "revoked", "used"}
    /\ Replace(gone, {})
    /\ UNCHANGED <<known, active, operator, password, owning>>

\* Ownership is not an account rule: it changes as the domain requests decide.
Own ==
    /\ owning' \in SUBSET known
    /\ UNCHANGED <<known, active, operator, password, invitation>>

RulesNext ==
    \/ \E u \in Users, i \in Invitations : Register(u, i) \/ Reissue(u, i)
    \/ \E u \in Users : RegisterOperator(u)
    \/ \E i \in Invitations : Accept(i) \/ Expire(i) \/ Revoke(i)
    \/ \E u \in Users, body \in Bodies : Update(u, body)
    \/ \E gone \in SUBSET Invitations : Purge(gone)
    \/ Own

RulesSpec == RulesInit /\ [][RulesNext]_rulesVars

-----------------------------------------------------------------------------
(* What the rules are for.                                                 *)

\* Somebody can always administer the service: an active operator is left
\* whatever operators do to each other (api.py, update_user).
OperatorRemains == active \cap operator # {}

\* Of the links sent to a user at most one can still open the account: a user
\* never has two invitation rows (api.py, issue_replacement_invitation).
OneInvitation ==
    \A i, j \in Invitations :
      invitation[i] # "none" /\ invitation[j] # "none" /\ InviteeOf[i] = InviteeOf[j] => i = j

\* A pending user whose invitation rows were all deleted, by an operator who
\* disabled the account or by maintenance, never gets a password or another
\* row: no request that was under way brings the account back.
NoWayBack ==
    [][\A u \in known \ password :
         Rows(u) = {} => u \notin password' /\ \A i \in InvitationsOf(u) : invitation'[i] = "none"]_rulesVars
=============================================================================
