------------------------------- MODULE Accounts -------------------------------
(***************************************************************************)
(* The management requests on users, invitations and web sessions, as they *)
(* interleave in the web process (api.py, identity.py, cli.py).            *)
(*                                                                         *)
(* Each request runs in one READ COMMITTED transaction.  It is taken apart *)
(* at the statements that lock a row and at the await of a password hash:  *)
(* plain reads see what is committed then, a locking statement waits until *)
(* no other request holds the row, writes are applied by the commit, which *)
(* also gives the locks back.  The reads before the first lock, of the     *)
(* session, of the caller and of the subject, are one step: the request's  *)
(* beginning.  A request refused by those reads changes nothing and does   *)
(* not begin.                                                              *)
(***************************************************************************)
EXTENDS Naturals, FiniteSets

CONSTANTS
    Users,          \* identities of users, ordered as User.id is
    Invitations,    \* identities of invitation rows
    InviteeOf,      \* Invitation.user_id, fixed when the row is inserted
    Sessions,       \* bounds the web sessions a user holds at once
    Domains,        \* registrations of domains
    Founders,       \* operators created on the command line before the start
    Bodies,         \* update_user bodies that clients send
    Slots,          \* bounds the requests under way at once
    Operations      \* the requests that clients make in an instance

NoUser == 0

ASSUME AccountsAssumption ==
    /\ Users \subseteq Nat \ {NoUser} /\ IsFiniteSet(Users)
    /\ Users \cap Invitations = {} /\ Users \cap Domains = {} /\ Invitations \cap Domains = {}
    /\ Founders \subseteq Users /\ Founders # {}
    /\ InviteeOf \in [Invitations -> Users]
    /\ \A body \in Bodies : /\ body \subseteq {"enable", "disable", "promote", "demote"}
                            /\ ~({"enable", "disable"} \subseteq body)
                            /\ ~({"promote", "demote"} \subseteq body)

VARIABLES
    known,          \* users with a row
    active,         \* User.active
    operator,       \* User.is_operator
    password,       \* users with a password_hash
    invitation,     \* state of every invitation row
    sessions,       \* web_sessions: <<user, number>>
    owner,          \* Domain.owner_user_id of the live registrations
    request,        \* the request in every slot: what it does, how far it is
    held            \* the rows every request has locked

accounts == <<known, active, operator, password, invitation>>
tables == <<accounts, sessions, owner>>
vars == <<tables, request, held>>

Lockable == Users \cup Invitations \cup Domains

\* by: the caller; user, item: the subject; last: how far the scan of the
\* operators has come; seen: the operators it found and locked.
Request(op, at, by, user, item, body) ==
    [op |-> op, at |-> at, by |-> by, user |-> user, item |-> item, body |-> body,
     last |-> 0, seen |-> {}]

Idle == Request("none", "none", NoUser, NoUser, NoUser, {})

InvitationStates == {"none", "open", "expired", "revoked", "used"}

\* The columns' types and foreign keys; only a request under way holds locks,
\* and no two requests hold the same row.
AccountsTypeOK ==
    /\ known \subseteq Users /\ active \subseteq known
    /\ operator \subseteq known /\ password \subseteq known
    /\ invitation \in [Invitations -> InvitationStates]
    /\ \A i \in Invitations : invitation[i] # "none" => InviteeOf[i] \in known
    /\ sessions \subseteq known \X Sessions
    /\ owner \in [Domains -> known \cup {NoUser}]
    /\ held \in [Slots -> SUBSET Lockable]
    /\ \A r \in Slots : /\ request[r].seen \subseteq held[r]
                        /\ request[r] = Idle => held[r] = {}
    /\ \A r, s \in Slots : r # s => held[r] \cap held[s] = {}

AccountsInit ==
    /\ known = Founders
    /\ active = Founders
    /\ operator = Founders
    /\ password = Founders
    /\ invitation = [i \in Invitations |-> "none"]
    /\ sessions = Founders \X Sessions
    /\ owner \in [Domains -> Founders \cup {NoUser}]
    /\ request = [r \in Slots |-> Idle]
    /\ held = [r \in Slots |-> {}]

Exists(i) == invitation[i] # "none"
Rows(u) == {i \in Invitations : InviteeOf[i] = u /\ Exists(i)}

\* No request under way refers to the row, so its identity may stand for a new one.
Fresh(i) == ~Exists(i) /\ \A r \in Slots : request[r].item # i

-----------------------------------------------------------------------------
(* Requests and the rows they lock.                                        *)

\* current_principal: a session on record, of a user who is active.
Principal(u) == u \in active /\ \E n \in Sessions : <<u, n>> \in sessions

Operator(u) == Principal(u) /\ u \in operator

Begin(r, q) ==
    /\ request[r] = Idle
    /\ q.op \in Operations
    /\ request' = [request EXCEPT ![r] = q]
    /\ UNCHANGED <<tables, held>>

At(r, op, at) == request[r].op = op /\ request[r].at = at

Free(r, row) == \A s \in Slots \ {r} : row \notin held[s]

Advance(r, at, rows) ==
    /\ request' = [request EXCEPT ![r].at = at]
    /\ held' = [held EXCEPT ![r] = @ \cup rows]

Release(r) ==
    /\ request' = [request EXCEPT ![r] = Idle]
    /\ held' = [held EXCEPT ![r] = {}]

Refuse(r) == Release(r) /\ UNCHANGED tables

\* The transaction is rolled back between two statements: a deadlock or lock
\* wait timeout reported by the database, a lost connection, a stopped process.
Abort(r) == request[r] # Idle /\ Refuse(r)

Replace(gone, new) ==
    invitation' = [i \in Invitations |->
                     IF i \in new THEN "open" ELSE IF i \in gone THEN "none" ELSE invitation[i]]

-----------------------------------------------------------------------------
(* Sessions.                                                               *)

\* authenticate reads the user and verifies the password without a lock.
LoginVerify(r, u) ==
    /\ u \in active \cap password
    /\ Begin(r, Request("login", "insert", u, u, NoUser, {}))

\* The foreign key of the new row waits for whoever holds the user's row.
LoginCommit(r) ==
    LET u == request[r].user
    IN  /\ At(r, "login", "insert")
        /\ Free(r, u)
        /\ \E n \in Sessions : <<u, n>> \notin sessions /\ sessions' = sessions \cup {<<u, n>>}
        /\ Release(r)
        /\ UNCHANGED <<accounts, owner>>

Logout(u, n) ==
    /\ "login" \in Operations
    /\ u \in active /\ <<u, n>> \in sessions
    /\ sessions' = sessions \ {<<u, n>>}
    /\ UNCHANGED <<accounts, owner, request, held>>

-----------------------------------------------------------------------------
(* New users and their invitations.                                        *)

\* The unique index on users.username decides between two requests for one name.
CreateUser(by, u, i) ==
    /\ "create" \in Operations
    /\ Operator(by)
    /\ u \notin known
    /\ InviteeOf[i] = u /\ Fresh(i)
    /\ known' = known \cup {u}
    /\ Replace({}, {i})
    /\ UNCHANGED <<active, operator, password, sessions, owner, request, held>>

\* The command line of cli.py.
CreateOperator(u) ==
    /\ "operator" \in Operations
    /\ u \notin known
    /\ known' = known \cup {u}
    /\ active' = active \cup {u}
    /\ operator' = operator \cup {u}
    /\ password' = password \cup {u}
    /\ UNCHANGED <<invitation, sessions, owner, request, held>>

AcceptBegin(r, i) ==
    /\ Exists(i)
    /\ Begin(r, Request("accept", "user", NoUser, InviteeOf[i], i, {}))

AcceptLockUser(r) ==
    /\ At(r, "accept", "user")
    /\ Free(r, request[r].user)
    /\ Advance(r, "invitation", {request[r].user})
    /\ UNCHANGED tables

\* Mutant: the row read before the locks is believed, without populate_existing.
AcceptTrustFirstRead(r) ==
    LET i == request[r].item
    IN  /\ At(r, "accept", "invitation")
        /\ Free(r, i)
        /\ IF request[r].user \notin password
           THEN Advance(r, "hash", {i}) /\ UNCHANGED tables
           ELSE Refuse(r)

\* The row is read again once it is locked; it may be gone by then.
AcceptLockInvitation(r) ==
    LET i == request[r].item
    IN  /\ At(r, "accept", "invitation")
        /\ Exists(i) => Free(r, i)
        /\ IF invitation[i] = "open" /\ request[r].user \notin password
           THEN Advance(r, "hash", {i}) /\ UNCHANGED tables
           ELSE Refuse(r)

\* hash_password was awaited under the locks; the expiry is not read again.
AcceptCommit(r) ==
    LET u == request[r].user
    IN  /\ At(r, "accept", "hash")
        /\ password' = password \cup {u}
        /\ active' = active \cup {u}
        /\ invitation' = [invitation EXCEPT ![request[r].item] = "used"]
        /\ \E n \in Sessions : sessions' = sessions \cup {<<u, n>>}
        /\ Release(r)
        /\ UNCHANGED <<known, operator, owner>>

ReissueBegin(r, by, i) ==
    /\ Operator(by) /\ Exists(i)
    /\ Begin(r, Request("reissue", "user", by, InviteeOf[i], i, {}))

ReissueLockUser(r) ==
    /\ At(r, "reissue", "user")
    /\ Free(r, request[r].user)
    /\ Advance(r, "invitation", {request[r].user})
    /\ UNCHANGED tables

ReissueLockInvitation(r) ==
    LET i == request[r].item
    IN  /\ At(r, "reissue", "invitation")
        /\ Exists(i) => Free(r, i)
        /\ IF Exists(i) /\ request[r].user \notin password
           THEN Advance(r, "replace", {i}) /\ UNCHANGED tables
           ELSE Refuse(r)

\* Mutant: the old rows stay.
ReissueKeepsOld(r) ==
    LET u == request[r].user
    IN  /\ At(r, "reissue", "replace")
        /\ \E i \in Invitations : InviteeOf[i] = u /\ Fresh(i) /\ Replace({}, {i})
        /\ Release(r)
        /\ UNCHANGED <<known, active, operator, password, sessions, owner>>

\* All the user's rows are deleted, those under other requests' locks included.
ReissueCommit(r) ==
    LET u == request[r].user
    IN  /\ At(r, "reissue", "replace")
        /\ \A i \in Rows(u) : Free(r, i)
        /\ \E i \in Invitations : InviteeOf[i] = u /\ Fresh(i) /\ Replace(Rows(u), {i})
        /\ Release(r)
        /\ UNCHANGED <<known, active, operator, password, sessions, owner>>

RevokeBegin(r, by, i) ==
    /\ Operator(by) /\ Exists(i)
    /\ Begin(r, Request("revoke", "invitation", by, NoUser, i, {}))

\* Only the invitation is locked; expires_at is set to now.
RevokeCommit(r) ==
    LET i == request[r].item
    IN  /\ At(r, "revoke", "invitation")
        /\ Exists(i) => Free(r, i)
        /\ invitation' = IF Exists(i) /\ invitation[i] # "used"
                         THEN [invitation EXCEPT ![i] = "revoked"] ELSE invitation
        /\ Release(r)
        /\ UNCHANGED <<known, active, operator, password, sessions, owner>>

-----------------------------------------------------------------------------
(* update_user: activation and the operator role.                          *)

UpdateBegin(r, by, u, body) ==
    /\ Operator(by)
    /\ Begin(r, Request("update", "scan", by, u, NoUser, body))

Unscanned(r) == {u \in known : u > request[r].last}

\* Mutant: the scan of the operators takes no lock.
UpdateScanUnlocked(r) ==
    /\ At(r, "update", "scan")
    /\ \E u \in Unscanned(r) :
         /\ \A v \in Unscanned(r) : u <= v
         /\ request' = [request EXCEPT ![r].last = u,
                                       ![r].seen = IF u \in operator THEN @ \cup {u} ELSE @]
         /\ UNCHANGED <<held, tables>>

\* SELECT ... WHERE is_operator ORDER BY id FOR UPDATE waits for each row in
\* turn and keeps those that match.
UpdateScan(r) ==
    /\ At(r, "update", "scan")
    /\ \E u \in Unscanned(r) :
         /\ \A v \in Unscanned(r) : u <= v
         /\ Free(r, u)
         /\ request' = [request EXCEPT ![r].last = u,
                                       ![r].seen = IF u \in operator THEN @ \cup {u} ELSE @]
         /\ held' = [held EXCEPT ![r] = IF u \in operator THEN @ \cup {u} ELSE @]
         /\ UNCHANGED tables

\* The caller is read again under its lock.
UpdateLockCaller(r) ==
    LET by == request[r].by
    IN  /\ At(r, "update", "scan")
        /\ Unscanned(r) = {}
        /\ Free(r, by)
        /\ IF by \in active \cap operator
           THEN Advance(r, "target", {by}) /\ UNCHANGED tables
           ELSE Refuse(r)

Disabling(r) == "disable" \in request[r].body /\ request[r].user \in active
RemovingOperator(r) == "demote" \in request[r].body /\ request[r].user \in operator

\* Mutant: the last operator is protected from losing the role only.
LastOperatorMayBeDisabled(r) ==
    /\ At(r, "update", "target")
    /\ Free(r, request[r].user)
    /\ IF \/ request[r].user \notin known
          \/ RemovingOperator(r) /\ Cardinality(request[r].seen \cap active) <= 1
       THEN Refuse(r)
       ELSE Advance(r, IF Disabling(r) THEN "owned" ELSE "write", {request[r].user}) /\ UNCHANGED tables

UpdateLockTarget(r) ==
    /\ At(r, "update", "target")
    /\ Free(r, request[r].user)
    /\ IF \/ request[r].user \notin known
          \/ /\ Disabling(r) \/ RemovingOperator(r)
             /\ request[r].user \in operator
             /\ Cardinality(request[r].seen \cap active) <= 1
       THEN Refuse(r)
       ELSE Advance(r, IF Disabling(r) THEN "owned" ELSE "write", {request[r].user}) /\ UNCHANGED tables

\* An owned live domain, once its row is locked, refuses the request.
UpdateCheckOwned(r) ==
    LET owned == {d \in Domains : owner[d] = request[r].user}
    IN  /\ At(r, "update", "owned")
        /\ IF owned = {}
           THEN Advance(r, "write", {}) /\ UNCHANGED tables
           ELSE (\E d \in owned : Free(r, d)) /\ Refuse(r)

\* Disabling deletes the user's sessions and every invitation not used yet.
UpdateCommit(r) ==
    LET u == request[r].user
        body == request[r].body
        unused == {i \in Rows(u) : invitation[i] # "used"}
    IN  /\ At(r, "update", "write")
        /\ active' = IF "enable" \in body THEN active \cup {u}
                     ELSE IF "disable" \in body THEN active \ {u} ELSE active
        /\ operator' = IF "promote" \in body THEN operator \cup {u}
                       ELSE IF "demote" \in body THEN operator \ {u} ELSE operator
        /\ IF "disable" \in body
           THEN /\ \A i \in Rows(u) : Free(r, i)
                /\ Replace(unused, {})
                /\ sessions' = sessions \ ({u} \X Sessions)
           ELSE UNCHANGED <<invitation, sessions>>
        /\ Release(r)
        /\ UNCHANGED <<known, password, owner>>

-----------------------------------------------------------------------------
(* Time and maintenance.                                                   *)

ExpireInvitation(i) ==
    /\ invitation[i] = "open"
    /\ invitation' = [invitation EXCEPT ![i] = "expired"]
    /\ UNCHANGED <<known, active, operator, password, sessions, owner, request, held>>

\* run_maintenance_once deletes what has expired: every invitation that
\* expired or was revoked, used ones as they grow old, and old sessions.
Purge ==
    \E old \in SUBSET {i \in Invitations : invitation[i] = "used"}, stale \in SUBSET sessions :
      LET gone == old \cup {i \in Invitations : invitation[i] \in {"expired", "revoked"}}
      IN  /\ \A i \in gone, r \in Slots : i \notin held[r]
          /\ Replace(gone, {})
          /\ sessions' = sessions \ stale
          /\ UNCHANGED <<known, active, operator, password, owner, request, held>>

-----------------------------------------------------------------------------
AccountStep(r) ==
    \/ \E u \in known : LoginVerify(r, u)
    \/ LoginCommit(r)
    \/ \E i \in Invitations : AcceptBegin(r, i)
    \/ AcceptLockUser(r)
    \/ AcceptLockInvitation(r)
    \/ AcceptCommit(r)
    \/ \E by \in operator, i \in Invitations : ReissueBegin(r, by, i)
    \/ ReissueLockUser(r)
    \/ ReissueLockInvitation(r)
    \/ ReissueCommit(r)
    \/ \E by \in operator, i \in Invitations : RevokeBegin(r, by, i)
    \/ RevokeCommit(r)
    \/ \E by \in operator, u \in known, body \in Bodies : UpdateBegin(r, by, u, body)
    \/ UpdateScan(r)
    \/ UpdateLockCaller(r)
    \/ UpdateLockTarget(r)
    \/ UpdateCheckOwned(r)
    \/ UpdateCommit(r)
    \/ Abort(r)

AccountsNext ==
    \/ \E r \in Slots : AccountStep(r)
    \/ \E u \in Users, n \in Sessions : Logout(u, n)
    \/ \E by, u \in Users, i \in Invitations : CreateUser(by, u, i)
    \/ \E u \in Users : CreateOperator(u)
    \/ \E i \in Invitations : ExpireInvitation(i)
    \/ Purge

AccountsSpec == AccountsInit /\ [][AccountsNext]_vars

-----------------------------------------------------------------------------
(* Properties.                                                             *)

Rules == INSTANCE AccountRules WITH owning <- {owner[d] : d \in Domains} \ {NoUser}

\* Two operators who disable or demote each other, or themselves, at the same
\* time leave an active operator (api.py:1005, update_user).
OperatorRemains == Rules!OperatorRemains

\* At most one of the links sent to a user can still open the account,
\* however replacements of it race (api.py:1044, issue_replacement_invitation).
OneInvitation == Rules!OneInvitation

\* The requests, statement by statement, are the account rules: each commit
\* is the rule of its request applied to what is committed at that moment.
ImplementsRules == Rules!RulesSpec

\* The row a request waits for, in the requests on domains as well.
Wanted(r) ==
    CASE request[r].at = "user"       -> {request[r].user}
      [] request[r].at = "insert"     -> {request[r].user}
      [] request[r].at = "invitation" -> {i \in {request[r].item} : Exists(i)}
      [] request[r].at = "replace"    -> Rows(request[r].user)
      [] request[r].at = "scan"       -> {u \in {request[r].by} : Unscanned(r) = {}}
                                           \cup {u \in Unscanned(r) : \A v \in Unscanned(r) : u <= v}
      [] request[r].at = "target"     -> {request[r].user}
      [] request[r].at = "domain"     -> {request[r].item}
      [] request[r].at = "owned"      -> {d \in Domains : owner[d] = request[r].user}
      [] request[r].at = "write" /\ "disable" \in request[r].body -> Rows(request[r].user)
      [] OTHER -> {}

\* The row was no operator's when the scan passed it and is one's now, so it
\* is locked out of order when the request turns to it.
PromotedBehind(r, u) ==
    /\ request[r].op = "update"
    /\ u \in operator /\ u <= request[r].last /\ u \notin request[r].seen

\* Requests do not wait for each other in a circle: users are locked before
\* the rows that refer to them, operators in the order of their identity
\* (api.py:973-1009, api.py:817-831, api.py:1052-1064).  The one exception
\* is an update whose caller or target was made an operator behind its scan;
\* the database then picks a victim, which Abort rolls back.
NoLockCycle ==
    \A waiting \in (SUBSET Slots) \ {{}} :
      \E r \in waiting :
        \/ \E u \in Users \cap Wanted(r) : PromotedBehind(r, u)
        \/ \A s \in waiting \ {r} : Wanted(r) \cap held[s] = {}

\* What "Reissue an invitation for a pending user." needs: a row to reissue.
PendingCanBeInvited ==
    \A u \in known \ password : Rows(u) # {}
=============================================================================
