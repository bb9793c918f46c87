---------------------------- MODULE Accounts_proofs ----------------------------
(***************************************************************************)
(* What requests on accounts have found under their row locks stays true   *)
(* until they commit, whatever others commit meanwhile; hence an operator  *)
(* always remains, no user has two invitations, and every commit is the    *)
(* rule of its request.  Proved for every number of users, invitations,    *)
(* domains and requests under way.                                         *)
(***************************************************************************)
EXTENDS Accounts, FiniteSetTheorems, TLAPS

-----------------------------------------------------------------------------
(* The inductive invariant.                                                *)

AccountOperation == {"none", "login", "accept", "reissue", "revoke", "update"}
Stages == {"none", "insert", "user", "invitation", "hash", "replace", "scan", "target",
           "owned", "write", "domain", "delete", "resolve"}
Words == {"enable", "disable", "promote", "demote", "*", "exact",
          "none", "password", "secret", "renamed"}

\* The requests that give a user something in a domain, and lock the user's
\* row for it; the other requests on domains.
Gifts == {"transfer", "add_admin", "create_grant"}
Plain == {"create_domain", "delete_domain", "remove_admin", "create_address", "delete_address",
          "delete_grant", "put_config"}

\* The requests on accounts, and those on domains that run beside them.
Requests ==
    [op : AccountOperation \cup Gifts \cup Plain, at : Stages,
     by : Users \cup {NoUser}, user : Users \cup {NoUser},
     item : Invitations \cup Domains \cup {NoUser}, body : SUBSET Words,
     last : Nat, seen : SUBSET Users]

\* Who is left when this request has taken effect.
Protected(r) ==
    (Disabling(r) \/ RemovingOperator(r)) /\ request[r].user \in operator
      => \E v \in request[r].seen : v \in active /\ v # request[r].user

\* The rows a request on an invitation has locked, what it has found in them,
\* and nobody can change now.
InvitationStage(r) ==
    request[r].op \in {"accept", "reissue"} =>
      /\ request[r].item \in Invitations
      /\ request[r].user \in Users /\ request[r].user = InviteeOf[request[r].item]
      /\ request[r].at \in {"user", "invitation", "hash", "replace"}
      /\ request[r].at = "user" => held[r] = {}
      /\ request[r].at = "invitation" => held[r] = {request[r].user}
      /\ request[r].at \in {"hash", "replace"} =>
           held[r] = {request[r].user, request[r].item} /\ request[r].user \in known \ password
      /\ request[r].at = "hash" => invitation[request[r].item] \in {"open", "expired"}
      /\ request[r].at = "replace" => Exists(request[r].item)

\* The rows an update has locked, in the order of their identity as far as it
\* was an operator's row when the scan came to it; what it has found in them.
UpdateStage(r) ==
    request[r].op = "update" =>
      /\ request[r].body \in Bodies
      /\ request[r].by \in known /\ request[r].user \in known
      /\ request[r].seen \subseteq operator /\ IsFiniteSet(request[r].seen)
      /\ \A u \in request[r].seen : u <= request[r].last
      /\ request[r].at \in {"scan", "target", "owned", "write"}
      /\ request[r].at = "scan" => held[r] = request[r].seen
      /\ request[r].at # "scan" => /\ request[r].by <= request[r].last
                                  /\ request[r].user <= request[r].last
      /\ request[r].at = "target" => /\ held[r] = request[r].seen \cup {request[r].by}
                                    /\ request[r].by \in operator
      /\ request[r].at \in {"owned", "write"} =>
           held[r] = request[r].seen \cup {request[r].by, request[r].user} /\ Protected(r)
      /\ request[r].at = "write" /\ Disabling(r) => \A d \in Domains : owner[d] # request[r].user

\* The other requests, and a slot without one.
OtherStage(r) ==
    /\ request[r].op = "none" => request[r] = Idle
    /\ request[r].op = "login" => request[r].user \in known /\ held[r] = {}
    /\ request[r].op = "revoke" => request[r].item \in Invitations /\ held[r] = {}

Stage(r) == InvitationStage(r) /\ UpdateStage(r) /\ OtherStage(r)

TablesOK ==
    /\ known \subseteq Users /\ active \subseteq known
    /\ operator \subseteq known /\ password \subseteq known
    /\ invitation \in [Invitations -> InvitationStates]
    /\ \A i \in Invitations : invitation[i] # "none" => InviteeOf[i] \in known
    /\ sessions \subseteq known \X Sessions
    /\ owner \in [Domains -> known \cup {NoUser}]

LocksOK ==
    /\ held \in [Slots -> SUBSET Lockable]
    /\ \A r \in Slots : /\ request[r].seen \subseteq held[r]
                        /\ request[r] = Idle => held[r] = {}
    /\ \A r, s \in Slots : r # s => held[r] \cap held[s] = {}

SingleRows ==
    \A i, j \in Invitations : Exists(i) /\ Exists(j) /\ InviteeOf[i] = InviteeOf[j] => i = j

AccountsInv ==
    /\ TablesOK /\ LocksOK
    /\ request \in [Slots -> Requests]
    /\ SingleRows
    /\ active \cap operator # {}
    /\ \A r \in Slots : Stage(r)

-----------------------------------------------------------------------------
(* Frames: what a step leaves to the requests it is not a step of.         *)

\* Nobody but its own request changes the rows that a request has locked, or
\* gives them a domain, save that an open invitation may expire.
LEMMA StageKept ==
    ASSUME NEW s \in Slots, AccountsInv,
           request'[s] = request[s], held'[s] = held[s], known \subseteq known',
           \A u \in held[s] : u \in known =>
             /\ u \in active' <=> u \in active
             /\ u \in operator' <=> u \in operator
             /\ u \in password' <=> u \in password,
           \A i \in held[s] : i \in Invitations /\ Exists(i) =>
             invitation'[i] = invitation[i] \/ (invitation[i] = "open" /\ invitation'[i] = "expired"),
           \A d \in Domains : owner'[d] \in {owner[d], NoUser} \/ owner'[d] \notin held[s]
    PROVE  Stage(s)'
<1>1. Stage(s) /\ request[s].seen \subseteq held[s] /\ operator \subseteq known /\ active \subseteq known
  BY DEF AccountsInv, LocksOK, TablesOK
<1>2. InvitationStage(s)'
  BY <1>1 DEF Stage, InvitationStage, Exists
<1>3. UpdateStage(s)'
  <2>1. CASE request[s].op = "update" /\ request[s].at \in {"owned", "write"}
    <3>1. /\ request[s].user \in held[s] /\ request[s].user \in known /\ Protected(s)
          /\ request[s].seen \subseteq operator
      BY <1>1, <2>1 DEF Stage, UpdateStage
    <3>2. Protected(s)' /\ (Disabling(s)' <=> Disabling(s)) /\ request[s].seen \subseteq operator'
      BY <1>1, <3>1 DEF Protected, Disabling, RemovingOperator
    <3>3. ASSUME request[s].at = "write", Disabling(s), NEW d \in Domains
          PROVE  owner'[d] # request[s].user
      <4>1. request[s].user # NoUser /\ owner[d] # request[s].user
        BY <1>1, <2>1, <3>1, <3>3, AccountsAssumption DEF Stage, UpdateStage, AccountsInv, TablesOK
      <4>2. QED
        BY <3>1, <4>1
    <3>4. QED
      BY <1>1, <2>1, <3>1, <3>2, <3>3 DEF Stage, UpdateStage
  <2>2. CASE request[s].op = "update" /\ request[s].at \notin {"owned", "write"}
    <3>1. request[s].seen \subseteq operator'
      BY <1>1, <2>2 DEF Stage, UpdateStage
    <3>2. QED
      BY <1>1, <2>2, <3>1 DEF Stage, UpdateStage
  <2>3. CASE request[s].op # "update"
    BY <2>3 DEF UpdateStage
  <2>4. QED
    BY <2>1, <2>2, <2>3
<1>4. OtherStage(s)'
  BY <1>1 DEF Stage, OtherStage
<1>5. QED
  BY <1>2, <1>3, <1>4 DEF Stage

LEMMA IdleStage == ASSUME NEW r \in Slots, request'[r] = Idle PROVE Stage(r)'
BY DEF Idle, Request, Stage, InvitationStage, UpdateStage, OtherStage

LEMMA IdleType == Idle \in Requests
BY DEF Idle, Request, Requests, AccountOperation, Stages

\* A step that reads: the tables stay, one request goes on and may lock rows.
LEMMA ReadInv ==
    ASSUME NEW r \in Slots, NEW q \in Requests, NEW rows \in SUBSET Lockable, AccountsInv,
           UNCHANGED tables,
           request' = [request EXCEPT ![r] = q], held' = [held EXCEPT ![r] = rows],
           \A s \in Slots : s # r => held[s] \cap rows = {},
           q.seen \subseteq rows, q = Idle => rows = {},
           Stage(r)'
    PROVE  AccountsInv'
<1>1. /\ request' \in [Slots -> Requests] /\ request'[r] = q /\ held'[r] = rows
      /\ \A s \in Slots : s # r => request'[s] = request[s] /\ held'[s] = held[s]
  BY DEF AccountsInv, LocksOK
<1>2. LocksOK'
  BY <1>1 DEF AccountsInv, LocksOK
<1>3. \A s \in Slots : Stage(s)'
  <2> SUFFICES ASSUME NEW s \in Slots, s # r PROVE Stage(s)'
    OBVIOUS
  <2>1. QED
    BY <1>1, StageKept DEF tables, accounts
<1>4. TablesOK' /\ SingleRows' /\ (active \cap operator # {})'
  BY DEF tables, accounts, AccountsInv, TablesOK, SingleRows, Exists
<1>5. QED
  BY <1>1, <1>2, <1>3, <1>4 DEF AccountsInv

LEMMA RefuseInv == ASSUME NEW r \in Slots, AccountsInv, Refuse(r) PROVE AccountsInv'
<1>1. request' = [request EXCEPT ![r] = Idle] /\ held' = [held EXCEPT ![r] = {}] /\ UNCHANGED tables
  BY DEF Refuse, Release
<1>2. request'[r] = Idle /\ Idle.seen = {}
  BY <1>1 DEF AccountsInv, Idle, Request
<1>3. QED
  BY <1>1, <1>2, IdleType, IdleStage, ReadInv

\* A request that begins holds nothing.
LEMMA BeginInv ==
    ASSUME NEW r \in Slots, NEW q \in Requests, AccountsInv, Begin(r, q), UNCHANGED tables,
           q.seen = {}, Stage(r)'
    PROVE  AccountsInv'
<1>1. held[r] = {} /\ held' = [held EXCEPT ![r] = {}] /\ request' = [request EXCEPT ![r] = q]
  BY DEF Begin, AccountsInv, LocksOK
<1>2. QED
  BY <1>1, ReadInv

\* A locking read: the rows were free, so the locks stay exclusive.
LEMMA AdvanceInv ==
    ASSUME NEW r \in Slots, NEW at \in Stages, NEW rows \in SUBSET Lockable, AccountsInv,
           Advance(r, at, rows), \A row \in rows : Free(r, row), UNCHANGED tables,
           request[r].op # "none", Stage(r)'
    PROVE  AccountsInv'
<1> DEFINE q == [request[r] EXCEPT !.at = at]
<1>1. request[r] \in Requests /\ held[r] \in SUBSET Lockable
  BY DEF AccountsInv, LocksOK
<1>2. q \in Requests /\ q.op = request[r].op /\ q.seen = request[r].seen
  BY <1>1 DEF Requests
<1>3. q # Idle
  BY <1>2 DEF Idle, Request
<1>4. request' = [request EXCEPT ![r] = q] /\ held' = [held EXCEPT ![r] = held[r] \cup rows]
  BY DEF Advance, AccountsInv, LocksOK
<1>5. \A s \in Slots : s # r => held[s] \cap (held[r] \cup rows) = {}
  BY DEF Free, AccountsInv, LocksOK
<1>6. q.seen \subseteq held[r] \cup rows
  BY <1>2 DEF AccountsInv, LocksOK
<1> HIDE DEF q
<1>7. QED
  BY <1>1, <1>2, <1>3, <1>4, <1>5, <1>6, ReadInv

\* What a request looks like after a locking read.
LEMMA Advanced ==
    ASSUME NEW r \in Slots, NEW at, NEW rows, AccountsInv, Advance(r, at, rows)
    PROVE  /\ request'[r].at = at
           /\ request'[r].op = request[r].op /\ request'[r].by = request[r].by
           /\ request'[r].user = request[r].user /\ request'[r].item = request[r].item
           /\ request'[r].body = request[r].body /\ request'[r].seen = request[r].seen
           /\ request'[r].last = request[r].last /\ held'[r] = held[r] \cup rows
<1>1. request[r] \in Requests /\ request' = [request EXCEPT ![r] = [request[r] EXCEPT !.at = at]]
  BY DEF AccountsInv, Advance
<1>2. request'[r] = [request[r] EXCEPT !.at = at]
  BY <1>1 DEF AccountsInv
<1>3. held'[r] = held[r] \cup rows
  BY DEF AccountsInv, LocksOK, Advance
<1>4. QED
  BY <1>1, <1>2, <1>3 DEF Requests

\* A commit writes only rows that no other request has locked.
LEMMA CommitInv ==
    ASSUME NEW r \in Slots, AccountsInv, Release(r), UNCHANGED known,
           \A d \in Domains : owner'[d] \in {owner[d], NoUser} \/ Free(r, owner'[d]),
           \A u \in known : u \notin held[r] =>
             /\ u \in active' <=> u \in active
             /\ u \in operator' <=> u \in operator
             /\ u \in password' <=> u \in password,
           \A i \in Invitations : Exists(i) /\ ~Free(r, i) => invitation'[i] = invitation[i],
           TablesOK', SingleRows', (active \cap operator # {})'
    PROVE  AccountsInv'
<1>1. /\ request' = [request EXCEPT ![r] = Idle] /\ held' = [held EXCEPT ![r] = {}]
      /\ request'[r] = Idle /\ held'[r] = {} /\ request' \in [Slots -> Requests]
      /\ \A s \in Slots : s # r => request'[s] = request[s] /\ held'[s] = held[s]
  BY IdleType DEF Release, AccountsInv, LocksOK
<1>2. LocksOK'
  BY <1>1 DEF AccountsInv, LocksOK, Idle, Request
<1>3. \A s \in Slots : Stage(s)'
  <2> SUFFICES ASSUME NEW s \in Slots PROVE Stage(s)'
    OBVIOUS
  <2>1. CASE s = r
    BY <1>1, <2>1, IdleStage
  <2>2. CASE s # r
    <3>1. \A x \in held[s] : x \notin held[r] /\ ~Free(r, x)
      BY <2>2 DEF AccountsInv, LocksOK, Free
    <3>2. QED
      BY <1>1, <2>2, <3>1, StageKept
  <2>3. QED
    BY <2>1, <2>2
<1>4. QED
  BY <1>1, <1>2, <1>3 DEF AccountsInv

-----------------------------------------------------------------------------
(* Sessions and the requests on invitations.                               *)

LEMMA BeginSteps ==
    ASSUME NEW r \in Slots, AccountsInv,
           \/ \E u \in known : LoginVerify(r, u)
           \/ \E i \in Invitations : AcceptBegin(r, i)
           \/ \E by \in operator, i \in Invitations : ReissueBegin(r, by, i)
           \/ \E by \in operator, i \in Invitations : RevokeBegin(r, by, i)
           \/ \E by \in operator, u \in known, body \in Bodies : UpdateBegin(r, by, u, body)
    PROVE  AccountsInv'
<1> USE AccountsAssumption
<1>1. operator \subseteq Users /\ known \subseteq Users
  BY DEF AccountsInv, TablesOK
<1>9. operator \subseteq known
  BY DEF AccountsInv, TablesOK
<1>2. ASSUME NEW q \in Requests, Begin(r, q)
      PROVE  request'[r] = q /\ held'[r] = {} /\ UNCHANGED tables
  BY <1>2 DEF Begin, AccountsInv, LocksOK
<1>3. CASE \E u \in known : LoginVerify(r, u)
  <2>1. PICK u \in known : LoginVerify(r, u)
    BY <1>3
  <2> DEFINE q == Request("login", "insert", u, u, NoUser, {})
  <2>2. q \in Requests /\ q.seen = {} /\ q.op = "login" /\ q.user = u
    BY <1>1 DEF Request, Requests, AccountOperation, Stages
  <2>3. Begin(r, q) /\ request'[r] = q /\ held'[r] = {} /\ UNCHANGED tables
    BY <1>2, <2>1, <2>2 DEF LoginVerify
  <2> HIDE DEF q
  <2>4. Stage(r)'
    BY <2>2, <2>3 DEF Stage, InvitationStage, UpdateStage, OtherStage, tables, accounts
  <2>5. QED
    BY <2>2, <2>3, <2>4, BeginInv
<1>4. CASE \E i \in Invitations : AcceptBegin(r, i)
  <2>1. PICK i \in Invitations : AcceptBegin(r, i)
    BY <1>4
  <2> DEFINE q == Request("accept", "user", NoUser, InviteeOf[i], i, {})
  <2>2. /\ q \in Requests /\ q.seen = {} /\ q.op = "accept" /\ q.at = "user"
        /\ q.user = InviteeOf[i] /\ q.user \in Users /\ q.item = i
    BY <1>1 DEF Request, Requests, AccountOperation, Stages
  <2>3. Begin(r, q) /\ request'[r] = q /\ held'[r] = {} /\ UNCHANGED tables
    BY <1>2, <2>1, <2>2 DEF AcceptBegin
  <2> HIDE DEF q
  <2>4. Stage(r)'
    BY <2>2, <2>3 DEF Stage, InvitationStage, UpdateStage, OtherStage
  <2>5. QED
    BY <2>2, <2>3, <2>4, BeginInv
<1>5. CASE \E by \in operator, i \in Invitations : ReissueBegin(r, by, i)
  <2>1. PICK by \in operator, i \in Invitations : ReissueBegin(r, by, i)
    BY <1>5
  <2> DEFINE q == Request("reissue", "user", by, InviteeOf[i], i, {})
  <2>2. /\ q \in Requests /\ q.seen = {} /\ q.op = "reissue" /\ q.at = "user"
        /\ q.user = InviteeOf[i] /\ q.user \in Users /\ q.item = i
    BY <1>1 DEF Request, Requests, AccountOperation, Stages
  <2>3. Begin(r, q) /\ request'[r] = q /\ held'[r] = {} /\ UNCHANGED tables
    BY <1>2, <2>1, <2>2 DEF ReissueBegin
  <2> HIDE DEF q
  <2>4. Stage(r)'
    BY <2>2, <2>3 DEF Stage, InvitationStage, UpdateStage, OtherStage
  <2>5. QED
    BY <2>2, <2>3, <2>4, BeginInv
<1>6. CASE \E by \in operator, i \in Invitations : RevokeBegin(r, by, i)
  <2>1. PICK by \in operator, i \in Invitations : RevokeBegin(r, by, i)
    BY <1>6
  <2> DEFINE q == Request("revoke", "invitation", by, NoUser, i, {})
  <2>2. q \in Requests /\ q.seen = {} /\ q.op = "revoke" /\ q.item = i
    BY <1>1 DEF Request, Requests, AccountOperation, Stages
  <2>3. Begin(r, q) /\ request'[r] = q /\ held'[r] = {} /\ UNCHANGED tables
    BY <1>2, <2>1, <2>2 DEF RevokeBegin
  <2> HIDE DEF q
  <2>4. Stage(r)'
    BY <2>2, <2>3 DEF Stage, InvitationStage, UpdateStage, OtherStage
  <2>5. QED
    BY <2>2, <2>3, <2>4, BeginInv
<1>7. CASE \E by \in operator, u \in known, body \in Bodies : UpdateBegin(r, by, u, body)
  <2>1. PICK by \in operator, u \in known, body \in Bodies : UpdateBegin(r, by, u, body)
    BY <1>7
  <2> DEFINE q == Request("update", "scan", by, u, NoUser, body)
  <2>2. /\ q \in Requests /\ q.seen = {} /\ q.op = "update" /\ q.at = "scan"
        /\ q.by \in known /\ q.user \in known /\ q.body \in Bodies
    BY <1>1, <1>9 DEF Request, Requests, AccountOperation, Stages, Words
  <2>3. Begin(r, q) /\ request'[r] = q /\ held'[r] = {} /\ UNCHANGED tables
    BY <1>2, <2>1, <2>2 DEF UpdateBegin
  <2> HIDE DEF q
  <2>4. Stage(r)'
    BY <2>2, <2>3, FS_EmptySet DEF Stage, InvitationStage, UpdateStage, OtherStage, tables, accounts
  <2>5. QED
    BY <2>2, <2>3, <2>4, BeginInv
<1>8. QED
  BY <1>3, <1>4, <1>5, <1>6, <1>7

LEMMA LoginCommitInv == ASSUME NEW r \in Slots, AccountsInv, LoginCommit(r) PROVE AccountsInv'
<1>1. request[r].user \in known
  BY DEF LoginCommit, At, AccountsInv, Stage, OtherStage
<1>2. /\ Release(r) /\ UNCHANGED <<known, active, operator, password, invitation, owner>>
      /\ sessions' \subseteq known \X Sessions
  BY <1>1 DEF LoginCommit, accounts, AccountsInv, TablesOK
<1>3. TablesOK' /\ SingleRows' /\ (active \cap operator # {})'
  BY <1>2 DEF AccountsInv, TablesOK, SingleRows, Exists
<1>4. QED
  BY <1>2, <1>3, CommitInv

LEMMA LockUserInv ==
    ASSUME NEW r \in Slots, AccountsInv, AcceptLockUser(r) \/ ReissueLockUser(r) PROVE AccountsInv'
<1>1. /\ request[r].op \in {"accept", "reissue"} /\ Free(r, request[r].user)
      /\ Advance(r, "invitation", {request[r].user}) /\ UNCHANGED tables
      /\ request[r].op # "none" /\ request[r].at = "user"
  BY DEF AcceptLockUser, ReissueLockUser, At
<1>2. InvitationStage(r)
  BY DEF AccountsInv, Stage
<1>3. Stage(r)'
  BY <1>1, <1>2, Advanced DEF Stage, InvitationStage, UpdateStage, OtherStage
<1>4. {request[r].user} \in SUBSET Lockable
  BY <1>1, <1>2 DEF InvitationStage, Lockable
<1>5. QED
  BY <1>1, <1>3, <1>4, AdvanceInv DEF Stages

LEMMA LockInvitationInv ==
    ASSUME NEW r \in Slots, AccountsInv, AcceptLockInvitation(r) \/ ReissueLockInvitation(r)
    PROVE  AccountsInv'
<1> DEFINE i == request[r].item
           u == request[r].user
<1>1. InvitationStage(r) /\ request[r].at = "invitation" /\ Exists(i) => Free(r, i)
  BY DEF AcceptLockInvitation, ReissueLockInvitation, At, AccountsInv, Stage
<1>2. /\ request[r].op \in {"accept", "reissue"} /\ request[r].at = "invitation"
      /\ i \in Invitations /\ u = InviteeOf[i] /\ u \in held[r]
  BY DEF AcceptLockInvitation, ReissueLockInvitation, At, AccountsInv, Stage, InvitationStage
<1>3. CASE Refuse(r)
  BY <1>3, RefuseInv
<1>4. CASE /\ request[r].op = "accept" /\ invitation[i] = "open" /\ u \notin password
           /\ Free(r, i) /\ Advance(r, "hash", {i}) /\ UNCHANGED tables
  <2>1. u \in known
    BY <1>2, <1>4 DEF AccountsInv, TablesOK
  <2>2. Stage(r)'
    BY <1>2, <1>4, <2>1, Advanced DEF Stage, InvitationStage, UpdateStage, OtherStage, tables, accounts,
       AccountsInv
  <2>3. {i} \in SUBSET Lockable
    BY <1>2 DEF Lockable
  <2>4. QED
    BY <1>4, <2>2, <2>3, AdvanceInv DEF Stages
<1>5. CASE /\ request[r].op = "reissue" /\ Exists(i) /\ u \notin password
           /\ Free(r, i) /\ Advance(r, "replace", {i}) /\ UNCHANGED tables
  <2>1. u \in known
    BY <1>2, <1>5 DEF AccountsInv, TablesOK, Exists
  <2>2. Stage(r)'
    BY <1>2, <1>5, <2>1, Advanced DEF Stage, InvitationStage, UpdateStage, OtherStage, tables, accounts,
       AccountsInv, Exists
  <2>3. {i} \in SUBSET Lockable
    BY <1>2 DEF Lockable
  <2>4. QED
    BY <1>5, <2>2, <2>3, AdvanceInv DEF Stages
<1>6. QED
  BY <1>3, <1>4, <1>5 DEF AcceptLockInvitation, ReissueLockInvitation, At, Exists

\* What an acceptance knows when it commits.
LEMMA AtHash ==
    ASSUME NEW r \in Slots, AccountsInv, At(r, "accept", "hash")
    PROVE  /\ request[r].item \in Invitations /\ request[r].user = InviteeOf[request[r].item]
           /\ request[r].item \in held[r] /\ request[r].user \in held[r]
           /\ request[r].user \in known \ password
           /\ invitation[request[r].item] \in {"open", "expired"}
BY DEF AccountsInv, Stage, InvitationStage, At

LEMMA AtReplace ==
    ASSUME NEW r \in Slots, AccountsInv, At(r, "reissue", "replace")
    PROVE  /\ request[r].item \in Invitations /\ request[r].user = InviteeOf[request[r].item]
           /\ request[r].user \in known \ password
           /\ Exists(request[r].item)
BY DEF AccountsInv, Stage, InvitationStage, At

LEMMA AcceptCommitInv == ASSUME NEW r \in Slots, AccountsInv, AcceptCommit(r) PROVE AccountsInv'
<1> DEFINE i == request[r].item
           u == request[r].user
<1>1. /\ i \in Invitations /\ u = InviteeOf[i] /\ i \in held[r] /\ u \in held[r] /\ u \in known
      /\ invitation[i] \in {"open", "expired"}
  BY AtHash DEF AcceptCommit
<1>2. /\ Release(r) /\ UNCHANGED <<known, operator, owner>>
      /\ password' = password \cup {u} /\ active' = active \cup {u}
      /\ invitation' = [invitation EXCEPT ![i] = "used"]
      /\ sessions' \subseteq known \X Sessions
  BY <1>1 DEF AcceptCommit, AccountsInv, TablesOK
<1> HIDE DEF i, u
<1>3. TablesOK' /\ SingleRows' /\ (active \cap operator # {})'
  BY <1>1, <1>2 DEF AccountsInv, TablesOK, SingleRows, Exists, InvitationStates
<1>4. \A j \in Invitations : ~Free(r, j) => invitation'[j] = invitation[j]
  BY <1>1, <1>2 DEF AccountsInv, TablesOK, LocksOK, Free
<1>5. QED
  BY <1>1, <1>2, <1>3, <1>4, CommitInv

LEMMA ReissueCommitInv == ASSUME NEW r \in Slots, AccountsInv, ReissueCommit(r) PROVE AccountsInv'
<1> DEFINE u == request[r].user
<1>1. u \in known
  BY AtReplace DEF ReissueCommit
<1>2. /\ Release(r) /\ UNCHANGED <<known, active, operator, password, sessions, owner>>
      /\ \A j \in Rows(u) : Free(r, j)
  BY DEF ReissueCommit
<1>3. PICK i \in Invitations : InviteeOf[i] = u /\ Fresh(i) /\ Replace(Rows(u), {i})
  BY DEF ReissueCommit
<1> HIDE DEF u
<1>4. TablesOK' /\ SingleRows' /\ (active \cap operator # {})'
  BY <1>1, <1>2, <1>3 DEF Replace, Rows, AccountsInv, TablesOK, SingleRows, Exists, InvitationStates
<1>5. \A j \in Invitations : Exists(j) /\ ~Free(r, j) => invitation'[j] = invitation[j]
  BY <1>2, <1>3 DEF Replace, Rows, Fresh, Exists
<1>6. QED
  BY <1>2, <1>4, <1>5, CommitInv

LEMMA RevokeCommitInv == ASSUME NEW r \in Slots, AccountsInv, RevokeCommit(r) PROVE AccountsInv'
<1>1. request[r].item \in Invitations
  BY DEF RevokeCommit, At, AccountsInv, Stage, OtherStage
<1>2. Release(r) /\ UNCHANGED <<known, active, operator, password, sessions, owner>>
  BY DEF RevokeCommit
<1>3. TablesOK' /\ SingleRows' /\ (active \cap operator # {})'
  BY <1>1, <1>2 DEF RevokeCommit, AccountsInv, TablesOK, SingleRows, Exists, InvitationStates
<1>4. \A j \in Invitations : Exists(j) /\ ~Free(r, j) => invitation'[j] = invitation[j]
  BY <1>1 DEF RevokeCommit, AccountsInv, TablesOK
<1>5. QED
  BY <1>2, <1>3, <1>4, CommitInv

-----------------------------------------------------------------------------
(* update_user.                                                            *)

\* Of two operators one is another one.
LEMMA AnotherOne ==
    ASSUME NEW S, IsFiniteSet(S), ~(Cardinality(S) <= 1), NEW u
    PROVE  \E v \in S : v # u
<1> SUFFICES ASSUME \A v \in S : v = u PROVE FALSE
  OBVIOUS
<1>1. IsFiniteSet({u}) /\ Cardinality({u}) = 1 /\ S \subseteq {u}
  BY FS_Singleton
<1>2. Cardinality(S) <= 1
  BY <1>1, FS_Subset
<1>3. QED
  BY <1>2

LEMMA UpdateScanInv == ASSUME NEW r \in Slots, AccountsInv, UpdateScan(r) PROVE AccountsInv'
<1>1. /\ At(r, "update", "scan") /\ UNCHANGED tables
      /\ UpdateStage(r) /\ request[r] \in Requests
      /\ request[r].seen \subseteq held[r] /\ held[r] \in SUBSET Lockable
  BY DEF UpdateScan, AccountsInv, Stage, LocksOK
<1>2. PICK u \in Unscanned(r) :
        /\ Free(r, u)
        /\ request' = [request EXCEPT ![r].last = u,
                                      ![r].seen = IF u \in operator THEN @ \cup {u} ELSE @]
        /\ held' = [held EXCEPT ![r] = IF u \in operator THEN @ \cup {u} ELSE @]
  BY DEF UpdateScan
<1> DEFINE new == IF u \in operator THEN {u} ELSE {}
           q == [request[r] EXCEPT !.last = u, !.seen = request[r].seen \cup new]
           rows == held[r] \cup new
<1>3. /\ u \in Users /\ u \in Nat /\ new \subseteq operator /\ new \subseteq Users
      /\ u > request[r].last /\ request[r].last \in Nat
      /\ request[r].seen \subseteq Nat /\ \A v \in new : v = u
  <2>1. u \in Users /\ u \in Nat /\ u > request[r].last
    BY AccountsAssumption DEF Unscanned, AccountsInv, TablesOK
  <2>2. request[r].last \in Nat /\ request[r].seen \subseteq Users
    BY <1>1 DEF Requests
  <2>3. QED
    BY <2>1, <2>2, AccountsAssumption
<1>4. /\ q \in Requests /\ q.op = "update" /\ q.at = "scan" /\ q.seen = request[r].seen \cup new
      /\ q.last = u /\ q.body = request[r].body /\ q.by = request[r].by /\ q.user = request[r].user
  BY <1>1, <1>3 DEF Requests, At
<1>5. rows \in SUBSET Lockable /\ q.seen \subseteq rows
  BY <1>1, <1>3, <1>4 DEF Lockable
<1>6. request' = [request EXCEPT ![r] = q] /\ held' = [held EXCEPT ![r] = rows]
  BY <1>2 DEF AccountsInv, LocksOK
<1>7. \A s \in Slots : s # r => held[s] \cap rows = {}
  BY <1>2 DEF Free, AccountsInv, LocksOK
<1>8. q # Idle
  BY <1>4 DEF Idle, Request
<1>9. IsFiniteSet(q.seen)
  <2>1. IsFiniteSet(request[r].seen)
    BY <1>1 DEF UpdateStage, At
  <2>2. IsFiniteSet(request[r].seen \cup {u})
    BY <2>1, FS_AddElement
  <2>3. QED
    BY <1>4, <2>1, <2>2
<1>10. request'[r] = q /\ held'[r] = rows
  BY <1>6 DEF AccountsInv, LocksOK
<1>13. rows = q.seen
  BY <1>1, <1>4 DEF UpdateStage, At
<1> HIDE DEF q, rows, new
<1>14. \A v \in q.seen : v <= q.last
  <2>1. ASSUME NEW v \in request[r].seen PROVE v <= u
    <3>1. v <= request[r].last /\ v \in Nat
      BY <1>1, <1>3 DEF UpdateStage, At
    <3>2. QED
      BY <1>3, <3>1
  <2>2. u <= u
    BY <1>3
  <2>3. QED
    BY <1>3, <1>4, <2>1, <2>2
<1>11. Stage(r)'
  BY <1>1, <1>3, <1>4, <1>9, <1>10, <1>13, <1>14
     DEF Stage, InvitationStage, UpdateStage, OtherStage, At, tables, accounts
<1>12. QED
  BY <1>1, <1>4, <1>5, <1>6, <1>7, <1>8, <1>11, ReadInv

LEMMA UpdateLockCallerInv == ASSUME NEW r \in Slots, AccountsInv, UpdateLockCaller(r) PROVE AccountsInv'
<1>1. At(r, "update", "scan") /\ UpdateStage(r) /\ Free(r, request[r].by)
  BY DEF UpdateLockCaller, AccountsInv, Stage
<1>2. CASE Refuse(r)
  BY <1>2, RefuseInv
<1>3. CASE /\ Unscanned(r) = {} /\ request[r].by \in operator
           /\ Advance(r, "target", {request[r].by}) /\ UNCHANGED tables
  <2>3. /\ request[r].by \in known /\ request[r].user \in known /\ known \subseteq Users
        /\ request[r].last \in Nat /\ Users \subseteq Nat
    BY <1>1, AccountsAssumption DEF UpdateStage, At, AccountsInv, TablesOK, Requests
  <2>4. request[r].by <= request[r].last /\ request[r].user <= request[r].last
    <3>1. ASSUME NEW u \in known PROVE u <= request[r].last
      <4>1. ~(u > request[r].last) /\ u \in Nat
        BY <1>3, <2>3 DEF Unscanned
      <4>2. QED
        BY <2>3, <4>1
    <3>2. QED
      BY <2>3, <3>1
  <2>5. /\ request'[r].at = "target" /\ request'[r].op = "update"
        /\ request'[r].by = request[r].by /\ request'[r].user = request[r].user
        /\ request'[r].body = request[r].body /\ request'[r].seen = request[r].seen
        /\ request'[r].last = request[r].last
        /\ held'[r] = held[r] \cup {request[r].by} /\ UNCHANGED <<known, active, operator, owner>>
    BY <1>1, <1>3, Advanced DEF At, tables, accounts
  <2>1. Stage(r)'
    BY <1>1, <1>3, <2>4, <2>5 DEF Stage, InvitationStage, UpdateStage, OtherStage, At
  <2>2. {request[r].by} \in SUBSET Lockable
    BY <2>3 DEF Lockable
  <2>6. QED
    BY <1>1, <1>3, <2>1, <2>2, AdvanceInv DEF Stages, At
<1>4. QED
  BY <1>2, <1>3 DEF UpdateLockCaller

\* Two active operators were found under their locks, so another one is left.
LEMMA UpdateLockTargetInv == ASSUME NEW r \in Slots, AccountsInv, UpdateLockTarget(r) PROVE AccountsInv'
<1> DEFINE u == request[r].user
           next == IF Disabling(r) THEN "owned" ELSE "write"
<1>1. At(r, "update", "target") /\ UpdateStage(r) /\ Free(r, u)
  BY DEF UpdateLockTarget, AccountsInv, Stage
<1>2. CASE Refuse(r)
  BY <1>2, RefuseInv
<1>3. CASE /\ u \in known
           /\ (Disabling(r) \/ RemovingOperator(r)) /\ u \in operator
                => ~(Cardinality(request[r].seen \cap active) <= 1)
           /\ Advance(r, next, {u}) /\ UNCHANGED tables
  <2>1. request[r].seen \subseteq operator /\ IsFiniteSet(request[r].seen \cap active)
    BY <1>1, FS_Subset DEF UpdateStage, At
  <2>2. Protected(r)
    BY <1>3, <2>1, AnotherOne DEF Protected
  <2>3. /\ request'[r].at = next /\ request'[r].op = "update"
        /\ request'[r].by = request[r].by /\ request'[r].user = u
        /\ request'[r].body = request[r].body /\ request'[r].seen = request[r].seen
        /\ request'[r].last = request[r].last /\ held'[r] = held[r] \cup {u} /\ UNCHANGED <<known, active, operator, owner>>
    BY <1>1, <1>3, Advanced DEF At, tables, accounts
  <2>4. Protected(r)' /\ (Disabling(r)' <=> Disabling(r))
    BY <2>2, <2>3 DEF Protected, Disabling, RemovingOperator
  <2>5. Stage(r)'
    BY <1>1, <1>3, <2>3, <2>4 DEF Stage, InvitationStage, UpdateStage, OtherStage, At
  <2>6. {u} \in SUBSET Lockable /\ next \in Stages /\ request[r].op # "none"
    BY <1>1 DEF UpdateStage, At, Lockable, Stages, AccountsInv, TablesOK
  <2>7. QED
    BY <1>1, <1>3, <2>5, <2>6, AdvanceInv DEF Stages
<1>4. QED
  BY <1>2, <1>3 DEF UpdateLockTarget

LEMMA UpdateCheckOwnedInv == ASSUME NEW r \in Slots, AccountsInv, UpdateCheckOwned(r) PROVE AccountsInv'
<1> DEFINE u == request[r].user
<1>1. At(r, "update", "owned") /\ UpdateStage(r)
  BY DEF UpdateCheckOwned, AccountsInv, Stage
<1>2. CASE Refuse(r)
  BY <1>2, RefuseInv
<1>3. CASE {d \in Domains : owner[d] = u} = {} /\ Advance(r, "write", {}) /\ UNCHANGED tables
  <2>1. /\ request'[r].at = "write" /\ request'[r].op = "update"
        /\ request'[r].by = request[r].by /\ request'[r].user = u
        /\ request'[r].body = request[r].body /\ request'[r].seen = request[r].seen
        /\ request'[r].last = request[r].last /\ held'[r] = held[r] \cup {} /\ UNCHANGED <<known, active, operator, owner>>
    BY <1>1, <1>3, Advanced DEF At, tables, accounts
  <2>2. Protected(r)'
    BY <1>1, <2>1 DEF UpdateStage, At, Protected, Disabling, RemovingOperator
  <2>3. Stage(r)'
    BY <1>1, <1>3, <2>1, <2>2 DEF Stage, InvitationStage, UpdateStage, OtherStage, At
  <2>4. QED
    BY <1>1, <1>3, <2>3, AdvanceInv DEF Stages, At
<1>4. QED
  BY <1>2, <1>3 DEF UpdateCheckOwned

\* What an update knows when it commits.
LEMMA AtWrite ==
    ASSUME NEW r \in Slots, AccountsInv, At(r, "update", "write")
    PROVE  /\ request[r].user \in known /\ request[r].user \in held[r] /\ request[r].user \in Users
           /\ request[r].body \in Bodies
           /\ Disabling(r) => \A d \in Domains : owner[d] # request[r].user
           /\ (Disabling(r) \/ RemovingOperator(r)) /\ request[r].user \in operator
                => \E v \in active \cap operator : v # request[r].user
BY DEF AccountsInv, TablesOK, Stage, UpdateStage, At, Protected

LEMMA UpdateCommitInv == ASSUME NEW r \in Slots, AccountsInv, UpdateCommit(r) PROVE AccountsInv'
<1> DEFINE u == request[r].user
           body == request[r].body
           unused == {i \in Rows(u) : invitation[i] # "used"}
<1>1. /\ u \in known /\ u \in held[r]
      /\ ("disable" \in body /\ u \in active) \/ ("demote" \in body /\ u \in operator) =>
           (u \in operator => \E v \in active \cap operator : v # u)
  BY AtWrite DEF UpdateCommit, Disabling, RemovingOperator
<1>2. /\ Release(r) /\ UNCHANGED <<known, password, owner>>
      /\ active' = IF "enable" \in body THEN active \cup {u}
                   ELSE IF "disable" \in body THEN active \ {u} ELSE active
      /\ operator' = IF "promote" \in body THEN operator \cup {u}
                     ELSE IF "demote" \in body THEN operator \ {u} ELSE operator
      /\ \/ /\ \A i \in Rows(u) : Free(r, i)
            /\ Replace(unused, {})
            /\ sessions' \subseteq sessions
         \/ UNCHANGED <<invitation, sessions>>
  BY DEF UpdateCommit
<1>3. (active \cap operator # {})'
  BY <1>1, <1>2 DEF AccountsInv
<1>4. TablesOK'
  <2>1. active' \subseteq known' /\ operator' \subseteq known'
    BY <1>1, <1>2 DEF AccountsInv, TablesOK
  <2>2. CASE Replace(unused, {}) /\ sessions' \subseteq sessions
    BY <1>2, <2>1, <2>2 DEF AccountsInv, TablesOK, Replace, InvitationStates
  <2>3. CASE UNCHANGED <<invitation, sessions>>
    BY <1>2, <2>1, <2>3 DEF AccountsInv, TablesOK
  <2>4. QED
    BY <1>2, <2>2, <2>3
<1>5. SingleRows' /\ \A j \in Invitations : Exists(j) /\ ~Free(r, j) => invitation'[j] = invitation[j]
  BY <1>2 DEF AccountsInv, SingleRows, Exists, Replace, Rows
<1>6. \A v \in known : v \notin held[r] =>
        /\ v \in active' <=> v \in active
        /\ v \in operator' <=> v \in operator
        /\ v \in password' <=> v \in password
  BY <1>1, <1>2
<1>7. QED
  BY <1>2, <1>3, <1>4, <1>5, <1>6, CommitInv

-----------------------------------------------------------------------------
(* Steps that belong to no request under way.                              *)

\* Such a step touches no row that is locked, save for the expiry.
LEMMA BesideInv ==
    ASSUME AccountsInv, UNCHANGED <<owner, request, held>>, known \subseteq known',
           \A u \in known :
             /\ u \in active' <=> u \in active
             /\ u \in operator' <=> u \in operator
             /\ u \in password' <=> u \in password,
           \A i \in Invitations : Exists(i) /\ (\E s \in Slots : i \in held[s]) =>
             invitation'[i] = invitation[i] \/ (invitation[i] = "open" /\ invitation'[i] = "expired"),
           TablesOK', SingleRows', (active \cap operator # {})'
    PROVE  AccountsInv'
<1>1. \A s \in Slots : Stage(s)'
  BY StageKept
<1>2. LocksOK' /\ request' \in [Slots -> Requests]
  BY DEF AccountsInv, LocksOK
<1>3. QED
  BY <1>1, <1>2 DEF AccountsInv

LEMMA CreateUserInv ==
    ASSUME NEW by \in Users, NEW u \in Users, NEW i \in Invitations, AccountsInv, CreateUser(by, u, i)
    PROVE  AccountsInv'
<1>1. /\ u \notin known /\ InviteeOf[i] = u /\ Fresh(i) /\ known' = known \cup {u} /\ Replace({}, {i})
      /\ UNCHANGED <<active, operator, password, sessions, owner, request, held>>
  BY DEF CreateUser
<1>2. TablesOK' /\ SingleRows' /\ (active \cap operator # {})'
  BY <1>1 DEF Replace, AccountsInv, TablesOK, SingleRows, Exists, InvitationStates
<1>3. \A j \in Invitations : Exists(j) => invitation'[j] = invitation[j]
  BY <1>1 DEF Replace, Fresh, Exists
<1>4. QED
  BY <1>1, <1>2, <1>3, BesideInv

LEMMA CreateOperatorInv == ASSUME NEW u \in Users, AccountsInv, CreateOperator(u) PROVE AccountsInv'
<1>1. TablesOK' /\ SingleRows' /\ (active \cap operator # {})'
  BY DEF CreateOperator, AccountsInv, TablesOK, SingleRows, Exists
<1>2. QED
  BY <1>1, BesideInv DEF CreateOperator

LEMMA OtherStepsInv ==
    ASSUME AccountsInv,
           \/ \E u \in Users, n \in Sessions : Logout(u, n)
           \/ \E i \in Invitations : ExpireInvitation(i)
           \/ Purge
    PROVE  AccountsInv'
<1>1. UNCHANGED <<known, active, operator, password, owner, request, held>>
  BY DEF Logout, ExpireInvitation, Purge, accounts
<1>2. sessions' \subseteq sessions
  BY DEF Logout, ExpireInvitation, Purge
<1>3. /\ invitation' \in [Invitations -> InvitationStates]
      /\ \A i \in Invitations : invitation'[i] # "none" => invitation[i] # "none"
      /\ \A i \in Invitations : (\E s \in Slots : i \in held[s]) =>
           invitation'[i] = invitation[i] \/ (invitation[i] = "open" /\ invitation'[i] = "expired")
  <2>1. CASE \E u \in Users, n \in Sessions : Logout(u, n)
    BY <2>1 DEF Logout, accounts, AccountsInv, TablesOK
  <2>2. CASE \E i \in Invitations : ExpireInvitation(i)
    BY <2>2 DEF ExpireInvitation, AccountsInv, TablesOK, InvitationStates
  <2>3. CASE Purge
    <3>1. PICK gone : Replace(gone, {}) /\ \A i \in gone, s \in Slots : i \notin held[s]
      BY <2>3 DEF Purge
    <3>2. QED
      BY <3>1 DEF Replace, AccountsInv, TablesOK, InvitationStates
  <2>4. QED
    BY <2>1, <2>2, <2>3
<1>4. TablesOK' /\ SingleRows' /\ (active \cap operator # {})'
  BY <1>1, <1>2, <1>3 DEF AccountsInv, TablesOK, SingleRows, Exists
<1>5. QED
  BY <1>1, <1>3, <1>4, BesideInv

-----------------------------------------------------------------------------
(* The theorems.                                                           *)

LEMMA AccountStepInv == ASSUME NEW r \in Slots, AccountsInv, AccountStep(r) PROVE AccountsInv'
BY BeginSteps, LoginCommitInv, LockUserInv, LockInvitationInv, AcceptCommitInv, ReissueCommitInv,
   RevokeCommitInv, UpdateScanInv, UpdateLockCallerInv, UpdateLockTargetInv, UpdateCheckOwnedInv,
   UpdateCommitInv, RefuseInv DEF AccountStep, Abort

LEMMA AccountsStepInv == AccountsInv /\ [AccountsNext]_vars => AccountsInv'
<1> SUFFICES ASSUME AccountsInv, [AccountsNext]_vars PROVE AccountsInv'
  OBVIOUS
<1>1. CASE AccountsNext
  BY <1>1, AccountStepInv, CreateUserInv, CreateOperatorInv, OtherStepsInv DEF AccountsNext
<1>2. CASE UNCHANGED vars
  <2>1. TablesOK' /\ SingleRows' /\ (active \cap operator # {})'
    BY <1>2 DEF vars, tables, accounts, AccountsInv, TablesOK, SingleRows, Exists
  <2>2. QED
    BY <1>2, <2>1, BesideInv DEF vars, tables, accounts
<1>3. QED
  BY <1>1, <1>2

LEMMA AccountsInitInv == AccountsInit => AccountsInv
<1> SUFFICES ASSUME AccountsInit PROVE AccountsInv
  OBVIOUS
<1> USE AccountsAssumption DEF AccountsInit
<1>1. TablesOK /\ SingleRows /\ active \cap operator # {}
  BY DEF TablesOK, SingleRows, Exists, InvitationStates
<1>2. LocksOK /\ request \in [Slots -> Requests]
  BY IdleType DEF LocksOK, Idle, Request
<1>3. \A r \in Slots : Stage(r)
  BY DEF Stage, InvitationStage, UpdateStage, OtherStage, Idle, Request
<1>4. QED
  BY <1>1, <1>2, <1>3 DEF AccountsInv

\* The inductive invariant of the requests on accounts.
THEOREM AccountsInvariant == AccountsSpec => []AccountsInv
<1>1. QED
  BY AccountsInitInv, AccountsStepInv, PTL DEF AccountsSpec

\* Types and foreign keys hold, and no two requests hold the same row.
THEOREM AccountsTypeCorrect == AccountsSpec => []AccountsTypeOK
<1>1. AccountsInv => AccountsTypeOK
  BY DEF AccountsInv, TablesOK, LocksOK, AccountsTypeOK
<1>2. QED
  BY <1>1, AccountsInvariant, PTL

\* Whatever operators do to each other and themselves at the same time, one
\* active operator is left (api.py:972-1011).
THEOREM AnOperatorRemains == AccountsSpec => []OperatorRemains
<1>1. AccountsInv => OperatorRemains
  BY DEF AccountsInv, OperatorRemains, Rules!OperatorRemains
<1>2. QED
  BY <1>1, AccountsInvariant, PTL

\* However requests for replacements race, a user has one invitation
\* (api.py:1044-1092).
THEOREM OneInvitationAtMost == AccountsSpec => []OneInvitation
<1>1. AccountsInv => OneInvitation
  BY DEF AccountsInv, SingleRows, Exists, OneInvitation, Rules!OneInvitation
<1>2. QED
  BY <1>1, AccountsInvariant, PTL

-----------------------------------------------------------------------------
(* Requests do not wait for each other in a circle.  A request that holds  *)
(* more than users' rows waits for nobody, and one that is past the users' *)
(* rows waits for those only.  What is left of a circle are scans, each of *)
(* which waits for a row behind all the rows it holds.                     *)

\* A finite set of identities has a largest one: the sets of what is beyond
\* an element cannot shrink for ever.
LEMMA Largest ==
    ASSUME NEW S \in SUBSET Nat, IsFiniteSet(S), S # {}
    PROVE  \E m \in S : \A n \in S : n <= m
<1> DEFINE Beyond(m) == {n \in S : n > m}
           T == {Beyond(m) : m \in S}
<1>1. T \subseteq FiniteSubsetsOf(S) /\ T # {}
  <2>1. ASSUME NEW m \in S PROVE Beyond(m) \in FiniteSubsetsOf(S)
    <3>1. Beyond(m) \subseteq S
      OBVIOUS
    <3>2. IsFiniteSet(Beyond(m))
      BY <3>1, FS_Subset
    <3>3. QED
      BY <3>1, <3>2 DEF FiniteSubsetsOf
  <2>2. QED
    BY <2>1
<1>2. PICK x \in T : \A y \in T : <<y, x>> \notin StrictSubsetOrdering(S)
  BY <1>1, FS_StrictSubsetOrderingWellFounded, WFMin
<1>3. PICK m \in S : x = Beyond(m)
  BY <1>2
<1>4. ASSUME NEW n \in S, n > m PROVE FALSE
  <2>1. Beyond(n) \in T /\ n \in Beyond(m) /\ n \notin Beyond(n) /\ Beyond(n) \subseteq Beyond(m)
    <3>1. m \in Nat /\ n \in Nat /\ \A k \in S : k \in Nat
      OBVIOUS
    <3>2. ASSUME NEW k \in Beyond(n) PROVE k \in Beyond(m)
      <4>1. k \in Nat /\ k > n
        BY <3>1
      <4>2. k > m
        BY <1>4, <3>1, <4>1
      <4>3. QED
        BY <4>2
    <3>3. n \in Beyond(m) /\ n \notin Beyond(n)
      BY <1>4, <3>1
    <3>4. Beyond(n) \in T
      OBVIOUS
    <3>5. QED
      BY <3>2, <3>3, <3>4
  <2>2. Beyond(n) \subseteq S /\ Beyond(m) \subseteq S
    OBVIOUS
  <2> HIDE DEF Beyond
  <2>3. <<Beyond(n), Beyond(m)>> \in StrictSubsetOrdering(S)
    BY <2>1, <2>2 DEF StrictSubsetOrdering
  <2>4. QED
    BY <1>2, <1>3, <2>1, <2>3
<1>5. \A n \in S : n <= m
  BY <1>3, <1>4
<1>6. QED
  BY <1>3, <1>5

\* How a request that is no update orders the rows it locks.
Orderly(r) ==
    /\ held[r] # {} => Wanted(r) \cap Users = {}
    /\ ~(held[r] \subseteq Users) => \A s \in Slots \ {r} : Wanted(r) \cap held[s] = {}

LEMMA RequestsOnInvitationsAreOrderly ==
    ASSUME NEW r \in Slots, AccountsInv, request[r].op \in AccountOperation \ {"update"}
    PROVE  Orderly(r)
<1>1. /\ request[r].op \in {"none", "login", "revoke"} => held[r] = {}
      /\ InvitationStage(r)
  BY DEF AccountsInv, LocksOK, Stage, OtherStage
<1>2. Users \cap Invitations = {}
  BY AccountsAssumption
<1>3. CASE held[r] = {}
  BY <1>3 DEF Orderly
<1>4. CASE held[r] # {} /\ request[r].at = "invitation"
  <2>1. held[r] = {request[r].user} /\ request[r].user \in Users
    BY <1>1, <1>4 DEF AccountOperation, InvitationStage
  <2>2. Wanted(r) \subseteq {request[r].item} /\ request[r].item \in Invitations
    BY <1>1, <1>4 DEF AccountOperation, InvitationStage, Wanted
  <2>3. QED
    BY <1>2, <2>1, <2>2 DEF Orderly
<1>5. CASE held[r] # {} /\ request[r].at = "hash"
  <2>1. Wanted(r) = {}
    BY <1>5 DEF Wanted
  <2>2. QED
    BY <2>1 DEF Orderly
<1>6. CASE held[r] # {} /\ request[r].at = "replace"
  <2>1. /\ request[r].item \in held[r] /\ request[r].item \in Invitations
        /\ Exists(request[r].item) /\ request[r].user = InviteeOf[request[r].item]
    BY <1>1, <1>6 DEF AccountOperation, InvitationStage
  <2>2. Wanted(r) = Rows(request[r].user)
    BY <1>6 DEF Wanted
  <2>3. Wanted(r) \subseteq {request[r].item}
    BY <2>1, <2>2 DEF Rows, AccountsInv, SingleRows
  <2>4. \A s \in Slots \ {r} : request[r].item \notin held[s]
    BY <2>1 DEF AccountsInv, LocksOK
  <2>5. QED
    BY <1>2, <2>1, <2>3, <2>4 DEF Orderly
<1>7. QED
  BY <1>1, <1>3, <1>4, <1>5, <1>6 DEF AccountOperation, InvitationStage

\* An update holds users' rows only, and once it has all of them it waits
\* for rows that refer to them.
LEMMA UpdatesHoldUsers ==
    ASSUME NEW r \in Slots, AccountsInv, request[r].op = "update"
    PROVE  /\ held[r] \subseteq Users
           /\ request[r].at \notin {"scan", "target"} => Wanted(r) \cap Users = {}
           /\ request[r].at \in {"scan", "target"} => held[r] \subseteq operator
<1>1. UpdateStage(r) /\ known \subseteq Users /\ operator \subseteq Users
  BY DEF AccountsInv, Stage, TablesOK
<1>2. held[r] \subseteq Users
  BY <1>1 DEF UpdateStage
<1>3. request[r].at \in {"scan", "target"} => held[r] \subseteq operator
  BY <1>1 DEF UpdateStage
<1>4. ASSUME request[r].at \notin {"scan", "target"} PROVE Wanted(r) \subseteq Domains \cup Invitations
  <2>1. CASE request[r].at = "owned"
    BY <2>1 DEF Wanted
  <2>2. CASE request[r].at = "write"
    BY <2>2 DEF Wanted, Rows
  <2>3. QED
    BY <1>1, <1>4, <2>1, <2>2 DEF UpdateStage
<1>5. QED
  BY <1>2, <1>3, <1>4, AccountsAssumption

\* The operator's row a scan waits for is behind the rows it holds, or was
\* made an operator's behind the scan; so is every row a request past its
\* scan waits for.
LEMMA ScansAscend ==
    ASSUME NEW r \in Slots, AccountsInv, request[r].op = "update",
           request[r].at \in {"scan", "target"},
           NEW u \in operator, u \in Wanted(r), u \notin held[r], ~PromotedBehind(r, u)
    PROVE  request[r].at = "scan" /\ \A v \in held[r] : v < u
<1>1. UpdateStage(r) /\ request[r] \in Requests /\ request[r].seen \subseteq held[r]
  BY DEF AccountsInv, LocksOK, Stage
<1>2. /\ operator \subseteq known /\ known \subseteq Users /\ Users \subseteq Nat
      /\ request[r].last \in Nat /\ request[r].by \in known /\ request[r].user \in known
  BY <1>1, AccountsAssumption DEF AccountsInv, TablesOK, Requests, UpdateStage
<1>3. ~(u <= request[r].last)
  BY <1>1 DEF PromotedBehind
<1>4. request[r].at = "scan"
  <2> SUFFICES ASSUME request[r].at = "target" PROVE FALSE
    OBVIOUS
  <2>1. Wanted(r) = {request[r].user}
    BY DEF Wanted
  <2>2. request[r].user <= request[r].last
    BY <1>1 DEF UpdateStage
  <2>3. QED
    BY <1>3, <2>1, <2>2
<1>5. held[r] = request[r].seen /\ \A v \in held[r] : v \in Users /\ v <= request[r].last
  BY <1>1, <1>2, <1>4 DEF UpdateStage
<1>6. ASSUME NEW v \in held[r] PROVE v < u
  <2>1. v \in Nat /\ u \in Nat /\ v <= request[r].last
    BY <1>2, <1>5
  <2>2. QED
    BY <1>2, <1>3, <2>1
<1>7. QED
  BY <1>4, <1>6

LEMMA NoCircle ==
    ASSUME AccountsInv, \A r \in Slots : request[r].op # "update" => Orderly(r)
    PROVE  NoLockCycle
<1> SUFFICES ASSUME NEW waiting \in (SUBSET Slots) \ {{}},
                    ~ \E r \in waiting :
                        \/ \E u \in Users \cap Wanted(r) : PromotedBehind(r, u)
                        \/ \A s \in waiting \ {r} : Wanted(r) \cap held[s] = {}
             PROVE  FALSE
  BY Zenon DEF NoLockCycle
<1> waiting # {} /\ waiting \subseteq Slots
  OBVIOUS
<1> \A r \in waiting : \A u \in Users \cap Wanted(r) : ~PromotedBehind(r, u)
  OBVIOUS
<1> \A r \in waiting : \E s \in waiting \ {r} : Wanted(r) \cap held[s] # {}
  OBVIOUS
<1>1. ASSUME NEW r \in waiting PROVE held[r] \subseteq Users
  BY UpdatesHoldUsers DEF Orderly
<1>2. ASSUME NEW r \in waiting, held[r] # {}
      PROVE  request[r].op = "update" /\ request[r].at \in {"scan", "target"}
  <2>1. ~(Wanted(r) \cap Users = {})
    BY <1>1
  <2>2. QED
    BY <1>2, <2>1, UpdatesHoldUsers DEF Orderly
<1>3. ASSUME NEW r \in waiting, held[r] # {}
      PROVE  \E s \in waiting : \E u \in held[s] : \A v \in held[r] : v < u
  <2>1. PICK s \in waiting \ {r} : \E u : u \in held[s] /\ u \in Wanted(r)
    OBVIOUS
  <2>7. PICK u : u \in held[s] /\ u \in Wanted(r)
    BY <2>1
  <2>2. u \notin held[r] /\ u \in Users
    BY <1>1, <2>1, <2>7 DEF AccountsInv, LocksOK
  <2>3. u \in operator
    BY <1>2, <2>1, <2>7, UpdatesHoldUsers
  <2>4. ~PromotedBehind(r, u)
    BY <2>2, <2>7
  <2>5. \A v \in held[r] : v < u
    BY <1>2, <1>3, <2>7, <2>2, <2>3, <2>4, ScansAscend
  <2>6. QED
    BY <2>1, <2>5, <2>7
<1> DEFINE S == {u \in Users : \E r \in waiting : u \in held[r]}
<1>4. S \in SUBSET Nat /\ IsFiniteSet(S)
  BY AccountsAssumption, FS_Subset
<1>5. S # {}
  BY <1>1
<1>6. PICK m \in S : \A n \in S : n <= m
  BY <1>4, <1>5, Largest
<1>7. PICK r \in waiting : m \in held[r]
  BY <1>6
<1>8. PICK s \in waiting : \E u \in held[s] : m < u
  BY <1>3, <1>7
<1>11. PICK u \in held[s] : m < u
  BY <1>8
<1>9. u \in S /\ u \in Nat /\ m \in Nat
  BY <1>1, <1>4, <1>6, <1>11
<1>10. QED
  BY <1>6, <1>9, <1>11

\* The requests of this module are the only ones.
LEMMA AccountRequests ==
    ASSUME AccountsNext, request \in [Slots -> Requests], NEW s \in Slots
    PROVE  \/ request'[s] \in {request[s], Idle}
           \/ request[s].op \in AccountOperation /\ request'[s].op \in AccountOperation
<1> DEFINE Goal == \/ request'[s] \in {request[s], Idle}
                   \/ request[s].op \in AccountOperation /\ request'[s].op \in AccountOperation
<1> USE DEF AccountOperation
<1>1. ASSUME NEW r \in Slots, Release(r) PROVE Goal
  BY <1>1 DEF Release
<1>2. ASSUME NEW r \in Slots, NEW q, Begin(r, q), q.op \in AccountOperation PROVE Goal
  BY <1>2 DEF Begin, Idle, Request
<1>3. ASSUME NEW r \in Slots, NEW at, NEW rows, Advance(r, at, rows), request[r].op \in AccountOperation
      PROVE  Goal
  <2>1. request[r] \in Requests /\ request' = [request EXCEPT ![r].at = at]
    BY <1>3 DEF Advance
  <2>2. s = r => request'[s].op = request[s].op
    BY <2>1 DEF Requests
  <2>3. QED
    BY <1>3, <2>1, <2>2
<1>4. ASSUME NEW r \in Slots, AccountStep(r) PROVE Goal
  <2>1. CASE \E u \in known : LoginVerify(r, u)
    BY <1>2, <2>1 DEF LoginVerify, Request
  <2>2. CASE \E i \in Invitations : AcceptBegin(r, i)
    BY <1>2, <2>2 DEF AcceptBegin, Request
  <2>3. CASE \E by \in operator, i \in Invitations : ReissueBegin(r, by, i)
    BY <1>2, <2>3 DEF ReissueBegin, Request
  <2>4. CASE \E by \in operator, i \in Invitations : RevokeBegin(r, by, i)
    BY <1>2, <2>4 DEF RevokeBegin, Request
  <2>5. CASE \E by \in operator, u \in known, body \in Bodies : UpdateBegin(r, by, u, body)
    BY <1>2, <2>5 DEF UpdateBegin, Request
  <2>6. CASE AcceptLockUser(r) \/ ReissueLockUser(r)
    BY <1>3, <2>6 DEF AcceptLockUser, ReissueLockUser, At
  <2>7. CASE AcceptLockInvitation(r) \/ ReissueLockInvitation(r)
    BY <1>1, <1>3, <2>7 DEF AcceptLockInvitation, ReissueLockInvitation, At, Refuse
  <2>8. CASE UpdateScan(r)
    <3>1. request[r].op = "update" /\ request[r] \in Requests
      BY <2>8 DEF UpdateScan, At
    <3>2. PICK q : /\ request' = [request EXCEPT ![r] = q]
                   /\ q.op = "update"
      <4>1. PICK u : request' = [request EXCEPT ![r].last = u,
                                   ![r].seen = IF u \in operator THEN @ \cup {u} ELSE @]
        BY <2>8 DEF UpdateScan
      <4> DEFINE q == [request[r] EXCEPT !.last = u,
                                        !.seen = IF u \in operator THEN @ \cup {u} ELSE @]
      <4>2. request' = [request EXCEPT ![r] = q]
        BY <4>1
      <4>3. q.op = "update"
        BY <3>1 DEF Requests
      <4> HIDE DEF q
      <4>4. QED
        BY <4>2, <4>3
    <3>3. QED
      BY <3>1, <3>2
  <2>9. CASE UpdateLockCaller(r)
    BY <1>1, <1>3, <2>9 DEF UpdateLockCaller, At, Refuse
  <2>10. CASE UpdateLockTarget(r)
    BY <1>1, <1>3, <2>10 DEF UpdateLockTarget, At, Refuse
  <2>11. CASE UpdateCheckOwned(r)
    BY <1>1, <1>3, <2>11 DEF UpdateCheckOwned, At, Refuse
  <2>12. CASE LoginCommit(r) \/ AcceptCommit(r) \/ ReissueCommit(r) \/ RevokeCommit(r)
              \/ UpdateCommit(r) \/ Abort(r)
    BY <1>1, <2>12 DEF LoginCommit, AcceptCommit, ReissueCommit, RevokeCommit, UpdateCommit, Abort, Refuse
  <2>13. QED
    BY <1>4, <2>1, <2>2, <2>3, <2>4, <2>5, <2>6, <2>7, <2>8, <2>9, <2>10, <2>11, <2>12 DEF AccountStep
<1>5. QED
  BY <1>4 DEF AccountsNext, Logout, CreateUser, CreateOperator, ExpireInvitation, Purge

\* Requests on accounts lock users before the rows that refer to them, and
\* operators in the order of their identity, save for the row of a user who
\* was made an operator behind the scan (api.py:817-831 and 973-1064).
THEOREM NoLockCycleOfAccounts == AccountsSpec => []NoLockCycle
<1> DEFINE Own == \A r \in Slots : request[r].op \in AccountOperation
<1>1. AccountsInit => Own
  BY DEF AccountsInit, Idle, Request, AccountOperation
<1>2. AccountsInv /\ Own /\ [AccountsNext]_vars => Own'
  <2> SUFFICES ASSUME AccountsInv, Own, [AccountsNext]_vars, NEW s \in Slots
               PROVE  request'[s].op \in AccountOperation
    OBVIOUS
  <2>1. CASE AccountsNext
    BY <2>1, AccountRequests DEF AccountsInv, Idle, Request, AccountOperation
  <2>2. CASE UNCHANGED vars
    BY <2>2 DEF vars
  <2>3. QED
    BY <2>1, <2>2
<1>3. AccountsInv /\ Own => NoLockCycle
  BY RequestsOnInvitationsAreOrderly, NoCircle
<1> HIDE DEF Own
<1>4. QED
  BY <1>1, <1>2, <1>3, AccountsInvariant, PTL DEF AccountsSpec

-----------------------------------------------------------------------------
(* The requests of Accounts, statement by statement, implement the rules   *)
(* of AccountRules: every step but a commit is a stutter of the rules, and *)
(* a commit is the rule of its request, because what the rule asks for was *)
(* found under locks and still holds.                                      *)

LEMMA InitImplements == AccountsInit => Rules!RulesInit
BY AccountsAssumption DEF AccountsInit, Rules!RulesInit

\* Rows and their replacement are the same in both modules.
LEMMA RowsAgree == ASSUME NEW u PROVE Rules!Rows(u) = Rows(u)
BY DEF Rules!Rows, Rules!InvitationsOf, Rows, Exists

LEMMA ReplaceAgrees == ASSUME NEW gone, NEW new, Replace(gone, new) PROVE Rules!Replace(gone, new)
BY DEF Replace, Rules!Replace

\* What the rules do not see.
LEMMA Stutter == UNCHANGED <<accounts, owner>> => UNCHANGED Rules!rulesVars
BY DEF accounts, Rules!rulesVars

LEMMA ReadsStutter ==
    ASSUME NEW r \in Slots, AccountStep(r),
           ~AcceptCommit(r), ~ReissueCommit(r), ~RevokeCommit(r), ~UpdateCommit(r)
    PROVE  UNCHANGED <<accounts, owner>>
BY DEF AccountStep, LoginVerify, LoginCommit, AcceptBegin, AcceptLockUser, AcceptLockInvitation,
       ReissueBegin, ReissueLockUser, ReissueLockInvitation, RevokeBegin, UpdateBegin, UpdateScan,
       UpdateLockCaller, UpdateLockTarget, UpdateCheckOwned, Abort, Refuse, Begin, tables

\* The invitation is still open and the user still without a password after
\* the hash was awaited.
LEMMA AcceptImplements ==
    ASSUME NEW r \in Slots, AccountsInv, AcceptCommit(r)
    PROVE  Rules!Accept(request[r].item) /\ request[r].item \in Invitations
<1>1. /\ request[r].item \in Invitations /\ request[r].user = InviteeOf[request[r].item]
      /\ request[r].user \in known \ password
      /\ invitation[request[r].item] \in {"open", "expired"}
  BY AtHash DEF AcceptCommit
<1>2. QED
  BY <1>1 DEF AcceptCommit, Rules!Accept

\* The row that was to be replaced is still there.
LEMMA ReissueImplements ==
    ASSUME NEW r \in Slots, AccountsInv, ReissueCommit(r)
    PROVE  \E u \in Users, i \in Invitations : Rules!Reissue(u, i)
<1> DEFINE u == request[r].user
<1>1. u \in known \ password /\ u \in Users /\ Rows(u) # {}
  BY AtReplace DEF ReissueCommit, AccountsInv, TablesOK, Rows, Exists
<1>2. PICK i \in Invitations : InviteeOf[i] = u /\ Fresh(i) /\ Replace(Rows(u), {i})
  BY DEF ReissueCommit
<1>3. Rules!Replace(Rules!Rows(u), {i}) /\ Rules!Rows(u) # {}
  BY <1>1, <1>2, RowsAgree, ReplaceAgrees
<1>4. Rules!Reissue(u, i)
  BY <1>1, <1>2, <1>3 DEF ReissueCommit, Rules!Reissue, Fresh, Exists
<1>5. QED
  BY <1>1, <1>4

LEMMA RevokeImplements ==
    ASSUME NEW r \in Slots, AccountsInv, RevokeCommit(r)
    PROVE  (\E i \in Invitations : Rules!Revoke(i)) \/ UNCHANGED <<accounts, owner>>
<1> DEFINE i == request[r].item
<1>1. i \in Invitations /\ UNCHANGED <<known, active, operator, password, owner>>
  BY DEF RevokeCommit, At, AccountsInv, Stage, OtherStage
<1>2. CASE Exists(i) /\ invitation[i] # "used"
  <2>1. invitation[i] \in {"open", "expired", "revoked"}
    BY <1>1, <1>2 DEF AccountsInv, TablesOK, InvitationStates, Exists
  <2>2. Rules!Revoke(i)
    BY <1>1, <1>2, <2>1 DEF RevokeCommit, Rules!Revoke
  <2>3. QED
    BY <1>1, <2>2
<1>3. CASE ~(Exists(i) /\ invitation[i] # "used")
  BY <1>1, <1>3 DEF RevokeCommit, accounts
<1>4. QED
  BY <1>2, <1>3

\* Another active operator and no owned domain: both were found under locks.
LEMMA UpdateImplements ==
    ASSUME NEW r \in Slots, AccountsInv, UpdateCommit(r)
    PROVE  \E u \in Users, body \in Bodies : Rules!Update(u, body)
<1> DEFINE u == request[r].user
           body == request[r].body
           owning == {owner[d] : d \in Domains} \ {NoUser}
<1>1. /\ u \in known /\ u \in Users /\ body \in Bodies
      /\ "disable" \in body /\ u \in active => u \notin owning
      /\ u \in operator /\ (("disable" \in body /\ u \in active) \/ "demote" \in body)
           => (active \cap operator) \ {u} # {}
  BY AtWrite DEF UpdateCommit, Disabling, RemovingOperator
<1>2. /\ active' = IF "enable" \in body THEN active \cup {u}
                   ELSE IF "disable" \in body THEN active \ {u} ELSE active
      /\ operator' = IF "promote" \in body THEN operator \cup {u}
                     ELSE IF "demote" \in body THEN operator \ {u} ELSE operator
      /\ UNCHANGED <<known, password, owner>>
  BY DEF UpdateCommit
<1>3. IF "disable" \in body
      THEN Rules!Replace({i \in Rules!Rows(u) : invitation[i] # "used"}, {})
      ELSE UNCHANGED invitation
  BY RowsAgree, ReplaceAgrees DEF UpdateCommit
<1> HIDE DEF u, body
<1>4. owning' = owning
  BY <1>2
<1>5. Rules!Update(u, body)
  BY <1>1, <1>2, <1>3, <1>4 DEF Rules!Update
<1>6. QED
  BY <1>1, <1>5

LEMMA BesideImplements ==
    ASSUME AccountsInv, AccountsNext, ~(\E r \in Slots : AccountStep(r))
    PROVE  Rules!RulesNext \/ UNCHANGED <<accounts, owner>>
<1>1. CASE \E u \in Users, n \in Sessions : Logout(u, n)
  BY <1>1 DEF Logout
<1>2. CASE \E by, u \in Users, i \in Invitations : CreateUser(by, u, i)
  <2>1. PICK by \in Users, u \in Users, i \in Invitations : CreateUser(by, u, i)
    BY <1>2
  <2>2. Rules!Replace({}, {i})
    BY <2>1, ReplaceAgrees DEF CreateUser
  <2>3. Rules!Register(u, i)
    BY <2>1, <2>2 DEF CreateUser, Rules!Register, Fresh, Exists
  <2>4. QED
    BY <2>3 DEF Rules!RulesNext
<1>3. CASE \E u \in Users : CreateOperator(u)
  BY <1>3 DEF CreateOperator, Rules!RulesNext, Rules!RegisterOperator
<1>4. CASE \E i \in Invitations : ExpireInvitation(i)
  BY <1>4 DEF ExpireInvitation, Rules!RulesNext, Rules!Expire
<1>5. CASE Purge
  <2>1. PICK old \in SUBSET {i \in Invitations : invitation[i] = "used"} :
          Replace(old \cup {i \in Invitations : invitation[i] \in {"expired", "revoked"}}, {})
    BY <1>5 DEF Purge
  <2> DEFINE gone == old \cup {i \in Invitations : invitation[i] \in {"expired", "revoked"}}
  <2>2. gone \in SUBSET Invitations /\ \A i \in gone : invitation[i] \in {"expired", "revoked", "used"}
    OBVIOUS
  <2>3. Rules!Replace(gone, {})
    BY <2>1, ReplaceAgrees
  <2> HIDE DEF gone
  <2>4. Rules!Purge(gone)
    BY <1>5, <2>2, <2>3 DEF Purge, Rules!Purge
  <2>5. QED
    BY <2>2, <2>4 DEF Rules!RulesNext
<1>6. QED
  BY <1>1, <1>2, <1>3, <1>4, <1>5 DEF AccountsNext

LEMMA StepImplements ==
    AccountsInv /\ [AccountsNext]_vars => [Rules!RulesNext]_(Rules!rulesVars)
<1> SUFFICES ASSUME AccountsInv, [AccountsNext]_vars
             PROVE  Rules!RulesNext \/ UNCHANGED Rules!rulesVars
  OBVIOUS
<1>1. CASE \E r \in Slots : AccountStep(r)
  <2>1. PICK r \in Slots : AccountStep(r)
    BY <1>1
  <2>2. CASE AcceptCommit(r)
    BY <2>2, AcceptImplements DEF Rules!RulesNext
  <2>3. CASE ReissueCommit(r)
    BY <2>3, ReissueImplements DEF Rules!RulesNext
  <2>4. CASE RevokeCommit(r)
    BY <2>4, RevokeImplements, Stutter DEF Rules!RulesNext
  <2>5. CASE UpdateCommit(r)
    BY <2>5, UpdateImplements DEF Rules!RulesNext
  <2>6. QED
    BY <2>1, <2>2, <2>3, <2>4, <2>5, ReadsStutter, Stutter
<1>2. CASE AccountsNext /\ ~(\E r \in Slots : AccountStep(r))
  BY <1>2, BesideImplements, Stutter
<1>3. CASE UNCHANGED vars
  BY <1>3, Stutter DEF vars, tables
<1>4. QED
  BY <1>1, <1>2, <1>3

\* The requests, as they interleave, implement the rules that each of them
\* would follow alone (api.py:803-868 and 916-1130).
THEOREM AccountsImplementRules == AccountsSpec => ImplementsRules
<1>1. AccountsInit => Rules!RulesInit
  BY InitImplements
<1>2. AccountsInv /\ [AccountsNext]_vars => [Rules!RulesNext]_(Rules!rulesVars)
  BY StepImplements
<1>3. QED
  BY <1>1, <1>2, AccountsInvariant, PTL DEF AccountsSpec, ImplementsRules, Rules!RulesSpec

-----------------------------------------------------------------------------
\* No rule gives a pending user without a row a password or another row.
LEMMA RuleLeadsNoWayBack ==
    ASSUME AccountsInv, Rules!RulesNext, NEW u \in known \ password, Rules!Rows(u) = {}
    PROVE  u \notin password' /\ \A i \in Rules!InvitationsOf(u) : invitation'[i] = "none"
<1>1. \A i \in Rules!InvitationsOf(u) : i \in Invitations /\ InviteeOf[i] = u /\ invitation[i] = "none"
  BY DEF Rules!Rows, Rules!InvitationsOf
<1>2. CASE \E v \in Users, i \in Invitations : Rules!Register(v, i) \/ Rules!Reissue(v, i)
  BY <1>1, <1>2 DEF Rules!Register, Rules!Reissue, Rules!Replace
<1>3. CASE \E v \in Users : Rules!RegisterOperator(v)
  BY <1>1, <1>3 DEF Rules!RegisterOperator
<1>4. CASE \E i \in Invitations : Rules!Accept(i) \/ Rules!Expire(i) \/ Rules!Revoke(i)
  <2>1. PICK i \in Invitations : Rules!Accept(i) \/ Rules!Expire(i) \/ Rules!Revoke(i)
    BY <1>4
  <2>2. InviteeOf[i] # u
    BY <2>1 DEF Rules!Accept, Rules!Expire, Rules!Revoke, Rules!Rows, Rules!InvitationsOf
  <2>3. u \notin password'
    BY <2>1, <2>2 DEF Rules!Accept, Rules!Expire, Rules!Revoke
  <2>4. \A j \in Rules!InvitationsOf(u) : invitation'[j] = invitation[j]
    BY <1>1, <2>1, <2>2 DEF Rules!Accept, Rules!Expire, Rules!Revoke, AccountsInv, TablesOK
  <2>5. QED
    BY <1>1, <2>3, <2>4
<1>5. CASE \E v \in Users, body \in Bodies : Rules!Update(v, body)
  BY <1>1, <1>5 DEF Rules!Update, Rules!Replace
<1>6. CASE \E gone \in SUBSET Invitations : Rules!Purge(gone)
  BY <1>1, <1>6 DEF Rules!Purge, Rules!Replace
<1>7. CASE Rules!Own
  BY <1>1, <1>7 DEF Rules!Own
<1>8. QED
  BY <1>2, <1>3, <1>4, <1>5, <1>6, <1>7 DEF Rules!RulesNext

\* A pending user whose invitation rows are gone is never invited again, by
\* no request, however late it comes (api.py:1044; the way back that the
\* documentation of reissue_invitation speaks of does not exist).
THEOREM NoWayBackForPending == AccountsSpec => Rules!NoWayBack
<1>1. AccountsInv /\ [Rules!RulesNext]_(Rules!rulesVars) =>
        [\A u \in known \ password : Rules!Rows(u) = {} =>
           u \notin password' /\ \A i \in Rules!InvitationsOf(u) : invitation'[i] = "none"]_(Rules!rulesVars)
  BY RuleLeadsNoWayBack
<1>2. QED
  BY <1>1, AccountsInvariant, AccountsImplementRules, PTL DEF ImplementsRules, Rules!RulesSpec, Rules!NoWayBack
=============================================================================
