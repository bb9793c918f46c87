-------------------------- MODULE DomainAdmin_proofs --------------------------
(***************************************************************************)
(* Requests on domains beside those on accounts: what a request believes   *)
(* of the domain, of its owner and of the user it is about is true when it *)
(* commits, as far as it locked the row it read it from.  Proved for every *)
(* number of users, domains and requests under way.                        *)
(***************************************************************************)
EXTENDS DomainAdmin, Accounts_proofs

-----------------------------------------------------------------------------
(* The inductive invariant.                                                *)

\* A registration exists, be it live or deleted.
Taken(d) == owner[d] # NoUser \/ d \in retired

\* The subject of a request on domains; nobody else knows of a registration
\* that is not inserted yet.
SubjectStage(r) ==
    request[r].op \in Gifts \cup Plain =>
      /\ request[r].item \in Domains /\ request[r].by \in known /\ request[r].user \in known
      /\ request[r].op # "create_domain" => Taken(request[r].item)
      /\ request[r].op = "create_domain" =>
           /\ ~Taken(request[r].item)
           /\ \A s \in Slots \ {r} :
                request[s].op \in Gifts \cup Plain => request[s].item # request[r].item

\* The rows such a request has locked; what it has found in them, and nobody
\* can change now.
GiftStage(r) ==
    request[r].op \in Gifts =>
      /\ request[r].body \subseteq Forms
      /\ \/ request[r].at = "user" /\ held[r] = {}
         \/ /\ request[r].at = "domain" /\ held[r] = {request[r].user}
            /\ request[r].user \in active \cap password
         \/ /\ request[r].at = "write" /\ held[r] = {request[r].user, request[r].item}
            /\ request[r].user \in active \cap password
            /\ owner[request[r].item] = request[r].by

PlainStage(r) ==
    request[r].op \in Plain =>
      /\ held[r] = {}
      /\ request[r].at \in {"insert", "domain", "delete", "resolve"}
      /\ request[r].op = "delete_grant" => request[r].body \subseteq Forms
      /\ request[r].op = "put_config" => request[r].body \in ConfigBodies

\* Only the request that saves a configuration has one loaded, and its row
\* is never deleted.
LoadedStage(r) ==
    loaded[r] # NoConfig =>
      /\ request[r].op = "put_config" /\ request[r].at # "resolve"
      /\ config[request[r].item] # NoConfig

DomainStage(r) == SubjectStage(r) /\ GiftStage(r) /\ PlainStage(r) /\ LoadedStage(r)

AdminTablesOK ==
    /\ retired \subseteq {d \in Domains : owner[d] = NoUser}
    /\ admins \subseteq (Domains \X known)
    /\ registered \subseteq {d \in Domains : owner[d] # NoUser} \cup retired
    /\ grants \subseteq (Domains \X password \X Forms)
    /\ config \in [Domains -> Configs \cup {NoConfig}]
    /\ loaded \in [Slots -> Configs \cup {NoConfig}]

DomainInv ==
    /\ AccountsInv /\ AdminTablesOK
    /\ \A r \in Slots : DomainStage(r)
-----------------------------------------------------------------------------
(* What a step leaves to the requests it is not a step of.                 *)

OnDomains == Gifts \cup Plain

\* Nobody but its own request changes a row that a request has locked, takes
\* a registration it inserts, frees one it found, or unsaves a configuration.
LEMMA DomainStageKept ==
    ASSUME NEW s \in Slots, DomainInv, AdminTablesOK',
           request'[s] = request[s], held'[s] = held[s], loaded'[s] = loaded[s],
           known \subseteq known',
           \A u \in held[s] : u \in active \cap password => u \in active' \cap password',
           \A d \in held[s] : d \in Domains => owner'[d] = owner[d],
           \A d \in Domains : Taken(d) => Taken(d)',
           request[s].op = "create_domain" => ~Taken(request[s].item)',
           request[s].op = "create_domain" =>
             \A t \in Slots \ {s} : request'[t].op \in OnDomains =>
               \/ request'[t].item # request[s].item
               \/ request[t].op \in OnDomains /\ request'[t].item = request[t].item,
           \A d \in Domains : config[d] # NoConfig => config'[d] # NoConfig
    PROVE  DomainStage(s)'
<1>1. SubjectStage(s) /\ GiftStage(s) /\ PlainStage(s) /\ LoadedStage(s)
  BY DEF DomainInv, DomainStage
<1>2. SubjectStage(s)'
  <2>1. CASE request[s].op = "create_domain"
    <3>1. /\ request[s].item \in Domains /\ request[s].by \in known /\ request[s].user \in known
          /\ \A t \in Slots \ {s} : request[t].op \in OnDomains => request[t].item # request[s].item
      BY <1>1, <2>1 DEF SubjectStage, Plain, OnDomains
    <3>2. \A t \in Slots \ {s} : request'[t].op \in OnDomains => request'[t].item # request[s].item
      BY <2>1, <3>1
    <3>3. QED
      BY <2>1, <3>1, <3>2 DEF SubjectStage, OnDomains
  <2>2. CASE request[s].op # "create_domain"
    BY <1>1, <2>2 DEF SubjectStage
  <2>3. QED
    BY <2>1, <2>2
<1>3. GiftStage(s)'
  <2>1. CASE request[s].op \in Gifts /\ request[s].at = "write"
    <3>1. request[s].item \in Domains /\ request[s].item \in held[s] /\ request[s].user \in held[s]
      BY <1>1, <2>1 DEF SubjectStage, GiftStage
    <3>2. QED
      BY <1>1, <2>1, <3>1 DEF GiftStage
  <2>2. CASE request[s].op \in Gifts /\ request[s].at # "write"
    BY <1>1, <2>2 DEF GiftStage
  <2>3. CASE request[s].op \notin Gifts
    BY <2>3 DEF GiftStage
  <2>4. QED
    BY <2>1, <2>2, <2>3
<1>4. PlainStage(s)'
  BY <1>1 DEF PlainStage
<1>5. LoadedStage(s)'
  <2>1. loaded[s] # NoConfig => request[s].item \in Domains
    BY <1>1 DEF LoadedStage, SubjectStage, Plain
  <2>2. QED
    BY <1>1, <2>1 DEF LoadedStage
<1>6. QED
  BY <1>2, <1>3, <1>4, <1>5 DEF DomainStage

\* A slot without a request on domains.
LEMMA NoDomainStage ==
    ASSUME NEW r \in Slots, request'[r].op \notin OnDomains, loaded'[r] = NoConfig
    PROVE  DomainStage(r)'
BY DEF OnDomains, DomainStage, SubjectStage, GiftStage, PlainStage, LoadedStage

LEMMA NoAccountStage ==
    ASSUME NEW r \in Slots, request'[r].op \in OnDomains
    PROVE  Stage(r)'
BY DEF OnDomains, Gifts, Plain, Stage, InvitationStage, UpdateStage, OtherStage

LEMMA IdleOp == Idle.op = "none" /\ "none" \notin OnDomains
BY DEF Idle, Request, OnDomains, Gifts, Plain

-----------------------------------------------------------------------------
(* The requests on domains begin, lock, and are refused.                   *)

\* A request begins with what it has read: the subject is there, or nobody
\* else is about to insert it.
LEMMA BeginOnInv ==
    ASSUME NEW r \in Slots, NEW q \in Requests, NEW c \in Configs \cup {NoConfig},
           DomainInv, Begin(r, q), q.op \in OnDomains, q.seen = {},
           q.item \in Domains, q.by \in known, q.user \in known,
           q.op # "create_domain" => Taken(q.item),
           q.op = "create_domain" => ~Taken(q.item) /\ \A s \in Slots : request[s].item # q.item,
           q.op \in Gifts => q.at = "user" /\ q.body \subseteq Forms,
           q.op \in Plain => q.at \in {"insert", "domain", "delete", "resolve"},
           q.op = "delete_grant" => q.body \subseteq Forms,
           q.op = "put_config" => q.body \in ConfigBodies,
           c # NoConfig => q.op = "put_config" /\ q.at # "resolve" /\ config[q.item] # NoConfig,
           loaded' = [loaded EXCEPT ![r] = c],
           UNCHANGED <<retired, admins, registered, grants, config>>
    PROVE  DomainInv'
<1>1. /\ request[r] = Idle /\ held[r] = {} /\ request'[r] = q /\ loaded'[r] = c
      /\ UNCHANGED <<known, active, password, owner, held>>
      /\ \A s \in Slots \ {r} : request'[s] = request[s] /\ loaded'[s] = loaded[s]
  BY DEF Begin, tables, accounts, DomainInv, AdminTablesOK, AccountsInv, LocksOK
<1>2. AccountsInv'
  <2>1. Stage(r)'
    BY <1>1, NoAccountStage
  <2>2. QED
    BY <1>1, <2>1, BeginInv DEF DomainInv, Begin
<1>3. AdminTablesOK'
  BY <1>1 DEF DomainInv, AdminTablesOK
<1>4. \A d : Taken(d)' <=> Taken(d)
  BY <1>1 DEF Taken
<1>5. ASSUME NEW s \in Slots, s # r PROVE DomainStage(s)'
  <2>1. request[s].op = "create_domain" => ~Taken(request[s].item)
    BY DEF DomainInv, DomainStage, SubjectStage, Plain
  <2>2. request[s].op = "create_domain" => q.item # request[s].item
    BY <2>1
  <2>3. QED
    BY <1>1, <1>3, <1>4, <1>5, <2>1, <2>2, DomainStageKept
<1>6. DomainStage(r)'
  <2>1. SubjectStage(r)'
    BY <1>1, <1>4 DEF SubjectStage
  <2>2. GiftStage(r)' /\ PlainStage(r)' /\ LoadedStage(r)'
    BY <1>1 DEF GiftStage, PlainStage, LoadedStage
  <2>3. QED
    BY <2>1, <2>2 DEF DomainStage
<1>7. QED
  BY <1>2, <1>3, <1>5, <1>6 DEF DomainInv

\* A refused request had loaded nothing and leaves nothing.
LEMMA RejectInv ==
    ASSUME NEW r \in Slots, DomainInv, Reject(r), loaded[r] = NoConfig
    PROVE  DomainInv'
<1>1. /\ request'[r] = Idle /\ UNCHANGED <<tables, adminVars>> /\ Refuse(r)
      /\ \A s \in Slots \ {r} : request'[s] = request[s] /\ held'[s] = held[s]
  BY DEF Reject, Refuse, Release, DomainInv, AccountsInv, LocksOK
<1>2. UNCHANGED <<known, active, password, owner, retired, admins, registered, grants, config, loaded>>
  BY <1>1 DEF tables, accounts, adminVars
<1>3. AccountsInv'
  BY <1>1, RefuseInv DEF DomainInv
<1>4. AdminTablesOK'
  BY <1>2 DEF DomainInv, AdminTablesOK
<1>5. ASSUME NEW s \in Slots, s # r PROVE DomainStage(s)'
  <2>1. request[s].op = "create_domain" => ~Taken(request[s].item)
    BY DEF DomainInv, DomainStage, SubjectStage, Plain
  <2>2. QED
    BY <1>1, <1>2, <1>4, <1>5, <2>1, IdleOp, DomainStageKept DEF Taken
<1>6. DomainStage(r)'
  BY <1>1, <1>2, IdleOp, NoDomainStage
<1>7. QED
  BY <1>3, <1>4, <1>5, <1>6 DEF DomainInv
\* A request locks a row that nobody else has locked.
LEMMA GiftLockInv ==
    ASSUME NEW r \in Slots, NEW at \in Stages, NEW row \in Lockable, DomainInv,
           request[r].op \in Gifts, Advance(r, at, {row}), Free(r, row),
           UNCHANGED <<tables, adminVars>>, GiftStage(r)'
    PROVE  DomainInv'
<1>1. /\ request'[r].op = request[r].op /\ request'[r].by = request[r].by
      /\ request'[r].user = request[r].user /\ request'[r].item = request[r].item
      /\ \A s \in Slots \ {r} : request'[s] = request[s] /\ held'[s] = held[s]
  BY Advanced DEF Advance, DomainInv, AccountsInv, LocksOK
<1>2. UNCHANGED <<known, active, password, owner, retired, admins, registered, grants, config, loaded>>
  BY DEF tables, accounts, adminVars
<1>3. request[r].op \in OnDomains /\ request[r].op # "none" /\ request[r].op # "create_domain"
  BY DEF OnDomains, Gifts
<1>4. AccountsInv'
  <2>1. Stage(r)'
    BY <1>1, <1>3, NoAccountStage
  <2>2. QED
    BY <1>3, <2>1, AdvanceInv DEF DomainInv
<1>5. AdminTablesOK'
  BY <1>2 DEF DomainInv, AdminTablesOK
<1>6. ASSUME NEW s \in Slots, s # r PROVE DomainStage(s)'
  <2>1. request[s].op = "create_domain" => ~Taken(request[s].item)
    BY DEF DomainInv, DomainStage, SubjectStage, Plain
  <2>2. QED
    BY <1>1, <1>2, <1>3, <1>5, <1>6, <2>1, DomainStageKept DEF Taken
<1>7. DomainStage(r)'
  <2>1. SubjectStage(r) /\ loaded[r] = NoConfig /\ request[r].op \notin Plain
    BY DEF DomainInv, DomainStage, LoadedStage, Gifts, Plain
  <2>2. SubjectStage(r)'
    BY <1>1, <1>2, <1>3, <2>1 DEF SubjectStage, Taken
  <2>3. PlainStage(r)' /\ LoadedStage(r)'
    BY <1>1, <1>2, <2>1 DEF PlainStage, LoadedStage
  <2>4. QED
    BY <2>2, <2>3 DEF DomainStage
<1>8. QED
  BY <1>4, <1>5, <1>6, <1>7 DEF DomainInv

\* A commit takes no registration but the one its request inserts, frees
\* none, gives none to a user whose row somebody else has locked, and leaves
\* those alone that somebody else has locked.
LEMMA EndInv ==
    ASSUME NEW r \in Slots, DomainInv, Release(r), request[r].op \in OnDomains,
           UNCHANGED <<accounts, sessions>>,
           owner' \in [Domains -> known \cup {NoUser}],
           \A d \in Domains : owner'[d] \in {owner[d], NoUser} \/ Free(r, owner'[d]),
           \A d \in Domains : owner'[d] # owner[d] => Free(r, d),
           \A d \in Domains : Taken(d) => Taken(d)',
           \A d \in Domains : ~Taken(d) /\ Taken(d)' =>
             request[r].op = "create_domain" /\ d = request[r].item,
           \A d \in Domains : config[d] # NoConfig => config'[d] # NoConfig,
           loaded'[r] = NoConfig, \A s \in Slots \ {r} : loaded'[s] = loaded[s],
           AdminTablesOK'
    PROVE  DomainInv'
<1>1. /\ request'[r] = Idle
      /\ \A s \in Slots \ {r} : request'[s] = request[s] /\ held'[s] = held[s]
  BY DEF Release, DomainInv, AccountsInv, LocksOK
<1>2. UNCHANGED <<known, active, operator, password, invitation, sessions>>
  BY DEF accounts
<1>3. AccountsInv'
  <2>1. TablesOK' /\ SingleRows' /\ (active \cap operator # {})'
    BY <1>2 DEF DomainInv, AccountsInv, TablesOK, SingleRows, Exists
  <2>2. QED
    BY <1>2, <2>1, CommitInv DEF DomainInv
<1>4. ASSUME NEW s \in Slots, s # r PROVE DomainStage(s)'
  <2>1. request[s].op = "create_domain" => ~Taken(request[s].item) /\ request[s].item \in Domains
    BY DEF DomainInv, DomainStage, SubjectStage, Plain
  <2>2. request[s].op = "create_domain" => request[s].item # request[r].item
    <3>1. SubjectStage(s) /\ r \in Slots \ {s}
      BY <1>4 DEF DomainInv, DomainStage
    <3>2. request[s].op = "create_domain" =>
            \A t \in Slots \ {s} : request[t].op \in OnDomains => request[t].item # request[s].item
      BY <3>1 DEF SubjectStage, Plain, OnDomains
    <3>3. QED
      BY <3>1, <3>2
  <2>3. request[s].op = "create_domain" => ~Taken(request[s].item)'
    BY <1>1, <1>4, <2>1, <2>2
  <2>4. \A d \in held[s] : d \in Domains => owner'[d] = owner[d]
    BY <1>4 DEF Free
  <2>5. \A t \in Slots \ {s} : request'[t].op \in OnDomains => request'[t] = request[t]
    BY <1>1, IdleOp
  <2>6. QED
    BY <1>1, <1>2, <1>4, <2>3, <2>4, <2>5, DomainStageKept
<1>5. DomainStage(r)'
  BY <1>1, IdleOp, NoDomainStage
<1>6. QED
  BY <1>3, <1>4, <1>5 DEF DomainInv

\* Only the request that saves a configuration has one loaded.
LEMMA NothingLoaded ==
    ASSUME NEW r \in Slots, DomainInv, request[r].op # "put_config" PROVE loaded[r] = NoConfig
BY DEF DomainInv, DomainStage, LoadedStage

-----------------------------------------------------------------------------
(* The requests on accounts beside them.                                   *)


\* A step of a request on accounts is no step of one on domains, save that
\* any request can be rolled back.
LEMMA OtherSlots ==
    ASSUME AccountsInv, NEW r \in Slots, AccountStep(r), NEW s \in Slots, request[s].op \in OnDomains
    PROVE  /\ request'[s] = Idle \/ (request'[s] = request[s] /\ held'[s] = held[s])
           /\ request'[s] = request[s] => s # r
<1>1. CASE s = r
  <2>1. request[r] # Idle /\ request[r].op \notin AccountOperation
    BY <1>1, IdleOp DEF OnDomains, Gifts, Plain, AccountOperation
  <2>2. Abort(r)
    BY <2>1 DEF AccountStep, LoginVerify, AcceptBegin, ReissueBegin, RevokeBegin, UpdateBegin, Begin,
       LoginCommit, AcceptLockUser, AcceptLockInvitation, AcceptCommit, ReissueLockUser,
       ReissueLockInvitation, ReissueCommit, RevokeCommit, UpdateScan, UpdateLockCaller,
       UpdateLockTarget, UpdateCheckOwned, UpdateCommit, At, AccountOperation
  <2>3. QED
    BY <1>1, <2>1, <2>2 DEF Abort, Refuse, Release, AccountsInv
<1>2. CASE s # r
  <2>1. ASSUME NEW q, NEW rows, request' = [request EXCEPT ![r] = q], held' = [held EXCEPT ![r] = rows]
        PROVE  request'[s] = request[s] /\ held'[s] = held[s]
    BY <1>2, <2>1 DEF AccountsInv, LocksOK
  <2>2. (\E q : Begin(r, q)) => request'[s] = request[s] /\ held'[s] = held[s]
    BY <1>2 DEF Begin
  <2>3. (\E at, rows : Advance(r, at, rows)) => request'[s] = request[s] /\ held'[s] = held[s]
    BY <1>2 DEF Advance, AccountsInv, LocksOK
  <2>4. Release(r) => request'[s] = request[s] /\ held'[s] = held[s]
    BY <1>2 DEF Release, AccountsInv, LocksOK
  <2>5. UpdateScan(r) => request'[s] = request[s] /\ held'[s] = held[s]
    BY <1>2 DEF UpdateScan, AccountsInv, LocksOK
  <2>6. \/ \E q : Begin(r, q)
        \/ \E at, rows : Advance(r, at, rows)
        \/ Release(r)
        \/ UpdateScan(r)
    BY DEF AccountStep, LoginVerify, AcceptBegin, ReissueBegin, RevokeBegin, UpdateBegin,
       LoginCommit, AcceptLockUser, AcceptLockInvitation, AcceptCommit, ReissueLockUser,
       ReissueLockInvitation, ReissueCommit, RevokeCommit, UpdateLockCaller,
       UpdateLockTarget, UpdateCheckOwned, UpdateCommit, Abort, Refuse
  <2>7. QED
    BY <1>2, <2>2, <2>3, <2>4, <2>5, <2>6
<1>3. QED
  BY <1>1, <1>2

\* Requests on accounts change no domain, take nobody's password, and disable
\* no user whose row a request on domains has locked.
LEMMA AccountsFrame ==
    ASSUME AccountsInv, AccountsNext
    PROVE  /\ owner' = owner /\ known \subseteq known' /\ password \subseteq password'
           /\ \A s \in Slots : request[s].op \in OnDomains =>
                \/ request'[s] = Idle
                \/ /\ request'[s] = request[s] /\ held'[s] = held[s]
                   /\ \A u \in held[s] : u \in active => u \in active'
<1>1. CASE \E r \in Slots : AccountStep(r)
  <2>1. PICK r \in Slots : AccountStep(r)
    BY <1>1
  <2>2. /\ owner' = owner /\ known \subseteq known' /\ password \subseteq password'
        /\ active \subseteq active' \/ UpdateCommit(r)
    BY <2>1 DEF AccountStep, LoginVerify, AcceptBegin, ReissueBegin, RevokeBegin, UpdateBegin, Begin,
       LoginCommit, AcceptLockUser, AcceptLockInvitation, AcceptCommit, ReissueLockUser,
       ReissueLockInvitation, ReissueCommit, RevokeCommit, UpdateScan, UpdateLockCaller,
       UpdateLockTarget, UpdateCheckOwned, UpdateCommit, Abort, Refuse, tables, accounts
  <2>3. ASSUME NEW s \in Slots, s # r, UpdateCommit(r)
        PROVE  \A u \in held[s] : u \in active => u \in active'
    <3>1. request[r].user \in held[r]
      BY <2>3, AtWrite DEF UpdateCommit
    <3>2. request[r].user \notin held[s]
      BY <2>3, <3>1 DEF AccountsInv, LocksOK
    <3>3. active \ {request[r].user} \subseteq active'
      BY <2>3 DEF UpdateCommit
    <3>4. QED
      BY <3>2, <3>3
  <2>4. QED
    BY <2>1, <2>2, <2>3, OtherSlots
<1>2. CASE ~ \E r \in Slots : AccountStep(r)
  BY <1>2 DEF AccountsNext, Logout, CreateUser, CreateOperator, ExpireInvitation, Purge, accounts
<1>3. QED
  BY <1>1, <1>2

LEMMA BesideDomainsInv == ASSUME DomainInv, AccountsBeside PROVE DomainInv'
<1>1. /\ AccountsInv' /\ AccountsNext /\ AccountsInv
      /\ UNCHANGED <<retired, admins, registered, grants, config>>
      /\ loaded' = [r \in Slots |-> IF request'[r] = Idle THEN NoConfig ELSE loaded[r]]
  BY AccountsStepInv DEF AccountsBeside, DomainInv
<1>2. /\ owner' = owner /\ known \subseteq known' /\ password \subseteq password'
      /\ \A s \in Slots : request[s].op \in OnDomains =>
           \/ request'[s] = Idle
           \/ /\ request'[s] = request[s] /\ held'[s] = held[s]
              /\ \A u \in held[s] : u \in active => u \in active'
  BY <1>1, AccountsFrame
<1>3. AdminTablesOK'
  BY <1>1, <1>2 DEF DomainInv, AdminTablesOK
<1>4. \A s \in Slots : \/ request'[s] \in {request[s], Idle}
                       \/ /\ request[s].op \in AccountOperation
                          /\ request'[s].op \in AccountOperation
  BY <1>1, AccountRequests DEF AccountsInv
<1>5. AccountOperation \cap OnDomains = {} /\ Idle.op = "none" /\ "put_config" \in OnDomains
  BY IdleOp DEF AccountOperation, OnDomains, Gifts, Plain
<1>6. \A t \in Slots : request'[t].op \in OnDomains => request'[t] = request[t]
  BY <1>4, <1>5, IdleOp
<1>7. ASSUME NEW s \in Slots PROVE DomainStage(s)'
  <2>1. CASE request'[s].op \notin OnDomains
    <3>1. loaded'[s] = NoConfig
      <4>1. CASE request'[s] = Idle
        BY <1>1, <4>1
      <4>2. CASE request'[s] # Idle
        <5>1. request[s].op \notin OnDomains
          BY <1>4, <1>5, <2>1, <4>2
        <5>2. loaded[s] = NoConfig
          BY <1>5, <5>1, NothingLoaded
        <5>3. QED
          BY <1>1, <4>2, <5>2
      <4>3. QED
        BY <4>1, <4>2
    <3>2. QED
      BY <2>1, <3>1, NoDomainStage
  <2>2. CASE request'[s].op \in OnDomains
    <3>1. /\ request'[s] = request[s] /\ request[s].op \in OnDomains /\ request'[s] # Idle
          /\ held'[s] = held[s] /\ \A u \in held[s] : u \in active => u \in active'
      BY <1>2, <1>6, <2>2, IdleOp
    <3>2. loaded'[s] = loaded[s]
      BY <1>1, <3>1
    <3>3. request[s].op = "create_domain" => ~Taken(request[s].item)'
      <4>1. request[s].op = "create_domain" => ~Taken(request[s].item)
        BY DEF DomainInv, DomainStage, SubjectStage, Plain
      <4>2. QED
        BY <1>1, <1>2, <3>1, <4>1 DEF Taken
    <3>4. QED
      BY <1>1, <1>2, <1>3, <1>6, <3>1, <3>2, <3>3, DomainStageKept DEF Taken
  <2>3. QED
    BY <2>1, <2>2
<1>8. QED
  BY <1>1, <1>3, <1>7 DEF DomainInv
-----------------------------------------------------------------------------
(* The requests on domains, one by one.                                    *)

\* A request without a body begins on a live domain, or on a registration
\* that nobody knows of.
LEMMA BeginInvOn ==
    ASSUME NEW r \in Slots, DomainInv, NEW op \in OnDomains \ {"put_config"}, NEW at \in Stages,
           NEW by \in known, NEW u \in known, NEW d \in Domains,
           BeginOn(r, op, at, by, u, d),
           op # "create_domain" => owner[d] # NoUser,
           op = "create_domain" => ~Taken(d) /\ \A s \in Slots : request[s].item # d,
           op \in Gifts => at = "user",
           op \in Plain => at \in {"insert", "domain", "delete"}
    PROVE  DomainInv'
<1> DEFINE q == Request(op, at, by, u, d, {})
<1>1. /\ q \in Requests /\ q.op = op /\ q.at = at /\ q.by = by /\ q.user = u /\ q.item = d
      /\ q.body = {} /\ q.seen = {}
  BY DEF Request, Requests, OnDomains, DomainInv, AccountsInv, TablesOK
<1>2. Begin(r, q) /\ UNCHANGED <<retired, admins, registered, grants, config, loaded>>
  BY DEF BeginOn, adminVars
<1>3. loaded[r] = NoConfig
  BY <1>2, IdleOp, NothingLoaded DEF Begin
<1>4. loaded' = [loaded EXCEPT ![r] = NoConfig]
  BY <1>2, <1>3 DEF DomainInv, AdminTablesOK
<1> HIDE DEF q
<1>5. q.op # "create_domain" => Taken(q.item)
  BY <1>1 DEF Taken
<1>6. QED
  BY <1>1, <1>2, <1>4, <1>5, BeginOnInv

LEMMA BeginsInv ==
    ASSUME NEW r \in Slots, DomainInv, NEW by \in known, NEW u \in known, NEW d \in Domains,
           \/ CreateDomainBegin(r, by, d) \/ DeleteDomainBegin(r, by, d)
           \/ CreateAddressBegin(r, by, d) \/ DeleteAddressBegin(r, by, d)
           \/ TransferBegin(r, by, u, d) \/ AddAdminBegin(r, by, u, d) \/ RemoveAdminBegin(r, by, u, d)
    PROVE  DomainInv'
<1>1. by # NoUser
  BY AccountsAssumption DEF DomainInv, AccountsInv, TablesOK
<1>2. /\ OnDomains \ {"put_config"} = (Gifts \cup Plain) \ {"put_config"}
      /\ Gifts \cap Plain = {}
  BY DEF OnDomains, Gifts, Plain
<1>3. CASE CreateDomainBegin(r, by, d)
  <2>1. BeginOn(r, "create_domain", "insert", by, by, d) /\ ~Taken(d) /\ \A s \in Slots : request[s].item # d
    BY <1>3 DEF CreateDomainBegin, Taken
  <2>2. "create_domain" \in OnDomains \ {"put_config"} /\ "create_domain" \notin Gifts /\ "insert" \in Stages
    BY DEF OnDomains, Gifts, Plain, Stages
  <2>3. QED
    BY <2>1, <2>2, BeginInvOn
<1>4. CASE DeleteDomainBegin(r, by, d)
  <2>1. BeginOn(r, "delete_domain", "domain", by, by, d) /\ owner[d] # NoUser
    BY <1>1, <1>4 DEF DeleteDomainBegin, Owns
  <2>2. "delete_domain" \in OnDomains \ {"put_config"} /\ "delete_domain" \notin Gifts /\ "domain" \in Stages
    BY DEF OnDomains, Gifts, Plain, Stages
  <2>3. QED
    BY <2>1, <2>2, BeginInvOn
<1>5. CASE CreateAddressBegin(r, by, d)
  <2>1. BeginOn(r, "create_address", "domain", by, by, d) /\ owner[d] # NoUser
    BY <1>1, <1>5 DEF CreateAddressBegin, Manages
  <2>2. "create_address" \in OnDomains \ {"put_config"} /\ "create_address" \notin Gifts /\ "domain" \in Stages
    BY DEF OnDomains, Gifts, Plain, Stages
  <2>3. QED
    BY <2>1, <2>2, BeginInvOn
<1>6. CASE DeleteAddressBegin(r, by, d)
  <2>1. BeginOn(r, "delete_address", "delete", by, by, d) /\ owner[d] # NoUser
    BY <1>1, <1>6 DEF DeleteAddressBegin, Manages
  <2>2. "delete_address" \in OnDomains \ {"put_config"} /\ "delete_address" \notin Gifts /\ "delete" \in Stages
    BY DEF OnDomains, Gifts, Plain, Stages
  <2>3. QED
    BY <2>1, <2>2, BeginInvOn
<1>7. CASE TransferBegin(r, by, u, d)
  <2>1. BeginOn(r, "transfer", "user", by, u, d) /\ owner[d] # NoUser
    BY <1>1, <1>7 DEF TransferBegin, Owns
  <2>2. "transfer" \in OnDomains \ {"put_config"} /\ "transfer" \in Gifts /\ "user" \in Stages
    BY DEF OnDomains, Gifts, Plain, Stages
  <2>3. QED
    BY <1>2, <2>1, <2>2, BeginInvOn
<1>8. CASE AddAdminBegin(r, by, u, d)
  <2>1. BeginOn(r, "add_admin", "user", by, u, d) /\ owner[d] # NoUser
    BY <1>1, <1>8 DEF AddAdminBegin, Owns
  <2>2. "add_admin" \in OnDomains \ {"put_config"} /\ "add_admin" \in Gifts /\ "user" \in Stages
    BY DEF OnDomains, Gifts, Plain, Stages
  <2>3. QED
    BY <1>2, <2>1, <2>2, BeginInvOn
<1>9. CASE RemoveAdminBegin(r, by, u, d)
  <2>1. BeginOn(r, "remove_admin", "delete", by, u, d) /\ owner[d] # NoUser
    BY <1>1, <1>9 DEF RemoveAdminBegin, Owns
  <2>2. "remove_admin" \in OnDomains \ {"put_config"} /\ "remove_admin" \notin Gifts /\ "delete" \in Stages
    BY DEF OnDomains, Gifts, Plain, Stages
  <2>3. QED
    BY <2>1, <2>2, BeginInvOn
<1>10. QED
  BY <1>3, <1>4, <1>5, <1>6, <1>7, <1>8, <1>9

LEMMA GrantBeginsInv ==
    ASSUME NEW r \in Slots, DomainInv, NEW by \in known, NEW u \in known, NEW d \in Domains, NEW form \in Forms,
           CreateGrantBegin(r, by, u, d, form) \/ DeleteGrantBegin(r, by, u, d, form)
    PROVE  DomainInv'
<1>1. by # NoUser
  BY AccountsAssumption DEF DomainInv, AccountsInv, TablesOK
<1>2. PICK q \in Requests :
        /\ \/ q.op = "create_grant" /\ q.at = "user"
           \/ q.op = "delete_grant" /\ q.at = "delete"
        /\ q.by = by /\ q.user = u /\ q.item = d /\ q.body = {form} /\ q.seen = {}
        /\ Begin(r, q) /\ owner[d] # NoUser
        /\ UNCHANGED <<retired, admins, registered, grants, config, loaded>>
  <2>1. u \in Users /\ by \in Users /\ {form} \in SUBSET Words
    BY DEF DomainInv, AccountsInv, TablesOK, Forms, Words
  <2>2. CASE CreateGrantBegin(r, by, u, d, form)
    <3> DEFINE q == Request("create_grant", "user", by, u, d, {form})
    <3>1. /\ q \in Requests /\ q.op = "create_grant" /\ q.at = "user" /\ q.seen = {}
          /\ q.by = by /\ q.user = u /\ q.item = d /\ q.body = {form}
      BY <2>1 DEF Request, Requests, Gifts, Stages
    <3>2. /\ Begin(r, q) /\ owner[d] # NoUser
          /\ UNCHANGED <<retired, admins, registered, grants, config, loaded>>
      BY <1>1, <2>2 DEF CreateGrantBegin, Manages, adminVars
    <3> HIDE DEF q
    <3>3. QED
      BY <3>1, <3>2
  <2>3. CASE DeleteGrantBegin(r, by, u, d, form)
    <3> DEFINE q == Request("delete_grant", "delete", by, u, d, {form})
    <3>1. /\ q \in Requests /\ q.op = "delete_grant" /\ q.at = "delete" /\ q.seen = {}
          /\ q.by = by /\ q.user = u /\ q.item = d /\ q.body = {form}
      BY <2>1 DEF Request, Requests, Plain, Stages
    <3>2. /\ Begin(r, q) /\ owner[d] # NoUser
          /\ UNCHANGED <<retired, admins, registered, grants, config, loaded>>
      BY <1>1, <2>3 DEF DeleteGrantBegin, Manages, adminVars
    <3> HIDE DEF q
    <3>3. QED
      BY <3>1, <3>2
  <2>4. QED
    BY <2>2, <2>3
<1>3. loaded' = [loaded EXCEPT ![r] = NoConfig]
  <2>1. loaded[r] = NoConfig
    BY <1>2, IdleOp, NothingLoaded DEF Begin
  <2>2. QED
    BY <1>2, <2>1 DEF DomainInv, AdminTablesOK
<1>4. /\ q.op \in OnDomains /\ q.op \notin {"create_domain", "put_config"}
      /\ q.op \in Gifts => q.op = "create_grant"
      /\ q.op \in Plain => q.op = "delete_grant"
      /\ Taken(q.item) /\ q.body \subseteq Forms
  BY <1>2 DEF OnDomains, Gifts, Plain, Taken
<1>5. QED
  BY <1>2, <1>3, <1>4, BeginOnInv

LEMMA PutConfigBeginInv ==
    ASSUME NEW r \in Slots, DomainInv, NEW by \in known, NEW d \in Domains, NEW body \in ConfigBodies,
           PutConfigBegin(r, by, d, body)
    PROVE  DomainInv'
<1> DEFINE q == Request("put_config", "resolve", by, by, d, body)
<1>1. by \in Users /\ by # NoUser
  BY AccountsAssumption DEF DomainInv, AccountsInv, TablesOK
<1>2. /\ q \in Requests /\ q.op = "put_config" /\ q.at = "resolve" /\ q.seen = {}
      /\ q.by = by /\ q.user = by /\ q.item = d /\ q.body = body
  <2>1. body \in SUBSET Words
    BY DEF ConfigBodies, Words
  <2>2. QED
    BY <1>1, <2>1 DEF Request, Requests, Plain, Stages
<1>3. /\ Begin(r, q) /\ owner[d] # NoUser
      /\ UNCHANGED <<retired, admins, registered, grants, config, loaded>>
  BY <1>1 DEF PutConfigBegin, Owns, adminVars
<1> HIDE DEF q
<1>4. loaded' = [loaded EXCEPT ![r] = NoConfig]
  <2>1. loaded[r] = NoConfig
    BY <1>3, IdleOp, NothingLoaded DEF Begin
  <2>2. QED
    BY <1>3, <2>1 DEF DomainInv, AdminTablesOK
<1>5. q.op \in OnDomains /\ q.op \in Plain /\ q.op \notin Gifts /\ Taken(q.item)
  BY <1>2, <1>3 DEF OnDomains, Gifts, Plain, Taken
<1>6. QED
  BY <1>2, <1>3, <1>4, <1>5, BeginOnInv

\* The row loaded is one that is never deleted; a request refused had none.
LEMMA PutConfigLoadInv ==
    ASSUME NEW r \in Slots, DomainInv, PutConfigLoad(r) PROVE DomainInv'
<1> DEFINE d == request[r].item
<1>1. /\ request[r].op = "put_config" /\ request[r].op \in OnDomains /\ request[r].op \in Plain
      /\ request[r].at = "resolve" /\ request[r].op \notin Gifts
      /\ request[r].op # "none" /\ request[r].op # "create_domain"
  BY DEF PutConfigLoad, At, OnDomains, Plain, Gifts
<1>2. /\ SubjectStage(r) /\ PlainStage(r) /\ d \in Domains /\ loaded[r] = NoConfig
      /\ config[d] \in Configs \cup {NoConfig} /\ AdminTablesOK
  BY <1>1 DEF DomainInv, DomainStage, SubjectStage, LoadedStage, AdminTablesOK
<1>3. CASE Reject(r)
  BY <1>1, <1>2, <1>3, RejectInv
<1>4. CASE /\ Advance(r, "domain", {})
           /\ loaded' = [loaded EXCEPT ![r] = config[d]]
           /\ UNCHANGED <<tables, retired, admins, registered, grants, config>>
  <2>1. /\ request'[r].op = request[r].op /\ request'[r].at = "domain" /\ held'[r] = held[r]
        /\ request'[r].by = request[r].by /\ request'[r].user = request[r].user
        /\ request'[r].item = d /\ request'[r].body = request[r].body
    <3>1. AccountsInv /\ Advance(r, "domain", {})
      BY <1>4 DEF DomainInv
    <3>2. held[r] \cup {} = held[r]
      OBVIOUS
    <3>3. QED
      BY <3>1, <3>2, Advanced
  <2>2. /\ \A s \in Slots \ {r} : request'[s] = request[s] /\ held'[s] = held[s]
        /\ \A s \in Slots \ {r} : loaded'[s] = loaded[s]
        /\ loaded'[r] = config[d] /\ loaded' \in [Slots -> Configs \cup {NoConfig}]
    BY <1>2, <1>4 DEF Advance, DomainInv, AccountsInv, LocksOK, AdminTablesOK
  <2>3. UNCHANGED <<known, active, password, owner, retired, admins, registered, grants, config>>
    BY <1>4 DEF tables, accounts
  <2>4. AccountsInv'
    <3>1. Stage(r)'
      BY <1>1, <2>1, NoAccountStage
    <3>2. {} \in SUBSET Lockable /\ "domain" \in Stages
      BY DEF Stages
    <3>3. QED
      BY <1>1, <1>4, <3>1, <3>2, AdvanceInv DEF DomainInv
  <2>5. AdminTablesOK'
    BY <1>2, <2>2, <2>3 DEF AdminTablesOK
  <2>6. ASSUME NEW s \in Slots, s # r PROVE DomainStage(s)'
    <3>1. request[s].op = "create_domain" => ~Taken(request[s].item)
      BY DEF DomainInv, DomainStage, SubjectStage, Plain
    <3>2. QED
      BY <1>1, <2>1, <2>2, <2>3, <2>5, <2>6, <3>1, DomainStageKept DEF Taken
  <2>7. DomainStage(r)'
    <3>1. SubjectStage(r)'
      BY <1>1, <1>2, <2>1, <2>2, <2>3 DEF SubjectStage, Taken
    <3>2. GiftStage(r)' /\ PlainStage(r)' /\ LoadedStage(r)'
      BY <1>1, <1>2, <2>1, <2>2, <2>3 DEF GiftStage, PlainStage, LoadedStage
    <3>3. QED
      BY <3>1, <3>2 DEF DomainStage
  <2>8. QED
    BY <2>4, <2>5, <2>6, <2>7 DEF DomainInv
<1>5. QED
  BY <1>3, <1>4 DEF PutConfigLoad

\* The new user is active when the row is locked, and until it is unlocked.
LEMMA LockUsersInv ==
    ASSUME NEW r \in Slots, DomainInv, TransferLockUser(r) \/ AddAdminLockUser(r) \/ CreateGrantLockUser(r)
    PROVE  DomainInv'
<1> DEFINE u == request[r].user
<1>1. /\ request[r].op \in Gifts /\ request[r].at = "user"
      /\ \E allowed : FindActiveUser(r, "domain", allowed)
  BY DEF TransferLockUser, AddAdminLockUser, CreateGrantLockUser, At, Gifts
<1>2. CASE Reject(r)
  <2>1. loaded[r] = NoConfig
    BY <1>1, NothingLoaded DEF Gifts
  <2>2. QED
    BY <1>2, <2>1, RejectInv
<1>3. CASE /\ Free(r, u) /\ u \in active \cap password
           /\ Advance(r, "domain", {u}) /\ UNCHANGED <<tables, adminVars>>
  <2>1. /\ request'[r].op = request[r].op /\ request'[r].at = "domain" /\ request'[r].user = u
        /\ request'[r].body = request[r].body /\ held'[r] = held[r] \cup {u}
    BY <1>3, Advanced DEF DomainInv
  <2>2. held[r] = {} /\ request[r].body \subseteq Forms
    BY <1>1 DEF DomainInv, DomainStage, GiftStage
  <2>3. GiftStage(r)'
    BY <1>3, <2>1, <2>2 DEF GiftStage, tables, accounts
  <2>4. u \in Lockable /\ "domain" \in Stages
    BY <1>3 DEF DomainInv, AccountsInv, TablesOK, Lockable, Stages
  <2>5. QED
    BY <1>1, <1>3, <2>3, <2>4, GiftLockInv
<1>4. QED
  BY <1>1, <1>2, <1>3 DEF FindActiveUser

\* The caller owns the domain when the row is locked, and until it is unlocked.
LEMMA TransferLockDomainInv ==
    ASSUME NEW r \in Slots, DomainInv, TransferLockDomain(r) PROVE DomainInv'
<1> DEFINE d == request[r].item
<1>1. /\ request[r].op = "transfer" /\ request[r].op \in Gifts /\ request[r].at = "domain" /\ Free(r, d)
  BY DEF TransferLockDomain, At, Gifts
<1>2. CASE Reject(r)
  <2>1. loaded[r] = NoConfig
    BY <1>1, NothingLoaded DEF Gifts
  <2>2. QED
    BY <1>2, <2>1, RejectInv
<1>3. CASE /\ owner[d] = request[r].by
           /\ Advance(r, "write", {d}) /\ UNCHANGED <<tables, adminVars>>
  <2>1. /\ request'[r].op = request[r].op /\ request'[r].at = "write" /\ request'[r].user = request[r].user
        /\ request'[r].by = request[r].by /\ request'[r].item = d
        /\ request'[r].body = request[r].body /\ held'[r] = held[r] \cup {d}
    BY <1>3, Advanced DEF DomainInv
  <2>2. /\ held[r] = {request[r].user} /\ request[r].user \in active \cap password
        /\ request[r].body \subseteq Forms
    BY <1>1 DEF DomainInv, DomainStage, GiftStage
  <2>3. GiftStage(r)'
    BY <1>3, <2>1, <2>2 DEF GiftStage, tables, accounts
  <2>4. d \in Lockable /\ "write" \in Stages
    BY <1>1 DEF DomainInv, DomainStage, SubjectStage, Lockable, Stages
  <2>5. QED
    BY <1>1, <1>3, <2>3, <2>4, GiftLockInv
<1>4. QED
  BY <1>1, <1>2, <1>3 DEF TransferLockDomain
\* A commit that changes no owner.
LEMMA EndOnInv ==
    ASSUME NEW r \in Slots, DomainInv, Release(r), request[r].op \in OnDomains,
           UNCHANGED <<tables, retired>>,
           \A d \in Domains : config[d] # NoConfig => config'[d] # NoConfig,
           loaded'[r] = NoConfig, \A s \in Slots \ {r} : loaded'[s] = loaded[s],
           AdminTablesOK'
    PROVE  DomainInv'
<1>1. UNCHANGED <<accounts, sessions, owner, retired>>
  BY DEF tables
<1>2. \A d \in Domains : Taken(d)' <=> Taken(d)
  BY <1>1 DEF Taken
<1>3. owner' \in [Domains -> known \cup {NoUser}] /\ \A d \in Domains : owner'[d] = owner[d]
  BY <1>1 DEF DomainInv, AccountsInv, TablesOK
<1>4. QED
  BY <1>1, <1>2, <1>3, EndInv

LEMMA CreateDomainCommitInv ==
    ASSUME NEW r \in Slots, DomainInv, CreateDomainCommit(r) PROVE DomainInv'
<1> DEFINE d == request[r].item
           u == request[r].user
<1>1. /\ request[r].op = "create_domain" /\ d \in Domains /\ u \in known /\ ~Taken(d)
      /\ \A s \in Slots \ {r} : request[s].op \in OnDomains => request[s].item # d
  BY DEF CreateDomainCommit, At, DomainInv, DomainStage, SubjectStage, Plain, OnDomains
<1>2. /\ Release(r) /\ Free(r, u) /\ owner' = [owner EXCEPT ![d] = u]
      /\ UNCHANGED <<accounts, sessions, retired, admins, registered, grants, config, loaded>>
      /\ UNCHANGED <<known, password>>
  BY DEF CreateDomainCommit, adminVars, accounts
<1>3. loaded[r] = NoConfig
  BY <1>1, NothingLoaded
<1>4. Free(r, d)
  <2> SUFFICES ASSUME NEW s \in Slots \ {r}, d \in held[s] PROVE FALSE
    BY DEF Free
  <2>1. CASE request[s].op \in OnDomains
    <3>1. GiftStage(s) /\ PlainStage(s) /\ SubjectStage(s)
      BY DEF DomainInv, DomainStage
    <3>2. held[s] \subseteq {request[s].user, request[s].item} /\ request[s].user \in known
      BY <2>1, <3>1 DEF GiftStage, PlainStage, SubjectStage, OnDomains
    <3>3. d \in known
      BY <1>1, <2>1, <3>2
    <3>4. known \subseteq Users
      BY DEF DomainInv, AccountsInv, TablesOK
    <3>5. d \in Domains
      BY <1>1
    <3> HIDE DEF d
    <3>6. QED
      BY <3>3, <3>4, <3>5, AccountsAssumption
  <2>2. CASE request[s].op \notin OnDomains
    <3>1. held[s] \subseteq Users \cup Invitations
      <4>1. request[s].op \in AccountOperation
        BY <2>2 DEF DomainInv, AccountsInv, Requests, OnDomains
      <4>2. Stage(s) /\ (request[s] = Idle => held[s] = {})
        BY DEF DomainInv, AccountsInv, LocksOK
      <4>3. CASE request[s].op = "update"
        BY <4>3, UpdatesHoldUsers DEF DomainInv
      <4>4. CASE request[s].op \in {"none", "login", "revoke"}
        BY <4>2, <4>4 DEF Stage, OtherStage
      <4>5. CASE request[s].op \in {"accept", "reissue"}
        BY <4>2, <4>5 DEF Stage, InvitationStage
      <4>6. QED
        BY <4>1, <4>3, <4>4, <4>5 DEF AccountOperation
    <3>2. QED
      BY <1>1, <3>1, AccountsAssumption
  <2>3. QED
    BY <2>1, <2>2
<1>5. /\ owner' \in [Domains -> known \cup {NoUser}] /\ owner'[d] = u
      /\ \A e \in Domains : e # d => owner'[e] = owner[e]
  BY <1>1, <1>2 DEF DomainInv, AccountsInv, TablesOK
<1>6. u # NoUser
  BY <1>1, AccountsAssumption DEF DomainInv, AccountsInv, TablesOK
<1> HIDE DEF d, u
<1>7. \A e \in Domains : (Taken(e) => Taken(e)') /\ (~Taken(e) /\ Taken(e)' => e = d)
  BY <1>1, <1>2, <1>5, <1>6 DEF Taken
<1>8. AdminTablesOK'
  BY <1>1, <1>2, <1>5, <1>6 DEF DomainInv, AdminTablesOK, Taken
<1>9. request[r].op \in OnDomains
  BY <1>1 DEF OnDomains, Plain
<1>10. d = request[r].item
  BY DEF d
<1>11. \A e \in Domains : owner'[e] \in {owner[e], NoUser} \/ Free(r, owner'[e])
  BY <1>2, <1>5
<1>12. \A e \in Domains : owner'[e] # owner[e] => Free(r, e)
  BY <1>4, <1>5
<1>13. QED
  BY <1>1, <1>2, <1>3, <1>5, <1>7, <1>8, <1>9, <1>10, <1>11, <1>12, EndInv

\* What a transfer knows when it commits.
LEMMA AtTransfer ==
    ASSUME NEW r \in Slots, DomainInv, At(r, "transfer", "write")
    PROVE  /\ request[r].item \in Domains /\ request[r].user \in known /\ request[r].by \in known
           /\ request[r].item \in held[r] /\ request[r].user \in held[r]
           /\ request[r].user \in active \cap password
           /\ owner[request[r].item] = request[r].by
BY DEF DomainInv, DomainStage, SubjectStage, GiftStage, Gifts, At

LEMMA TransferCommitInv ==
    ASSUME NEW r \in Slots, DomainInv, TransferCommit(r) PROVE DomainInv'
<1> DEFINE d == request[r].item
           u == request[r].user
<1>1. /\ d \in Domains /\ u \in known /\ d \in held[r] /\ u \in held[r]
      /\ owner[d] \in known
  BY AtTransfer DEF TransferCommit
<1>2. /\ request[r].op = "transfer" /\ Release(r) /\ owner' = [owner EXCEPT ![d] = u]
      /\ admins' = admins \ {<<d, u>>}
      /\ UNCHANGED <<accounts, sessions, retired, registered, grants, config, loaded>>
      /\ UNCHANGED <<known, password>>
  BY DEF TransferCommit, At, accounts
<1>3. loaded[r] = NoConfig
  BY <1>2, NothingLoaded
<1>4. Free(r, d) /\ Free(r, u)
  BY <1>1 DEF Free, DomainInv, AccountsInv, LocksOK
<1>5. /\ owner' \in [Domains -> known \cup {NoUser}] /\ owner'[d] = u
      /\ \A e \in Domains : e # d => owner'[e] = owner[e]
  BY <1>1, <1>2 DEF DomainInv, AccountsInv, TablesOK
<1>6. u # NoUser /\ owner[d] # NoUser
  BY <1>1, AccountsAssumption DEF DomainInv, AccountsInv, TablesOK
<1>7. request[r].op \in OnDomains
  BY <1>2 DEF OnDomains, Gifts
<1> HIDE DEF d, u
<1>8. \A e \in Domains : Taken(e) <=> Taken(e)'
  BY <1>1, <1>2, <1>5, <1>6 DEF Taken
<1>9. AdminTablesOK'
  <2>1. retired' \subseteq {e \in Domains : owner'[e] = NoUser}
    BY <1>2, <1>5, <1>6 DEF DomainInv, AdminTablesOK
  <2>2. registered' \subseteq {e \in Domains : owner'[e] # NoUser} \cup retired'
    BY <1>2, <1>5, <1>6 DEF DomainInv, AdminTablesOK
  <2>3. QED
    BY <1>2, <2>1, <2>2 DEF DomainInv, AdminTablesOK
<1>10. QED
  BY <1>1, <1>2, <1>3, <1>4, <1>5, <1>7, <1>8, <1>9, EndInv

LEMMA DeleteDomainCommitInv ==
    ASSUME NEW r \in Slots, DomainInv, DeleteDomainCommit(r) PROVE DomainInv'
<1> DEFINE d == request[r].item
<1>1. request[r].op = "delete_domain" /\ d \in Domains /\ Taken(d)
  BY DEF DeleteDomainCommit, At, DomainInv, DomainStage, SubjectStage, Plain
<1>2. /\ Release(r) /\ Free(r, d) /\ owner' = [owner EXCEPT ![d] = NoUser] /\ retired' = retired \cup {d}
      /\ UNCHANGED <<accounts, sessions, admins, registered, grants, config, loaded>>
      /\ UNCHANGED <<known, password>>
  BY DEF DeleteDomainCommit, accounts
<1>3. loaded[r] = NoConfig
  BY <1>1, NothingLoaded
<1>4. /\ owner' \in [Domains -> known \cup {NoUser}] /\ owner'[d] = NoUser
      /\ \A e \in Domains : e # d => owner'[e] = owner[e]
  BY <1>1, <1>2 DEF DomainInv, AccountsInv, TablesOK
<1>5. request[r].op \in OnDomains
  BY <1>1 DEF OnDomains, Plain
<1> HIDE DEF d
<1>6. \A e \in Domains : Taken(e) <=> Taken(e)'
  BY <1>1, <1>2, <1>4 DEF Taken
<1>7. AdminTablesOK'
  BY <1>1, <1>2, <1>4 DEF DomainInv, AdminTablesOK, Taken
<1>8. QED
  BY <1>1, <1>2, <1>3, <1>4, <1>5, <1>6, <1>7, EndInv

\* The commits on roles, addresses and grants.
LEMMA RoleCommitsInv ==
    ASSUME NEW r \in Slots, DomainInv,
           \/ AddAdminCommit(r) \/ RemoveAdminCommit(r)
           \/ CreateAddressCommit(r) \/ DeleteAddressCommit(r)
           \/ CreateGrantCommit(r) \/ DeleteGrantCommit(r)
    PROVE  DomainInv'
<1>1. /\ Release(r) /\ UNCHANGED <<tables, retired, config, loaded>>
      /\ request[r].op \in OnDomains \ {"create_domain", "put_config"}
  BY DEF AddAdminCommit, RemoveAdminCommit, CreateAddressCommit, DeleteAddressCommit,
         CreateGrantCommit, DeleteGrantCommit, At, OnDomains, Gifts, Plain
<1>2. /\ request[r].item \in Domains /\ request[r].user \in known /\ Taken(request[r].item)
      /\ GiftStage(r) /\ loaded[r] = NoConfig /\ AdminTablesOK
  BY <1>1, NothingLoaded DEF DomainInv, DomainStage, SubjectStage, OnDomains
<1>3. UNCHANGED <<known, password, owner>>
  BY <1>1 DEF tables, accounts
<1>4. admins' \subseteq (Domains \X known)
  BY <1>2 DEF AddAdminCommit, RemoveAdminCommit, CreateAddressCommit, DeleteAddressCommit,
              CreateGrantCommit, DeleteGrantCommit, AdminTablesOK
<1>5. registered' \subseteq registered \cup {request[r].item}
  BY DEF AddAdminCommit, RemoveAdminCommit, CreateAddressCommit, DeleteAddressCommit,
         CreateGrantCommit, DeleteGrantCommit
<1>6. grants' \subseteq (Domains \X password \X Forms)
  <2>1. CASE CreateGrantCommit(r)
    <3>1. request[r].user \in password /\ request[r].body \subseteq Forms
      BY <1>2, <2>1 DEF CreateGrantCommit, At, GiftStage, Gifts
    <3>2. {<<request[r].item, request[r].user, form>> : form \in request[r].body}
            \subseteq (Domains \X password \X Forms)
      BY <1>2, <3>1
    <3>3. QED
      BY <1>2, <2>1, <3>2 DEF CreateGrantCommit, AdminTablesOK
  <2>2. CASE ~CreateGrantCommit(r)
    <3>1. grants' \subseteq grants
      BY <2>2 DEF AddAdminCommit, RemoveAdminCommit, CreateAddressCommit, DeleteAddressCommit,
                  DeleteGrantCommit
    <3>2. QED
      BY <1>2, <3>1 DEF AdminTablesOK
  <2>3. QED
    BY <2>1, <2>2
<1>7. AdminTablesOK'
  BY <1>1, <1>2, <1>3, <1>4, <1>5, <1>6 DEF AdminTablesOK, Taken
<1>8. QED
  BY <1>1, <1>2, <1>7, EndOnInv
\* What a request saves is a row of the table, whichever columns it writes.
LEMMA PutConfigCommitInv ==
    ASSUME NEW r \in Slots, DomainInv, PutConfigCommit(r) PROVE DomainInv'
<1> DEFINE d == request[r].item
           row == [c \in Columns |-> IF c \in Written(r) THEN Requested(r)[c] ELSE config[d][c]]
<1>1. /\ request[r].op = "put_config" /\ d \in Domains
      /\ Release(r) /\ loaded' = [loaded EXCEPT ![r] = NoConfig]
      /\ UNCHANGED <<tables, retired, admins, registered, grants>>
      /\ config' = config \/ config' = [config EXCEPT ![d] = row]
  BY DEF PutConfigCommit, At, DomainInv, DomainStage, SubjectStage, Plain
<1>2. /\ loaded[r] \in Configs \cup {NoConfig} /\ config[d] \in Configs \cup {NoConfig}
      /\ loaded[r] # NoConfig => config[d] # NoConfig
  BY <1>1 DEF DomainInv, AdminTablesOK, DomainStage, LoadedStage
<1>3. /\ Requested(r).auth \in {"none", "password"}
      /\ Requested(r).username \in BOOLEAN /\ Requested(r).password \in BOOLEAN
  <2>1. loaded[r].password \in BOOLEAN
    <3>1. NoConfig.password = FALSE
      BY DEF NoConfig
    <3>2. \A c \in Configs : c.password \in BOOLEAN
      BY DEF Configs
    <3>3. QED
      BY <1>2, <3>1, <3>2, Zenon
  <2>2. CASE "none" \in request[r].body
    BY <2>2 DEF Requested
  <2>3. CASE "none" \notin request[r].body
    <3>1. /\ Requested(r).auth = "password" /\ Requested(r).username = TRUE
          /\ Requested(r).password = ("secret" \in request[r].body \/ loaded[r].password)
      BY <2>3 DEF Requested
    <3>2. QED
      BY <2>1, <3>1
  <2>4. QED
    BY <2>2, <2>3
<1>4. Columns \subseteq Written(r) \/ config[d] \in Configs
  BY <1>2 DEF Written
<1>5. row \in Configs /\ row # NoConfig
  <2>1. /\ row["auth"] \in {"none", "password"}
        /\ row["username"] \in BOOLEAN /\ row["password"] \in BOOLEAN
    <3>1. \A c \in Columns : row[c] \in {Requested(r)[c], config[d][c]}
                             /\ (c \in Written(r) => row[c] = Requested(r)[c])
      OBVIOUS
    <3>2. config[d] \in Configs => /\ config[d].auth \in {"none", "password"}
                                   /\ config[d].username \in BOOLEAN /\ config[d].password \in BOOLEAN
      BY DEF Configs
    <3> HIDE DEF row
    <3>3. QED
      BY <1>3, <1>4, <3>1, <3>2 DEF Columns
  <2>2. row = [auth |-> row["auth"], username |-> row["username"], password |-> row["password"]]
    BY DEF Columns
  <2> HIDE DEF row
  <2>3. QED
    BY <2>1, <2>2 DEF Configs, NoConfig
<1> HIDE DEF row
<1>6. /\ config' \in [Domains -> Configs \cup {NoConfig}]
      /\ \A e \in Domains : config[e] # NoConfig => config'[e] # NoConfig
  BY <1>1, <1>5 DEF DomainInv, AdminTablesOK
<1>7. /\ loaded' \in [Slots -> Configs \cup {NoConfig}] /\ loaded'[r] = NoConfig
      /\ \A s \in Slots \ {r} : loaded'[s] = loaded[s]
  BY <1>1 DEF DomainInv, AdminTablesOK
<1>8. AdminTablesOK'
  BY <1>1, <1>6, <1>7 DEF DomainInv, AdminTablesOK, tables, accounts
<1>9. request[r].op \in OnDomains
  BY <1>1 DEF OnDomains, Plain
<1>10. QED
  BY <1>1, <1>6, <1>7, <1>8, <1>9, EndOnInv

-----------------------------------------------------------------------------
(* The theorems.                                                           *)

LEMMA DomainStepInv == ASSUME NEW r \in Slots, DomainInv, DomainStep(r) PROVE DomainInv'
<1>1. CASE \E by \in known, d \in Domains : CreateDomainBegin(r, by, d) \/ DeleteDomainBegin(r, by, d)
             \/ CreateAddressBegin(r, by, d) \/ DeleteAddressBegin(r, by, d)
  BY <1>1, BeginsInv
<1>2. CASE \E by \in known, d \in Domains, u \in known :
             TransferBegin(r, by, u, d) \/ AddAdminBegin(r, by, u, d) \/ RemoveAdminBegin(r, by, u, d)
  BY <1>2, BeginsInv
<1>3. CASE \E by \in known, d \in Domains, u \in known, form \in Forms :
             CreateGrantBegin(r, by, u, d, form) \/ DeleteGrantBegin(r, by, u, d, form)
  BY <1>3, GrantBeginsInv
<1>4. CASE \E by \in known, d \in Domains, body \in ConfigBodies : PutConfigBegin(r, by, d, body)
  BY <1>4, PutConfigBeginInv
<1>5. CASE \/ PutConfigLoad(r)
           \/ CreateDomainCommit(r) \/ TransferCommit(r) \/ DeleteDomainCommit(r) \/ PutConfigCommit(r)
           \/ TransferLockUser(r) \/ AddAdminLockUser(r) \/ CreateGrantLockUser(r) \/ TransferLockDomain(r)
           \/ AddAdminCommit(r) \/ RemoveAdminCommit(r) \/ CreateAddressCommit(r) \/ DeleteAddressCommit(r)
           \/ CreateGrantCommit(r) \/ DeleteGrantCommit(r)
  BY <1>5, PutConfigLoadInv, CreateDomainCommitInv, TransferCommitInv, DeleteDomainCommitInv, PutConfigCommitInv,
     LockUsersInv, TransferLockDomainInv, RoleCommitsInv
<1>6. QED
  BY <1>1, <1>2, <1>3, <1>4, <1>5 DEF DomainStep

LEMMA DomainNextInv == DomainInv /\ [DomainNext]_domainVars => DomainInv'
<1> SUFFICES ASSUME DomainInv, [DomainNext]_domainVars PROVE DomainInv'
  OBVIOUS
<1>1. CASE DomainNext
  BY <1>1, BesideDomainsInv, DomainStepInv DEF DomainNext
<1>2. CASE UNCHANGED domainVars
  <2>1. /\ UNCHANGED vars
        /\ UNCHANGED <<known, active, password, owner, request, held>>
        /\ UNCHANGED <<retired, admins, registered, grants, config, loaded>>
    BY <1>2 DEF domainVars, vars, tables, accounts, adminVars
  <2>2. AccountsInv'
    BY <2>1, AccountsStepInv DEF DomainInv
  <2>3. AdminTablesOK'
    BY <2>1 DEF DomainInv, AdminTablesOK
  <2>4. ASSUME NEW s \in Slots PROVE DomainStage(s)'
    BY <2>1 DEF DomainInv, DomainStage, SubjectStage, GiftStage, PlainStage, LoadedStage, Taken
  <2>5. QED
    BY <2>2, <2>3, <2>4 DEF DomainInv
<1>3. QED
  BY <1>1, <1>2

LEMMA DomainInitInv == DomainInit => DomainInv
<1> SUFFICES ASSUME DomainInit PROVE DomainInv
  OBVIOUS
<1>1. AccountsInv
  BY AccountsInitInv DEF DomainInit
<1>2. AdminTablesOK
  BY DEF DomainInit, AdminTablesOK
<1>3. ASSUME NEW r \in Slots PROVE DomainStage(r)
  <2>1. request[r].op \notin OnDomains /\ loaded[r] = NoConfig
    BY IdleOp DEF DomainInit, AccountsInit
  <2>2. QED
    BY <2>1 DEF OnDomains, DomainStage, SubjectStage, GiftStage, PlainStage, LoadedStage
<1>4. QED
  BY <1>1, <1>2, <1>3 DEF DomainInv

\* The inductive invariant of the requests on domains.
THEOREM DomainInvariant == DomainSpec => []DomainInv
<1>1. QED
  BY DomainInitInv, DomainNextInv, PTL DEF DomainSpec

\* Types and foreign keys hold in the tables of domains as well, and every
\* row that refers to a registration finds it (models.py:68-165).
THEOREM DomainTypeCorrect == DomainSpec => []DomainTypeOK
<1>1. DomainInv => DomainTypeOK
  BY DEF DomainInv, AccountsInv, TablesOK, LocksOK, AccountsTypeOK, AdminTablesOK, DomainTypeOK
<1>2. QED
  BY <1>1, DomainInvariant, PTL

\* An active operator is left, requests on domains beside those on operators
\* included (api.py:972-1011).
THEOREM AnOperatorRemainsBeside == DomainSpec => []OperatorRemains
<1>1. DomainInv => OperatorRemains
  BY DEF DomainInv, AccountsInv, OperatorRemains, Rules!OperatorRemains
<1>2. QED
  BY <1>1, DomainInvariant, PTL
-----------------------------------------------------------------------------
(* What the requests on domains change, and for whom.                      *)

\* No request on domains changes an account; three of them change an owner.
LEMMA DomainStepFrame ==
    ASSUME NEW r \in Slots, DomainStep(r)
    PROVE  /\ UNCHANGED accounts
           /\ \/ CreateDomainCommit(r) \/ TransferCommit(r) \/ DeleteDomainCommit(r)
              \/ owner' = owner
           /\ AddAdminCommit(r) \/ admins' \subseteq admins
           /\ CreateGrantCommit(r) \/ grants' \subseteq grants
<1> DEFINE Frame == /\ UNCHANGED accounts
                    /\ \/ CreateDomainCommit(r) \/ TransferCommit(r) \/ DeleteDomainCommit(r)
                       \/ owner' = owner
                    /\ AddAdminCommit(r) \/ admins' \subseteq admins
                    /\ CreateGrantCommit(r) \/ grants' \subseteq grants
<1>1. ASSUME NEW q, Begin(r, q), UNCHANGED <<admins, grants>> PROVE Frame
  BY <1>1 DEF Begin, tables
<1>2. ASSUME UNCHANGED tables, UNCHANGED <<admins, grants>> PROVE Frame
  BY <1>2 DEF tables
<1>3. ASSUME NEW op, NEW at, NEW by, NEW u, NEW d, BeginOn(r, op, at, by, u, d) PROVE Frame
  BY <1>1, <1>3 DEF BeginOn, adminVars
<1>4. CASE \E by \in known, d \in Domains :
             \/ CreateDomainBegin(r, by, d) \/ DeleteDomainBegin(r, by, d)
             \/ CreateAddressBegin(r, by, d) \/ DeleteAddressBegin(r, by, d)
             \/ \E body \in ConfigBodies : PutConfigBegin(r, by, d, body)
  <2>1. PICK by \in known, d \in Domains :
             \/ CreateDomainBegin(r, by, d) \/ DeleteDomainBegin(r, by, d)
             \/ CreateAddressBegin(r, by, d) \/ DeleteAddressBegin(r, by, d)
             \/ \E body \in ConfigBodies : PutConfigBegin(r, by, d, body)
    BY <1>4
  <2>2. CASE CreateDomainBegin(r, by, d) \/ DeleteDomainBegin(r, by, d)
    BY <1>3, <2>2 DEF CreateDomainBegin, DeleteDomainBegin
  <2>3. CASE CreateAddressBegin(r, by, d) \/ DeleteAddressBegin(r, by, d)
    BY <1>3, <2>3 DEF CreateAddressBegin, DeleteAddressBegin
  <2>4. CASE \E body \in ConfigBodies : PutConfigBegin(r, by, d, body)
    BY <1>1, <2>4 DEF PutConfigBegin, adminVars
  <2>5. QED
    BY <2>1, <2>2, <2>3, <2>4
<1>5. CASE \E by \in known, d \in Domains, u \in known :
             \/ TransferBegin(r, by, u, d) \/ AddAdminBegin(r, by, u, d) \/ RemoveAdminBegin(r, by, u, d)
             \/ \E form \in Forms : CreateGrantBegin(r, by, u, d, form) \/ DeleteGrantBegin(r, by, u, d, form)
  <2>1. PICK by \in known, d \in Domains, u \in known :
             \/ TransferBegin(r, by, u, d) \/ AddAdminBegin(r, by, u, d) \/ RemoveAdminBegin(r, by, u, d)
             \/ \E form \in Forms : CreateGrantBegin(r, by, u, d, form) \/ DeleteGrantBegin(r, by, u, d, form)
    BY <1>5
  <2>2. CASE TransferBegin(r, by, u, d) \/ AddAdminBegin(r, by, u, d) \/ RemoveAdminBegin(r, by, u, d)
    BY <1>3, <2>2 DEF TransferBegin, AddAdminBegin, RemoveAdminBegin
  <2>3. CASE \E form \in Forms : CreateGrantBegin(r, by, u, d, form) \/ DeleteGrantBegin(r, by, u, d, form)
    BY <1>1, <2>3 DEF CreateGrantBegin, DeleteGrantBegin, adminVars
  <2>4. QED
    BY <2>1, <2>2, <2>3
<1>6. CASE \/ TransferLockUser(r) \/ TransferLockDomain(r) \/ AddAdminLockUser(r)
           \/ CreateGrantLockUser(r) \/ PutConfigLoad(r)
  BY <1>2, <1>6 DEF TransferLockUser, TransferLockDomain, AddAdminLockUser, CreateGrantLockUser, PutConfigLoad,
     FindActiveUser, Reject, Refuse, adminVars
<1>7. CASE \/ CreateAddressCommit(r) \/ PutConfigCommit(r) \/ RemoveAdminCommit(r)
           \/ DeleteAddressCommit(r) \/ DeleteGrantCommit(r)
  <2>1. UNCHANGED tables
    BY <1>7 DEF CreateAddressCommit, PutConfigCommit, RemoveAdminCommit, DeleteAddressCommit, DeleteGrantCommit
  <2>2. admins' \subseteq admins /\ grants' \subseteq grants
    BY <1>7 DEF CreateAddressCommit, PutConfigCommit, RemoveAdminCommit, DeleteAddressCommit, DeleteGrantCommit
  <2>3. QED
    BY <2>1, <2>2 DEF tables
<1>8. CASE AddAdminCommit(r) \/ CreateGrantCommit(r)
  BY <1>8 DEF AddAdminCommit, CreateGrantCommit, tables
<1>9. CASE CreateDomainCommit(r) \/ TransferCommit(r) \/ DeleteDomainCommit(r)
  BY <1>9 DEF CreateDomainCommit, TransferCommit, DeleteDomainCommit, adminVars
<1>10. QED
  BY <1>4, <1>5, <1>6, <1>7, <1>8, <1>9 DEF DomainStep

\* A registration gets an owner as it is inserted, another one by a transfer
\* that its owner asked for.
LEMMA NewOwner ==
    ASSUME NEW r \in Slots, DomainInv, DomainStep(r), NEW d \in Domains,
           owner'[d] \notin {owner[d], NoUser}
    PROVE  \/ owner[d] = NoUser /\ CreateDomainCommit(r)
           \/ /\ TransferCommit(r) /\ At(r, "transfer", "write")
              /\ d = request[r].item /\ owner'[d] = request[r].user
              /\ owner[d] = request[r].by /\ request[r].user \in active
              /\ request'[r] = Idle
<1>1. /\ owner \in [Domains -> known \cup {NoUser}] /\ request \in [Slots -> Requests]
      /\ CreateDomainCommit(r) \/ TransferCommit(r) \/ DeleteDomainCommit(r)
  BY DomainStepFrame DEF DomainInv, AccountsInv, TablesOK
<1>2. CASE CreateDomainCommit(r)
  <2>1. owner[request[r].item] = NoUser
    BY <1>2 DEF CreateDomainCommit, At, DomainInv, DomainStage, SubjectStage, Plain, Taken
  <2>2. owner' = [owner EXCEPT ![request[r].item] = request[r].user]
    BY <1>2 DEF CreateDomainCommit
  <2>3. d = request[r].item
    BY <1>1, <2>2
  <2>4. QED
    BY <1>2, <2>1, <2>3
<1>3. CASE TransferCommit(r)
  <2>1. At(r, "transfer", "write") /\ request' = [request EXCEPT ![r] = Idle]
    BY <1>3 DEF TransferCommit, Release
  <2>2. owner' = [owner EXCEPT ![request[r].item] = request[r].user]
    BY <1>3 DEF TransferCommit
  <2>3. d = request[r].item /\ owner'[d] = request[r].user
    BY <1>1, <2>2
  <2>4. request[r].user \in active /\ owner[request[r].item] = request[r].by
    BY <2>1, AtTransfer
  <2>5. QED
    BY <1>1, <1>3, <2>1, <2>3, <2>4
<1>4. CASE DeleteDomainCommit(r)
  <2>1. owner' = [owner EXCEPT ![request[r].item] = NoUser]
    BY <1>4 DEF DeleteDomainCommit
  <2>2. QED
    BY <1>1, <2>1
<1>5. QED
  BY <1>1, <1>2, <1>3, <1>4

\* The user a role or a grant is given to was found active, and the row has
\* been locked since.
LEMMA GivenToActive ==
    ASSUME NEW r \in Slots, DomainInv, At(r, "add_admin", "domain") \/ At(r, "create_grant", "domain")
    PROVE  request[r].user \in active
BY DEF At, DomainInv, DomainStage, GiftStage, Gifts

\* Requests on accounts leave domains, administrators and grants alone.
LEMMA BesideFrame ==
    ASSUME DomainInv, AccountsBeside
    PROVE  owner' = owner /\ admins' = admins /\ grants' = grants
BY AccountsFrame DEF AccountsBeside, DomainInv

\* Ownership changes only at the hands of the one who owns the domain at
\* that moment (api.py:1325, transfer_owner): the transfer checks the owner
\* again under the lock of the row, and keeps the lock until it commits.
THEOREM OwnershipIsTransferredByOwners == DomainSpec => OnlyOwnerTransfers
<1> DEFINE Transferred ==
      \A d \in Domains :
        owner[d] # NoUser /\ owner'[d] \notin {owner[d], NoUser}
          => \E r \in Slots : At(r, "transfer", "write") /\ request[r].by = owner[d]
                                /\ request'[r] = Idle
<1>1. ASSUME DomainInv, DomainNext PROVE Transferred
  <2>1. CASE AccountsBeside
    BY <1>1, <2>1, BesideFrame
  <2>2. CASE \E r \in Slots : DomainStep(r)
    BY <1>1, <2>2, NewOwner
  <2>3. QED
    BY <1>1, <2>1, <2>2 DEF DomainNext
<1>2. DomainInv /\ [DomainNext]_domainVars => [Transferred]_domainVars
  BY <1>1
<1>3. QED
  BY <1>2, DomainInvariant, PTL DEF DomainSpec, OnlyOwnerTransfers

\* A user disabled while a request is under way gains nothing by it
\* (api.py:542, find_active_user; api.py:1016, update_user): the row the
\* user was found active in stays locked until the request commits.
THEOREM GainsGoToActiveUsers == DomainSpec => OnlyActiveUsersGain
<1> DEFINE Gains(d, u) == \/ owner[d] \notin {NoUser, u} /\ owner'[d] = u
                          \/ <<d, u>> \in admins' \ admins
                          \/ \E form \in Forms : <<d, u, form>> \in grants' \ grants
<1>1. ASSUME DomainInv, DomainNext, NEW d \in Domains, NEW u \in Users, Gains(d, u) PROVE u \in active'
  <2>1. ~AccountsBeside
    BY <1>1, BesideFrame
  <2>2. PICK r \in Slots : DomainStep(r)
    BY <1>1, <2>1 DEF DomainNext
  <2>3. active' = active /\ u # NoUser
    BY <2>2, DomainStepFrame, AccountsAssumption DEF accounts
  <2>4. CASE owner[d] \notin {NoUser, u} /\ owner'[d] = u
    BY <1>1, <2>2, <2>3, <2>4, NewOwner
  <2>5. CASE <<d, u>> \in admins' \ admins
    <3>1. AddAdminCommit(r)
      BY <2>2, <2>5, DomainStepFrame
    <3>2. u = request[r].user /\ At(r, "add_admin", "domain")
      BY <2>5, <3>1 DEF AddAdminCommit
    <3>3. QED
      BY <1>1, <2>3, <3>2, GivenToActive
  <2>6. CASE \E form \in Forms : <<d, u, form>> \in grants' \ grants
    <3>1. CreateGrantCommit(r)
      BY <2>2, <2>6, DomainStepFrame
    <3>2. u = request[r].user /\ At(r, "create_grant", "domain")
      BY <2>6, <3>1 DEF CreateGrantCommit
    <3>3. QED
      BY <1>1, <2>3, <3>2, GivenToActive
  <2>7. QED
    BY <1>1, <2>4, <2>5, <2>6
<1>2. DomainInv /\ [DomainNext]_domainVars =>
        [\A d \in Domains, u \in Users : Gains(d, u) => u \in active']_domainVars
  BY <1>1
<1>3. QED
  BY <1>2, DomainInvariant, PTL DEF DomainSpec, OnlyActiveUsersGain

\* The rules of accounts hold beside the requests on domains, whose steps
\* they see as changes of ownership (api.py:972-1067).
THEOREM RequestsBesideImplementRules == DomainSpec => ImplementsRules
<1>1. DomainInit => Rules!RulesInit
  BY InitImplements DEF DomainInit
<1>2. DomainInv /\ DomainInv' /\ [DomainNext]_domainVars => [Rules!RulesNext]_(Rules!rulesVars)
  <2> SUFFICES ASSUME DomainInv, DomainInv', [DomainNext]_domainVars
               PROVE  [Rules!RulesNext]_(Rules!rulesVars)
    OBVIOUS
  <2>1. CASE AccountsBeside
    BY <2>1, StepImplements DEF AccountsBeside, DomainInv
  <2>2. CASE \E r \in Slots : DomainStep(r)
    <3>1. UNCHANGED accounts
      BY <2>2, DomainStepFrame
    <3>2. owner' \in [Domains -> known \cup {NoUser}]
      BY <3>1 DEF DomainInv, AccountsInv, TablesOK, accounts
    <3>3. {owner'[d] : d \in Domains} \ {NoUser} \subseteq known
      BY <3>2
    <3>4. Rules!Own
      BY <3>1, <3>3 DEF Rules!Own, accounts
    <3>5. QED
      BY <3>4 DEF Rules!RulesNext
  <2>3. CASE UNCHANGED domainVars
    BY <2>3, Stutter DEF domainVars, vars, tables
  <2>4. QED
    BY <2>1, <2>2, <2>3 DEF DomainNext
<1>3. QED
  BY <1>1, <1>2, DomainInvariant, PTL DEF DomainSpec, ImplementsRules, Rules!RulesSpec

\* A request on domains locks the user's row, then the domain's, and nothing
\* after that; it waits in no circle, with requests on accounts either.
LEMMA RequestsOnDomainsAreOrderly ==
    ASSUME NEW r \in Slots, DomainInv, request[r].op \in OnDomains
    PROVE  Orderly(r)
<1>1. CASE request[r].op \in Plain
  BY <1>1 DEF DomainInv, DomainStage, PlainStage, Orderly
<1>2. CASE request[r].op \in Gifts
  <2>1. /\ request[r].item \in Domains /\ request[r].user \in Users /\ GiftStage(r)
        /\ Users \cap Domains = {}
    BY <1>2, AccountsAssumption DEF DomainInv, DomainStage, SubjectStage, AccountsInv, TablesOK
  <2>2. CASE request[r].at = "user"
    BY <1>2, <2>1, <2>2 DEF GiftStage, Orderly
  <2>3. CASE request[r].at = "domain"
    <3>1. held[r] = {request[r].user}
      BY <1>2, <2>1, <2>3 DEF GiftStage
    <3>2. Wanted(r) = {request[r].item}
      BY <2>3 DEF Wanted
    <3>3. QED
      BY <2>1, <3>1, <3>2 DEF Orderly
  <2>4. CASE request[r].at = "write"
    <3>1. "disable" \notin request[r].body
      BY <1>2, <2>1 DEF GiftStage, Forms
    <3>2. Wanted(r) = {}
      BY <2>4, <3>1 DEF Wanted
    <3>3. QED
      BY <3>2 DEF Orderly
  <2>5. QED
    BY <1>2, <2>1, <2>2, <2>3, <2>4 DEF GiftStage
<1>3. QED
  BY <1>1, <1>2 DEF OnDomains

\* No circle of requests, be they on accounts or on domains (api.py:817-831,
\* 973-1064 and 1325-1340).
THEOREM NoLockCycleBeside == DomainSpec => []NoLockCycle
<1>1. ASSUME DomainInv PROVE NoLockCycle
  <2>1. ASSUME NEW r \in Slots, request[r].op # "update" PROVE Orderly(r)
    <3>1. request[r].op \in AccountOperation \cup OnDomains
      BY <1>1 DEF DomainInv, AccountsInv, Requests, OnDomains
    <3>2. QED
      BY <1>1, <2>1, <3>1, RequestsOnInvitationsAreOrderly, RequestsOnDomainsAreOrderly DEF DomainInv
  <2>2. QED
    BY <1>1, <2>1, NoCircle DEF DomainInv
<1>2. QED
  BY <1>1, DomainInvariant, PTL
\* A user never has two invitations, nor a way back from having none, with
\* the requests on domains beside those on accounts (api.py:1044).
THEOREM InvitationsBeside == DomainSpec => []OneInvitation /\ Rules!NoWayBack
<1>1. DomainInv => OneInvitation
  BY DEF DomainInv, AccountsInv, SingleRows, Exists, OneInvitation, Rules!OneInvitation
<1>2. DomainInv /\ [Rules!RulesNext]_(Rules!rulesVars) =>
        [\A u \in known \ password : Rules!Rows(u) = {} =>
           u \notin password' /\ \A i \in Rules!InvitationsOf(u) : invitation'[i] = "none"]_(Rules!rulesVars)
  BY RuleLeadsNoWayBack DEF DomainInv
<1>3. QED
  BY <1>1, <1>2, DomainInvariant, RequestsBesideImplementRules, PTL
     DEF ImplementsRules, Rules!RulesSpec, Rules!NoWayBack
=============================================================================
