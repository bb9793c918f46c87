------------------------------ MODULE DomainAdmin ------------------------------
(***************************************************************************)
(* The requests on domains (api.py:1166-1701), beside those on accounts:   *)
(* registration, ownership, administrators, addresses, grants, deletion    *)
(* and the upstream configuration.                                         *)
(*                                                                         *)
(* SenderPolicy treats most of them as one transaction that runs alone.    *)
(* Here they are taken apart like those of Accounts.  What a request read  *)
(* at its beginning, the domain, its owner and the caller's role, is what  *)
(* it goes on believing until it reads the row again under a lock.  One    *)
(* exact address stands for the addresses of a domain; the statements of   *)
(* delete_address, one step here, are taken apart in SenderPolicy.         *)
(***************************************************************************)
EXTENDS Accounts

VARIABLES
    retired,        \* registrations with deleted_at set
    admins,         \* domain_admins: <<domain, user>>
    registered,     \* registrations with a row for the exact address
    grants,         \* sender_grants: <<domain, user, "*" or "exact">>
    config,         \* smtp_configs: the columns that depend on each other
    loaded          \* the configuration a request holds in its session

adminVars == <<retired, admins, registered, grants, config, loaded>>
domainVars == <<vars, adminVars>>

Forms == {"*", "exact"}

\* SMTPConfig.auth and whether username and password_encrypted are set.
Columns == {"auth", "username", "password"}
Configs == [auth : {"none", "password"}, username : BOOLEAN, password : BOOLEAN]
NoConfig == [auth |-> "absent", username |-> FALSE, password |-> FALSE]

DomainTypeOK ==
    /\ AccountsTypeOK
    /\ retired \subseteq {d \in Domains : owner[d] = NoUser}
    /\ admins \subseteq (Domains \X known)
    /\ registered \subseteq {d \in Domains : owner[d] # NoUser} \cup retired
    /\ grants \subseteq (Domains \X password \X Forms)
    /\ config \in [Domains -> Configs \cup {NoConfig}]
    /\ loaded \in [Slots -> Configs \cup {NoConfig}]

DomainInit ==
    /\ AccountsInit
    /\ retired = {}
    /\ admins = {}
    /\ registered = {}
    /\ grants = {}
    /\ config = [d \in Domains |-> NoConfig]
    /\ loaded = [r \in Slots |-> NoConfig]

-----------------------------------------------------------------------------
(* Roles and the common parts of the requests.                             *)

\* get_domain_role of a live domain, for a user who is active.
Owns(u, d) == Principal(u) /\ owner[d] = u
Manages(u, d) == Principal(u) /\ owner[d] # NoUser /\ (owner[d] = u \/ <<d, u>> \in admins)

BeginOn(r, op, at, by, u, d) ==
    /\ Begin(r, Request(op, at, by, u, d, {}))
    /\ UNCHANGED adminVars

Reject(r) == Refuse(r) /\ UNCHANGED adminVars

\* Mutant: find_active_user without FOR UPDATE.
FindActiveUserUnlocked(r, next, allowed) ==
    LET u == request[r].user
    IN  IF u \in active \cap password /\ allowed
        THEN Advance(r, next, {}) /\ UNCHANGED <<tables, adminVars>>
        ELSE Reject(r)

\* find_active_user, with what the request reads right after it.
FindActiveUser(r, next, allowed) ==
    LET u == request[r].user
    IN  /\ Free(r, u)
        /\ IF u \in active \cap password /\ allowed
           THEN Advance(r, next, {u}) /\ UNCHANGED <<tables, adminVars>>
           ELSE Reject(r)

-----------------------------------------------------------------------------
(* Registration and ownership.                                             *)

\* Mutant: the identity of a deleted registration is taken again.
CreateDomainAgain(r, by, d) ==
    /\ Principal(by)
    /\ owner[d] = NoUser /\ \A s \in Slots : request[s].item # d
    /\ BeginOn(r, "create_domain", "insert", by, by, d)

CreateDomainBegin(r, by, d) ==
    /\ Principal(by)
    /\ owner[d] = NoUser /\ d \notin retired /\ \A s \in Slots : request[s].item # d
    /\ BeginOn(r, "create_domain", "insert", by, by, d)

\* The caller is not read again; the foreign key only waits for the row.
CreateDomainCommit(r) ==
    /\ At(r, "create_domain", "insert")
    /\ Free(r, request[r].user)
    /\ owner' = [owner EXCEPT ![request[r].item] = request[r].user]
    /\ Release(r)
    /\ UNCHANGED <<accounts, sessions, adminVars>>

\* Mutant: the domain is locked before the new owner.
TransferBeginLocked(r, by, u, d) ==
    /\ Owns(by, d) /\ Free(r, d)
    /\ request[r] = Idle /\ "transfer" \in Operations
    /\ request' = [request EXCEPT ![r] = Request("transfer", "user", by, u, d, {})]
    /\ held' = [held EXCEPT ![r] = {d}]
    /\ UNCHANGED <<tables, adminVars>>

TransferBegin(r, by, u, d) ==
    /\ Owns(by, d)
    /\ BeginOn(r, "transfer", "user", by, u, d)

TransferLockUser(r) ==
    /\ At(r, "transfer", "user")
    /\ FindActiveUser(r, "domain", TRUE)

\* Mutant: ownership is not checked again once the domain is locked.
TransferLockDomainOnly(r) ==
    LET d == request[r].item
    IN  /\ At(r, "transfer", "domain")
        /\ Free(r, d)
        /\ IF owner[d] # NoUser /\ owner[d] # request[r].user
           THEN Advance(r, "write", {d}) /\ UNCHANGED <<tables, adminVars>>
           ELSE Reject(r)

\* The caller must still own the domain; the new owner must be another user.
TransferLockDomain(r) ==
    LET d == request[r].item
    IN  /\ At(r, "transfer", "domain")
        /\ Free(r, d)
        /\ IF owner[d] = request[r].by /\ owner[d] # request[r].user
           THEN Advance(r, "write", {d}) /\ UNCHANGED <<tables, adminVars>>
           ELSE Reject(r)

TransferCommit(r) ==
    LET d == request[r].item
        u == request[r].user
    IN  /\ At(r, "transfer", "write")
        /\ owner' = [owner EXCEPT ![d] = u]
        /\ admins' = admins \ {<<d, u>>}
        /\ Release(r)
        /\ UNCHANGED <<accounts, sessions, retired, registered, grants, config, loaded>>

DeleteDomainBegin(r, by, d) ==
    /\ Owns(by, d)
    /\ BeginOn(r, "delete_domain", "domain", by, by, d)

\* The row is written by its identity, whoever owns it by then.
DeleteDomainCommit(r) ==
    LET d == request[r].item
    IN  /\ At(r, "delete_domain", "domain")
        /\ Free(r, d)
        /\ owner' = [owner EXCEPT ![d] = NoUser]
        /\ retired' = retired \cup {d}
        /\ Release(r)
        /\ UNCHANGED <<accounts, sessions, admins, registered, grants, config, loaded>>

-----------------------------------------------------------------------------
(* Administrators.                                                         *)

AddAdminBegin(r, by, u, d) ==
    /\ Owns(by, d)
    /\ BeginOn(r, "add_admin", "user", by, u, d)

\* The owner is the one read at the beginning, which is the caller.
AddAdminLockUser(r) ==
    /\ At(r, "add_admin", "user")
    /\ FindActiveUser(r, "domain",
                      /\ request[r].user # request[r].by
                      /\ <<request[r].item, request[r].user>> \notin admins)

\* The foreign key waits for the domain's row.
AddAdminCommit(r) ==
    LET d == request[r].item
    IN  /\ At(r, "add_admin", "domain")
        /\ Free(r, d)
        /\ admins' = admins \cup {<<d, request[r].user>>}
        /\ Release(r)
        /\ UNCHANGED <<tables, retired, registered, grants, config, loaded>>

RemoveAdminBegin(r, by, u, d) ==
    /\ Owns(by, d)
    /\ BeginOn(r, "remove_admin", "delete", by, u, d)

RemoveAdminCommit(r) ==
    /\ At(r, "remove_admin", "delete")
    /\ admins' = admins \ {<<request[r].item, request[r].user>>}
    /\ Release(r)
    /\ UNCHANGED <<tables, retired, registered, grants, config, loaded>>

-----------------------------------------------------------------------------
(* The exact address and the grants.                                       *)

CreateAddressBegin(r, by, d) ==
    /\ Manages(by, d) /\ d \notin registered
    /\ BeginOn(r, "create_address", "domain", by, by, d)

\* Bound: a delete_address that found an earlier row of the address ends first.
CreateAddressCommit(r) ==
    LET d == request[r].item
    IN  /\ At(r, "create_address", "domain")
        /\ Free(r, d)
        /\ d \in registered \/ \A s \in Slots : ~(At(s, "delete_address", "delete") /\ request[s].item = d)
        /\ registered' = registered \cup {d}
        /\ Release(r)
        /\ UNCHANGED <<tables, retired, admins, grants, config, loaded>>

DeleteAddressBegin(r, by, d) ==
    /\ Manages(by, d) /\ d \in registered
    /\ BeginOn(r, "delete_address", "delete", by, by, d)

\* Deletes the exact grants, whether another request has deleted the address
\* meanwhile or not: the session only warns of a row that is gone.
DeleteAddressCommit(r) ==
    LET d == request[r].item
    IN  /\ At(r, "delete_address", "delete")
        /\ registered' = registered \ {d}
        /\ grants' = {g \in grants : ~(g[1] = d /\ g[3] = "exact")}
        /\ Release(r)
        /\ UNCHANGED <<tables, retired, admins, config, loaded>>

CreateGrantBegin(r, by, u, d, form) ==
    /\ Manages(by, d)
    /\ Begin(r, Request("create_grant", "user", by, u, d, {form}))
    /\ UNCHANGED adminVars

\* The address is looked up without a lock.
CreateGrantLockUser(r) ==
    /\ At(r, "create_grant", "user")
    /\ FindActiveUser(r, "domain",
                      /\ "exact" \in request[r].body => request[r].item \in registered
                      /\ \A form \in request[r].body :
                           <<request[r].item, request[r].user, form>> \notin grants)

CreateGrantCommit(r) ==
    LET d == request[r].item
    IN  /\ At(r, "create_grant", "domain")
        /\ Free(r, d)
        /\ grants' = grants \cup {<<d, request[r].user, form>> : form \in request[r].body}
        /\ Release(r)
        /\ UNCHANGED <<tables, retired, admins, registered, config, loaded>>

DeleteGrantBegin(r, by, u, d, form) ==
    /\ Manages(by, d) /\ <<d, u, form>> \in grants
    /\ Begin(r, Request("delete_grant", "delete", by, u, d, {form}))
    /\ UNCHANGED adminVars

DeleteGrantCommit(r) ==
    /\ At(r, "delete_grant", "delete")
    /\ grants' = grants \ {<<request[r].item, request[r].user, form>> : form \in request[r].body}
    /\ Release(r)
    /\ UNCHANGED <<tables, retired, admins, registered, config, loaded>>

-----------------------------------------------------------------------------
(* The upstream configuration.                                             *)

\* The role is checked before the host is resolved.
PutConfigBegin(r, by, d, body) ==
    /\ Owns(by, d)
    /\ Begin(r, Request("put_config", "resolve", by, by, d, body))
    /\ UNCHANGED adminVars

\* The host is refused, or the row is loaded, whoever owns the domain by then.
PutConfigLoad(r) ==
    /\ At(r, "put_config", "resolve")
    /\ \/ Reject(r)
       \/ /\ Advance(r, "domain", {})
          /\ loaded' = [loaded EXCEPT ![r] = config[request[r].item]]
          /\ UNCHANGED <<tables, retired, admins, registered, grants, config>>

ConfigBodies == {{"none"}} \cup {{"password"} \cup with : with \in SUBSET {"secret", "renamed"}}

\* What the request sets: a body names the authentication, and a password if
\* it brings one; without one the password loaded is kept.  "renamed" is a
\* username that differs from the one loaded.
Requested(r) ==
    IF "none" \in request[r].body
    THEN [auth |-> "none", username |-> FALSE, password |-> FALSE]
    ELSE [auth |-> "password", username |-> TRUE,
          password |-> "secret" \in request[r].body \/ loaded[r].password]

\* Columns the session writes: all of a new row, of a loaded one those whose
\* value differs from the value loaded.
Written(r) ==
    {c \in Columns : \/ loaded[r] = NoConfig
                     \/ Requested(r)[c] # loaded[r][c]
                     \/ c = "password" /\ "secret" \in request[r].body
                     \/ c = "username" /\ "renamed" \in request[r].body}

\* The check constraint of the table.
Storable(row) == row.auth = "password" => row.username /\ row.password

\* A body without a password fails if none was loaded, a new row if another
\* request inserted it first, a row if it breaks the check constraint.
PutConfigCommit(r) ==
    LET d == request[r].item
        row == [c \in Columns |-> IF c \in Written(r) THEN Requested(r)[c] ELSE config[d][c]]
    IN  /\ At(r, "put_config", "domain")
        /\ loaded[r] = NoConfig => Free(r, d)
        /\ config' = IF \/ Requested(r).auth = "password" /\ ~Requested(r).password
                        \/ loaded[r] = NoConfig /\ config[d] # NoConfig
                        \/ ~Storable(row)
                     THEN config
                     ELSE [config EXCEPT ![d] = row]
        /\ loaded' = [loaded EXCEPT ![r] = NoConfig]
        /\ Release(r)
        /\ UNCHANGED <<tables, retired, admins, registered, grants>>

-----------------------------------------------------------------------------
DomainStep(r) ==
    \/ \E by \in known, d \in Domains :
         \/ CreateDomainBegin(r, by, d)
         \/ DeleteDomainBegin(r, by, d)
         \/ CreateAddressBegin(r, by, d)
         \/ DeleteAddressBegin(r, by, d)
         \/ \E body \in ConfigBodies : PutConfigBegin(r, by, d, body)
         \/ \E u \in known :
              \/ TransferBegin(r, by, u, d)
              \/ AddAdminBegin(r, by, u, d)
              \/ RemoveAdminBegin(r, by, u, d)
              \/ \E form \in Forms : CreateGrantBegin(r, by, u, d, form) \/ DeleteGrantBegin(r, by, u, d, form)
    \/ CreateDomainCommit(r)
    \/ TransferLockUser(r)
    \/ TransferLockDomain(r)
    \/ TransferCommit(r)
    \/ DeleteDomainCommit(r)
    \/ AddAdminLockUser(r)
    \/ AddAdminCommit(r)
    \/ RemoveAdminCommit(r)
    \/ CreateAddressCommit(r)
    \/ DeleteAddressCommit(r)
    \/ CreateGrantLockUser(r)
    \/ CreateGrantCommit(r)
    \/ DeleteGrantCommit(r)
    \/ PutConfigLoad(r)
    \/ PutConfigCommit(r)

\* The requests on accounts; one that is rolled back drops what it loaded.
AccountsBeside ==
    /\ AccountsNext
    /\ loaded' = [r \in Slots |-> IF request'[r] = Idle THEN NoConfig ELSE loaded[r]]
    /\ UNCHANGED <<retired, admins, registered, grants, config>>

DomainNext == AccountsBeside \/ \E r \in Slots : DomainStep(r)

DomainSpec == DomainInit /\ [][DomainNext]_domainVars

-----------------------------------------------------------------------------
(* Properties.                                                             *)

\* Ownership of a live domain changes only at the hands of the one who owns
\* it at that moment, however many transfers of it are under way
\* (api.py:1325, transfer_owner).
OnlyOwnerTransfers ==
    [][\A d \in Domains :
         owner[d] # NoUser /\ owner'[d] \notin {owner[d], NoUser}
           => \E r \in Slots : At(r, "transfer", "write") /\ request[r].by = owner[d]
                                 /\ request'[r] = Idle]_domainVars

\* Domains, roles and grants are given only to users who are active when the
\* request is committed: a user disabled meanwhile gains nothing (api.py:542,
\* find_active_user, and its callers; api.py:1016, update_user).
OnlyActiveUsersGain ==
    [][\A d \in Domains, u \in Users :
         (\/ owner[d] \notin {NoUser, u} /\ owner'[d] = u
          \/ <<d, u>> \in admins' \ admins
          \/ \E form \in Forms : <<d, u, form>> \in grants' \ grants)
           => u \in active']_domainVars

\* "Transfer owned domains before disabling the user": no live domain belongs
\* to a user who is disabled (api.py:1025, update_user).  A registration whose
\* caller is disabled meanwhile refutes this; no run checks it.
OwnersAreActive == \A d \in Domains : owner[d] \in active \cup {NoUser}

\* "Validate and save one domain's upstream SMTP configuration": the columns
\* saved belong together, as validate_upstream_endpoint demands of them.
ConfigIsWhole ==
    \A d \in Domains : config[d].username = (config[d].auth = "password")
                       /\ config[d].password = (config[d].auth = "password")
=============================================================================
