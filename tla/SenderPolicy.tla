---------------------------- MODULE SenderPolicy ----------------------------
(***************************************************************************)
(* The policy tables that decide who may send through which domain, the    *)
(* management requests that change them, and authorize_sender, the one     *)
(* query the SMTP service asks of them.                                    *)
(*                                                                         *)
(* The model looks at one sender address and the domain name in it.        *)
(* Domains are the successive registrations of that name: deleting a       *)
(* registration frees the name (active_name), a later registration is a    *)
(* new row with a new identity and an upstream server of its own.          *)
(* Each management request is one committed database transaction, but for  *)
(* create_grant, which looks the address up without a lock, and for        *)
(* delete_address, which deletes rows before its commit: those two are     *)
(* taken apart here.  DomainAdmin takes the others apart.  A request that  *)
(* is rolled back has changed nothing and is one that never began.         *)
(* Owners and operators are principals outside Users, who own no domain.   *)
(***************************************************************************)
EXTENDS Naturals, FiniteSets

CONSTANTS
    Users,          \* users who hold SMTP credentials
    Credentials,    \* SMTP credentials that may be issued
    UserOf,         \* SMTPCredential.user_id, fixed when it is issued
    Domains,        \* registrations of the sender's domain name
    AddressForms    \* how grants and scopes name the address: "*", "exact"

ASSUME PolicyAssumption ==
    /\ UserOf \in [Credentials -> Users]
    /\ AddressForms \subseteq {"*", "exact"}

VARIABLES
    status,         \* Domain.status and deleted_at of every registration
    registered,     \* registrations with a sender_addresses row
    grants,         \* sender_grants: <<user, domain, address form>>
    scopes,         \* credential_scopes: <<credential, domain, address form>>
    token,          \* revoked_at and expires_at of every credential
    active,         \* users whose active flag is set
    configured,     \* registrations with an smtp_configs row
    granting,       \* grants a create_grant has checked and not yet committed
    clearing,       \* rows a delete_address has deleted and not yet committed
    overtaken       \* history: grants committed past a delete_address

underWay == <<granting, clearing, overtaken>>
policyVars == <<status, registered, grants, scopes, token, active, configured, underWay>>

LiveStatuses == {"pending", "approved", "rejected"}

\* The column types and the foreign keys: rows refer to registrations that
\* exist and to credentials that were issued.
PolicyTypeOK ==
    /\ status \in [Domains -> LiveStatuses \cup {"unused", "deleted"}]
    /\ registered \subseteq {d \in Domains : status[d] # "unused"}
    /\ grants \subseteq Users \X {d \in Domains : status[d] # "unused"} \X AddressForms
    /\ scopes \subseteq {c \in Credentials : token[c] # "unissued"}
                       \X {d \in Domains : status[d] # "unused"} \X AddressForms
    /\ token \in [Credentials -> {"unissued", "live", "expired", "revoked"}]
    /\ active \subseteq Users
    /\ configured \subseteq {d \in Domains : status[d] # "unused"}
    /\ granting \subseteq Users \X {d \in Domains : status[d] # "unused"} \X AddressForms
    /\ clearing \subseteq [domain : {d \in Domains : status[d] # "unused"},
                          grants : SUBSET (Users \X Domains \X AddressForms),
                          scopes : SUBSET (Credentials \X Domains \X AddressForms)]
    /\ overtaken \subseteq grants

\* get_domain: the row exists and deleted_at is null.
Live(d) == status[d] \in LiveStatuses

PolicyInit ==
    /\ status = [d \in Domains |-> "unused"]
    /\ registered = {}
    /\ grants = {}
    /\ scopes = {}
    /\ token = [c \in Credentials |-> "unissued"]
    /\ active = Users
    /\ configured = {}
    /\ granting = {}
    /\ clearing = {}
    /\ overtaken = {}

-----------------------------------------------------------------------------
(* What the SMTP service reads.                                            *)

\* authenticate_smtp: the secret matches, the token and its user are live.
Authentic(c) == token[c] = "live" /\ UserOf[c] \in active

Granted(u, d) == \E a \in AddressForms : <<u, d, a>> \in grants

Scoped(c, d) == \E a \in AddressForms : <<c, d, a>> \in scopes

\* The rows authorize_sender's statement returns.
AuthorizedDomains(c) ==
    {d \in Domains : /\ status[d] = "approved"
                     /\ Authentic(c)
                     /\ Granted(UserOf[c], d)
                     /\ Scoped(c, d)}

Authorized(c) == AuthorizedDomains(c) # {}

-----------------------------------------------------------------------------
(* Domain registrations.                                                   *)

\* Mutant: without the unique index on active_name.
CreateDomainTwice(d) ==
    /\ status[d] = "unused"
    /\ status' = [status EXCEPT ![d] = "pending"]
    /\ UNCHANGED <<registered, grants, scopes, token, active, configured, underWay>>

\* The unique index on active_name refuses a second live registration.
CreateDomain(d) ==
    /\ status[d] = "unused"
    /\ \A e \in Domains : ~Live(e)
    /\ status' = [status EXCEPT ![d] = "pending"]
    /\ UNCHANGED <<registered, grants, scopes, token, active, configured, underWay>>

\* Mutant: get_domain with include_deleted.
SetDeletedDomainStatus(d, verdict) ==
    /\ status[d] # "unused"
    /\ ~(verdict = "approved" /\ status[d] = "approved")
    /\ status' = [status EXCEPT ![d] = verdict]
    /\ UNCHANGED <<registered, grants, scopes, token, active, configured, underWay>>

SetDomainStatus(d, verdict) ==
    /\ Live(d)
    /\ ~(verdict = "approved" /\ status[d] = "approved")
    /\ status' = [status EXCEPT ![d] = verdict]
    /\ UNCHANGED <<registered, grants, scopes, token, active, configured, underWay>>

\* Addresses, grants, scopes and the configuration of the row all stay.
DeleteDomain(d) ==
    /\ Live(d)
    /\ status' = [status EXCEPT ![d] = "deleted"]
    /\ UNCHANGED <<registered, grants, scopes, token, active, configured, underWay>>

PutSMTPConfig(d) ==
    /\ Live(d)
    /\ configured' = configured \cup {d}
    /\ UNCHANGED <<status, registered, grants, scopes, token, active, underWay>>

-----------------------------------------------------------------------------
(* Sender addresses and grants.                                            *)

CreateAddress(d) ==
    /\ Live(d)
    /\ d \notin registered
    /\ registered' = registered \cup {d}
    /\ UNCHANGED <<status, grants, scopes, token, active, configured, underWay>>

\* The rows delete_address deletes for the registration d.
ExactGrants(d) == grants \cap (Users \X {d} \X {"exact"})
ExactScopes(d) == scopes \cap (Credentials \X {d} \X {"exact"})

\* Mutant: the exact grants stay behind.
DeleteAddressOnly(d) ==
    /\ Live(d)
    /\ d \in registered
    /\ \A q \in clearing : q.domain # d
    /\ clearing' = clearing \cup {[domain |-> d, grants |-> {}, scopes |-> {}]}
    /\ UNCHANGED <<status, registered, grants, scopes, token, active, configured, granting, overtaken>>

\* The address is loaded and the DELETE statements run.  Bound: one
\* delete_address of a registration at a time.
DeleteAddress(d) ==
    /\ Live(d)
    /\ d \in registered
    /\ \A q \in clearing : q.domain # d
    /\ clearing' = clearing \cup {[domain |-> d, grants |-> ExactGrants(d), scopes |-> ExactScopes(d)]}
    /\ UNCHANGED <<status, registered, grants, scopes, token, active, configured, granting, overtaken>>

\* Rows inserted since the statements ran are not among those deleted.
DeleteAddressCommit(q) ==
    /\ registered' = registered \ {q.domain}
    /\ grants' = grants \ q.grants
    /\ scopes' = scopes \ q.scopes
    /\ clearing' = clearing \ {q}
    /\ overtaken' = overtaken \ q.grants
    /\ UNCHANGED <<status, token, active, configured, granting>>

\* find_active_user keeps the row of the user locked until create_grant commits.
Locked(u) == \E g \in granting : g[1] = u

\* Mutant: the registration is not loaded first.
CheckGrantAnywhere(u, d, a) ==
    /\ ~Locked(u)
    /\ u \in active
    /\ a = "exact" => d \in registered
    /\ <<u, d, a>> \notin grants
    /\ granting' = granting \cup {<<u, d, a>>}
    /\ UNCHANGED <<status, registered, grants, scopes, token, active, configured, clearing, overtaken>>

\* create_grant up to its insert: nothing but the row of the user is locked.
CheckGrant(u, d, a) ==
    /\ Live(d)
    /\ ~Locked(u)
    /\ u \in active
    /\ a = "exact" => d \in registered
    /\ <<u, d, a>> \notin grants
    /\ granting' = granting \cup {<<u, d, a>>}
    /\ UNCHANGED <<status, registered, grants, scopes, token, active, configured, clearing, overtaken>>

\* A delete_address of the registration has run its statements since the check.
Overtaken(g) ==
    g[3] = "exact" /\ (g[2] \notin registered \/ \E q \in clearing : q.domain = g[2])

\* The insert and its commit.
CreateGrant(g) ==
    /\ grants' = grants \cup {g}
    /\ granting' = granting \ {g}
    /\ overtaken' = IF Overtaken(g) THEN overtaken \cup {g} ELSE overtaken
    /\ UNCHANGED <<status, registered, scopes, token, active, configured, clearing>>

\* Waits for the rows a delete_address has deleted.
DeleteGrant(u, d, a) ==
    /\ Live(d)
    /\ <<u, d, a>> \in grants
    /\ \A q \in clearing : <<u, d, a>> \notin q.grants
    /\ grants' = grants \ {<<u, d, a>>}
    /\ overtaken' = overtaken \ {<<u, d, a>>}
    /\ UNCHANGED <<status, registered, scopes, token, active, configured, granting, clearing>>

-----------------------------------------------------------------------------
(* Credentials.                                                            *)

\* validate_scope: the domain is approved and a grant covers the address.
ValidScope(u, d, a) ==
    /\ status[d] = "approved"
    /\ <<u, d, "*">> \in grants \/ <<u, d, a>> \in grants

\* The scope lists one request may carry for credential c.
ScopeLists(c) ==
    SUBSET {s \in {c} \X Domains \X AddressForms : ValidScope(UserOf[c], s[2], s[3])}
        \ {{}}

\* The foreign key waits for the row of the user.
CreateCredential(c, list) ==
    /\ token[c] = "unissued"
    /\ ~Locked(UserOf[c])
    /\ UserOf[c] \in active
    /\ token' = [token EXCEPT ![c] = "live"]
    /\ scopes' = scopes \cup list
    /\ UNCHANGED <<status, registered, grants, active, configured, underWay>>

\* An expired credential still accepts a new scope list.  Its DELETE waits
\* for the rows a delete_address has deleted.
UpdateCredentialScopes(c, list) ==
    /\ token[c] \in {"live", "expired"}
    /\ UserOf[c] \in active
    /\ \A q \in clearing : \A s \in q.scopes : s[1] # c
    /\ scopes' = (scopes \ ({c} \X Domains \X AddressForms)) \cup list
    /\ UNCHANGED <<status, registered, grants, token, active, configured, underWay>>

RevokeCredential(c) ==
    /\ token[c] \in {"live", "expired"}
    /\ UserOf[c] \in active
    /\ token' = [token EXCEPT ![c] = "revoked"]
    /\ UNCHANGED <<status, registered, grants, scopes, active, configured, underWay>>

\* The clock passes expires_at.
ExpireCredential(c) ==
    /\ token[c] = "live"
    /\ token' = [token EXCEPT ![c] = "expired"]
    /\ UNCHANGED <<status, registered, grants, scopes, active, configured, underWay>>

\* update_user with payload.active; it locks the row of the user.
SetUserActive(u, flag) ==
    /\ (u \in active) # flag
    /\ ~Locked(u)
    /\ active' = IF flag THEN active \cup {u} ELSE active \ {u}
    /\ UNCHANGED <<status, registered, grants, scopes, token, configured, underWay>>

-----------------------------------------------------------------------------

DomainRequest ==
    \E d \in Domains :
        \/ CreateDomain(d)
        \/ \E verdict \in {"approved", "rejected"} : SetDomainStatus(d, verdict)
        \/ DeleteDomain(d)
        \/ PutSMTPConfig(d)

AddressRequest ==
    /\ "exact" \in AddressForms
    /\ \/ \E d \in Domains : CreateAddress(d) \/ DeleteAddress(d)
       \/ \E q \in clearing : DeleteAddressCommit(q)

GrantRequest ==
    \/ \E u \in Users, d \in Domains, a \in AddressForms :
          CheckGrant(u, d, a) \/ DeleteGrant(u, d, a)
    \/ \E g \in granting : CreateGrant(g)

CredentialRequest ==
    \E c \in Credentials :
        \/ \E list \in ScopeLists(c) :
              CreateCredential(c, list) \/ UpdateCredentialScopes(c, list)
        \/ RevokeCredential(c)
        \/ ExpireCredential(c)

UserRequest == \E u \in Users, flag \in BOOLEAN : SetUserActive(u, flag)

PolicyNext ==
    \/ DomainRequest
    \/ AddressRequest
    \/ GrantRequest
    \/ CredentialRequest
    \/ UserRequest

PolicySpec == PolicyInit /\ [][PolicyNext]_policyVars

-----------------------------------------------------------------------------
(* Properties of the tables by themselves.                                 *)

\* authorize_sender's scalar() relies on it: a name is live at most once, so
\* the statement never has two domains to choose from.
OneRoute ==
    \A c \in Credentials : Cardinality(AuthorizedDomains(c)) <= 1

\* An exact grant is without its address only if its create_grant and a
\* delete_address of that address were under way together: the check ahead of
\* the grant and the deletion of the grants miss each other in no other order
\* (api.py:1565, create_grant; api.py:1494, delete_address).
StrayGrantsWereOvertaken ==
    \A u \in Users, d \in Domains :
        <<u, d, "exact">> \in grants /\ d \notin registered => <<u, d, "exact">> \in overtaken

\* "Register the sender address before granting it", and "Delete an address
\* and exact grants and scopes tied to it": no exact grant is without its
\* address (api.py:1588, create_grant; api.py:1500, delete_address).  The race
\* of the two refutes this; no run checks it.
ExactGrantsAreRegistered ==
    \A u \in Users, d \in Domains : <<u, d, "exact">> \in grants => d \in registered

\* A revoked credential and a deleted domain are not authorized after the step.
NothingRevives ==
    /\ \A c \in Credentials : token[c] = "revoked" => AuthorizedDomains(c)' = {}
    /\ \A c \in Credentials, d \in Domains :
          status[d] = "deleted" => d \notin AuthorizedDomains(c)'

\* "Irreversibly revoke": once revoked, no sequence of requests authorizes the
\* credential again; the same holds for every domain once it is deleted.
RevocationIsFinal == [][NothingRevives]_policyVars
=============================================================================
