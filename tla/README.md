# Formal models of smtp-relay-manager

TLA+ models of the SMTP relay manager: a web process in which domain owners
decide who may send mail for their domains, and an SMTP process that accepts
authenticated submissions and hands each one, within the SMTP session, to the
upstream server of the sender's domain.  There is no queue: the reply to DATA is
the upstream server's verdict, or the statement that it is not known.

All paths below are relative to `backend/src/smtp_relay_manager/` of the
repository unless they start with `backend/`, `frontend/` or `README.md`.

## 1. The system

| Component | Code | State | Operations | Interacts with | Module |
|---|---|---|---|---|---|
| Sender policy | `policy.py`, `api.py` (domains, addresses, grants, SMTP configuration, credentials), `models.py` | tables `domains`, `sender_addresses`, `sender_grants`, `smtp_configs`, `smtp_credentials`, `credential_scopes` | management requests; `authenticate_smtp`, `authorize_sender`, `validate_scope` | read by the SMTP process at AUTH, MAIL, twice during DATA | `SenderPolicy` |
| Submission and delivery | `smtp/server.py` (handlers), `smtp/service.py`, `upstream.py` | the handler task of each connection, `data_limit`, the row in `send_attempts` | `handle_MAIL`, `handle_RCPT`, `smtp_DATA`, `handle_DATA`, `relay`, `deliver`, `mark_*` | database, upstream server, client; cancelled by timeout and `connection_lost` | `RelayDelivery` |
| Delivery log, maintenance | `maintenance.py`, `smtp/service.py:160` | `send_attempts` | insert, finalize, classify abandoned, delete old | runs in the web process, beside a live SMTP process | `DeliveryLedger`, `RelayDelivery` |
| Accounts | `api.py:710-1130`, `cli.py`, `identity.py` | `users`, `invitations`, `web_sessions` | login, logout, invite, accept, reissue, revoke, update | every management request, maintenance | `AccountRules`, `Accounts` |
| Domain administration | `api.py:1166-1701`, `policy.py:60-113` | `domains.owner_user_id`, `domain_admins`, and the policy tables | register, transfer, delete, administrators, addresses, grants, configuration | accounts, sender policy | `DomainAdmin` |
| Rate limit | `security.py:117` | table `rate_limits` | consume, release | AUTH, login, maintenance | `RateLimit` |
| Listener | `smtp/server.py:263-316` and `411-533`, `smtp/__main__.py` | `_protocols`, `_drained`, `_servers`; per connection `_admitted`, `_connection_released` | admit, release, start, close, shutdown | stop signal, event loop, idle timer of aiosmtpd | `SMTPListener` |
| Certificates | `smtp/certificates.py` | active context, fingerprint, expiry | `reload`, `watch`, `_check_sni` | files replaced by an outside renewal | `Certificates` |
| Upstream connection | `upstream.py:1-380` | the endpoint, the socket, the session | validate, resolve, dial, secure, log in, close | DNS, sockets, `relay` | `UpstreamConnect` |
| Cryptography, configuration, start | `security.py:1-114`, `config.py`, `db.py`, `main.py` | none that changes | hash, encrypt, build engine and app | - | - |
| Migrations | `backend/alembic/` | the schema | one upgrade | - | - |
| Frontend | `frontend/src/` | page state | load, edit | the API | - |

### What is hard here

* **Await points.** Between the first authorization and the last byte of DATA
  the handler awaits a database, a resolver and half a dozen upstream commands.
  Managers change the policy in between, and at each await the transaction
  timeout or the loss of the connection may raise `CancelledError`, which the
  code answers differently at each point (`service.py:212`, `service.py:231`,
  `upstream.py:409`, `upstream.py:415`, `upstream.py:439`).
* **Unknown outcomes.** A connection lost after DATA began leaves the verdict
  unknown; a commit that fails may have been durable.
* **Two processes, one table.** Maintenance in the web process decides that a
  row is abandoned while the SMTP process may still own it, and the SMTP process
  overwrites whatever it finds when it finalizes (`service.py:170-182`).
* **Crashes.** The row is committed before the upstream server hears of the
  message; after a crash only maintenance can resolve it.
* **Limits.** Permits of `data_limit` are held over all of DATA.
* **Re-registration.** A deleted name can be registered again by another owner,
  with another upstream server.
* **Read, then locked.** A management request reads the caller, the role and the
  subject without a lock, and only some of it again once it holds one; what it
  goes on believing may be stale by its commit.
* **Two files, one pair.** An outside tool replaces certificate and key one after
  the other while they are read, and the clock goes on.
* **The end of the process.** Waits that nobody bounds come before the drain that
  is bounded.

`PROJECT.json` lists each of these hazards at its line, with the properties that
watch it.  What makes each component correct:

* *Sender policy*: revocation and deletion are final; one live registration per
  name; an exact grant has its address, but for one race.
* *Submission*: the reply and the log never contradict the upstream server; no
  partial delivery; a revoked credential sends nothing; a known acceptance is
  never turned into a retry; every DATA ends and gives its permit back.
* *Maintenance*: nothing stays pending; no verdict is taken back.
* *Accounts*: an active operator remains; an invitation opens an account once;
  what was revoked or deleted is not brought back by a request under way.
* *Domain administration*: only the owner of the moment transfers; a user who was
  disabled is given no domain, role or grant by others; requests do not wait for
  each other in a circle.
* *Rate limit*: failures per window are bounded; a released reservation does not
  pay for another attempt's failure, but for one race with maintenance.
* *Listener*: the cap counts sessions and nothing else, a slot is released once,
  the process ends when told to.
* *Certificates*: the context in use is one validated pair, no session begins on
  an expired one, a valid pair is activated.
* *Upstream connection*: only validated addresses are dialled, the password stays
  inside TLS, no socket is left.

## 2. The modules

### SenderPolicy

The tables `authorize_sender` reads, for one sender address and the successive
registrations of its domain name.  Each management request is one action, but for
`create_grant` and `delete_address`:

| Action | Code |
|---|---|
| `CreateDomain`, `SetDomainStatus`, `DeleteDomain`, `PutSMTPConfig` | `api.py` `create_domain` (with the unique index on `active_name`), `set_domain_status`, `delete_domain`, `put_smtp_config` |
| `CreateAddress`, `DeleteGrant` | the functions of the same names |
| `DeleteAddress`, `DeleteAddressCommit` | `delete_address`: its `DELETE` statements, its commit |
| `CheckGrant`, `CreateGrant` | `create_grant`: all of its checks, with `find_active_user`; the insert and the commit |
| `CreateCredential`, `UpdateCredentialScopes`, `RevokeCredential` | the functions of the same names, with `validated_scopes` (`ScopeLists`) and `validate_scope` (`ValidScope`) |
| `ExpireCredential` | the clock passes `expires_at` |
| `SetUserActive` | `update_user` with `active` |

`AuthorizedDomains(c)` is the set of rows of `authorize_sender`'s statement.
`status` folds `Domain.status` and `deleted_at`: what a late write does to the
status of a deleted row is not visible to any reader.  `granting` holds the grants
that are checked and not committed; the row of the user stays locked until then
(`Locked`), and nothing else does.  `clearing` holds the rows a `delete_address`
has deleted and not committed; what is inserted since is not among them.
`overtaken` is history: the exact grants committed while a `delete_address` of
their address was under way or after it (`Overtaken`).  Grants and scopes name
the address as `"*"` or `"exact"`.  Owners and operators are not among `Users`,
so `update_user`'s refusals (last operator, owned domains) do not arise here;
roles are left out.

### RelayDelivery

EXTENDS SenderPolicy.  One submission is one mail transaction of an
authenticated session; its task record `task[s]` holds what the handler's
frames, the envelope and `asyncio.timeout` hold:

| Field | In the code |
|---|---|
| `pc` | the await the handler is suspended at |
| `recipients`, `answered`, `refusals` | `envelope.rcpt_tos`; `results` of `deliver` and the classes of its refusals (`odd`: neither 4xx nor 5xx) |
| `route` | the domain whose endpoint `_prepare_attempt` read |
| `result` | how `relay` ended: success, an error response returned by DATA, an exception, an exception with no SMTP failure code, `DeliveryUncertain` |
| `code` | the class of the reply `handle_DATA` has chosen |
| `timer`, `client` | the transaction timeout; the connection |

`upstream[s]` is what the upstream server did with the message: `"data"` means
it has been handed over and no verdict is known; the server decides at any
later moment (`UpstreamDecides`), whether or not the relay still listens.
`log[s]` is the row's status, `reply[s]` the reply to DATA.

| Actions | Code |
|---|---|
| `Authenticate`, `HandleMAIL`, `HandleRCPT`, `AcquireData`, `HandleDATA` | `_authenticate_values`, `handle_MAIL`, `handle_RCPT`, `smtp_DATA`'s acquire, `handle_DATA` up to `relay` |
| `PrepareAuthorize`, `PrepareRecord` | the two statements and the commit of `_prepare_attempt` (READ COMMITTED: a management request can commit in between) |
| `Connect`, `UpstreamMAIL`, `UpstreamRCPT`, `UpstreamRSET`, `Reauthorize`, `BeginDATA`, `EndDATA`, `CloseUpstream` | `UpstreamSMTP.connect`, `deliver`, `close` with the `pre_data_hook` |
| `Finalize`, `FinalizeFails` | `mark_accepted`, `mark_failed`, `mark_unknown`, `_record_failure` |
| `SendReply` | the push of the reply and the `finally` of `smtp_DATA` |
| `TransactionTimeout`, `ClientLost` | cancellation; `Cancelled(t)` says where each await goes, `CancelledLog` that a cancelled commit may be durable |
| `Crash`, `Restart` | the SMTP process |
| `AgeAttempt`, `RunMaintenance` | time passes; `run_maintenance_once` on `send_attempts` |

The model assumes the transaction timeout is shorter than the ten minutes of
`maintenance.py:32`; the default is 120 s, the configuration does not enforce it.

### DeliveryLedger

The abstract specification of one submission: the attempt is opened before
anything is transmitted, the message is transmitted at most once, and log and
reply only ever say what the upstream server's verdict allows.  RelayDelivery is
checked to implement it (`LedgerSpec`); the three variables have the same names,
so the refinement mapping is the identity on them.

### AccountRules and Accounts

`AccountRules` is the abstract specification: each account request as one step
that runs alone, with the conditions it promises (`Accept` needs an unused,
unrevoked row of a user without a password; `Update` leaves another active
operator and refuses to disable an owner).  `Own` lets the set of owners change
freely, because the account requests only read it.

`Accounts` takes the requests apart.  Each runs in one READ COMMITTED transaction
of the web process; `request[r]` is what slot `r` is doing and how far it is,
`held[r]` the rows it has locked.  The reads before the first lock are one step;
then there is one step per `SELECT ... FOR UPDATE` and one for the commit, which
applies the writes and gives the locks back.  Nothing in between is visible to
others, so a write is not split from its commit.  A `DELETE`, an `UPDATE` or the
foreign key of an `INSERT` waits for whoever holds the row.

| Actions | Code |
|---|---|
| `LoginVerify`, `LoginCommit`, `Logout` | `authenticate` and the insert of the session; `logout` |
| `CreateUser`, `CreateOperator` | `create_user`; `cli.py` |
| `AcceptBegin`, `AcceptLockUser`, `AcceptLockInvitation`, `AcceptCommit` | `accept_invitation`: the unlocked lookup, the user, the invitation read again with `populate_existing`, the password hash awaited under both locks |
| `ReissueBegin` ... `ReissueCommit` | `reissue_invitation` and `issue_replacement_invitation` |
| `RevokeBegin`, `RevokeCommit` | `revoke_invitation` |
| `UpdateBegin`, `UpdateScan`, `UpdateLockCaller`, `UpdateLockTarget`, `UpdateCheckOwned`, `UpdateCommit` | `update_user`: the operators locked one by one in the order of their identity, the caller and the target read again, owned domains, the write |
| `Abort` | the database or the process rolls a transaction back between two statements |
| `ExpireInvitation`, `Purge` | the clock passes `expires_at`; `run_maintenance_once` on invitations and sessions |

`ImplementsRules` states that the detailed requests implement `AccountRules`,
with `owning` mapped to the range of `owner`.  `Fresh` keeps the identity of a
deleted row from being used again while a request still refers to it; the code
draws a new identifier for every row (`new_id`).  `AccountsAssumption` makes the
identities of users, invitations and domains distinct, as rows of different tables
are to a lock, and the users finitely many.

### DomainAdmin

EXTENDS Accounts by the requests on domains, taken apart the same way:
`create_domain`, `transfer_owner`, `delete_domain`, `add_admin`, `remove_admin`,
`create_address`, `delete_address`, `create_grant`, `delete_grant` and
`put_smtp_config`, each a `...Begin` action (role check and unlocked reads), the
locking statements (`FindActiveUser` is `find_active_user`, `TransferLockDomain`
the second read of the domain) and a `...Commit`.  `SenderPolicy` is what these
requests amount to on the policy tables; the statements of `delete_address` are
taken apart there.

The role is checked at the beginning and, but for `transfer_owner`, not again:
the actions go on with `request[r].by` and `request[r].item` as read then.
`put_smtp_config` checks the role, then resolves the host, then loads the row
(`PutConfigLoad`) without a lock, and writes only the columns whose
value differs from what it loaded (`loaded`, `Written`), as the ORM does; the
table's check constraint is `Storable`.  `AccountsBeside` is every account
request beside them.

### RateLimit

The buckets of one address: `Start` notes the time, `Consume` is
`consume_rate_limit` on the address's key and then the pair's, `Verify` the
authentication in between, `Release` is `release_rate_limit`, `Purge` the
maintenance.  Every transaction locks the address's bucket first, so each is one
step.  The clock counts ticks, `Second` of them to a second: the database keeps
whole seconds (`Truncated`) while `started` keeps the microseconds, which is
where the boundary cases are.  `place` is history: the end of the window in which
an attempt has a place in a bucket; `Counted(k)` are those with a place in the
window the bucket counts now.  Attempts reserve late, by up to `MaxDelay`, and
maintenance runs beside them at any moment.  `overtaken` is history: the keys whose
row maintenance deleted while an attempt for them had noted its time within the
row's window and was yet to reserve (`UnderWay`).

### SMTPListener

One `link` per connection from accept to loss, at the plain and the implicit-TLS
listener: `ConnectionMade` is called once a transport is up and again after
STARTTLS, `Admit` is `_admit_connection`, `ReleaseOnce` is `_release_connection`
behind `_connection_released`.  `main` follows the main task through
`serve_forever`, `wait_closed`, `close()` and the bounded drain of `shutdown`.
asyncio and aiosmtpd are modelled by how the source uses them; `wait_closed`
waits for every accepted connection, as it does on the Python version of the
image.  `Chatty` connections are those whose client goes on sending commands, so
that the idle timer is set again.

### Certificates

`reload()` runs on the event loop's thread: `ReadCertificate`, `ReadKey`,
`Check`, `Activate` are its steps, during which files (`Renew`) and clock
(`Tick`) move and handshakes do not.  `WatchReload` is the interval of `watch`,
`Handshake` is `_check_sni`, `Start`, `Serve`, `Crash` the process.  A
certificate and its key have the same name, so a pair matches when the contents
are equal.  `Odd` certificates make the x509 library raise an error that is no
`ValueError`; `watch` does not catch it and its task ends (`WatchDies`).

### UpstreamConnect

What `Connect` and `CloseUpstream` of RelayDelivery stand for: `Construct`
validates the stored endpoint (`validate_upstream_endpoint`), `Resolve` is
`resolve_public_addresses`, `Dial`, `Dialled`, `DialFails` the loop over the
addresses with `_connect_socket`, `Greet`, `StartTLS`, `Login` the session, `Quit`
its end; `Cancelled` may take the place of any await.  `Unique` is
the answer without its repeated records, in the order of their first appearance.  `Rebind` changes the
records of the name at any time.  A phase of `UpstreamConnect` up to `ready` is
one `Connect` step of RelayDelivery, from `ready` to `closed` its dialogue and
`CloseUpstream`.  The lexical rules of `normalize_upstream_host` and the ranges
of `_is_public_address` are the sets `Names` and `Public`.

### Instances

`MCRelayDelivery`, `MCSenderPolicy`, `MCAccounts`, `MCDomainAdmin`, `MCRateLimit`,
`MCCertificates` and `MCUpstreamConnect` define the constant functions.  Two of
them also narrow the behaviours to what can be enumerated: `SteadySpec` starts
from a policy that authorizes everything and leaves it alone, for the runs about
failures; `MixedSpec` picks, once per behaviour, which requests meet (those on an
owner, those on roles and grants, those on operators).

Operators named in a comment "Mutant" are plausible bugs of the definition they
precede.  The specifications do not use them; they show that the property they
are paired with can fail.

## 3. What the runs check

| Run | Instance | Properties | What it shows |
|---|---|---|---|
| `relay_pair` | 2 submissions, 1 permit, 1 recipient | `TypeOK`, `KnownAcceptanceIsReported`, `OnlyPendingIsSent`, `PermitsAccounted`, `VerdictsAreFinal` | contention for the permit, every failure, crash and maintenance at every point |
| `relay_policy` | 1 submission, 2 registrations, all management requests | `ReplyTruthful`, `LogTruthful`, `LedgerSpec`, `RevokedIsNeverSent` | truth of reply and log, the refinement, and revocation at every point before the check ahead of DATA, under any policy history |
| `relay_live` | 1 submission, 3 recipients, fair | `AllRecipientsBeforeData`, `TemporaryRefusalIsRetryable`, `DataEnds`, `PendingIsResolved` | every mix of replies to RCPT; nothing hangs, nothing stays pending |
| `policy_tables` | 1 credential, 2 registrations, both address forms | `PolicyTypeOK`, `OneRoute`, `StrayGrantsWereOvertaken`, `RevocationIsFinal` | the tables by themselves, a grant and the deletion of its address statement by statement |
| `relay_route` | as `relay_policy` | `RouteIsAuthorized` | **violated**, see below |
| `accounts_invitations` | 3 users, 2 invitations of one of them, 2 requests at a time | `OneInvitation`, `ImplementsRules` | accept, reissue, revoke, disable, expire and purge race; each commit is its abstract rule |
| `accounts_pending` | 2 users, 2 invitations | `PendingCanBeInvited` | **violated**, see below |
| `domain_requests` | 2 users, 1 domain, 2 requests at a time, three mixes | `DomainTypeOK`, `OperatorRemains`, `NoLockCycle`, `ImplementsRules`, `OnlyOwnerTransfers`, `OnlyActiveUsersGain` | requests on domains and accounts interleaved statement by statement |
| `rate_limit` | 4 attempts, 2 identities, limits 2 and 1 | `RateTypeOK`, `FailuresAreBounded`, `ReleasesAreExact` | window ends, late reservations, late releases, maintenance, in any mixture |
| `listener` | 4 connections, 2 at each listener, cap 2, 1 talkative, fair | `ListenerTypeOK`, `SlotsAccounted`, `StopEnds` | the cap over every path of a connection; the end of the process |
| `certificate_reload` | 3 certificates, clock 0..3, fair | `CertTypeOK`, `ActiveIsOnePair`, `SessionsBeganValid`, `PairIsActivated` | files replaced while they are read, expiry, restart |
| `upstream_connect` | 2 public addresses, 1 private, 7 endpoints, fair | `UpstreamTypeOK`, `OnlyPublicDialled`, `PasswordOverTLS`, `NoSocketIsLeft`, `ConnectEnds` | answers that change, mixed answers, failure and cancellation at every await |

Deadlock is checked in all runs but two: the clock of `rate_limit` is bounded, and
in `listener` the process exits for good.

### Bounds

* *Relay.* Submissions share nothing but permits, the process and maintenance, so
  two and one permit show every contention; `relay_pair` fixes the policy and
  `relay_policy` the number of submissions because the policy is only read.  Two
  registrations suffice for re-registration.  One recipient more than the two a
  mixed answer needs shows that the order of refusals does not matter.
* *Policy.* One `delete_address` of a registration is under way at a time, and in
  `DomainAdmin` an address is registered again once those that found its earlier row
  have ended; the identity of the row, which the models leave out, tells them apart
  in the code.
* *Requests.* `Slots` bounds the requests under way.  Two requests show every
  race between a stale read and a commit, and every circle of two; circles of three
  or more are excluded by proof only (`NoLockCycleBeside`).  Three users are an operator, a second one
  made on the command line and the invitee; the invitations are all for one user,
  because requests on different users' invitations share no row.  Two users are
  enough on domains: owner and other.  Each is in turn the one who acts, gains and
  is disabled.
* *Rate limit.* A window of two seconds and two ticks to a second is the smallest
  that has an attempt inside a second, at its boundary, and a later second of the
  same window.  `MaxTime` reaches the last tick of a second window, or, when the
  first began late, one in its middle.  `MaxDelay` is
  what an attempt may lose between noting the time and reserving; two ticks, a
  second, are enough for another attempt to restart the window in between.  Three attempts of
  one identity fill both of its windows and ask for one more; the fourth competes
  for the address.
* *Listener.* Two at each listener with a cap of two: full, refused, and full
  again after a release.
* *Certificates.* One pair ends while another begins, the third has another
  host's name and the odd extension; the clock stops after the first has expired
  and before the second has.
* *Upstream.* An answer is empty, one address, two, one with a repeated record,
  one with a private address among public ones, or private; the endpoints are what
  one request stores for each kind of security and host, and what two concurrent
  updates can leave.

### Fairness

* `FairSteadySpec` (relay): weak fairness of `ServiceStep`: every upstream command
  has `command_timeout`, connecting has `connect_timeout`, and the event loop runs
  what is ready, so each of these steps is eventually taken with *some* outcome;
  no outcome is promised.  Weak fairness of `TransactionTimeout`
  (`asyncio.timeout`), of the passage of time (`AgeAttempt`) and of the hourly
  maintenance without deletions (`maintenance_loop` survives its errors).  Nothing
  is assumed of clients, managers, the upstream server, restarts or retention.
* `FairListenerSpec`: handshakes and upgrades end (`ssl_handshake_timeout`), the
  idle timer runs out unless a command comes, a closed transport is lost, the main
  task goes on.  Nothing is assumed of clients or of a second signal.
* `FairCertSpec`: the interval fires and `reload()` runs to its end.  Nothing is
  assumed of the clock, the files, clients or the supervisor.
* `FairUpstreamSpec`: every await has a timeout of its own.  That the task is ever
  cancelled is not assumed.

### Exceptions stated in the properties

* `LogTruthful` allows `failed` for a response to the message that is no SMTP
  verdict (`smtp/server.py:92` and `:231` record it as failed although the outcome
  is unknown).  `VerdictsAreFinal` allows the relay to replace maintenance's
  `unknown` by its own result.
* `NoLockCycle` excepts an update whose caller or target became an operator behind
  its scan (`PromotedBehind`): the row is then locked out of order, and the
  database breaks the circle with an error.
* `FailuresAreBounded` allows two windows' worth of failures in a stretch: with
  fixed windows a stretch may touch two.  The stretch is as long as a window only if
  attempts reserve at once; otherwise it is shorter by `MaxDelay`.  The reason
  is that a place is counted in the window that is current when it
  is reserved, so an attempt that noted its time before a window ended may take a
  place in the next one, and a whole window's stretch can touch three.  TLC shows
  three failures in one stretch with `PairLimit = 1`, `Second = 2`, `Window = 4`,
  five attempts, `MaxTime = 9` and `MaxDelay = 3`.
* `ReleasesAreExact` excepts a success whose second is earlier than that of the
  attempt that opened its window: its place is not given back, since
  `release_rate_limit` takes the window for a later one.
* `FailuresAreBounded` and `ReleasesAreExact` except the buckets in `overtaken`:
  maintenance deleted them ahead of an attempt that reserves late, which then opens
  a window that begins inside the old one.
* `StrayGrantsWereOvertaken` says of which exact grants the address may be missing:
  those committed while a `delete_address` of it was under way, or after one that
  came between check and commit.
* `OnlyActiveUsersGain` is about transfers, roles and grants; a registration gives a
  domain to the caller, who may have been disabled meanwhile (`OwnersAreActive`, below).
* `StopEnds` excepts a client that goes on sending commands, `PairIsActivated` a
  watching task that has died.

### The violations

`RouteIsAuthorized` (`relay_route`) says that when the check before DATA passes,
it passes for the domain whose upstream server is about to get the message.
`relay()` keeps the endpoint it read when the attempt was prepared and ignores the
domain the second check returns (`smtp/service.py:198-200`), which `policy.py:195`
documents as "The approved domain to route through."  TLC's counterexample: the
attempt is prepared for the first registration; its owner deletes it, another
owner registers the name, it is approved, the user is granted the address and
the credential's scopes are updated; the second check passes for the new
registration and the message goes to the first one's server.

`PendingCanBeInvited` (`accounts_pending`) says that a pending user has an
invitation row, which is what `api.py:1105` ("Reissue an invitation for a pending
user.") needs to find the user.  TLC's counterexample: the user is created, the
invitation expires, maintenance deletes it (`maintenance.py:53`).  `create_user`
refuses the name as taken and the reissue answers 404.  Disabling a pending user
has the same effect at once.  `NoWayBack` of AccountRules, proved below, says that
this state is final.

### What the models refute besides

These have no run of their own; each follows from the modules as they are, by
checking the definition named on the instance named.

* `ExactGrantsAreRegistered` (`policy_tables`; one registration and the exact address
  are enough): an exact grant has its address, as `api.py:1500` ("Delete an address
  and exact grants and scopes tied to it.") and `api.py:1588` ("Register the sender
  address before granting it") have it.  `create_grant` finds the address,
  `delete_address` deletes it with the exact grants of the moment, the grant commits.
  `authorize_sender` never looks at `sender_addresses`, so the grant is effective
  without its address.
* `OwnersAreActive` (`domain_requests`): no live domain belongs to a disabled user,
  which `update_user` means to ensure (`api.py:1025`, "Transfer owned domains before
  disabling the user").  `create_domain` checks the caller, the caller is disabled,
  owning nothing yet, and the registration commits.
* `NoFailureIsCleared` (`rate_limit`): a bucket counts every failure of its window
  while it lasts ("Release successful auth reservations without clearing failures",
  `security.py:179`).  Two attempts note their time in the same second; one reserves,
  the window ends, maintenance deletes the row, the other reserves in a row of its own
  whose end is that of its noted time, and fails; the release of the first takes that
  row for its own (`security.py:196`).
* `ConfigIsWhole` (`domain_requests`): two updates of one configuration, each
  writing the columns that differ from what it loaded, leave authentication
  "none" beside a password.  `UpstreamConnect` starts from such rows too: the
  connection refuses them.
* Without its exception, `StopEnds`: `wait_closed` waits for a client that talks
  on, before the bounded drain has begun.
* Without its premise, `PairIsActivated`: a certificate with a duplicate extension
  ends the watching task and later renewals are not seen.

## 4. What is proved

Eight modules of proofs, checked by TLAPS for every value of the constants that
the named assumptions allow (`RelayAssumption`, `PolicyAssumption`,
`AccountsAssumption`, `RateAssumption`, `ListenerAssumption`,
`CertificatesAssumption`, `UpstreamAssumption`).  Every safety property of the
passing runs is proved, action properties and refinements included.

| Module | Theorem | States |
|---|---|---|
| `RelayDelivery_proofs` | `TypeCorrect`, `Inductive` | `TypeOK`; `RelayInv`, the inductive invariant |
| | `RepliesAreTruthful`, `LogIsTruthful`, `AcceptanceIsReported`, `RecipientsComeFirst`, `SentUnderPendingRow` | `ReplyTruthful`, `LogTruthful`, `KnownAcceptanceIsReported`, `AllRecipientsBeforeData`, `OnlyPendingIsSent` |
| | `RefusalsAreRetryable` | `TemporaryRefusalIsRetryable` |
| | `RefinesLedger` | `LedgerSpec`: the relay implements DeliveryLedger |
| | `VerdictsStay` | `VerdictsAreFinal`, from the refinement |
| | `PermitsAreConserved` | `PermitsAccounted` |
| | `RelayKeepsPolicy` | `Spec => PolicySpec`: the policy's theorems hold beside the relay |
| | `RevocationStopsSubmissions` | `RevokedIsNeverSent` |
| `SenderPolicy_proofs` | `PolicyTypeCorrect`, `OneRouteOnly`, `RevocationIsForever` | `PolicyTypeOK`, `OneRoute`, `RevocationIsFinal` |
| | `OnlyOvertakenGrantsAreStray` | `StrayGrantsWereOvertaken` |
| `Accounts_proofs` | `AccountsInvariant` | `AccountsInv`, the inductive invariant |
| | `AccountsTypeCorrect`, `AnOperatorRemains`, `OneInvitationAtMost` | `AccountsTypeOK`, `OperatorRemains`, `OneInvitation` |
| | `NoLockCycleOfAccounts` | `NoLockCycle` |
| | `AccountsImplementRules` | `ImplementsRules`: the requests implement AccountRules |
| | `NoWayBackForPending` | `NoWayBack` for the detailed requests |
| `DomainAdmin_proofs` | `DomainInvariant`, `DomainTypeCorrect` | `DomainInv`, the inductive invariant; `DomainTypeOK` |
| | `OwnershipIsTransferredByOwners`, `GainsGoToActiveUsers` | `OnlyOwnerTransfers`, `OnlyActiveUsersGain` |
| | `NoLockCycleBeside` | `NoLockCycle` for accounts and domains together |
| | `AnOperatorRemainsBeside`, `InvitationsBeside`, `RequestsBesideImplementRules` | `OperatorRemains`, `OneInvitation` and `NoWayBack`, `ImplementsRules` of `DomainSpec` |
| `RateLimit_proofs` | `RateTypeCorrect`, `RateInvariant` | `RateTypeOK`; `RateInv`, the inductive invariant |
| | `ReleasesCountExactly`, `FailuresStayBounded` | `ReleasesAreExact`, `FailuresAreBounded` |
| `SMTPListener_proofs` | `ListenerInvariant`, `ListenerTypeCorrect`, `SlotsAreAccounted` | `ListenerInv`, `ListenerTypeOK`, `SlotsAccounted` |
| `Certificates_proofs` | `CertInvariant`, `CertTypeCorrect`, `OnePairIsActive`, `SessionsBeginValid` | `CertInv`, `CertTypeOK`, `ActiveIsOnePair`, `SessionsBeganValid` |
| `UpstreamConnect_proofs` | `ConnectInvariant`, `UpstreamTypeCorrect` | `ConnectInv`, the inductive invariant; `UpstreamTypeOK` |
| | `OnlyPublicAreDialled`, `PasswordIsEncrypted`, `SocketsAreClosed` | `OnlyPublicDialled`, `PasswordOverTLS`, `NoSocketIsLeft` |

**The relay.** None of the safety properties is inductive: that the reply is
right when it is sent depends on what the task knew steps earlier.  `RelayInv`
ties the program point to the other variables: `OutcomeInv` (what a result says
about the upstream server and the reply class), `PointInv` (before DATA nothing
was transmitted and the row is pending; afterwards it is pending or, if
maintenance came first, unknown), `RecipientInv` (the count of answers at each
point), `AgeInv` (only a task past its timeout has an aged row, which is why
maintenance cannot classify a row whose message is yet to be sent) and
`TruthInv` (the properties themselves).  A step of one submission leaves the
others `Untouched`; cancellation is one lemma, `CancelledInv`, with one case per
await.  `RefusalInv` adds, relative to `RelayInv`, that a code chosen after a
temporary refusal is not permanent: `RecipientInv` says no refusal is on record
past the last recipient, so only RSET and its cancellation compute a code from
the refusals.

**The ledger.** From `RelayInv` each step that writes `log`, `reply` or
`upstream` is one action of DeliveryLedger, and every other step a stutter:
`ServiceStepRefines`, `CancellationRefines` and `SurroundingsRefine` for the
three kinds of actors.  A late `Finalize` is a ledger step because `PointInv`
says the row it overwrites is pending or unknown, never a verdict
(`VerdictSettles`).  `VerdictsStay` then follows from the ledger alone.

**The permits.** `AcquireAccounts` and `ReleaseAccounts` add and remove one task
of `Busy` with one permit; every other step, cancellation included, moves
between program points that both hold a permit or both hold none
(`StepsKeepPermits`, `CancellationKeepsPermits`), and a crash frees both.

**Revocation.** `RevokedIsNeverSent` says something of all that follows a state, so
it needs no history: `Stopped(s)` (the credential is revoked, nothing was
transmitted, the task is not at `send` or `data`) holds of a submission revoked in
time, because `RelayInv` says nothing was transmitted before the check, and no step
leaves it.  Only `Reauthorize` leads to `send` (`OnlyReauthorizedIsSent`), and it
asks for a credential that is live; no cancellation leads there
(`CancelledSendsNothing`); no manager revives a token (`EndsAreFinal`, by way of
`RelayKeepsPolicy`).

**The policy.** `OneRouteOnly` rests on `OneLive`, what the unique index on
`active_name` guarantees.  `StrayGrantsWereOvertaken` needs `ClearingCovers`: while a
`delete_address` is under way, the exact grants of its registration are those it has
deleted and those committed past it; its commit then leaves the latter only.
`RevocationIsFinal` is inductive with the table types.

**The accounts.** That an operator remains when an update commits depends on what
its scan found several steps earlier, and that an accepted invitation is still
open on what its locks kept away.  `AccountsInv` joins types and locks
(`TablesOK`, `LocksOK`), the two properties themselves and what each request knows
at its stage: in `UpdateStage`, an update that goes on to remove an operator has
seen, and still holds, another active one (`Protected`); in `InvitationStage`, an
accept that hashes the password holds a user without one and a row that is open or
has expired since.  What a request knows
concerns rows it holds, and no two requests hold the same row, so a request that
stages, reads or aborts keeps what the others know (`StageKept`, `ReadInv`), a
commit writes only rows it holds or that nobody does (`CommitInv`), and the
requests of one step, time and maintenance keep away from held rows
(`BesideInv`).

**The rules.** With `AccountsInv`, each commit is the step of AccountRules of the
same name and every other step a stutter.  `NoWayBackForPending` carries
`NoWayBack`, shown of the abstract steps, over to the detailed requests.

**The locks.** A request that holds more than users' rows waits for nobody
(`Orderly`), and one past the users' rows waits for rows that only such requests
hold.  What is left of a circle are scans of the operators, each waiting for a row
behind all it holds (`ScansAscend`): the one that holds the largest row of them all
(`Largest`) waits for none.  `NoCircle` is that argument, for any finite number of
users and any set of requests, with `Orderly` as its premise; requests on
invitations and on domains are shown to meet it.

**The domains.** `DomainInv` joins `AccountsInv` with the tables and what each
request on a domain knows: its subject is registered, or nobody else has it in hand
(`SubjectStage`); the user it is about was found active under a lock it still holds,
and the owner of a domain about to be transferred was read again under the domain's
lock (`GiftStage`); a configuration is loaded only by the request that saves it and
its row stays (`LoadedStage`).  Account requests leave domains alone and disable no
user whose row is locked (`AccountsFrame`); a commit on a domain writes only what
nobody else has locked (`EndInv`).  `AccountsInv` is stated so that owners may
change beside it, as long as nobody who is about to be disabled gets one: the
foreign key of `create_domain` and `find_active_user` see to that.  Then `NewOwner`
and `GivenToActive` say who changes what, and for the rules of accounts every
request on domains is `Own`.

**The rate limit.** `FailuresAreBounded` speaks of times and places, the buckets of
counts.  `RateInv` connects them by `place`, for every key whose row maintenance has
not deleted ahead of an attempt (`overtaken`; from then on two windows of the key may
overlap, and neither property holds of it).  A bucket's count is the number of
attempts with a place in its window, and two windows of one key are equal or a window
apart (`KeyInv`); while a key has no row, its windows have ended for everyone who is
yet to reserve (`EndedInv`, which is what makes a deletion harmless); an attempt's
place lies in a window that ends after its time and at most a window and the delay
later (`PlaceInv`); and nobody reserves later than the delay allows (`DelayInv`).
Hence a stretch shorter by the delay sees at most two windows, each with at most
`PairLimit` failures (`TwoWindows`).  `Truncated` is where whole seconds matter:
`LastWholeSecond`.

**The connection.** `DialInv` says that what has been dialled is the validated answer
up to the loop's turn, `SocketInv` that the one open socket is that of the turn,
`SecretInv` what the session may do with the password at each phase.  `Unique` is a
choice among all sequences (`UniqueProperties`), so no induction is needed.

**The listener.** `PlacesFollowLinks` ties each connection's link to `admitted`,
`released` and `protocols`, which `CapAndEvent` then counts; a second
`connection_made` and the two reports of a failed upgrade are the cases that
matter.

**The certificates.** `ActiveIsOnePair` is not inductive: between the check and
the activation the pair is in `snapshot` only.  `CheckedPair` says of a reload
about to activate that its snapshot is a matching pair of the right name that has
begun to be valid, `StartedLoaded` that a process ready to serve has one; that
time only grows does the rest.

**Model-checked only.** Liveness (`DataEnds`, `PendingIsResolved`, `StopEnds`,
`PairIsActivated`, `ConnectEnds`) is out of the prover's reach, as ENABLED is.  The
properties that the models refute are shown by counterexamples, not proofs.

## 5. Not modelled

* Wording and exact codes of replies (only their class matters), message content
  and headers beyond accepted or not, base64 and the AUTH dialogue.  Several
  transactions on one connection are several submissions.  aiosmtpd's idle timer
  is one of the causes of `ClientLost` in RelayDelivery; what a cancelled handler
  still writes after its session was released is in RelayDelivery, not in
  SMTPListener, which knows sessions only.
* Hashing, encryption and tokens: calls into libraries without state of their own.
* Configuration, engine and application start: read once, at start.
* Migrations: one schema creation; its unique indexes and check constraints are
  guards of the modules.
* Listing endpoints and the frontend: presentation.  The ordering of answers in
  its log view is not modelled.
* A login while its user is disabled leaves a session on record that is worth
  nothing until the user is enabled again.  The model reaches it; nothing in the
  repository says whether it should be so, and no property is stated.
* Two updates of one credential's scopes at once: `update_credential_scopes` is
  one step in SenderPolicy.
* Crossing identities: one address name per domain, one domain in `domain_requests`.

## 6. Plan

Done: the relay, the policy, the ledger and its refinement; the accounts with
their rules and refinement; domain administration; the rate limit; listener,
certificates and upstream connection; the theorems above.

Next, in this order:

1. A theorem for the columns of a saved configuration: what `Storable` and the
   merge of two updates still guarantee.
2. The steps of `UpstreamConnect` as an implementation of `Connect` and
   `CloseUpstream` of RelayDelivery.
3. The bounded part of liveness that is safety: what is left to do before DATA ends
   decreases with every step of the relay.
4. Scope updates of one credential taken apart into their statements.
