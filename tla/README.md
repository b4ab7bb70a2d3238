# Models of the identity module

This directory specifies and verifies the identity module of this repository:
accounts, passwords, sessions, roles and verified contacts, kept in SQLite or
PostgreSQL and offered to a host application as a Go API and as HTTP endpoints.
The models are about what the code does between its SQL statements: which rows
it reads, what it decides, what it writes, and what concurrent requests and
failures do in between. Strings, hashes, tokens and views are left out.

## The system

| Component | State | Operations | Interacts with |
|---|---|---|---|
| Accounts (`service/account.go`, `service/user.go`, `service/password.go`) | `identity_users`, `identity_passwords` | register, provision, login, external session issue, change and reset of passwords, enable, disable, delete | opens the transactions; calls sessions, roles, host participants, login guard, event sink |
| Sessions (`service/session.go`) | `identity_sessions` | create, resolve (with touch), revoke by token, by ID and for users, delete expired | reads accounts and claims on every resolution |
| Contacts (`service/contact.go`, `repository/contact_store.go`) | `identity_user_contacts`, `identity_contact_verifications` | start, confirm, unbind, list | calls the host's delivery provider between its statements |
| Authorization (`service/authorization.go`, `repository/authorization_store.go`) | roles, permissions and the two link tables | create, ensure, update, delete, replace the roles of a user and the permissions of a role, claims | provisioning and registration assign roles in their transaction |
| Human challenges (`pkg/identity/challenge`) | the in-memory map of the image provider | create, verify | called by the HTTP endpoints before a login or a registration |
| Module (`pkg/identity/module.go`, `options.go`) | none | composition and the host-facing API | all of the above |
| HTTP (`handler`) | none | endpoints, cookies, middleware | calls the services; keeps the resolved principal for one request |
| Events and login guard (`service/event.go`) | none (the host's) | emit, allow, record | run after the commit or outside the transaction |
| Schema and models (`repository/schema.go`, `models.go`) | none | create (by the host), validate | the keys and checks the other components rely on |

What is hard in it, and what makes each component correct:

- *Accounts.* Requests are transactions of up to eight statements which
  interleave with those of other requests. A transaction is isolated as the
  database does it: SQLite lets one transaction write at a time and refuses to
  let one write that has read something out of date; PostgreSQL runs at its
  default, read committed, as `WithinTx` passes no options, and the code takes
  no `FOR UPDATE` lock anywhere. Correct means: a disabled account has no live
  session, a live session was obtained with the password in force, a deleted
  account leaves nothing behind, a batch is all or nothing, the hash upgrade of
  a login does not undo a password change, a login does not undo a disabling,
  every request ends although statements lock rows in different orders.
- *Sessions.* Resolution reads the session, the clock and the account and
  writes `last_seen_at`, each on its own. Correct means: once ended, a session
  admits no later request; `last_seen_at` follows the use of the session. Creation
  reads the account and inserts in two statements: on PostgreSQL a disabling
  between them does not end the session (finding 1), so what is claimed of disabled
  owners is claimed on SQLite.
- *Contacts.* The provider call lies between two transactions, the clock goes
  on meanwhile, codes expire and are guessed wrong. Correct means: only what
  the provider accepted is bound, a closed verification binds nothing, guessing
  is limited, a failed confirmation loses nothing.
- *Authorization.* Deletes consist of statements outside a transaction,
  replacements of a set race, provisioning takes no lock on the roles it was
  asked for (`docs/architecture.md` says it does). Correct means: an assignment
  holds what was asked for, none refers to a row that is gone, a user's claims
  grow by an assignment and never by a deletion or what it left behind.
- *Challenges.* A map behind a mutex with a limit, expiry and single use; the
  clock is read before the mutex is taken. Correct means: an answer counts once,
  the limit holds, a challenge that is still good is not dropped.
- *Unauthenticated requests.* A login is a chain of steps with side effects in
  different places: the challenge in memory, the guard of the host, the
  transaction, the record for the guard, the event, the cookie. Correct means:
  each password check costs a challenge, every failure is recorded, guessing is
  bounded although the guard is asked before and told after, and what is
  announced has been committed.
- *Authorized requests.* A handler acts on the principal that the middleware
  resolved; account, session, permissions and profile may have changed since.
  Correct means: what it acts on was true at some time since the request came in.

`PROJECT.json` lists under `hazards` what in this code a test hardly reaches,
each at its line, with the properties that cover it.

## Modules

| Module | Models |
|---|---|
| `AccountTables` | the rows of users, passwords and sessions, and what the service promises of them |
| `Accounts` | the account requests, statement by statement, over either database |
| `AtomicAccounts` | what the account service promises: the same requests, each in one step |
| `AuthorizationTables` | the rows of roles, permissions and their assignment |
| `Authorization` | the catalogue and the assignments, statement by statement, over either database |
| `AtomicAuthorization` | what the authorization service promises: the same requests, each in one step, but for deletions |
| `ImageChallenge` | the store of the image provider |
| `LoginFlow` | login, registration and protected host actions over that store, with the guard, events and restarts |
| `AuthorizedRequests` | the routes behind the session middleware |
| `SessionLifetime` | creation, resolution, touch, revocation and expiry of sessions, over either database |
| `ContactVerification` | start, confirm and unbind of one contact kind |
| `AccountsProofs`, `AtomicAccountsProofs`, `SessionLifetimeProofs`, `AuthorizationProofs`, `ImageChallengeProofs`, `LoginFlowProofs`, `ContactVerificationProofs`, `AuthorizedRequestsProofs` | theorems |
| `MCAccounts`, `MCSessionLifetime`, `MCContactVerification`, `MCAuthorization`, `MCLoginFlow`, `MCAuthorizedRequests` | symmetry sets for TLC |

Next to some definitions stands a variant of it under a comment that begins
with *Mutant*. It is the definition with a bug of the kind one could make in
that code and takes no part in the specification. `PROJECT.json` pairs each
property with a mutant that violates it, as evidence that the property is able
to fail.

### Accounts

`users`, `creds` and `sessions` are the committed tables. `tx[p]` is the request
that goroutine `p` serves: its kind, the statement it is at (`pc`) and the Go
variables it carries, such as the credential row it read (`seen`). `draft[p]`
holds the rows its transaction wrote and did not commit; such a row is locked.
`stale` holds the goroutines whose SQLite snapshot is out of date. One action is
one repository call together with the code up to the next one: `FindUser`,
`AuthenticateUser`, `UpdatePasswordCredentialIfMatch`, `RereadUser`,
`CreateSession`, `MarkUserLogin`, and so on. `Begin` chooses a request,
`Commit` publishes the draft, `Fail` stands for any error that makes `WithinTx`
roll back: cancelled requests, lost connections, validation, a duplicate name, a
host callback that refuses. A goroutine may serve one request after the other
without end.

An UPDATE or DELETE of several rows is two kinds of steps where it matters: it
finds its rows as of its start and then takes them one by one as they are
unlocked, looking at each again (`RevokeSessionsForUsers`, `SweepSession`).
`WaitsFor` says whose end a statement waits for: the holders of row locks and
the key share locks of the foreign keys. `ForeignKeys` is off for SQLite, where
the declared keys are not enforced unless the host says so.

A session has a history field `via`, the password it was obtained with. Hashes
are represented by the password and by whether the scheme is retired, which is
what `needsCredentialRehash` asks.

`AtomicAccounts` has the three tables only. `EveryRequestIsAtomic` in `Accounts`
is `AtomicAccounts!Spec` over the committed tables: under SQLite the statements
of a request amount to one atomic step. The invariants of the tables are defined in
`AccountTables`, so both modules have the same.

### SessionLifetime

`clock`, the state of the accounts, the table, what each goroutine is doing
(with the row it read and the time it read), and for each session the time of
the last admitted request. `Resolve` is five steps: read the row, read the
clock and check, read the account, touch if due, return with the claims.
`Revoke` is two, the bulk operations are one statement or one commit. Creation is
two steps: `Create` finds the account active, `CreateSession` inserts the row.
`isolation` is chosen at the start. On SQLite the insert fails if another commit
changed the tables after the read (`stale`); on PostgreSQL it succeeds as long as
the account has a row, so it can come after a disabling that swept the sessions.
The other statements of the creating request are the subject of `Accounts`.

`late` marks a request that arrived after its session had ended (`Ended`). A
session ends for good when it is revoked, deleted or expires. That the owner is
disabled ends it for good only if it was revoked with that: on SQLite it always is,
on PostgreSQL not if its creation was under way. So `Ended` counts the state of the
owner on SQLite only, and `EndedAdmitsNothing` promises nothing of disabled owners
on PostgreSQL; without that condition TLC finds the race there. `TouchInterval` is
positive, as zero means the default in `NewSessionService`.

### ContactVerification

`verifs` and `contacts` are the tables; a contact is identified by the
verification that bound it, which has its value. `req[p]` is a request with the
rows it read; `draft` and `stale` are as in `Accounts`. `wrong` counts the wrong
codes that were answered, `proved` holds the verifications whose code the
provider accepted. `UpdateContactVerification` writes by ID whatever the row
holds by now, as in the code: outside a transaction in `ExpireSeen`, inside in
`Consume`. Ending in an error, `SQLITE_BUSY` and deadlock included, is `Fail`.
`isolation` is chosen at the start, so one run covers both databases.

### Authorization

`rows` holds the roles, the permissions and the users as far as assignments
refer to them; a code is unique per table, an ID is never used twice. `links`
are the two assignment tables. `req`, `draft` and `stale` are as in `Accounts`.
`CreateEntry`, `EnsureEntry` and `RenameEntry` are one statement each and commit
by themselves. `SetLinks` (`SetUserRoles`, `SetRolePermissions`),
`ProvisionUser`, `Register` and `DeleteUser` run inside `WithinTx`: they read the
owner, look the codes up one by one, delete what the owner holds and insert.
`DeleteEntry` (`DeleteRole`, `DeletePermission`) is up to four statements outside
a transaction, so `Fail` between two of them leaves it half done. A DELETE over
assignments starts with the rows it sees (`StartDelete`) and takes them when
they are unlocked (`DeleteLinks`); a row that was deleted and inserted again
meanwhile is not one of them (`Unpick`).

`AtomicAuthorization` has the committed tables and what each goroutine was asked
for. `Authorization` implements it under SQLite: `Atomic == INSTANCE
AtomicAuthorization WITH asked <- Asked`, where `Asked` forgets how far a request
has come.

### ImageChallenge and LoginFlow

`store` maps the ID of a challenge to the time it expires. A call to `Create` or
`Verify` reads the clock in one step and takes the mutex in another (`Put`,
`VerifyAndDelete`), so calls enter with times out of order; both steps under the
mutex are whole, as in the code. The clock is
assumed not to be set back: `time.Now().UTC()` drops the monotonic reading, so the
code compares wall clock times. `judged` counts, for
each challenge, the answers that met it in the store. `StartAgain` is a restart of the
process, which loses the map.

`LoginFlow` extends it with what a request does around the challenge: `Arrive`
chooses the operation, `AskVerify`, `Judge` and `AfterVerify` are the challenge,
`Allow` asks the guard, `Succeed`, `FailToLogin` and `LoseCommit` are the
transaction (one step, as its statements are the subject of `Accounts`),
`RecordFailure` and `RecordSuccess` tell the guard and emit the events,
`ResolveSession` and `ResolveUser` resolve the session that was issued. An
operation outside `Protected` requires no challenge. The guard is the host's; it
is a counter of recorded failures by identifier that denies at `Limit`, and it
survives a restart of the process, which the challenge store and the requests do
not. Every action of `LoginFlow` contains an action of `ImageChallenge` or leaves its
variables alone, so it is an instance of the store by its form and the properties of
the store are checked on it. A host whose guard forgets on success or over time only allows more.

### AuthorizedRequests

Each user has one session. `AskAdmin` and `AskOwn` start a request behind
`RequiredMiddleware`, or behind `OptionalMiddleware` as well, which makes a second
try at a session that did not resolve. `ReadSession`, `ReadUser` and
`ReadClaims` are the queries of `Resolve`; the handler acts later, on the
principal they made. `seen` is history: what was true at some time since the
request came in. The avatar, which is only set when the body has one, is left out.

## Runs

| Run | Shows |
|---|---|
| `sqlite_one_account` | On SQLite: types, no live session on a disabled account, sessions match the password, no orphans, and that requests are atomic (refinement of `AtomicAccounts`) |
| `postgres_one_account` | On PostgreSQL: no orphans, the hash upgrade never replaces a new password, a login never enables an account, every request ends (liveness) |
| `postgres_batches` | On PostgreSQL, two accounts: `SetState` and `DeleteUsers` change all of a batch or none |
| `postgres_login_race` | *violated*: a login commits a live session on an account disabled meanwhile |
| `session_lifetime` | On either database: a session that was revoked, deleted or expired admits nothing later, on SQLite nor does one whose owner was disabled; `last_seen_at` lags by less than the touch interval and does not go back |
| `contacts` | On either database: types, what is bound was verified, guesses are limited, contacts are lost by unbinding only; on SQLite one pending verification per user, and only a pending one binds |
| `postgres_confirm_race` | *violated*: a verification that was closed after the check still binds |
| `sqlite_authorization` | On SQLite: an assignment is exactly what was asked for, requests are atomic (refinement of `AtomicAuthorization`), a half-finished deletion gives nobody a claim |
| `postgres_authorization` | On PostgreSQL: types, no assignment refers to a deleted row and none that was asked for is missing |
| `postgres_provision_race` | *violated*: an account is provisioned with a role that was not requested |
| `logins` | The challenge store keeps its limit, answers count once, good challenges stay, nobody is turned away while there is room; each protected request costs a challenge of its own; failures are bounded and recorded; events and cookies are committed facts; all across a restart |
| `requests` | Types; an administrator acts only on a right held since the request came in; a change of profile undoes only what was written while it ran |

Deadlock checking is on in every run: some goroutine can always begin a request
or fail.

### Bounds

Two goroutines are enough for the races of accounts and contacts, which are
between a request that read and one that wrote meanwhile; either may go on to
serve further requests, so sequences such as login, disable, enable, resolve
occur. In `session_lifetime` the administrator and the clock act besides them.

- One account, two sessions, two passwords on SQLite: a session from before and
  one from after a change, and a password to change to and back. On PostgreSQL,
  where liveness is checked without symmetry, the same with one session; two
  accounts, one session and one password where batches matter.
- `session_lifetime`: Ttl 5, Idle 4, Touch 2, clock up to 6: a session created
  at 0 or 1 can be touched twice, idle out before it expires, and expire, and two
  requests that are both due for a touch can have read the clock at different
  times (Touch <= now - seen < Idle has two solutions), so touches overtake each
  other.
- Contacts: two users, one value, two verifications, two wrong codes, clock up to
  1: the value of one user can be taken by the other, a code can expire at each
  step, and wrong codes can be counted in parallel. A start writes back a
  verification as expired only if it expired before the present time
  (`contact.go:126`), which takes a clock up to 2 and is out of the run's reach; the
  confirmation, which writes back at the time of expiry, does it, and the theorems
  cover both.
- Authorization: one user, one role and one permission, with two codes, on SQLite,
  and two roles on PostgreSQL: a role can be renamed, its code be given to
  another, it can be deleted and made again; assignments on both sides of a role
  exist.
- `logins`: two goroutines, a store of one place, two challenges, a lifetime of 1
  and a clock up to 1: the store can be full of a good challenge or of an expired
  one, a goroutine can enter with an older time than the one before, and both can
  send the same answer. Two recorded failures make the guard deny, so both
  goroutines can be past it at the last one; one restart; two sessions.
- `requests`: two accounts, which may disable and delete each other and give and
  take all permissions (`Grants` has the empty set and all three), and two names.
  `MaxTime`, `MaxRestarts`, `Grants` and the number of challenges are bounds, the
  other constants are parameters of the code.

Users, sessions, challenges and verifications are never reused, as their IDs are UUIDs, so a
run ends up with goroutines that find nothing left to create; all the others
can still run.

Symmetry is used in the runs of safety properties and not in
`postgres_one_account`.

### Fairness

One run assumes any. `postgres_one_account` assumes strong fairness of `Advance(p)` for
each goroutine, that is of its next statement, its commit or the error the
database gives it. A goroutine that can run does, and PostgreSQL queues the
waiters of a lock, so that a lock that becomes free again and again reaches
each of them. `Fail` is not fair: requests end without being cancelled.
`DeadlockVictim` is part of `Advance`, as the deadlock detector always runs.

## Findings

All three are on PostgreSQL only, and none needs a failure.

1. `postgres_login_race`. `SessionService.Create` reads the account without a
   lock (`service/session.go:78`) and inserts. `SetState` may disable the
   account and revoke the sessions it sees in between. The session is live, is
   refused while the account is disabled, and works again once it is enabled.
   `docs/architecture.md:52`: "Disabling a user revokes sessions." With
   `SessionsMatchPassword` alone in place of the conjunction the run ends in the
   same way for the sentence that follows, "Password changes and resets revoke old
   sessions.": a login that has verified the old password inserts its session
   after the reset has revoked the sessions it sees. `EndedAdmitsNothing` leaves
   these sessions out, as its definition says.
2. `postgres_confirm_race`. `ConfirmVerification` checks in its transaction that
   the verification is pending, without a lock, and consumes it by ID. If it is
   closed in between, here by the wrong code that reaches the limit, the contact
   is bound all the same. `docs/architecture.md:21`: identity "enforces
   ownership and expiry, and commits the verified contact atomically".
3. `postgres_provision_race`. `ProvisionUser` looks the requested roles up with
   plain SELECTs (`service/account.go:84`); one is renamed before the commit, and
   its code may name another role by then. The account holds a role that was not
   requested. `docs/architecture.md:41`: "It locks each requested role and then
   creates the account, password credential, and role bindings atomically.
   PostgreSQL uses `FOR UPDATE`; SQLite upgrades the transaction to a writer
   lock." No such lock is in the code.

`SELECT ... FOR UPDATE` of the account, verification or role row, as the docs
describe for provisioning, closes each of them.

## Proofs

TLC checks the instances above; the theorems hold for every value of the
constants that satisfies the named assumptions of the modules.

- `AccountsTypeCorrect`: `TypeOK` of `Accounts`, under either database and any
  number of goroutines. `TypeOK` is not inductive: `FindUser` and `AfterVerify`
  name the next statement only for the kinds of request that come there. `IInv`
  adds the course of each kind (`StepsOf`) and what it has been given by then.
  One lemma says a goroutine's row may be replaced by any row on course; each
  statement is then a few lines.
- `DeletionLeavesNoOrphans` (where `ForeignKeys` holds), `PasswordsChangeOnRequest`,
  `LoginsDoNotEnable`, `BatchesAreWhole`: `NoOrphans` and the three action properties
  of `Accounts`, under either database. What a commit changes was written statements
  before, and others have committed since, so each needs the same invariant, `Lock`:
  what a transaction wrote agrees with the committed row it replaces (`UserDraft`,
  `CredDraft`, `SessionDraft`), nobody else has written that row (`Disjoint`), two
  open requests create different accounts and sessions (`Apart`), a batch has written
  all it has passed (`Batch`), and an uncommitted session or password refers to a user
  nobody is deleting (`Keys`).
- `SerializableIsAtomic` of `AccountsProofs` (where `Isolation` is `"Serializable"`):
  the refinement of `AtomicAccounts`. A commit is one abstract step only if what the
  request read at its start is still so at its end. `Serial` says that: one
  transaction has written, and each that is not `stale` can read off the committed
  rows what it has done so far (`UsersSoFar`, `CredsSoFar`, `SessionsSoFar`,
  `DeletedSoFar`). `SerializableDisablingReachesSessions`,
  `SerializablePasswordsReachSessions` and `SerializableLeavesNoOrphans` carry the
  invariants of `AtomicAccounts` over. `AccountsLeaveNoOrphans` puts the two databases
  together: a server enforces the declared keys (`ServerEnforcesKeys`), SQLite has one
  writer, so `NoOrphans` holds without a condition.
- `AtomicTypeCorrect`, `AtomicDisabledHasNoSession`,
  `AtomicSessionsMatchPassword`, `AtomicNoOrphans`: the promises of the abstract
  service. They are inductive together with the fact that a session that is live
  or revoked names an account.
- `LifetimeTypeCorrect`, `EndedSessionAdmitsNothing`, `LastSeenLagsByTouch`,
  `LastSeenNeverGoesBack`: the properties of `SessionLifetime`, for all
  durations, any number of requests and either database (of a disabled owner the
  second speaks under SQLite only). None is inductive, as what a request
  does next depends on the row it read. `IInv` relates that row to the table:
  a request that read a live row has not read a later `last_seen_at` than the
  table holds (`ReadBefore`), what is about to be admitted is close to
  `last_seen_at` (`Touched`), a late request will fail its check
  (`LateIsRefused`). Under SQLite a creation that is not `stale` has an active account
  (`Creating`) and so has a live session (`LiveIsOfActive`). The other half is `Evolves`, what any step may do to a row;
  `OthersKeepSound` shows once and for all that it disturbs no request.
- `TypeCorrect` of `AuthorizationProofs`: `TypeOK` of `Authorization`, under
  either database. What a request will insert depends on what it looked up and
  whom it is for, so `IInv` (`RequestsOK`, `TablesOK`) says for each kind of
  request at which statements it can be, what it carries there and what its
  transaction has written by then. `AssignmentsAreComplete` follows from it.
- `KeysLeaveNoDanglingLinks` (where `ForeignKeys` holds): `NoDanglingLinks`, under
  either isolation. It is not inductive, as a commit adds links that were checked
  earlier. `Keys` adds that links still to be committed refer to rows that are there,
  and that nobody has or adds what refers to a user whose deletion is about to commit,
  which is what the locks of the declared keys give.
- `ClaimsGrowByAssignment`: `ClaimsGrowOnlyByAssignment`, under either database and
  whether keys are enforced or not. `Known` says that links and requests refer only
  to rows that have been there and that a registration has a user of its own: so a
  link that dangles cannot be revived by an entry that is made anew.
- `SerializableAssignmentsAreExact` and `SerializableIsAtomic` of
  `AuthorizationProofs` (where `Isolation` is `"Serializable"`): `AssignmentIsExact`
  and the refinement of `AtomicAuthorization`. `Serial` says what a transaction that is
  not `stale` may rely on: it has found the entries that have the codes looked up so
  far (`Looked`), the owner is still there (`OwnerThere`), and its DELETE has met all
  the owner holds (`Wiped`). It is kept because whoever changes the tables marks every
  other transaction (`SerialByMark`). `ProvisionBindsRequestedRoles` shows that both
  fail without the assumption.
- `ImageTypeCorrect`, `StoreStaysBounded`, `AnswersCountOnce`,
  `GoodChallengesStay`, `RefusalsAreRight`: the properties of `ImageChallenge`, for
  any capacity, lifetime and number of goroutines. `IInv` adds to the types that a
  challenge in the map has been issued and not been judged (`OnceSound`), that no
  call knows a time still to come (`CallsAreLate`, which is why a late call to
  `put` drops nothing that is good), and that the map is finite and within its
  limit (`Bounded`).
- The lemma `RoutesUseTheStore` takes the theorems above to `LoginFlow`: its actions
  contain those of `ImageChallenge`, so this is a fact about the form of the
  definitions and no result. `LoginTypeCorrect` needs what a request
  has at each of its steps (`Stages`). `EventsAnnounceFacts` adds what a goroutine
  holds that is about to announce (`Announced`). The other three count:
  `ChecksArePaid` that passed checks and accepted answers not used up yet are no
  more than judged challenges (`PaidFor`, which takes `OnceSound` of the store);
  `FailuresReachTheGuard` and `GuessesStayBounded` that recorded failures and
  attempts past the guard are within the limit and one for each goroutine
  (`Counted`, `Guessed`). They assume finitely many goroutines and challenges.
- `ContactsTypeCorrect`, `ContactsWereVerified`, `GuessesStayLimited`,
  `OnlyUnbindLosesContact`: properties of `ContactVerification` under either
  database. `IInv` says where each kind of request can be and what it knows there
  (`RequestOK`: a confirmation past the provider has its verification in `proved`,
  a start whose code was sent has an ID of its own), what its open transaction may
  hold (`DraftOK`), and that an open row has counted every wrong code (`RowsOK`).
  `GuessesOK` counts, beside the wrong codes of a verification, the requests that
  found it open (`Asking`): a wrong answer moves one from the second count to the
  first. `Evolves` and `Births` say what a step may do to rows; `OthersKeep` shows
  once that it disturbs no other goroutine. It assumes finitely many goroutines.
- `StartReplacesPending`, `SerializedConfirmationsConsume`: `OnePending` and
  `SerializedBindsPendingOnly`, the two that hold where `isolation` is
  `"Serializable"`. `Serial` adds to `IInv` that a transaction which is not `stale` has
  swept all that was pending (`Swept`) and that what it read again is pending still
  (`Reserved`); that it writes rows of its own user (`AsksForOwn`, `BindsOwn`) holds
  under either database.
- `RequestsTypeCorrect`, `HandlersActOnCurrentRights`, `PatchesUndoOnlyMeanwhile`: the
  properties of `AuthorizedRequests`, for any accounts, grants and number of
  goroutines. Each later query of `Resolve` reads a newer state than the one before,
  so the principal is of no single moment. `IInv` relates each part of it to what was
  true at some time since the request came in (`Served`), and needs that a live
  session has an active account (`LiveIsActive`).

The inductive invariants were checked by TLC on the instances of the runs before they
were proved. Every property of the passing runs is stated by a theorem but one: the
prover does not handle liveness under fairness, so `RequestsEnd` is model-checked only.
The session invariants of `Accounts`, `AssignmentIsExact`, `OnePending`, `SerializedBindsPendingOnly`
the refinements of the two atomic specifications, and the part of `EndedAdmitsNothing`
about disabled owners are theorems for SQLite only; the
violated runs show that a server at READ COMMITTED does not give them.

## Not modelled

- Contents of names, contact values and request metadata, their normalisation
  and validation, the password policy, hash formats, tokens. No property is
  about them; names, codes and passwords are model values.
- Roles and permissions in the account requests: `Accounts` and `Authorization`
  have the statements of registration, provisioning and deletion that concern
  each of them, in the same order; the tables are disjoint but for the users.
- The host's callbacks: an event sink cannot fail an operation (`emitEvent`
  recovers), a delete participant that refuses is `Fail`, the guard is the
  counter described above.
- Schema creation and validation, option validation, wiring: start-up code.
- Remote challenge verifier: one call to another service, without state.
- Cookies, views, routing and the routes and lists that only read.
- Crashes in `Accounts`, `Authorization` and `ContactVerification`: a process that
  dies leaves its transactions to the database, which rolls them back, as `Fail`
  does. `LoginFlow` has restarts, as the challenges and the record of a failure
  are in memory.
- A system clock that is set back: sessions and contacts compare stored times.

## Plan

1. An atomic specification of contact verification that the SQLite instance
   implements, and a composition of contacts with the deletion of accounts.
2. Theorems about that specification of contacts, and the refinement that leads
   to it.
