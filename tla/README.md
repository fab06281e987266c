# OpenSSO: TLA+ models, checks and proofs

OpenSSO is a self-hosted identity provider: a stateless Go backend (any number
of replicas) in front of PostgreSQL and Redis. This directory keeps TLA+ models
of the parts of it whose correctness depends on the order in which concurrent
requests reach the database, TLC configurations that check them on small
instances, and TLAPS proofs of their safety for any number of requests, users,
sessions, codes, tokens and replicas. Source paths below are relative to
`backend/internal/`.

## Inventory

What all parts share: a request runs on one replica and talks to PostgreSQL at
READ COMMITTED through a pool of 20 connections (`database/database.go`). A
statement outside a transaction commits by itself, so two statements of one
handler can be separated by anything another request does. `SELECT ... FOR
UPDATE` waits for the row and reads its newest committed version. `UPDATE` and
`DELETE` work on the rows committed when the statement began. Requests can be
cancelled and replicas can die at any point; the transaction then rolls back.

| Part | State | Operations | Hard behaviour | What makes it correct |
|---|---|---|---|---|
| Token endpoint (`httpapi/oauth.go`) | `authorization_codes`, `refresh_tokens`, `oauth_access_tokens` | code exchange, refresh, reuse detection, client credentials, revocation, introspection | racing exchanges and refreshes, family revocation against a refresh in progress, deadlocks, lost responses | one heir per code, nothing lost or duplicated on failure, families confined to a client, revocation complete |
| Authorization and consent (`httpapi/oauth.go`) | `oauth_authorization_requests`, `oauth_consents`, sessions, MFA policy | authorize, consent screen, approve, deny | double submission, merge of consents, policy changed while the screen is open | codes carry approved scopes only, one code per form |
| MFA (`mfa/`, `httpapi/mfa.go`) | TOTP row, WebAuthn credentials and user handle, recovery codes, Redis ceremonies, session assurance | enroll, confirm, disable, register, delete, verify, regenerate, reset, policy | check-then-act on factors, reset in the middle of an enrollment or verification | only proven factors, last factor kept, one recovery batch, no assurance across a reset |
| Accounts and sessions (`httpapi/server.go`, `stage1.go`, `portal.go`) | user row with lockout counter, password, sessions | login, logout, revoke, unlock, (de)activate, reset and change of password | logins in progress across a reset, concurrent guesses, a failed count of one, half-done deactivation | guesses bounded as far as they are counted, sessions end at a cutoff, forced change after a reset |
| Signing keys and SAML certificates (`oidc/keys.go`, `samlidp/certificates.go`) | key rows, one active | use, rotate, renew | first use and rotation on several replicas | no collision, always an active key, signatures stay verifiable |
| SAML SSO (`samlidp/storage.go`, `httpapi/saml_admin.go`) | `saml_authn_requests`, assignments | store request, continue, callback | replays and double callbacks, two users on one request | one answer per request, for the assigned user who completed it |
| UserInfo, ID tokens, introspection (`httpapi/oauth.go`) | access-token rows, users, clients | issue, userinfo, introspect, revoke | deactivation, disabling or a new secret between two statements of a handler | answers rest on facts that held during the request |
| Connection pool (`database/database.go`) | connections | acquire, release | grants that take a second connection while holding one | every request ends |
| Rate limiters (`httpapi/oauth.go`, `server.go`, `mfa/service.go`) | Redis counters | increment, expire | two commands, failure between them | admissions bounded, the address is let in again |
| Start-up, migrations (`cmd/opensso/main.go`, `database/database.go`) | schema, recorded versions | migrate, first keys, listen | replicas that start, crash and restart at the same time | each migration once and in order, nobody serves too early |
| Bootstrap, RBAC (`httpapi/server.go`, `rbac.go`) | `system_state`, role assignments | bootstrap, permission check, assign and remove | concurrent first requests, permission lost after the check | one bootstrap for ever, roles only from holders of `rbac.write` |
| Application and group administration (`httpapi/application_admin.go`, `groups.go`) | catalogue tables | enable, disable, secrets, assignments, memberships | they meet requests in progress | part of the properties above |
| Branding, portal, audit, frontend, configuration | settings, audit rows | read and write single rows | little | - |

How the parts interact: login creates sessions that every other part reads
(module `Accounts`); the MFA part marks sessions as verified, and the
authorization endpoint decides by that mark and the policy whether a session
may ask for a code; codes go to the token endpoint, which signs with the active
key, each grant on two connections of the pool; access tokens are then used
against users, clients and secrets that administrators change; SAML completes stored requests under a session and signs with the active
certificate. Before any of that a replica migrates the schema and obtains its
keys. All of it meets in shared PostgreSQL rows; there are no messages
between replicas.

## Modules

| Module | Models |
|---|---|
| `TokenGrants` | the token endpoint |
| `GrantLineage` | abstract specification: a code is a baton handed over once, afterwards one refresh token is its heir |
| `TokenGrantsRefinement` | the refinement mapping from `TokenGrants` to `GrantLineage` |
| `TokenGrantsProofs` | theorems about `TokenGrants`, the refinement, and `TokenRequests` |
| `TokenRequests` | `TokenGrants` composed with the bounded connection pool |
| `AccessTokens` | issuing, use, introspection and revocation of access tokens, composed with `RateLimiter` |
| `RateLimiter` | the Redis counter of one client address |
| `AuthorizeConsent` | authorization endpoint and consent screen of one client |
| `MfaFactors` | the factors, ceremonies and assurance of one user |
| `Accounts` | one local account and its sessions |
| `SigningKeys` | OIDC keys or, chosen by the initial state, SAML certificates |
| `AccessTokensProofs`, `AccountsProofs`, `AuthorizeConsentProofs`, `MfaFactorsProofs`, `SamlSsoProofs`, `SigningKeysProofs` | theorems about the module they are named after |
| `Deployment` | replicas from start-up on: migrations, first keys, bootstrap and roles, composed with `SigningKeys` |
| `DeploymentProofs` | theorems about `Deployment`, among them that it implements `SigningKeys` |
| `SamlSso` | SAML single sign-on at one service provider |
| `MC...` | symmetry sets for TLC |

### Correspondence with the code

`PROJECT.json` maps every definition to source lines. Conventions:

- A handler with one transaction is two or three actions: the locking read with
  the checks after it, and the commit of its writes. A handler with autocommit
  statements has one action per statement, and `req[w].pc` names the next one.
- A handler that refuses before its first write ends its request or does not
  start; `FailRequest` and `Abort` end a request at any other point.
- `TokenGrants`: `txn[w]` is the transaction of worker `w`, `lock` the row
  locks. `FamilyUpdateStart` takes the snapshot of `UPDATE ... WHERE
  family_id`, `FamilyUpdateRow` locks row by row, `FamilyUpdateCommit` commits.
  `known` holds the tokens whose response arrived: a client can present no
  other. `overlapped` is a history variable.
- `MfaFactors`: `Authenticate` reads the session (`withPrincipalRaw`),
  `AllowMFAMutation` reads the factors later and admits the request, as the
  code does. Recovery codes are a batch per generation, with the used ones
  marked. `resets`, `proven` and a request's `epoch` are history.
- `Accounts`: `cutoffs` counts resets and deactivations; a session carries the
  count at its login. `spared` collects sessions that a login in progress or a
  failed second statement of `updateUser` spares. `guesses` counts the wrong
  passwords that are answered: by `RecordFailure` with the counter, and by
  `AnswerUncounted`, where the UPDATE of the counter failed and `login` answers
  401 all the same; `uncounted` says how many of the latter there were.
- `AuthorizeConsent`: `approved` is history. `SubmitConsent` looks at no policy,
  as in the code.
- `SigningKeys`: `advisory` is the transaction-scoped advisory lock. A rotation
  retires the rows its statement sees and inserts the new row, and both become
  visible with the commit. A caller keeps its key and may sign much later.
- `TokenRequests`: `conn[w]` says how a request uses the pool. A grant holds one
  connection from `Begin` on, and asks for another while its transaction is open
  (`TakeSecond`, `ReturnSecond`); the three such uses of one grant follow each
  other and are one here. `HangUp` is the client's cancelling, which ends any
  wait. Every action of `TokenGrants` that takes part is conjoined with what it
  does to the pool.
- `AccessTokens`: a handler has one action per statement; `req[w].pc` names the
  next. `seen[w]` collects which facts (client valid, user active, token live)
  were true at some moment of the request, so that a property can say "held
  while the request was in progress" without assuming when it was read.
- `Deployment`: a worker of `SigningKeys` is a replica here. `phase` is its
  progress through `main`; `Exit` is any end of the process, including
  `os.Exit(1)` after a failed statement, and `Start` the container's restart.
  `effects` is the list of migrations whose SQL took effect. The bootstrap
  transaction's row lock is its entry in `job`. `assigned` has the rows of
  `role_assignments` with the two roles that the migrations give `rbac.write`,
  Super Admin and Admin: only they decide who passes `require` on the role
  endpoints (`Permitted`). `assignRole` and `removeRole` take any role.
- `SamlSso`: an assignment through a group changes for any set of users at once
  (`GainAssignment`, `LoseAssignment`), which covers memberships, assignments of
  groups and their deletion. Expiry is compared with `now()`, which PostgreSQL fixes at the start
  of the transaction, so the model tests it where the transaction begins.
  The XML and signature work of the SAML library is external; the model has the
  storage calls it makes. Metadata replaced by `updateSAMLApplication` and the
  ACS URL kept in the request row are not told apart.

## Runs

| Run | Result | What it shows |
|---|---|---|
| `token_grants` | pass | `OneHeirPerCode`, `GrantsConserved`, `FamilyConfined`, `RevocationComplete`, `RevokedNeverRefreshed`; the inductive invariant `IInv`; refinement of `GrantLineage` |
| `token_live` | pass | `PoolConserved`; `EveryRequestEnds`: every token request ends, unless concurrent grants have used up the pool |
| `token_race` | violation | an active token survives the revocation of its family |
| `consent` | pass | `CodesApproved`, `OneCodePerForm`, `GrantsLostByOverlapOnly`; the inductive invariant `ConsentInv` |
| `mfa_sequential` | pass | the documented promises `ActiveSecretProven`, `OneRecoveryBatch`, `LastFactorKept` hold for one request at a time; the inductive invariant `FactorsCounted` |
| `mfa_concurrent` | pass | `NoAssuranceAcrossReset`, `NoResurrection` with two requests at a time |
| `mfa_unproven` | violation | a secret is activated that no OTP was shown for |
| `mfa_last_factor` | violation | concurrent removals take the last factor |
| `accounts` | pass | `GuessesBounded` (answered wrong passwords, with one more for each whose count failed), `CutoffEndsSessions`; `ForcedChangeProven`: a forced change is lifted only by a request that proved a password current at that time; the inductive invariant `AccountsInv` |
| `deployment` | pass | `MigratedOnceInOrder`, `ServingIsReady`, `BootstrappedOnce`, `RolesFromAdministrators` (a role of an administrator comes from bootstrap or from one who held `rbac.write` at the check), and `RotationsDoNotCollide`, `SignaturesVerifiable`, `AlwaysAKey` for OIDC keys and SAML certificates, all under crashes and restarts |
| `access` | pass | `TokensJustified`, `AnswersJustified`, `RevocationConfined`; `AdmissionsBounded`, `LimiterReopens`; the inductive invariant `AccessInv` |
| `saml_sso` | pass | `OneAnswerPerMessage`, `SubjectFixed`, `SubjectCleared`; the inductive invariant `SsoInv` |

The violations are places where documentation and code disagree; each has an
entry with the quoted line under `findings` in `PROJECT.json`. In
`mfa_sequential` the MFA properties hold, so the disagreements are due to
concurrency alone.

The type invariant of a module is a part of the inductive invariant its run
checks (`IInv`, `PoolConserved`, `ConsentInv`, `FactorsCounted`, `AccountsInv`,
`AccessInv`, `SsoInv`); that of a deployment, `DeployTypeOK`, is proved
(`DeployTypeCorrect`) and not checked again.

`GuessesBounded`, `EveryRequestEnds` and `LimiterReopens` hold with an exception
each, and TLC refutes them without it. `login` ignores the error of the UPDATE
that counts a wrong password and locks the account, so a guess answered while
that UPDATE fails is not held against the account. As many concurrent grants as the pool has connections
can hold one each and wait for the second one (`Exhausted`); with 20 connections
that takes 20 grants in the same moment, and lasts until a client hangs up. And a
counter whose `EXPIRE` was lost stays for ever.

More consequences of check-then-act are visible in the models without a run
of their own: a change of the own password that overlaps an administrative reset
replaces the administrator's password and clears the forced change; the last
role with `rbac.write` can be removed, after which bootstrap stays closed; an
Admin can assign Super Admin, to himself too, although the migration describes
the role Admin as "Broad administrative access except Super Admin-only controls"
(`database/migrations/0004_stage1_completion.sql:19`); of two consents approved at the same time one overwrites the
other's scopes (which is why `GrantsLostByOverlapOnly` excepts overlap); the MFA
policy is evaluated when the consent screen is shown and not when it is
submitted; two concurrent regenerations leave two batches of recovery codes; a
WebAuthn registration in progress stores its credential after an administrative
reset. `PROJECT.json` lists them under `hazards`.

### Bounds

- Two workers: every race found or excluded is between two requests; a third
  adds waiting. The invariants and action properties are proved for any number.
- `TokenGrants`: three tokens allow a family with two rotations, or a refresh
  during a revocation; a second client makes confinement non-trivial.
- `AuthorizeConsent`: `openid` and one more scope, so that a stored consent can
  be too small; two forms, so that approvals follow and overlap one another.
- `MfaFactors`: two secrets, keys, ceremonies and recovery batches, one
  reset. `Ops` selects the endpoints: `mfa_sequential` has all but the
  administrator's change of policy, `mfa_concurrent` those around TOTP and
  recovery codes, and the policy.
- `Accounts`: threshold 2 and `MaxFails` 4, so that the counter passes the
  threshold; `MaxUncounted` 1, so that a guess goes uncounted before or after the
  others count; `MaxCutoffs` 2, so that a session can be two cutoffs old.
- `TokenRequests`: pools of two and three for two requests, so that they can and
  cannot exhaust it; three tokens, so that two family updates can deadlock.
- `AccessTokens`: two requests on one token that either of two clients may own;
  `Limit` 2 and `MaxCount` 3, so that the limiter admits, refuses and starts anew.
- `Deployment`: two replicas, two migrations, two users with two roles, so that an
  administrator loses the permission while he assigns a role, and three keys, hence a
  rotation behind a first use, with crashes at every step. `SamlSso`: two users, messages and rows.
- Identifiers are finite. In `TokenGrants` and `MfaFactors` all may be used
  up, and `TokenRequests` has an exhausted pool too, so these runs do not check for
  deadlock; the other runs do.

Symmetry is used in safety runs only.

### Fairness

`token_live` assumes strong fairness of each worker's steps as a whole
(`PoolFairness`): a handler goes on, PostgreSQL queues the waiters of a row and
pgxpool those of a connection in order, and the deadlock detector chooses a
victim. New requests and clients that hang up are not assumed: a request must
end without them.

`access` assumes that Redis expires a counter whose expiry is set
(`WindowEnds`) and that a handler which created a counter goes on to its `EXPIRE`
or fails there (`SetExpiry`). Nothing else is needed, so nothing else is
assumed.

## Proofs

`TokenGrantsProofs` proves, for any sets of workers, codes, tokens and clients:

- `InductiveInvariant`: `Spec => []IInv`, and from it `TypeCorrect`,
  `SingleHeir`, `Conservation`, `Confinement` and `RevocationCovers`;
- `NoRefreshAfterRevocation`: the action property `RevokedNeverRefreshed`;
- `Refinement`: `TokenGrants` implements `GrantLineage`.

Assumed of the constants: `None` is no member of any set, and codes and tokens
are disjoint (`ConstantsAssumption`).

The safety properties are not inductive: they speak of committed rows, while a
commit relies on what its transaction read earlier. `IInv` adds what makes that
reliance sound. `IssuerOwnsItsGrant`: a transaction about to commit new tokens
holds the lock of the code or token it read, which is therefore still unused,
neither consumed nor revoked, and its new identifier is nobody else's.
`UpdateCoversFamily`: a running family update has the lock of every row it
marked, and its snapshot is the whole family unless a refresh overlapped it.
`RowsStemFromCodes`: stored tokens descend from used codes through stored rows.
The step proof has a lemma per kind of step: opening an issuing transaction,
quiet steps that write no table, the two commits of tokens, the commit of a
revocation, and the environment. The refinement needs in addition that every
used code has an unconsumed descendant (`HeirExists`), so that the heir, given
by `CHOOSE`, exists and is unique.

`SigningKeysProofs` proves, for any number of replicas and keys, `NoCollision`,
`Verifiable` and `KeyAvailable` from `KeysInv`. The reason is in
`LockHeldByRotation` and `RotationFits`: the advisory lock is held exactly from
its acquisition to the commit, so the rows a rotation has retired are still the
active rows when it inserts. `KeysHaveRows` and `SomeKeyActive` say that keys
never lose their row and that a non-empty table has an active one.

`DeploymentProofs` proves, for any number of replicas, migrations, keys and users:

- `DeploymentImplementsSigningKeys`: a replica that starts, crashes or restarts
  takes steps of `SigningKeys` or none; a crash is an abort of its rotation. The
  theorems about keys carry over (`DeploymentNoCollision`,
  `DeploymentVerifiable`, `DeploymentKeyAvailable`);
- `MigrationsOnce` and `ReadyToServe`, from `SchemaInv` (a replica has passed
  applied migrations only, and a transaction that ran a migration is alone with
  it, hence at the first one not applied) and `HandedKey`;
- `OneFounder` and `RolesGranted`, from `RoleInv` (a bootstrap in progress is the
  only one and finds the installation uninitialized; the actor of an assignment
  holds `rbac.write`, as Super Admin or as Admin, or lost it after the check).

Assumed: `None` is no replica, key or user, and the number of migrations is a
natural number (`KeyConstants`, `DeploymentConstants`).

The bounded pool (`TokenRequests`, in `TokenGrantsProofs`), for pools of any size:

- `PoolImplementsGrants`: a request with a connection takes steps of
  `TokenGrants` or none, so the theorems above hold on a pool however small
  (`PoolKeepsGrants`);
- `PoolConserves`: `PoolConserved` is inductive as it stands. What has to be shown
  is that the count `InUse` changes by what the one request that acts takes or
  gives back (`UseChanged`), and that every end of a transaction ends its use.
  It assumes that finitely many requests are in progress (`PoolAssumption`).

`AccountsProofs`, from `AccountsInv`, for finitely many requests in progress
(`AccountConstants`) and any sessions, passwords and threshold:

- `Lockout`: `GuessesBounded`. `GuessesInProgress` adds the wrong guesses that
  were compared and are not yet answered: an account that is not locked has
  room below the threshold, and once it is locked nobody starts to guess. An
  answer that is not counted moves both sides of the bound by one;
- `Cutoff`: `CutoffEndsSessions`, from `OldSessionsEnded`, which says the same
  of sessions of a deactivated account, since the account may come back;
- `ForcedChange`: the action property `ForcedChangeProven`, from `ChangesProven`.

`AuthorizeConsentProofs`, from `ConsentInv`: `ApprovedOnly`, `SingleCode` and the
action property `ConsentsKept`. `ConsentsApproved` carries approval from the
stored consent to what a request has read of it; `AnsweredFormsHeld` says that a
form being answered is locked by its user's request and not consumed before.

`SamlSsoProofs`, from `SsoInv`: `RepliesOnce`, `SubjectsCleared` and
`SubjectsFixed`. `ReadRowsHeld`: a transaction holds the row it has read, which is
therefore still open or completed when it writes; `ConsumedOnce`: the callback
that consumes a row is the only one to answer it.

`AccessTokensProofs`, from `AccessInv`: `AtMostLimit`, `GrantsJustified`,
`UsesJustified` and the action property `RevokedByOwner`. `RequestProven` says
for each statement of a handler what the ones before it have found;
`AdmissionsCounted` relates the admissions to the counter.

`MfaFactorsProofs`, for any number of concurrent requests, from `FactorsInv`
(no transaction holds a TOTP row that does not exist; a request admitted before
a reset has a revoked session): `AssuranceEndsWithReset` and `NoRevival`.
`ActiveProven`, `OneBatch` and `LastFactorStays` have `OneRequestAtATime` as
hypothesis, and `LastFactorStays` also a policy that does not change: the code
guarantees them under no weaker one. The runs `mfa_unproven` and
`mfa_last_factor` show two requests at a time breaking the first and the last,
two regenerations at a time leave two batches of codes, and a policy
that begins to require MFA between the check and the removal does not stop the
removal. `SequentialInv` says that what the one request has read is still so
unless a reset removed it, `FactorsCounted` that a removal in progress leaves a factor.

In each of these modules the step proof has a lemma per action or per group of
actions that write the same rows. `None` is assumed to be no member of the other
constants, and the bounds to be natural numbers; the `MaxFails`, `MaxUncounted`, `MaxCutoffs`,
`MaxResets` and `MaxCount` that keep TLC's instances finite are arbitrary.

Only model-checked: the liveness properties `EveryRequestEnds` and
`LimiterReopens`, since fairness is out of the prover's reach.

## Not modelled

- Cryptography, XML, hashing and encodings: a signature, hash or code stands for
  itself.
- The frontend, the end-to-end tests, the health probe and the reading of the
  configuration: no state of their own.
- The roles without `rbac.write`, their assignment by `assignRole` and
  `createUser`, and the other permissions: what `require` asks for elsewhere only
  refuses requests.
- Audit rows, branding and read-only listings: nothing reads them back to decide.
- Names, mail addresses, descriptions and redirect URIs, and the creation of
  users, groups and applications: single statements or transactions on rows that
  no property tells apart.
- `splitScope` and the password policy: functions of characters. The operations
  on sets of scopes built on them are in `AuthorizeConsent`.
- SAML metadata replaced while a request is stored: the request keeps the ACS URL
  it was validated with, and which certificate the metadata names is decided in
  the SAML library.
- The redirect of RP-initiated logout; its revocation of the session is
  `RevokeSession` of `AuthorizeConsent`.

## Plan

Done: all components with state that concurrent requests share; every invariant
and action property the passing runs check is also a theorem.

1. Theorems about several components together: `AuthorizeConsent` on the sessions
   of `Accounts`, and the abstract specifications of a session and of a consent
   they implement.
2. `AuthorizeConsent` on users and clients shared with `AccessTokens`: a client
   whose scopes shrink while the consent screen is open.
3. `SamlSso` with several service providers and replaced metadata.
