# A verification of sso-frvm

TLA+ models of the SSO of the FRVM (`src/`), the TLC runs that check them, and
the theorems about them that TLAPS proves. Paths below are relative to the
repository's root (`src/` there, `src/src/...` in `PROJECT.json`).

The program is a NestJS server: one Node process, PostgreSQL through TypeORM,
and Redis. Two kinds of users log in. A **student** logs in through a client
application: the SSO checks the password with the university's service
(Autogestión), hands the application a one-use code, and the application
exchanges it for an access token (a JWT nobody can revoke) and a refresh token
(one row in `refresh_tokens`). An **admin** logs in with a password and a TOTP
code, and manages the client applications and the other admins.

## Inventory

| part | state it keeps | operations | what makes it correct |
|---|---|---|---|
| Refresh tokens, `refresh-token/services` | table `refresh_tokens`: family, owner, client, used, revoked, expiresAt, sessionExpiresAt | save, consume, revokeFamily, revokeAllForSub, revokeAllForClient | one token of a family can be exchanged at a time; a spent one reveals a theft and ends the family; the absolute limit is inherited |
| Student sessions, `auth/services/auth.service.ts` | none of its own | issueCode, exchangeCodeForTokens, refreshTokens, logout | every session ends; closed sessions stay closed; suspended clients get none |
| Authorization codes, `code/services` | a `Map` in memory | generate, consume, purgeExpired every minute | a code is exchanged once, in time, by the client it was issued to |
| OAuth clients, `oauth-client/services` | table `oauth_clients`; Redis `pending-secret:*` | create, update, remove, regenerateSecret, sendCredentialsByEmail, suspend, activate | a new secret is told once to the admin who asked for it and sent once, by a link that names its client; no write undoes another |
| Credential links, `credential-token/services` | table `credential_tokens` | generate, consume | a link shows its secret once |
| Admin accounts, `admin/services`, `database/seeders` | table `admins` | create, updateSelf, remove, seed | there is always an admin; a removed admin stays removed |
| Admin login and 2FA, `admin-auth/services` | columns of `admins`; rows in `refresh_tokens` | login, setup2fa, confirm2fa, validate2fa, reset2fa, refresh, logout | tokens only after a TOTP code of the stored secret |
| Pending challenges, `admin-auth/services/pending-challenge.service.ts` | Redis `pending-2fa:*` | create, verify, consume, recordAttempt | used once, for its purpose, after at most `maxAttempts` codes, and gone after its TTL |
| JWT guards, `auth/guards` | none | canActivate | a token opens its own endpoints only, and not for long after its session ends |
| Durations, `refresh-token`, `auth` and `admin-auth/services` | none | toDate, parseExpiresIn | the database, the tokens and the answers count the same time |
| Bootstrap, `main.ts`, `app.module.ts` | none; rate counters in memory | bootstrap, the throttler | no default secret in production; the documented limits |
| Migrations, `database/migrations` | the schema | up, down | old rows fit the entities; an update gets stuck on no row but a secret longer than the limit |
| Pages, `public/` | none | the form of the login, the page of a credential link | the page asks for a secret once |

How they interact. Every operation is an HTTP handler that calls services and
awaits the database, Redis, bcrypt, JWT signing, the university's service or the
mail server. Handlers of different requests interleave at every await; nothing
in the code locks, and only two operations open a transaction (the removals of a
client and of an admin). Several parts write the same rows: `AuthService`,
`AdminAuthService` and the removals all write `refresh_tokens`; `AdminService`
and `AdminAuthService` both save whole `admins` entities they read before. What
is hard, then, is what happens *between* two statements of one handler: state
checked before an await and used after it, a write that undoes a newer one, a
handler that dies half-way, a token presented twice, and the arithmetic of
expiry with milliseconds in the database and seconds in JWTs. `PROJECT.json`
lists these hazards by line.

## Modules

| module | what it is |
|---|---|
| `RefreshTokenStore` | the table `refresh_tokens` as a value, and one operator per SQL statement of `RefreshTokenService` |
| `StudentSessions` | exchange, refresh and logout, and the suspension, activation and removal of a client, as processes that interleave over that table, with a clock |
| `SessionLifecycle` | abstract: the life of a session |
| `ChallengeLifecycle` | abstract: the life of a challenge of the admin login, without clock, Redis or handlers |
| `AuthorizationCodes` | the `Map` of `CodeService`, the handlers that fill and empty it, the purge timer and restarts |
| `ChallengeStore`, `PendingChallenges` | the `pending-2fa:*` keys of Redis and its commands and script; the handlers of the admin login that create, verify and spend challenges, with a clock and resent commands |
| `EntityTable` | `save(entity)` of TypeORM as the two statements it is: `SELECT`, then an `UPDATE` of what differs, or an `INSERT` (under the old id where the key is a UUID, under a new one where it is a sequence) |
| `AdminTwoFactor` | login, setup2fa, confirm2fa, validate2fa, reset2fa over `ChallengeStore` and the admin's row |
| `AdminSessions` | token pairs of admins: issue, refresh, logout, and the removal of an admin, over `RefreshTokenStore` |
| `AdminAccounts` | create, updateSelf, remove, the seeder, and the restarts at which it runs |
| `OAuthClients`, `CredentialLinkStore` | the client applications, their pending secret in Redis, the e-mail, the credential links and the page that opens them |
| `SecretDelivery` | abstract: the way of a secret to its two readers, the admin who had it generated and whoever opens its link |
| `AccessTokens` | the JWTs, the guards, and what each endpoint takes |
| `Durations` | how `"15m"` or `"1.5h"` is read in three places |
| `Bootstrap` | the start of the process, as the environment decides it |
| `Migrations` | the schema, forth and back, over rows of any version |
| `Throttling` | the rate limits |
| `MCStudentSessions`, `MCAdminTwoFactor`, `MCAdminAccounts`, `MCAdminSessions`, `MCOAuthClients` | symmetry for TLC |
| `MCStudentLogin`, `MCServer` | put in one run modules that share no variable: `part` says which of them takes steps. As nothing is shared, and each property looks at one part only, a behaviour of all is a shuffle of one of each, and nothing is lost |
| `StudentSessionsProofs`, `AuthorizationCodesProofs`, `PendingChallengesProofs`, `AdminTwoFactorProofs`, `AdminSessionsProofs`, `AdminAccountsProofs`, `OAuthClientsProofs` | the theorems of one module each |
| `ServerProofs` | the theorems of the parts of `MCServer`, each under its own specification: `AccessTokens`, `Durations`, `Bootstrap`, `Migrations` |

How the modules divide one part. The admin login is three modules that look at
the same handlers from different sides: `PendingChallenges` has the clock, the
loss of answers and the counter of attempts; `AdminTwoFactor` the admin's row
and the secrets, with challenges that may end at any instant; `AdminSessions`
what the tokens become after it. A module that leaves out what another has
replaces it by something that allows at least as much (`Expire` at any instant,
`AdminSessions!SaveEntity` for every save of an admin). That the challenges of
the first two are the same is a pair of refinements: both implement
`ChallengeLifecycle`.

### How state and actions correspond to the code

*Handlers as processes.* Node runs a handler alone up to its next `await`. In
all models `req[r]` is the handler of request `r`: `at` names the await it waits
on, and the other fields hold what it has read. One action resumes one handler
and carries it to its next await that matters, so an action does one SQL
statement or Redis command at most. A reading of the clock that a result depends
on is an action too. `Abort(r)` is an await that rejects: database, signing,
mail, bad secret, and so on. A crash of the process is `Abort` of every request
where nothing else is kept in memory, and the action `Restart` in
`AuthorizationCodes` and `AdminAccounts`, where a start does something.

*Statements on several rows.* PostgreSQL runs an `UPDATE` on the rows it finds
when it begins, and makes it wait for rows that an open transaction has changed
(READ COMMITTED). The revocation of a family, of a client's sessions or of an
admin's is therefore two actions, one that looks (`RevokeSession`,
`SuspendRevoke`) and one that sets (`RevokeRows`, `SuspendRows`): a token
inserted in between is missed. The removals of a client and of an admin are
three: `RemoveUpdate` looks, `RemoveLock` has the rows to itself (`Locked`, and
what it sets is not visible yet), `RemoveCommit` deletes the row and commits. A
login, a refresh or another revocation may come between any two of them.

*Operators named `X_Y`* with a capital after the underscore
(`Consumable_Reused`, `UpdateFind_NoLookup`), each before the definition `X` it
imitates, are plausible mistakes and used by no action; `PROJECT.json` puts each
in the place of `X`, to see that a property would notice.

| `StudentSessions` | code |
|---|---|
| `rows` | `refresh_tokens`, keyed by token. Tokens are members of `Token` (each has a random `jti`; the hash of a token stands for it). `type` is always `student` here, `sub` plays no part |
| `client[c]` | `is_active`, or `"gone"` when there is no row |
| `ExchangeValidate`, `ExchangeSign`, `ExchangeLimit`, `SaveFirst` | `exchangeCodeForTokens`: `validateClient`'s `findOne`; bcrypt and the signatures; the limit of the session; the insert |
| `RefreshVerify`, `ConsumeWin` / `ConsumeLose`, `Lookup`, `CheckExpired` / `CheckPassed`, `ReadExpiry`, `ReadSeconds`, `SignNext`, `SaveNext`, `RevokeSession`, `RevokeRows` | `refreshTokens`: `verifyAsync`; the conditional `UPDATE` of `consume`; the `findOne` that tells reuse from revocation; the two expiry checks, at one instant; `effectiveExpiry`; the seconds left; the signatures, with the clock of `jsonwebtoken`; the insert, with that of `toDate`; the revocation of the family |
| `LogoutFind`, `RevokeSession`, `RevokeRows` | `logout`, that is `revokeFamily` |
| `ClientFind`, `SuspendRevoke`, `SuspendRows`, `SuspendSave`, `ActivateSave`, `RemoveUpdate`, `RemoveLock`, `RemoveCommit` | `suspend`, `activate`, `remove` of a client. A save whose row has gone puts one back under another id, so the client of the old id stays gone |

| `AuthorizationCodes` | code |
|---|---|
| `codes` | the `Map`; an entry without `userInfo`, which is only passed through |
| `issued`, `opened` | history: the entries ever generated, and the sessions stored for each code. `issued` gives fresh codes and says which codes a client can present |
| `IssueFind`, `IssueGenerate` | `issueCode`: the client is found, the university's service answers, the code is stored |
| `ExchangeFind`, `ExchangeConsume`, `ExchangeSave` | `exchangeCodeForTokens`: `validateClient`'s `findOne`; after bcrypt, `consume` and the comparison of clients; the session is stored |
| `PurgeExpired`, `Restart`, `ClientChanges` | the timer of `CodeService`; the end of the process; `suspend`, `activate`, `remove`, by their effect on the row |

| `PendingChallenges` | code |
|---|---|
| `store` | Redis. The payload without `adminId`, which the handlers take from the token; `expires` is the end of the key's time to live, or empty for a key without one. Redis still has a key at the instant it ends, with a PTTL of 0 |
| `token[j]` | the `exp` of the pending JWT with jti `j` |
| `Login`, `DrawJti`, `Create`, `Sign` | `login` after the password; `issuePendingToken`: the jti, the `SET`, the signature |
| `VerifyJwt`, `Verify` | `verifyPendingToken`: `verifyAsync` and the `GET` |
| `Consume`, `RecordAttempt` | `setup2fa` with `GETDEL`; `confirm2fa` and `validate2fa` with the Lua script. The last disjunct of each (and of `Create`) is a command that ran and whose answer was lost: the driver sends it again, or `Abort` reports a failure |

| `AdminTwoFactor` | code |
|---|---|
| `admins` | `totpSecret` and `totpEnabled` of each row; a secret stands for itself, as its encryption is injective |
| `token[j].login`, `owner`, `opened`, `confirmed`, `renounced` | history: the password login a pending token descends from, whose each TOTP secret is, the sessions opened, who has proved a code, who has reset |
| `Login`, `Issue` | `login` and `issuePendingToken` |
| `VerifyPendingToken`, `Find`, `SetupConsume`, `RecordAttempt` | the heads of `setup2fa`, `confirm2fa`, `validate2fa`: the challenge is looked at; the admin is read and checked; the challenge is spent, and the entity changed |
| `Select`, `Update`, `Insert`, `Saved` | `adminRepository.save` and what follows it, of these three and of `reset2fa` and `updateSelf` |
| `IssueTokenPair` | `issueTokenPair` |

| `AdminSessions`, `AdminAccounts` | code |
|---|---|
| `PairFind`, `SavePair`; `RefreshVerify` ... `RevokeSession`; `LogoutFind` | `issueTokenPair`; `refresh`, with the look at the admin (`RefreshFind`); `logout`. A token may be found expired at any time: admins' sessions have no absolute limit |
| `AdminFind`, `RemoveUpdate`, `RemoveLock`, `RemoveCommit`, `SaveEntity` | `remove`: `findOne`; `revokeAllForSub`'s `UPDATE` in the transaction; the `DELETE` and `COMMIT`; every other handler that found the admin and saves it |
| `late` | history: the tokens stored while their admin was between the `UPDATE` and the `COMMIT` of a removal, or had no row any more |
| `CreateFind`, `CreateSave`; `UpdateFind`, `CheckName`, `Select`, `Update`, `Insert`; `RemoveFind`, `RemoveCount`, `RemoveCommit` | `create`; `updateSelf`; `remove`, with `count()` before the transaction. The unique index on `username` is `UniqueName` |
| `Restart`, `SeedFind`, `SeedSave` | a new start in development, and `AdminSeeder.seed`; requests are served once `boot = "up"` |

| `OAuthClients` | code |
|---|---|
| `clients`, `pending`, `links`, `mailed` | `oauth_clients`; Redis `pending-secret:*`; `credential_tokens`; the links in an inbox |
| `drawn`, `accepted`, `retired`, `told`, `shown` | history: the secrets that were generated, which rows have had which secret, ids that were removed (ids come from a sequence), how often a secret was in an admin's answer, how often a link's page has shown its secret |
| `CreateSave`, `StorePendingSecret`, `AnswerSecret` | `create`: the row; the pending secret; the answer, with `plainSecret` in it, which reaches the admin |
| `UpdateClient`, `Suspend`, `Activate`, `RegenerateSecret`, `Select`, `Update`, `Insert`, `Saved` | the handlers that save an entity they found, or put it back as a new row with a new id (`NewId`) if it has gone; `regenerateSecret` then stores the pending secret under the id it was saved with, and answers |
| `ConsumePendingSecret`, `SendFindClient`, `GenerateLink`, `SendMail` | `sendCredentialsByEmail`: `GETDEL`, the client, the link's `INSERT`, the mail |
| `ConsumeLink`, `Show` | `POST credentials/:token/consume` by `script.js`, whose conditional `UPDATE` marks the link used; the answer reaches the page |
| `ExpireLink`, `ExpirePending` | `expiresAt` passes; the key's time to live ends |

| `AccessTokens` and the rest | code |
|---|---|
| `StudentPair`, `AdminPair`, `PendingToken` | what `AuthService` and `AdminAuthService` sign, with which secret, `type` and life |
| `AuthController` ... `OAuthClientController` | which token each endpoint asks for |
| `able`, `Begin`, `End`, `Return` | who has a session or can open one; a handler past its checks, about to sign; the session ends, by any of the ways above; it is opened again |
| `Durations` | `parseExpiresIn`, `toDate`, and `jsonwebtoken` with the library `ms` (`Timespan`), over every unit the latter knows, amounts with a decimal and bare numbers |
| `Bootstrap` | `bootstrap()` step by step; a variable holds the value of `.env.example`, one of the installation's own, or none |
| `Migrations` | one operator per migration: tables and columns it adds, and the limit on `clientSecret`; `Up` and `Down` run one of them over the rows there are, and `Insert` is the program of the day. A secret that an early version kept may be longer than the limit |
| `Throttling` | `ThrottlerModule.forRoot`, `@Throttle`, and the count of the guard |

Time. `StudentSessions` counts ticks, `TicksPerSecond` to a second: columns keep
ticks (milliseconds in the program), `exp` claims and `expiresIn` whole seconds
rounded down, and read at different instants. With `TicksPerSecond = 2` a run
has what `TokenWithinSession` and `RowWithinSession` claim does not happen: a
token, or its row, that outlives the limit of its session. `AuthorizationCodes`
compares milliseconds with milliseconds, so a tick needs no unit there.
`PendingChallenges` has both units again. `AccessTokens` counts seconds.

## What the runs show

| run | parts and instance | properties |
|---|---|---|
| `sessions` | `StudentSessions`: 2 requests, 1 session of up to 3 tokens, half-second ticks | `LinearRotation`: of the unused tokens of a session and the rotations in progress there is one at most; `FamilyUniform`: limit and client of a session never change; `EndedStaysEnded`: a session whose tokens `consume` would all refuse stays so and gets no other, although a row may outlive the session's limit; `SuspensionHoldsOnceDrained`: once the requests that overlapped a suspension are over the client gets no session; `SessionsLiveOnce`: refinement of `SessionLifecycle` |
| `codes` | `AuthorizationCodes`: 2 requests, 2 codes, 2 clients, restarts; `StudentSessions`: 1 request, 1 session of up to 3 tokens; both with fairness | `OneSessionPerCode`; `RightClient`; `AcceptedInTime`, although the timer may be late; `CodesForgotten`: every code leaves the `Map`; `SessionsEnd`: in the end no token can be redeemed, however often they are rotated |
| `challenges` | `PendingChallenges`: 2 requests, 2 challenges, 2 attempts | `GrantedOnce`: a challenge lets one handler through; `ForItsPurpose`; `AttemptsBounded`: also for codes sent at once |
| `two_factor` | `AdminTwoFactor`: 2 requests, 2 admins, 4 pending tokens, 2 secrets | `OneSessionPerLogin`: a password login opens one session at most, by setup and confirmation or by validation; `OwnCode`: with a code of a secret of the same admin; `EnabledAfterCode`: 2FA is not on before a code was accepted |
| `accounts` | `AdminAccounts`: 2 requests, 3 admins, 3 names, 2 passwords, restarts | `RemovedStaysOutOnceDrained`; `PasswordsStay`; `ListensSeeded` |
| `admin_sessions` | `AdminSessions`: 3 requests, 1 admin, 2 sessions of 3 tokens together | `SessionsLiveOnce`: refinement of `SessionLifecycle`; `RemovedGetsNoToken`: once the requests that had found an admin before its removal are over it gets no token; `RemovalClosesSessions`: no token of an admin without a row can be used, but one stored after the removal's `UPDATE` |
| `clients` | `OAuthClients`: 2 requests, 2 clients, 2 secrets, 2 links | `ShownOnce`: a secret can be sent from one place at most, is shown once by its link, and told once to the admin; `OwnSecret`: a link's secret has been that of the row it names; `DeliveredOnce`: refinement of `SecretDelivery`; `SuspendedUntilActivated` |
| `server` | `AccessTokens`: 1 student, 1 admin, 2 requests; `Durations`; `Bootstrap` with up to two variables that are not the installation's own; `Migrations` with 3 rows | `RightAudience`: every endpoint with every token; `AccessEnds`: within the life of an access token; `OneDuration`: the program's readers agree, and `jsonwebtoken` with them exactly on durations written plainly; `NoDefaultsInProduction`; `RowsFitEntities`; `OnlyLongSecretStopsUp`: no row makes a migration fail but a long secret, and no migration but the one that limits it |
| `doc_*` | as above | one documented claim each, which the code does not keep; see Findings |

Each run has a `TypeOK` too. Without symmetry in `codes`, because of its
liveness properties, and in `challenges`, which is small enough.

*Bounds, and why they are enough.* All sets of ids are finite in the runs. In
`sessions` two requests on one session are each race that one of two handlers
can lose: a winner of `consume` between its `UPDATE` and its `INSERT` against
one that finds the reuse, logs out, suspends or removes the client; each of
them, when it is over, may be followed by any other. Three tokens are two
rotations, so that a successor is itself rotated. `admin_sessions` has three
requests, so that a removal meets a refresh and a logout (or another removal)
between its statements, and two sessions of one admin, which a removal closes
together. That a statement hits another client or admin is left to the theorems,
which hold for any number of them. In the other parts two requests are enough
for each hazard listed: one that read, and one that writes meanwhile. In
`two_factor` four pending tokens are two logins by way of setup, or one and two
validations. The clock stops at `MaxTime`; `WithinHorizon` (in `StudentSessions`
and `AuthorizationCodes`) lets only those sessions and codes begin whose limit
lies before that, so expiry is always reached, and nothing escapes a property by
starting too late. In `sessions` half-second ticks, one second of inactivity and
a session of one and a half seconds make the rounding bite. The part of `codes`
about sessions has one request, because its property concerns a chain of
rotations and not a race, and a limit longer than the inactivity period, so that
the chain is needed to reach it. Two attempts distinguish the one that is
written back from the one that ends the challenge. A challenge lasts less than
the clock, so that its last instant, and what comes after, occur. `Data` has one
value in `clients`: no property but `OnlyActivateActivates` looks at it.
`Amount` holds the amounts of the configuration and its neighbours, zero among
them, small enough for TLC's 32-bit integers even in years; each is taken with
every unit and every tenth. `MaxOdd` is two: what the start does with a variable
that is not its own depends on no more than one of them at a time. The runs set
`CHECK_DEADLOCK FALSE` where the system may be idle for good, when the clock has
stopped and all ids are used; `server` does not.

*Fairness.* `StudentSessions!FairSpec`, `AuthorizationCodes!FairSpec`, and
`MCSpec` of `codes` after them, say that time passes, that an awaited promise is
settled in the end, either way (drivers and the event loop do that), and that
the timer of `CodeService` fires. No one is bound to make a request. The safety
properties assume no fairness.

*Refinement.* `SessionLifecycle` is what the code promises of one session: none,
then open, then rotating and open in turn, and closed for good; it changes its
chain of tokens only by one successor per rotation. `StudentSessions` and
`AdminSessions` are mapped to it by `phaseOf` and `chainOf`, which read the
phase off the rows of a family and the rotations in progress. The abstract
`Close` may close several sessions at once, as a suspension or a removal does.
`SecretDelivery` is what the code promises of the secret of a client, which has
two readers. `phase` is its way to the link's: held by the server, then in a
link, then shown, or lost at any point, and never back. `answer` is its way to
the admin's: due from the moment it is drawn, then told, or lost with the
request. `OAuthClients` is mapped to it by `phaseOf`, over the table, Redis, the
links, the mail and the handlers, and by `answerOf`, over the handlers and what
they have answered. `ChallengeLifecycle` is what the code promises of a
challenge: its token is sent once, it takes fewer than `MaxAttempts` wrong codes
while it is open, and once over it is never open again. `PendingChallenges` is
mapped to it by its keys, its tokens and its clock, and `AdminTwoFactor` by its
keys and tokens (`ChallengesLiveOnce` in each, checked by `challenges_life` and
`two_factor_life`, on the instances of `challenges` and `two_factor`, and
proved).

### Findings

The code disagrees with its comments or documentation in these places. The first
four have a run in `PROJECT.json`; the others have a cfg beside them that
reproduces the counterexample.

- `doc_challenges_end`: a wrong code judged in the millisecond a challenge ends
  finds a PTTL of 0, takes the branch for keys without a TTL, and leaves the
  challenge in Redis for good.
- `doc_reset_asks_setup`: `confirm2fa` saves `totpEnabled` of an entity it read
  before a reset; 2FA is then on without a secret, and the next login cannot be
  completed.
- `doc_last_admin_stays`: two removals count two admins each, and remove both.
- `doc_login_limited`: the decorators override a throttler named `default`; the
  only one is named `global`, so the login has the global limit of 30.
- `doc_reuse_revokes` (`MCStudentSessions`): a revocation of a family updates
  the rows there are at that instant. A rotation that has already won `consume`
  stores its successor afterwards, alive, although comments and README say the
  whole family is revoked.
- `doc_suspend_revokes` (`MCStudentSessions`): `suspend` revokes the sessions
  and then saves `isActive`; a login or rotation that overlaps leaves the client
  a live session. What does hold of the two is `SessionsLiveOnce` and
  `SuspensionHoldsOnceDrained`.
- `doc_session_claims` (`MCStudentSessions`, with TLC's `-workers 1 -continue`
  to see all three). `RowWithinSession`: a rotated row's `expiresAt` is counted
  from the save and can pass the absolute limit that the comment says it never
  passes. `TokenWithinSession`: so can the token's `exp`, as `jsonwebtoken` adds
  the seconds left to a later second than the one they were counted from. The
  second check of `consume` still ends the session on time (`EndedStaysEnded`).
  `RefreshKeepsToken`: the endpoint's description says that the refresh token
  does not change; it does.
- `doc_removal_revokes` (`MCAdminSessions`): a comment says that `remove`
  revokes all the active tokens of an admin before it deletes it; one that a
  login or a refresh stores between the transaction's `UPDATE` and its `COMMIT`
  stays as it is. It cannot be refreshed while the admin has no row
  (`RemovedGetsNoToken`).
- `doc_setup_refuses_active` (`AdminTwoFactor`): a setup can replace the secret
  of an admin who has just confirmed another.
- `doc_removed_stays_out` (`AdminAccounts`): an `updateSelf` that overlaps a
  removal inserts the admin again.
- `doc_seeds_first_only` (`AdminAccounts`): the seeder looks for its own
  username, not for any admin.
- `doc_only_activate` (`MCOAuthClients`): a renaming or a new secret that read
  the client before a suspension, and is saved after it, undoes it.
- `doc_pending_accepted` (`MCOAuthClients`): of two regenerations the row may
  keep one hash and Redis the other secret; and a regeneration whose `SET` fails
  after its save leaves the older secret in Redis.
- `doc_old_rows` (`Migrations`, with TLC's `-workers 1 -continue` to see all
  three): rows from before two migrations have no client, or redirect URIs that
  are not JSON; and the migration that is to widen the column of the secrets
  puts a limit of 100 characters on one that had none, and fails on a longer
  secret.

One more, seen while reading: the credential page invites to try again after a
failure, when the link may be used up already.

`OneDuration` says where the readers of a duration agree, and so also where they
do not: `"1w"` or `"1y"` is one second to `parseExpiresIn` and `toDate`,
`"500ms"` is 500 seconds, `"1.5h"` is one hour and `"2 days"` two seconds, while
`jsonwebtoken` takes each of them for what it says; a bare number is seconds to
the program and milliseconds to `jsonwebtoken`. The durations of `.env.example`
are all written plainly.

## What is proved

The theorems hold for any sets of tokens, families, codes, challenges, clients,
admins, secrets, links, rows and requests, and any durations. They assume only
what the modules name: `TimesAssumption`, `CodeTimesAssumption`,
`ChallengeTimesAssumption`, `TtlAssumption` (times are natural numbers and a
second has at least one tick), `MaxAttemptsAssumption` (at least one attempt),
`AmountAssumption` (amounts of durations are natural numbers),
`SecretsAssumption` (four different secrets) and `SeededAssumption`.

| module | theorems |
|---|---|
| `StudentSessionsProofs` | `TypeCorrect`, `LinearRotationHolds`, `SessionsLiveOnceHolds` (the refinement), `FamilyUniformHolds`, `EndedStaysEndedHolds`, `SuspensionHolds`; conditional: `RevokedSessionIsDeadWhenAlone`, `SuspendedHasNoSessionWhenAlone` |
| `AuthorizationCodesProofs` | `TypeCorrect`, `OneSessionPerCodeHolds`, `RightClientHolds`, `AcceptedInTimeHolds` |
| `PendingChallengesProofs` | `TypeCorrect`, `GrantedOnceHolds`, `ForItsPurposeHolds`, `AttemptsBoundedHolds`, `ChallengesLiveOnceHolds` (the refinement); conditional: `ChallengesEndUnlessMissed` |
| `AdminTwoFactorProofs` | `TypeCorrect`, `OneSessionPerLoginHolds`, `OwnCodeHolds`, `EnabledAfterCodeHolds`, `ChallengesLiveOnceHolds` (the refinement); conditional: `ResetAsksForSetupWhenAlone`, `SetupRefusesActiveWhenAlone` |
| `AdminSessionsProofs` | `TypeCorrect`, `OneBearerHolds`, `SessionsLiveOnceHolds` (the refinement), `RemovedGetsNoTokenHolds`, `RemovalClosesSessionsHolds` |
| `AdminAccountsProofs` | `TypeCorrect`, `RemovedStaysOutHolds`, `PasswordsStayHolds`, `ListensSeededHolds`; conditional: `LastAdminStaysWithOneRemover`, `RemovedStaysOutUnlessHeld` |
| `OAuthClientsProofs` | `TypeCorrect`, `OwnSecretHolds`, `ShownOnceHolds`, `SuspendedUntilActivatedHolds`, `DeliveredOnceHolds` (the refinement); conditional: `OnlyActivateActivatesWhenAlone` |
| `ServerProofs` | `TypeCorrect`, `RightAudienceHolds`, `AccessEndsHolds` (of `AccessTokens`), `OneDurationHolds`, `NoDefaultsInProductionHolds`, `RowsFitEntitiesHolds`, `OnlyLongSecretStopsUpHolds` |

*`StudentSessions`.* `TypeOK` is not inductive: the `UPDATE` of `consume` reads
`rows[t]` for the token a handler holds, so one has to know that it is in the
table. `Stored` adds that. `LinearRotation` is inductive together with `TypeOK
/\ Stored` because all three of its parts are stated at once: a step takes a
token and begins a rotation, or ends a rotation and adds a token, and each part
is needed to keep the other two. The refinement follows from it, one lemma for
each kind of step: an unused row is what makes a session open, and a rotation in
progress excludes one. `FamilyUniform` needs the record a rotation carries to be
that of its family; `EndedStaysEnded` and `SuspensionHolds` are about one step.
For the first, what is in time after a step of a handler was so before it, as no
such step moves the clock, and a successor is saved by a rotation only, which a
session that is over has none of but one that `consume` is about to refuse; for
the second an invariant says what each handler has read. A step is sorted by
what it can disturb before it is looked at (`StepIs`): a reading of the clock
carries its record along, the look of a statement that revokes changes no row,
and the statement itself only revokes.

*`AuthorizationCodes`.* `OneSessionPerCode` and `RightClient` need `Known`: what
is in the `Map`, in the hands of a handler, or has opened a session was
generated, and the `Map` keeps it as generated. A fresh code then has no past.
The inductive invariant is `CodeInv == Known /\ OneSessionPerCode /\
RightClient`; most actions at most take codes away (`TakesOnly`, one lemma), and
`IssueGenerate`, `ExchangeConsume` and `ExchangeSave` have one each.

*`PendingChallenges`.* The inductive invariant `ChallengeInv` adds two parts to
the three properties. `Drawn`: every jti in use was drawn, Redis keeps the
purpose it was drawn for, and a challenge still being created has one creator
and no token yet, which is why sending its `SET` again cannot reset a counter.
`Counted`: the counter in Redis equals the wrong codes judged. Only `Consume`
and `RecordAttempt` grant, and both share `GrantInv`. The refinement follows
from it: a token is signed for a challenge nobody has tried (`SignLives`), a
wrong code that is written back is counted while the challenge stays open
(`AttemptLives`), and all other steps, the clock's among them, only end
challenges (`Endings`).

*`AdminTwoFactor`.* Its type invariant, `TypeOK`, is not inductive: the session
a handler opens, and the token it signs, are of a login and a secret it took up
several awaits before. `Grounded` adds where these come from: a secret in the
table or in an entity a handler will save was generated for that admin, 2FA is
on in an entity only if a code of its admin was accepted (entities are saved
late, so rows alone would not do), who goes on from a code holds that admin's
secret, and every challenge and session descends from a login that has a token.
Tokens, owners and confirmed admins only grow (`HistoryGrows`), so a step has to
be looked at only for the handler that moves. `OwnCode` and `EnabledAfterCode`
are read off it. `OneSessionPerLogin` counts sessions, and is inductive only as
`Exclusive`: a login is in one place, a challenge that awaits its next step, a
handler that has spent the challenge and carries the login on, or the session;
no two of them, and no two of a kind. There are four kinds of step: a handler
passes its login along or drops it (`PassExclusive`, most actions), a challenge
is spent (`SpendExclusive`: here it matters that `GETDEL` and the script of
`recordAttempt` take the key away in the same command that lets the handler
through), a challenge is stored (`IssueExclusive`), a session is opened
(`IssueTokenPairExclusive`). The refinement has the lemmas of
`PendingChallenges`, with `Grounded` for the invariant.

*`AdminSessions`.* The argument of `StudentSessions`, with `Stored` for the type
invariant and `OneBearer` for the refinement; there is no limit inherited along
a family here, but an owner: `OneOwner` says that all tokens of a session, and
the refresh in progress, are of one admin, which is what lets a statement that
selects rows by `sub` close whole sessions. `RemovalClosesSessions` is inductive
with `HeldOrLate`: from the look of its `UPDATE` to its `COMMIT` a removal holds
every token of the admin that can be used, but the late ones.
`RemovedGetsNoToken` is about one step: handlers begin to issue for an admin
they find only (`StartFinds`, `ResumeFinds`), and store for an admin they were
issuing for.

*`AccessTokens`.* `Audience` says for whom and as what a token under each secret
was signed; `Timely` that an access token expires within `AccessTtl` of the last
instant its holder was able, which is now for whoever is able or about to be
given tokens. `RightAudience` and `AccessEnds` follow from them endpoint by
endpoint.

*`AdminAccounts`.* The step properties rest on `TypeOK` and, for the passwords,
on `Sent`: the password a request has sent is in the entity it will save. An
admin comes into the table as a new one or from a request that holds it
(`RowsComeFrom`), and a request comes to hold one from the table only
(`HoldsFromTable`).

*`OAuthClients`.* The invariant says where a secret can be: `Exclusive`, it is
in the hands of one request, in Redis or in one link, and in one of them only;
`Answered`, a link that is being answered is used, was not shown, and is
answered by one request. A regenerated secret counts from the moment it is
drawn, long before it is stored. `Owing` says who is told of it: the request
that drew it, once, or nobody. `OwnSecret` needs two more, since a row that has
gone comes back under another id: `Accepting`, a new secret is in the hands of
one request and in no row until the statement that saves it, which does write
that column; `Carrying`, what is stored, sent or linked under an id is a secret
that the row of this id has had, if the row is still there. The refinement has a
lemma for each kind of step: a secret moves with its place (`HeldPhase`,
`LinkedPhase`), a step moves one secret at most, and its answer becomes due, is
told or is lost on its own (`AnswerPhase`).

*`Durations`, `Bootstrap`, `Migrations`.* `OneDuration` is arithmetic over the
units. `NoDefaultsInProduction` needs `Checked`: the keys are looked at by the
constructors and the other variables by `assertSecrets`, two steps earlier or
more, and a process keeps the environment it was started with. For `Migrations`
the lemmas `Change1`, `OtherChanges` and `Change3` compute what each migration
adds or limits, `CreatedOnce` that no table is created twice, and `InTheEnd`
that the sum is the columns of the entities; the invariant `RowsSit` then says
that each row has the columns of its table at the version the database is at,
with values, and a long secret only where it has no limit. A column added to a
table that is there has a default (`FilledIs`), and only the third migration
limits one (`LimitedNext`), so that only a long secret can make the guard of
`Up` fail (`OnlyLongSecretStopsUp`).

*What the refuted claims need.* Eight of the claims under Findings are false of
the code because two handlers overlap, or a code is judged in the last instant.
The theorems called conditional say that this is enough of an explanation: with
that kind of overlap excluded, and everything else left as it is, the claim
holds. Each has the form `Spec /\ []H => []Claim` (`H` is an action formula for
`ChallengesEnd`, and `Claim` one where the claim is about steps), and an
invariant of its own that holds as long as `H` does. `H` is not a fact of the
code: it tells a maintainer how much a repair has to exclude, which is less than
all but one request at a time.

| theorem | the claim, and what must not overlap |
|---|---|
| `RevokedSessionIsDeadWhenAlone` | a session with a revoked token has no live one, if no revocation is under way while the same session is being rotated (`RotationsAlone`; invariants `DeadOnceRevoked` and `Whole`: a statement that revokes has found all of the sessions it has found a part of) |
| `SuspendedHasNoSessionWhenAlone` | a suspended client has no live session, if between the two statements of `suspend` no login past `validateClient`, or rotation, of that client is in flight (`SuspensionsAlone`; invariant `Emptied`). The time from the look of the first statement to the save counts. One that is over before it is closed by it, and one that begins after the save is refused |
| `ChallengesEndUnlessMissed` | every challenge has an end, if no wrong code is judged in the instant one ends |
| `ResetAsksForSetupWhenAlone`, `SetupRefusesActiveWhenAlone` | a reset is followed by a setup, and a setup never replaces an active secret, if no handler of another operation has the entity of the admin at the same time as a reset, or a setup (`Alone`; invariants `Blanked`, `SetupsOff`). Several resets, or setups, may overlap each other, and everything else may overlap everything else |
| `LastAdminStaysWithOneRemover` | there is always an admin, if one removal at a time is between its count and its `DELETE` (`OneRemover`; invariant `Counted`) |
| `RemovedStaysOutUnlessHeld` | a removed admin stays out, if no row is deleted while an `updateSelf` that found it is still to save (`NoneHeldAtDelete`; invariant `Gone`) |
| `OnlyActivateActivatesWhenAlone` | a suspension ends by `activate` only, if no other save of the client overlaps a suspension or an activation (`TogglesAlone`; invariant `ActiveCarried`). Renamings, new secrets and removals may overlap each other |

`PendingIsAccepted` has no such theorem, because one request is enough to break
it: a client is created, and a regeneration saves the new hash and fails before
its `SET`. Nor have the claims that no handler's overlap refutes
(`SeedsFirstOnly`, `RefreshKeepsToken`, `RowWithinSession`,
`TokenWithinSession`, `LoginLimited` and the three about migrations). What is
left of `RemovalRevokesAll` is `RemovalClosesSessions`, which names its
exception by `late`.

*Only model-checked*: liveness (`SessionsEnd`, `CodesForgotten`), which is out
of the prover's reach.

## Not modelled

DTO validation (the models start from requests that passed it), module wiring,
health checks, Swagger, helmet and CORS, and the cryptography of guards and of
stored secrets: no state of their own, or I/O only. The university's service is
an await that answers or rejects. The login page posts a form once. TOTP codes
are of a secret or of none: that a code is good for a while, and could be sent
twice to two challenges, is not told apart. A restart empties the counters of
the throttler, and behind a proxy all callers have its address: `Throttling` has
neither. `purgeExpired` of `RefreshTokenService` and of `CredentialTokenService`
have no caller in the repository. A Redis that comes back from an older snapshot
after a crash is not modelled, nor are durations with a sign, an exponent or
more than one decimal.

## Plan

Done: the modules above, a theorem for every safety property of a passing run,
the refinements of the three abstract specifications, and conditional theorems
for the claims that an overlap refutes. What is left, in this order:

1. TOTP codes that are good for an interval, over the clock of
   `PendingChallenges`, to tell a code from one that is sent a second time.
2. Liveness of the delivery of a secret under fairness of the mail, once a retry
   exists in the code.
