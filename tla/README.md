# A TLA+ model of the biometric authentication system

The repository is a FastAPI service that registers users with a WebAuthn
credential and logs them in with it, a React page that drives the two
ceremonies in the browser, PostgreSQL for accounts, credentials, sessions and
audit rows, and Redis for the challenges of ceremonies under way. The modules
here model the parts in which order, overlap, time and failure matter. Paths
below are relative to `src/`.

## The system: inventory

| Component | Source | State it keeps | Operations | Modelled |
|---|---|---|---|---|
| Rate limiter | `backend/app/services/security_service.py` | `_rate_limit_cache`, a class attribute: one per server process, lost with it | `is_rate_limited` | `SlidingWindow`, `Limiter`, `RateLimiter` |
| Login ceremony | `backend/app/api/routes/auth.py`, `.../services/webauthn_service.py` | `webauthn_credentials.sign_count`, rows of `sessions` and `audit_logs`, Redis `auth_challenge:<email>` | `login_options`, `login_verify` | `Login` |
| Registration ceremony | the same files | rows of `users`, `webauthn_credentials`, `sessions`, `audit_logs`, Redis `reg_challenge:<email>` | `registration_options`, `registration_verify` | `Registration` |
| Lockout, screening, credential checks | `security_service.py` | none of its own; reads `audit_logs` | `check_account_lockout`, `detect_suspicious_activity`, `validate_biometric_quality`, `detect_presentation_attack`, `log_security_event` | inside `Login` and `Registration` |
| Credential revocation | `webauthn_service.py` | rows of `webauthn_credentials` | `revoke_credential` (called by no route) | `AuditTrail` |
| Tokens and userinfo | `backend/app/core/auth.py`, `main.py` | none | `create_access_token`, `create_refresh_token`, `get_current_user`, `/userinfo` | `Page`, `Login` |
| Anti-replay middleware | `backend/app/middleware/security_middleware.py` | `_nonce_cache`, `_last_cleanup`: per process | one check per POST below `/auth/`, `_cleanup_nonces` | `AntiReplay`, `Gateway` |
| Security and biometric middleware | the same file | none | header, size, origin and content checks, metrics | `Gateway` |
| Logging middleware, logger | `logging_middleware.py`, `core/logging.py` | `_log_cache` per process, one file per level | a line per request and answer, duplicate suppression, `clear_logs` | `Logger`, `Gateway` |
| Audit logger | `core/audit.py` | none; commits its caller's session | `log_event` and five functions around it (called by no route) | `AuditTrail` |
| Frontend | `frontend/src/App.tsx` | form fields, message, access token | `handleRegister`, `handleLogin`, `getUserInfo` | `Page` |
| Schema | `backend/app/db/models.py`, `database/init.sql` | tables and unique columns | | what the code uses |
| Start-up, stack, handlers | `main.py`, `db/database.py` | none | `lifespan`, `add_middleware`, `global_exception_handler`, `get_db` | `Gateway`, `AuditTrail` |
| OIDC discovery, configuration, deployment | `routes/oidc.py`, `config.py`, `k8s/` | none | | no: constant documents and wiring |

How they interact. A request passes the middleware, then one route handler.
The handler awaits Redis and PostgreSQL; at every await other requests of the
same process may run, and with three replicas (`k8s/deployment.yaml:6`) other
processes run all the time. Requests never call each other: they meet in
PostgreSQL, in Redis and in the memory of the process (the rate limit cache,
the nonces, the log cache). The browser makes the options call, has the
authenticator sign or attest, and makes the verify call; nothing ties the two
calls together but the e-mail and the device fingerprint.

What is hard.

* *Overlap.* Two ceremonies of one user share one Redis key: a later `setex`
  replaces the earlier challenge and a `delete` removes whatever is there. The
  sign count is selected, compared and updated with awaits between.
* *Several commits.* A ceremony commits user and credential (or the count), then
  the session, then deletes the challenge. Any of them may fail, or the process
  may die in between.
* *Shared sessions.* `log_security_event`, `AuditLogger.log_event` and
  `revoke_credential` commit the session of their caller, and two of them roll it back.
* *Order of the layers.* The middleware added last runs first, so an exception may
  pass by the layer that was meant to answer it.
* *The page.* Its handlers do not exclude each other, and all of them write to
  one message and one token.
* *Failure paths.* After a failed flush the SQLAlchemy session refuses further
  work, so the audit row of the except clause is lost. `log_security_event`
  swallows its own failures. `redis.get` is outside the `try`.
* *Time.* Challenges expire after 300 s, tokens are equal within one second,
  rate limits are moving windows.
* *Waiting.* `INSERT INTO users` waits for a transaction that holds an equal
  e-mail or username. There are two unique indexes, and an insert that waits at the
  second keeps its entry in the first: others wait for one that waits.

What makes each part correct.

* Rate limiter: never more than the limit in any window; never refuse early.
* Login: a session is backed by a signature of a credential of that user over a
  challenge issued to that user and device; a success is durable and uses up
  its challenge; challenges expire; counts do not go back; a genuine assertion is
  accepted (refuted for authenticators that do not count); a failure has a cause.
* Registration: no account without a credential and no credential without an
  account; e-mails, usernames and credential ids stay unique; an account rests
  on a challenge issued for its e-mail and device; a success is durable; waiting
  inserts are woken and every request is answered.
* Both ceremonies: one promise, stated once in `Ceremony`: a success is earned
  with a signed challenge of its subject and device that nobody can use after it.
* Anti-replay: a process takes a nonce a second time only after it has forgotten
  more than 10000; a refused request leaves no nonce behind, so that it can be retried.
* Logger: duplicate suppression loses no line and lets no duplicate through,
  apart from what `clear_logs` does.
* Stack: what a layer raises reaches the client as the layer meant it (refuted).
* Audit trail: an event does not tell of work that is undecided, and work is
  lost only where it is known to be.
* Page and tokens: token and message belong to one completed ceremony; user
  information is shown only for a token that had not expired when it was asked for.

`PROJECT.json` lists the hazards line by line with the properties that cover them.

## The modules

`SlidingWindow` is `is_rate_limited` on one list of the cache, as three
operators: what is kept (`Recent`), whether the call is refused (`Limited`),
what is stored (`Recorded`). The list becomes a set of numbered entries: its
order is never read, and the numbers keep equal time stamps apart.

`RateLimiter` runs it in several incarnations of the server process. `Start` and
`Stop` begin and end one (a restart is a new one); `Call` is one invocation,
atomic because the function has no await. `served` and `refused` are histories.

`Limiter` is what that promises, without a cache: a process that remembers every call it
ever served refuses the next one exactly when the limit is used up in the window that ends now.
`RateLimiter` implements it (`ImplementsLimiter`): a cache that is pruned, not written by
refused calls and not shared makes no difference to any answer.

`Login` and `Registration` model the ceremonies with one process per HTTP
request. `pc[r]` is the await request `r` is suspended at, and an action is the
code between two awaits, with the audit row it commits. Names of the steps:

| pc | Login: the code that runs next | Registration |
|---|---|---|
| `idle` | rate limit and user lookup (options); user lookup (verify) | rate limit and e-mail lookup (options); nothing (verify) |
| `screen` | `check_account_lockout`, `detect_suspicious_activity` | |
| `issue` | `generate_authentication_options`, `setex` | `generate_registration_options`, `setex` |
| `fetch` | `redis.get` and the checks that follow | the same |
| `check` / `flush` | `verify_authentication` up to the comparison of counts | `INSERT INTO users` |
| `store` / `prove` | update of the count, first commit | `verify_registration`, first commit |
| `session` | insert and commit of the session | the same |
| `cleanup` | `redis.delete` | the same |
| `report` | audit row and answer | the same |

`Ceremony` is the abstract specification of both: tickets are issued to a
subject at a device, one is current per subject, authenticators sign them, and a
claim is let in (`Accept`), granted (`Award`), rid of the ticket (`Withdraw`) and
told of its success (`Complete`), or closed. It knows nothing of Redis, clocks,
sign counts or transactions. `Login` and `Registration` implement it under the
mapping at their end: tickets are options requests, claims are verify
requests, `current` is what Redis holds, `granted` means that the session row
(for a registration, the user row) is committed.

`AntiReplay` (the nonce caches) and `Logger` (the files and the caches of written
lines) keep the state of two parts and define steps on it without a `Next` of
their own; `Gateway` composes them with the requests that pass the layers of `main.py` in
their run-time order, from `LoggingMiddleware` to the router and back. `pc[r]` is the
layer a request has come to. `Start` and `Stop` are the life of a process,
`Break` makes a log file unwritable, `Clear` calls `clear_logs`.

| Gateway | code |
|---|---|
| `Receive` | `LoggingMiddleware.dispatch` up to `call_next`; `CORSMiddleware` answering a preflight |
| `CheckReplay` | `AntiReplayMiddleware.dispatch` |
| `EnterRoute` | `BiometricSecurityMiddleware`, and `SecurityMiddleware` before `call_next` |
| `Route` | the route, and `SecurityMiddleware` after it |
| `Respond` | `LoggingMiddleware` after `call_next`, and `global_exception_handler` |

`AuditTrail` has callers with one `AsyncSession` each. An action is one call of a
function that commits that session (`ServiceLog`, `LogEvent`, `LogQuietly`,
`Revoke`, `CommitWork`), a piece of the caller's own work (`DoWork`), or the end of
the caller (`GiveUp`). Rows and calls are numbered in the order they were made;
histories keep what was staged, committed, lost and swallowed.

`Page` extends `Ceremony` and composes it with the React page: a run of a handler is a
claim, its options request draws the ticket of the same name. A run is suspended at
`options`, `prompt` or `verify`; its request and its answer travel on their own, so an answer
may be lost, come late, or come after that of a later run. `ServeInfo` is
`/userinfo` with `get_current_user`.

Definitions without a counterpart in `src/` (the clock, the death of a process)
are the environment. The `MC` modules give the
constants values. Operators commented "Variant:" change one definition the way
a bug would; the specifications do not use them, they only show that each
property can fail.

### Decisions taken in the model

* Actions that only read state no other request changes are merged with the
  step before them. In `Login` the accounts exist already and no route removes
  them, so the user lookup belongs to the arrival; `last_used` and the other
  statistics are not kept.
* The two reads of `audit_logs` in `login_options` are one step: no row that the
  code writes is one that the lockout counts, so only the screening read can be
  affected by others, and it is the later of the two.
* Audit rows never age out of the look-back windows (an hour, five minutes):
  runs are a few seconds of model time. A set of rows, without time stamps,
  replaces the table. `Suspicious` has the three thresholds of
  `detect_suspicious_activity` (rows, user agents, addresses); agent and address of a
  row are those of the device that sent its request.
* Credentials turn a year old by an action `Age`: their age is compared with
  the date only through the filter both WebAuthn operations use.
* PostgreSQL is the schema of `database/init.sql`. `SELECT` sees committed rows. An
  insert into `users` enters its row into the two unique indexes one after the other
  (`EnterFirst`, `EnterSecond`) and waits at each for a transaction with an equal entry.
  The order is that in which the indexes were created, the same for every insert of a database;
  `EmailFirst` says which it is. As every insert takes the two in that order, a
  chain of waits can have two links (one insert waits at the first index for one that waits
  at the second), but none closes, and PostgreSQL has no deadlock to break.
* A refresh token is its user and its expiry second, because the payload has
  nothing else; `sessions.refresh_token` is unique.
* Cryptography is perfect: an assertion is accepted only for the challenge it
  signs and the key that signed it. An assertion is produced once per options
  request but may be sent any number of times by any device.
* A credential in a registration is one of three shapes: as a browser sends it
  (`"attestation"`), with the two assertion fields in its response
  (`"padded"`), and with them beside the response (`"outer"`). Only the second
  passes `validate_biometric_quality` and `detect_presentation_attack`; it is
  what the repository's tests send and what lets the model reach the rest of
  the handler. So the credential that `App.tsx:45` obtains is always refused as of poor
  quality, although `README.md:128` describes the route as completing a registration.
* `Login` has two ways through the screening: `OptionsScreened`, and
  `OptionsUnscreened` for a request whose session a lost audit row has left
  unusable, so that the queries after it raise.
* In `Gateway` the layers between `AntiReplayMiddleware` and the route only log and refuse, so
  each is one action with its neighbour. `is_rate_limited(ip, "global")` never
  limits: no limit is configured for that action (`CallUnlimited` in `RateLimiter`).
  Response headers are left out.
* A line of the log is its level, its second and a text; a text names what it
  shows of the request and the answer, which is what makes two lines equal. The time a
  request took is quick or slow. Hashes do not collide. A time stamp header is a
  number or is refused by `float()`; NaN, which `float()` reads and no comparison refuses,
  is left out.
* What goes into a log line does not depend on who is logged in, so `Gateway` does not
  look into the route: it answers, refuses, or raises.
* In `AuditTrail` any commit may fail. That covers `AuditLogger.log_event`, whose
  time stamp carries a zone that asyncpg refuses for the column `timestamp without time zone`:
  with the real driver its failing branch is the one taken.
* `Page` takes the ceremonies from `Ceremony`, so faults of Redis and PostgreSQL appear
  as refusals; what it adds is the page, access tokens and their expiry. A click
  that finds the fields empty, or an insecure `API_URL`, only shows a message (`ClickEmpty`).
* Constants are scaled: two seconds for the 300 of a challenge, one or two for
  the attempts per window, two for the ten failures of the lockout, one for the 10000 nonces and the 300 s of their window. The code
  uses each number in one comparison, so a small one meets the same cases.
* The fault constants say what may go wrong: `"redis"` (a Redis call raises),
  `"db"` (a statement or commit raises, the selects included), `"audit"` (an audit row is lost),
  `"crash"` (the process dies; every request in flight with it). In `Login` each fault that
  was met is kept in the history `faced` with the request that met it: it tells a failure that is the
  database's from one that is the code's, and `MaxFaults` bounds it.

## What the runs check

Passing runs:

* **RateLimiter**. `WindowBound`: a process never serves more than the limit in
  any window. `ImplementsLimiter`: every answer is that of a process with a complete memory
  (`Limiter`), so refused attempts do not prolong the block.
  Time 0..4 with two calls per three seconds: a window is filled, emptied and
  filled again, and entries lie exactly one window back. Five calls in two
  processes, one of which may be the restart of the other.
* **Login**. Two options requests and two verify requests from two devices, with a rate limit
  of one per second; two accounts, the username of one equal to the e-mail of the
  other, so that one identifier names two users and one names nobody. That is
  the least in which challenges replace each other, a request is delivered twice,
  counts are committed out of order and two logins of a user collide on
  their refresh token; two clock values let a challenge expire and a limit lapse. Every kind of
  fault may occur at every await; two of them in a behaviour (`MaxFaults`)
  let a handler fail after another has. `SessionIsEarned`, `NoReuseAfterSuccess`,
  `SuccessIsDurable`, `ChallengesExpire` and `RegressionNeedsOverlap` hold.
  `ReplayNeedsRegression`: the counter check lets an assertion through after one with the same or a
  higher count only when an overlap has set the stored count back.
  `FailuresHaveCause`: a login that fails without a failing database has left an audit
  row, unless that row was lost or another session of its user has its refresh token; and if its count is
  committed, its user has a session.
  `CountingLoginAccepted`: with a database that answers, the counter check refuses a
  genuine assertion only to an authenticator that does not count (`LoginCounterless` is the other half).
  `ExpiredForACause` lists why a genuine ceremony may be told that its challenge
  expired; `ImplementsCeremony` is the refinement of `Ceremony`.
* **Registration**. Two options and three verify requests over two e-mails and two usernames
  (the same two strings), with lost audit rows, database failures and crashes, and the
  e-mail index first. Three inserts are what a chain of waits needs: one waits at the first index for one
  that waits at the second for one that is verifying its attestation.
  `NoHollowAccount`, `AccountsDistinct`, `SuccessIsDurable`;
  `InsertsWaitForWork` (whoever an insert waits for is verifying its attestation, or waits itself for such
  requests only; nobody waits for a request that was answered or died),
  `GenuineAttestationIsNew` (the look-up of the credential id never finds a
  genuine attestation's, because the insert of the user comes first); and `ImplementsCeremony`, the refinement of `Ceremony`.
  The clock stands still: nothing in these properties depends on a lapse, which the next run has.
* **RegistrationDevices**. Two devices and one e-mail, all shapes of credential,
  expiring challenges, a rate limit of one and Redis failures, with the username index first.
  `RegistrationIsEarned`, `ExpiredForACause` (one cause of three is the
  registration of the e-mail), and `RequestsAnswered` under `FairSpec`: the two
  verify requests wait for each other's insert and both are answered.
* **Gateway**. One process with a nonce window and a cache size of one, so that
  clean-ups happen in every few steps, and three log levels. `CONSTRAINT Bounded`
  splits the instance in two: three requests that repeat two nonces over three
  seconds, or two requests, one of them of any kind (foreign origin, stale or unreadable
  time stamp, too large, slow, preflight), while `clear_logs` runs and the error file
  fails. `NonceOnce`, `ReplayHasOriginal` and `PassedOnce` (two requests with one nonce
  get past the check of a process only around a clean-up that forgot it) need the first part, `LogComplete` and
  `LogDeduplicated` the second; the constraint cuts combinations of the two, not steps.
* **AuditTrail**. One caller and five calls: sessions are independent, and the longest
  story (work, lost event, work, event, commit) has five. `HalfDoneOnlyByCalls`,
  `WorkLostOnlyByWrapper`, `EventsAreWhole`.
* **Page**. Two tabs, two runs, two users of whom one is registered, one request for user
  information, tokens that live one second of three: runs of a login and a registration, or
  of two logins, overlap in every order. `TokenIsEarned`, `MessageIsHonest`,
  `InfoIsFresh`, and `CompletedForGood` of `Ceremony`.

Deadlock checking is off in all of them: a model has finitely many requests or calls and a
bounded clock, and rests when they are used up. That no registration hangs is what
`RequestsAnswered` says; a login never waits for another request, so nothing is asked of it.

Runs that TLC refutes. Each states what a document or comment of the repository
says; the finding in `PROJECT.json` quotes it.

| Run | Property | What happens |
|---|---|---|
| LoginReplay | `AssertionUsedOnce` | an assertion delivered twice opens two sessions: both requests pass the comparison before one commits |
| LoginCounterless | `GenuineLoginAccepted` | an authenticator whose count is always 0, as that of many phones and laptops is, registers and is refused at its first login: 0 is not above the stored 0 |
| LoginLockout | `LockoutHolds` | failures are written under other names than the lockout counts |
| RegistrationIdentifier | `IdentifierNamesOneUser` | a username may be another account's e-mail |
| GatewayStatus | `RefusedWith400` | a 400 raised by the two outer middlewares passes by `SecurityMiddleware` and becomes a 500 |

Other behaviour a reader may stumble on, which the models contain: the second login of a user
in a second commits its count and fails on the unique refresh token; a login that completes
deletes whatever challenge of the user is in Redis, a newer one of another tab included
(`ExpiredForACause`); user and credential are
committed without the session; equal request lines of one second are written once
(`docs/LOGGING_SYSTEM.md:105` says "logs all requests/responses"); `revoke_credential`
answers True and deletes nothing, although its test asserts that `delete` was called; an
event of an `audit.py` wrapper that fails takes the caller's staged rows with it, without
a sign.

### Symmetry and fairness

Requests of one kind are interchangeable, so the safety runs use their
permutations as symmetry, and `Registration` also those of the two e-mails; the run with a
liveness property uses none.

Liveness (of `Registration`) assumes weak fairness for each handler on its own
(`OptionsProceed(o)`, `VerifyProceed(v)`): the event loop resumes a coroutine
whose await has completed, Redis and PostgreSQL answer or raise, and
PostgreSQL wakes an insert when the transaction it waits for ends. Nothing is
assumed of clients, authenticators, the clock, crashes or faults.

## What is proved

TLAPS proves the following for every value of the constants: any sets of
users, credentials, devices and requests, any limits, any faults, any clock bound.

| Module | Theorem | Statement |
|---|---|---|
| RateLimiterProofs | `TypeCorrect` | `Spec => []TypeOK` |
| | `ServedWithinLimit` | `Spec => []WindowBound` |
| | `RefusalsJustified` | `Spec => []RefusedOnlyWhenFull` |
| | `LimiterImplemented` | `Spec => ImplementsLimiter` |
| LoginProofs | `TypeCorrect` | `Spec => []TypeOK` |
| | `SessionsAreEarned` | `Spec => []SessionIsEarned` |
| | `SuccessesAreDurable` | `Spec => []SuccessIsDurable` |
| | `ChallengesAreUsedUp` | `Spec => []NoReuseAfterSuccess` |
| | `FetchedChallengesAreFresh` | `Spec => ChallengesExpire` |
| | `RegressionsOverlap` | `Spec => RegressionNeedsOverlap` |
| | `FailuresHaveCauses` | `Spec => []FailuresHaveCause` |
| | `ExpiryHasCause` | `Spec => ExpiredForACause` |
| | `CountingLoginsAccepted` | `Spec => CountingLoginAccepted` |
| | `CounterlessNeverLogsIn` | `Spec => [](\A s \in sessions : proof[s.by].cred \notin Counterless)` |
| | `LockoutRefusesNobody` | `Spec => []NobodyIsLockedOut` |
| | `ReplaysNeedRegression` | `Spec => ReplayNeedsRegression` |
| RegistrationProofs | `TypeCorrect` | `Spec => []TypeOK` |
| | `NoAccountIsHollow` | `Spec => []NoHollowAccount` |
| | `AccountsAreDistinct` | `Spec => []AccountsDistinct` |
| | `RegistrationsAreEarned` | `Spec => []RegistrationIsEarned` |
| | `SuccessesAreDurable` | `Spec => []SuccessIsDurable` |
| | `WaitsEnd` | `Spec => []InsertsWaitForWork` |
| | `GenuineAttestationsAreNew` | `Spec => []GenuineAttestationIsNew` |
| | `FetchedChallengesAreFresh` | `Spec => ChallengesExpire` |
| | `ExpiryHasCause` | `Spec => ExpiredForACause` |
| PageProofs | `CompletionIsFinal` | `CeremonySpec => []CompletedForGood` |
| | `TypeCorrect` | `Spec => []TypeOK` |
| | `TokensAreEarned` | `Spec => []TokenIsEarned` |
| | `MessagesAreHonest` | `Spec => []MessageIsHonest` |
| | `InfosAreFresh` | `Spec => []InfoIsFresh` |
| | `PageIsACeremony` | `Spec => CeremonySpec` |
| | `RunsCompleteForGood` | `Spec => []CompletedForGood` |
| LoginRefinement | `LoginIsACeremony` | `Spec => ImplementsCeremony` |
| | `LoginsCompleteForGood` | `Spec => []C!CompletedForGood` |
| RegistrationRefinement | `RegistrationIsACeremony` | `Spec => ImplementsCeremony` |
| | `RegistrationsCompleteForGood` | `Spec => []C!CompletedForGood` |
| GatewayProofs | `TypeCorrect` | `Spec => []TypeOK` |
| | `NoncesAreTakenOnce` | `Spec => []NonceOnce` |
| | `ReplaysHaveOriginals` | `Spec => []ReplayHasOriginal` |
| | `NoncesPassOnce` | `Spec => []PassedOnce` |
| | `LogsAreComplete` | `Spec => []LogComplete` |
| | `LogsAreDeduplicated` | `Spec => []LogDeduplicated` |
| AuditTrailProofs | `TypeCorrect` | `Spec => []TypeOK` |
| | `HalvesComeFromCalls` | `Spec => []HalfDoneOnlyByCalls` |
| | `LossesComeFromWrappers` | `Spec => []WorkLostOnlyByWrapper` |
| | `EventsFollowTheirWork` | `Spec => []EventsAreWhole` |

*Assumptions.* The named `ASSUME`s beside the constants: limits and the time to
live are positive, e-mails and usernames of accounts are unique, every credential
has an owner, the two kinds of request are disjoint, and `None` is none of the
values it stands in for. `CompletionIsFinal` assumes `TicketsAreReal`, that an absent ticket is
not a ticket (`Page` has it in its `NoneAssumption`). No theorem restricts the faults, the
authenticators or the order of the indexes.

*Rate limiter.* `WindowBound` speaks of the calls served, the code of a list
that it cleans. The invariant `IInv` ties the two for each key: while a process
lives its list covers every served call inside the window (`Covered`) and holds
nothing but served calls (`Backed`), so the length after the clean-up is the
number of recent served calls (`RecentAgree`), which is at most the limit
(`Small`). The lemmas treat one key under a tick, a served and a refused
call; `StepInv` puts the keys together. The refinement of `Limiter` needs no more:
`RecentAgree` is the step from the list to the history (`LimitedAgrees`), and a call answered
from the one is a call answered from the other. `Start` and `Stop` are stutters of `Limiter`.

*Ceremonies.* Most actions only answer a request, so `StepShapes` first reduces
`Next` to a dozen kinds of step. The invariant then has one part per concern:
`Stages` (what a request suspended at an await has in its locals), `Issuing`
(challenge ids are unique, what is in Redis was issued to that user or
e-mail, an authenticator answers only options that were delivered), `Proving`
or `Granting` (what a request has established by the await it is at), `Backing`
or `Tables` and `Distinct` (what the rows owe to their requests), and `Spent` (the
challenge of a completed request is gone). `Spent` needs the others:
`redis.delete` removes a key, and only because a challenge id was issued to
one user is the key it removes the only one that can hold the challenge. In
`Distinct` the rows in open transactions matter as much as the
committed ones, each in the indexes it has been entered into: without them a commit
could not be seen to keep e-mails and usernames unique.

*Why a login is refused.* `Justified` gives each answer of a verify request its cause. `Accounted`
says where a stored challenge has gone and that a login whose count is committed is past the
first commit; `Explained`, that every failed login has left one of the traces `FailuresHaveCause` names.
`Counting` says that an assertion of a counting authenticator has a positive count that does not
repeat, that any other has the count 0, that a stored count other than 0 is one a committed login sent, and
that no committed login came from an authenticator that does not count. A genuine assertion that is refused,
and counts, would then be one of the committed ones. The last part gives `CounterlessNeverLogsIn`:
the comparison wants more than the stored count, and 0 is never more.

*Lockout and replays.* Two of the refuted claims have a provable counterpart. A row the lockout
counts is of an action that no step of the ceremonies writes (`RowsAdded`); the set it counts is
therefore empty (`Uncounted`), and `Justified` leaves no case in which a login is refused as locked.
For the replays `Storing` says that the stored count of a credential is always one a committed login
sent; the comparison lets a count through only above the stored one, so a committed count that is as
high was put back by the login whose count is stored.

*Waits, attestations and expiry of a registration.* That chains of inserts end at a working request
is a fact about `Stages` and the rows in open transactions: a row is pending only between its entry in
the first index and the commit of its request, every failure path included, and a row that
waits at the second index is in the way of inserts at the first only. That a genuine attestation's credential id is new needs `Tables` (a
credential's id is the challenge its user's registration was made over) with `Distinct`: a request
that got past the insert has an e-mail no committed user has, and a challenge belongs to one
e-mail. For `ExpiredForACause`, `Accounted` says where a stored challenge has gone;
`AccountedStep` follows it through each kind of step.

*Refinement.* `LoginRefinement` and `RegistrationRefinement` add to the invariants of the ceremonies
only what ties locals to the mapping (`Linked`: what a request holds before and after its
fetch, that its proof is over what it fetched, that its row comes after its commit). Each kind
of step is then shown to be one action of `Ceremony` or a stutter: `VerifyFetched` is `Accept` or
`Close`, the commit is `Award`, `redis.delete` is `Withdraw`, the audit row with the answer is
`Complete`; a crash closes all claims that were not granted. `CompletionIsFinal` is thereby
a fact about both: its invariant says that tickets have one subject, so that the ticket withdrawn from the
subject of a claim is the only place where the ticket of the claim could still be.
`LoginsCompleteForGood` and `RegistrationsCompleteForGood` state it for the two of them under the
mapping, and `RunsCompleteForGood` for the page, whose `PageIsACeremony` is the third refinement.

*Gateway.* The invariant has a part for each thing composed. `ReplayInv`: the cache of a live process is
exactly the set of nonces it took in its present era (`Holding`), each past era had too many
(`ErasFull`), and none has a nonce twice. `LogInv`: what a process remembers it has logged
(`Remembering`), and a line it has written it remembers unless it has called `clear_logs` since
(`Suppressing`). Without `Suppressing` a line could be written again in the
same second. `FlowInv`: requests in flight are at live processes and take their nonce on the way
in, and whoever is past the check with a nonce has had it taken (`PassedTaken`). `PassedOnce` puts
`FlowInv` and `ReplayInv` together: two such requests had the nonce taken in two eras, and the
earlier of them is over.

*Page.* On top of the invariant of `Ceremony` come what a run is waiting for and what its claim has
reached (`Runs`: an answer "ok" means options to one run and a completed login to
another), that a granted claim of the page holds the ticket of its own run (`Awarded`), and for
each token, message and question the run it came from (`EarnedAt`, `Messages`,
`Questions`). Every step of `Page` is a step of `Ceremony` or a stutter of it, so the invariant
of `Ceremony` is kept without a second proof.

*Audit trail.* The invariant follows a row its caller staged: it is durable, still staged, or a
later call has lost it (`Accounted`); and as long as the caller knows of no
exception, it is there, or the session is unusable, or a wrapper swallowed an event
(`Untold`). The unusable session is what makes the caller's commit fail after a silent loss
in `log_security_event`, and so keeps `WorkLostOnlyByWrapper` true for it.

Only model-checked: `RequestsAnswered` of the registration (liveness under fairness is
outside what the prover handles). The five refuted properties have their counterexamples; what the code
guarantees in place of the first three is `ReplayNeedsRegression` with `RegressionNeedsOverlap`,
`CountingLoginAccepted` with `CounterlessNeverLogsIn`, and `NobodyIsLockedOut`.

Proved, and in no run because other properties of the runs already speak of the same code:
`RefusedOnlyWhenFull` (`ImplementsLimiter` says more), `NobodyIsLockedOut` (no row that any
interleaving writes counts for the lockout, so it refuses nobody; `LoginLockout` shows what
follows), and `ChallengesExpire` of `Registration`.

## What is not modelled

The wording of log lines and answers, response headers and the contents of audit details; the OAuth tables, which
no code uses; `validate_request_integrity`, `check_credential_reuse`,
`detect_anomalous_behavior`, `validate_liveness` and `validate_device_integrity`,
which no route calls; `create_id_token` and
`generate_client_credentials`, which no code uses; the OIDC document, health
checks, configuration, containers and pipelines; the appearance of the page. They keep no state, or
nothing reaches them.

## Plan

Written: every module named above. What could still be added, in order of worth:

1. Liveness of `Page`: a run whose answers are not lost ends, under the fairness the
   ceremonies already assume.
2. Larger instances: a second process in `Gateway`, a third run in `Page`. What is proved
   does not depend on them.
