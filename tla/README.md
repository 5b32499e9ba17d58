# A verification development for zero-trust-proxy

TLA+ models of the proxy's session handling, accounts, login, rate limiter,
device trust, authorization gate and passkey ceremonies, checked with TLC on small instances;
and TLAPS proofs of their safety properties for every instance.  Source
paths are given from the root of the development's parent, where the repository
is `src/`, so its crate is `src/src/`.

## The system

A tokio process that terminates HTTP (optionally TLS), authenticates users and
forwards what it allows to one upstream.  Every connection is a task; a handler
gives up control at each `.await`.  Nothing about a user lives in the process:
sessions and rate-limit counters are in Redis, accounts, devices, passkeys and
the audit log in Postgres.  So all concurrency is concurrency on these stores,
between requests, with no locks and no transactions.

| part | source | state | operations | what makes it correct |
|---|---|---|---|---|
| sessions | `auth/session.rs` | Redis keys `session:<id>` with a time to live | create, get (reads **and writes back**), update, delete, list by user, revoke by user | ends in time; a revoked one stays dead; marks of MFA are earned and kept; nobody ends another user's |
| handlers | `proxy/mod.rs` | locals across awaits | login, register, mfa/enroll, mfa/verify, logout, logout_all, authorize and forward | the 200 they answer stays true |
| rate limiter | `proxy/mod.rs` | Redis counter with an expiry | INCR, EXPIRE, compare | bounded bursts; throttling ends |
| device trust | `auth/device.rs`, `db/mod.rs` | rows of `devices` | find, adjust, upsert at login | trust is earned, consistent, the account's own |
| policy engine | `policy/mod.rs` | rules | evaluate | deny wins, order-free |
| risk engine | `risk/mod.rs` | none | calculate_risk | thresholds mean what they say |
| gate | `proxy/mod.rs` | one request | policy, MFA, risk, audit | verdict and audit row agree |
| passkeys | `auth/webauthn.rs`, `auth/passkey_store_pg.rs` | rows of `passkeys` or a map in memory | register, authenticate, refresh, delete | deleted ones stay deleted; sign-ins are recorded |
| accounts | `proxy/mod.rs`, `db/mod.rs` | rows of `users` | register, enrol TOTP | names are unique; a secret is one's own |
| audit log | `audit/mod.rs` | rows of `audit_log` | insert, errors ignored | agrees with the answers |
| JWT, passwords, TOTP | `auth/mod.rs`, `auth/mfa.rs` | none | pure, by libraries | |
| config, errors, serving, metrics | `config.rs`, `error.rs`, `main.rs`, `proxy/mod.rs` | none | I/O | |

The handlers call everything else; the stores are what they share.  The gate
(`authorize`) reads a session, asks the policy and then the risk engine, and
hands the request to the upstream.  A login goes through rate limiter, account
lookup, device lookup, password, TOTP, device write, risk engine, session
creation and session update, in that order.

What is hard: `get_session` is a read-modify-write of a whole record over two
commands, so any two requests of one session race; expiry happens on three
clocks (the session's `expires_at`, Redis's time to live, the moment a time to
live was computed); `logout_all` is a scan, a read and a delete per key, with
failed reads skipped; INCR and EXPIRE are separate; device trust is read before
a deliberately slow password hash and written after it; a client that hangs up
drops its handler at whatever await it is in.

## Modules

| module | models | extends |
|---|---|---|
| `ProxySessions` | SessionManager and every handler that uses it, one action per Redis command | |
| `SessionLife` | abstract: what a session is to whoever holds its token | |
| `SessionRefinement` | the refinement mapping from `ProxySessions` to `SessionLife` | `ProxySessions` |
| `SessionPromises` | history: when an answer may turn out untrue, what a forward rests on | `SessionRefinement` |
| `MCProxySessions` | symmetry and view for its runs | `SessionRefinement` |
| `ProxySessionsProofs` | proofs | `ProxySessions` |
| `SessionPromisesProofs` | proofs: the promises, and the refinement of SessionLife | `SessionPromises`, `SessionRefinement`, `ProxySessionsProofs` |
| `RateLimiter`, `RateLimiterProofs` | `check_rate_limit`; proofs | |
| `Accounts`, `MCAccounts`, `AccountsProofs` | the users table: registration, enrolment, the credential checks of login and mfa/verify; symmetry; proofs | |
| `DeviceTrust`, `DeviceTrustProofs` | the devices table and the part of login before the session; proofs | |
| `Login` | `handle_login` to its answer: devices, risk, session, audit row | `DeviceTrust`, `RiskEngine` |
| `LoginProofs` | proofs | `Login`, `DeviceTrustProofs` |
| `PolicyEngine` | `PolicyEngine::evaluate`, pure operators | |
| `RiskEngine` | `RiskEngine::calculate_risk`, pure operators | |
| `AuthorizeGate` | `authorize` after `get_session` | `PolicyEngine`, `RiskEngine` |
| `MCAuthorizeGate`, `AuthorizeGateProofs` | rules and inputs of its run; proofs | `AuthorizeGate` |
| `Passkeys`, `PasskeysProofs` | both stores and both ceremonies; proofs | |

**ProxySessions.**  `store[s]` is the Redis key of session `s`: its data (user
and `mfa_verified`; addresses and the risk score are not looked at here) and the
seconds it has left.  `left[s]` is what remains until `expires_at`, in whole
seconds; so is the time to live of a write-back (`num_seconds()` drops the
fraction), whose key therefore goes up to a second before `expires_at`.  The
model ends key and session on one tick: nothing in it is finer than that.  `pc[r]`
and `req[r]` are a handler in flight: where it is and its locals (`copy` is the
`Session` value it holds, `ttl` the time to live it has computed for a SETEX not
yet sent, `unseen`/`keys`/`doomed` the loops of `logout_all`).  Actions, by the
code they stand for:

- `get_session`: `GetMiss`/`GetHit` (GET), `CheckExpired` and `Purge` (DEL),
  `CheckLive` (the time to live is computed), `Touch` (SETEX);
- login: `StartLogin` (password, TOTP and risk behind it), `Create`, `Seal`,
  `Put`, `Reply`; mfa/verify: `StartVerify`, `get_session`, `Seal`, `Put`,
  `Reply`; enrolment: `HandleMfaEnroll`;
- any other path: `StartAccess`, `get_session`, `Decide`, `Forward`;
- logout: `StartLogout`, `Delete`, `Reply`; logout_all: `StartLogoutAll`,
  `Scan`/`ScanTruncated`, `Fetch`/`FetchLost`/`EndFetch`, `Revoke`/`EndRevoke`,
  `Reply`;
- environment: `Tick`, and `Abort` (a failed command or a client that hung up).

`earned`, `verified` and `revoked` record what happened or was promised; no
action reads them.  A TOTP code is abstracted to being right (the wrong one is a
refusal without effect); the policy's and the risk engine's verdicts are open.

**SessionLife, SessionRefinement.**  The abstract specification: a session is a
register (`life[s]`: absent, open, verified or over) with a set of values that
handlers may still write (`pending[s]`).  A read adds what it read to the set, a
login or a verify adds its mark, a write takes a value from the set, a logout
empties the register but not the set, and when its time comes the session is
over and the set is gone.  This is exactly as much as the code gives: not an
atomic register, but one with stale writers, whose values are all earned and
which ends.  The mapping: `life[s]` is what `get_session` would find,
`pending[s]` collects the copies and marks in the handlers of session `s`.  A
late SETEX, a purge and Redis dropping a key of an expired session map to
stuttering, which is the point of the expiry check on read.

**SessionPromises.**  `excused` collects the sessions that were deleted or
upgraded while another request held a copy, or that a sweep of logout_all lost
to a failed command; `RevokedUnlessExcused` and `VerifiedUnlessExcused` say that
nothing else ever breaks what a 200 promised, with any overlap of requests.
`entitled` collects the requests whose session has been good enough at some
moment since they began.

**Accounts.**  `users[a]` is the row with id `a`: name, address, TOTP secret and
`is_active`.  One action per SQL statement: `LookupRegister`, `Insert`;
`LookupLogin`, `CheckLogin`; `LookupEnroll` (SELECT and generate_secret),
`Update`; `LookupVerify`, `CheckVerify`; `Reply`; and `Abort`, which can come
between a statement and its answer (`lost`).  `SetActive` is an operator: no
code writes `is_active`.  A code is the secret it was computed from.  A password
is right or wrong, a choice made at the check; passwords never change.

**Login.**  `tail[l]` continues a login of DeviceTrust after its write to the
devices table: `Assess` (RiskEngine on the device it has just written, at some
hour), `CreateSession`, `SealSession`, `LogSuccess`, `Answer`; `Refuse` writes
the failure row.  `Drop` can end it anywhere.  It is composed so that
each step is DeviceTrust's or leaves DeviceTrust's variables alone: what is shown
of the devices table carries over.

**RateLimiter.**  One key; `granted[a]` counts what was admitted in this tick and
the `a` before it, at the INCR that decides so, and its last element is the burst
that `BurstIsBounded` is about.  When the handlers go on is another matter: it
takes Redis's replies, and replies held up for whole windows can arrive together.
The counter saturates just above the limit, which nothing can tell.

**DeviceTrust.**  One row per fingerprint, since the table is UNIQUE by it;
`find` looks at user and fingerprint, `Upsert` at the fingerprint.  The real
scores and steps (50, +10, -15, 70) are used.

**AuthorizeGate.**  One request with any path, method, hour, address and age,
after any choice of extra rules.  Attributes are empty, as in the code.  `audit`
holds the rows of the request: its score, and allowed or refused.

**Passkeys.**  The sign counter of each credential, in the store, in the
authenticator and in the copies handlers hold.  The record to refresh is either
one read for the challenge or one read afterwards; the code leaves both open.
The backend is an initial choice.

## Runs

| run | instance | states | shows |
|---|---|---|---|
| `sessions_concurrent` | 2 users, 2 sessions, 2 requests, duration 1, faults | 1.2 M, symmetry | `TypeOK`, `MfaIsEarned`, `DeadStaysDead`, `RemovalIsAuthorised`, `LateWritesRunOut`; `ImplementsSessionLife`, the refinement |
| `sessions_promises` | 1 user, 1 session, 2 requests, duration 2, faults | 181 k | `RevokedUnlessExcused`, `VerifiedUnlessExcused`, `ForwardedWasEntitled`; `SessionsEnd`, `EveryRequestDecided` |
| `answers_race` | 1 session, 2 requests | | `SomePromiseHolds` **fails** |
| `limiter` | 3 requests, limit 2, window 3 | 7.6 k | `BurstIsBounded`, `WindowNotExtended`, `ThrottlingEnds` |
| `limiter_orphan` | 2 requests | | `EveryWindowEnds` **fails** |
| `login` | 2 accounts, 1 machine, 2 logins, an hour of the night and one of the day, block threshold 60 | 1.0 M | `TrustMatchesScore`, `TrustIsEarned`, `HistoryIsOwn`, `LoginTypeOK`, `TokenIsBacked`, `LoginAuditAgrees` |
| `devices_shared` | 2 accounts, 1 machine, 1 login | | `FailureDecaysKnownDevice` **fails** |
| `accounts` | 2 accounts, names, addresses, secrets and requests | 396 k, symmetry | `NamesAreUnique`, `AdmittedWasAdmissible`, `RotationTakesEffect`, `UntoldWasLost` |
| `accounts_lockout` | 1 account, 1 request | | `GatedHaveEnrolled` **fails** |
| `gate` | 5 extra rules, at most 3 at a time | 55 k | `AuditAgrees`, `DenyWins`, `OnlyAgeIsRisky` |
| `gate_context` | the same | | `ContextIsHeeded` **fails** |
| `passkeys` | 2 credentials, 2 ceremonies, counters to 2, both stores | 169 k | `DeletedStaysDeleted`, `SignInIsRecorded`, `RegistrationNeverReplaces` |

Deadlock is checked where the system cannot stop (limiter, login, devices,
accounts, passkeys).
In ProxySessions session ids run out and no client is obliged to send, and a
gate run ends with its answer.

### What the failing runs say

Three of these runs meet two sentences of the comments or of the repository's
README at once.  Their properties say that one of the two is true at least, so
the trace refutes both.

- `answers_race`: a request reads its session; an mfa/verify marks it and a
  logout deletes it, both answering 200; the request's SETEX puts back what it
  had read.  The token works until the session expires, against "Revokes just the
  session tied to the presented token", and the mark is gone, against "upgrading
  the live session in place".
- `limiter_orphan`: a handler that stops between INCR and EXPIRE leaves a
  counter without an expiry; the source is throttled until somebody deletes the
  key.
- `devices_shared`: two accounts behind one address with one browser share a
  fingerprint; the second one's logins update the first one's row, and it never
  finds the device it has used ("A device seen before on this account nudges trust
  up further").  So its wrong password starts from the neutral 50 and writes 35
  over the 20 that the other account's failures had left: a failed attempt raises
  the trust it was to "decay".  A copy that has merely been overtaken, of two
  failures of one account, does the same.
- `gate_context`: a request from another address than the login's, at three in
  the morning and without a second factor, passes a Deny rule whose condition is
  that very change of address.  The repository's README promises "Attribute-based
  access control" and "step-up when risk increases"; authorize hands the engine no
  attributes, and with the default thresholds all that can change during a
  session of 15 minutes adds up to 55 of the 60 a step-up takes.
- `accounts_lockout`: mfa/enroll turns MFA on before it answers with the secret.
  If the answer is lost, logins ask for codes of a secret nobody knows, although
  login is to be gated only "if this user has actually enrolled".  A token from
  before still enrols again; without one the account is locked out.

One more disagreement has no run: webauthn.rs has `refresh_passkey` called "so
the stored sign counter advances", and of two sign-ins with one credential the one
that read its record first can write it last, which takes the counter back.  The
ceremonies are not wired into the server yet; `CounterFalls` proves that this, and
a credential saved anew in memory, are the only ways.

Most are consequences of reading in one command and writing in another.  How far
each of them goes is proved.  The first needs such an overlap, or a sweep that
lost a command (`RevokedAlways`, `VerifiedAlways`; the run `sessions_promises`).
A counter loses its expiry only by a request that ends after its INCR
(`OrphansByAbortOnly`), and then for ever (`OrphansStay`).  On a shared machine the
second account is never found (`SecondAccountNeverFound`), and a failed login
raises trust only by a copy that is not what the row holds
(`FailureRaisesByOtherCopyOnly`).  Conditions never count, whatever the rules
(`ConditionsAlwaysInert`), and for sessions of up to an hour the risk test refuses
nothing at thresholds above 55 (`OnlyAgeRisky`).  What an account's user does not
know was in a lost answer (`UntoldLost`).

### Bounds, and why they are enough

Races here are between two requests on one record, so two request slots and two
sessions (one to hit, one to leave alone), with two users where ownership
matters, show every pair of handlers at every pair of awaits.  A duration of 1
has a full second in which a write is possible and a partial one in which it is
not; 2 adds a second in which a write is late.  The limiter's window of 3 lets a
burst meet two windows and not three; three requests let one be between INCR and
EXPIRE while another exceeds the limit.  `MaxWins` is the number of logins trust
takes and the counter saturates there.  The symmetry sets of MCProxySessions are
sound because no action tells ids apart; the run with liveness does without, and
has one session, since what happens to one does not depend on another: even
logout_all treats each key by itself; only a SCAN cut short takes two sessions to
lose one, and of that `RevokedAlways` speaks, for any number.  In `accounts` two of everything give two
rivals for a name and two enrolments of one account; with three secrets (1.9 M
states) the same properties hold.  In `login` a block threshold of 60 makes the
engine block some logins and not others, which the default of 85 never does
(`LoginScoreBounded`).  The view of `sessions_concurrent`
hides `verified`, `revoked` and the history in `req`, which neither the actions
nor the properties of that run read.

### Fairness

`sessions_promises` assumes that time passes and that each request's next step
is taken if it stays possible: tokio polls every woken task and Redis answers or
breaks the connection.  Nothing is assumed of the upstream (`Works` leaves
`Forward` out): `upstream.timeout_seconds` is never read, so a request may hang
there.  Nothing is assumed of clients.  `limiter` assumes the same of `Expire`,
`Decide` and the clock; its `Abort` needs no assumption and gets none.  The
properties are true to that: `EveryRequestDecided` stops at the hand-over (and
leans on a SCAN that comes round to every session once), and
`ThrottlingEnds` excepts the orphaned counter.

## Proofs

Proved for every set of users, sessions, requests, rules and so on, from the
named assumptions on constants only:

- **ProxySessionsProofs**: `TypeCorrect`, `MfaEarned`, `DeadSessionsStayDead`,
  `RemovalAuthorised`, `SubjectsAlwaysMatch`.  `MfaIsEarned` is not inductive: a
  mark in Redis came from a copy in some handler, which came from Redis or from
  a login.  `IInv` therefore says of every handler (`InFlight`) that its subject
  is the session's owner, that the copy it holds is that owner's, that the mark
  it is going to set and the mark in its copy have been earned, and that what it
  is going to delete is its subject's; and the same of what is at rest in Redis
  and in tokens (`AtRest`).  `Growth` collects what other handlers may rely on:
  owners stay, expired sessions stay expired, earned codes stay earned.
  `Writers` lists which steps write a session's key, from which the two action
  properties follow.
- **SessionPromisesProofs**: `SessionsImplementLife`, the refinement;
  `RevokedAlways`, `VerifiedAlways`, `ForwardedAlways`, the promises;
  `LateWritesEnd`, `GoneForGood`, `HandlersGetOn`, `HandlersRunDown`,
  `SweepsNeverStall`, what an end of sessions and requests rests on.  It first
  says of each step what it does to single variables (part 1), and argues about
  those effects only.
  - The refinement needs, beyond `IInv`, that what is live leaves Redis by being
    deleted and not by its time to live (`Outlives`: `store[s].ttl >= left[s]`,
    also of a SETEX on its way), and that a login has its session to itself until
    it answers (`Purposes`), or `Create` could meet a key.  That is `BaseInv`;
    each step then maps to a step of SessionLife or to a stutter.
  - The promises need to know who may still write: outside `excused`, nobody holds
    a copy of a session that is not in Redis (`HeldIsLive`); a sweep has every
    session it is to revoke among what it still has to visit or delete, or that
    one is gone (`RevocationInv`); neither Redis nor a copy lacks the mark of a
    verified session (`VerificationInv`); and a copy that would pass belongs to an
    entitled request (`EntitlementInv`).  None is inductive without the others
    it is built on; together they are `PromiseInv`.
  - That sessions end: only a SETEX in flight can prolong the key of a session
    that is over, the tests in front of a write-back let no new one pass
    (`NoNewLateWriter`, which needs that a session's clock starts with its login,
    `NotStarted`), and each comes once.  So `LateWriters` shrinks with every
    prolongation, and a key that is gone then is gone for good.
  - That handlers end: `Stage` numbers the labels so that no step leads to a
    higher one, and where a step keeps the label it takes something out of the
    set the loop goes through (`GetsOn`).  With finitely many sessions, `Work`
    is a natural number which each of a request's own steps makes smaller and
    nobody else's step changes.  This is why logout_all ends although other
    requests create keys while it runs: what it reads of the keyspace is only
    its SCAN's, which the model takes to visit each session once.
- **AccountsProofs**: `TypeCorrect`, `NamesUnique`, `AdmittedAdmissible`,
  `RotationEffective`, `UntoldLost`.  The invariant says what a request has found
  out at each label (`InFlight`), that a secret drawn and not yet written is
  nobody else's and unknown to all (`Pending`: without it an update could restore
  an outdated one), that a written one has replaced what it was to replace
  (`Written`), that a row which passes the test was admissible when it was read
  (`Decides`), and of each row who has been or is being told (`Accounted`).
- **DeviceTrustProofs**: `TypeCorrect`, `TrustAgrees`, `TrustEarned`,
  `HistoryOwn`, `SecondAccountNeverFound`, `FailureRaisesByOtherCopyOnly`.  The
  invariant is a budget: with `w < 3` successes so far, every row and every copy
  read from it has a score of at most `40 + 10w`.  A stale copy keeps its budget
  because successes only grow (`CopyFrame`), a success pays for its reward.  So
  lost updates, which do happen, never help.
- **LoginProofs**: `LoginKeepsDevices`, that DeviceTrustProofs' theorems hold of the
  whole handler, from the way it is composed; `LoginTypeCorrect`,
  `TokensBacked`, `LoginAuditAgreesAlways`.  The invariant goes by the stage a
  login has reached: nothing is left behind before create_session (`Ahead`), the
  score is below the threshold from the verdict on and the session final from
  update_session on (`Sealed`), and what has been said is so (`Told`).
  `LoginRisk` shows that a score is a percentage, from the engine's parts.
- **RateLimiterProofs**: `TypeCorrect`, `WindowsNotExtended`, `BurstBounded`,
  `OrphansByAbortOnly`, `OrphansStay`.  The first two rest on `OneOwner`: at most
  one request has an EXPIRE to send, and until then the key has no expiry and
  cannot vanish.  The bound on bursts rests on `BurstInv`: for some `d`, the last
  key went `d` ticks ago, all that was admitted since is counted by the key
  that is there, at most `Limit` came before, and an expiry with `ttl` ticks to go
  was set after that key (`d + ttl >= Window`), so that when it goes nothing older
  than itself is left in the last `Window` ticks.
- **PasskeysProofs**: `TypeCorrect`, `DeletedStays`, `SignInRecorded`,
  `NeverReplaces`, `CounterFalls`.  That the store is not ahead of an
  authenticator is inductive once the same is known of everything a ceremony holds
  (`Behind`).  The action properties follow from `EffectStep`, which sorts all
  steps by what they do to the store and to who is signed in.
- **AuthorizeGateProofs**: `TypeCorrect`, `AuditAlwaysAgrees`, `DenyAlwaysWins`,
  `ConditionsAlwaysInert`, and with thresholds above 55 `OnlyAgeRisky`; and
  `LoginScoreBounded`, the arithmetic behind the fact that with the defaults a
  login is never blocked.  Of the engines by themselves, for every rule and
  context: an Allow rule never takes a permission away and a Deny rule never
  grants one (`RulesPullTheirWay`); a score is in 0..100 and falls in no factor
  (`ScoresAreMonotone`), so a riskier context never gets a milder
  recommendation, even with the thresholds in the wrong order
  (`AdviceIsMonotone`).  `DefaultDenyMoot` says what
  `build_default_policy_engine` amounts to: its rule allows every path with
  seven methods, so for those `policy.default_deny` changes no answer and what
  is denied is denied by a Deny rule.  (The paths are taken to be sequences, the
  one assumption beyond the named ones.)

Every safety property that a passing run checks is also proved, each inductive
invariant having been checked by TLC on the run's instance before.  Only
model-checked is liveness (`SessionsEnd`, `EveryRequestDecided`,
`ThrottlingEnds`), which needs fairness and ENABLED and is beyond TLAPS here.
Of the first two the safety halves are proved: that what has ended does not
begin again, that a request's steps run out, and that the one loop whose guard
could leave it with nothing to do (`Scan`) is not left so; what remains is that
a step which stays possible is taken.  Finiteness of `Sessions` is assumed in
`HandlersRunDown` only, and stands there in its statement.

## Not modelled, and why

Serving, TLS, routing, metrics, configuration and error rendering are I/O and
tables; of the accept loop it is worth knowing that one failed `accept` ends it.
Argon2, JWT signatures and WebAuthn cryptography are library functions: their
verdicts are choices.  A TOTP code is its secret; time steps are left out.
Token expiry is a choice of the client (it may stop at any time).  What
`generate_qr_url` and `AuditEvent` build is formatting.  Passkeys has one user,
since no operation of a store touches rows of two.

## Plan

Done first, because everything else leans on it: sessions; then the limiter and
device trust, where the other read-modify-writes are; then the pure engines and
the gate; then passkeys; then accounts, the login as a whole, the abstract
specification of a session and its refinement. Then
the proofs: the promises and the refinement of the sessions, the accounts, the
login, the bound on bursts, the passkeys.

What was then added: the lemmas about the engines for every context and every
set of rules, and the safety halves of `SessionsEnd` and `EveryRequestDecided`.

What could come next: more of the passkey ceremonies, once HTTP handlers call
them; the same measure for the other handlers (a login, a registration), whose
steps have no loop; a second user in Passkeys, once an operation touches two.
