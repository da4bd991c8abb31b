# A verification project for go-auth-refresh-template

The program is an HTTP authentication service in Go: accounts, password login, login with a
one-time code sent by e-mail, refresh-token rotation, logout, and password reset through a
one-time code and a reset token. It keeps no state in memory. Every request is served by a
goroutine of its own, and what requests share is one PostgreSQL database, reached through
sqlc-generated statements.

So the hard part is what two requests may do to each other between two SQL statements, and
what is left when a request fails half-way. That is what these modules are about.

All paths below are relative to `src/`.

## 1. Inventory

| Component | State | Operations | What makes it correct |
|---|---|---|---|
| **Refresh tokens** `internal/service/refresh_token.go`, `internal/repository/refresh_token.go` | table `refresh_tokens` (id, user_id, expires_at) | GenerateRefreshToken, Refresh (consume and replace in one transaction), Revoke, DeleteByUserID | a rotated token cannot be rotated again by a later refresh; a revoked one never comes back; a cookie names a stored row; an operation happens whole or not at all; no deadlock |
| **One-time codes** `internal/service/otp.go`, `internal/repository/otp.go` | table `otp` (challenge id, identifier UNIQUE, code hash, attempts, expires_at) | SendCode (replace in one transaction), VerifyLoginCode, VerifyPasswordResetCode, IncreaseAttempts | a code is used once and opens one door; wrong guesses on the reset path are bounded; what is stored was e-mailed; replacing is atomic, and what was replaced does not come back |
| **Unit of work** `internal/repository/transaction.go` | the open transaction | Exec: Begin, fn, Commit, deferred Rollback | whatever happens, locks are released and nothing half-done stays |
| **Authentication service** `internal/service/auth.go` | none of its own | RegisterUser, Login, LoginWithOtp, ResetPassword | a session needs a good password or code; a reset token is used once; a reset ends the user's sessions |
| **Reset tokens** `internal/repository/reset_token.go` | table `password_reset_tokens` (hash, user, expires_at, used_at) | Save, Consume | consumed once, only while fresh |
| **Users** `internal/repository/user.go`, `internal/service/user.go` | table `users` (UNIQUE email, UNIQUE username) | Save, Get…, UpdatePassword | one account per address and per name |
| **Access tokens, middleware** `internal/service/jwt.go`, `internal/web/middleware/auth.go` | none on the server; the client keeps the token | GenerateAccessToken, ValidateAccessToken, Authenticate | opens its own user's profile, until it expires (in whole seconds) and no longer |
| **HTTP handlers, error mapping, cookie** `internal/web/…` | the cookie `auth_cookie` in the browser's jar | one handler per route, HandleError | rotation does not lock an honest browser out; cookie and access token are one user's though they come at different moments; a logout is the end; a 401 is final |
| **E-mail sender** `internal/infra/email/sender.go` | none | SendCode | – |
| **Hashing** `pkg/secure` | none | HMAC of codes and reset tokens, bcrypt of passwords | – |
| **Configuration, start-up** `configs`, `main.go`, `internal/app`, `internal/web/server` | the ports of the host | NewConfig with, in development, a search for a free port; Server.Run | processes that start together do not all fail over each other; a free port is lost in the gap only; start-up ends |
| Migration, payload validation, swagger pages, sqlc plumbing, mocks | none | – | – |

How they meet:

- a handler calls one service method and maps its error to a status;
- `AuthService` calls the OTP and refresh-token services and repositories; some calls share a
  transaction through the context (`Exec`), the others commit statement by statement;
- services share nothing but the tables: interaction is by row locks, snapshots, the UNIQUE
  constraints and the clock;
- the client carries state too: the cookie, the access token, the challenge id, the code in
  the mailbox, the reset token. Its requests overlap, and their answers come in any order;
- processes on one host meet at the ports they want to listen on.

What is hard here, with the line where each bites, is the list `hazards` of `PROJECT.json`:
`NOW()` of a transaction that waited; a rotation meeting a logout or a reset; two SendCode
requests for one address; a comparison and its count in separate statements; a COMMIT whose
acknowledgement is lost; a failure between two transactions of one request; row locks taken
in any order; answers of one browser's overlapping requests that overtake each other or are
lost; an `exp` claim in whole seconds; a port that is free when probed and taken when needed;
integer widths in the configuration.

## 2. What the models assume of PostgreSQL

`unitOfWork.Exec` (`internal/repository/transaction.go:62`) passes no options to `BeginTx`, so
transactions run at READ COMMITTED, and a statement outside `Exec` is a transaction of its
own. The modules take from PostgreSQL, which is not in the repository:

- an uncommitted write is invisible to others and locks the row it changes;
- a statement that wants a locked row waits; when it gets the row it evaluates its WHERE
  clause again on the row as it now is, and passes over a row that is gone;
- which rows it wants was fixed by its snapshot, when it started;
- `NOW()` is when the transaction began;
- an INSERT under a UNIQUE constraint waits for a transaction that inserts or deletes a row
  with the same key, and fails if a committed one remains;
- the foreign key of `refresh_tokens` locks the row of `users` in a mode (KEY SHARE) that an
  UPDATE of `password` (NO KEY UPDATE) does not conflict with, so inserting a token does
  not wait for a reset;
- waiters for a row lock are served in turn;
- a transaction whose connection ends is rolled back.

The server and the database read the same clock. It moves in ticks, between any two
statements.

## 3. The modules

| Module | What it is |
|---|---|
| `TokenLedger` | abstract: sign-in, rotation and revocation, each at one instant |
| `RefreshTokens` | the refresh-token component, statement by statement |
| `RefreshTokensProofs` | its theorems |
| `MCRefreshTokens` | symmetry for TLC |
| `OneTimeCodes` | abstract: per address a box with at most one challenge |
| `OtpChallenges` | the one-time-code component, statement by statement |
| `OtpChallengesProofs` | its theorems |
| `MCOtpChallenges` | symmetry for TLC |
| `Sessions` | sign-in and password reset, composed with `RefreshTokens` (EXTENDS) and shown to implement it |
| `SessionsProofs` | its theorems |
| `MCSessions` | symmetry for TLC |
| `Recovery` | `Sessions` (EXTENDS) and `OtpChallenges` (INSTANCE) together, and shown to implement Sessions |
| `RecoveryProofs` | its theorems |
| `MCRecovery` | addresses and symmetry for TLC |
| `Accounts` | registration, index entry by index entry |
| `AccountsProofs` | its theorems |
| `MCAccounts` | symmetry for TLC |
| `Browser` | handlers, cookie and access token, composed with `TokenLedger` (EXTENDS), and the browser they serve |
| `BrowserProofs` | its theorems |
| `MCBrowser` | symmetry for TLC |
| `StartUp` | several processes looking for a port |
| `StartUpProofs` | its theorems |
| `MCStartUp` | for TLC |

In the modules about the database a *step* is one SQL statement, one COMMIT, or the code between two of
them. A `Handler` is a goroutine; `pc[h]` says which statement it runs next; its other
variables are the Go variables that live across statements. What a step reads and writes of
the tables is what was committed, plus the handler's own uncommitted rows.

### RefreshTokens

| State | Code |
|---|---|
| `stored`, `owner`, `expiresAt` | committed rows of `refresh_tokens` |
| `rowLock`, `userLock` | row locks of open transactions on `refresh_tokens` and on `users` |
| `presented`, `draft`, `scan`, `started` | the id from the cookie; the row built and not yet answered; the snapshot of DELETE … WHERE user_id; the transaction's NOW() |
| `delivered` | ids that reached a client in a `Set-Cookie` |
| `rotations`, `revoked` | history, read by properties only |

| Actions | Code |
|---|---|
| `GenerateRefreshToken`, `Save` | sign-in, called by Login and LoginWithOtp |
| `BeginRefresh`, `Consume` / `ConsumeNothing`, `SaveSuccessor`, `Commit` | `Refresh`: BEGIN, the UPDATE … RETURNING, the INSERT, COMMIT |
| `BeginRevoke`, `Delete` | `Revoke`, called by Logout |
| `UpdatePassword`, `DeleteByUserID`, `LockScanned`, `SkipDeleted`, `CommitPurge` | the tail of `ResetPassword`: UPDATE users, then DELETE … WHERE user_id, row by row, then COMMIT |
| `RejectMalformed` | a cookie that is no UUID |
| `Abort` | a statement, the signing or the COMMIT fails, the client goes away, the process dies: rollback |
| `Return` | the handler answers; only a nil error sets the cookie |

An acknowledged COMMIT may still be reported as an error (`Acknowledge`): the connection can
break after the database has done the work. A client that does not get the answer is the same
case: an answer `failed` hands out nothing. `Return` therefore covers lost responses too.

### OtpChallenges

`otp[e]` is the committed row whose identifier is `e`, which the UNIQUE constraint makes a
function. `rowLock[e]` and `inserted[e]` are the uncommitted DELETE and INSERT of a SendCode
transaction. Codes are model values: the HMAC is taken as injective, so comparing hashes is
comparing codes.

| Actions | Code |
|---|---|
| `BeginSend`, `LookupUser`, `EmailCode`, `Invalidate`, `Evict`, `Save` / `SaveConflict`, `CommitReplacement` | `SendCode` |
| `BeginLogin`, `FindUser`, `MatchLogin`, `TakeLogin`, `OpenSession` | `LoginWithOtp` and `VerifyLoginCode` |
| `BeginVerify`, `Check`, `TakeReset`, `BeginCount`, `IncreaseAttempts`, `FindOwner`, `SaveResetToken` | `VerifyPasswordResetCode` |
| `Register`, `Tick`, `Abort`, `Return` | an account appears; time; failure; the answer |

A statement that may have to wait is two actions: one takes the snapshot and `NOW()`, the next
gets the row, if it is still there and still satisfies the WHERE clause. The session and the
reset token at the end are single steps here (`OpenSession`, `SaveResetToken`); what becomes of
them belongs to RefreshTokens and Sessions, and Recovery puts them together.

`Limit` is the limit as the statements get it: an `int16`. At 32768 and more it is negative, zero
or small again, so fewer guesses are allowed than configured and never more.

`ImplementsOneTimeCodes` maps the table to `OneTimeCodes`: `box` is `otp`; `asked` are the
challenges that a DELETE under way has seen with the right code, unexpired; `retired` are those
that were used, replaced, or drawn by a SendCode that ended without storing them.

`guesses`, `guessing`, `used` and `grants` are history. A guess is a wrong code that was
*compared on the reset path* (`Check`) with the code of a challenge neither expired nor out of
attempts. Wrong codes at the OTP login are no guesses: its DELETE finds no row for them, and
nothing counts or limits them (finding 2). A request that is cut
short before it is counted takes its guess back (`Abort`): the code does nothing to count such a
guess, so `GuessBudget` speaks of the requests that run to their end.

### Sessions

`Sessions` EXTENDS `RefreshTokens` and adds what surrounds it in `AuthService`: the column
`users.password`, the table `password_reset_tokens`, and where a request is before it reaches
the refresh tokens (`stage[h]`). Its steps conjoin an action of RefreshTokens with what happens
outside, so that the lock on a reset token, the change of the password and the deletion of the
sessions are one transaction, as in `ResetPassword`.

| State | Code |
|---|---|
| `password` | committed `users.password`; a password is a model value, and bcrypt compares faithfully |
| `reset`, `spent`, `resetLock` | rows of `password_reset_tokens`; those whose `used_at` is set; the lock of an open transaction |
| `stage`, `subject`, `given`, `carried`, `begun` | the statement to run next; the user read; the new password and the reset token of the request; NOW() |
| `changes`, `read`, `opened`, `raced`, `uses` | history: resets per user; how many had committed when a sign-in read the row, and for a token, when the sign-in it descends from did; which tokens raced a reset; uses per reset token |

| Actions | Code |
|---|---|
| `Login`, `LoginWithOtp`, then `OpenSession`, `Insert` | the row read and compared (or the code consumed, by OtpChallenges); GenerateRefreshToken; its INSERT |
| `SaveResetToken` | the end of `VerifyPasswordResetCode` |
| `BeginReset`, `ConsumeReset` / `RefuseReset`, `ChangePassword`, *(DELETE, in RefreshTokens)*, `CommitReset` | `ResetPassword` |
| `Arrives`, `Succeed`, `Insert`, `Continues`, `TakesRow` | Refresh, Logout and the DELETE of a reset, as in RefreshTokens |
| `Refuse`, `Fail` | a bad password or a malformed cookie; a request cut short, with rollback |

### Recovery

A forgotten password, from the e-mail to the new one. `Recovery` EXTENDS `Sessions` and has
`OtpChallenges` as an instance, `Otp`, over the same handlers, the same clock and variables of its
own (`codeLock`, `at` and `since` are what `rowLock`, `pc` and `started` are there). The two
components meet where `setupDependencies` (`internal/app/app.go`) has one service call the other,
and a step there is a step of both:

| Actions | Code |
|---|---|
| `SignInWithCode` | `LoginWithOtp` after `VerifyLoginCode`: `Otp!OpenSession`, and the sign-in of Sessions for the user of the address |
| `HandOut` | the end of `VerifyPasswordResetCode`: `Otp!SaveResetToken`, and `SaveResetToken` of Sessions for the user of the address in the consumed row |
| `HandlesCode`, `HandlesSession`, `AsksElse` | a step of one component, which leaves the other alone; a goroutine serves one request at a time |

`UserOf` says whose an address is: `users.email` is UNIQUE and never updated. In Sessions alone a
reset token or a sign-in with a code may come out of nowhere; here each has its challenge, which
the history variables `origin` and `signIns` note.

### Accounts

`RegisterUser` inserts without looking first, so the two UNIQUE columns decide. An INSERT enters
its row into the indexes one after the other, in the order in which the table declares them,
and waits at each for a transaction with an uncommitted entry for the same key. Actions:
`BeginRegister`, `EnterEmail` / `EmailConflict`, `EnterUsername` / `UsernameConflict`,
`CommitUser`, `Abort`, `Return`.

### Browser

`Browser` looks at the same tokens from the other side of the HTTP connection. It EXTENDS
`TokenLedger`, which RefreshTokens and Sessions are proved to implement: what a handler does to
the tokens happens at one instant between the arrival of its request and its answer, so the
statements need not be there a second time. What is there is the HTTP layer, and one browser
whose requests overlap. What others do to the same tokens, such as a password reset, is
`Elsewhere`.

| State | Code |
|---|---|
| `ledger`, `gone` | the tokens, as in TokenLedger |
| `kind`, `about`, `cookie`, `bearer` | a request: its route, the user signing in or in the path, the cookie and the bearer token sent with it |
| `began`, `answer` | when its handler, or its transaction, began; the response on its way: status, `Set-Cookie` (`sets`), deletion (`clears`), access token |
| `body` | the access token in a body whose headers have come, and which the page has not read yet |
| `jar`, `access` | the browser's cookie (a token, none, or something that is no UUID) and the access token its page has kept |
| `rotated`, `refused`, `spoilt`, `quiet`, `signedOut`, `identity` | history, read by properties only |

| Actions | Code |
|---|---|
| `Begin`, `SignIn` / `RefuseSignIn` | `Login`, `LoginWithOtp`: `Welcome` is SetCookie and the body; no user or a wrong password is a 401, a code that does not match a 404 |
| `Refresh` / `RefuseRefresh` | `Refresh`; a token is refused when it had expired by the time the transaction began |
| `Logout` | `Logout`: `Farewell` deletes the cookie whatever became of the token; a cookie that is no UUID is a 401, and deleted |
| `GetProfile` | `Authenticate`, then the handler: 401, 403 or 200 (`ProfileStatus`) |
| `Fail`, `Report` | an error that is no domain error is a 500; it may come after a COMMIT that took effect |
| `Send` | the browser sends the cookie, the page adds the access token |
| `Receive`, then `Read` / `LoseBody`; `Lose` | the headers come and the browser obeys `Set-Cookie`; later the page reads the access token, or the body is lost; or all of the answer is lost |
| `DropCookie`, `Elsewhere`, `Tick` | the cookie ends or is overwritten; everybody else; the clock |

The clock ticks in fractions of a second: `jwt.NewNumericDate` drops the fraction of `exp`
(`Expires`). The status of an error is `StatusOf`, from `HandleError` and the client errors.

`OneIdentity` cannot be had always, and `identity` says when. A login overlapped by another login or
by a refresh ("crossed") may leave the cookie of one and the access token of the other, until a
login that nothing overlaps; and between the headers and the body of the answer to a login ("stale")
the browser has the new cookie and the page the old token. If the body is lost there, that lasts
until the page gets another token. In all other states, through refreshes and logouts that
overlap one another, with their answers and bodies in any order or lost, the two are one user's.

### StartUp

A process reads its configuration; in development `listenFromPort` probes ports upwards from
`API_PORT`, holding each for the moment between `Probe` and `Close`; then it connects to the
database and listens. `listener` says who has a port, `port` which one a process is at or has
settled for. The probe goes on to the next port on *any* `*net.OpError`, and stops beyond the
greatest port number (`NoPort`); every other error is fatal (`Stop`, `Taken`). Each process has an
`API_PORT` of its own, any integer: port 0 is whichever is free (`FreeFor`), every time anew, so the
probe of port 0 says nothing about the port the server gets; beyond the last port there is none to
be had, in development ("no available port found") or not.

Programs that have nothing to do with this one (`Foreign`) begin to listen and end at any time
(`Come`, `Leave`), also between a probe and its server. `culprit` and `intruded` are history: who had
the port when a process found it taken, and whose settled port a foreign program has taken.

## 4. Runs

| Run | Instance | What it shows |
|---|---|---|
| `refresh_safety` | 2 handlers, 1 user, 3 ids, Duration 2, time 0..2 | inductive invariant, types included; nested rotations; cookies backed by rows; revocation final; no token revived; implements `TokenLedger` |
| `refresh_once` | 2 handlers, 3 ids | **violated**: a token is rotated twice (finding 1) |
| `otp_safety` | 2 handlers, 1 address, 2 challenges, 2 codes, 2 attempts, time 0..1 | single use and single grant; guess budget of the reset path when two requests compare before either is counted; what is stored was e-mailed; the owner is always found; who is given a session or reset token is who was e-mailed the code; a SendCode replaces what it deleted; no deadlock; implements `OneTimeCodes` |
| `otp_liveness` | 2 handlers, 2 challenges | every request is answered |
| `otp_blocked` | 1 handler | **violated**: a blocked challenge is consumed by OTP login (finding 2) |
| `sessions_safety` | 2 handlers, 1 user, 2 ids, 2 passwords, 2 reset tokens, time 0..1 | the sessions that outlive a reset; a reset token is good once; token and password change together; no deadlock over three tables; the inductive invariant; implements RefreshTokens |
| `sessions_liveness` | 2 handlers, 1 user, 2 ids, 2 reset tokens | every sign-in, refresh, logout and reset is answered |
| `recovery_safety` | 2 handlers, 2 users with an address each, 1 challenge, 2 reset tokens, 1 session, 1 attempt, time 0..1 | a code opens one door; resets are paid for; what joins the components; implements Sessions |
| `accounts_registration` | 2 handlers, 2 addresses, 2 names | unique accounts; a refusal is never for a row that rolled back; no deadlock; every registration is answered |
| `accounts_conflict` | 1 handler, 2 addresses, 1 name | **violated**: the wrong column is blamed (finding 3) |
| `browser_safety` | 2 requests, 2 users, 2 tokens, durations 1, 2 ticks a second, time 0..2 | an honest browser is not locked out; one identity although cookie and token come apart; logout is the end; a 401 is final; access tokens end in time |
| `startup_ports` | 3 processes, 2 of them in development, 2 ports, foreign programs; `API_PORT` 0, 1 or 3 | not all fail over each other; a port found free is lost in the gap only; only servers keep ports; start-up ends |

Why the bounds are enough for what is asked:

- *Handlers.* The properties are about pairs of requests that meet: two handlers. A deadlock may
  be a longer cycle of transactions; that there is none of any length is proved (section 6).
- *Ids and challenges.* `Token` and `Challenge` stand for what `uuid.New()` returns. Three ids
  are a sign-in and the two successors of a double rotation. Two challenges are one in the
  table and one on its way to replace it, or two on their way. `IdsLeft` starts an operation that needs an id only
  while there is one for everybody under way, so that no handler gets stuck for want of ids.
- *Sessions.* One user is enough, for a reset touches only its own user's rows. Two ids for a
  session that survives a reset and the one that replaces it, or for one that does not. Two reset
  tokens for two resets that meet at the row of the user.
- *Recovery.* One challenge, tried by two requests at once at either endpoint, is what could be
  good for two things; a second reset token and a second user are there to be handed out wrongly.
  That two challenges do not get into each other's way is in `otp_safety`, and in the proofs. An
  address is its user (`Self`), so that permuting users permutes addresses.
- *Browser.* Two tokens are a session of each user, or a token and its successor, in the jar, on
  its way, and rotated away. A rotation nested in another needs a third: that case is covered by
  the proofs, which are for every set of tokens.
- *Start-up.* Two developers that probe each other out of a port, and a process that does not
  look for one. `API_PORT` 0, 1 and 3 are any port, the first of two, and one beyond the last; a
  probe that starts at 1 moves on to 2 and beyond. `Foreign` takes and leaves either port at any time.
- *Time.* `MaxTime` stops the clock. With Duration 2 and time 0..2 a token can be rotated
  before, at and after the moment another transaction began, and can expire by itself. In the
  OTP and reset runs a code or a reset token expires at time 1. Waiting for locks does not
  depend on time, so the runs that are about it alone stop the clock.
- *Symmetry* (`Interchangeable`) permutes handlers, ids, users and codes in the safety runs;
  never in a liveness run, where it is unsound.
- Deadlock is checked in every run: a handler can always abort or answer, a foreign program always
  come or leave. What deadlock there could be among transactions is a property of its
  own: `NoResetDeadlock`, `NoCodeDeadlock`, `NoRegistrationDeadlock`. (`NoDeadlock` of RefreshTokens,
  part of the first, and the type invariants are proved, and have no run to themselves.)

**Fairness.** `FairSessions` asks for weak fairness of what a handler does by itself (`Works`): a
runnable goroutine is run, and an open connection answers. It asks for strong fairness of what
waits for a row (`Waits`): PostgreSQL serves the waiters for a row in order, so one that
keeps being able to get it does. Nothing is asked of arrivals, of the clock, or of failures;
`Fail` may happen at any time or never. `FairSpec` of OtpChallenges and of Accounts (`Proceed`, and
what waits) divides their actions in the same way. In StartUp a process that
was launched runs (weak fairness of `Proceed`), but nothing is asked of `Connect`: `db.Ping`
(`internal/infra/database/postgres.go:26`) has no deadline, so a process whose database does not
answer waits for ever. `ServesOrEnds` therefore speaks of what comes before the ping and of what
comes after it. Browser states no
fairness, for it promises nothing about when an answer comes.

Every property of a passing run has a mutant in `PROJECT.json`: a plausible bug, written as an
operator `Mutant…` next to the definition it stands in for, with which TLC finds the property
violated.

## 5. What the runs found

1. **A refresh token can be rotated more than once.** `ConsumeRefreshToken` sets
   `expires_at = NOW()` and asks for `expires_at > NOW()`. `NOW()` is the start of the
   transaction. A refresh that began earlier than another rotation of the same token, and gets
   the row only after that rotation has committed, still finds `expires_at > NOW()`. Both
   answer with a successor. The README says that refreshing "consumes the current refresh
   token". What does hold, and is proved, is `NestedRotations`: it takes a refresh that was
   already under way; one that begins after the rotation is refused.
2. **The attempts limit does not bind OTP login.** A challenge blocked for the reset endpoint
   (`attempts = OTP_MAX_ATTEMPTS`) is consumed by `POST /auth/login/otp`, whose DELETE does not
   look at `attempts`.
3. **A taken username is reported as a taken address.** `SqlcUserRepository.Save` turns every
   unique violation into `ErrEmailAlreadyRegistered`, and the answer says "user email is already
   registered" when only the username is.

One more disagreement has no run of its own, because the definitions show it without a search: in
development the API may not listen where it is told to. README.md:67 says "The API listens on the host
and port configured through `API_HOST` and `API_PORT`."; `configs/setup.go:28-39` looks for the next
free port if that one is taken, silently, and puts it into the configuration (`ProbeNext`).

Not contradicted by any document, so described and not claimed as findings: the successor of a
refresh that meets a logout of the same token outlives the logout; the code of a request that
fails after consuming it is lost; a challenge may see up to `Handler - 1` guesses more than its
limit on the reset path; a right code that reaches OTP login between the e-mail and the COMMIT of its
SendCode is refused; in the gap between probe and listening a port may be lost to any program; and a
password reset does not end every session. A sign-in that read
the old password before the reset, or a sign-in or refresh whose INSERT came after the snapshot of
the reset's DELETE, leaves a session that lives on under the tokens that replace it.
`OnlyRacersOutliveReset` says that there are no others.

## 6. Proofs

`RefreshTokensProofs`, checked by TLAPS, for every set of handlers, users and tokens, every
positive Duration and every MaxTime. The assumptions are those of the constants
(`NoneIsNobody`, `NoneIsNoRow`, `DurationIsPositive`, `MaxTimeIsNat`), which TLC evaluates too.

| Theorem | Says |
|---|---|
| `TypeCorrect` | `Spec => []TypeOK` |
| `Invariance` | `Spec => []Inv` |
| `RotationsAreNested` | `Spec => []NestedRotations` |
| `CookiesAreBacked` | `Spec => []DeliveredIsBacked` |
| `DeadlockFreedom` | `Spec => []NoDeadlock` |
| `RevokedForGood` | `Spec => RevocationIsFinal` |
| `ExpiryOnlyShrinks` | `Spec => NeverRevived` |
| `LedgerImplemented` | `Spec => ImplementsLedger` |

The inductive invariant `Inv` is the conjunction of

- `TypeOK`;
- `LockDiscipline`: who holds which lock at which statement, and that what the UPDATE saw of
  its row (`expires_at > NOW()`) stays true while the row is locked;
- `DraftDiscipline`: a drawn id belongs to one handler and to no table until its COMMIT, and a
  delivered one names a row or a revoked one;
- `RotationDiscipline`: a rotated token expired no later than its rotations began;
- `NestedRotations`.

*NestedRotations* is not inductive alone. When a rotation commits, `LockDiscipline` says its
NOW() is before the row's `expires_at`, and `RotationDiscipline` that `expires_at` is at or
before the NOW() of every earlier rotation of the token; so it began before all of them, and it
commits after them. *DeadlockFreedom*: of any group, a handler that waits waits for one that
holds a token row. A Refresh that holds one waits for nothing. A purge that holds one waits
only for a Refresh, because another purge with a row in its list would have the same user's
lock. *LedgerImplemented*: `Save`, `Commit`, `Delete` and `CommitPurge` are the steps that show,
as `Issue`, `Rotate` and `Revoke`; all others leave the ledger as it was.

`SessionsProofs`, for every set of handlers, users, tokens, passwords and reset tokens, adds the
assumptions `NoneIsNothingHere` and `ResetDurationIsPositive`:

| Theorem | Says |
|---|---|
| `SessionsTypeCorrect` | `SessionsSpec => []SessionsTypeOK` |
| `SessionsInvariance` | `SessionsSpec => [](Inv /\ SessionsInv)` |
| `RefreshTokensImplemented` | `SessionsSpec => ImplementsRefreshTokens`, which is `Spec` |
| `ResetsOnce` | `SessionsSpec => []ResetTokenUsedOnce` |
| `ResetsWhole` | `SessionsSpec => []ResetsAreWhole` |
| `ResetDeadlockFreedom` | `SessionsSpec => []NoResetDeadlock` |
| `ResetEndsSessions` | `SessionsSpec => []OnlyRacersOutliveReset` |
| `SessionsKeepLedger` | `SessionsSpec => ImplementsLedger` |

Every step of Sessions is one of RefreshTokens or leaves its variables alone (`SessionsRefine`), so
`Inv` holds here as well, and what was proved there follows by implication: `SessionsKeepLedger`
is an instance. Most steps conjoin an action of RefreshTokens, so there is little in
`RefreshTokensImplemented` but the sign-ins and the tail of a reset; that a reset is whole is not in it,
and is `ResetsWhole`. To that come `ResetDiscipline` (a reset that has its token holds the row, unused,
until it ends; so a second one that gets the row finds it used) and `RaceDiscipline` (a stored
token of the user a purge is for is either on the purge's list or has raced it). When a reset
commits, the tokens left to its user are therefore ones that raced. The invariant has to follow a
session through its rotations: a successor is as old as what it replaces (`opened`), and a
Refresh that commits behind a purge's snapshot has raced it like a sign-in.

*ResetDeadlockFreedom* orders the transactions by what they may still wait for: before a reset
token, before the user's row, before refresh tokens, and nothing; whoever is last in a group
waits for nobody in it. *ResetsWhole*: at COMMIT the token is unused and its user is the one whose
password changes (both in `ResetDiscipline`), so both sides of the equation grow by one.

`OtpChallengesProofs`, for every finite set of handlers, every set of addresses, challenges and
codes, and every positive limit and duration (`OtpNoneIsNothing`, `OtpNoneIsNoRow`,
`OtpDurationIsPositive`, `MaxAttemptsIsPositive`, `OtpTimeIsBounded`, `HandlersAreFinite`):

| Theorem | Says |
|---|---|
| `CodesInvariance` | `Spec => []CodesInv` |
| `CodesTypeCorrect` | `Spec => []TypeOK` |
| `ConsumedOnce` | `Spec => []SingleUse` |
| `GuessesAreBounded` | `Spec => []GuessBudget` |
| `StoredIsEmailed` | `Spec => []StoredWasEmailed` |
| `OwnersAreFound` | `Spec => []OwnerAlwaysFound` |
| `OneTimeCodesImplemented` | `Spec => ImplementsOneTimeCodes` |
| `GrantsFollowTheMail` | `Spec => []GrantedWasEmailed` |
| `LocksAreHeld` | `Spec => []LockDiscipline` |
| `ReplacesWhatItDeleted` | `Spec => OnlyDeletedIsReplaced` |
| `CodeDeadlockFreedom` | `Spec => []NoCodeDeadlock` |

A challenge id is one SendCode's (`SendDiscipline`: nobody else has drawn it, it is unused and
untried), then one row's (`BoxDiscipline`), then nobody's. So the row that a DELETE … RETURNING
finds under the id its snapshot showed is the only one and unused (`TakeLemma`), whatever
happened between the two. `TakeDiscipline` adds that of the requests that have consumed a
challenge each has its own. *GuessesAreBounded*: `pending[c]` counts the handlers whose wrong code
for `c` was compared and not counted. While a row can be tried, its guesses are at most its
attempts and what is pending; a comparison adds one to both sides, a count moves one from pending
to attempts, an abort takes one from both. When a code is compared, the handler itself is not
pending, attempts is less than `Limit`, and `Limit` is at most `MaxAttempts` (`LimitLemma`, by the
arithmetic of `int16`); that gives the bound. *OneTimeCodesImplemented*: `CommitReplacement`, the two
looks, the two takings and the count are the steps that show; a SendCode that ends without storing
its challenge gives it up. No lock is needed for any of this but that a statement judges the row
again when it gets it. *GrantsFollowTheMail*: the row that is taken is one that `StoredWasEmailed`
speaks of, with the code of the request and the identifier the user is looked up by (`TakeMails`).

The other three need to know who has locked what, which is `LockDiscipline`. Where a row is
stored, only the SendCode that has deleted it may have inserted; so what a COMMIT replaces is what
that SendCode deleted (*ReplacesWhatItDeleted*). *CodeDeadlockFreedom*: whoever is waited for
is a SendCode between its DELETE and its COMMIT. One that has inserted waits for nothing, and one
that has deleted and wants to insert could wait only for one that has inserted at the same address,
which there is not (`HoldersDoNotWait`). So no request that waits is waited for.

`RecoveryProofs`, for every finite set of handlers, every set of users, addresses, challenges,
codes, passwords and tokens, and all positive limits and durations. To the assumptions of Sessions come
those of OtpChallenges (`CodesAreNotNone`, `CodesLast`, `GoroutinesAreFinite`, `NoneIsNoCode`), and
`AddressesAreUnique`:

| Theorem | Says |
|---|---|
| `SessionsImplemented` | `RecoverySpec => ImplementsSessions`, which is `SessionsSpec` |
| `RecoveryKeepsSessions` | `RecoverySpec => [](Inv /\ SessionsInv) /\ ImplementsLedger` |
| `DoorsAreKnown` | `RecoverySpec => []DoorDiscipline` |
| `OneDoorOpens` | `RecoverySpec => []OneDoor` |
| `ResetsPaidFor` | `RecoverySpec => []ResetsArePaidFor` |

That every step is one of OtpChallenges, or none, holds by the way the actions are put together and
says nothing of the program; it is a lemma (`OtpSteps`), there so that the theorems of
`OtpChallengesProofs` hold here. What is used of them is `CodesKnown`. With it every step is one
of Sessions: an address whose code was taken is somebody's, by `GrantedWasEmailed`. `DoorDiscipline`
joins the two: a challenge has given as many grants as sign-ins and reset tokens together, and a
reset token's user is the one its challenge was e-mailed to. *OneDoorOpens* follows with
`SingleUse`. *ResetsPaidFor*: a password has changed once for every used token of its user
(`ResetsAreWhole`), and the map from those to their challenges is an injection, by `OneDoor`, into
the challenges that were e-mailed to the user and consumed for no sign-in. (`SameOtp` says
that the instance in `Recovery` and the instance of the proofs are one component; it is proved by
comparing the definitions.)

`AccountsProofs`, for every set of handlers, addresses, names and ids (`NoneIsNoHandler`,
`NoneIsNoAccount`): `AccountsInvariance`, `AccountsTypeCorrect`, `AccountsAreUnique`,
`RegistrationAnswersAreTrue`, `RegistrationDeadlockFreedom`. The key is `EntryDiscipline`: a handler
that has passed an index holds the entry until it ends, nobody else holds one, and no committed row
has an entered key. A registration therefore waits only for one that is at a later index, and of
any group the one that is furthest waits for nobody in it.

`BrowserProofs`, for every set of users, tokens and requests and all positive durations
(`BrowserNoneIsNothing`, `BrowserMalformedIsNoToken`, `BrowserNoneIsNoRecord`,
`BrowserDurationsArePositive`):

| Theorem | Says |
|---|---|
| `BrowserInvariance` | `Spec => []BrowserInv` |
| `BrowserTypeCorrect` | `Spec => []BrowserTypeOK` |
| `NotLockedOut` | `Spec => []HeldTokenIsGood` |
| `IdentityIsOne` | `Spec => []OneIdentity` |
| `LogoutIsTheEnd` | `Spec => []SignedOutStaysOut` |
| `RefusedForGood` | `Spec => RefusalIsFinal` |
| `AccessEndsInTime` | `Spec => AccessIsTimely` |
| `BrowserKeepsLedger` | `Spec => LedgerSpec` |

*NotLockedOut*: a new token on its way to the browser is in that answer and nowhere else
(`InFlight`), so it can have been ended only by somebody else. The token in the jar can have been
ended only by a request that carried it, and until that request's answer is in, the request is
there to account for it (`JarIsAccounted`); the answer then replaces the cookie, deletes it, or is
a 500. *IdentityIsOne*: as long as no login is crossed there is one user to whom the cookie, the access
token, and every cookie, answer and body under way belong (`Session`), and only a login that nothing
overlaps changes who that is; then the page keeps the old token for the moments that `identity`
calls "stale". *RefusedForGood*: a refused token has `expires` at or before the beginning of whoever was
refused (`Refusing`), and `expires` only shrinks. *AccessEndsInTime* is `ExpiresLemma`: dropping the
fraction of a second costs less than a second. This module is proved over TokenLedger, and
RefreshTokens and Sessions implement TokenLedger (`LedgerImplemented`, `SessionsKeepLedger`), and the
browser with its handlers asks of the ledger nothing else (`BrowserKeepsLedger`). That a handler's
transaction may be put in place of its step on the ledger is an argument on paper, not a theorem:
the step lies between the arrival of the request and its answer, as the COMMIT does.

`StartUpProofs`, for every set of processes, every set of integers as values of `API_PORT` and every
range of ports (`PortsAreNumbers`, `DevelopersAreProcesses`, `ForeignIsForeign`): `StartUpInvariance`,
`StartUpTypeCorrect`, `ProbesLetGo`, `GapOnly`, `NotAllFail`. The key is `PortsAreChosen`: unless
somebody came in between (`intruded`), no foreign program has the port a developer has settled for,
which is *GapOnly*. *NotAllFail*: a process of this program that took the port of another was serving
or probing then, so it had not failed, and of the processes the last to fail has nobody left to
blame but a foreign program.

Only model-checked: liveness (`EveryRequestAnswered`, `EverySessionRequestAnswered`, `ServesOrEnds`),
which is out of the prover's reach, as is ENABLED. The prover has no induction over data, and no
SMT backend in a module with RECURSIVE operators; these modules need neither.

## 7. Not modelled

- Hashing, JWT signatures and parsing, UUID collisions: taken as perfect.
- Decoding and validation of payloads: a request that fails them changes nothing.
- E-mail templates, swagger pages, wiring: no shared state.
- The migration command: it hands the schema to a library. The schema is modelled by what its
  constraints do.
- Functions no code calls: `DeleteByUserID` of reset tokens, `DeletePasswordResetTokensByID`,
  `GetValidPasswordResetToken`, `Get` of refresh tokens.
- Clock skew between server and database.
- `OTP_MAX_VALUE` of 0 or less, which makes `rand.Int` panic: it changes no state.

## 8. Plan

1. *(done)* `TokenLedger`, `RefreshTokens`, its proofs. *(done)* `OneTimeCodes`, `OtpChallenges`, its proofs.
2. *(done)* `Sessions` and its proofs. *(done)* `Accounts` and its proofs.
3. *(done)* `Browser`: access tokens, cookies and statuses, and its proofs. *(done)* `StartUp` and its proofs.
4. *(done)* `Recovery`: Sessions and OtpChallenges together, and its proofs.

## 9. Running

    tlc -workers 2 -config RefreshTokens_safety.cfg MCRefreshTokens.tla
    tlc -workers 2 -config OtpChallenges_safety.cfg MCOtpChallenges.tla
    tlc -workers 2 -config Sessions_safety.cfg MCSessions.tla
    tlc -workers 2 -config Recovery_safety.cfg MCRecovery.tla
    tlc -workers 2 -config Accounts_registration.cfg MCAccounts.tla
    tlc -workers 2 -config Browser_safety.cfg MCBrowser.tla
    tlc -workers 2 -config StartUp_ports.cfg MCStartUp.tla
    tlapm RefreshTokensProofs.tla

and in the same way the other configurations and proof modules. The longest run takes about three
minutes and a half with two workers, the longest proof about two.
