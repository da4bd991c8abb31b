---------------------------- MODULE OtpChallenges ----------------------------
(***************************************************************************)
(* One-time codes: the table otp, otpService (SendCode, VerifyLoginCode    *)
(* with the part of LoginWithOtp around it, VerifyPasswordResetCode) and   *)
(* the e-mail that carries the code.                                       *)
(*                                                                         *)
(* As in RefreshTokens, a step is one SQL statement or COMMIT under READ   *)
(* COMMITTED.  A statement first looks: its snapshot and its NOW() are     *)
(* taken when it starts.  If another transaction has locked the row it     *)
(* wants, it waits, and then judges the row again as it has become.        *)
(* otp.identifier is UNIQUE: an INSERT waits for a transaction that is     *)
(* deleting or inserting a row with its identifier, and fails if a         *)
(* committed one remains.                                                  *)
(***************************************************************************)
EXTENDS Integers, FiniteSets

CONSTANTS
    Handler,        \* goroutines that serve a request
    Email,          \* addresses, registered or not
    Challenge,      \* what uuid.New() can return
    Code,           \* what rand.Int() can return
    None,
    MaxAttempts,    \* OTP_MAX_ATTEMPTS
    Duration,       \* OTP_DURATION, in ticks of the clock
    MaxTime         \* bound: the clock stops here

ASSUME OtpNoneIsNothing == None \notin Handler \cup Email \cup Challenge \cup Code
ASSUME OtpDurationIsPositive == Duration \in Nat \ {0}
ASSUME MaxAttemptsIsPositive == MaxAttempts \in Nat \ {0}
ASSUME OtpTimeIsBounded == MaxTime \in Nat
ASSUME HandlersAreFinite == IsFiniteSet(Handler)

VARIABLES
    now,
    registered,     \* addresses with a row in users; rows are never removed
    otp,            \* the committed row with this identifier, or None
    rowLock,        \* the transaction that has deleted that row, uncommitted
    inserted,       \* the transaction that has inserted one, uncommitted
    pc,
    email,          \* the address the request is about
    challenge,      \* the challenge id the request drew or was given
    code,           \* the code the request drew or was given
    started,        \* the time the row was built, or NOW() of the statement
    target,         \* the id of the row the statement's snapshot shows
    drawn,          \* ids uuid.New() has returned
    emailed,        \* history: the codes that left by e-mail
    used,           \* history: how often a challenge was consumed
    guesses,        \* history: wrong codes compared to reset a password, see Check
    guessing,       \* history: the handlers whose guess has yet to be counted
    grants          \* history: how often a challenge gave a session or a reset token

users == registered
table == <<otp, rowLock, inserted>>
locals == <<email, challenge, code, started, target>>
history == <<drawn, emailed, used, guesses, guessing, grants>>
vars == <<now, users, table, pc, locals, history>>

Sending == {"lookup", "email", "invalidate", "evict", "insert", "commit"}
LoggingIn == {"find", "match", "takeLogin", "session"}
Verifying == {"check", "takeReset", "miss", "count", "owner", "token"}
Working == Sending \cup LoggingIn \cup Verifying
Answer == {"done", "rejected", "denied", "failed"}

Row == [id: Challenge, code: Code, attempts: 0..MaxAttempts, expires: Nat]

ASSUME OtpNoneIsNoRow == None \notin Row

TypeOK ==
    /\ now \in 0..MaxTime
    /\ registered \subseteq Email
    /\ otp \in [Email -> Row \cup {None}]
    /\ rowLock \in [Email -> Handler \cup {None}]
    /\ inserted \in [Email -> Handler \cup {None}]
    /\ pc \in [Handler -> {"idle"} \cup Working \cup Answer]
    /\ email \in [Handler -> Email \cup {None}]
    /\ challenge \in [Handler -> Challenge \cup {None}]
    /\ code \in [Handler -> Code \cup {None}]
    /\ started \in [Handler -> Nat]
    /\ target \in [Handler -> Challenge \cup {None}]
    /\ drawn \subseteq Challenge
    /\ emailed \subseteq [id: Challenge, to: Email, code: Code]
    /\ used \in [Challenge -> Nat]
    /\ guesses \in [Challenge -> Nat]
    /\ guessing \subseteq Handler
    /\ grants \in [Challenge -> Nat]

Init ==
    /\ now = 0
    /\ registered = {}
    /\ otp = [e \in Email |-> None]
    /\ rowLock = [e \in Email |-> None]
    /\ inserted = [e \in Email |-> None]
    /\ pc = [h \in Handler |-> "idle"]
    /\ email = [h \in Handler |-> None]
    /\ challenge = [h \in Handler |-> None]
    /\ code = [h \in Handler |-> None]
    /\ started = [h \in Handler |-> 0]
    /\ target = [h \in Handler |-> None]
    /\ drawn = {}
    /\ emailed = {}
    /\ used = [c \in Challenge |-> 0]
    /\ guesses = [c \in Challenge |-> 0]
    /\ guessing = {}
    /\ grants = [c \in Challenge |-> 0]

-----------------------------------------------------------------------------
Goto(h, label) == pc' = [pc EXCEPT ![h] = label]
Acknowledge(h) == \E answer \in {"done", "failed"} : Goto(h, answer)

\* Where the row with challenge id c is, if it is anywhere.
Holders(c) == {e \in Email : otp[e] # None /\ otp[e].id = c}

\* The transaction ends: what it locked and what it left uncommitted goes.
Unlock(h) ==
    /\ rowLock' = [e \in Email |-> IF rowLock[e] = h THEN None ELSE rowLock[e]]
    /\ inserted' = [e \in Email |-> IF inserted[e] = h THEN None ELSE inserted[e]]

Tick ==
    /\ now < MaxTime
    /\ now' = now + 1
    /\ UNCHANGED <<users, table, pc, locals, history>>

\* RegisterUser, in a module of its own: here only that a row of users appears.
Register(e) ==
    /\ e \notin registered
    /\ registered' = registered \cup {e}
    /\ UNCHANGED <<now, table, pc, locals, history>>

-----------------------------------------------------------------------------
\* SendCode draws the id it will answer with before it looks for the user.
BeginSend(h, e, c) ==
    /\ pc[h] = "idle"
    /\ c \notin drawn
    /\ drawn' = drawn \cup {c}
    /\ email' = [email EXCEPT ![h] = e]
    /\ challenge' = [challenge EXCEPT ![h] = c]
    /\ Goto(h, "lookup")
    /\ UNCHANGED <<now, users, table, code, started, target, emailed, used, guesses,
                   guessing, grants>>

\* Mutant of LookupUser: a code for whoever asks.
MutantNoLookup(h) ==
    /\ pc[h] = "lookup"
    /\ Goto(h, "email")
    /\ UNCHANGED <<now, users, table, locals, history>>

\* An unknown address gets an id like any other, of a challenge there is not.
LookupUser(h) ==
    /\ pc[h] = "lookup"
    /\ Goto(h, IF email[h] \in registered THEN "email" ELSE "done")
    /\ UNCHANGED <<now, users, table, locals, history>>

\* Mutant of EmailCode: the mail server's refusal is ignored.
MutantMailRefused(h, k) ==
    /\ pc[h] = "email"
    /\ code' = [code EXCEPT ![h] = k]
    /\ started' = [started EXCEPT ![h] = now]
    /\ Goto(h, "invalidate")
    /\ UNCHANGED <<now, users, table, email, challenge, target, history>>

\* The code is drawn and e-mailed, and the row built, before anything is stored.
EmailCode(h, k) ==
    /\ pc[h] = "email"
    /\ code' = [code EXCEPT ![h] = k]
    /\ started' = [started EXCEPT ![h] = now]
    /\ emailed' = emailed \cup {[id |-> challenge[h], to |-> email[h], code |-> k]}
    /\ Goto(h, "invalidate")
    /\ UNCHANGED <<now, users, table, email, challenge, target, drawn, used, guesses,
                   guessing, grants>>

\* InvalidateByIdentifier: the DELETE looks ...
Invalidate(h) ==
    /\ pc[h] = "invalidate"
    /\ target' = [target EXCEPT ![h] = IF otp[email[h]] = None THEN None
                                                               ELSE otp[email[h]].id]
    /\ Goto(h, "evict")
    /\ UNCHANGED <<now, users, table, email, challenge, code, started, history>>

\* Mutant of Evict: the DELETE runs on its own connection and commits at once.
MutantEvictOutside(h) ==
    /\ pc[h] = "evict"
    /\ otp' = [otp EXCEPT ![email[h]] = IF email[h] \in Holders(target[h]) THEN None ELSE @]
    /\ Goto(h, "insert")
    /\ UNCHANGED <<now, users, rowLock, inserted, locals, history>>

\* ... and takes the row it saw, unless that is gone by now.  A row that came
\* in the meantime is none of its business.
Evict(h) ==
    /\ pc[h] = "evict"
    /\ IF target[h] # None /\ email[h] \in Holders(target[h])
       THEN /\ rowLock[email[h]] = None
            /\ rowLock' = [rowLock EXCEPT ![email[h]] = h]
       ELSE UNCHANGED rowLock
    /\ Goto(h, "insert")
    /\ UNCHANGED <<now, users, otp, inserted, locals, history>>

\* The INSERT can be judged: no other transaction is at this identifier.
Undisputed(h) == {rowLock[email[h]], inserted[email[h]]} \subseteq {None, h}

\* Mutant of Save: an upsert, ON CONFLICT (identifier) DO UPDATE.
MutantUpsert(h) ==
    /\ pc[h] = "insert"
    /\ Undisputed(h)
    /\ inserted' = [inserted EXCEPT ![email[h]] = h]
    /\ Goto(h, "commit")
    /\ UNCHANGED <<now, users, otp, rowLock, locals, history>>

Save(h) ==
    /\ pc[h] = "insert"
    /\ Undisputed(h)
    /\ otp[email[h]] = None \/ rowLock[email[h]] = h
    /\ inserted' = [inserted EXCEPT ![email[h]] = h]
    /\ Goto(h, "commit")
    /\ UNCHANGED <<now, users, otp, rowLock, locals, history>>

\* Unique violation: somebody else's code is there.  The transaction rolls back.
SaveConflict(h) ==
    /\ pc[h] = "insert"
    /\ Undisputed(h)
    /\ otp[email[h]] # None /\ rowLock[email[h]] # h
    /\ Unlock(h)
    /\ Goto(h, "failed")
    /\ UNCHANGED <<now, users, otp, locals, history>>

CommitReplacement(h) ==
    /\ pc[h] = "commit"
    /\ otp' = [otp EXCEPT ![email[h]] = [id |-> challenge[h], code |-> code[h],
                                         attempts |-> 0, expires |-> started[h] + Duration]]
    /\ Unlock(h)
    /\ Acknowledge(h)
    /\ UNCHANGED <<now, users, locals, history>>

-----------------------------------------------------------------------------
\* Mutant of Take: trust the snapshot, whatever became of the row since.
MutantTakeAsSeen(h, there, hit, miss) ==
    /\ \A e \in there : rowLock[e] = None
    /\ otp' = [e \in Email |-> IF e \in there THEN None ELSE otp[e]]
    /\ used' = IF target[h] = None THEN used ELSE [used EXCEPT ![target[h]] = @ + 1]
    /\ Goto(h, IF target[h] = None THEN miss ELSE hit)
    /\ UNCHANGED <<now, users, rowLock, inserted, locals, drawn, emailed, guesses, guessing,
                   grants>>

\* DELETE ... RETURNING in a transaction of its own: of the row it looked for,
\* wait until nobody holds it, and take it if the WHERE clause still holds:
\* there is where, or nowhere; hit and miss say how the request goes on.
Take(h, there, hit, miss) ==
    /\ \A e \in there : rowLock[e] = None
    /\ otp' = [e \in Email |-> IF e \in there THEN None ELSE otp[e]]
    /\ used' = IF there = {} THEN used ELSE [used EXCEPT ![target[h]] = @ + 1]
    /\ email' = [email EXCEPT ![h] = IF there = {} THEN @ ELSE CHOOSE e \in there : TRUE]
    /\ Goto(h, IF there = {} THEN miss ELSE hit)
    /\ UNCHANGED <<now, users, rowLock, inserted, challenge, code, started, target,
                   drawn, emailed, guesses, guessing, grants>>

\* int16(MaxAttempts): 32768 and more come out negative, or small again.
Limit == ((MaxAttempts + 32768) % 65536) - 32768

\* What the snapshot shows of a row that satisfies the WHERE clause.
Look(h, candidates) ==
    target' = [target EXCEPT ![h] = IF candidates = {} THEN None
                                    ELSE otp[CHOOSE e \in candidates : TRUE].id]

BeginLogin(h, e, k) ==
    /\ pc[h] = "idle"
    /\ email' = [email EXCEPT ![h] = e]
    /\ code' = [code EXCEPT ![h] = k]
    /\ Goto(h, "find")
    /\ UNCHANGED <<now, users, table, challenge, started, target, history>>

\* LoginWithOtp looks for the user first.
FindUser(h) ==
    /\ pc[h] = "find"
    /\ Goto(h, IF email[h] \in registered THEN "match" ELSE "rejected")
    /\ UNCHANGED <<now, users, table, locals, history>>

\* VerifyLoginCode: Consume looks for the row of the address with this code ...
MatchLogin(h) ==
    /\ pc[h] = "match"
    /\ started' = [started EXCEPT ![h] = now]
    /\ Look(h, {e \in {email[h]} : /\ otp[e] # None
                                   /\ otp[e].code = code[h]
                                   /\ otp[e].expires > now})
    /\ Goto(h, "takeLogin")
    /\ UNCHANGED <<now, users, table, email, challenge, code, history>>

\* ... and takes it.  A wrong code changes nothing: login counts no attempts.
TakeLogin(h) ==
    /\ pc[h] = "takeLogin"
    /\ Take(h, {e \in Holders(target[h]) : /\ otp[e].code = code[h]
                                            /\ otp[e].expires > started[h]},
            "session", "rejected")

\* The rest of LoginWithOtp: the access token and RefreshTokens' sign-in.
OpenSession(h) ==
    /\ pc[h] = "session"
    /\ grants' = [grants EXCEPT ![target[h]] = @ + 1]
    /\ Acknowledge(h)
    /\ UNCHANGED <<now, users, table, locals, drawn, emailed, used, guesses, guessing>>

-----------------------------------------------------------------------------
BeginVerify(h, c, k) ==
    /\ pc[h] = "idle"
    /\ challenge' = [challenge EXCEPT ![h] = c]
    /\ code' = [code EXCEPT ![h] = k]
    /\ Goto(h, "check")
    /\ UNCHANGED <<now, users, table, email, started, target, history>>

\* Mutant of Check: the comparison does not look at attempts.
MutantCheckUncapped(h) ==
    LET open == {e \in Holders(challenge[h]) : otp[e].expires > now}
        wrong == {e \in open : otp[e].code # code[h]}
    IN  /\ pc[h] = "check"
        /\ started' = [started EXCEPT ![h] = now]
        /\ Look(h, open \ wrong)
        /\ guesses' = IF wrong = {} THEN guesses ELSE [guesses EXCEPT ![challenge[h]] = @ + 1]
        /\ guessing' = IF wrong = {} THEN guessing ELSE guessing \cup {h}
        /\ Goto(h, IF wrong = {} THEN "takeReset" ELSE "miss")
        /\ UNCHANGED <<now, users, table, email, challenge, code, drawn, emailed, used, grants>>

\* VerifyPasswordResetCode: ConsumeByChallengeID looks for the row.  guesses
\* counts the wrong codes that were compared here, on the reset path, with the code
\* of a challenge that is neither expired nor out of attempts, by requests not cut
\* short later.  A wrong code at the OTP login finds no row, and nobody counts it.
Check(h) ==
    LET open == {e \in Holders(challenge[h]) :
                   otp[e].expires > now /\ otp[e].attempts < Limit}
        wrong == {e \in open : otp[e].code # code[h]}
    IN  /\ pc[h] = "check"
        /\ started' = [started EXCEPT ![h] = now]
        /\ Look(h, open \ wrong)
        /\ guesses' = IF wrong = {} THEN guesses ELSE [guesses EXCEPT ![challenge[h]] = @ + 1]
        /\ guessing' = IF wrong = {} THEN guessing ELSE guessing \cup {h}
        /\ Goto(h, IF wrong = {} THEN "takeReset" ELSE "miss")
        /\ UNCHANGED <<now, users, table, email, challenge, code, drawn, emailed, used, grants>>

TakeReset(h) ==
    /\ pc[h] = "takeReset"
    /\ Take(h, {e \in Holders(target[h]) : /\ otp[e].code = code[h]
                                            /\ otp[e].expires > started[h]
                                            /\ otp[e].attempts < Limit},
            "owner", "miss")

\* otp == nil: IncreaseAttempts, a statement of its own with a NOW() of its own.
BeginCount(h) ==
    /\ pc[h] = "miss"
    /\ started' = [started EXCEPT ![h] = now]
    /\ Goto(h, "count")
    /\ UNCHANGED <<now, users, table, email, challenge, code, target, history>>

\* SET attempts = attempts + 1.
Counted(row) == [id |-> row.id, code |-> row.code, attempts |-> row.attempts + 1,
                 expires |-> row.expires]

IncreaseAttempts(h) ==
    LET counted == {e \in Holders(challenge[h]) :
                      otp[e].expires > started[h] /\ otp[e].attempts < Limit}
    IN  /\ pc[h] = "count"
        /\ \A e \in counted : rowLock[e] = None
        /\ otp' = [e \in Email |-> IF e \in counted THEN Counted(otp[e])
                                                    ELSE otp[e]]
        /\ guessing' = guessing \ {h}
        /\ Goto(h, "rejected")
        /\ UNCHANGED <<now, users, rowLock, inserted, locals, drawn, emailed, used, guesses,
                       grants>>

\* otp != nil: its identifier must be a user's, or PermissionDenied.
FindOwner(h) ==
    /\ pc[h] = "owner"
    /\ Goto(h, IF email[h] \in registered THEN "token" ELSE "denied")
    /\ UNCHANGED <<now, users, table, locals, history>>

\* The reset token is stored, in a transaction of its own, and handed out.
SaveResetToken(h) ==
    /\ pc[h] = "token"
    /\ grants' = [grants EXCEPT ![target[h]] = @ + 1]
    /\ Acknowledge(h)
    /\ UNCHANGED <<now, users, table, locals, drawn, emailed, used, guesses, guessing>>

-----------------------------------------------------------------------------
\* Mutant of Abort: no deferred Rollback, the transaction stays open.
MutantNoRollback(h) ==
    /\ pc[h] \in Working
    /\ guesses' = IF h \in guessing THEN [guesses EXCEPT ![challenge[h]] = @ - 1] ELSE guesses
    /\ guessing' = guessing \ {h}
    /\ Goto(h, "failed")
    /\ UNCHANGED <<now, users, table, locals, drawn, emailed, used, grants>>

\* A statement or the mail server fails, the client goes away, the process
\* dies: the open transaction, if any, is rolled back, what earlier
\* transactions of the request committed stays.
Abort(h) ==
    /\ pc[h] \in Working
    /\ Unlock(h)
    /\ guesses' = IF h \in guessing THEN [guesses EXCEPT ![challenge[h]] = @ - 1] ELSE guesses
    /\ guessing' = guessing \ {h}
    /\ Goto(h, "failed")
    /\ UNCHANGED <<now, users, otp, locals, drawn, emailed, used, grants>>

Return(h) ==
    /\ pc[h] \in Answer
    /\ Goto(h, "idle")
    /\ email' = [email EXCEPT ![h] = None]
    /\ challenge' = [challenge EXCEPT ![h] = None]
    /\ code' = [code EXCEPT ![h] = None]
    /\ started' = [started EXCEPT ![h] = 0]
    /\ target' = [target EXCEPT ![h] = None]
    /\ UNCHANGED <<now, users, table, history>>
-----------------------------------------------------------------------------
\* The environment: users register, requests arrive, time passes.
Arrive(h) ==
    \/ \E e \in Email, c \in Challenge : BeginSend(h, e, c)
    \/ \E e \in Email, k \in Code : BeginLogin(h, e, k)
    \/ \E c \in Challenge, k \in Code : BeginVerify(h, c, k)

\* What a handler does without waiting for another ...
Proceed(h) ==
    \/ LookupUser(h)
    \/ \E k \in Code : EmailCode(h, k)
    \/ Invalidate(h)
    \/ CommitReplacement(h)
    \/ FindUser(h)
    \/ MatchLogin(h)
    \/ OpenSession(h)
    \/ Check(h)
    \/ BeginCount(h)
    \/ FindOwner(h)
    \/ SaveResetToken(h)
    \/ Return(h)

\* ... and what may have to wait for a transaction of SendCode to end.
TakeRow(h) ==
    \/ Evict(h)
    \/ Save(h)
    \/ SaveConflict(h)
    \/ TakeLogin(h)
    \/ TakeReset(h)
    \/ IncreaseAttempts(h)

Next ==
    \/ Tick
    \/ \E e \in Email : Register(e)
    \/ \E h \in Handler : Arrive(h) \/ Proceed(h) \/ TakeRow(h) \/ Abort(h)

Spec == Init /\ [][Next]_vars

\* As in RefreshTokens: handlers run, and lock waiters are served in order.
FairSpec == Spec /\ \A h \in Handler : WF_vars(Proceed(h)) /\ SF_vars(TakeRow(h))

-----------------------------------------------------------------------------
\* A challenge is consumed at most once, and gives at most one session or reset
\* token, however many requests carry its code to the two endpoints at the same
\* time and whatever replaces it meanwhile.
SingleUse == \A c \in Challenge : grants[c] <= used[c] /\ used[c] <= 1

\* Comparing a code (ConsumeByChallengeID) and counting a wrong one
\* (IncreaseAttempts) are two statements, so every request under way may get
\* its comparison in before the limit bites.  No more than that: while a
\* challenge can still be tried, each wrong code compared on the reset path is
\* counted or about to be, and these never exceed the limit by more than the other
\* handlers.  The OTP login has no limit: see BlockedIsNotConsumed.
GuessBudget ==
    /\ \A e \in Email :
          otp[e] # None /\ otp[e].expires > now /\ otp[e].attempts < Limit =>
             guesses[otp[e].id] <=
                otp[e].attempts + Cardinality({h \in guessing : challenge[h] = otp[e].id})
    /\ \A c \in Challenge : guesses[c] <= MaxAttempts + Cardinality(Handler) - 1

\* SendCode e-mails before it stores: there is never a code in the table that
\* its user was not sent.
StoredWasEmailed ==
    \A e \in Email : otp[e] # None =>
        [id |-> otp[e].id, to |-> e, code |-> otp[e].code] \in emailed

\* otp.identifier is no foreign key, yet every row names a user: the
\* PermissionDenied branch of VerifyPasswordResetCode cannot be reached, because
\* only SendCode inserts, it looks the user up first, and users stay.
OwnerAlwaysFound == \A h \in Handler : pc[h] # "denied"

\* The user who gets the session or the reset token is the one the row names,
\* found after the row is gone: it is the user to whose address the code in the
\* request was sent, under that very challenge, whatever the request claims and
\* whatever took the row's place meanwhile.
GrantedWasEmailed ==
    \A h \in Handler : pc[h] \in {"session", "owner", "token"} =>
        [id |-> target[h], to |-> email[h], code |-> code[h]] \in emailed

\* A SendCode puts its row in the place of one that its own DELETE took, or in
\* an empty one: the code of another SendCode that got in between is not lost.
OnlyDeletedIsReplaced ==
    [][\A e \in Email :
          otp[e] # None /\ otp'[e] # None /\ otp'[e].id # otp[e].id =>
              rowLock[e] # None /\ rowLock[e] = inserted[e]]_vars

\* Handler h needs a row, or a place in the index, that a transaction of g has;
\* one of h's own, if an earlier request left it open.
WaitsFor(h, g) ==
    /\ g \in Handler
    /\ \/ pc[h] = "evict" /\ email[h] \in Holders(target[h]) /\ rowLock[email[h]] = g
       \/ pc[h] = "insert" /\ g # h /\ g \in {rowLock[email[h]], inserted[email[h]]}
       \/ pc[h] \in {"takeLogin", "takeReset"} /\ \E e \in Holders(target[h]) : rowLock[e] = g
       \/ pc[h] = "count" /\ \E e \in Holders(challenge[h]) : rowLock[e] = g

\* Two SendCodes for one address meet at the old row and at the UNIQUE index:
\* one has deleted and the other inserted, and each could wait for the other.
\* No group of requests, however large, waits only for its own members.
NoCodeDeadlock ==
    \A group \in SUBSET Handler :
        group # {} => \E h \in group : \A g \in group : ~ WaitsFor(h, g)

\* Every request is answered, whichever transactions of SendCode it meets and
\* however they end.
EveryRequestAnswered == \A h \in Handler : pc[h] # "idle" ~> pc[h] = "idle"

\* Why they hold: who has deleted or inserted a row is where its SendCode says,
\* and where a row is stored only the one who has deleted it may have inserted.
LockDiscipline ==
    /\ \A e \in Email : rowLock[e] # None =>
          pc[rowLock[e]] \in {"insert", "commit"} /\ email[rowLock[e]] = e /\ otp[e] # None
    /\ \A e \in Email : inserted[e] # None =>
          /\ pc[inserted[e]] = "commit" /\ email[inserted[e]] = e
          /\ otp[e] = None \/ rowLock[e] = inserted[e]
    /\ \A h \in Handler : pc[h] = "commit" => inserted[email[h]] = h

\* The promise without statements and locks.
Asked == {target[h] : h \in {g \in Handler : /\ pc[g] \in {"takeLogin", "takeReset"}
                                               /\ target[g] # None}}
Underway == {challenge[h] : h \in {g \in Handler : pc[g] \in Sending}}
Retired == {c \in drawn \ Underway : Holders(c) = {}}

Codes == INSTANCE OneTimeCodes WITH
    box <- otp,
    asked <- Asked,
    retired <- Retired

\* Replacing a code is one instant: a SendCode that fails at any point leaves
\* the earlier code as it was, and nobody ever finds the address without one
\* because of a SendCode.  Consuming and counting are one instant each too.  A
\* code that was consumed or replaced never comes back, and one is consumed only
\* for a request that gave it while it was good, though perhaps after it expired.
ImplementsOneTimeCodes == Codes!CodesSpec

-----------------------------------------------------------------------------
\* test/auth_test.go, "rejects correct code after maximum attempts": a blocked
\* challenge is not consumed.
BlockedIsNotConsumed ==
    [][\A e \in Email :
          otp[e] # None /\ otp[e].attempts = MaxAttempts => used'[otp[e].id] = used[otp[e].id]]_vars
=============================================================================
