------------------------------ MODULE Sessions -------------------------------
(***************************************************************************)
(* Passwords, password-reset tokens and the sessions they open and end:    *)
(* AuthService.Login, LoginWithOtp and ResetPassword, with the column      *)
(* users.password and the table password_reset_tokens, around the          *)
(* refresh-token component of RefreshTokens.                               *)
(*                                                                         *)
(* Login reads the hash in one statement, compares it, and stores the      *)
(* session in another; nothing keeps the password from changing between    *)
(* them.  ResetPassword is one transaction: it marks the reset token used, *)
(* changes the password and deletes the user's refresh tokens.             *)
(***************************************************************************)
EXTENDS RefreshTokens

CONSTANTS
    Password,
    Reset,          \* reset tokens that can be drawn
    ResetDuration   \* RESET_TOKEN_DURATION, in ticks of the clock

ResetRow == [user: User, expires: Nat]

ASSUME NoneIsNothingHere == None \notin Reset \cup Password \cup ResetRow
ASSUME ResetDurationIsPositive == ResetDuration \in Nat \ {0}

VARIABLES
    password,   \* column users.password; equal hashes are equal passwords
    reset,      \* the committed row of password_reset_tokens, or None
    spent,      \* the rows whose used_at is set
    resetLock,  \* the handler whose transaction has locked that row, or None
    stage,      \* where the handler is in Login or ResetPassword
    subject,    \* the user whose row the handler has read
    given,      \* the new password in the request
    carried,    \* the reset token in the request
    begun,      \* NOW() of the ResetPassword transaction
    changes,    \* history: how often the password of a user was reset
    read,       \* history: changes of the subject when its row was read
    opened,     \* history: read of the sign-in that a token descends from
    raced,      \* history: see Insert
    uses        \* history: the resets a reset token was good for

accounts == <<password, reset, spent, resetLock>>
request == <<subject, given, carried, begun, read>>
record == <<changes, opened, raced, uses>>
sessionVars == <<accounts, stage, request, record>>

\* "open": a sign-in between its credentials and GenerateRefreshToken.
\* "consume", "update", "resetting": ResetPassword before its first statement,
\* before its second, and in RefreshTokens.
Stage == {"none", "open", "consume", "update", "resetting"}

SessionsTypeOK ==
    /\ password \in [User -> Password]
    /\ reset \in [Reset -> ResetRow \cup {None}]
    /\ spent \subseteq Reset
    /\ resetLock \in [Reset -> Handler \cup {None}]
    /\ stage \in [Handler -> Stage]
    /\ subject \in [Handler -> User \cup {None}]
    /\ given \in [Handler -> Password \cup {None}]
    /\ carried \in [Handler -> Reset \cup {None}]
    /\ begun \in [Handler -> Nat]
    /\ changes \in [User -> Nat]
    /\ read \in [Handler -> Nat]
    /\ opened \in [Token -> Nat]
    /\ raced \subseteq Token
    /\ uses \in [Reset -> Nat]
    /\ \A h \in Handler :
          /\ stage[h] \in {"open", "update", "resetting"} => subject[h] \in User
          /\ stage[h] \in {"consume", "update", "resetting"} =>
                carried[h] \in Reset /\ given[h] \in Password

SessionsInit ==
    /\ Init
    /\ password \in [User -> Password]
    /\ reset = [r \in Reset |-> None]
    /\ spent = {}
    /\ resetLock = [r \in Reset |-> None]
    /\ stage = [h \in Handler |-> "none"]
    /\ subject = [h \in Handler |-> None]
    /\ given = [h \in Handler |-> None]
    /\ carried = [h \in Handler |-> None]
    /\ begun = [h \in Handler |-> 0]
    /\ changes = [u \in User |-> 0]
    /\ read = [h \in Handler |-> 0]
    /\ opened = [t \in Token |-> 0]
    /\ raced = {}
    /\ uses = [r \in Reset |-> 0]

-----------------------------------------------------------------------------
Enter(h, s) == stage' = [stage EXCEPT ![h] = s]

Forget(h) ==
    /\ subject' = [subject EXCEPT ![h] = None]
    /\ given' = [given EXCEPT ![h] = None]
    /\ carried' = [carried EXCEPT ![h] = None]
    /\ begun' = [begun EXCEPT ![h] = 0]
    /\ read' = [read EXCEPT ![h] = 0]

ReleaseReset(h) ==
    resetLock' = [r \in Reset |-> IF resetLock[r] = h THEN None ELSE resetLock[r]]

Unoccupied(h) == pc[h] = "idle" /\ stage[h] = "none"

\* Bound: as IdsLeft, for sign-ins too.
SessionIdsLeft ==
    Cardinality({h \in Handler : pc[h] \in {"consume", "rotate"} \/ stage[h] = "open"})
        < Cardinality(Fresh)

\* A sign-in whose credentials were good when they were looked at.
Accept(h, u) ==
    /\ SessionIdsLeft
    /\ subject' = [subject EXCEPT ![h] = u]
    /\ read' = [read EXCEPT ![h] = changes[u]]
    /\ Enter(h, "open")
    /\ UNCHANGED <<accounts, given, carried, begun, record>>

\* Login reads the user's row and compares the hash with the password p.
Login(h, u, p) ==
    /\ Unoccupied(h)
    /\ password[u] = p
    /\ Accept(h, u)
    /\ UNCHANGED vars

\* LoginWithOtp: OtpChallenges has consumed the code.
LoginWithOtp(h, u) ==
    /\ Unoccupied(h)
    /\ Accept(h, u)
    /\ UNCHANGED vars

\* Mutant of OpenSession: the row is committed before it is built.
MutantOpensAtOnce(h) ==
    /\ stage[h] = "open"
    /\ IdsLeft
    /\ NewToken(h, subject[h])
    /\ stored' = stored \cup {draft'[h]}
    /\ Goto(h, "done")
    /\ Enter(h, "none")
    /\ Forget(h)
    /\ UNCHANGED <<accounts, record, now, locks, presented, started, scan, history>>

\* GenerateRefreshToken, up to the INSERT.
OpenSession(h) ==
    /\ stage[h] = "open"
    /\ GenerateRefreshToken(h, subject[h])
    /\ opened' = [opened EXCEPT ![draft'[h]] = read[h]]
    /\ Enter(h, "none")
    /\ Forget(h)
    /\ UNCHANGED <<accounts, changes, raced, uses>>

\* Unknown user or wrong password (Login), malformed cookie (Refresh, Logout).
Refuse(h) ==
    /\ Unoccupied(h)
    /\ RejectMalformed(h)
    /\ UNCHANGED sessionVars

-----------------------------------------------------------------------------
\* The end of VerifyPasswordResetCode stores a reset token and hands it out.
SaveResetToken(r, u) ==
    /\ reset[r] = None
    /\ reset' = [reset EXCEPT ![r] = [user |-> u, expires |-> now + ResetDuration]]
    /\ UNCHANGED <<vars, password, spent, resetLock, stage, request, record>>

\* ResetPassword hashes the new password and begins its transaction.
BeginReset(h, r, p) ==
    /\ Unoccupied(h)
    /\ carried' = [carried EXCEPT ![h] = r]
    /\ given' = [given EXCEPT ![h] = p]
    /\ begun' = [begun EXCEPT ![h] = now]
    /\ Enter(h, "consume")
    /\ UNCHANGED <<vars, accounts, subject, read, record>>

\* Mutant of Usable: used_at is not looked at.
MutantUsableAgain(h) ==
    reset[carried[h]] # None /\ reset[carried[h]].expires > begun[h]

\* The WHERE clause of ConsumePasswordResetToken.
Usable(h) ==
    /\ reset[carried[h]] # None
    /\ carried[h] \notin spent
    /\ reset[carried[h]].expires > begun[h]

\* Mutant of ConsumeReset: on a connection of its own.
MutantConsumeOutside(h) ==
    /\ stage[h] = "consume"
    /\ Usable(h)
    /\ spent' = spent \cup {carried[h]}
    /\ subject' = [subject EXCEPT ![h] = reset[carried[h]].user]
    /\ Enter(h, "update")
    /\ UNCHANGED <<vars, password, reset, resetLock, given, carried, begun, read, record>>

\* The UPDATE gets the row; used_at is invisible to others until CommitReset.
ConsumeReset(h) ==
    /\ stage[h] = "consume"
    /\ Usable(h)
    /\ resetLock[carried[h]] = None
    /\ resetLock' = [resetLock EXCEPT ![carried[h]] = h]
    /\ subject' = [subject EXCEPT ![h] = reset[carried[h]].user]
    /\ Enter(h, "update")
    /\ UNCHANGED <<vars, password, reset, spent, given, carried, begun, read, record>>

\* token == nil: ErrInvalidResetToken, and the transaction rolls back.
RefuseReset(h) ==
    /\ stage[h] = "consume"
    /\ ~ Usable(h)
    /\ RejectMalformed(h)
    /\ Enter(h, "none")
    /\ Forget(h)
    /\ UNCHANGED <<accounts, record>>

\* UPDATE users, waiting for another reset of the same user.
ChangePassword(h) ==
    /\ stage[h] = "update"
    /\ UpdatePassword(h, subject[h])
    /\ Enter(h, "resetting")
    /\ UNCHANGED <<accounts, request, record>>

\* Mutant of CommitReset: the refresh tokens stay.
MutantKeepsTokens(h) ==
    /\ stage[h] = "resetting"
    /\ pc[h] = "purge"
    /\ Unlock(h)
    /\ Acknowledge(h)
    /\ password' = [password EXCEPT ![subject[h]] = given[h]]
    /\ spent' = spent \cup {carried[h]}
    /\ changes' = [changes EXCEPT ![subject[h]] = @ + 1]
    /\ uses' = [uses EXCEPT ![carried[h]] = @ + 1]
    /\ ReleaseReset(h)
    /\ Enter(h, "none")
    /\ Forget(h)
    /\ UNCHANGED <<now, table, locals, history, reset, opened, raced>>

\* COMMIT: the token is used, the password changed and the sessions gone.
CommitReset(h) ==
    /\ stage[h] = "resetting"
    /\ CommitPurge(h)
    /\ password' = [password EXCEPT ![subject[h]] = given[h]]
    /\ spent' = spent \cup {carried[h]}
    /\ changes' = [changes EXCEPT ![subject[h]] = @ + 1]
    /\ uses' = [uses EXCEPT ![carried[h]] = @ + 1]
    /\ ReleaseReset(h)
    /\ Enter(h, "none")
    /\ Forget(h)
    /\ UNCHANGED <<reset, opened, raced>>

-----------------------------------------------------------------------------
\* A row of refresh_tokens appears.  History notes whether it raced a reset:
\* the reset's DELETE has its snapshot already, or a reset has committed since
\* the credentials were looked at, or the row replaces one that had raced.
Insert(h) ==
    LET t == draft[h]
        late == \E g \in Handler : pc[g] = "purge" /\ userLock[owner[t]] = g
        stale == pc[h] = "save" /\ opened[t] < changes[owner[t]]
    IN  /\ Save(h) \/ Commit(h)
        /\ raced' = IF late \/ stale \/ presented[h] \in raced THEN raced \cup {t} ELSE raced
        /\ UNCHANGED <<accounts, stage, request, changes, opened, uses>>

\* A session goes on under a new token.
Succeed(h) ==
    /\ SaveSuccessor(h)
    /\ opened' = [opened EXCEPT ![draft'[h]] = opened[presented[h]]]
    /\ UNCHANGED <<accounts, stage, request, changes, raced, uses>>

\* The rest of RefreshTokens goes on as there.
Arrives(h) ==
    /\ Unoccupied(h)
    /\ \E t \in Token : (SessionIdsLeft /\ BeginRefresh(h, t)) \/ BeginRevoke(h, t)
    /\ UNCHANGED sessionVars

Continues(h) ==
    /\ \/ ConsumeNothing(h) \/ Return(h)
       \/ \E u \in User : DeleteByUserID(h, u)
       \/ \E t \in Token : SkipDeleted(h, t)
    /\ UNCHANGED sessionVars

TakesRow(h) == TakeRow(h) /\ UNCHANGED sessionVars

\* Mutant of Fail: the lock on the reset token stays.
MutantKeepsReset(h) ==
    /\ Abort(h) \/ (stage[h] \in {"open", "consume", "update"} /\ UNCHANGED vars)
    /\ Enter(h, "none")
    /\ Forget(h)
    /\ UNCHANGED <<accounts, record>>

\* The request is cut short, in RefreshTokens (Abort) or outside it.
Fail(h) ==
    /\ Abort(h) \/ (stage[h] \in {"open", "consume", "update"} /\ UNCHANGED vars)
    /\ ReleaseReset(h)
    /\ Enter(h, "none")
    /\ Forget(h)
    /\ UNCHANGED <<password, reset, spent, record>>

\* The environment decides that a request arrives.
Asks(h) ==
    \/ \E u \in User, p \in Password : Login(h, u, p)
    \/ \E u \in User : LoginWithOtp(h, u)
    \/ \E r \in Reset, p \in Password : BeginReset(h, r, p)
    \/ Refuse(h)
    \/ Arrives(h)

\* What a handler does by itself ...
Works(h) ==
    OpenSession(h) \/ RefuseReset(h) \/ CommitReset(h) \/ Insert(h) \/ Succeed(h) \/ Continues(h)

\* ... and when the row it needs is free.
Waits(h) == ConsumeReset(h) \/ ChangePassword(h) \/ TakesRow(h)

SessionsNext ==
    \/ Tick /\ UNCHANGED sessionVars
    \/ \E r \in Reset, u \in User : SaveResetToken(r, u)
    \/ \E h \in Handler : Asks(h) \/ Works(h) \/ Waits(h) \/ Fail(h)

sessionsAll == <<vars, sessionVars>>

SessionsSpec == SessionsInit /\ [][SessionsNext]_sessionsAll

\* A goroutine that can run is run, and PostgreSQL grants a row lock in the
\* order it was asked for, so a waiter is not passed over for ever.  Nothing
\* makes requests arrive, fail or time pass.
FairSessions ==
    /\ SessionsSpec
    /\ \A h \in Handler : WF_sessionsAll(Works(h)) /\ SF_sessionsAll(Waits(h))

-----------------------------------------------------------------------------
\* A reset token is good for one reset, however many requests carry it at once
\* and whether or not they learn what became of them.
ResetTokenUsedOnce == \A r \in Reset : uses[r] <= 1

\* The password and the reset token change together, or neither does: a user's
\* password was changed once for every used token of that user.
ResetsAreWhole ==
    \A u \in User : changes[u] = Cardinality({r \in spent : reset[r].user = u})

\* ResetPassword ends the sessions that were opened with the old credentials,
\* except those of requests it ran into: a session that is older than its
\* user's password was stored while the reset was deleting, or by a sign-in
\* that had looked at the credentials before, or it continues such a session.
OnlyRacersOutliveReset ==
    \A t \in stored : opened[t] < changes[owner[t]] => t \in raced

\* Handler h needs a row that the transaction of g has locked.
NeedsRowOf(h, g) ==
    \/ WaitsFor(h, g)
    \/ /\ g # h
       /\ \/ stage[h] = "consume" /\ Usable(h) /\ resetLock[carried[h]] = g
          \/ stage[h] = "update" /\ userLock[subject[h]] = g

\* ResetPassword locks a reset token, then the user, then the refresh tokens,
\* of which Refresh locks one: no circle of transactions, with three kinds of
\* rows to wait for.
NoResetDeadlock ==
    \A group \in SUBSET Handler :
        group # {} => \E h \in group : \A g \in group : ~ NeedsRowOf(h, g)

\* Every request (sign-in, Refresh, Logout, reset) is answered, and lets its locks
\* go: whatever another does, fails to do or leaves unfinished (tx.Rollback is
\* deferred).
EverySessionRequestAnswered == \A h \in Handler : ~ Unoccupied(h) ~> Unoccupied(h)

\* Around RefreshTokens, the services use it as it expects to be used: all that
\* is shown there of Spec holds here.
ImplementsRefreshTokens == Spec

-----------------------------------------------------------------------------
(* Why they hold: what is true between any two statements.                 *)

\* A reset that has its token holds its row, unused, until it ends, and changes
\* the password of the user it is for.
ResetDiscipline ==
    /\ \A r \in Reset : resetLock[r] # None =>
          stage[resetLock[r]] \in {"update", "resetting"} /\ carried[resetLock[r]] = r
    /\ \A h \in Handler : stage[h] \in {"update", "resetting"} =>
          /\ resetLock[carried[h]] = h
          /\ reset[carried[h]] # None
          /\ reset[carried[h]].user = subject[h]
          /\ carried[h] \notin spent
    /\ IsFiniteSet(spent)
    /\ \A r \in spent : reset[r] # None
    /\ \A r \in Reset : uses[r] = IF r \in spent THEN 1 ELSE 0

\* A purge is a reset's and has its user's row; what it will not delete of that
\* user's tokens has raced it.
RaceDiscipline ==
    /\ \A h \in Handler :
          /\ stage[h] \in {"open", "consume", "update"} => pc[h] = "idle"
          /\ pc[h] \in {"scan", "purge"} => stage[h] = "resetting"
          /\ stage[h] = "resetting" => /\ pc[h] \in {"scan", "purge"}
                                       /\ userLock[subject[h]] = h
          /\ pc[h] = "purge" =>
                \A t \in stored : owner[t] = subject[h] => t \in scan[h] \cup raced
          /\ pc[h] = "commit" => opened[draft[h]] = opened[presented[h]]

SessionsInv ==
    /\ SessionsTypeOK /\ ResetDiscipline /\ RaceDiscipline
    /\ ResetsAreWhole /\ OnlyRacersOutliveReset
=============================================================================
