------------------------------- MODULE Recovery -------------------------------
(***************************************************************************)
(* A forgotten password, from the e-mail to the new one: OtpChallenges and *)
(* Sessions together, over one database and one clock.                     *)
(*                                                                         *)
(* The two meet at two places.  VerifyPasswordResetCode ends by storing a  *)
(* reset token, and LoginWithOtp by a sign-in, each for the user whose     *)
(* code has been consumed.  What follows, in a later request or in the     *)
(* same one, is in Sessions.                                               *)
(***************************************************************************)
EXTENDS Sessions

CONSTANTS
    Email, Challenge, Code, MaxAttempts,    \* as in OtpChallenges
    OtpDuration,                            \* OTP_DURATION, in ticks
    UserOf                                  \* whose the address is or will be

\* users.email is UNIQUE, and no statement changes it.
ASSUME AddressesAreUnique ==
    /\ UserOf \in [Email -> User]
    /\ \A d, e \in Email : UserOf[d] = UserOf[e] => d = e

\* What OtpChallenges assumes of its constants.
ASSUME CodesAreNotNone == None \notin Email \cup Challenge \cup Code
ASSUME CodesLast == OtpDuration \in Nat \ {0} /\ MaxAttempts \in Nat \ {0}
ASSUME GoroutinesAreFinite == IsFiniteSet(Handler)

VARIABLES
    \* those of OtpChallenges; codeLock is its rowLock, at its pc, since its started
    registered, otp, codeLock, inserted, at, email, challenge, code, since, target,
    drawn, emailed, used, guesses, guessing, grants,
    origin,     \* history: the challenge that was consumed for a reset token
    signIns     \* history: the sign-ins that a challenge was consumed for

codeVars == <<registered, otp, codeLock, inserted, at, email, challenge, code, since, target,
              drawn, emailed, used, guesses, guessing, grants>>
doors == <<origin, signIns>>
recoveryVars == <<sessionsAll, codeVars, doors>>

Otp == INSTANCE OtpChallenges WITH
    Duration <- OtpDuration, rowLock <- codeLock, pc <- at, started <- since

ASSUME NoneIsNoCode == None \notin Otp!Row

RecoveryInit ==
    /\ SessionsInit
    /\ Otp!Init
    /\ origin = [r \in Reset |-> None]
    /\ signIns = [c \in Challenge |-> 0]

-----------------------------------------------------------------------------
\* The rest of LoginWithOtp, after VerifyLoginCode: access token and session.
SignInWithCode(h) ==
    /\ Otp!OpenSession(h)
    /\ LoginWithOtp(h, UserOf[email[h]])
    /\ signIns' = [signIns EXCEPT ![target[h]] = @ + 1]
    /\ UNCHANGED origin

\* Mutants of HandOut: for whoever the client names, and with used_at set when the
\* row is written.
MutantAnyUser(h, r) ==
    /\ Otp!SaveResetToken(h)
    /\ \E u \in User : SaveResetToken(r, u)
    /\ origin' = [origin EXCEPT ![r] = target[h]]
    /\ UNCHANGED signIns

MutantBornUsed(h, r) ==
    /\ Otp!SaveResetToken(h)
    /\ reset[r] = None
    /\ reset' = [reset EXCEPT ![r] = [user |-> UserOf[email[h]], expires |-> now + ResetDuration]]
    /\ spent' = spent \cup {r}
    /\ origin' = [origin EXCEPT ![r] = target[h]]
    /\ UNCHANGED <<vars, password, resetLock, stage, request, record, signIns>>

\* The end of VerifyPasswordResetCode: a token for the user whose address the
\* consumed row names.
HandOut(h, r) ==
    /\ Otp!SaveResetToken(h)
    /\ SaveResetToken(r, UserOf[email[h]])
    /\ origin' = [origin EXCEPT ![r] = target[h]]
    /\ UNCHANGED signIns

\* One-time codes, asked for by a goroutine that is not in another request.
HandlesCode(h) ==
    /\ \/ Unoccupied(h) /\ Otp!Arrive(h)
       \/ at[h] \notin {"session", "token"} /\ Otp!Proceed(h)
       \/ Otp!TakeRow(h)
       \/ Otp!Abort(h)
    /\ UNCHANGED <<sessionsAll, doors>>

\* A user signs in with a password, refreshes, signs out or resets the password.
AsksElse(h) ==
    /\ at[h] = "idle"
    /\ \/ \E e \in registered, p \in Password : Login(h, UserOf[e], p)
       \/ \E r \in Reset, p \in Password : BeginReset(h, r, p)
       \/ Refuse(h)
       \/ Arrives(h)
    /\ UNCHANGED <<codeVars, doors>>

HandlesSession(h) ==
    /\ Works(h) \/ Waits(h) \/ Fail(h)
    /\ UNCHANGED <<codeVars, doors>>

RecoveryNext ==
    \/ Tick /\ UNCHANGED <<sessionVars, codeVars, doors>>
    \/ \E e \in Email : Otp!Register(e) /\ UNCHANGED <<sessionsAll, doors>>
    \/ \E h \in Handler :
          \/ SignInWithCode(h)
          \/ \E r \in Reset : HandOut(h, r)
          \/ HandlesCode(h) \/ AsksElse(h) \/ HandlesSession(h)

RecoverySpec == RecoveryInit /\ [][RecoveryNext]_recoveryVars

-----------------------------------------------------------------------------
\* What codes are good for fits what Sessions takes from them: a sign-in is somebody's
\* and begins in a handler that has no other request, and a reset token is new,
\* somebody's, unused and good for its time.
ImplementsSessions == SessionsSpec

\* A code opens one door, one sign-in or one reset token, whichever of the two
\* endpoints it is sent to, at once or one after the other, and however often.
OneDoor ==
    \A c \in Challenge : signIns[c] + Cardinality({r \in Reset : origin[r] = c}) <= 1

\* The challenges that were consumed, and for no sign-in, and whose code was
\* e-mailed to this user's address.
PaidFor(u) ==
    {c \in Challenge :
        /\ used[c] = 1
        /\ signIns[c] = 0
        /\ \E m \in emailed : m.id = c /\ UserOf[m.to] = u}

\* Consuming the code, storing the reset token and consuming that are three
\* transactions, in two requests, that overlap with others, fail and are
\* retried.  All the same a password is reset at most once for each code that
\* was e-mailed to the address of that very user and consumed for it.
ResetsArePaidFor == \A u \in User : changes[u] <= Cardinality(PaidFor(u))

\* Why they hold: a reset token is there since a challenge was consumed for it,
\* whose code went to its user, and what a challenge gave is a sign-in or a
\* reset token.
DoorDiscipline ==
    /\ origin \in [Reset -> Challenge \cup {None}]
    /\ signIns \in [Challenge -> Nat]
    /\ IsFiniteSet(emailed)
    /\ \A r \in Reset :
          /\ origin[r] = None <=> reset[r] = None
          /\ origin[r] # None =>
                \E m \in emailed : m.id = origin[r] /\ UserOf[m.to] = reset[r].user
    /\ \A c \in Challenge :
          /\ IsFiniteSet({r \in Reset : origin[r] = c})
          /\ grants[c] = signIns[c] + Cardinality({r \in Reset : origin[r] = c})
=============================================================================
