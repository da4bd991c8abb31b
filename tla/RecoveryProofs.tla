---------------------------- MODULE RecoveryProofs ----------------------------
(***************************************************************************)
(* Recovery, proved for any number of handlers, users, addresses and       *)
(* challenges.                                                             *)
(*                                                                         *)
(* A step of Recovery is a step of OtpChallenges, of Sessions, of both at  *)
(* the two places where they meet, or of neither.  So what is proved of    *)
(* each holds here.  From the one comes that a challenge gives at most one *)
(* grant and that its code was e-mailed to the user who gets it; from the  *)
(* other, that a password changes once for each used token.  What joins    *)
(* them is DoorDiscipline: a grant is a sign-in or a reset token.          *)
(***************************************************************************)
EXTENDS Recovery, SessionsProofs, FiniteSetTheorems

\* OtpChallenges once more, with what is proved about it.
Proved == INSTANCE OtpChallengesProofs WITH
    Duration <- OtpDuration, rowLock <- codeLock, pc <- at, started <- since

-----------------------------------------------------------------------------
\* The component that Recovery is made of is the one the proofs are about: its
\* requests and waits ...
LEMMA SameRequests ==
  ASSUME NEW h PROVE (Otp!Arrive(h) <=> Proved!Arrive(h)) /\ (Otp!TakeRow(h) <=> Proved!TakeRow(h))
<1>1. Otp!Arrive(h) <=> Proved!Arrive(h)
  BY DEF Otp!Arrive, Proved!Arrive, Otp!BeginSend, Proved!BeginSend, Otp!BeginLogin,
     Proved!BeginLogin, Otp!BeginVerify, Proved!BeginVerify, Otp!Goto, Proved!Goto,
     Otp!users, Proved!users, Otp!table, Proved!table, Otp!history, Proved!history
<1>2. Otp!TakeRow(h) <=> Proved!TakeRow(h)
  BY DEF Otp!TakeRow, Proved!TakeRow, Otp!Evict, Proved!Evict, Otp!Save, Proved!Save,
     Otp!SaveConflict, Proved!SaveConflict, Otp!TakeLogin, Proved!TakeLogin, Otp!TakeReset,
     Proved!TakeReset, Otp!IncreaseAttempts, Proved!IncreaseAttempts, Otp!Take, Proved!Take,
     Otp!Holders, Proved!Holders, Otp!Limit, Proved!Limit, Otp!Counted, Proved!Counted,
     Otp!Undisputed, Proved!Undisputed, Otp!Unlock, Proved!Unlock, Otp!Goto, Proved!Goto,
     Otp!users, Proved!users, Otp!locals, Proved!locals, Otp!history, Proved!history
<1> QED
  BY <1>1, <1>2

\* ... the other steps of a handler ...
LEMMA SameWork ==
  ASSUME NEW h PROVE (Otp!Proceed(h) <=> Proved!Proceed(h)) /\ (Otp!Abort(h) <=> Proved!Abort(h))
<1>1. Otp!Proceed(h) <=> Proved!Proceed(h)
  BY DEF Otp!Proceed, Proved!Proceed, Otp!LookupUser, Proved!LookupUser, Otp!EmailCode,
     Proved!EmailCode, Otp!Invalidate, Proved!Invalidate, Otp!CommitReplacement,
     Proved!CommitReplacement, Otp!FindUser, Proved!FindUser, Otp!MatchLogin, Proved!MatchLogin,
     Otp!OpenSession, Proved!OpenSession, Otp!Check, Proved!Check, Otp!BeginCount,
     Proved!BeginCount, Otp!FindOwner, Proved!FindOwner, Otp!SaveResetToken,
     Proved!SaveResetToken, Otp!Return, Proved!Return, Otp!Look, Proved!Look, Otp!Holders,
     Proved!Holders, Otp!Limit, Proved!Limit, Otp!Unlock, Proved!Unlock, Otp!Goto, Proved!Goto,
     Otp!Acknowledge, Proved!Acknowledge, Otp!Answer, Proved!Answer, Otp!users, Proved!users,
     Otp!table, Proved!table, Otp!locals, Proved!locals, Otp!history, Proved!history
<1>2. Otp!Abort(h) <=> Proved!Abort(h)
  BY DEF Otp!Abort, Proved!Abort, Otp!Working, Proved!Working, Otp!Sending, Proved!Sending,
     Otp!LoggingIn, Proved!LoggingIn, Otp!Verifying, Proved!Verifying, Otp!Unlock, Proved!Unlock,
     Otp!Goto, Proved!Goto, Otp!users, Proved!users, Otp!locals, Proved!locals
<1> QED
  BY <1>1, <1>2

\* ... and so its behaviours.
LEMMA SameOtp == Otp!Spec <=> Proved!Spec
<1>1. Otp!Init <=> Proved!Init
  BY DEF Otp!Init, Proved!Init
<1>2. (UNCHANGED Otp!vars) <=> (UNCHANGED Proved!vars)
  BY DEF Otp!vars, Proved!vars, Otp!users, Proved!users, Otp!table, Proved!table,
     Otp!locals, Proved!locals, Otp!history, Proved!history
<1>3. Otp!Tick <=> Proved!Tick
  BY DEF Otp!Tick, Proved!Tick, Otp!users, Proved!users, Otp!table, Proved!table,
     Otp!locals, Proved!locals, Otp!history, Proved!history
<1>4. \A e : Otp!Register(e) <=> Proved!Register(e)
  BY DEF Otp!Register, Proved!Register, Otp!table, Proved!table, Otp!locals, Proved!locals,
     Otp!history, Proved!history
<1>5. Otp!Next <=> Proved!Next
  BY <1>3, <1>4, SameRequests, SameWork DEF Otp!Next, Proved!Next
<1>6. [Otp!Next]_Otp!vars <=> [Proved!Next]_Proved!vars
  BY <1>2, <1>5
<1> QED
  BY <1>1, <1>6, PTL DEF Otp!Spec, Proved!Spec

-----------------------------------------------------------------------------
\* What goes on in a session takes no time and stores no reset token.
LEMMA SessionsAside ==
  ASSUME NEW h, AsksElse(h) \/ HandlesSession(h)
  PROVE  UNCHANGED <<now, reset, codeVars, doors>>
<1>1. CASE AsksElse(h)
  BY <1>1 DEF AsksElse, Login, Accept, BeginReset, Refuse, RejectMalformed, Arrives, BeginRefresh,
     BeginRevoke, vars, sessionVars, accounts
<1>2. CASE Works(h) /\ UNCHANGED <<codeVars, doors>>
  BY <1>2 DEF Works, OpenSession, GenerateRefreshToken, RefuseReset, RejectMalformed, CommitReset,
     CommitPurge, Insert, Save, Commit, Succeed, SaveSuccessor, Continues, ConsumeNothing, Return,
     DeleteByUserID, SkipDeleted, sessionVars, accounts
<1>3. CASE (Waits(h) \/ Fail(h)) /\ UNCHANGED <<codeVars, doors>>
  BY <1>3 DEF Waits, ConsumeReset, ChangePassword, UpdatePassword, TakesRow, TakeRow, Consume, Delete,
     LockScanned, Fail, Abort, vars, sessionVars, accounts
<1> QED
  BY <1>1, <1>2, <1>3 DEF HandlesSession

\* Every step of Recovery is a step of OtpChallenges, or none.
LEMMA RecoveryRefinesOtp == [RecoveryNext]_recoveryVars => [Otp!Next]_Otp!vars
<1> SUFFICES ASSUME [RecoveryNext]_recoveryVars PROVE [Otp!Next]_Otp!vars
  OBVIOUS
<1>1. CASE UNCHANGED <<now, codeVars>>
  BY <1>1 DEF codeVars, Otp!vars, Otp!users, Otp!table, Otp!locals, Otp!history
<1>2. CASE Tick /\ UNCHANGED <<sessionVars, codeVars, doors>>
  BY <1>2 DEF Tick, codeVars, Otp!Next, Otp!Tick, Otp!users, Otp!table, Otp!locals, Otp!history
<1>3. ASSUME NEW h \in Handler, SignInWithCode(h) \/ \E r \in Reset : HandOut(h, r)
      PROVE  Otp!Next
  BY <1>3 DEF SignInWithCode, HandOut, Otp!Next, Otp!Proceed
<1>4. ASSUME NEW h \in Handler, HandlesCode(h)
      PROVE  Otp!Next
  BY <1>4 DEF HandlesCode, Otp!Next
<1>5. CASE UNCHANGED recoveryVars
  BY <1>1, <1>5 DEF recoveryVars, sessionsAll, vars
<1> QED
  BY <1>1, <1>2, <1>3, <1>4, <1>5, SessionsAside DEF RecoveryNext, Otp!Next

\* So what is proved of OtpChallenges holds here.  This says nothing of the program:
\* it is so by the way the actions of Recovery are put together.
LEMMA OtpSteps == RecoverySpec => Otp!Spec
<1>1. RecoveryInit => Otp!Init
  BY DEF RecoveryInit
<1> QED
  BY <1>1, RecoveryRefinesOtp, PTL DEF RecoverySpec, Otp!Spec

-----------------------------------------------------------------------------
\* What is used of what OtpChallenges promises.
CodesKnown ==
  /\ registered \subseteq Email
  /\ emailed \subseteq [id: Challenge, to: Email, code: Code]
  /\ used \in [Challenge -> Nat] /\ grants \in [Challenge -> Nat]
  /\ \A c \in Challenge : grants[c] <= used[c] /\ used[c] <= 1
  /\ \A h \in Handler : at[h] \in {"session", "token"} =>
        [id |-> target[h], to |-> email[h], code |-> code[h]] \in emailed

\* It holds here, by the proofs of that component.
LEMMA CodesAreKnown == RecoverySpec => []CodesKnown
<1>1. Proved!IsFiniteSet(Handler)
  BY GoroutinesAreFinite DEF IsFiniteSet, Proved!IsFiniteSet
<1>2. None \notin Proved!Row
  BY NoneIsNoCode DEF Otp!Row, Proved!Row
<1>3. None \notin Handler \cup Email \cup Challenge \cup Code
  BY CodesAreNotNone, NoneIsNobody
<1>4. Proved!Spec => [](Proved!CodesInv)
  BY Proved!CodesInvariance, <1>1, <1>2, <1>3, CodesLast, MaxTimeIsNat
<1>5. Proved!Spec => [](Proved!GrantedWasEmailed)
  BY Proved!GrantsFollowTheMail, <1>1, <1>2, <1>3, CodesLast, MaxTimeIsNat
<1>6. Proved!CodesInv /\ Proved!GrantedWasEmailed => CodesKnown
  BY DEF CodesKnown, Proved!CodesInv, Proved!Lives, Proved!TypeOK, Proved!SingleUse,
     Proved!GrantedWasEmailed
<1> QED
  BY <1>4, <1>5, <1>6, OtpSteps, SameOtp, PTL

\* Every step of Recovery is a step of Sessions, or none.
LEMMA RecoveryRefinesSessions ==
  CodesKnown /\ [RecoveryNext]_recoveryVars => [SessionsNext]_sessionsAll
<1> SUFFICES ASSUME CodesKnown, [RecoveryNext]_recoveryVars PROVE [SessionsNext]_sessionsAll
  OBVIOUS
<1>1. \A e \in Email : UserOf[e] \in User
  BY AddressesAreUnique
<1>2. ASSUME NEW h \in Handler, at[h] \in {"session", "token"}
      PROVE  email[h] \in Email
  BY <1>2 DEF CodesKnown
<1>3. ASSUME NEW h \in Handler, SignInWithCode(h)
      PROVE  SessionsNext
  BY <1>1, <1>2, <1>3 DEF SignInWithCode, Otp!OpenSession, SessionsNext, Asks
<1>4. ASSUME NEW h \in Handler, NEW r \in Reset, HandOut(h, r)
      PROVE  SessionsNext
  BY <1>1, <1>2, <1>4 DEF HandOut, Otp!SaveResetToken, SessionsNext
<1>5. ASSUME NEW h \in Handler, AsksElse(h)
      PROVE  SessionsNext
  BY <1>1, <1>5 DEF AsksElse, CodesKnown, SessionsNext, Asks
<1>6. ASSUME NEW h \in Handler, HandlesSession(h)
      PROVE  SessionsNext
  BY <1>6 DEF HandlesSession, SessionsNext
<1>7. CASE UNCHANGED sessionsAll
  BY <1>7
<1>8. CASE Tick /\ UNCHANGED <<sessionVars, codeVars, doors>>
  BY <1>8 DEF SessionsNext
<1> QED
  BY <1>3, <1>4, <1>5, <1>6, <1>7, <1>8 DEF RecoveryNext, HandlesCode, recoveryVars

\* A sign-in and a reset token that a code is good for are the ones that the
\* services of Sessions know.
THEOREM SessionsImplemented == RecoverySpec => ImplementsSessions
<1>1. RecoveryInit => SessionsInit
  BY DEF RecoveryInit
<1> QED
  BY <1>1, CodesAreKnown, RecoveryRefinesSessions, PTL
  DEF RecoverySpec, ImplementsSessions, SessionsSpec

\* So all that is proved of passwords, reset tokens and refresh tokens holds.
COROLLARY RecoveryKeepsSessions ==
  RecoverySpec => [](Inv /\ SessionsInv) /\ ImplementsLedger
  BY SessionsImplemented, SessionsInvariance, SessionsKeepLedger, PTL DEF ImplementsSessions

-----------------------------------------------------------------------------
\* Until a code is good for something, all that counts here is whether it leaves
\* by e-mail.
LEMMA CodesAside ==
  ASSUME NEW h, HandlesCode(h)
  PROVE  /\ UNCHANGED <<reset, doors, grants>>
         /\ \E mails : emailed' = emailed \cup mails /\ IsFiniteSet(mails)
<1>1. UNCHANGED <<reset, doors>>
  BY DEF HandlesCode, sessionsAll, sessionVars, accounts
<1>2. CASE \E k \in Code : Otp!EmailCode(h, k)
  <2>1. PICK m : emailed' = emailed \cup {m}
    BY <1>2 DEF Otp!EmailCode
  <2>2. grants' = grants
    BY <1>2 DEF Otp!EmailCode
  <2> QED
    BY <1>1, <2>1, <2>2, FS_Singleton
<1>3. CASE \/ Otp!Arrive(h) \/ Otp!TakeRow(h) \/ Otp!Abort(h)
           \/ Otp!LookupUser(h) \/ Otp!Invalidate(h) \/ Otp!CommitReplacement(h) \/ Otp!FindUser(h)
           \/ Otp!MatchLogin(h) \/ Otp!Check(h) \/ Otp!BeginCount(h) \/ Otp!FindOwner(h) \/ Otp!Return(h)
  <2>1. UNCHANGED <<emailed, grants>>
    BY <1>3 DEF Otp!Arrive, Otp!BeginSend, Otp!BeginLogin, Otp!BeginVerify, Otp!TakeRow, Otp!Evict,
       Otp!Save, Otp!SaveConflict, Otp!TakeLogin, Otp!TakeReset, Otp!Take, Otp!IncreaseAttempts,
       Otp!Abort, Otp!LookupUser, Otp!Invalidate, Otp!CommitReplacement, Otp!FindUser,
       Otp!MatchLogin, Otp!Check, Otp!BeginCount, Otp!FindOwner, Otp!Return, Otp!history
  <2> QED
    BY <1>1, <2>1, FS_EmptySet
<1> QED
  BY <1>2, <1>3 DEF HandlesCode, Otp!Proceed, Otp!OpenSession, Otp!SaveResetToken

\* Every step keeps a reset token with the challenge it was handed out for.
LEMMA DoorStep ==
  /\ CodesKnown /\ Inv /\ SessionsTypeOK /\ DoorDiscipline
  /\ [RecoveryNext]_recoveryVars
  => DoorDiscipline'
<1> SUFFICES ASSUME CodesKnown, Inv, SessionsTypeOK, DoorDiscipline, [RecoveryNext]_recoveryVars
             PROVE  DoorDiscipline'
  OBVIOUS
<1> DEFINE From(c) == {r \in Reset : origin[r] = c}
<1>1. CASE UNCHANGED <<reset, doors, grants, emailed>>
  BY <1>1 DEF DoorDiscipline, doors
<1>2. ASSUME UNCHANGED <<reset, doors, grants>>,
             NEW mails, emailed' = emailed \cup mails, IsFiniteSet(mails)
      PROVE  DoorDiscipline'
  <2>1. IsFiniteSet(emailed')
    BY <1>2, FS_Union DEF DoorDiscipline
  <2> QED
    BY <1>2, <2>1 DEF DoorDiscipline, doors
<1>3. ASSUME NEW h \in Handler, SignInWithCode(h)
      PROVE  DoorDiscipline'
  <2>1. target[h] \in Challenge
    BY <1>3 DEF SignInWithCode, Otp!OpenSession, CodesKnown
  <2>2. /\ signIns' = [signIns EXCEPT ![target[h]] = @ + 1]
        /\ grants' = [grants EXCEPT ![target[h]] = @ + 1]
        /\ UNCHANGED <<origin, reset, emailed>>
    BY <1>3 DEF SignInWithCode, Otp!OpenSession, LoginWithOtp, Accept, accounts
  <2>3. \A c \in Challenge : IsFiniteSet(From(c)) /\ Cardinality(From(c)) \in Nat
    BY FS_CardinalityType DEF DoorDiscipline
  <2>4. \A c \in Challenge : grants'[c] = signIns'[c] + Cardinality(From(c))
    BY <2>1, <2>2, <2>3 DEF DoorDiscipline, CodesKnown
  <2> QED
    BY <2>1, <2>2, <2>4 DEF DoorDiscipline
<1>4. ASSUME NEW h \in Handler, NEW r \in Reset, HandOut(h, r)
      PROVE  DoorDiscipline'
  <2> DEFINE row == [user |-> UserOf[email[h]], expires |-> now + ResetDuration]
  <2>1. /\ target[h] \in Challenge /\ email[h] \in Email
        /\ \E m \in emailed : m.id = target[h] /\ m.to = email[h]
    BY <1>4 DEF HandOut, Otp!SaveResetToken, CodesKnown
  <2>2. /\ reset[r] = None /\ reset' = [reset EXCEPT ![r] = row]
        /\ origin' = [origin EXCEPT ![r] = target[h]]
        /\ grants' = [grants EXCEPT ![target[h]] = @ + 1]
        /\ UNCHANGED <<signIns, emailed>>
    BY <1>4 DEF HandOut, Otp!SaveResetToken, SaveResetToken
  <2>3. row # None
    <3>1. row \in ResetRow
      BY <2>1, AddressesAreUnique, ResetDurationIsPositive DEF ResetRow, Inv, TypeOK
    <3> QED
      BY <3>1, NoneIsNothingHere
  <2>4. origin[r] = None /\ target[h] # None
    BY <2>1, <2>2, CodesAreNotNone DEF DoorDiscipline
  <2>5. \A c \in Challenge : IsFiniteSet(From(c)) /\ Cardinality(From(c)) \in Nat
    BY FS_CardinalityType DEF DoorDiscipline
  <2>6. ASSUME NEW c \in Challenge
        PROVE  IsFiniteSet(From(c)') /\ grants'[c] = signIns'[c] + Cardinality(From(c)')
    <3>1. CASE c = target[h]
      <4>1. From(c)' = From(c) \cup {r} /\ r \notin From(c)
        BY <2>2, <2>4, <3>1, CodesAreNotNone DEF DoorDiscipline
      <4>2. IsFiniteSet(From(c)') /\ Cardinality(From(c)') = Cardinality(From(c)) + 1
        BY <2>5, <4>1, FS_AddElement
      <4> HIDE DEF From
      <4>3. grants'[c] = grants[c] + 1
        BY <2>1, <2>2, <3>1 DEF CodesKnown
      <4>4. grants[c] = signIns[c] + Cardinality(From(c)) /\ signIns[c] \in Nat
        BY DEF DoorDiscipline, From
      <4> QED
        BY <2>2, <2>5, <4>2, <4>3, <4>4
    <3>2. CASE c # target[h]
      <4>1. From(c)' = From(c)
        BY <2>2, <2>4, <3>2, CodesAreNotNone DEF DoorDiscipline
      <4> QED
        BY <2>2, <2>5, <3>2, <4>1 DEF DoorDiscipline, CodesKnown
    <3> QED
      BY <3>1, <3>2
  <2>7. \A q \in Reset :
          /\ origin'[q] = None <=> reset'[q] = None
          /\ origin'[q] # None => \E m \in emailed' : m.id = origin'[q] /\ UserOf[m.to] = reset'[q].user
    <3>1. \A q \in Reset \ {r} : origin'[q] = origin[q] /\ reset'[q] = reset[q]
      BY <2>2 DEF SessionsTypeOK, DoorDiscipline
    <3>2. origin'[r] = target[h] /\ reset'[r] = row
      BY <2>2 DEF SessionsTypeOK, DoorDiscipline
    <3> QED
      BY <2>1, <2>2, <2>3, <2>4, <3>1, <3>2 DEF DoorDiscipline
  <2> QED
    BY <2>1, <2>2, <2>6, <2>7 DEF DoorDiscipline
<1>5. ASSUME NEW h \in Handler, AsksElse(h) \/ HandlesSession(h)
      PROVE  DoorDiscipline'
  BY <1>1, <1>5, SessionsAside DEF codeVars
<1>6. ASSUME NEW h \in Handler, HandlesCode(h)
      PROVE  DoorDiscipline'
  BY <1>2, <1>6, CodesAside
<1>7. CASE Tick /\ UNCHANGED <<sessionVars, codeVars, doors>>
  BY <1>1, <1>7 DEF sessionVars, accounts, codeVars
<1>8. ASSUME NEW e \in Email, Otp!Register(e), UNCHANGED <<sessionsAll, doors>>
      PROVE  DoorDiscipline'
  BY <1>1, <1>8 DEF Otp!Register, Otp!history, sessionsAll, sessionVars, accounts
<1>9. CASE UNCHANGED recoveryVars
  BY <1>1, <1>9 DEF recoveryVars, sessionsAll, sessionVars, accounts, codeVars
<1> QED
  BY <1>3, <1>4, <1>5, <1>6, <1>7, <1>8, <1>9 DEF RecoveryNext

\* A reset token was handed out for a challenge that was sent to its user, and
\* what a challenge has given is a sign-in or a reset token.
THEOREM DoorsAreKnown == RecoverySpec => []DoorDiscipline
<1>1. RecoveryInit => DoorDiscipline
  <2> SUFFICES ASSUME RecoveryInit PROVE DoorDiscipline
    OBVIOUS
  <2>1. /\ origin = [r \in Reset |-> None] /\ reset = [r \in Reset |-> None]
        /\ signIns = [c \in Challenge |-> 0] /\ grants = [c \in Challenge |-> 0]
        /\ emailed = {}
    BY DEF RecoveryInit, SessionsInit, Otp!Init
  <2>2. \A c \in Challenge : {r \in Reset : origin[r] = c} = {}
    BY <2>1, CodesAreNotNone
  <2>3. IsFiniteSet({}) /\ Cardinality({}) = 0
    BY FS_EmptySet
  <2> QED
    BY <2>1, <2>2, <2>3 DEF DoorDiscipline
<1>2. CodesKnown /\ Inv /\ SessionsInv /\ DoorDiscipline /\ [RecoveryNext]_recoveryVars
      => DoorDiscipline'
  BY DoorStep DEF SessionsInv
<1> QED
  BY <1>1, <1>2, CodesAreKnown, RecoveryKeepsSessions, PTL DEF RecoverySpec

\* A code opens one door, whichever endpoint it is sent to and however often.
THEOREM OneDoorOpens == RecoverySpec => []OneDoor
<1>1. CodesKnown /\ DoorDiscipline => OneDoor
  <2> SUFFICES ASSUME CodesKnown, DoorDiscipline, NEW c \in Challenge
               PROVE  signIns[c] + Cardinality({r \in Reset : origin[r] = c}) <= 1
    BY DEF OneDoor
  <2>1. grants[c] \in Nat /\ used[c] \in Nat /\ grants[c] <= used[c] /\ used[c] <= 1
    BY DEF CodesKnown
  <2> QED
    BY <2>1 DEF DoorDiscipline
<1> QED
  BY <1>1, CodesAreKnown, DoorsAreKnown, PTL

\* The used reset tokens of a user came from different challenges, all of them
\* paid for.
LEMMA UsedTokensWerePaidFor ==
  ASSUME CodesKnown, SessionsInv, DoorDiscipline, NEW u \in User
  PROVE  Cardinality({r \in spent : reset[r].user = u}) <= Cardinality(PaidFor(u))
<1> DEFINE Used == {r \in spent : reset[r].user = u}
           From(c) == {r \in Reset : origin[r] = c}
           Source == [r \in Used |-> origin[r]]
<1>1. IsFiniteSet(PaidFor(u))
  <2>1. PaidFor(u) \subseteq {m.id : m \in emailed}
    BY DEF PaidFor
  <2>2. IsFiniteSet({m.id : m \in emailed})
    <3>1. [m \in emailed |-> m.id] \in Surjection(emailed, {m.id : m \in emailed})
      BY DEF Surjection
    <3> QED
      BY <3>1, FS_Surjection DEF DoorDiscipline
  <2> QED
    BY <2>1, <2>2, FS_Subset
<1>2. ASSUME NEW r \in Used
      PROVE  /\ r \in Reset /\ origin[r] \in Challenge
             /\ \E m \in emailed : m.id = origin[r] /\ UserOf[m.to] = u
  BY <1>2 DEF SessionsInv, SessionsTypeOK, ResetDiscipline, DoorDiscipline
<1>3. ASSUME NEW c \in Challenge, NEW r \in From(c)
      PROVE  used[c] = 1 /\ signIns[c] = 0 /\ From(c) = {r}
  <2>1. IsFiniteSet(From(c)) /\ grants[c] = signIns[c] + Cardinality(From(c))
    BY DEF DoorDiscipline
  <2>2. grants[c] \in Nat /\ used[c] \in Nat /\ signIns[c] \in Nat /\ grants[c] <= used[c] /\ used[c] <= 1
    BY DEF CodesKnown, DoorDiscipline
  <2>3. Cardinality(From(c)) \in Nat /\ Cardinality(From(c)) # 0
    BY <1>3, <2>1, FS_CardinalityType, FS_EmptySet
  <2> HIDE DEF From
  <2>4. Cardinality(From(c)) = 1 /\ used[c] = 1 /\ signIns[c] = 0
    BY <2>1, <2>2, <2>3
  <2>5. PICK x : From(c) = {x}
    BY <2>1, <2>4, FS_Singleton
  <2> QED
    BY <1>3, <2>4, <2>5
<1>4. \A r \in Used : origin[r] \in PaidFor(u)
  BY <1>2, <1>3 DEF PaidFor
<1>5. \A r, q \in Used : origin[r] = origin[q] => r = q
  BY <1>2, <1>3
<1>6. Source \in Injection(Used, PaidFor(u))
  BY <1>4, <1>5 DEF Injection, IsInjective
<1> QED
  BY <1>1, <1>6, FS_Injection

\* A user's password is reset at most once for each code that was e-mailed to
\* that user's address and consumed for it.
THEOREM ResetsPaidFor == RecoverySpec => []ResetsArePaidFor
<1>1. CodesKnown /\ SessionsInv /\ DoorDiscipline => ResetsArePaidFor
  BY UsedTokensWerePaidFor DEF ResetsArePaidFor, SessionsInv, ResetsAreWhole
<1>2. Inv /\ SessionsInv => SessionsInv
  OBVIOUS
<1> QED
  BY <1>1, CodesAreKnown, DoorsAreKnown, RecoveryKeepsSessions, PTL
=============================================================================
