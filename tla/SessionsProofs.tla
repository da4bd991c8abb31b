--------------------------- MODULE SessionsProofs ----------------------------
(***************************************************************************)
(* Sessions, proved for any number of handlers, users, tokens, passwords   *)
(* and reset tokens.                                                       *)
(*                                                                         *)
(* Every step of Sessions is a step of RefreshTokens or leaves its         *)
(* variables alone; so the invariant proved there holds here too, and the  *)
(* proofs below lean on it.  ResetDiscipline makes a reset token's row     *)
(* change hands like a refresh token's.  RaceDiscipline says that a purge  *)
(* misses only what has raced it.                                          *)
(***************************************************************************)
EXTENDS Sessions, RefreshTokensProofs, FiniteSetTheorems

\* Every step of a session is a step of the refresh-token component, or none.
LEMMA SessionsRefine == SessionsTypeOK /\ [SessionsNext]_sessionsAll => [Next]_vars
<1> SUFFICES ASSUME SessionsTypeOK, [SessionsNext]_sessionsAll PROVE [Next]_vars
  OBVIOUS
<1>1. CASE UNCHANGED vars
  BY <1>1
<1>2. ASSUME NEW h \in Handler, Asks(h)
      PROVE  [Next]_vars
  BY <1>2 DEF Asks, Login, LoginWithOtp, BeginReset, Refuse, Arrives, Next, Arrive
<1>3. ASSUME NEW h \in Handler, Works(h)
      PROVE  [Next]_vars
  <2>1. CASE OpenSession(h)
    <3>1. subject[h] \in User /\ GenerateRefreshToken(h, subject[h])
      BY <2>1 DEF OpenSession, SessionsTypeOK
    <3> QED
      BY <3>1 DEF Next, Arrive
  <2> QED
    BY <1>3, <2>1 DEF Works, RefuseReset, CommitReset, Insert, Succeed, Continues,
       Next, Arrive, Proceed
<1>4. ASSUME NEW h \in Handler, Waits(h)
      PROVE  [Next]_vars
  <2>1. CASE ChangePassword(h)
    <3>1. subject[h] \in User /\ UpdatePassword(h, subject[h])
      BY <2>1 DEF ChangePassword, SessionsTypeOK
    <3> QED
      BY <3>1 DEF Next, Arrive
  <2> QED
    BY <1>4, <2>1 DEF Waits, ConsumeReset, TakesRow, Next
<1>5. ASSUME NEW h \in Handler, Fail(h)
      PROVE  [Next]_vars
  BY <1>5 DEF Fail, Next
<1> QED
  BY <1>1, <1>2, <1>3, <1>4, <1>5 DEF SessionsNext, sessionsAll, SaveResetToken, Next

\* Every step keeps the variables in their types.
LEMMA SessionsTypeStep == Inv /\ SessionsTypeOK /\ [SessionsNext]_sessionsAll => SessionsTypeOK'
<1> SUFFICES ASSUME Inv, SessionsTypeOK, [SessionsNext]_sessionsAll PROVE SessionsTypeOK'
  OBVIOUS
<1> USE NoneIsNothingHere
<1> USE DEF SessionsTypeOK, Stage, accounts, request, record, Enter
<1>1. CASE UNCHANGED sessionVars
  BY <1>1 DEF sessionVars
<1>2. ASSUME NEW r \in Reset, NEW u \in User, SaveResetToken(r, u)
      PROVE  SessionsTypeOK'
  <2>1. [user |-> u, expires |-> now + ResetDuration] \in ResetRow
    BY ResetDurationIsPositive DEF ResetRow, Inv, TypeOK
  <2> QED
    BY <1>2, <2>1 DEF SaveResetToken
<1>3. ASSUME NEW h \in Handler, NEW u \in User, Accept(h, u)
      PROVE  SessionsTypeOK'
  BY <1>3 DEF Accept
<1>4. ASSUME NEW h \in Handler, NEW r \in Reset, NEW p \in Password, BeginReset(h, r, p)
      PROVE  SessionsTypeOK'
  BY <1>4 DEF BeginReset, Inv, TypeOK
<1>5. ASSUME NEW h \in Handler, OpenSession(h)
      PROVE  SessionsTypeOK'
  BY <1>5 DEF OpenSession, Forget
<1>6. ASSUME NEW h \in Handler, RefuseReset(h)
      PROVE  SessionsTypeOK'
  BY <1>6 DEF RefuseReset, Forget
<1>7. ASSUME NEW h \in Handler, CommitReset(h)
      PROVE  SessionsTypeOK'
  BY <1>7 DEF CommitReset, Forget, ReleaseReset
<1>8. ASSUME NEW h \in Handler, Insert(h)
      PROVE  SessionsTypeOK'
  <2>1. draft[h] \in Token
    BY <1>8 DEF Insert, Save, Commit, Inv, TypeOK, DraftDiscipline
  <2> QED
    BY <1>8, <2>1 DEF Insert
<1>9. ASSUME NEW h \in Handler, Succeed(h)
      PROVE  SessionsTypeOK'
  <2>1. presented[h] \in Token
    BY <1>9 DEF Succeed, SaveSuccessor, Inv, LockDiscipline
  <2> QED
    BY <1>9, <2>1 DEF Succeed
<1>10. ASSUME NEW h \in Handler, ConsumeReset(h)
       PROVE  SessionsTypeOK'
  BY <1>10 DEF ConsumeReset, Usable, ResetRow
<1>11. ASSUME NEW h \in Handler, ChangePassword(h)
       PROVE  SessionsTypeOK'
  BY <1>11 DEF ChangePassword
<1>12. ASSUME NEW h \in Handler, Fail(h)
       PROVE  SessionsTypeOK'
  BY <1>12 DEF Fail, Forget, ReleaseReset
<1> QED
  BY <1>1, <1>2, <1>3, <1>4, <1>5, <1>6, <1>7, <1>8, <1>9, <1>10, <1>11, <1>12
  DEF SessionsNext, sessionsAll, Asks, Login, LoginWithOtp, Refuse, Arrives, Works,
      Continues, Waits, TakesRow

\* Every step keeps a reset token's row with the reset that has it.
LEMMA ResetStep ==
  TypeOK /\ SessionsTypeOK /\ ResetDiscipline /\ [SessionsNext]_sessionsAll => ResetDiscipline'
<1> SUFFICES ASSUME TypeOK, SessionsTypeOK, ResetDiscipline, [SessionsNext]_sessionsAll
             PROVE  ResetDiscipline'
  OBVIOUS
<1> USE NoneIsNobody, NoneIsNothingHere
<1> USE DEF SessionsTypeOK, ResetDiscipline, Stage, accounts, request, record, Enter
<1>1. CASE UNCHANGED <<accounts, stage, carried, subject, uses>>
  BY <1>1
<1>2. ASSUME NEW r \in Reset, NEW u \in User, SaveResetToken(r, u)
      PROVE  ResetDiscipline'
  <2>1. [user |-> u, expires |-> now + ResetDuration] # None
    <3>1. [user |-> u, expires |-> now + ResetDuration] \in ResetRow
      BY ResetDurationIsPositive DEF ResetRow, TypeOK
    <3> QED
      BY <3>1
  <2> QED
    BY <1>2, <2>1 DEF SaveResetToken
<1>3. ASSUME NEW h \in Handler, NEW u \in User, stage[h] = "none", Accept(h, u)
      PROVE  ResetDiscipline'
  BY <1>3 DEF Accept
<1>4. ASSUME NEW h \in Handler, NEW r \in Reset, NEW p \in Password, BeginReset(h, r, p)
      PROVE  ResetDiscipline'
  BY <1>4 DEF BeginReset, Unoccupied
<1>5. ASSUME NEW h \in Handler, OpenSession(h)
      PROVE  ResetDiscipline'
  BY <1>5 DEF OpenSession, Forget
<1>6. ASSUME NEW h \in Handler, RefuseReset(h)
      PROVE  ResetDiscipline'
  BY <1>6 DEF RefuseReset, Forget
<1>7. ASSUME NEW h \in Handler, CommitReset(h)
      PROVE  ResetDiscipline'
  <2>1. IsFiniteSet(spent')
    BY <1>7, FS_AddElement DEF CommitReset
  <2> QED
    BY <1>7, <2>1 DEF CommitReset, Forget, ReleaseReset
<1>8. ASSUME NEW h \in Handler, ConsumeReset(h)
      PROVE  ResetDiscipline'
  BY <1>8 DEF ConsumeReset, Usable
<1>9. ASSUME NEW h \in Handler, ChangePassword(h)
      PROVE  ResetDiscipline'
  BY <1>9 DEF ChangePassword
<1>10. ASSUME NEW h \in Handler, Fail(h)
       PROVE  ResetDiscipline'
  BY <1>10 DEF Fail, Forget, ReleaseReset
<1> QED
  BY <1>1, <1>2, <1>3, <1>4, <1>5, <1>6, <1>7, <1>8, <1>9, <1>10
  DEF SessionsNext, sessionsAll, sessionVars, Asks, Login, LoginWithOtp, Refuse, Arrives, Works,
      Unoccupied, Insert, Succeed, Continues, Waits, TakesRow

\* Every step leaves a user's password changed once per used token.
LEMMA WholeStep ==
  /\ TypeOK /\ SessionsTypeOK /\ ResetDiscipline /\ ResetsAreWhole
  /\ [SessionsNext]_sessionsAll
  => ResetsAreWhole'
<1> SUFFICES ASSUME TypeOK, SessionsTypeOK, ResetDiscipline, ResetsAreWhole,
                    [SessionsNext]_sessionsAll
             PROVE  ResetsAreWhole'
  OBVIOUS
<1> DEFINE Used(u) == {r \in spent : reset[r].user = u}
<1>1. CASE UNCHANGED <<spent, changes>> /\ \A r \in spent : reset'[r] = reset[r]
  <2>1. \A u \in User : Used(u)' = Used(u)
    BY <1>1
  <2> QED
    BY <1>1, <2>1 DEF ResetsAreWhole
<1>2. ASSUME NEW r \in Reset, NEW u \in User, SaveResetToken(r, u)
      PROVE  ResetsAreWhole'
  BY <1>1, <1>2 DEF SaveResetToken, ResetDiscipline, SessionsTypeOK, record
<1>3. ASSUME NEW h \in Handler, CommitReset(h)
      PROVE  ResetsAreWhole'
  <2>1. /\ carried[h] \in Reset \ spent
        /\ subject[h] \in User
        /\ reset[carried[h]].user = subject[h]
        /\ IsFiniteSet(spent)
    BY <1>3 DEF CommitReset, ResetDiscipline, SessionsTypeOK
  <2>2. /\ spent' = spent \cup {carried[h]}
        /\ reset' = reset
        /\ changes' = [changes EXCEPT ![subject[h]] = @ + 1]
    BY <1>3 DEF CommitReset
  <2>3. ASSUME NEW u \in User, u # subject[h]
        PROVE  changes'[u] = Cardinality(Used(u)')
    <3>1. Used(u)' = Used(u)
      BY <2>1, <2>2, <2>3
    <3> QED
      BY <2>2, <2>3, <3>1 DEF ResetsAreWhole, SessionsTypeOK
  <2>4. changes'[subject[h]] = Cardinality(Used(subject[h])) + 1
    BY <2>1, <2>2 DEF ResetsAreWhole, SessionsTypeOK
  <2>5. {r \in spent' : reset'[r].user = subject[h]} = Used(subject[h]) \cup {carried[h]}
    BY <2>1, <2>2
  <2>6. IsFiniteSet(Used(subject[h]))
    BY <2>1, FS_Subset
  <2>7. Cardinality(Used(subject[h]) \cup {carried[h]}) = Cardinality(Used(subject[h])) + 1
    BY <2>1, <2>6, FS_AddElement
  <2> QED
    BY <2>3, <2>4, <2>5, <2>7 DEF ResetsAreWhole
<1> QED
  BY <1>1, <1>2, <1>3
  DEF SessionsNext, sessionsAll, sessionVars, accounts, request, record, Asks, Login,
      LoginWithOtp, Accept, BeginReset, Refuse, Arrives, Works, OpenSession, RefuseReset,
      Insert, Succeed, Continues, Waits, ConsumeReset, ChangePassword, TakesRow, Fail

\* Every step keeps what a purge will delete, or what has raced it, complete.
LEMMA RaceStep ==
  Inv /\ SessionsTypeOK /\ RaceDiscipline /\ [SessionsNext]_sessionsAll => RaceDiscipline'
<1> SUFFICES ASSUME Inv, SessionsTypeOK, RaceDiscipline, [SessionsNext]_sessionsAll
             PROVE  RaceDiscipline'
  OBVIOUS
<1> USE NoneIsNobody
<1> USE DEF TypeOK, SessionsTypeOK, RaceDiscipline, Stage, accounts, request, record, Enter,
        Goto, Acknowledge, Answer
<1>1. CASE Tick /\ UNCHANGED sessionVars
  BY <1>1 DEF Tick, sessionVars, table, locks, locals, history
<1>2. ASSUME NEW r \in Reset, NEW u \in User, SaveResetToken(r, u)
      PROVE  RaceDiscipline'
  BY <1>2 DEF SaveResetToken, vars, table, locks, locals, history
<1>3. ASSUME NEW h \in Handler, NEW u \in User, Unoccupied(h), Accept(h, u), UNCHANGED vars
      PROVE  RaceDiscipline'
  BY <1>3 DEF Accept, Unoccupied, vars, table, locks, locals
<1>4. ASSUME NEW h \in Handler, NEW r \in Reset, NEW p \in Password, BeginReset(h, r, p)
      PROVE  RaceDiscipline'
  BY <1>4 DEF BeginReset, Unoccupied, vars, table, locks, locals
<1>5. ASSUME NEW h \in Handler, NEW u, NewToken(h, u), UNCHANGED <<stored, presented>>,
             opened' = [opened EXCEPT ![draft'[h]] =
                          IF pc[h] = "rotate" THEN opened[presented[h]] ELSE read[h]]
      PROVE  /\ \A t \in stored : opened'[t] = opened[t] /\ owner'[t] = owner[t]
             /\ \A g \in Handler \ {h} : pc[g] = "commit" =>
                  opened'[draft'[g]] = opened'[presented'[g]]
             /\ pc[h] = "rotate" => opened'[draft'[h]] = opened'[presented'[h]]
  <2>1. PICK t \in Fresh : /\ owner' = [owner EXCEPT ![t] = u]
                           /\ draft' = [draft EXCEPT ![h] = t]
    BY <1>5 DEF NewToken
  <2>2. t \in Token /\ t \notin stored
    BY <2>1 DEF Fresh, Inv, DraftDiscipline
  <2>3. \A g \in Handler : pc[g] = "commit" => draft[g] # t /\ draft[g] \in Token
    BY <2>1 DEF Fresh, Inv, DraftDiscipline
  <2>4. \A g \in Handler : pc[g] \in {"rotate", "commit"} =>
            presented[g] \in stored /\ presented[g] \in Token
    BY DEF Inv, LockDiscipline
  <2> QED
    BY <1>5, <2>1, <2>2, <2>3, <2>4 DEF Inv
<1>6. ASSUME NEW h \in Handler, OpenSession(h)
      PROVE  RaceDiscipline'
  <2>1. /\ pc[h] = "idle"
        /\ \A t \in stored : owner'[t] = owner[t]
        /\ \A g \in Handler \ {h} : pc[g] = "commit" =>
              opened'[draft'[g]] = opened'[presented'[g]]
    BY <1>5, <1>6 DEF OpenSession, GenerateRefreshToken
  <2> QED
    BY <1>6, <2>1 DEF OpenSession, Forget, GenerateRefreshToken, locks, Inv
<1>7. ASSUME NEW h \in Handler, Succeed(h)
      PROVE  RaceDiscipline'
  <2>1. /\ \A t \in stored : owner'[t] = owner[t]
        /\ \A g \in Handler \ {h} : pc[g] = "commit" =>
              opened'[draft'[g]] = opened'[presented'[g]]
        /\ opened'[draft'[h]] = opened'[presented'[h]]
    BY <1>5, <1>7 DEF Succeed, SaveSuccessor
  <2> QED
    BY <1>7, <2>1 DEF Succeed, SaveSuccessor, locks, Inv
<1>8. ASSUME NEW h \in Handler, RefuseReset(h)
      PROVE  RaceDiscipline'
  BY <1>8 DEF RefuseReset, RejectMalformed, Forget, table, locks, locals
<1>9. ASSUME NEW h \in Handler, ConsumeReset(h)
      PROVE  RaceDiscipline'
  BY <1>9 DEF ConsumeReset, vars, table, locks, locals
<1>10. ASSUME NEW h \in Handler, ChangePassword(h)
      PROVE  RaceDiscipline'
  BY <1>10 DEF ChangePassword, UpdatePassword, table, locals, Inv
<1>11. ASSUME NEW h \in Handler, CommitReset(h)
      PROVE  RaceDiscipline'
  BY <1>11 DEF CommitReset, CommitPurge, Unlock, Forget, locals, Inv
<1>12. ASSUME NEW h \in Handler, Insert(h)
      PROVE  RaceDiscipline'
  BY <1>12 DEF Insert, Save, Commit, Unlock, locks, locals, Inv
<1>13. ASSUME NEW h \in Handler, Continues(h)
       PROVE  RaceDiscipline'
  <2>1. ASSUME NEW u \in User, DeleteByUserID(h, u)
        PROVE  u = subject[h]
    BY <2>1 DEF DeleteByUserID, Inv, LockDiscipline
  <2> QED
    BY <1>13, <2>1 DEF Continues, ConsumeNothing, DeleteByUserID, SkipDeleted, Return,
       sessionVars, table, locks, locals, Inv
<1>14. ASSUME NEW h \in Handler, Fail(h)
      PROVE  RaceDiscipline'
  BY <1>14 DEF Fail, Abort, Unlock, Forget, table, locals, vars, locks, Inv, Working
<1>15. ASSUME NEW h \in Handler, Refuse(h) \/ Arrives(h) \/ TakesRow(h)
       PROVE  RaceDiscipline'
  BY <1>15 DEF Refuse, Arrives, Unoccupied, RejectMalformed, BeginRefresh, BeginRevoke,
     TakesRow, TakeRow, Consume, Delete, LockScanned, sessionVars, table, locks, locals, Inv
<1>16. CASE UNCHANGED sessionsAll
  BY <1>16 DEF sessionsAll, sessionVars, vars, table, locks, locals
<1> QED
  BY <1>1, <1>2, <1>3, <1>4, <1>6, <1>7, <1>8, <1>9, <1>10, <1>11, <1>12, <1>13, <1>14,
     <1>15, <1>16
  DEF SessionsNext, Asks, Login, LoginWithOtp, Works, Waits

\* Every step leaves no token stored that outlived a reset without racing it.
LEMMA RacersStep ==
  /\ Inv /\ SessionsTypeOK /\ RaceDiscipline /\ OnlyRacersOutliveReset
  /\ [SessionsNext]_sessionsAll
  => OnlyRacersOutliveReset'
<1> SUFFICES ASSUME Inv, SessionsTypeOK, RaceDiscipline, OnlyRacersOutliveReset,
                    [SessionsNext]_sessionsAll
             PROVE  OnlyRacersOutliveReset'
  OBVIOUS
<1> USE NoneIsNobody
<1> USE DEF TypeOK, SessionsTypeOK, OnlyRacersOutliveReset, accounts, request, record
<1>1. CASE /\ stored' \subseteq stored
           /\ UNCHANGED <<changes, raced>>
           /\ \A t \in stored : opened'[t] = opened[t] /\ owner'[t] = owner[t]
  BY <1>1
<1>2. ASSUME NEW h \in Handler, NEW u, NewToken(h, u),
             \E n \in Nat : opened' = [opened EXCEPT ![draft'[h]] = n]
      PROVE  \A t \in stored : opened'[t] = opened[t] /\ owner'[t] = owner[t]
  <2>1. PICK t \in Fresh : /\ owner' = [owner EXCEPT ![t] = u]
                           /\ draft' = [draft EXCEPT ![h] = t]
    BY <1>2 DEF NewToken
  <2>2. t \in Token /\ t \notin stored
    BY <2>1 DEF Fresh, Inv, DraftDiscipline
  <2> QED
    BY <1>2, <2>1, <2>2 DEF Inv
<1>3. ASSUME NEW h \in Handler, OpenSession(h)
      PROVE  OnlyRacersOutliveReset'
  <2>1. \A t \in stored : opened'[t] = opened[t] /\ owner'[t] = owner[t]
    BY <1>2, <1>3 DEF OpenSession, GenerateRefreshToken
  <2> QED
    BY <1>1, <1>3, <2>1 DEF OpenSession, GenerateRefreshToken
<1>4. ASSUME NEW h \in Handler, Succeed(h)
      PROVE  OnlyRacersOutliveReset'
  <2>1. opened[presented[h]] \in Nat
    BY <1>4 DEF Succeed, SaveSuccessor, Inv, LockDiscipline
  <2>2. \A t \in stored : opened'[t] = opened[t] /\ owner'[t] = owner[t]
    BY <1>2, <1>4, <2>1 DEF Succeed, SaveSuccessor
  <2> QED
    BY <1>1, <1>4, <2>2 DEF Succeed, SaveSuccessor
<1>5. ASSUME NEW h \in Handler, Insert(h)
      PROVE  OnlyRacersOutliveReset'
  <2>1. draft[h] \in Token
    BY <1>5 DEF Insert, Save, Commit, Inv, DraftDiscipline
  <2>2. CASE pc[h] = "save"
    BY <1>5, <2>1, <2>2 DEF Insert, Save, Commit, locals
  <2>3. CASE pc[h] = "commit"
    <3>1. /\ presented[h] \in stored
          /\ owner[draft[h]] = owner[presented[h]]
          /\ opened[draft[h]] = opened[presented[h]]
      BY <2>3 DEF Inv, LockDiscipline, DraftDiscipline, RaceDiscipline
    <3> QED
      BY <1>5, <2>1, <2>3, <3>1 DEF Insert, Save, Commit, locals
  <2> QED
    BY <1>5, <2>2, <2>3 DEF Insert, Save, Commit
<1>6. ASSUME NEW h \in Handler, CommitReset(h)
      PROVE  OnlyRacersOutliveReset'
  <2>1. \A t \in stored' : owner[t] = subject[h] => t \in raced
    BY <1>6 DEF CommitReset, CommitPurge, RaceDiscipline
  <2> QED
    BY <1>6, <2>1 DEF CommitReset, CommitPurge, Inv
<1> QED
  BY <1>1, <1>3, <1>4, <1>5, <1>6
  DEF SessionsNext, sessionsAll, sessionVars, SaveResetToken, Tick, Asks, Login, LoginWithOtp,
      Accept, BeginReset, Refuse, RejectMalformed, Arrives, BeginRefresh, BeginRevoke, Works,
      RefuseReset, Continues, ConsumeNothing, Return, DeleteByUserID, SkipDeleted, Waits,
      ConsumeReset, ChangePassword, UpdatePassword, TakesRow, TakeRow, Consume, Delete,
      LockScanned, Fail, Abort, vars, table

\* The invariants hold before the first request.
LEMMA SessionsInitInv == SessionsInit => Inv /\ SessionsInv
<1> SUFFICES ASSUME SessionsInit PROVE Inv /\ SessionsInv
  OBVIOUS
<1>1. Inv
  BY InitInv DEF SessionsInit
<1>2. IsFiniteSet({}) /\ \A u \in User : {r \in {} : reset[r].user = u} = {}
  BY FS_EmptySet
<1> QED
  BY <1>1, <1>2, FS_EmptySet, NoneIsNobody DEF SessionsInit, Init, SessionsInv, SessionsTypeOK, Stage,
     ResetDiscipline, RaceDiscipline, ResetsAreWhole, OnlyRacersOutliveReset

\* The invariants of both components hold in every reachable state.
THEOREM SessionsInvariance == SessionsSpec => [](Inv /\ SessionsInv)
<1>1. Inv /\ [Next]_vars => Inv'
  BY TypeStep, LockStep, DraftStep, RotationStep, NestedStep DEF Inv
<1>2. Inv /\ SessionsInv /\ [SessionsNext]_sessionsAll => (Inv /\ SessionsInv)'
  BY <1>1, SessionsRefine, SessionsTypeStep, ResetStep, WholeStep, RaceStep, RacersStep
  DEF SessionsInv, Inv
<1> QED
  BY SessionsInitInv, <1>2, PTL DEF SessionsSpec

-----------------------------------------------------------------------------
\* The variables around the refresh tokens never leave their types.
THEOREM SessionsTypeCorrect == SessionsSpec => []SessionsTypeOK
<1>1. SessionsInv => SessionsTypeOK
  BY DEF SessionsInv
<1> QED
  BY SessionsInvariance, <1>1, PTL

\* The services around the refresh tokens use them as their component expects.
THEOREM RefreshTokensImplemented == SessionsSpec => ImplementsRefreshTokens
<1>1. SessionsInit => Init
  BY DEF SessionsInit
<1>2. SessionsInv => SessionsTypeOK
  BY DEF SessionsInv
<1> QED
  BY SessionsInvariance, SessionsRefine, <1>1, <1>2, PTL
  DEF SessionsSpec, ImplementsRefreshTokens, Spec

\* A reset token is good for one reset, however many requests carry it.
THEOREM ResetsOnce == SessionsSpec => []ResetTokenUsedOnce
<1>1. SessionsInv => ResetTokenUsedOnce
  BY DEF SessionsInv, ResetDiscipline, ResetTokenUsedOnce
<1> QED
  BY SessionsInvariance, <1>1, PTL

\* The password changes exactly when a reset token is used.
THEOREM ResetsWhole == SessionsSpec => []ResetsAreWhole
<1>1. SessionsInv => ResetsAreWhole
  BY DEF SessionsInv
<1> QED
  BY SessionsInvariance, <1>1, PTL

\* No group of handlers waits only for its own members, with the rows of reset
\* tokens and of users among those they wait for.
THEOREM ResetDeadlockFreedom == SessionsSpec => []NoResetDeadlock
<1>1. Inv /\ SessionsInv => NoResetDeadlock
  <2> SUFFICES ASSUME Inv, SessionsInv, NEW group \in SUBSET Handler, group # {}
               PROVE  \E h \in group : \A g \in group : ~ NeedsRowOf(h, g)
    BY DEF NoResetDeadlock
  <2>1. ASSUME NEW h \in Handler, NEW g \in Handler, NeedsRowOf(h, g)
        PROVE  \/ WaitsFor(h, g)
               \/ /\ stage[h] = "consume" /\ pc[h] = "idle"
                  /\ stage[g] = "update" \/ pc[g] \in {"scan", "purge"}
               \/ /\ stage[h] = "update" /\ pc[h] = "idle"
                  /\ pc[g] \in {"scan", "purge"}
    <3>1. CASE stage[h] = "consume" /\ resetLock[carried[h]] = g
      BY <3>1, NoneIsNobody
      DEF SessionsInv, SessionsTypeOK, ResetDiscipline, RaceDiscipline
    <3>2. CASE stage[h] = "update" /\ userLock[subject[h]] = g
      BY <3>2, NoneIsNobody
      DEF SessionsInv, SessionsTypeOK, RaceDiscipline, Inv, LockDiscipline
    <3> QED
      BY <2>1, <3>1, <3>2 DEF NeedsRowOf
  <2>2. CASE \E h \in group : pc[h] \in {"rotate", "commit", "scan"}
    BY <2>1, <2>2, WaitsForWhom
  <2>3. CASE /\ \A h \in group : pc[h] \notin {"rotate", "commit", "scan"}
             /\ \E h \in group : pc[h] = "purge"
    BY <2>1, <2>3, WaitsForWhom
  <2>4. CASE /\ \A h \in group : pc[h] \notin {"rotate", "commit", "scan", "purge"}
             /\ \E h \in group : stage[h] = "update" /\ pc[h] = "idle"
    BY <2>1, <2>4, WaitsForWhom
  <2>5. CASE \A h \in group : /\ pc[h] \notin {"rotate", "commit", "scan", "purge"}
                              /\ stage[h] # "update"
    BY <2>1, <2>5, WaitsForWhom
  <2>6. \A h \in Handler : stage[h] = "update" => pc[h] = "idle"
    BY DEF SessionsInv, RaceDiscipline
  <2> QED
    BY <2>2, <2>3, <2>4, <2>5, <2>6
<1> QED
  BY SessionsInvariance, <1>1, PTL

\* A session older than its user's password was opened, or continued, by a
\* request that ran into the reset.
THEOREM ResetEndsSessions == SessionsSpec => []OnlyRacersOutliveReset
<1>1. SessionsInv => OnlyRacersOutliveReset
  BY DEF SessionsInv
<1> QED
  BY SessionsInvariance, <1>1, PTL

\* With passwords and resets around it, the table of refresh tokens is still a
\* ledger of sign-ins, rotations and revocations that each happen at once.
COROLLARY SessionsKeepLedger == SessionsSpec => ImplementsLedger
  BY RefreshTokensImplemented, LedgerImplemented DEF ImplementsRefreshTokens

=============================================================================
