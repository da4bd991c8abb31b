------------------------- MODULE RefreshTokensProofs -------------------------
(***************************************************************************)
(* What RefreshTokens says of its small instances, proved for any number   *)
(* of handlers, users and tokens, any Duration and any MaxTime.            *)
(*                                                                         *)
(* Inv is inductive.  Each of its parts needs the others in the step:      *)
(* a rotation is nested in the earlier ones of the same token because      *)
(* LockDiscipline says that what the UPDATE saw is still there at COMMIT,  *)
(* and RotationDiscipline that the earlier ones moved expires_at down to   *)
(* their NOW(); DraftDiscipline says that a row that appears was never     *)
(* there before.                                                           *)
(***************************************************************************)
EXTENDS RefreshTokens, TLAPS

\* Every step keeps the variables in their types.
LEMMA TypeStep == Inv /\ [Next]_vars => TypeOK'
<1> SUFFICES ASSUME Inv, [Next]_vars PROVE TypeOK'
  OBVIOUS
<1> USE NoneIsNobody, DurationIsPositive
<1> USE DEF Inv, TypeOK, Working, Answer, LockDiscipline, DraftDiscipline, table, locks, locals, history, vars
<1>1. CASE Tick
  BY <1>1 DEF Tick
<1>2. ASSUME NEW h \in Handler, NEW u \in User, GenerateRefreshToken(h, u)
      PROVE  TypeOK'
  BY <1>2 DEF GenerateRefreshToken, NewToken, Fresh, Goto
<1>3. ASSUME NEW h \in Handler, RejectMalformed(h)
      PROVE  TypeOK'
  BY <1>3 DEF RejectMalformed, Goto
<1>4. ASSUME NEW h \in Handler, NEW t \in Token, BeginRefresh(h, t)
      PROVE  TypeOK'
  BY <1>4 DEF BeginRefresh, Goto
<1>5. ASSUME NEW h \in Handler, NEW t \in Token, BeginRevoke(h, t)
      PROVE  TypeOK'
  BY <1>5 DEF BeginRevoke, Goto
<1>6. ASSUME NEW h \in Handler, NEW u \in User, UpdatePassword(h, u)
      PROVE  TypeOK'
  BY <1>6 DEF UpdatePassword, Goto
<1>7. ASSUME NEW h \in Handler, Save(h)
      PROVE  TypeOK'
  BY <1>7 DEF Save, Acknowledge, Goto
<1>8. ASSUME NEW h \in Handler, ConsumeNothing(h)
      PROVE  TypeOK'
  BY <1>8 DEF ConsumeNothing, Valid, Goto
<1>9. ASSUME NEW h \in Handler, SaveSuccessor(h)
      PROVE  TypeOK'
  BY <1>9 DEF SaveSuccessor, NewToken, Fresh, Goto
<1>10. ASSUME NEW h \in Handler, Commit(h)
      PROVE  TypeOK'
  BY <1>10 DEF Commit, Acknowledge, Goto, Unlock, Rotation
<1>11. ASSUME NEW h \in Handler, NEW u \in User, DeleteByUserID(h, u)
      PROVE  TypeOK'
  BY <1>11 DEF DeleteByUserID, Goto
<1>12. ASSUME NEW h \in Handler, NEW t \in Token, SkipDeleted(h, t)
      PROVE  TypeOK'
  BY <1>12 DEF SkipDeleted
<1>13. ASSUME NEW h \in Handler, CommitPurge(h)
      PROVE  TypeOK'
  BY <1>13 DEF CommitPurge, Acknowledge, Goto, Unlock
<1>14. ASSUME NEW h \in Handler, Return(h)
      PROVE  TypeOK'
  BY <1>14 DEF Return, Goto
<1>15. ASSUME NEW h \in Handler, Consume(h)
      PROVE  TypeOK'
  BY <1>15 DEF Consume, Valid, Goto
<1>16. ASSUME NEW h \in Handler, Delete(h)
      PROVE  TypeOK'
  BY <1>16 DEF Delete, Acknowledge, Goto
<1>17. ASSUME NEW h \in Handler, NEW t \in Token, LockScanned(h, t)
      PROVE  TypeOK'
  BY <1>17 DEF LockScanned
<1>18. ASSUME NEW h \in Handler, Abort(h)
      PROVE  TypeOK'
  BY <1>18 DEF Abort, Unlock, Goto
<1>19. CASE UNCHANGED vars
  BY <1>19
<1> QED
  BY <1>1, <1>2, <1>3, <1>4, <1>5, <1>6, <1>7, <1>8, <1>9, <1>10,
     <1>11, <1>12, <1>13, <1>14, <1>15, <1>16, <1>17, <1>18, <1>19
  DEF Next, Arrive, Proceed, TakeRow

\* Every step keeps locks with the transactions that need them.
LEMMA LockStep == Inv /\ [Next]_vars => LockDiscipline'
<1> SUFFICES ASSUME Inv, [Next]_vars PROVE LockDiscipline'
  OBVIOUS
<1> USE NoneIsNobody, DurationIsPositive
<1> USE DEF Inv, TypeOK, Working, Answer, LockDiscipline, DraftDiscipline, table, locks, locals, history, vars
<1>1. CASE Tick
  BY <1>1 DEF Tick
<1>2. ASSUME NEW h \in Handler, NEW u \in User, GenerateRefreshToken(h, u)
      PROVE  LockDiscipline'
  BY <1>2 DEF GenerateRefreshToken, NewToken, Fresh, Goto
<1>3. ASSUME NEW h \in Handler, RejectMalformed(h)
      PROVE  LockDiscipline'
  BY <1>3 DEF RejectMalformed, Goto
<1>4. ASSUME NEW h \in Handler, NEW t \in Token, BeginRefresh(h, t)
      PROVE  LockDiscipline'
  BY <1>4 DEF BeginRefresh, Goto
<1>5. ASSUME NEW h \in Handler, NEW t \in Token, BeginRevoke(h, t)
      PROVE  LockDiscipline'
  BY <1>5 DEF BeginRevoke, Goto
<1>6. ASSUME NEW h \in Handler, NEW u \in User, UpdatePassword(h, u)
      PROVE  LockDiscipline'
  BY <1>6 DEF UpdatePassword, Goto
<1>7. ASSUME NEW h \in Handler, Save(h)
      PROVE  LockDiscipline'
  BY <1>7 DEF Save, Acknowledge, Goto
<1>8. ASSUME NEW h \in Handler, ConsumeNothing(h)
      PROVE  LockDiscipline'
  BY <1>8 DEF ConsumeNothing, Valid, Goto
<1>9. ASSUME NEW h \in Handler, SaveSuccessor(h)
      PROVE  LockDiscipline'
  BY <1>9 DEF SaveSuccessor, NewToken, Fresh, Goto
<1>10. ASSUME NEW h \in Handler, Commit(h)
      PROVE  LockDiscipline'
  BY <1>10 DEF Commit, Acknowledge, Goto, Unlock, Rotation
<1>11. ASSUME NEW h \in Handler, NEW u \in User, DeleteByUserID(h, u)
      PROVE  LockDiscipline'
  BY <1>11 DEF DeleteByUserID, Goto
<1>12. ASSUME NEW h \in Handler, NEW t \in Token, SkipDeleted(h, t)
      PROVE  LockDiscipline'
  BY <1>12 DEF SkipDeleted
<1>13. ASSUME NEW h \in Handler, CommitPurge(h)
      PROVE  LockDiscipline'
  BY <1>13 DEF CommitPurge, Acknowledge, Goto, Unlock
<1>14. ASSUME NEW h \in Handler, Return(h)
      PROVE  LockDiscipline'
  BY <1>14 DEF Return, Goto
<1>15. ASSUME NEW h \in Handler, Consume(h)
      PROVE  LockDiscipline'
  BY <1>15 DEF Consume, Valid, Goto
<1>16. ASSUME NEW h \in Handler, Delete(h)
      PROVE  LockDiscipline'
  BY <1>16 DEF Delete, Acknowledge, Goto
<1>17. ASSUME NEW h \in Handler, NEW t \in Token, LockScanned(h, t)
      PROVE  LockDiscipline'
  BY <1>17 DEF LockScanned
<1>18. ASSUME NEW h \in Handler, Abort(h)
      PROVE  LockDiscipline'
  BY <1>18 DEF Abort, Unlock, Goto
<1>19. CASE UNCHANGED vars
  BY <1>19
<1> QED
  BY <1>1, <1>2, <1>3, <1>4, <1>5, <1>6, <1>7, <1>8, <1>9, <1>10,
     <1>11, <1>12, <1>13, <1>14, <1>15, <1>16, <1>17, <1>18, <1>19
  DEF Next, Arrive, Proceed, TakeRow

\* Every step keeps drafts apart from each other and from the table.
LEMMA DraftStep == Inv /\ [Next]_vars => DraftDiscipline'
<1> SUFFICES ASSUME Inv, [Next]_vars PROVE DraftDiscipline'
  OBVIOUS
<1> USE NoneIsNobody, DurationIsPositive
<1> USE DEF Inv, TypeOK, Working, Answer, LockDiscipline, DraftDiscipline, DeliveredIsBacked, table, locks, locals, history, vars
<1>1. CASE Tick
  BY <1>1 DEF Tick
<1>2. ASSUME NEW h \in Handler, NEW u \in User, GenerateRefreshToken(h, u)
      PROVE  DraftDiscipline'
  BY <1>2 DEF GenerateRefreshToken, NewToken, Fresh, Goto
<1>3. ASSUME NEW h \in Handler, RejectMalformed(h)
      PROVE  DraftDiscipline'
  BY <1>3 DEF RejectMalformed, Goto
<1>4. ASSUME NEW h \in Handler, NEW t \in Token, BeginRefresh(h, t)
      PROVE  DraftDiscipline'
  BY <1>4 DEF BeginRefresh, Goto
<1>5. ASSUME NEW h \in Handler, NEW t \in Token, BeginRevoke(h, t)
      PROVE  DraftDiscipline'
  BY <1>5 DEF BeginRevoke, Goto
<1>6. ASSUME NEW h \in Handler, NEW u \in User, UpdatePassword(h, u)
      PROVE  DraftDiscipline'
  BY <1>6 DEF UpdatePassword, Goto
<1>7. ASSUME NEW h \in Handler, Save(h)
      PROVE  DraftDiscipline'
  BY <1>7 DEF Save, Acknowledge, Goto
<1>8. ASSUME NEW h \in Handler, ConsumeNothing(h)
      PROVE  DraftDiscipline'
  BY <1>8 DEF ConsumeNothing, Valid, Goto
<1>9. ASSUME NEW h \in Handler, SaveSuccessor(h)
      PROVE  DraftDiscipline'
  BY <1>9 DEF SaveSuccessor, NewToken, Fresh, Goto
<1>10. ASSUME NEW h \in Handler, Commit(h)
      PROVE  DraftDiscipline'
  BY <1>10 DEF Commit, Acknowledge, Goto, Unlock, Rotation
<1>11. ASSUME NEW h \in Handler, NEW u \in User, DeleteByUserID(h, u)
      PROVE  DraftDiscipline'
  BY <1>11 DEF DeleteByUserID, Goto
<1>12. ASSUME NEW h \in Handler, NEW t \in Token, SkipDeleted(h, t)
      PROVE  DraftDiscipline'
  BY <1>12 DEF SkipDeleted
<1>13. ASSUME NEW h \in Handler, CommitPurge(h)
      PROVE  DraftDiscipline'
  BY <1>13 DEF CommitPurge, Acknowledge, Goto, Unlock
<1>14. ASSUME NEW h \in Handler, Return(h)
      PROVE  DraftDiscipline'
  BY <1>14 DEF Return, Goto
<1>15. ASSUME NEW h \in Handler, Consume(h)
      PROVE  DraftDiscipline'
  BY <1>15 DEF Consume, Valid, Goto
<1>16. ASSUME NEW h \in Handler, Delete(h)
      PROVE  DraftDiscipline'
  BY <1>16 DEF Delete, Acknowledge, Goto
<1>17. ASSUME NEW h \in Handler, NEW t \in Token, LockScanned(h, t)
      PROVE  DraftDiscipline'
  BY <1>17 DEF LockScanned
<1>18. ASSUME NEW h \in Handler, Abort(h)
      PROVE  DraftDiscipline'
  BY <1>18 DEF Abort, Unlock, Goto
<1>19. CASE UNCHANGED vars
  BY <1>19
<1> QED
  BY <1>1, <1>2, <1>3, <1>4, <1>5, <1>6, <1>7, <1>8, <1>9, <1>10,
     <1>11, <1>12, <1>13, <1>14, <1>15, <1>16, <1>17, <1>18, <1>19
  DEF Next, Arrive, Proceed, TakeRow

\* Every step keeps the dates of the rotations in order.
LEMMA RotationStep == Inv /\ [Next]_vars => RotationDiscipline'
<1> SUFFICES ASSUME Inv, [Next]_vars PROVE RotationDiscipline'
  OBVIOUS
<1> USE NoneIsNobody, DurationIsPositive
<1> USE DEF Inv, TypeOK, Rotation, Working, Answer, LockDiscipline, DraftDiscipline, RotationDiscipline, table, locks, locals, history, vars
<1>1. CASE Tick
  BY <1>1 DEF Tick
<1>2. ASSUME NEW h \in Handler, NEW u \in User, GenerateRefreshToken(h, u)
      PROVE  RotationDiscipline'
  BY <1>2 DEF GenerateRefreshToken, NewToken, Fresh, Goto
<1>3. ASSUME NEW h \in Handler, RejectMalformed(h)
      PROVE  RotationDiscipline'
  BY <1>3 DEF RejectMalformed, Goto
<1>4. ASSUME NEW h \in Handler, NEW t \in Token, BeginRefresh(h, t)
      PROVE  RotationDiscipline'
  BY <1>4 DEF BeginRefresh, Goto
<1>5. ASSUME NEW h \in Handler, NEW t \in Token, BeginRevoke(h, t)
      PROVE  RotationDiscipline'
  BY <1>5 DEF BeginRevoke, Goto
<1>6. ASSUME NEW h \in Handler, NEW u \in User, UpdatePassword(h, u)
      PROVE  RotationDiscipline'
  BY <1>6 DEF UpdatePassword, Goto
<1>7. ASSUME NEW h \in Handler, Save(h)
      PROVE  RotationDiscipline'
  BY <1>7 DEF Save, Acknowledge, Goto
<1>8. ASSUME NEW h \in Handler, ConsumeNothing(h)
      PROVE  RotationDiscipline'
  BY <1>8 DEF ConsumeNothing, Valid, Goto
<1>9. ASSUME NEW h \in Handler, SaveSuccessor(h)
      PROVE  RotationDiscipline'
  BY <1>9 DEF SaveSuccessor, NewToken, Fresh, Goto
<1>10. ASSUME NEW h \in Handler, Commit(h)
      PROVE  RotationDiscipline'
  BY <1>10 DEF Commit, Acknowledge, Goto, Unlock, Rotation
<1>11. ASSUME NEW h \in Handler, NEW u \in User, DeleteByUserID(h, u)
      PROVE  RotationDiscipline'
  BY <1>11 DEF DeleteByUserID, Goto
<1>12. ASSUME NEW h \in Handler, NEW t \in Token, SkipDeleted(h, t)
      PROVE  RotationDiscipline'
  BY <1>12 DEF SkipDeleted
<1>13. ASSUME NEW h \in Handler, CommitPurge(h)
      PROVE  RotationDiscipline'
  BY <1>13 DEF CommitPurge, Acknowledge, Goto, Unlock
<1>14. ASSUME NEW h \in Handler, Return(h)
      PROVE  RotationDiscipline'
  BY <1>14 DEF Return, Goto
<1>15. ASSUME NEW h \in Handler, Consume(h)
      PROVE  RotationDiscipline'
  BY <1>15 DEF Consume, Valid, Goto
<1>16. ASSUME NEW h \in Handler, Delete(h)
      PROVE  RotationDiscipline'
  BY <1>16 DEF Delete, Acknowledge, Goto
<1>17. ASSUME NEW h \in Handler, NEW t \in Token, LockScanned(h, t)
      PROVE  RotationDiscipline'
  BY <1>17 DEF LockScanned
<1>18. ASSUME NEW h \in Handler, Abort(h)
      PROVE  RotationDiscipline'
  BY <1>18 DEF Abort, Unlock, Goto
<1>19. CASE UNCHANGED vars
  BY <1>19
<1> QED
  BY <1>1, <1>2, <1>3, <1>4, <1>5, <1>6, <1>7, <1>8, <1>9, <1>10,
     <1>11, <1>12, <1>13, <1>14, <1>15, <1>16, <1>17, <1>18, <1>19
  DEF Next, Arrive, Proceed, TakeRow

\* Every step keeps the rotations of one token nested.  Only Commit adds one,
\* and the row it has locked was still valid when its transaction began.
LEMMA NestedStep == Inv /\ [Next]_vars => NestedRotations'
<1> SUFFICES ASSUME Inv, [Next]_vars PROVE NestedRotations'
  OBVIOUS
<1>1. ASSUME NEW h \in Handler, Commit(h)
      PROVE  NestedRotations'
  <2> DEFINE new == [old |-> presented[h], new |-> draft[h], start |-> started[h], end |-> now]
  <2>1. rotations' = rotations \cup {new}
    BY <1>1 DEF Commit
  <2>2. /\ presented[h] \in stored
        /\ started[h] < expiresAt[presented[h]]
    BY <1>1, NoneIsNobody DEF Commit, Inv, TypeOK, LockDiscipline
  <2>3. ASSUME NEW q \in rotations, q.old = presented[h]
        PROVE  Encloses(new, q)
    <3>1. expiresAt[presented[h]] <= q.start
      BY <2>2, <2>3 DEF Inv, RotationDiscipline
    <3>2. q.end <= now
      BY DEF Inv, RotationDiscipline
    <3>3. /\ q.start \in Nat
          /\ started[h] \in Nat
          /\ expiresAt[presented[h]] \in Nat
      BY <2>2 DEF Inv, TypeOK, Rotation
    <3>4. started[h] < q.start
      BY <2>2, <3>1, <3>3
    <3> QED
      BY <3>2, <3>4 DEF Encloses
  <2>4. ASSUME NEW r \in rotations', NEW q \in rotations', r.old = q.old, r # q
        PROVE  Encloses(r, q) \/ Encloses(q, r)
    <3>1. CASE r \in rotations /\ q \in rotations
      BY <2>4, <3>1 DEF Inv, NestedRotations
    <3>2. CASE r = new /\ q \in rotations
      BY <2>3, <2>4, <3>2
    <3>3. CASE q = new /\ r \in rotations
      BY <2>3, <2>4, <3>3
    <3> QED
      BY <2>1, <2>4, <3>1, <3>2, <3>3
  <2> QED
    BY <2>4 DEF NestedRotations, Encloses
<1>2. CASE UNCHANGED rotations
  BY <1>2 DEF Inv, NestedRotations, Encloses
<1> QED
  BY <1>1, <1>2 DEF Next, Arrive, Proceed, TakeRow, Tick, GenerateRefreshToken, Save,
     RejectMalformed, BeginRefresh, Consume, ConsumeNothing, SaveSuccessor, BeginRevoke,
     Delete, UpdatePassword, DeleteByUserID, LockScanned, SkipDeleted, CommitPurge,
     Abort, Return, vars, history

\* The inductive invariant holds before the first request.
LEMMA InitInv == Init => Inv
  BY NoneIsNobody DEF Init, Inv, TypeOK, LockDiscipline, DraftDiscipline, RotationDiscipline,
     NestedRotations, DeliveredIsBacked, Working, Answer

\* The inductive invariant holds in every reachable state.
THEOREM Invariance == Spec => []Inv
<1>1. Inv /\ [Next]_vars => Inv'
  BY TypeStep, LockStep, DraftStep, RotationStep, NestedStep DEF Inv
<1> QED
  BY InitInv, <1>1, PTL DEF Spec

-----------------------------------------------------------------------------
\* The variables of the component never leave their types.
THEOREM TypeCorrect == Spec => []TypeOK
<1>1. Inv => TypeOK
  BY DEF Inv
<1> QED
  BY Invariance, <1>1, PTL

\* Two rotations of one refresh token: the transaction that commits last began
\* first.  A refresh that begins after the token was rotated is refused.
THEOREM RotationsAreNested == Spec => []NestedRotations
<1>1. Inv => NestedRotations
  BY DEF Inv
<1> QED
  BY Invariance, <1>1, PTL

\* A client never holds a refresh token whose row was rolled back or never
\* written.
THEOREM CookiesAreBacked == Spec => []DeliveredIsBacked
<1>1. Inv => DeliveredIsBacked
  BY DEF Inv, DraftDiscipline
<1> QED
  BY Invariance, <1>1, PTL

\* Who waits for whom: a purge is waited for, but not by another purge.
LEMMA WaitsForWhom ==
  ASSUME Inv, NEW h \in Handler, NEW g \in Handler, WaitsFor(h, g)
  PROVE  /\ pc[h] \in {"consume", "delete", "purge"}
         /\ pc[g] \in {"rotate", "commit", "purge"}
         /\ pc[h] = "purge" => pc[g] # "purge"
<1>1. PICK t \in Token : /\ rowLock[t] = g
                         /\ pc[h] = "purge" => t \in scan[h]
  BY DEF WaitsFor, Valid, Inv, TypeOK, LockDiscipline
<1>2. /\ g # None
      /\ g # h
      /\ pc[g] \in {"rotate", "commit"} \/ (pc[g] = "purge" /\ t \in scan[g])
  BY <1>1, NoneIsNobody DEF WaitsFor, Inv, LockDiscipline
<1>3. pc[h] = "purge" /\ pc[g] = "purge" => userLock[owner[t]] = h /\ userLock[owner[t]] = g
  BY <1>1, <1>2 DEF Inv, LockDiscipline
<1> QED
  BY <1>2, <1>3 DEF WaitsFor

\* No group of handlers waits for row locks only its own members hold.
THEOREM DeadlockFreedom == Spec => []NoDeadlock
<1>1. Inv => NoDeadlock
  <2> SUFFICES ASSUME Inv, NEW group \in SUBSET Handler, group # {}
               PROVE  \E h \in group : \A g \in group : ~ WaitsFor(h, g)
    BY DEF NoDeadlock
  <2>2. CASE \E h \in group : pc[h] \in {"rotate", "commit"}
    BY WaitsForWhom, <2>2
  <2>3. CASE /\ \A h \in group : pc[h] \notin {"rotate", "commit"}
             /\ \E h \in group : pc[h] = "purge"
    BY WaitsForWhom, <2>3
  <2>4. CASE \A h \in group : pc[h] \notin {"rotate", "commit", "purge"}
    BY WaitsForWhom, <2>4
  <2> QED
    BY <2>2, <2>3, <2>4
<1> QED
  BY Invariance, <1>1, PTL

-----------------------------------------------------------------------------
\* A revoked id is never stored again and never rotated, whatever was under way
\* when it was revoked.
THEOREM RevokedForGood == Spec => RevocationIsFinal
<1> DEFINE Final == /\ revoked \cap stored' = {}
                    /\ \A r \in rotations' \ rotations : r.old \notin revoked
<1>1. Inv /\ [Next]_vars => [Final]_vars
  <2> SUFFICES ASSUME Inv, Next PROVE Final
    OBVIOUS
  <2>1. ASSUME NEW h \in Handler, Save(h) PROVE Final
    BY <2>1 DEF Save, Inv, DraftDiscipline, history
  <2>2. ASSUME NEW h \in Handler, Commit(h) PROVE Final
    <3>1. presented[h] \in stored
      BY <2>2, NoneIsNobody DEF Commit, Inv, LockDiscipline
    <3> QED
      BY <2>2, <3>1 DEF Commit, Inv, DraftDiscipline
  <2>3. CASE stored' \subseteq stored /\ UNCHANGED rotations
    BY <2>3 DEF Inv, DraftDiscipline
  <2> QED
    BY <2>1, <2>2, <2>3 DEF Next, Arrive, Proceed, TakeRow, Tick, GenerateRefreshToken,
       RejectMalformed, BeginRefresh, Consume, ConsumeNothing, SaveSuccessor, BeginRevoke,
       Delete, UpdatePassword, DeleteByUserID, LockScanned, SkipDeleted, CommitPurge,
       Abort, Return, table, history
<1> QED
  BY Invariance, <1>1, PTL DEF Spec, RevocationIsFinal

\* A stored token's expiry only ever moves back.
THEOREM ExpiryOnlyShrinks == Spec => NeverRevived
<1> DEFINE Shrinks == \A t \in stored \cap stored' : expiresAt'[t] <= expiresAt[t]
<1>1. Inv /\ [Next]_vars => [Shrinks]_vars
  <2> SUFFICES ASSUME Inv, Next PROVE Shrinks
    OBVIOUS
  <2> USE DEF Inv, TypeOK
  <2>1. ASSUME NEW h \in Handler, NEW u, NewToken(h, u) PROVE Shrinks
    BY <2>1 DEF NewToken, Fresh, DraftDiscipline
  <2>2. ASSUME NEW h \in Handler, Commit(h) PROVE Shrinks
    <3>1. started[h] < expiresAt[presented[h]]
      BY <2>2 DEF Commit, LockDiscipline
    <3> QED
      BY <2>2, <3>1 DEF Commit
  <2>3. CASE UNCHANGED expiresAt
    BY <2>3
  <2> QED
    BY <2>1, <2>2, <2>3 DEF Next, Arrive, Proceed, TakeRow, Tick, GenerateRefreshToken, Save,
       RejectMalformed, BeginRefresh, Consume, ConsumeNothing, SaveSuccessor, BeginRevoke,
       Delete, UpdatePassword, DeleteByUserID, LockScanned, SkipDeleted, CommitPurge,
       Abort, Return, table
<1> QED
  BY Invariance, <1>1, PTL DEF Spec, NeverRevived

-----------------------------------------------------------------------------
(* RefreshTokens implements TokenLedger: the entry of a committed row, and  *)
(* the instant of an operation is the COMMIT of its transaction.            *)

\* The ledger a state shows: what Ledger's substitution puts for ledger.
Shown == [t \in Token |-> IF t \in stored THEN [user |-> owner[t], expires |-> expiresAt[t]]
                                          ELSE None]

\* An empty table shows an empty ledger.
LEMMA InitShown == Init => Ledger!LedgerInit
  BY DEF Init, Ledger!LedgerInit

\* A row that appears is an Issue.
LEMMA SaveIsIssue ==
  ASSUME Inv, NEW h \in Handler, Save(h)
  PROVE  \E t \in Token, u \in User : Ledger!Issue(t, u)
<1> USE DEF Inv, TypeOK
<1>1. /\ draft[h] \in Token
      /\ draft[h] \notin stored \cup revoked
      /\ owner[draft[h]] \in User
      /\ expiresAt[draft[h]] \in Duration..(now + Duration)
  BY DEF Save, DraftDiscipline, Answer
<1> DEFINE built == expiresAt[draft[h]] - Duration
<1>2. built \in 0..now /\ built + Duration = expiresAt[draft[h]]
  BY <1>1, DurationIsPositive
<1>3. Shown' = [Shown EXCEPT ![draft[h]] = Ledger!NewEntry(owner[draft[h]], built)]
  BY <1>1, <1>2 DEF Save, Shown, Ledger!NewEntry
<1>4. draft[h] \notin Ledger!Existing
  BY <1>1 DEF Ledger!Existing
<1> QED
  BY <1>1, <1>2, <1>3, <1>4 DEF Save, history, Shown, Ledger!Issue

\* COMMIT of Refresh is a Rotate.
LEMMA CommitIsRotate ==
  ASSUME Inv, NEW h \in Handler, Commit(h)
  PROVE  \E t, s \in Token : Ledger!Rotate(t, s)
<1> USE DEF Inv, TypeOK
<1> DEFINE old == presented[h]
           new == draft[h]
           built == expiresAt[new] - Duration
<1>1. /\ old \in Token
      /\ old \in stored
      /\ started[h] \in 0..now
      /\ started[h] < expiresAt[old]
  BY NoneIsNobody DEF Commit, LockDiscipline
<1>2. /\ new \in Token
      /\ new \notin stored \cup revoked
      /\ expiresAt[new] \in Duration..(now + Duration)
  BY DEF Commit, DraftDiscipline, Answer
<1>3. built \in 0..now /\ built + Duration = expiresAt[new]
  BY <1>2, DurationIsPositive
<1>4. owner[new] = owner[old]
  BY DEF Commit, DraftDiscipline
<1>5. Shown' = [Shown EXCEPT ![old] = [user |-> @.user, expires |-> started[h]],
                             ![new] = Ledger!NewEntry(Shown[old].user, built)]
  BY <1>1, <1>2, <1>3, <1>4 DEF Commit, Shown, Ledger!NewEntry
<1>6. /\ old \in Ledger!Existing
      /\ new \notin Ledger!Existing
      /\ started[h] < Shown[old].expires
  BY <1>1, <1>2, NoneIsNoRow DEF DraftDiscipline, Ledger!Existing, Shown
<1>7. UNCHANGED <<now, revoked>>
  BY DEF Commit
<1>8. \E began, b \in 0..now :
        /\ began < Shown[old].expires
        /\ Shown' = [Shown EXCEPT ![old] = [user |-> @.user, expires |-> began],
                                 ![new] = Ledger!NewEntry(Shown[old].user, b)]
  <2> HIDE DEF built
  <2> QED
    BY <1>1, <1>3, <1>5, <1>6
<1> HIDE DEF old, new
<1> QED
  BY <1>1, <1>2, <1>6, <1>7, <1>8 DEF Shown, Ledger!Rotate

\* Logout's DELETE by id is a Revoke of what it removed: one row or none.
LEMMA DeleteIsRevoke ==
  ASSUME Inv, NEW h \in Handler, Delete(h)
  PROVE  \/ \E S \in SUBSET Ledger!Existing, u \in User : Ledger!Revoke(S, u)
         \/ UNCHANGED <<now, Shown, revoked>>
<1> USE DEF Inv, TypeOK
<1>1. presented[h] \in Token
  BY DEF Delete, LockDiscipline
<1>2. CASE presented[h] \notin stored
  BY <1>2 DEF Delete, Shown
<1>3. CASE presented[h] \in stored
  <2> DEFINE S == {presented[h]}
             u == owner[presented[h]]
  <2>1. /\ u \in User
        /\ \A t \in S : Shown[t].user = u /\ Shown[t] # None
    BY <1>1, <1>3, NoneIsNoRow DEF Shown, DraftDiscipline
  <2>2. S \subseteq Ledger!Existing
    BY <1>1, <2>1 DEF Ledger!Existing, Shown
  <2>3. Shown' = [t \in Token |-> IF t \in S THEN None ELSE Shown[t]]
    BY <1>3 DEF Delete, Shown
  <2>4. revoked' = revoked \cup S /\ UNCHANGED now
    BY <1>3 DEF Delete
  <2> HIDE DEF S, u
  <2> QED
    BY <2>1, <2>2, <2>3, <2>4 DEF Shown, Ledger!Revoke
<1> QED
  BY <1>2, <1>3

\* COMMIT of a password reset is a Revoke of the rows its DELETE had locked.
LEMMA PurgeIsRevoke ==
  ASSUME Inv, NEW h \in Handler, CommitPurge(h)
  PROVE  \/ \E S \in SUBSET Ledger!Existing, u \in User : Ledger!Revoke(S, u)
         \/ UNCHANGED <<now, Shown, revoked>>
<1> USE DEF Inv, TypeOK
<1>1. /\ scan[h] \subseteq Token
      /\ \A t \in scan[h] : rowLock[t] = h
      /\ \A t \in scan[h] : owner[t] \in User /\ userLock[owner[t]] = h
  BY DEF CommitPurge, LockDiscipline
<1>2. scan[h] \subseteq stored
  BY <1>1, NoneIsNobody DEF LockDiscipline
<1>3. Shown' = [t \in Token |-> IF t \in scan[h] THEN None ELSE Shown[t]]
  BY <1>2 DEF CommitPurge, Shown
<1>4. CASE scan[h] = {}
  BY <1>3, <1>4 DEF CommitPurge, Shown
<1>5. CASE scan[h] # {}
  <2>1. PICK u \in User : \A t \in scan[h] : owner[t] = u
    BY <1>1, <1>5, NoneIsNobody DEF LockDiscipline
  <2>2. /\ scan[h] \subseteq Ledger!Existing
        /\ \A t \in scan[h] : Shown[t].user = u
    BY <1>1, <1>2, <2>1, NoneIsNoRow DEF Ledger!Existing, Shown
  <2>3. Ledger!Revoke(scan[h], u)
    BY <1>3, <2>2 DEF CommitPurge, Shown, Ledger!Revoke
  <2> QED
    BY <2>2, <2>3
<1> QED
  BY <1>4, <1>5

\* Every statement that is not the end of an operation is invisible.
LEMMA StepShown == Inv /\ [Next]_vars =>
    Ledger!LedgerNext \/ UNCHANGED <<now, Shown, revoked>>
<1> SUFFICES ASSUME Inv, [Next]_vars
             PROVE  Ledger!LedgerNext \/ UNCHANGED <<now, Shown, revoked>>
  OBVIOUS
<1>1. CASE Tick
  BY <1>1 DEF Tick, table, history, Shown, Ledger!LedgerNext, Ledger!TimePasses
<1>2. ASSUME NEW h \in Handler, Save(h) \/ Commit(h) \/ Delete(h) \/ CommitPurge(h)
      PROVE  Ledger!LedgerNext \/ UNCHANGED <<now, Shown, revoked>>
  BY <1>2, SaveIsIssue, CommitIsRotate, DeleteIsRevoke, PurgeIsRevoke DEF Ledger!LedgerNext
<1>3. ASSUME NEW h \in Handler, NEW u, NewToken(h, u), UNCHANGED <<now, stored, revoked>>
      PROVE  UNCHANGED <<now, Shown, revoked>>
  BY <1>3 DEF NewToken, Fresh, Shown, Inv, TypeOK, DraftDiscipline
<1>4. CASE UNCHANGED <<now, table, revoked>>
  BY <1>4 DEF table, Shown
<1> QED
  BY <1>1, <1>2, <1>3, <1>4 DEF Next, Arrive, Proceed, TakeRow, GenerateRefreshToken,
     RejectMalformed, BeginRefresh, Consume, ConsumeNothing, SaveSuccessor, BeginRevoke,
     UpdatePassword, DeleteByUserID, LockScanned, SkipDeleted, Abort, Return, vars, history

\* Interleaved as they may be, the statements of the component amount to
\* sign-ins, rotations and revocations that each happen at one instant.
THEOREM LedgerImplemented == Spec => ImplementsLedger
<1>1. Inv /\ [Next]_vars =>
        [Ledger!LedgerNext]_<<now, Shown, revoked>>
  BY StepShown
<1>2. ImplementsLedger <=> Ledger!LedgerInit /\ [][Ledger!LedgerNext]_<<now, Shown, revoked>>
  BY DEF ImplementsLedger, Ledger!LedgerSpec, Shown
<1> QED
  BY Invariance, InitShown, <1>1, <1>2, PTL DEF Spec

=============================================================================
