------------------------- MODULE OtpChallengesProofs -------------------------
(***************************************************************************)
(* OtpChallenges, proved for any number of handlers, addresses, challenges *)
(* and codes, and for any limit, duration and length of time.              *)
(*                                                                         *)
(* A challenge id belongs first to one SendCode, then to one row, then to  *)
(* nobody: SendDiscipline and BoxDiscipline.  So the row that a DELETE     *)
(* finds under the id it looked for is the only one, and has not been      *)
(* consumed before.  GuessDiscipline ties the guesses to the handlers that *)
(* have yet to count theirs.                                               *)
(***************************************************************************)
EXTENDS OtpChallenges, FiniteSetTheorems, TLAPS

\* How many wrong codes for a challenge have been compared, not yet counted.
Guessers(c) == {h \in guessing : challenge[h] = c}
pending == [c \in Challenge |-> Cardinality(Guessers(c))]

\* A stored challenge is one user's, unused, and no longer on its way.
BoxDiscipline ==
  \A e \in Email : otp[e] # None =>
    /\ e \in registered
    /\ otp[e].id \in drawn
    /\ used[otp[e].id] = 0
    /\ \A f \in Email : otp[f] # None /\ otp[f].id = otp[e].id => f = e
    /\ \A h \in Handler : pc[h] \in Sending => challenge[h] # otp[e].id

\* A challenge on its way has one sender, and nobody has tried it yet.
SendDiscipline ==
  /\ \A h \in Handler : pc[h] \in Sending =>
       /\ email[h] \in Email
       /\ challenge[h] \in drawn
       /\ used[challenge[h]] = 0
       /\ guesses[challenge[h]] = 0
       /\ \A g \in Handler : pc[g] \in Sending /\ challenge[g] = challenge[h] => g = h
       /\ pc[h] # "lookup" => email[h] \in registered
       /\ pc[h] \notin {"lookup", "email"} =>
            /\ code[h] \in Code
            /\ [id |-> challenge[h], to |-> email[h], code |-> code[h]] \in emailed
  /\ \A c \in Challenge : c \notin drawn => used[c] = 0 /\ guesses[c] = 0

\* A request that has consumed a challenge and not yet been paid for it.
Granting == {"session", "owner", "token"}

\* What a request that looks for a challenge, or has taken one, knows of it.
TakeDiscipline ==
  /\ \A h \in Handler : started[h] <= now
  /\ \A h \in Handler : pc[h] \in {"find", "match"} => email[h] \in Email
  /\ \A h \in Handler : pc[h] \in Granting =>
        /\ target[h] \in Challenge
        /\ used[target[h]] = 1 /\ grants[target[h]] = 0
        /\ \A g \in Handler : pc[g] \in Granting /\ target[g] = target[h] => g = h
  /\ \A h \in Handler : pc[h] = "owner" => email[h] \in registered

\* A guess that has yet to be counted is one of the guesses.
GuessDiscipline ==
  /\ \A h \in guessing : pc[h] \in {"miss", "count"} /\ challenge[h] \in Challenge
  /\ \A c \in Challenge : pending[c] <= guesses[c]

\* GuessBudget, said with pending.
LiveBudget ==
  /\ \A e \in Email :
        otp[e] # None /\ otp[e].expires > now /\ otp[e].attempts < Limit =>
           guesses[otp[e].id] <= otp[e].attempts + pending[otp[e].id]
  /\ \A c \in Challenge : guesses[c] <= MaxAttempts + Cardinality(Handler) - 1

\* The inductive invariant.
Lives == TypeOK /\ BoxDiscipline /\ SendDiscipline /\ TakeDiscipline /\ SingleUse
         /\ StoredWasEmailed /\ OwnerAlwaysFound
Budget == GuessDiscipline /\ LiveBudget
CodesInv == Lives /\ Budget

-----------------------------------------------------------------------------
\* int16(MaxAttempts) may be less than MaxAttempts, and is never more.
LEMMA LimitLemma == Limit \in Int /\ Limit <= MaxAttempts
  BY MaxAttemptsIsPositive DEF Limit

\* Those who have yet to count are finitely many.
LEMMA GuessersLemma ==
  ASSUME TypeOK, NEW c
  PROVE  IsFiniteSet(Guessers(c)) /\ Cardinality(Guessers(c)) \in Nat
<1>1. Guessers(c) \in SUBSET Handler
  BY DEF Guessers, TypeOK
<1> QED
  BY <1>1, HandlersAreFinite, FS_Subset, FS_CardinalityType

\* What is pending is a number.
LEMMA PendingType == TypeOK => pending \in [Challenge -> Nat]
  BY GuessersLemma DEF pending

\* A step that leaves the guessing handlers alone leaves pending alone.
LEMMA PendingSame ==
  ASSUME guessing' = guessing, \A h \in guessing : challenge'[h] = challenge[h]
  PROVE  pending' = pending
<1>1. \A c \in Challenge : {h \in guessing' : challenge'[h] = c} = {h \in guessing : challenge[h] = c}
  OBVIOUS
<1> QED
  BY <1>1 DEF pending, Guessers

\* A handler that has guessed adds one to what is pending ...
LEMMA PendingGrows ==
  ASSUME TypeOK, NEW h, h \notin guessing, challenge[h] \in Challenge,
         guessing' = guessing \cup {h}, challenge' = challenge
  PROVE  pending' = [pending EXCEPT ![challenge[h]] = @ + 1]
<1> DEFINE After(c) == {g \in guessing' : challenge'[g] = c}
<1>1. \A c : c # challenge[h] => After(c) = Guessers(c)
  BY DEF Guessers
<1>2. After(challenge[h]) = Guessers(challenge[h]) \cup {h} /\ h \notin Guessers(challenge[h])
  BY DEF Guessers
<1>3. Cardinality(After(challenge[h])) = Cardinality(Guessers(challenge[h])) + 1
  BY <1>2, GuessersLemma, FS_AddElement
<1>4. pending' = [c \in Challenge |-> Cardinality(After(c))]
  BY DEF pending, Guessers
<1> HIDE DEF After
<1> QED
  BY <1>1, <1>3, <1>4 DEF pending

\* ... and takes it away again when it is counted or gives up.
LEMMA PendingShrinks ==
  ASSUME TypeOK, NEW h \in guessing, challenge[h] \in Challenge,
         guessing' = guessing \ {h}, challenge' = challenge
  PROVE  pending' = [pending EXCEPT ![challenge[h]] = @ - 1]
<1> DEFINE After(c) == {g \in guessing' : challenge'[g] = c}
<1>1. \A c : c # challenge[h] => After(c) = Guessers(c)
  BY DEF Guessers
<1>2. After(challenge[h]) = Guessers(challenge[h]) \ {h} /\ h \in Guessers(challenge[h])
  BY DEF Guessers
<1>3. Cardinality(After(challenge[h])) = Cardinality(Guessers(challenge[h])) - 1
  BY <1>2, GuessersLemma, FS_RemoveElement
<1>4. pending' = [c \in Challenge |-> Cardinality(After(c))]
  BY DEF pending, Guessers
<1> HIDE DEF After
<1> QED
  BY <1>1, <1>3, <1>4 DEF pending

\* Whoever is about to count a guess has made one.
LEMMA GuessWasMade ==
  ASSUME CodesInv, NEW h \in guessing
  PROVE  guesses[challenge[h]] \in Nat \ {0} /\ pending[challenge[h]] \in Nat \ {0}
<1>1. h \in Guessers(challenge[h])
  BY DEF Guessers
<1>2. Cardinality(Guessers(challenge[h])) # 0
  BY <1>1, GuessersLemma, FS_EmptySet DEF CodesInv, Lives
<1>3. challenge[h] \in Challenge
  BY DEF CodesInv, Budget, GuessDiscipline
<1>4. pending[challenge[h]] \in Nat \ {0}
  BY <1>2, <1>3, GuessersLemma DEF pending, CodesInv, Lives
<1>5. guesses[challenge[h]] \in Nat /\ pending[challenge[h]] <= guesses[challenge[h]]
  BY <1>3 DEF CodesInv, Lives, Budget, GuessDiscipline, TypeOK
<1> QED
  BY <1>4, <1>5

\* What the end of a transaction does to the locks.
LEMMA UnlockLemma ==
  ASSUME TypeOK, NEW h \in Handler, Unlock(h)
  PROVE  /\ rowLock' \in [Email -> Handler \cup {None}]
         /\ inserted' \in [Email -> Handler \cup {None}]
  BY DEF TypeOK, Unlock

\* What a SendCode that is about to commit knows of its challenge.
LEMMA CommitterLemma ==
  ASSUME Lives, NEW h \in Handler, pc[h] = "commit"
  PROVE  /\ email[h] \in registered
         /\ challenge[h] \in drawn /\ used[challenge[h]] = 0
         /\ \A g \in Handler \ {h} : pc[g] \in Sending => challenge[g] # challenge[h]
         /\ \A e \in Email : otp[e] # None => otp[e].id # challenge[h]
<1>1. pc[h] \in Sending
  BY DEF Sending
<1> QED
  BY <1>1 DEF Lives, SendDiscipline, BoxDiscipline

\* What comes of DELETE ... RETURNING.
TakenOrMissed(h, hit, miss) ==
  \/ /\ pc' = [pc EXCEPT ![h] = miss]
     /\ UNCHANGED <<otp, used, email>>
  \/ \E e \in Email :
       /\ otp[e] # None
       /\ target[h] = otp[e].id
       /\ otp' = [otp EXCEPT ![e] = None]
       /\ used' = [used EXCEPT ![target[h]] = 1]
       /\ email' = [email EXCEPT ![h] = e]
       /\ pc' = [pc EXCEPT ![h] = hit]

\* DELETE ... RETURNING finds nothing, or the only row with the id it looked for.
LEMMA TakeLemma ==
  ASSUME Lives, NEW h \in Handler, NEW there \in SUBSET Holders(target[h]),
         NEW hit, NEW miss, Take(h, there, hit, miss)
  PROVE  TakenOrMissed(h, hit, miss)
<1>1. CASE there = {}
  BY <1>1 DEF Take, Goto, Lives, TypeOK, TakenOrMissed
<1>2. CASE there # {}
  <2>1. PICK e \in Email : there = {e} /\ otp[e] # None /\ otp[e].id = target[h]
    BY <1>2 DEF Holders, Lives, BoxDiscipline
  <2>2. (CHOOSE f \in there : TRUE) = e
    BY <2>1
  <2>3. used[target[h]] = 0 /\ target[h] \in Challenge
    BY <2>1 DEF Lives, BoxDiscipline, TypeOK, Row
  <2>4. used' = [used EXCEPT ![target[h]] = 1]
    BY <2>1, <2>3 DEF Take, Lives, TypeOK
  <2>5. otp' = [otp EXCEPT ![e] = None]
    BY <2>1 DEF Take, Lives, TypeOK
  <2> QED
    BY <2>1, <2>2, <2>4, <2>5 DEF Take, Goto, TakenOrMissed
<1> QED
  BY <1>1, <1>2

\* The same of the two statements that are one.
LEMMA TakeEither ==
  ASSUME Lives, NEW h \in Handler, TakeLogin(h) \/ TakeReset(h)
  PROVE  \E hit \in {"session", "owner"}, miss \in {"rejected", "miss"} : TakenOrMissed(h, hit, miss)
<1>1. PICK hit \in {"session", "owner"}, miss \in {"rejected", "miss"},
           there \in SUBSET Holders(target[h]) : Take(h, there, hit, miss)
  BY DEF TakeLogin, TakeReset
<1>2. TakenOrMissed(h, hit, miss)
  BY <1>1, TakeLemma
<1> QED
  BY <1>2

\* A SELECT or DELETE that looks sees a row of the table, or none.
LEMMA LookLemma ==
  ASSUME TypeOK, NEW h \in Handler, NEW candidates, Look(h, candidates),
         \A e \in candidates : e \in Email /\ otp[e] # None
  PROVE  /\ target' \in [Handler -> Challenge \cup {None}]
         /\ \A g \in Handler \ {h} : target'[g] = target[g]
<1>1. CASE candidates = {}
  BY <1>1 DEF Look, TypeOK
<1>2. CASE candidates # {}
  <2>1. (CHOOSE e \in candidates : TRUE) \in candidates
    BY <1>2
  <2>2. otp[CHOOSE e \in candidates : TRUE].id \in Challenge
    BY <2>1 DEF TypeOK, Row
  <2> QED
    BY <1>2, <2>2 DEF Look, TypeOK
<1> QED
  BY <1>1, <1>2

-----------------------------------------------------------------------------
\* The inductive invariant holds before the first request.
LEMMA InitCodesInv == Init => CodesInv
<1> SUFFICES ASSUME Init PROVE CodesInv
  OBVIOUS
<1> USE OtpNoneIsNothing, MaxAttemptsIsPositive, OtpTimeIsBounded
<1>1. Lives
  BY DEF Init, Lives, TypeOK, BoxDiscipline, SendDiscipline, TakeDiscipline, SingleUse,
     StoredWasEmailed, OwnerAlwaysFound, Sending, Granting
<1>2. \A c : Guessers(c) = {}
  BY DEF Init, Guessers
<1>3. Cardinality(Handler) \in Nat
  BY HandlersAreFinite, FS_CardinalityType
<1>4. GuessDiscipline
  BY <1>2, FS_EmptySet DEF Init, GuessDiscipline, pending
<1>5. LiveBudget
  BY <1>3 DEF Init, LiveBudget
<1> QED
  BY <1>1, <1>4, <1>5 DEF CodesInv, Budget

-----------------------------------------------------------------------------
\* Every step keeps what is known of the challenges.
LEMMA LivesStep == CodesInv /\ [Next]_vars => Lives'
<1> SUFFICES ASSUME CodesInv, [Next]_vars PROVE Lives'
  OBVIOUS
<1> USE OtpNoneIsNothing, OtpNoneIsNoRow, OtpDurationIsPositive, MaxAttemptsIsPositive, LimitLemma
<1> USE DEF CodesInv, Lives, TypeOK, BoxDiscipline, SendDiscipline, TakeDiscipline, SingleUse,
            StoredWasEmailed, OwnerAlwaysFound, Working, Sending, LoggingIn, Verifying, Answer,
            Granting, Goto, users, table, locals, history
<1>1. CASE Tick
  BY <1>1, OtpTimeIsBounded DEF Tick
<1>2. ASSUME NEW e \in Email, Register(e)
      PROVE  Lives'
  BY <1>2 DEF Register
<1>3. ASSUME NEW h \in Handler, NEW e \in Email, NEW c \in Challenge, BeginSend(h, e, c)
      PROVE  Lives'
  <2>1. TypeOK'
    BY <1>3 DEF BeginSend
  <2>2. BoxDiscipline'
    BY <1>3 DEF BeginSend
  <2>3. SendDiscipline'
    <3>1. /\ pc'[h] = "lookup" /\ challenge'[h] = c /\ email'[h] = e
          /\ \A g \in Handler \ {h} : /\ pc'[g] = pc[g] /\ challenge'[g] = challenge[g]
                                     /\ email'[g] = email[g]
      BY <1>3 DEF BeginSend
    <3>2. c \notin drawn /\ drawn' = drawn \cup {c} /\ used[c] = 0 /\ guesses[c] = 0
      BY <1>3 DEF BeginSend
    <3>3. UNCHANGED <<used, guesses, registered, code, emailed>>
      BY <1>3 DEF BeginSend
    <3>4. \A g \in Handler \ {h} : pc'[g] \in Sending => pc[g] \in Sending /\ challenge[g] # c
      BY <3>1, <3>2
    <3> QED
      BY <3>1, <3>2, <3>3, <3>4
  <2>4. TakeDiscipline'
    BY <1>3 DEF BeginSend
  <2>5. (SingleUse /\ StoredWasEmailed /\ OwnerAlwaysFound)'
    BY <1>3 DEF BeginSend
  <2> QED
    BY <2>1, <2>2, <2>3, <2>4, <2>5
<1>4. ASSUME NEW h \in Handler, NEW e \in Email, NEW k \in Code, BeginLogin(h, e, k)
      PROVE  Lives'
  BY <1>4 DEF BeginLogin
<1>5. ASSUME NEW h \in Handler, NEW c \in Challenge, NEW k \in Code, BeginVerify(h, c, k)
      PROVE  Lives'
  BY <1>5 DEF BeginVerify
<1>6. ASSUME NEW h \in Handler, LookupUser(h) \/ FindUser(h) \/ FindOwner(h)
      PROVE  Lives'
  BY <1>6 DEF LookupUser, FindUser, FindOwner
<1>7. ASSUME NEW h \in Handler, NEW k \in Code, EmailCode(h, k)
      PROVE  Lives'
  <2>1. TypeOK'
    <3>1. [id |-> challenge[h], to |-> email[h], code |-> k] \in [id: Challenge, to: Email, code: Code]
      BY <1>7 DEF EmailCode
    <3> QED
      BY <1>7, <3>1 DEF EmailCode
  <2>2. BoxDiscipline'
    BY <1>7 DEF EmailCode
  <2>3. SendDiscipline'
    BY <1>7 DEF EmailCode
  <2>4. TakeDiscipline'
    BY <1>7 DEF EmailCode
  <2>5. (SingleUse /\ StoredWasEmailed /\ OwnerAlwaysFound)'
    BY <1>7 DEF EmailCode
  <2> QED
    BY <2>1, <2>2, <2>3, <2>4, <2>5
<1>8. ASSUME NEW h \in Handler, Invalidate(h)
      PROVE  Lives'
  <2>1. target' \in [Handler -> Challenge \cup {None}]
    BY <1>8 DEF Invalidate, Row
  <2> QED
    BY <1>8, <2>1 DEF Invalidate
<1>9. ASSUME NEW h \in Handler, Evict(h) \/ Save(h)
      PROVE  Lives'
  BY <1>9 DEF Evict, Save
<1>10. ASSUME NEW h \in Handler, SaveConflict(h)
       PROVE  Lives'
  BY <1>10, UnlockLemma DEF SaveConflict
<1>11. ASSUME NEW h \in Handler, CommitReplacement(h)
       PROVE  Lives'
  <2>1. /\ email[h] \in Email /\ challenge[h] \in Challenge /\ code[h] \in Code
        /\ pc' \in [Handler -> {"idle"} \cup Working \cup Answer]
        /\ pc'[h] \in {"done", "failed"}
        /\ \A g \in Handler \ {h} : pc'[g] = pc[g]
    <3>1. PICK answer \in {"done", "failed"} : pc' = [pc EXCEPT ![h] = answer]
      BY <1>11 DEF CommitReplacement, Acknowledge
    <3>2. email[h] \in Email /\ challenge[h] \in Challenge /\ code[h] \in Code
      BY <1>11 DEF CommitReplacement
    <3> QED
      BY <3>1, <3>2
  <2> DEFINE new == [id |-> challenge[h], code |-> code[h], attempts |-> 0,
                     expires |-> started[h] + Duration]
  <2>2. /\ new \in Row
        /\ new.id = challenge[h] /\ new.code = code[h]
    BY <2>1 DEF Row
  <2>3. otp' = [otp EXCEPT ![email[h]] = new]
    BY <1>11 DEF CommitReplacement
  <2> HIDE DEF new
  <2>4. TypeOK'
    BY <1>11, <2>1, <2>2, <2>3, UnlockLemma DEF CommitReplacement
  <2>5. BoxDiscipline'
    <3>1. UNCHANGED <<registered, drawn, used, challenge>>
      BY <1>11 DEF CommitReplacement
    <3>2. /\ email[h] \in registered
          /\ challenge[h] \in drawn /\ used[challenge[h]] = 0
          /\ \A g \in Handler \ {h} : pc[g] \in Sending => challenge[g] # challenge[h]
          /\ \A e \in Email : otp[e] # None => otp[e].id # challenge[h]
      BY <1>11, CommitterLemma DEF CommitReplacement
    <3>3. \A g \in Handler : pc'[g] \in Sending => g # h /\ pc[g] \in Sending
      BY <2>1
    <3>4. otp'[email[h]] = new /\ \A e \in Email \ {email[h]} : otp'[e] = otp[e]
      BY <2>1, <2>3
    <3> QED
      BY <2>2, <3>1, <3>2, <3>3, <3>4
  <2>6. SendDiscipline'
    BY <1>11, <2>1, <2>2, <2>3 DEF CommitReplacement
  <2>7. TakeDiscipline'
    BY <1>11, <2>1, <2>2, <2>3 DEF CommitReplacement
  <2>8. (SingleUse /\ StoredWasEmailed /\ OwnerAlwaysFound)'
    BY <1>11, <2>1, <2>2, <2>3 DEF CommitReplacement
  <2> QED
    BY <2>4, <2>5, <2>6, <2>7, <2>8
<1>12. ASSUME NEW h \in Handler, MatchLogin(h) \/ Check(h)
       PROVE  Lives'
  <2>1. /\ target' \in [Handler -> Challenge \cup {None}]
        /\ \A g \in Handler \ {h} : target'[g] = target[g]
    BY <1>12, LookLemma DEF MatchLogin, Check, Holders
  <2>2. CASE MatchLogin(h)
    <3>1. /\ pc[h] = "match" /\ pc' = [pc EXCEPT ![h] = "takeLogin"]
          /\ started' = [started EXCEPT ![h] = now]
          /\ UNCHANGED <<now, users, table, email, challenge, code, history>>
      BY <2>2 DEF MatchLogin
    <3>5. TypeOK'
      BY <2>1, <3>1
    <3>6. BoxDiscipline'
      BY <2>1, <3>1
    <3>7. SendDiscipline'
      BY <2>1, <3>1
    <3>8. TakeDiscipline'
      BY <2>1, <3>1
    <3>9. (SingleUse /\ StoredWasEmailed /\ OwnerAlwaysFound)'
      BY <2>1, <3>1
    <3> QED
      BY <3>5, <3>6, <3>7, <3>8, <3>9
  <2>3. CASE Check(h)
    <3> DEFINE wrong == {e \in Holders(challenge[h]) : /\ otp[e].expires > now
                                                    /\ otp[e].attempts < Limit
                                                    /\ otp[e].code # code[h]}
    <3>0. PICK label \in {"takeReset", "miss"} :
             /\ pc[h] = "check" /\ pc' = [pc EXCEPT ![h] = label]
             /\ started' = [started EXCEPT ![h] = now]
             /\ UNCHANGED <<now, users, table, email, challenge, code, drawn, emailed, used,
                            grants>>
             /\ \/ UNCHANGED <<guesses, guessing>>
                \/ /\ label = "miss" /\ wrong # {}
                   /\ guesses' = [guesses EXCEPT ![challenge[h]] = @ + 1]
                   /\ guessing' = guessing \cup {h}
      BY <2>3 DEF Check
    <3>1. CASE UNCHANGED <<guesses, guessing>>
      <4>5. TypeOK'
        BY <2>1, <3>0, <3>1
      <4>6. BoxDiscipline'
        BY <2>1, <3>0, <3>1
      <4>7. SendDiscipline'
        BY <2>1, <3>0, <3>1
      <4>8. TakeDiscipline'
        BY <2>1, <3>0, <3>1
      <4>9. (SingleUse /\ StoredWasEmailed /\ OwnerAlwaysFound)'
        BY <2>1, <3>0, <3>1
      <4> QED
        BY <4>5, <4>6, <4>7, <4>8, <4>9
    <3>2. CASE ~ UNCHANGED <<guesses, guessing>>
      <4>1. PICK e \in Email : otp[e] # None /\ otp[e].id = challenge[h]
        BY <3>0, <3>2 DEF Holders
      <4>2. /\ challenge[h] \in drawn
            /\ \A g \in Handler : pc[g] \in Sending => challenge[g] # challenge[h]
        BY <4>1
      <4> HIDE DEF wrong
      <4>5. TypeOK'
        BY <2>1, <3>0, <3>2, <4>2
      <4>6. BoxDiscipline'
        BY <2>1, <3>0, <3>2, <4>2
      <4>7. SendDiscipline'
        BY <2>1, <3>0, <3>2, <4>2
      <4>8. TakeDiscipline'
        BY <2>1, <3>0, <3>2, <4>2
      <4>9. (SingleUse /\ StoredWasEmailed /\ OwnerAlwaysFound)'
        BY <2>1, <3>0, <3>2, <4>2
      <4> QED
        BY <4>5, <4>6, <4>7, <4>8, <4>9
    <3> QED
      BY <3>1, <3>2
  <2> QED
    BY <1>12, <2>2, <2>3
<1>13. ASSUME NEW h \in Handler, TakeLogin(h) \/ TakeReset(h)
       PROVE  Lives'
  <2>1. PICK hit \in {"session", "owner"}, miss \in {"rejected", "miss"} :
          TakenOrMissed(h, hit, miss)
    BY <1>13, TakeEither
  <2>2. /\ pc[h] \in {"takeLogin", "takeReset"}
        /\ UNCHANGED <<now, registered, rowLock, inserted, challenge, code, started, target,
                       drawn, emailed, guesses, guessing, grants>>
    BY <1>13 DEF TakeLogin, TakeReset, Take
  <2>3. CASE UNCHANGED <<otp, used, email>> /\ pc' = [pc EXCEPT ![h] = miss]
    BY <2>2, <2>3
  <2>4. ASSUME NEW e \in Email, otp[e] # None, target[h] = otp[e].id,
               otp' = [otp EXCEPT ![e] = None], used' = [used EXCEPT ![target[h]] = 1],
               email' = [email EXCEPT ![h] = e], pc' = [pc EXCEPT ![h] = hit]
        PROVE  Lives'
    <3>1. target[h] \in Challenge /\ target[h] \in drawn
      BY <2>4 DEF Row
    <3> QED
      BY <2>2, <2>4, <3>1
  <2> QED
    BY <2>1, <2>3, <2>4 DEF TakenOrMissed
<1>14. ASSUME NEW h \in Handler, OpenSession(h) \/ SaveResetToken(h)
       PROVE  Lives'
  <2>1. PICK answer \in {"done", "failed"} : pc' = [pc EXCEPT ![h] = answer]
    BY <1>14 DEF OpenSession, SaveResetToken, Acknowledge
  <2>2. /\ pc[h] \in {"session", "token"}
        /\ grants' = [grants EXCEPT ![target[h]] = @ + 1]
        /\ UNCHANGED <<now, registered, otp, rowLock, inserted, email, challenge, code, started,
                       target, drawn, emailed, used, guesses, guessing>>
    BY <1>14 DEF OpenSession, SaveResetToken
  <2>3. target[h] \in Challenge /\ grants[target[h]] = 0 /\ used[target[h]] = 1
    BY <2>2
  <2>4. TypeOK'
    BY <2>1, <2>2, <2>3
  <2>5. BoxDiscipline'
    BY <2>1, <2>2, <2>3
  <2>6. SendDiscipline'
    BY <2>1, <2>2, <2>3
  <2>7. TakeDiscipline'
    BY <2>1, <2>2, <2>3
  <2>8. (SingleUse /\ StoredWasEmailed /\ OwnerAlwaysFound)'
    BY <2>1, <2>2, <2>3
  <2> QED
    BY <2>4, <2>5, <2>6, <2>7, <2>8
<1>15. ASSUME NEW h \in Handler, BeginCount(h)
       PROVE  Lives'
  BY <1>15 DEF BeginCount
<1>16. ASSUME NEW h \in Handler, IncreaseAttempts(h)
       PROVE  Lives'
  BY <1>16 DEF IncreaseAttempts, Holders, Counted, Row
<1>17. ASSUME NEW h \in Handler, Abort(h)
       PROVE  Lives'
  <2>1. CASE h \in guessing
    <3>1. guesses[challenge[h]] \in Nat \ {0} /\ challenge[h] \in Challenge
      BY <2>1, GuessWasMade DEF Budget, GuessDiscipline
    <3>2. guesses' = [guesses EXCEPT ![challenge[h]] = @ - 1]
      BY <1>17, <2>1 DEF Abort
    <3>3. guesses' \in [Challenge -> Nat]
      <4>1. guesses[challenge[h]] - 1 \in Nat
        BY <3>1
      <4>2. guesses \in [Challenge -> Nat]
        OBVIOUS
      <4> QED
        BY <3>2, <4>1, <4>2
    <3>5. TypeOK'
      BY <1>17, <3>3, UnlockLemma DEF Abort
    <3>6. BoxDiscipline'
      BY <1>17, <3>1, <3>2, UnlockLemma DEF Abort
    <3>7. SendDiscipline'
      BY <1>17, <3>1, <3>2, UnlockLemma DEF Abort
    <3>8. TakeDiscipline'
      BY <1>17, <3>1, <3>2, UnlockLemma DEF Abort
    <3>9. (SingleUse /\ StoredWasEmailed /\ OwnerAlwaysFound)'
      BY <1>17, <3>1, <3>2, UnlockLemma DEF Abort
    <3> QED
      BY <3>5, <3>6, <3>7, <3>8, <3>9
  <2>2. CASE h \notin guessing
    BY <1>17, <2>2, UnlockLemma DEF Abort
  <2> QED
    BY <2>1, <2>2
<1>18. ASSUME NEW h \in Handler, Return(h)
       PROVE  Lives'
  BY <1>18 DEF Return
<1>19. CASE UNCHANGED vars
  BY <1>19 DEF vars
<1> QED
  BY <1>1, <1>2, <1>3, <1>4, <1>5, <1>6, <1>7, <1>8, <1>9, <1>10, <1>11, <1>12, <1>13, <1>14,
     <1>15, <1>16, <1>17, <1>18, <1>19 DEF Next, Arrive, Proceed, TakeRow

-----------------------------------------------------------------------------
\* A step that compares and counts nothing, and stores at most an untried row.
Uncounted ==
  /\ now <= now' /\ now' \in Nat
  /\ UNCHANGED <<guesses, guessing>>
  /\ \A h \in guessing : pc'[h] \in {"miss", "count"} /\ challenge'[h] = challenge[h]
  /\ \A e \in Email : otp'[e] # None /\ otp'[e] # otp[e] =>
        guesses[otp'[e].id] = 0 /\ otp'[e].attempts = 0 /\ otp'[e].id \in Challenge

\* Such a step keeps the budget.
LEMMA UncountedLemma == CodesInv /\ Uncounted => Budget'
<1> SUFFICES ASSUME CodesInv, Uncounted PROVE Budget'
  OBVIOUS
<1>1. pending' = pending
  BY PendingSame DEF Uncounted
<1>2. pending \in [Challenge -> Nat]
  BY PendingType DEF CodesInv, Lives
<1>3. GuessDiscipline'
  BY <1>1 DEF CodesInv, Budget, GuessDiscipline, Uncounted
<1>4. ASSUME NEW e \in Email, otp'[e] # None, otp'[e].expires > now', otp'[e].attempts < Limit
      PROVE  guesses'[otp'[e].id] <= otp'[e].attempts + pending'[otp'[e].id]
  <2>1. CASE otp'[e] = otp[e]
    <3>1. otp[e].expires > now
      BY <1>4, <2>1 DEF Uncounted, CodesInv, Lives, TypeOK, Row
    <3> QED
      BY <1>1, <1>4, <2>1, <3>1 DEF CodesInv, Budget, LiveBudget, Uncounted
  <2>2. CASE otp'[e] # otp[e]
    BY <1>1, <1>2, <1>4, <2>2 DEF Uncounted
  <2> QED
    BY <2>1, <2>2
<1>5. \A c \in Challenge : guesses'[c] <= MaxAttempts + Cardinality(Handler) - 1
  BY DEF CodesInv, Budget, LiveBudget, Uncounted
<1> QED
  BY <1>3, <1>4, <1>5 DEF Budget, LiveBudget

\* A wrong code that is compared leaves one more to be counted.
LEMMA CheckBudget ==
  ASSUME CodesInv, NEW h \in Handler, Check(h), ~ UNCHANGED <<guesses, guessing>>
  PROVE  Budget'
<1> DEFINE c == challenge[h]
<1>1. PICK e \in Email : /\ otp[e] # None /\ otp[e].id = c
                         /\ otp[e].expires > now /\ otp[e].attempts < Limit
  BY DEF Check, Holders
<1>2. /\ guesses' = [guesses EXCEPT ![c] = @ + 1]
      /\ guessing' = guessing \cup {h}
      /\ pc[h] = "check" /\ pc' = [pc EXCEPT ![h] = "miss"]
      /\ UNCHANGED <<now, otp, challenge>>
  BY DEF Check, Goto, table
<1>3. c \in Challenge /\ h \notin guessing
  BY <1>1, <1>2 DEF CodesInv, Lives, Budget, GuessDiscipline, TypeOK, Row
<1>4. pending' = [pending EXCEPT ![c] = @ + 1] /\ pending \in [Challenge -> Nat]
  BY <1>2, <1>3, PendingGrows, PendingType DEF CodesInv, Lives
<1>5. pending[c] + 1 <= Cardinality(Handler) /\ Cardinality(Handler) \in Nat
  <2>1. Guessers(c) \cup {h} \in SUBSET Handler /\ h \notin Guessers(c)
    BY <1>3 DEF Guessers, CodesInv, Lives, TypeOK
  <2>2. Cardinality(Guessers(c) \cup {h}) <= Cardinality(Handler)
    BY <2>1, HandlersAreFinite, FS_Subset
  <2>3. Cardinality(Guessers(c) \cup {h}) = Cardinality(Guessers(c)) + 1
    BY <2>1, GuessersLemma, FS_AddElement DEF CodesInv, Lives
  <2> QED
    BY <1>3, <2>2, <2>3, HandlersAreFinite, FS_CardinalityType DEF pending
<1>6. guesses[c] <= otp[e].attempts + pending[c]
  BY <1>1 DEF CodesInv, Budget, LiveBudget
<1>7. guesses \in [Challenge -> Nat] /\ otp[e].attempts \in Nat
  BY <1>1 DEF CodesInv, Lives, TypeOK, Row
<1> HIDE DEF c
<1>8. /\ \A d \in Challenge : guesses[d] \in Nat /\ pending[d] \in Nat
      /\ guesses'[c] = guesses[c] + 1 /\ pending'[c] = pending[c] + 1
      /\ \A d \in Challenge : d # c => guesses'[d] = guesses[d] /\ pending'[d] = pending[d]
  BY <1>2, <1>3, <1>4, <1>7
<1>9. GuessDiscipline'
  <2>1. \A g \in guessing' : pc'[g] \in {"miss", "count"} /\ challenge'[g] \in Challenge
    BY <1>2, <1>3 DEF CodesInv, Lives, TypeOK, Budget, GuessDiscipline, c
  <2>2. \A d \in Challenge : pending'[d] <= guesses'[d]
    <3> SUFFICES ASSUME NEW d \in Challenge PROVE pending'[d] <= guesses'[d]
      OBVIOUS
    <3>1. pending[d] <= guesses[d]
      BY DEF CodesInv, Budget, GuessDiscipline
    <3> QED
      BY <1>8, <3>1
  <2> QED
    BY <2>1, <2>2 DEF GuessDiscipline
<1>10. ASSUME NEW f \in Email, otp[f] # None, otp[f].expires > now, otp[f].attempts < Limit
       PROVE  guesses'[otp[f].id] <= otp[f].attempts + pending'[otp[f].id]
  <2>1. /\ guesses[otp[f].id] <= otp[f].attempts + pending[otp[f].id]
        /\ otp[f].id \in Challenge /\ otp[f].attempts \in Nat
    BY <1>10 DEF CodesInv, Lives, TypeOK, Row, Budget, LiveBudget
  <2>2. CASE otp[f].id = c
    BY <1>8, <2>1, <2>2
  <2>3. CASE otp[f].id # c
    BY <1>8, <2>1, <2>3
  <2> QED
    BY <2>2, <2>3
<1>11. \A d \in Challenge : guesses'[d] <= MaxAttempts + Cardinality(Handler) - 1
  <2>1. guesses'[c] <= MaxAttempts + Cardinality(Handler) - 1
    <3>1. otp[e].attempts <= MaxAttempts - 1
      BY <1>1, <1>7, LimitLemma, MaxAttemptsIsPositive
    <3>2. guesses[c] \in Nat /\ pending[c] \in Nat
      BY <1>3, <1>8
    <3> QED
      BY <1>5, <1>6, <1>7, <1>8, <3>1, <3>2, MaxAttemptsIsPositive
  <2> QED
    BY <1>8, <2>1 DEF CodesInv, Budget, LiveBudget
<1> QED
  BY <1>2, <1>9, <1>10, <1>11 DEF Budget, LiveBudget

\* An attempt is counted: one attempt more, and at most one guess less to count.
LEMMA CountBudget ==
  ASSUME CodesInv, NEW h \in Handler, IncreaseAttempts(h)
  PROVE  Budget'
<1> DEFINE c == challenge[h]
           hit(f) == f \in Holders(c) /\ otp[f].expires > started[h] /\ otp[f].attempts < Limit
<1>1. /\ guessing' = guessing \ {h} /\ pc' = [pc EXCEPT ![h] = "rejected"]
      /\ UNCHANGED <<now, challenge, guesses>>
      /\ \A f \in Email : otp'[f] = IF hit(f) THEN Counted(otp[f]) ELSE otp[f]
  BY DEF IncreaseAttempts, Goto, locals
<1>2. pending \in [Challenge -> Nat] /\ guesses \in [Challenge -> Nat]
  BY PendingType DEF CodesInv, Lives, TypeOK
<1>3. \A d \in Challenge : /\ pending'[d] \in Nat
                           /\ pending'[d] \in {pending[d], pending[d] - 1}
                           /\ d # c => pending'[d] = pending[d]
  <2>1. CASE h \in guessing
    <3>1. c \in Challenge /\ pending[c] \in Nat \ {0}
      BY <2>1, GuessWasMade DEF CodesInv, Budget, GuessDiscipline
    <3>2. pending' = [pending EXCEPT ![c] = @ - 1]
      BY <1>1, <2>1, <3>1, PendingShrinks DEF CodesInv, Lives
    <3> HIDE DEF c
    <3> QED
      BY <1>2, <3>1, <3>2
  <2>2. CASE h \notin guessing
    <3>1. pending' = pending
      BY <1>1, <2>2, PendingSame
    <3> QED
      BY <1>2, <3>1
  <2> QED
    BY <2>1, <2>2
<1>4. GuessDiscipline'
  <2>1. \A g \in guessing' : pc'[g] \in {"miss", "count"} /\ challenge'[g] \in Challenge
    BY <1>1 DEF CodesInv, Lives, TypeOK, Budget, GuessDiscipline
  <2>2. ASSUME NEW d \in Challenge PROVE pending'[d] <= guesses'[d]
    <3>1. pending[d] <= guesses[d] /\ pending[d] \in Nat /\ guesses[d] \in Nat
      BY <1>2 DEF CodesInv, Budget, GuessDiscipline
    <3> QED
      BY <1>1, <1>3, <3>1
  <2> QED
    BY <2>1, <2>2 DEF GuessDiscipline
<1>5. ASSUME NEW f \in Email, otp'[f] # None, otp'[f].expires > now, otp'[f].attempts < Limit
      PROVE  guesses[otp'[f].id] <= otp'[f].attempts + pending'[otp'[f].id]
  <2>1. otp[f] \in Row /\ otp[f] # None
    BY <1>1, <1>5, OtpNoneIsNoRow DEF Holders, CodesInv, Lives, TypeOK
  <2>2. otp[f].id \in Challenge /\ otp[f].attempts \in Nat /\ otp[f].expires \in Nat
    BY <2>1 DEF Row
  <2>3. pending[otp[f].id] \in Nat /\ guesses[otp[f].id] \in Nat
    BY <1>2, <2>2
  <2>4. CASE hit(f)
    <3>1. /\ otp'[f].id = otp[f].id /\ otp'[f].expires = otp[f].expires
          /\ otp'[f].attempts = otp[f].attempts + 1
      <4>1. otp'[f] = Counted(otp[f])
        BY <1>1, <2>4
      <4> QED
        BY <4>1, <2>2 DEF Counted
    <3>2. guesses[otp[f].id] <= otp[f].attempts + pending[otp[f].id]
      BY <1>5, <2>1, <2>2, <2>4, <3>1 DEF CodesInv, Budget, LiveBudget
    <3> QED
      BY <1>3, <2>2, <2>3, <3>1, <3>2
  <2>5. CASE ~ hit(f)
    <3>1. otp'[f] = otp[f]
      BY <1>1, <2>5
    <3>2. guesses[otp[f].id] <= otp[f].attempts + pending[otp[f].id]
      BY <1>5, <2>1, <3>1 DEF CodesInv, Budget, LiveBudget
    <3>3. otp[f].id # c
      <4>1. started[h] <= now /\ started[h] \in Nat /\ now \in Nat
        BY OtpTimeIsBounded DEF CodesInv, Lives, TypeOK, TakeDiscipline
      <4> QED
        BY <1>5, <2>1, <2>2, <2>5, <3>1, <4>1 DEF Holders
    <3> QED
      BY <1>3, <2>2, <3>1, <3>2, <3>3
  <2> QED
    BY <2>4, <2>5
<1> QED
  BY <1>1, <1>4, <1>5 DEF CodesInv, Budget, LiveBudget

\* A handler that gives up takes its guess back.
LEMMA AbortBudget ==
  ASSUME CodesInv, NEW h \in Handler, Abort(h), h \in guessing
  PROVE  Budget'
<1> DEFINE c == challenge[h]
<1>1. /\ guesses' = [guesses EXCEPT ![c] = @ - 1] /\ guessing' = guessing \ {h}
      /\ pc' = [pc EXCEPT ![h] = "failed"] /\ UNCHANGED <<now, otp, challenge>>
  BY DEF Abort, Goto, locals
<1>2. c \in Challenge
  BY DEF CodesInv, Budget, GuessDiscipline
<1>3. /\ pending' = [pending EXCEPT ![c] = @ - 1] /\ pending \in [Challenge -> Nat]
      /\ pending[c] \in Nat \ {0} /\ guesses[c] \in Nat \ {0}
      /\ guesses \in [Challenge -> Nat]
  BY <1>1, <1>2, PendingShrinks, PendingType, GuessWasMade DEF CodesInv, Lives, TypeOK
<1> HIDE DEF c
<1>4. /\ guesses'[c] = guesses[c] - 1 /\ \A d \in Challenge \ {c} : guesses'[d] = guesses[d]
      /\ pending'[c] = pending[c] - 1 /\ \A d \in Challenge \ {c} : pending'[d] = pending[d]
  BY <1>1, <1>2, <1>3
<1>5. GuessDiscipline'
  <2>1. \A g \in guessing' : pc'[g] \in {"miss", "count"} /\ challenge'[g] \in Challenge
    BY <1>1 DEF CodesInv, Lives, TypeOK, Budget, GuessDiscipline
  <2>2. \A d \in Challenge : pending'[d] <= guesses'[d]
    BY <1>2, <1>3, <1>4 DEF CodesInv, Budget, GuessDiscipline
  <2> QED
    BY <2>1, <2>2 DEF GuessDiscipline
<1>6. ASSUME NEW f \in Email, otp[f] # None, otp[f].expires > now, otp[f].attempts < Limit
      PROVE  guesses'[otp[f].id] <= otp[f].attempts + pending'[otp[f].id]
  <2>1. /\ guesses[otp[f].id] <= otp[f].attempts + pending[otp[f].id]
        /\ otp[f].id \in Challenge /\ otp[f].attempts \in Nat
    BY <1>6 DEF CodesInv, Lives, TypeOK, Row, Budget, LiveBudget
  <2> QED
    BY <1>3, <1>4, <2>1
<1>7. \A d \in Challenge : guesses'[d] <= MaxAttempts + Cardinality(Handler) - 1
  <2>1. Cardinality(Handler) \in Nat
    BY HandlersAreFinite, FS_CardinalityType
  <2> QED
    BY <1>2, <1>3, <1>4, <2>1, MaxAttemptsIsPositive DEF CodesInv, Budget, LiveBudget
<1> QED
  BY <1>1, <1>5, <1>6, <1>7 DEF Budget, LiveBudget

\* Every step keeps the budget.
LEMMA BudgetStep == CodesInv /\ [Next]_vars => Budget'
<1> SUFFICES ASSUME CodesInv, [Next]_vars PROVE Budget'
  OBVIOUS
<1>1. Uncounted => Budget'
  BY UncountedLemma
<1> USE DEF Uncounted, Goto, users, table, locals, history
<1>0. /\ now \in Nat /\ \A h \in guessing : h \in Handler /\ pc[h] \in {"miss", "count"}
      /\ pc \in [Handler -> {"idle"} \cup Working \cup Answer]
      /\ challenge \in [Handler -> Challenge \cup {None}]
      /\ otp \in [Email -> Row \cup {None}]
  BY DEF CodesInv, Lives, TypeOK, Budget, GuessDiscipline
<1>2. ASSUME NEW h \in Handler, Check(h)
      PROVE  Budget'
  <2>1. CASE UNCHANGED <<guesses, guessing>>
    BY <1>0, <1>1, <1>2, <2>1 DEF Check
  <2>2. CASE ~ UNCHANGED <<guesses, guessing>>
    BY <1>2, <2>2, CheckBudget
  <2> QED
    BY <2>1, <2>2
<1>3. ASSUME NEW h \in Handler, IncreaseAttempts(h)
      PROVE  Budget'
  BY <1>3, CountBudget
<1>4. ASSUME NEW h \in Handler, Abort(h)
      PROVE  Budget'
  <2>1. CASE h \in guessing
    BY <1>4, <2>1, AbortBudget
  <2>2. CASE h \notin guessing
    BY <1>0, <1>1, <1>4, <2>2 DEF Abort
  <2> QED
    BY <2>1, <2>2
<1>5. ASSUME NEW h \in Handler, CommitReplacement(h)
      PROVE  Budget'
  <2>1. /\ guesses[challenge[h]] = 0 /\ challenge[h] \in Challenge /\ email[h] \in Email
    BY <1>5 DEF CommitReplacement, CodesInv, Lives, SendDiscipline, Sending, TypeOK
  <2> QED
    BY <1>0, <1>1, <1>5, <2>1 DEF CommitReplacement, Acknowledge
<1>6. ASSUME NEW h \in Handler, TakeLogin(h) \/ TakeReset(h)
      PROVE  Budget'
  <2>1. PICK hit, miss : TakenOrMissed(h, hit, miss)
    BY <1>6, TakeEither DEF CodesInv
  <2> QED
    BY <1>0, <1>1, <1>6, <2>1 DEF TakenOrMissed, TakeLogin, TakeReset, Take
<1>7. ASSUME NEW h \in Handler, Arrive(h)
      PROVE  Budget'
  BY <1>0, <1>1, <1>7 DEF Arrive, BeginSend, BeginLogin, BeginVerify
<1>8. CASE Tick \/ (\E e \in Email : Register(e)) \/ UNCHANGED vars
  BY <1>0, <1>1, <1>8 DEF Tick, Register, vars
<1>9. ASSUME NEW h \in Handler,
             LookupUser(h) \/ (\E k \in Code : EmailCode(h, k)) \/ Invalidate(h) \/ Evict(h)
      PROVE  Budget'
  BY <1>0, <1>1, <1>9 DEF LookupUser, EmailCode, Invalidate, Evict
<1>10. ASSUME NEW h \in Handler, Save(h) \/ SaveConflict(h) \/ FindUser(h) \/ MatchLogin(h)
       PROVE  Budget'
  BY <1>0, <1>1, <1>10 DEF Save, SaveConflict, FindUser, MatchLogin
<1>11. ASSUME NEW h \in Handler,
              OpenSession(h) \/ BeginCount(h) \/ FindOwner(h) \/ SaveResetToken(h) \/ Return(h)
       PROVE  Budget'
  BY <1>0, <1>1, <1>11 DEF OpenSession, BeginCount, FindOwner, SaveResetToken, Return, Acknowledge,
     Answer
<1> QED
  BY <1>2, <1>3, <1>4, <1>5, <1>6, <1>7, <1>8, <1>9, <1>10, <1>11 DEF Next, Proceed, TakeRow

-----------------------------------------------------------------------------
\* The inductive invariant holds in every reachable state.
THEOREM CodesInvariance == Spec => []CodesInv
<1>1. CodesInv /\ [Next]_vars => CodesInv'
  BY LivesStep, BudgetStep DEF CodesInv
<1> QED
  BY InitCodesInv, <1>1, PTL DEF Spec

\* The variables of OtpChallenges keep their types; in particular the column
\* attempts never exceeds the limit.
THEOREM CodesTypeCorrect == Spec => []TypeOK
<1>1. CodesInv => TypeOK
  BY DEF CodesInv, Lives
<1> QED
  BY CodesInvariance, <1>1, PTL

\* However many requests carry the code of a challenge, by login or by reset, at
\* most one of them consumes it.
THEOREM ConsumedOnce == Spec => []SingleUse
<1>1. CodesInv => SingleUse
  BY DEF CodesInv, Lives
<1> QED
  BY CodesInvariance, <1>1, PTL

\* Whatever int16 makes of the limit and however many requests guess at once,
\* the wrong codes compared on the reset path exceed it by fewer than there are handlers.
THEOREM GuessesAreBounded == Spec => []GuessBudget
<1>1. CodesInv => GuessBudget
  <2> SUFFICES ASSUME CodesInv PROVE GuessBudget
    OBVIOUS
  <2>1. ASSUME NEW e \in Email, otp[e] # None
        PROVE  pending[otp[e].id] = Cardinality({h \in guessing : challenge[h] = otp[e].id})
    <3>1. otp[e].id \in Challenge
      BY <2>1 DEF CodesInv, Lives, TypeOK, Row
    <3> QED
      BY <3>1 DEF pending, Guessers
  <2> QED
    BY <2>1 DEF CodesInv, Budget, LiveBudget, GuessBudget
<1> QED
  BY CodesInvariance, <1>1, PTL

\* No code is in the table that was not e-mailed to its address.
THEOREM StoredIsEmailed == Spec => []StoredWasEmailed
<1>1. CodesInv => StoredWasEmailed
  BY DEF CodesInv, Lives
<1> QED
  BY CodesInvariance, <1>1, PTL

\* The PermissionDenied branch of VerifyPasswordResetCode is dead code.
THEOREM OwnersAreFound == Spec => []OwnerAlwaysFound
<1>1. CodesInv => OwnerAlwaysFound
  BY DEF CodesInv, Lives
<1> QED
  BY CodesInvariance, <1>1, PTL

-----------------------------------------------------------------------------
\* The DELETE ... RETURNING of a request that gets a row gets one whose code it
\* gave, and goes on with the address in it.
LEMMA TakeMails ==
  ASSUME Lives, NEW h \in Handler, TakeLogin(h) \/ TakeReset(h), pc'[h] \in Granting
  PROVE  [id |-> target'[h], to |-> email'[h], code |-> code'[h]] \in emailed'
<1>1. PICK there \in SUBSET Holders(target[h]) :
         /\ \A e \in there : otp[e].code = code[h]
         /\ \E hit \in {"session", "owner"}, miss \in {"rejected", "miss"} : Take(h, there, hit, miss)
  BY DEF TakeLogin, TakeReset
<1>2. there # {}
  BY <1>1 DEF Take, Goto, Granting, Lives, TypeOK
<1>3. PICK e \in there : e = CHOOSE f \in there : TRUE
  BY <1>2
<1>4. email'[h] = e /\ UNCHANGED <<target, code, emailed>>
  BY <1>1, <1>2, <1>3 DEF Take, Lives, TypeOK
<1>5. e \in Email /\ otp[e] # None /\ otp[e].id = target[h] /\ otp[e].code = code[h]
  BY <1>1 DEF Holders
<1> QED
  BY <1>4, <1>5 DEF Lives, StoredWasEmailed

\* Whoever is about to be granted something keeps what was granted.
LEMMA GrantedStep == CodesInv /\ GrantedWasEmailed /\ [Next]_vars => GrantedWasEmailed'
<1> SUFFICES ASSUME CodesInv, GrantedWasEmailed, [Next]_vars,
                    NEW h \in Handler, pc'[h] \in Granting
             PROVE  [id |-> target'[h], to |-> email'[h], code |-> code'[h]] \in emailed'
  BY DEF GrantedWasEmailed, Granting
<1>1. TypeOK /\ Lives
  BY DEF CodesInv, Lives
<1>3. CASE TakeLogin(h) \/ TakeReset(h)
  BY <1>1, <1>3, TakeMails
<1>4. ASSUME NEW g \in Handler \ {h}, TakeLogin(g) \/ TakeReset(g)
      PROVE  pc[h] \in Granting /\ UNCHANGED <<target[h], email[h], code[h], emailed>>
  BY <1>1, <1>4 DEF TakeLogin, TakeReset, Take, Goto, TypeOK
<1>5. ASSUME NEW g \in Handler, MatchLogin(g) \/ Check(g)
      PROVE  pc[h] \in Granting /\ UNCHANGED <<target[h], email[h], code[h], emailed>>
  BY <1>1, <1>5 DEF MatchLogin, Check, Look, Goto, TypeOK, Granting, history
<1>2. ASSUME NEW g \in Handler, Arrive(g)
      PROVE  pc[h] \in Granting /\ UNCHANGED <<target[h], email[h], code[h], emailed>>
  BY <1>1, <1>2 DEF Arrive, BeginSend, BeginLogin, BeginVerify, Goto, TypeOK, Granting, history
<1>6. ASSUME NEW g \in Handler, NEW k \in Code, EmailCode(g, k)
      PROVE  pc[h] \in Granting /\ UNCHANGED <<target[h], email[h], code[h]>> /\ emailed \subseteq emailed'
  BY <1>1, <1>6 DEF EmailCode, Goto, TypeOK, Granting
<1>7. ASSUME NEW g \in Handler,
             \/ LookupUser(g) \/ Invalidate(g) \/ CommitReplacement(g) \/ FindUser(g) \/ OpenSession(g)
             \/ BeginCount(g) \/ FindOwner(g) \/ SaveResetToken(g)
      PROVE  pc[h] \in Granting /\ UNCHANGED <<target[h], email[h], code[h], emailed>>
  BY <1>1, <1>7
  DEF LookupUser, Invalidate, CommitReplacement, FindUser, OpenSession, BeginCount, FindOwner,
      SaveResetToken, Goto, Acknowledge, TypeOK, Granting, locals, history
<1>8. ASSUME NEW g \in Handler,
             Return(g) \/ Evict(g) \/ Save(g) \/ SaveConflict(g) \/ IncreaseAttempts(g) \/ Abort(g)
      PROVE  pc[h] \in Granting /\ UNCHANGED <<target[h], email[h], code[h], emailed>>
  BY <1>1, <1>8
  DEF Return, Evict, Save, SaveConflict, IncreaseAttempts, Abort, Goto, TypeOK, Granting, locals, history
<1>9. CASE UNCHANGED <<pc, locals, emailed>>
  BY <1>9 DEF locals, GrantedWasEmailed, Granting
<1>10. ASSUME pc[h] \in Granting, UNCHANGED <<target[h], email[h], code[h]>>, emailed \subseteq emailed'
       PROVE  [id |-> target'[h], to |-> email'[h], code |-> code'[h]] \in emailed'
  BY <1>10 DEF GrantedWasEmailed, Granting
<1>11. CASE Tick \/ (\E e \in Email : Register(e)) \/ UNCHANGED vars
  BY <1>9, <1>11 DEF Tick, Register, vars, history
<1>12. ASSUME NEW g \in Handler, Arrive(g) \/ Proceed(g) \/ TakeRow(g) \/ Abort(g)
       PROVE  [id |-> target'[h], to |-> email'[h], code |-> code'[h]] \in emailed'
  BY <1>2, <1>3, <1>4, <1>5, <1>6, <1>7, <1>8, <1>10, <1>12 DEF Proceed, TakeRow
<1> QED
  BY <1>11, <1>12 DEF Next

\* A session or a reset token goes to the user to whose address the code that
\* the request gave was sent.
THEOREM GrantsFollowTheMail == Spec => []GrantedWasEmailed
<1>1. Init => GrantedWasEmailed
  BY DEF Init, GrantedWasEmailed
<1> QED
  BY CodesInvariance, GrantedStep, <1>1, PTL DEF Spec

-----------------------------------------------------------------------------
\* Every step keeps the locks where LockDiscipline says.
LEMMA LockStep == CodesInv /\ LockDiscipline /\ [Next]_vars => LockDiscipline'
<1> SUFFICES ASSUME CodesInv, LockDiscipline, [Next]_vars PROVE LockDiscipline'
  OBVIOUS
<1> USE OtpNoneIsNothing
<1>1. TypeOK /\ SendDiscipline /\ Lives
  BY DEF CodesInv, Lives
<1>0. ASSUME NEW h \in Handler, NEW label, Goto(h, label)
      PROVE  pc'[h] = label /\ \A g \in Handler \ {h} : pc'[g] = pc[g]
  BY <1>0, <1>1 DEF Goto, TypeOK
<1>2. ASSUME NEW h \in Handler, Evict(h)
      PROVE  LockDiscipline'
  <2>1. email[h] \in Email
    BY <1>1, <1>2 DEF Evict, SendDiscipline, Sending
  <2>2. /\ pc[h] = "evict" /\ pc'[h] = "insert" /\ \A g \in Handler \ {h} : pc'[g] = pc[g]
        /\ UNCHANGED <<otp, inserted, email>>
        /\ \/ UNCHANGED rowLock
           \/ /\ rowLock[email[h]] = None /\ otp[email[h]] # None
              /\ rowLock' = [rowLock EXCEPT ![email[h]] = h]
    BY <1>0, <1>2 DEF Evict, Holders, locals
  <2> QED
    BY <1>1, <2>1, <2>2 DEF LockDiscipline, TypeOK
<1>3. ASSUME NEW h \in Handler, Save(h)
      PROVE  LockDiscipline'
  <2>1. email[h] \in Email
    BY <1>1, <1>3 DEF Save, SendDiscipline, Sending
  <2>2. /\ pc[h] = "insert" /\ pc'[h] = "commit" /\ \A g \in Handler \ {h} : pc'[g] = pc[g]
        /\ UNCHANGED <<otp, rowLock, email>>
        /\ inserted[email[h]] \in {None, h}
        /\ otp[email[h]] = None \/ rowLock[email[h]] = h
        /\ inserted' = [inserted EXCEPT ![email[h]] = h]
    BY <1>0, <1>3 DEF Save, Undisputed, locals
  <2> QED
    BY <1>1, <2>1, <2>2 DEF LockDiscipline, TypeOK
<1>4. ASSUME NEW h \in Handler, CommitReplacement(h) \/ SaveConflict(h) \/ Abort(h)
      PROVE  LockDiscipline'
  <2>1. /\ pc'[h] \in {"done", "failed"} /\ \A g \in Handler \ {h} : pc'[g] = pc[g]
        /\ email' = email
        /\ \A e \in Email : /\ rowLock'[e] = IF rowLock[e] = h THEN None ELSE rowLock[e]
                           /\ inserted'[e] = IF inserted[e] = h THEN None ELSE inserted[e]
    BY <1>0, <1>4 DEF CommitReplacement, SaveConflict, Abort, Unlock, Acknowledge, locals
  <2>2. \/ otp' = otp
        \/ /\ pc[h] = "commit" /\ email[h] \in Email
           /\ \A e \in Email : e # email[h] => otp'[e] = otp[e]
    BY <1>1, <1>4 DEF CommitReplacement, SaveConflict, Abort, SendDiscipline, Sending, TypeOK
  <2>3. \A e \in Email : rowLock'[e] # None \/ inserted'[e] # None => otp'[e] = otp[e]
    <3>1. CASE otp' = otp
      BY <3>1
    <3>2. CASE pc[h] = "commit"
      <4>0. email[h] \in Email
        BY <1>1, <3>2 DEF SendDiscipline, Sending
      <4>1. inserted[email[h]] = h /\ h # None
        BY <3>2 DEF LockDiscipline
      <4>2. rowLock[email[h]] \in {None, h}
        BY <4>0, <4>1 DEF LockDiscipline
      <4> QED
        BY <2>1, <2>2, <4>1, <4>2
    <3> QED
      BY <2>2, <3>1, <3>2
  <2>4. \A g \in Handler : pc[g] = "commit" => email[g] \in Email
    BY <1>1 DEF SendDiscipline, Sending
  <2>5. \A e \in Email : rowLock'[e] # None => rowLock[e] # h /\ rowLock'[e] = rowLock[e] /\ rowLock[e] \in Handler
    BY <1>1, <2>1 DEF TypeOK
  <2>6. \A e \in Email : inserted'[e] # None => /\ inserted[e] # h /\ inserted'[e] = inserted[e]
                                             /\ inserted[e] \in Handler
    BY <1>1, <2>1 DEF TypeOK
  <2>7. \A e \in Email : rowLock'[e] # None =>
          pc'[rowLock'[e]] \in {"insert", "commit"} /\ email'[rowLock'[e]] = e /\ otp'[e] # None
    BY <2>1, <2>3, <2>5 DEF LockDiscipline
  <2>8. \A e \in Email : inserted'[e] # None =>
          /\ pc'[inserted'[e]] = "commit" /\ email'[inserted'[e]] = e
          /\ otp'[e] = None \/ rowLock'[e] = inserted'[e]
    BY <2>1, <2>3, <2>6 DEF LockDiscipline
  <2>9. \A g \in Handler : pc'[g] = "commit" => inserted'[email'[g]] = g
    BY <2>1, <2>4 DEF LockDiscipline
  <2> QED
    BY <2>7, <2>8, <2>9 DEF LockDiscipline
<1>6. ASSUME NEW h \in Handler, TakeLogin(h) \/ TakeReset(h)
      PROVE  LockDiscipline'
  <2>1. PICK there \in SUBSET Holders(target[h]), hit \in {"session", "owner"}, miss \in {"rejected", "miss"} :
           Take(h, there, hit, miss)
    BY <1>6 DEF TakeLogin, TakeReset
  <2>2. pc[h] \in {"takeLogin", "takeReset"}
    BY <1>6 DEF TakeLogin, TakeReset
  <2>3. /\ \A g \in Handler : pc'[g] = pc[g] \/ (g = h /\ pc'[h] \in {hit, miss})
        /\ \A g \in Handler \ {h} : email'[g] = email[g]
        /\ UNCHANGED <<rowLock, inserted>>
        /\ \A e \in Email : otp'[e] = IF e \in there THEN None ELSE otp[e]
        /\ \A e \in there : rowLock[e] = None
    BY <1>1, <2>1 DEF Take, Goto, TypeOK
  <2> QED
    BY <1>1, <2>2, <2>3 DEF LockDiscipline, TypeOK
<1>7. ASSUME NEW h \in Handler, IncreaseAttempts(h)
      PROVE  LockDiscipline'
  <2>1. /\ \A e \in Email : otp'[e] = None <=> otp[e] = None
        /\ pc[h] = "count" /\ pc' = [pc EXCEPT ![h] = "rejected"]
        /\ UNCHANGED <<rowLock, inserted, email>>
    <3>1. \A e \in Holders(challenge[h]) : otp[e].attempts < Limit => Counted(otp[e]) \in Row
      BY <1>1, LimitLemma, MaxAttemptsIsPositive DEF TypeOK, Holders, Counted, Row
    <3>2. PICK counted \in SUBSET Holders(challenge[h]) :
             /\ \A e \in counted : otp[e].attempts < Limit
             /\ otp' = [e \in Email |-> IF e \in counted THEN Counted(otp[e]) ELSE otp[e]]
      BY <1>7 DEF IncreaseAttempts
    <3>3. \A e \in counted : otp[e] # None /\ Counted(otp[e]) \in Row
      BY <3>1, <3>2 DEF Holders
    <3>4. \A e \in Email : otp'[e] = IF e \in counted THEN Counted(otp[e]) ELSE otp[e]
      BY <3>2
    <3>5. \A e \in Email : otp'[e] = otp[e] \/ (otp[e] # None /\ otp'[e] \in Row)
      BY <3>3, <3>4
    <3> QED
      BY <1>7, <3>5, OtpNoneIsNoRow DEF IncreaseAttempts, Goto, locals
  <2> QED
    BY <1>1, <2>1 DEF LockDiscipline, TypeOK
<1>8. ASSUME NEW h \in Handler, \A g \in Handler \ {h} : pc'[g] = pc[g] /\ email'[g] = email[g],
             pc[h] \notin {"insert", "commit"}, pc'[h] \notin {"insert", "commit"},
             UNCHANGED <<rowLock, inserted, otp>>
      PROVE  LockDiscipline'
  BY <1>1, <1>8 DEF LockDiscipline, TypeOK
<1>9. ASSUME NEW h \in Handler, Arrive(h) \/ Return(h)
      PROVE  LockDiscipline'
  <2>1. /\ pc[h] \in {"idle"} \cup Answer
        /\ \E label \in {"lookup", "find", "check", "idle"} : Goto(h, label)
        /\ \A g \in Handler \ {h} : email'[g] = email[g]
        /\ UNCHANGED <<rowLock, inserted, otp>>
    BY <1>1, <1>9 DEF Arrive, BeginSend, BeginLogin, BeginVerify, Return, table, TypeOK
  <2> QED
    BY <1>0, <1>8, <2>1 DEF Answer
<1>10. ASSUME NEW h \in Handler,
              \/ LookupUser(h) \/ (\E k \in Code : EmailCode(h, k)) \/ Invalidate(h) \/ FindUser(h)
              \/ MatchLogin(h) \/ OpenSession(h) \/ Check(h) \/ BeginCount(h) \/ FindOwner(h)
              \/ SaveResetToken(h)
       PROVE  LockDiscipline'
  <2>1. /\ pc[h] \notin {"insert", "commit"}
        /\ \E label \in {"email", "done", "failed", "invalidate", "evict", "match", "rejected",
                         "takeLogin", "takeReset", "miss", "count", "token", "denied"} : Goto(h, label)
        /\ UNCHANGED <<rowLock, inserted, otp, email>>
    BY <1>10
    DEF LookupUser, EmailCode, Invalidate, FindUser, MatchLogin, OpenSession, Check, BeginCount, FindOwner,
        SaveResetToken, Acknowledge, table, locals
  <2> QED
    BY <1>0, <1>8, <2>1
<1>11. CASE Tick \/ (\E e \in Email : Register(e)) \/ UNCHANGED vars
  BY <1>11 DEF Tick, Register, vars, table, locals, LockDiscipline
<1>12. ASSUME NEW h \in Handler, Arrive(h) \/ Proceed(h) \/ TakeRow(h) \/ Abort(h)
       PROVE  LockDiscipline'
  BY <1>2, <1>3, <1>4, <1>6, <1>7, <1>9, <1>10, <1>12 DEF Proceed, TakeRow
<1> QED
  BY <1>11, <1>12 DEF Next

\* Who has deleted or inserted a row is where LockDiscipline says.
THEOREM LocksAreHeld == Spec => []LockDiscipline
<1>1. Init => LockDiscipline
  BY OtpNoneIsNothing DEF Init, LockDiscipline
<1> QED
  BY CodesInvariance, LockStep, <1>1, PTL DEF Spec

\* A code is only ever replaced by a SendCode whose own DELETE took it.
THEOREM ReplacesWhatItDeleted == Spec => OnlyDeletedIsReplaced
<1> DEFINE Kept == \A e \in Email : otp[e] # None /\ otp'[e] # None /\ otp'[e].id # otp[e].id =>
                       rowLock[e] # None /\ rowLock[e] = inserted[e]
<1>1. ASSUME CodesInv, LockDiscipline, [Next]_vars PROVE Kept
  <2>1. TypeOK /\ SendDiscipline
    BY <1>1 DEF CodesInv, Lives
  <2>2. ASSUME NEW h \in Handler, CommitReplacement(h) PROVE Kept
    <3>1. email[h] \in Email /\ inserted[email[h]] = h /\ h # None
      BY <1>1, <2>1, <2>2, OtpNoneIsNothing DEF CommitReplacement, SendDiscipline, Sending, LockDiscipline
    <3> QED
      BY <1>1, <2>1, <2>2, <3>1 DEF CommitReplacement, LockDiscipline, TypeOK
  <2>3. ASSUME NEW h \in Handler, IncreaseAttempts(h) PROVE Kept
    BY <2>1, <2>3 DEF IncreaseAttempts, Counted, Holders, TypeOK
  <2>4. ASSUME NEW h \in Handler, TakeLogin(h) \/ TakeReset(h) PROVE Kept
    BY <2>1, <2>4 DEF TakeLogin, TakeReset, Take, TypeOK
  <2>5. ASSUME NEW h \in Handler,
               \/ Arrive(h) \/ Return(h) \/ LookupUser(h) \/ (\E k \in Code : EmailCode(h, k)) \/ Invalidate(h)
               \/ FindUser(h) \/ MatchLogin(h) \/ OpenSession(h) \/ Check(h) \/ BeginCount(h) \/ FindOwner(h)
               \/ SaveResetToken(h) \/ Evict(h) \/ Save(h) \/ SaveConflict(h) \/ Abort(h)
        PROVE  UNCHANGED otp
    BY <2>5
    DEF Arrive, BeginSend, BeginLogin, BeginVerify, Return, LookupUser, EmailCode, Invalidate, FindUser,
        MatchLogin, OpenSession, Check, BeginCount, FindOwner, SaveResetToken, Evict, Save, SaveConflict,
        Abort, table
  <2>6. CASE Tick \/ (\E e \in Email : Register(e)) \/ UNCHANGED vars
    BY <2>6 DEF Tick, Register, vars, table
  <2>7. CASE UNCHANGED otp
    BY <2>7
  <2>8. ASSUME NEW h \in Handler, Arrive(h) \/ Proceed(h) \/ TakeRow(h) \/ Abort(h) PROVE Kept
    <3> HIDE DEF Kept
    <3> QED
      BY <2>2, <2>3, <2>4, <2>5, <2>7, <2>8 DEF Proceed, TakeRow
  <2> QED
    BY <1>1, <2>6, <2>8 DEF Next
<1>2. CodesInv /\ LockDiscipline /\ [Next]_vars => [Kept]_vars
  BY <1>1
<1> QED
  BY CodesInvariance, LocksAreHeld, <1>2, PTL DEF Spec, OnlyDeletedIsReplaced

\* Whoever holds a row is not waiting for one: after its DELETE a SendCode waits
\* only for an inserter, and nobody else inserts where it has deleted.
LEMMA HoldersDoNotWait ==
  ASSUME CodesInv, LockDiscipline, NEW h \in Handler, NEW g \in Handler, WaitsFor(h, g)
  PROVE  \A f \in Handler : ~ WaitsFor(g, f)
<1> USE OtpNoneIsNothing
<1>1. TypeOK /\ SendDiscipline
  BY DEF CodesInv, Lives
<1>2. PICK e \in Email : rowLock[e] = g \/ (inserted[e] = g /\ g # h)
  BY <1>1 DEF WaitsFor, Holders, SendDiscipline, Sending
<1>3. g # None
  OBVIOUS
<1>4. email[g] = e /\ pc[g] \in {"insert", "commit"}
  BY <1>2, <1>3 DEF LockDiscipline
<1>5. CASE pc[g] = "commit"
  BY <1>5 DEF WaitsFor
<1>6. CASE pc[g] = "insert"
  <2>1. rowLock[e] = g /\ otp[e] # None
    BY <1>2, <1>3, <1>6 DEF LockDiscipline
  <2>2. inserted[e] \in {None, g}
    BY <2>1 DEF LockDiscipline
  <2> QED
    BY <1>3, <1>4, <1>6, <2>1, <2>2 DEF WaitsFor
<1> QED
  BY <1>4, <1>5, <1>6

\* No group of requests waits only for its own members, however many SendCodes
\* and uses of a code meet at an address.
THEOREM CodeDeadlockFreedom == Spec => []NoCodeDeadlock
<1>1. CodesInv /\ LockDiscipline => NoCodeDeadlock
  BY HoldersDoNotWait DEF NoCodeDeadlock
<1> QED
  BY CodesInvariance, LocksAreHeld, <1>1, PTL

-----------------------------------------------------------------------------
\* What CodesSpec sees of a state.
seen == <<now, otp, Asked, Retired>>

\* The empty table shows as empty boxes.
LEMMA InitSeen == Init => Codes!CodesInit
  BY DEF Init, Codes!CodesInit, Asked, Retired, Underway, Sending

\* A step that touches neither clock nor table, and no statement that takes a
\* row, shows at most as a challenge that will not come.
LEMMA QuietIsSeen ==
  ASSUME CodesInv, NEW h \in Handler, UNCHANGED <<now, otp, drawn>>,
         \A g \in Handler \ {h} : UNCHANGED <<pc[g], challenge[g], target[g]>>,
         pc[h] \notin {"takeLogin", "takeReset"}, pc'[h] \notin {"takeLogin", "takeReset"},
         pc'[h] \in Sending => pc[h] \in Sending /\ challenge'[h] = challenge[h]
  PROVE  Codes!CodesNext \/ UNCHANGED seen
<1>1. Asked' = Asked
  BY DEF Asked
<1>2. CASE pc[h] \in Sending /\ pc'[h] \notin Sending
  <2>1. challenge[h] \in Challenge /\ challenge[h] \in drawn /\ Holders(challenge[h]) = {}
    <3>1. challenge[h] \in drawn /\ drawn \subseteq Challenge
      BY <1>2 DEF CodesInv, Lives, TypeOK, SendDiscipline
    <3>2. \A e \in Email : otp[e] # None => otp[e].id # challenge[h]
      BY <1>2 DEF CodesInv, Lives, BoxDiscipline
    <3> QED
      BY <3>1, <3>2 DEF Holders
  <2>2. Underway' = Underway \ {challenge[h]}
    <3>1. \A g \in Handler \ {h} : pc[g] \in Sending => challenge[g] # challenge[h]
      BY <1>2 DEF CodesInv, Lives, SendDiscipline
    <3> QED
      BY <1>2, <3>1 DEF Underway
  <2>3. Retired' = Retired \cup {challenge[h]}
    BY <2>1, <2>2 DEF Retired, Holders, Underway
  <2>4. challenge[h] \notin Codes!Boxed
    BY <2>1 DEF Codes!Boxed, Holders
  <2> QED
    BY <1>1, <2>1, <2>3, <2>4 DEF Codes!CodesNext, Codes!GiveUp
<1>3. CASE ~ (pc[h] \in Sending /\ pc'[h] \notin Sending)
  <2>1. Underway' = Underway
    BY <1>3 DEF Underway
  <2> QED
    BY <1>1, <2>1 DEF seen, Retired, Holders
<1> QED
  BY <1>2, <1>3
\* A request that stops waiting for a row no longer asks for it; another may.
LEMMA AskedFalls ==
  ASSUME CodesInv, NEW h \in Handler,
         \A g \in Handler \ {h} : UNCHANGED <<pc[g], target[g]>>,
         pc[h] \in {"takeLogin", "takeReset"}, pc'[h] \notin {"takeLogin", "takeReset"}
  PROVE  /\ Asked' \in {Asked, Asked \ {target[h]}}
         /\ target[h] = None => Asked' = Asked
<1>1. CASE target[h] = None
  BY <1>1 DEF Asked
<1>2. CASE \E g \in Handler \ {h} : pc[g] \in {"takeLogin", "takeReset"} /\ target[g] = target[h]
  BY <1>2 DEF Asked
<1>3. CASE /\ target[h] # None
           /\ ~ \E g \in Handler \ {h} : /\ pc[g] \in {"takeLogin", "takeReset"}
                                      /\ target[g] = target[h]
  <2>1. Asked' = Asked \ {target[h]}
    BY <1>3 DEF Asked
  <2> QED
    BY <1>3, <2>1
<1> QED
  BY <1>1, <1>2, <1>3

\* A statement that gets no row, and a handler that dies waiting for one.
LEMMA LeaveIsSeen ==
  ASSUME CodesInv, NEW h \in Handler, UNCHANGED <<now, otp, drawn>>,
         \A g \in Handler \ {h} : UNCHANGED <<pc[g], challenge[g], target[g]>>,
         pc[h] \in {"takeLogin", "takeReset"}, pc'[h] \notin Sending \cup {"takeLogin", "takeReset"}
  PROVE  Codes!CodesNext \/ UNCHANGED seen
<1>1. Underway' = Underway
  BY DEF Underway, Sending
<1>2. Retired' = Retired
  BY <1>1 DEF Retired, Holders
<1>3. target[h] \in Challenge \cup {None}
  BY DEF CodesInv, Lives, TypeOK
<1> QED
  BY <1>2, <1>3, AskedFalls DEF seen, Codes!CodesNext, Codes!Leave

\* A statement that looks for a row with the right code, and sees one, asks.
LEMMA LookIsAsk ==
  ASSUME CodesInv, NEW h \in Handler, NEW candidates, Look(h, candidates),
         \A e \in candidates : e \in Email /\ otp[e] # None /\ otp[e].expires > now,
         UNCHANGED <<now, otp, drawn, challenge>>, pc[h] \in {"match", "check"},
         NEW label \in {"takeLogin", "takeReset"}, pc' = [pc EXCEPT ![h] = label]
  PROVE  Codes!CodesNext \/ UNCHANGED seen
<1>1. /\ pc'[h] = label /\ \A g \in Handler \ {h} : pc'[g] = pc[g] /\ target'[g] = target[g]
      /\ target' \in [Handler -> Challenge \cup {None}]
  BY LookLemma DEF CodesInv, Lives, TypeOK
<1>2. Underway' = Underway
  BY <1>1 DEF Underway, Sending
<1>3. Retired' = Retired
  BY <1>2 DEF Retired, Holders
<1>4. CASE target'[h] = None
  <2>1. Asked' = Asked
    BY <1>1, <1>4 DEF Asked
  <2> QED
    BY <1>3, <2>1 DEF seen
<1>5. CASE target'[h] # None
  <2>1. candidates # {}
    BY <1>5 DEF Look, CodesInv, Lives, TypeOK
  <2>2. PICK e \in candidates : target'[h] = otp[e].id
    <3>1. (CHOOSE e \in candidates : TRUE) \in candidates
      BY <2>1
    <3>2. target'[h] = otp[CHOOSE e \in candidates : TRUE].id
      BY <2>1 DEF Look, CodesInv, Lives, TypeOK
    <3> QED
      BY <3>1, <3>2
  <2>3. e \in Email /\ otp[e] # None /\ now < otp[e].expires
    BY <2>2 DEF CodesInv, Lives, TypeOK, Row
  <2>4. Asked' = Asked \cup {otp[e].id}
    BY <1>1, <1>5, <2>2 DEF Asked
  <2> QED
    BY <1>3, <2>3, <2>4 DEF Codes!CodesNext, Codes!Ask
<1> QED
  BY <1>4, <1>5

\* A DELETE ... RETURNING that gets the row takes the challenge out.
LEMMA TakeIsSeen ==
  ASSUME CodesInv, NEW h \in Handler, TakeLogin(h) \/ TakeReset(h)
  PROVE  Codes!CodesNext \/ UNCHANGED seen
<1>1. PICK hit \in {"session", "owner"}, miss \in {"rejected", "miss"} : TakenOrMissed(h, hit, miss)
  BY TakeEither DEF CodesInv
<1>2. /\ pc[h] \in {"takeLogin", "takeReset"}
      /\ UNCHANGED <<now, drawn, challenge, target>>
      /\ pc \in [Handler -> {"idle"} \cup Working \cup Answer]
  BY DEF TakeLogin, TakeReset, Take, CodesInv, Lives, TypeOK
<1>3. CASE UNCHANGED otp /\ pc' = [pc EXCEPT ![h] = miss]
  <2>1. pc'[h] = miss /\ \A g \in Handler \ {h} : pc'[g] = pc[g]
    BY <1>2, <1>3
  <2>2. miss \notin Sending \cup {"takeLogin", "takeReset"}
    BY DEF Sending
  <2> QED
    BY <1>2, <1>3, <2>1, <2>2, LeaveIsSeen
<1>4. ASSUME NEW e \in Email, otp[e] # None, target[h] = otp[e].id,
             otp' = [otp EXCEPT ![e] = None], pc' = [pc EXCEPT ![h] = hit]
      PROVE  Codes!CodesNext
  <2>1. pc'[h] = hit /\ \A g \in Handler \ {h} : pc'[g] = pc[g]
    BY <1>2, <1>4
  <2>2. hit \notin Sending \cup {"takeLogin", "takeReset"}
    BY DEF Sending
  <2>3. target[h] # None /\ target[h] \in drawn
    BY <1>4, OtpNoneIsNothing DEF CodesInv, Lives, TypeOK, BoxDiscipline
  <2>4. target[h] \in Asked
    BY <1>2, <2>3 DEF Asked
  <2>5. Asked' \in {Asked, Asked \ {target[h]}}
    BY <1>2, <2>1, <2>2, AskedFalls
  <2>6. Underway' = Underway /\ target[h] \notin Underway
    BY <1>2, <1>4, <2>1, <2>2 DEF Underway, Sending, CodesInv, Lives, BoxDiscipline
  <2>7. /\ Holders(target[h])' = {}
        /\ \A c \in Challenge \ {target[h]} : Holders(c)' = Holders(c)
        /\ target[h] \in Challenge
    <3>1. \A f \in Email : otp[f] # None /\ otp[f].id = target[h] => f = e
      BY <1>4 DEF CodesInv, Lives, BoxDiscipline
    <3>2. \A f \in Email : otp'[f] = IF f = e THEN None ELSE otp[f]
      BY <1>4 DEF CodesInv, Lives, TypeOK
    <3>3. target'[h] = target[h] /\ target[h] \in Challenge
      BY <1>2, <2>3 DEF CodesInv, Lives, TypeOK
    <3> QED
      BY <1>4, <3>1, <3>2, <3>3 DEF Holders
  <2>8. Retired' = Retired \cup {target[h]}
    <3>1. ASSUME NEW c \in Challenge
          PROVE  c \in Retired' <=> c \in Retired \/ c = target[h]
      <4>1. CASE c = target[h]
        <5>1. Holders(c)' = {}
          BY <1>2, <2>7, <4>1 DEF Holders
        <5> QED
          BY <1>2, <2>3, <2>6, <4>1, <5>1 DEF Retired
      <4>2. CASE c # target[h]
        BY <1>2, <2>6, <2>7, <4>2 DEF Retired
      <4> QED
        BY <4>1, <4>2
    <3>2. Retired \subseteq Challenge /\ Retired' \subseteq Challenge
      BY <1>2 DEF Retired, CodesInv, Lives, TypeOK
    <3> QED
      BY <2>7, <3>1, <3>2
  <2> QED
    BY <1>2, <1>4, <2>4, <2>5, <2>8 DEF Codes!CodesNext, Codes!TakeOut
<1> QED
  BY <1>1, <1>3, <1>4 DEF TakenOrMissed

\* The COMMIT of SendCode is where the challenge is replaced.
LEMMA CommitIsReplace ==
  ASSUME CodesInv, NEW h \in Handler, CommitReplacement(h)
  PROVE  Codes!Replace(email[h], challenge[h], code[h])
<1> DEFINE e == email[h]
           c == challenge[h]
           new == [id |-> c, code |-> code[h], attempts |-> 0, expires |-> started[h] + Duration]
<1>1. PICK answer \in {"done", "failed"} : pc' = [pc EXCEPT ![h] = answer]
  BY DEF CommitReplacement, Acknowledge, Goto
<1>2. /\ pc[h] = "commit" /\ otp' = [otp EXCEPT ![e] = new]
      /\ UNCHANGED <<now, drawn, challenge, target>>
  BY DEF CommitReplacement, locals, history
<1>3. /\ pc'[h] = answer /\ answer \notin Sending \cup {"takeLogin", "takeReset"}
      /\ \A g \in Handler \ {h} : pc'[g] = pc[g]
  BY <1>1 DEF CodesInv, Lives, TypeOK, Sending
<1>4. /\ e \in Email /\ c \in Challenge /\ c \in drawn
      /\ \A f \in Email : otp[f] # None => otp[f].id # c
      /\ \A g \in Handler \ {h} : pc[g] \in Sending => challenge[g] # c
      /\ otp \in [Email -> Row \cup {None}] /\ None \notin Row
  BY <1>2, OtpNoneIsNoRow DEF CodesInv, Lives, TypeOK, SendDiscipline, BoxDiscipline, Sending
<1>5. Asked' = Asked
  BY <1>2, <1>3 DEF Asked
<1>6. Underway' = Underway \ {c} /\ c \in Underway
  BY <1>2, <1>3, <1>4 DEF Underway, Sending
<1>7. new \in Row /\ new.id = c
  <2>1. code[h] \in Code /\ started[h] + Duration \in Nat /\ 0 \in 0..MaxAttempts
    <3>1. code[h] \in Code
      BY <1>2 DEF CodesInv, Lives, SendDiscipline, Sending
    <3>2. started[h] \in Nat
      BY DEF CodesInv, Lives, TypeOK
    <3> QED
      BY <3>1, <3>2, OtpDurationIsPositive, MaxAttemptsIsPositive
  <2> QED
    BY <1>4, <2>1 DEF Row
<1>8. c \notin Codes!Boxed \cup Retired
  BY <1>4, <1>6 DEF Codes!Boxed, Retired
<1>9. started[h] \in 0..now
  BY OtpTimeIsBounded DEF CodesInv, Lives, TypeOK, TakeDiscipline
<1> HIDE DEF new
<1>10. Retired' = Retired \cup (IF otp[e] = None THEN {} ELSE {otp[e].id})
  <2>1. \A f \in Email : otp'[f] = IF f = e THEN new ELSE otp[f]
    BY <1>2, <1>4
  <2>2. new # None
    BY <1>4, <1>7
  <2>3. ASSUME NEW d \in Challenge
        PROVE  d \in Retired' <=> d \in Retired \/ (otp[e] # None /\ d = otp[e].id)
    <3>1. d \in Retired' <=> /\ d \in drawn /\ d \notin Underway'
                            /\ \A f \in Email : otp'[f] # None => otp'[f].id # d
      BY <1>2 DEF Retired, Holders
    <3>2. d \in Retired <=> /\ d \in drawn /\ d \notin Underway
                           /\ \A f \in Email : otp[f] # None => otp[f].id # d
      BY DEF Retired, Holders
    <3>3. otp[e] # None /\ d = otp[e].id =>
             /\ d \in drawn /\ d \notin Underway /\ d # c
             /\ \A f \in Email : otp[f] # None /\ otp[f].id = d => f = e
      BY <1>4 DEF CodesInv, Lives, BoxDiscipline, Underway
    <3> QED
      BY <1>4, <1>6, <1>7, <2>1, <2>2, <3>1, <3>2, <3>3
  <2>4. Retired \subseteq Challenge /\ Retired' \subseteq Challenge
    BY <1>2 DEF Retired, CodesInv, Lives, TypeOK
  <2>5. otp[e] # None => otp[e].id \in Challenge
    BY <1>4 DEF Row
  <2> QED
    BY <2>3, <2>4, <2>5
<1> USE DEF new
<1> QED
  BY <1>2, <1>5, <1>8, <1>9, <1>10 DEF Codes!Replace

\* IncreaseAttempts counts an attempt, or finds nothing to count.
LEMMA CountIsSeen ==
  ASSUME CodesInv, NEW h \in Handler, IncreaseAttempts(h)
  PROVE  Codes!CodesNext \/ UNCHANGED seen
<1> DEFINE counted == {e \in Holders(challenge[h]) :
                         otp[e].expires > started[h] /\ otp[e].attempts < Limit}
<1>1. /\ pc[h] = "count" /\ pc' = [pc EXCEPT ![h] = "rejected"]
      /\ otp' = [e \in Email |-> IF e \in counted THEN Counted(otp[e]) ELSE otp[e]]
      /\ UNCHANGED <<now, drawn, challenge, target>>
  BY DEF IncreaseAttempts, Goto, locals
<1>2. /\ pc'[h] = "rejected" /\ \A g \in Handler \ {h} : pc'[g] = pc[g]
      /\ otp \in [Email -> Row \cup {None}] /\ None \notin Row
  BY <1>1, OtpNoneIsNoRow DEF CodesInv, Lives, TypeOK
<1>3. Asked' = Asked /\ Underway' = Underway
  BY <1>1, <1>2 DEF Asked, Underway, Sending
<1>4. CASE counted = {}
  <2>1. otp' = otp
    BY <1>1, <1>2, <1>4
  <2> QED
    BY <1>1, <1>3, <2>1 DEF seen, Retired, Holders
<1>5. CASE counted # {}
  <2>1. PICK e \in Email : counted = {e} /\ otp[e] # None /\ otp[e].attempts < Limit
    BY <1>5 DEF Holders, CodesInv, Lives, BoxDiscipline
  <2> HIDE DEF counted
  <2>2. otp' = [otp EXCEPT ![e] = Counted(otp[e])]
    BY <1>1, <1>2, <2>1
  <2>3. otp[e] \in Row /\ otp[e].attempts \in Nat /\ otp[e].attempts < MaxAttempts
    BY <1>2, <2>1, LimitLemma, MaxAttemptsIsPositive DEF Row
  <2>4. Counted(otp[e]).id = otp[e].id /\ Counted(otp[e]) \in Row
    BY <2>3, MaxAttemptsIsPositive DEF Counted, Row
  <2>5. \A f \in Email : (otp'[f] = None <=> otp[f] = None) /\ (otp[f] # None => otp'[f].id = otp[f].id)
    BY <1>2, <2>1, <2>2, <2>4
  <2>6. Retired' = Retired
    BY <1>1, <1>3, <2>5 DEF Retired, Holders
  <2> QED
    BY <1>1, <1>3, <2>1, <2>2, <2>3, <2>6 DEF Counted, Codes!CodesNext, Codes!CountAttempt
<1> QED
  BY <1>4, <1>5
\* Every step shows as a step of OneTimeCodes, or not at all.
LEMMA StepIsSeen == CodesInv /\ [Next]_vars => Codes!CodesNext \/ UNCHANGED seen
<1> SUFFICES ASSUME CodesInv, [Next]_vars
             PROVE  Codes!CodesNext \/ UNCHANGED seen
  OBVIOUS
<1> DEFINE Taking == {"takeLogin", "takeReset"}
<1>0. pc \in [Handler -> {"idle"} \cup Working \cup Answer]
  BY DEF CodesInv, Lives, TypeOK
<1>1. CASE Tick
  BY <1>1 DEF Tick, table, locals, history, Codes!CodesNext, Codes!TimePasses, Asked, Retired,
     Underway, Holders
<1>2. CASE (\E e \in Email : Register(e)) \/ UNCHANGED vars
  BY <1>2 DEF Register, vars, table, locals, history, seen, Asked, Retired, Underway, Holders
<1>3. ASSUME NEW h \in Handler, NEW e \in Email, NEW c \in Challenge, BeginSend(h, e, c)
      PROVE  UNCHANGED seen
  <2>1. /\ pc[h] = "idle" /\ pc'[h] = "lookup" /\ challenge'[h] = c
        /\ \A g \in Handler \ {h} : pc'[g] = pc[g] /\ challenge'[g] = challenge[g]
        /\ c \notin drawn /\ drawn' = drawn \cup {c} /\ UNCHANGED <<now, otp, target>>
    BY <1>0, <1>3 DEF BeginSend, Goto, table, CodesInv, Lives, TypeOK
  <2>2. Asked' = Asked
    BY <2>1 DEF Asked
  <2>3. Underway' = Underway \cup {c}
    BY <2>1 DEF Underway, Sending
  <2>4. Retired' = Retired
    BY <2>1, <2>3 DEF Retired, Holders
  <2> QED
    BY <2>1, <2>2, <2>4 DEF seen
<1>4. ASSUME NEW h \in Handler, CommitReplacement(h)
      PROVE  Codes!CodesNext
  <2>1. email[h] \in Email /\ challenge[h] \in Challenge /\ code[h] \in Code
    BY <1>4 DEF CommitReplacement, CodesInv, Lives, TypeOK, SendDiscipline, Sending
  <2> QED
    BY <1>4, <2>1, CommitIsReplace DEF Codes!CodesNext
<1>5. ASSUME NEW h \in Handler, TakeLogin(h) \/ TakeReset(h)
      PROVE  Codes!CodesNext \/ UNCHANGED seen
  BY <1>5, TakeIsSeen
<1>6. ASSUME NEW h \in Handler, IncreaseAttempts(h)
      PROVE  Codes!CodesNext \/ UNCHANGED seen
  BY <1>6, CountIsSeen
<1>7. ASSUME NEW h \in Handler, MatchLogin(h)
      PROVE  Codes!CodesNext \/ UNCHANGED seen
  <2> DEFINE candidates == {e \in {email[h]} : /\ otp[e] # None
                                              /\ otp[e].code = code[h]
                                              /\ otp[e].expires > now}
  <2>1. \A e \in candidates : e \in Email /\ otp[e] # None /\ otp[e].expires > now
    BY <1>7 DEF MatchLogin, CodesInv, Lives, TakeDiscipline
  <2>2. /\ Look(h, candidates) /\ UNCHANGED <<now, otp, drawn, challenge>>
        /\ pc[h] \in {"match", "check"} /\ pc' = [pc EXCEPT ![h] = "takeLogin"]
    BY <1>7 DEF MatchLogin, Goto, table, history
  <2> HIDE DEF candidates
  <2> QED
    BY <2>1, <2>2, LookIsAsk
<1>8. ASSUME NEW h \in Handler, Check(h)
      PROVE  Codes!CodesNext \/ UNCHANGED seen
  <2> DEFINE open == {e \in Holders(challenge[h]) : otp[e].expires > now /\ otp[e].attempts < Limit}
             wrong == {e \in open : otp[e].code # code[h]}
             candidates == open \ wrong
  <2>1. CASE wrong = {}
    <3>1. \A e \in candidates : e \in Email /\ otp[e] # None /\ otp[e].expires > now
      BY DEF Holders
    <3>2. /\ Look(h, candidates) /\ UNCHANGED <<now, otp, drawn, challenge>>
          /\ pc[h] \in {"match", "check"} /\ pc' = [pc EXCEPT ![h] = "takeReset"]
      BY <1>8, <2>1 DEF Check, Goto, table
    <3> HIDE DEF candidates
    <3> QED
      BY <3>1, <3>2, LookIsAsk
  <2>2. CASE wrong # {}
    <3>1. /\ Look(h, candidates) /\ UNCHANGED <<now, otp, drawn, challenge>>
          /\ pc[h] = "check" /\ pc' = [pc EXCEPT ![h] = "miss"]
      BY <1>8, <2>2 DEF Check, Goto, table
    <3>2. \A g \in Handler \ {h} : target'[g] = target[g]
      BY <3>1 DEF Look, CodesInv, Lives, TypeOK
    <3> HIDE DEF candidates
    <3>3. pc'[h] = "miss" /\ \A g \in Handler \ {h} : pc'[g] = pc[g]
      BY <1>0, <3>1
    <3> QED
      BY <3>1, <3>2, <3>3, QuietIsSeen DEF Sending
  <2> QED
    BY <2>1, <2>2
<1>9. ASSUME NEW h \in Handler,
             NEW label, pc' = [pc EXCEPT ![h] = label],
             UNCHANGED <<now, otp, drawn>>, \A g \in Handler \ {h} : UNCHANGED <<challenge[g], target[g]>>,
             pc[h] \notin Taking, label \notin Taking,
             label \in Sending => pc[h] \in Sending /\ challenge'[h] = challenge[h]
      PROVE  Codes!CodesNext \/ UNCHANGED seen
  <2>1. pc'[h] = label /\ \A g \in Handler \ {h} : pc'[g] = pc[g]
    BY <1>0, <1>9
  <2> QED
    BY <1>9, <2>1, QuietIsSeen
<1>10. ASSUME NEW h \in Handler, Abort(h)
       PROVE  Codes!CodesNext \/ UNCHANGED seen
  <2>1. /\ pc'[h] = "failed" /\ \A g \in Handler \ {h} : pc'[g] = pc[g]
        /\ pc' = [pc EXCEPT ![h] = "failed"]
        /\ UNCHANGED <<now, otp, drawn, challenge, target>>
    BY <1>0, <1>10 DEF Abort, Goto, locals
  <2>2. CASE pc[h] \in Taking
    BY <2>1, <2>2, LeaveIsSeen DEF Sending
  <2>3. CASE pc[h] \notin Taking
    BY <1>9, <2>1, <2>3 DEF Sending
  <2> QED
    BY <2>2, <2>3
<1>11. ASSUME NEW h \in Handler, NEW c \in Challenge \cup {None},
              (\E e \in Email, k \in Code : BeginLogin(h, e, k)) \/ (\E k \in Code : BeginVerify(h, c, k))
       PROVE  Codes!CodesNext \/ UNCHANGED seen
  <2>1. \E label \in {"find", "check"} : pc' = [pc EXCEPT ![h] = label]
    BY <1>11 DEF BeginLogin, BeginVerify, Goto
  <2>2. /\ pc[h] = "idle" /\ UNCHANGED <<now, otp, drawn>>
        /\ \A g \in Handler \ {h} : UNCHANGED <<challenge[g], target[g]>>
    BY <1>11 DEF BeginLogin, BeginVerify, table, history, CodesInv, Lives, TypeOK
  <2> QED
    BY <1>9, <2>1, <2>2 DEF Sending
<1>12. ASSUME NEW h \in Handler,
              LookupUser(h) \/ (\E k \in Code : EmailCode(h, k)) \/ Invalidate(h) \/ Evict(h) \/ Save(h)
              \/ SaveConflict(h)
       PROVE  Codes!CodesNext \/ UNCHANGED seen
  <2>1. PICK label \in {"email", "done", "invalidate", "evict", "insert", "commit", "failed"} :
           pc' = [pc EXCEPT ![h] = label]
    BY <1>12 DEF LookupUser, EmailCode, Invalidate, Evict, Save, SaveConflict, Goto
  <2>2. /\ pc[h] \in Sending /\ UNCHANGED <<now, otp, drawn, challenge>>
        /\ \A g \in Handler \ {h} : UNCHANGED <<challenge[g], target[g]>>
    BY <1>12 DEF LookupUser, EmailCode, Invalidate, Evict, Save, SaveConflict, table, locals, history,
       CodesInv, Lives, TypeOK, Sending
  <2>3. pc[h] \notin Taking /\ label \notin Taking
    BY <2>2 DEF Sending
  <2> QED
    BY <1>9, <2>1, <2>2, <2>3
<1>13. ASSUME NEW h \in Handler,
              FindUser(h) \/ OpenSession(h) \/ BeginCount(h) \/ FindOwner(h) \/ SaveResetToken(h)
              \/ Return(h)
       PROVE  Codes!CodesNext \/ UNCHANGED seen
  <2>1. PICK label \in {"match", "rejected", "done", "failed", "count", "token", "denied", "idle"} :
           pc' = [pc EXCEPT ![h] = label]
    BY <1>13 DEF FindUser, OpenSession, BeginCount, FindOwner, SaveResetToken, Return, Goto, Acknowledge
  <2>2. /\ pc[h] \notin Taking /\ UNCHANGED <<now, otp, drawn>>
        /\ \A g \in Handler \ {h} : UNCHANGED <<challenge[g], target[g]>>
    BY <1>13 DEF FindUser, OpenSession, BeginCount, FindOwner, SaveResetToken, Return, table, locals,
       history, CodesInv, Lives, TypeOK, Answer
  <2>3. label \notin Sending \cup Taking
    BY DEF Sending
  <2> QED
    BY <1>9, <2>1, <2>2, <2>3
<1> QED
  BY <1>1, <1>2, <1>3, <1>4, <1>5, <1>6, <1>7, <1>8, <1>10, <1>11, <1>12, <1>13
  DEF Next, Arrive, Proceed, TakeRow

\* Interleaved as they may be, the statements of SendCode and of the two ways to
\* use a code amount to replacements, takings and counts that each happen at one
\* instant, and no challenge ever comes back.
THEOREM OneTimeCodesImplemented == Spec => ImplementsOneTimeCodes
<1>1. CodesInv /\ [Next]_vars => [Codes!CodesNext]_seen
  BY StepIsSeen
<1>2. ImplementsOneTimeCodes <=> Codes!CodesInit /\ [][Codes!CodesNext]_seen
  BY DEF ImplementsOneTimeCodes, Codes!CodesSpec, Codes!promises, seen
<1> QED
  BY CodesInvariance, InitSeen, <1>1, <1>2, PTL DEF Spec
=============================================================================
