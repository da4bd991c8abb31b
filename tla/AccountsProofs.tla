--------------------------- MODULE AccountsProofs ----------------------------
(***************************************************************************)
(* Accounts, proved for any number of handlers, addresses, names and ids.  *)
(*                                                                         *)
(* A row is committed by a transaction that has entered it at both         *)
(* indexes.  EntryDiscipline says that no committed row has the key of an  *)
(* entry, and that an entry has one owner; so the row that is added has    *)
(* neither its email nor its name in common with another.                  *)
(***************************************************************************)
EXTENDS Accounts, TLAPS

\* The inductive invariant holds before the first request.
LEMMA InitAccountsInv == Init => AccountsInv
  BY NoneIsNoHandler, NoneIsNoAccount
  DEF Init, AccountsInv, TypeOK, EntryDiscipline, UniqueAccounts, AnswersAreTrue, Working,
      Answer

\* What the end of a transaction does to the entries.
LEMMA UnlockLemma ==
  ASSUME TypeOK, NEW h \in Handler, Unlock(h)
  PROVE  /\ \A e \in Email : emailEntry'[e] = IF emailEntry[e] = h THEN None ELSE emailEntry[e]
         /\ \A n \in Username :
               usernameEntry'[n] = IF usernameEntry[n] = h THEN None ELSE usernameEntry[n]
         /\ emailEntry' \in [Email -> Handler \cup {None}]
         /\ usernameEntry' \in [Username -> Handler \cup {None}]
  BY DEF TypeOK, Unlock

\* Every step keeps the inductive invariant.
LEMMA AccountsStep == AccountsInv /\ [Next]_vars => AccountsInv'
<1> SUFFICES ASSUME AccountsInv, [Next]_vars PROVE AccountsInv'
  OBVIOUS
<1> USE NoneIsNoHandler, NoneIsNoAccount
<1> USE DEF AccountsInv, TypeOK, EntryDiscipline, UniqueAccounts, AnswersAreTrue, Working,
            Answer, Goto, EmailTaken, UsernameTaken, entries
<1>1. ASSUME NEW h \in Handler, NEW e \in Email, NEW n \in Username, BeginRegister(h, e, n)
      PROVE  AccountsInv'
  <2>1. PICK i \in UserId : user' = [user EXCEPT ![h] = [id |-> i, email |-> e, username |-> n]]
    BY <1>1 DEF BeginRegister
  <2>2. [id |-> i, email |-> e, username |-> n] \in Account
    BY DEF Account
  <2> QED
    BY <1>1, <2>1, <2>2 DEF BeginRegister
<1>2. ASSUME NEW h \in Handler, EnterEmail(h)
      PROVE  AccountsInv'
  BY <1>2 DEF EnterEmail, Account
<1>3. ASSUME NEW h \in Handler, EmailConflict(h)
      PROVE  AccountsInv'
  BY <1>3, UnlockLemma DEF EmailConflict, Account
<1>4. ASSUME NEW h \in Handler, EnterUsername(h)
      PROVE  AccountsInv'
  BY <1>4 DEF EnterUsername, Account
<1>5. ASSUME NEW h \in Handler, UsernameConflict(h)
      PROVE  AccountsInv'
  BY <1>5, UnlockLemma DEF UsernameConflict, Account
<1>6. ASSUME NEW h \in Handler, CommitUser(h)
      PROVE  AccountsInv'
  <2>1. user[h] \in Account
    BY <1>6 DEF CommitUser
  <2>2. ~ EmailTaken(user[h].email) /\ ~ UsernameTaken(user[h].username)
    BY <1>6, <2>1 DEF CommitUser, Account
  <2>3. TypeOK'
    BY <1>6, <2>1, UnlockLemma DEF CommitUser
  <2>4. UniqueAccounts'
    BY <1>6, <2>2 DEF CommitUser
  <2>5. EntryDiscipline'
    BY <1>6, <2>1, UnlockLemma DEF CommitUser, Account
  <2>6. AnswersAreTrue'
    BY <1>6 DEF CommitUser
  <2> QED
    BY <2>3, <2>4, <2>5, <2>6
<1>7. ASSUME NEW h \in Handler, Abort(h)
      PROVE  AccountsInv'
  BY <1>7, UnlockLemma DEF Abort, Account
<1>8. ASSUME NEW h \in Handler, Return(h)
      PROVE  AccountsInv'
  BY <1>8 DEF Return
<1>9. CASE UNCHANGED vars
  BY <1>9 DEF vars
<1> QED
  BY <1>1, <1>2, <1>3, <1>4, <1>5, <1>6, <1>7, <1>8, <1>9 DEF Next, Proceed, Enter

\* The inductive invariant holds in every reachable state.
THEOREM AccountsInvariance == Spec => []AccountsInv
  BY InitAccountsInv, AccountsStep, PTL DEF Spec

\* The variables of Accounts keep their types.
THEOREM AccountsTypeCorrect == Spec => []TypeOK
<1>1. AccountsInv => TypeOK
  BY DEF AccountsInv
<1> QED
  BY AccountsInvariance, <1>1, PTL

\* However registrations interleave, no two accounts have an email or a name in
\* common.
THEOREM AccountsAreUnique == Spec => []UniqueAccounts
<1>1. AccountsInv => UniqueAccounts
  BY DEF AccountsInv
<1> QED
  BY AccountsInvariance, <1>1, PTL

\* 201 means that the account is there, 409 that one it conflicts with is.
THEOREM RegistrationAnswersAreTrue == Spec => []AnswersAreTrue
<1>1. AccountsInv => AnswersAreTrue
  BY DEF AccountsInv
<1> QED
  BY AccountsInvariance, <1>1, PTL

\* No group of registrations waits only for its own members.
THEOREM RegistrationDeadlockFreedom == Spec => []NoRegistrationDeadlock
<1>1. AccountsInv => NoRegistrationDeadlock
  <2> SUFFICES ASSUME AccountsInv, NEW group \in SUBSET Handler, group # {}
               PROVE  \E h \in group : \A g \in group : ~ WaitsFor(h, g)
    BY DEF NoRegistrationDeadlock
  <2>1. ASSUME NEW h \in Handler, NEW g \in Handler, WaitsFor(h, g)
        PROVE  \/ pc[h] = "username" /\ pc[g] = "commit"
               \/ pc[h] = "email" /\ pc[g] \in {"username", "commit"}
    <3>1. user[h] \in Account
      BY <2>1 DEF WaitsFor, AccountsInv, TypeOK
    <3> QED
      BY <2>1, <3>1, NoneIsNoHandler DEF WaitsFor, AccountsInv, EntryDiscipline, Account
  <2>2. CASE \E h \in group : pc[h] \notin {"email", "username"}
    BY <2>1, <2>2
  <2>3. CASE /\ \A h \in group : pc[h] \in {"email", "username"}
             /\ \E h \in group : pc[h] = "username"
    BY <2>1, <2>3
  <2>4. CASE \A h \in group : pc[h] = "email"
    BY <2>1, <2>4
  <2> QED
    BY <2>2, <2>3, <2>4
<1> QED
  BY AccountsInvariance, <1>1, PTL
=============================================================================
