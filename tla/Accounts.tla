------------------------------ MODULE Accounts -------------------------------
(***************************************************************************)
(* Registration: the table users and AuthService.RegisterUser.             *)
(*                                                                         *)
(* RegisterUser does not look whether the account exists: it inserts, and  *)
(* the UNIQUE columns decide.  The INSERT is one statement, but it enters  *)
(* its row into the index of each UNIQUE column in turn (in the order in   *)
(* which the table declares them), and at each it waits for a transaction  *)
(* whose own entry for the same key is not committed yet.  If that one     *)
(* commits, the INSERT fails with code 23505; if it rolls back, the INSERT *)
(* goes on.  So a step is one index entry or the COMMIT.                   *)
(***************************************************************************)
EXTENDS Naturals

CONSTANTS
    Handler,    \* goroutines that serve a request
    Email,
    Username,
    UserId,     \* what uuid.New() can return; bounds the registrations
    None

Account == [id: UserId, email: Email, username: Username]

ASSUME NoneIsNoHandler == None \notin Handler
ASSUME NoneIsNoAccount == None \notin Account

VARIABLES
    users,          \* the committed rows
    emailEntry,     \* the transaction with an uncommitted entry for this email
    usernameEntry,  \* the transaction with an uncommitted entry for this name
    pc,
    user            \* the row the handler has built, or None

entries == <<emailEntry, usernameEntry>>
vars == <<users, entries, pc, user>>

\* The next index, or the COMMIT; or the answer: a nil error, AlreadyExists, or
\* any other error.
Working == {"email", "username", "commit"}
Answer == {"done", "exists", "failed"}

TypeOK ==
    /\ users \subseteq Account
    /\ emailEntry \in [Email -> Handler \cup {None}]
    /\ usernameEntry \in [Username -> Handler \cup {None}]
    /\ pc \in [Handler -> {"idle"} \cup Working \cup Answer]
    /\ user \in [Handler -> Account \cup {None}]
    /\ \A h \in Handler : pc[h] # "idle" => user[h] # None

Init ==
    /\ users = {}
    /\ emailEntry = [e \in Email |-> None]
    /\ usernameEntry = [n \in Username |-> None]
    /\ pc = [h \in Handler |-> "idle"]
    /\ user = [h \in Handler |-> None]

-----------------------------------------------------------------------------
Goto(h, label) == pc' = [pc EXCEPT ![h] = label]

EmailTaken(e) == \E a \in users : a.email = e
UsernameTaken(n) == \E a \in users : a.username = n

\* Ids a table or a request has.  One that came to nothing may be drawn again,
\* which nobody can tell from a new one.
IdsInUse ==
    {a.id : a \in users} \cup {user[h].id : h \in {g \in Handler : user[g] # None}}

\* The transaction ends, and with it what it had not committed.
Unlock(h) ==
    /\ emailEntry' = [e \in Email |-> IF emailEntry[e] = h THEN None ELSE emailEntry[e]]
    /\ usernameEntry' =
         [n \in Username |-> IF usernameEntry[n] = h THEN None ELSE usernameEntry[n]]

\* RegisterUser gives the user an id and hashes the password.
BeginRegister(h, e, n) ==
    /\ pc[h] = "idle"
    /\ \E i \in UserId \ IdsInUse :
          user' = [user EXCEPT ![h] = [id |-> i, email |-> e, username |-> n]]
    /\ Goto(h, "email")
    /\ UNCHANGED <<users, entries>>

\* Mutant of EnterEmail: look at committed rows, and insert if there is none.
MutantCheckThenInsert(h) ==
    /\ pc[h] = "email"
    /\ ~ EmailTaken(user[h].email)
    /\ emailEntry' = [emailEntry EXCEPT ![user[h].email] = h]
    /\ Goto(h, "username")
    /\ UNCHANGED <<users, usernameEntry, user>>

\* users_email_key takes the row.
EnterEmail(h) ==
    /\ pc[h] = "email"
    /\ emailEntry[user[h].email] = None
    /\ ~ EmailTaken(user[h].email)
    /\ emailEntry' = [emailEntry EXCEPT ![user[h].email] = h]
    /\ Goto(h, "username")
    /\ UNCHANGED <<users, usernameEntry, user>>

\* Mutant of EmailConflict: refused although the other may still roll back.
MutantRefusedTooSoon(h) ==
    /\ pc[h] = "email"
    /\ emailEntry[user[h].email] # None \/ EmailTaken(user[h].email)
    /\ Unlock(h)
    /\ Goto(h, "exists")
    /\ UNCHANGED <<users, user>>

\* users_email_key refuses it: 23505, ErrEmailAlreadyRegistered.
EmailConflict(h) ==
    /\ pc[h] = "email"
    /\ emailEntry[user[h].email] = None
    /\ EmailTaken(user[h].email)
    /\ Unlock(h)
    /\ Goto(h, "exists")
    /\ UNCHANGED <<users, user>>

\* users_username_key takes the row.
EnterUsername(h) ==
    /\ pc[h] = "username"
    /\ usernameEntry[user[h].username] = None
    /\ ~ UsernameTaken(user[h].username)
    /\ usernameEntry' = [usernameEntry EXCEPT ![user[h].username] = h]
    /\ Goto(h, "commit")
    /\ UNCHANGED <<users, emailEntry, user>>

\* users_username_key refuses it: 23505 again, so ErrEmailAlreadyRegistered
\* again, whatever column it was.
UsernameConflict(h) ==
    /\ pc[h] = "username"
    /\ usernameEntry[user[h].username] = None
    /\ UsernameTaken(user[h].username)
    /\ Unlock(h)
    /\ Goto(h, "exists")
    /\ UNCHANGED <<users, user>>

\* The statement's own COMMIT; its acknowledgement may be lost.
CommitUser(h) ==
    /\ pc[h] = "commit"
    /\ users' = users \cup {user[h]}
    /\ Unlock(h)
    /\ \E answer \in {"done", "failed"} : Goto(h, answer)
    /\ UNCHANGED user

\* Mutant of Abort: the error of Save is dropped.
MutantErrorDropped(h) ==
    /\ pc[h] \in Working
    /\ Unlock(h)
    /\ Goto(h, "done")
    /\ UNCHANGED <<users, user>>

\* Mutant of Abort: the connection is kept, and the transaction with it.
MutantNoRollback(h) ==
    /\ pc[h] \in Working
    /\ Goto(h, "failed")
    /\ UNCHANGED <<users, entries, user>>

\* Hashing or the statement fails, the client goes away, the process dies.
Abort(h) ==
    /\ pc[h] \in Working
    /\ Unlock(h)
    /\ Goto(h, "failed")
    /\ UNCHANGED <<users, user>>

Return(h) ==
    /\ pc[h] \in Answer
    /\ Goto(h, "idle")
    /\ user' = [user EXCEPT ![h] = None]
    /\ UNCHANGED <<users, entries>>

-----------------------------------------------------------------------------
\* What a handler does by itself, and what it may have to wait for.
Proceed(h) == CommitUser(h) \/ Return(h)
Enter(h) == EnterEmail(h) \/ EmailConflict(h) \/ EnterUsername(h) \/ UsernameConflict(h)

Next ==
    \E h \in Handler :
        \/ \E e \in Email, n \in Username : BeginRegister(h, e, n)
        \/ Proceed(h)
        \/ Enter(h)
        \/ Abort(h)

Spec == Init /\ [][Next]_vars

\* As in RefreshTokens: handlers run, and those who wait are served in order.
FairSpec == Spec /\ \A h \in Handler : WF_vars(Proceed(h)) /\ SF_vars(Enter(h))

-----------------------------------------------------------------------------
\* RegisterUser never looks before it inserts; still, however registrations
\* interleave, no two rows have an email or a username in common.
UniqueAccounts ==
    \A a, b \in users : a.email = b.email \/ a.username = b.username => a = b

\* 201 means that the account is there.  409 means that an account with that
\* email or that name is there: not one that was about to be and then rolled
\* back, so two registrations never refuse each other.
AnswersAreTrue ==
    \A h \in Handler :
        /\ pc[h] = "done" => user[h] \in users
        /\ pc[h] = "exists" => EmailTaken(user[h].email) \/ UsernameTaken(user[h].username)

\* Handler h needs a place in an index that a transaction of g has; one of h's
\* own, if an earlier request left it open.
WaitsFor(h, g) ==
    /\ g \in Handler
    /\ \/ pc[h] = "email" /\ emailEntry[user[h].email] = g
       \/ pc[h] = "username" /\ usernameEntry[user[h].username] = g

\* Two registrations, one with the email of the first and the other with its
\* name, meet at two indexes.  All of them go through the indexes in the same
\* order, so no group of them, however large, waits only for its own members.
NoRegistrationDeadlock ==
    \A group \in SUBSET Handler :
        group # {} => \E h \in group : \A g \in group : ~ WaitsFor(h, g)

\* Registrations that wait for each other at two indexes do not wait for ever.
EveryRequestAnswered == \A h \in Handler : pc[h] # "idle" ~> pc[h] = "idle"

-----------------------------------------------------------------------------
\* What keeps the rows apart: an entry belongs to the transaction that is at a
\* later index, for a key no committed row has.
EntryDiscipline ==
    /\ \A e \in Email : emailEntry[e] # None =>
          ~ EmailTaken(e) /\ pc[emailEntry[e]] \in {"username", "commit"}
    /\ \A n \in Username : usernameEntry[n] # None =>
          ~ UsernameTaken(n) /\ pc[usernameEntry[n]] = "commit"
    /\ \A h \in Handler :
          /\ pc[h] \in {"username", "commit"} => emailEntry[user[h].email] = h
          /\ pc[h] = "commit" => usernameEntry[user[h].username] = h

AccountsInv == TypeOK /\ EntryDiscipline /\ UniqueAccounts /\ AnswersAreTrue

-----------------------------------------------------------------------------
\* The message of the 409 is "user email is already registered".
ConflictIsAboutEmail ==
    \A h \in Handler : pc[h] = "exists" => EmailTaken(user[h].email)
=============================================================================
