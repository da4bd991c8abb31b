---------------------------- MODULE RefreshTokens ----------------------------
(***************************************************************************)
(* The refresh-token component: the table refresh_tokens, the three        *)
(* operations of refreshTokenService (GenerateRefreshToken, Refresh and    *)
(* Revoke) and the revocation of all of a user's tokens, which is the tail *)
(* of the password-reset transaction.                                      *)
(*                                                                         *)
(* Every request runs in a goroutine of its own, a Handler here, and all   *)
(* they share is the database, so a step is one SQL statement or one       *)
(* COMMIT.  unitOfWork.Exec opens its transactions at PostgreSQL's default *)
(* isolation, READ COMMITTED:                                              *)
(*   - an uncommitted write is invisible, and locks the row it changes;    *)
(*   - a statement that needs a locked row waits, and when it gets the row *)
(*     it evaluates its WHERE clause again on what was committed meanwhile;*)
(*   - the rows a DELETE considers are those its snapshot shows when it    *)
(*     starts;                                                             *)
(*   - NOW() is the time the TRANSACTION began, not the statement's.       *)
(***************************************************************************)
EXTENDS Naturals, FiniteSets

CONSTANTS
    Handler,    \* goroutines that serve a request
    User,       \* ids of the rows of users
    Token,      \* what uuid.New() can return
    None,       \* "no handler", "no user", "no token"
    Duration,   \* REFRESH_TOKEN_DURATION, in ticks of the clock
    MaxTime     \* bound: the clock stops here

ASSUME NoneIsNobody == None \notin Handler \cup User \cup Token
ASSUME NoneIsNoRow == None \notin [user: User, expires: Nat]
ASSUME DurationIsPositive == Duration \in Nat \ {0}
ASSUME MaxTimeIsNat == MaxTime \in Nat

VARIABLES
    now,        \* the clock the server and the database share
    stored,     \* ids with a committed row in refresh_tokens
    owner,      \* column user_id of the row with this id, None before uuid.New()
    expiresAt,  \* column expires_at of the row with this id
    rowLock,    \* the handler whose transaction has locked the row, or None
    userLock,   \* the handler whose transaction has locked the row of users
    pc,         \* where the handler is
    presented,  \* the token id the handler was given
    started,    \* NOW() of the handler's transaction
    draft,      \* the id of the row the handler has built, or None
    scan,       \* the rows the handler's DELETE BY user_id has still to remove
    delivered,  \* ids a client has received in its cookie
    rotations,  \* history: the rotations that have committed
    revoked     \* history: the ids a committed DELETE removed

table == <<stored, owner, expiresAt>>
locks == <<rowLock, userLock>>
locals == <<presented, started, draft, scan>>
history == <<delivered, rotations, revoked>>
vars == <<now, table, locks, pc, locals, history>>

(***************************************************************************)
(* A handler is idle; in GenerateRefreshToken ("save"); in Refresh         *)
(* ("consume", "rotate", "commit"); in Revoke ("delete"); in the tail of   *)
(* ResetPassword ("scan", "purge"); or it has its answer: "done" (a nil    *)
(* error), "rejected" (a domain error) or "failed" (any other error).      *)
(***************************************************************************)
Working == {"save", "consume", "rotate", "commit", "delete", "scan", "purge"}
Answer == {"done", "rejected", "failed"}

Rotation == [old: Token, new: Token, start: Nat, end: Nat]

TypeOK ==
    /\ now \in Nat
    /\ stored \subseteq Token
    /\ owner \in [Token -> User \cup {None}]
    /\ expiresAt \in [Token -> Nat]
    /\ rowLock \in [Token -> Handler \cup {None}]
    /\ userLock \in [User -> Handler \cup {None}]
    /\ pc \in [Handler -> {"idle"} \cup Working \cup Answer]
    /\ presented \in [Handler -> Token \cup {None}]
    /\ started \in [Handler -> Nat]
    /\ draft \in [Handler -> Token \cup {None}]
    /\ scan \in [Handler -> SUBSET Token]
    /\ delivered \subseteq Token
    /\ rotations \subseteq Rotation
    /\ revoked \subseteq Token

Init ==
    /\ now = 0
    /\ stored = {}
    /\ owner = [t \in Token |-> None]
    /\ expiresAt = [t \in Token |-> 0]
    /\ rowLock = [t \in Token |-> None]
    /\ userLock = [u \in User |-> None]
    /\ pc = [h \in Handler |-> "idle"]
    /\ presented = [h \in Handler |-> None]
    /\ started = [h \in Handler |-> 0]
    /\ draft = [h \in Handler |-> None]
    /\ scan = [h \in Handler |-> {}]
    /\ delivered = {}
    /\ rotations = {}
    /\ revoked = {}

-----------------------------------------------------------------------------
Goto(h, label) == pc' = [pc EXCEPT ![h] = label]

\* The database has done the work; the handler may still get an error, when
\* the connection breaks before the acknowledgement arrives.
Acknowledge(h) == \E answer \in {"done", "failed"} : Goto(h, answer)

\* Ids uuid.New() has not returned yet.
Fresh == {t \in Token : owner[t] = None}

\* Bound: an operation that will call uuid.New() starts only while the finite
\* set Token has an id for it and for every handler already on its way there.
IdsLeft == Cardinality({h \in Handler : pc[h] \in {"consume", "rotate"}})
               < Cardinality(Fresh)

\* domain.RefreshToken{ID: uuid.New(), UserID: u, ExpiresAt: time.Now() + Duration}
NewToken(h, u) ==
    \E t \in Fresh :
        /\ owner' = [owner EXCEPT ![t] = u]
        /\ expiresAt' = [expiresAt EXCEPT ![t] = now + Duration]
        /\ draft' = [draft EXCEPT ![h] = t]

\* Mutants of Valid: ">=" for ">", and a WHERE clause that forgets expires_at.
MutantValidAtBoundary(h, t) == t \in stored /\ expiresAt[t] >= started[h]
MutantValidForEver(h, t) == t \in stored

\* The WHERE clause of ConsumeRefreshToken, under the handler's NOW().
Valid(h, t) == t \in stored /\ expiresAt[t] > started[h]

\* What a COMMIT or a ROLLBACK does to the locks of the transaction.
Unlock(h) ==
    /\ rowLock' = [t \in Token |-> IF rowLock[t] = h THEN None ELSE rowLock[t]]
    /\ userLock' = [u \in User |-> IF userLock[u] = h THEN None ELSE userLock[u]]

Tick ==
    /\ now < MaxTime
    /\ now' = now + 1
    /\ UNCHANGED <<table, locks, pc, locals, history>>

-----------------------------------------------------------------------------
\* GenerateRefreshToken, called by Login and LoginWithOtp: build the row ...
GenerateRefreshToken(h, u) ==
    /\ pc[h] = "idle"
    /\ IdsLeft
    /\ NewToken(h, u)
    /\ Goto(h, "save")
    /\ UNCHANGED <<now, stored, locks, presented, started, scan, history>>

\* ... and insert it, outside any transaction of the server's.
Save(h) ==
    /\ pc[h] = "save"
    /\ stored' = stored \cup {draft[h]}
    /\ Acknowledge(h)
    /\ UNCHANGED <<now, owner, expiresAt, locks, locals, history>>

-----------------------------------------------------------------------------
\* Refresh and Revoke answer at once when the cookie is not a UUID.
RejectMalformed(h) ==
    /\ pc[h] = "idle"
    /\ Goto(h, "rejected")
    /\ UNCHANGED <<now, table, locks, locals, history>>

\* Refresh: BEGIN fixes NOW() for the rest of the transaction.
BeginRefresh(h, t) ==
    /\ pc[h] = "idle"
    /\ t \in delivered
    /\ IdsLeft
    /\ presented' = [presented EXCEPT ![h] = t]
    /\ started' = [started EXCEPT ![h] = now]
    /\ Goto(h, "consume")
    /\ UNCHANGED <<now, table, locks, draft, scan, history>>

\* Mutant of Consume: SELECT the row, without locking it.
MutantReadWithoutLock(h) ==
    /\ pc[h] = "consume"
    /\ Valid(h, presented[h])
    /\ Goto(h, "rotate")
    /\ UNCHANGED <<now, table, locks, locals, history>>

\* The UPDATE gets the row: it is valid and nobody else's transaction holds it.
\* The new expires_at stays invisible, and the row locked, until Commit.
Consume(h) ==
    /\ pc[h] = "consume"
    /\ Valid(h, presented[h])
    /\ rowLock[presented[h]] = None
    /\ rowLock' = [rowLock EXCEPT ![presented[h]] = h]
    /\ Goto(h, "rotate")
    /\ UNCHANGED <<now, table, userLock, locals, history>>

\* No row satisfies the WHERE clause: ErrNoRows, "", Unauthenticated.
ConsumeNothing(h) ==
    /\ pc[h] = "consume"
    /\ ~ Valid(h, presented[h])
    /\ Goto(h, "rejected")
    /\ UNCHANGED <<now, table, locks, locals, history>>

\* Mutant of SaveSuccessor: the successor is inserted on its own connection.
MutantSavedOutside(h) ==
    /\ pc[h] = "rotate"
    /\ \E t \in Fresh :
          /\ owner' = [owner EXCEPT ![t] = owner[presented[h]]]
          /\ expiresAt' = [expiresAt EXCEPT ![t] = now + Duration]
          /\ draft' = [draft EXCEPT ![h] = t]
          /\ stored' = stored \cup {t}
    /\ Goto(h, "commit")
    /\ UNCHANGED <<now, locks, presented, started, scan, history>>

\* Insert the successor, in the same transaction, and sign the access token.
SaveSuccessor(h) ==
    /\ pc[h] = "rotate"
    /\ NewToken(h, owner[presented[h]])
    /\ Goto(h, "commit")
    /\ UNCHANGED <<now, stored, locks, presented, started, scan, history>>

\* COMMIT: the old row expires at the transaction's NOW(), the new one appears.
Commit(h) ==
    /\ pc[h] = "commit"
    /\ stored' = stored \cup {draft[h]}
    /\ expiresAt' = [expiresAt EXCEPT ![presented[h]] = started[h]]
    /\ rotations' = rotations \cup {[old |-> presented[h], new |-> draft[h],
                                     start |-> started[h], end |-> now]}
    /\ Unlock(h)
    /\ Acknowledge(h)
    /\ UNCHANGED <<now, owner, locals, delivered, revoked>>

-----------------------------------------------------------------------------
\* Revoke, called by Logout.
BeginRevoke(h, t) ==
    /\ pc[h] = "idle"
    /\ t \in delivered
    /\ presented' = [presented EXCEPT ![h] = t]
    /\ Goto(h, "delete")
    /\ UNCHANGED <<now, table, locks, started, draft, scan, history>>

\* DELETE by id, in a transaction of its own; it waits for a locked row.
Delete(h) ==
    /\ pc[h] = "delete"
    /\ rowLock[presented[h]] = None
    /\ stored' = stored \ {presented[h]}
    /\ revoked' = revoked \cup (stored \cap {presented[h]})
    /\ Acknowledge(h)
    /\ UNCHANGED <<now, owner, expiresAt, locks, locals, delivered, rotations>>

-----------------------------------------------------------------------------
\* Mutant of UpdatePassword: the row of users is not locked, as if the tokens
\* were deleted first.
MutantPurgeFirst(h, u) ==
    /\ pc[h] = "idle"
    /\ userLock' = [userLock EXCEPT ![u] = h]
    /\ Goto(h, "scan")
    /\ UNCHANGED <<now, table, rowLock, locals, history>>

\* The tail of the ResetPassword transaction.  UpdatePassword comes first, so
\* the transaction holds the row of users when it goes for the tokens.
UpdatePassword(h, u) ==
    /\ pc[h] = "idle"
    /\ userLock[u] = None
    /\ userLock' = [userLock EXCEPT ![u] = h]
    /\ Goto(h, "scan")
    /\ UNCHANGED <<now, table, rowLock, locals, history>>

\* DeleteByUserID: the statement's snapshot fixes the rows it will remove.
DeleteByUserID(h, u) ==
    /\ pc[h] = "scan"
    /\ userLock[u] = h
    /\ scan' = [scan EXCEPT ![h] = {t \in stored : owner[t] = u}]
    /\ Goto(h, "purge")
    /\ UNCHANGED <<now, table, locks, presented, started, draft, history>>

\* It takes them one by one, waiting for those another transaction holds.
LockScanned(h, t) ==
    /\ pc[h] = "purge"
    /\ t \in scan[h] \cap stored
    /\ rowLock[t] = None
    /\ rowLock' = [rowLock EXCEPT ![t] = h]
    /\ UNCHANGED <<now, table, userLock, pc, locals, history>>

\* A row deleted since the snapshot was taken is passed over.
SkipDeleted(h, t) ==
    /\ pc[h] = "purge"
    /\ t \in scan[h] \ stored
    /\ scan' = [scan EXCEPT ![h] = @ \ {t}]
    /\ UNCHANGED <<now, table, locks, pc, presented, started, draft, history>>

CommitPurge(h) ==
    /\ pc[h] = "purge"
    /\ \A t \in scan[h] : rowLock[t] = h
    /\ stored' = stored \ scan[h]
    /\ revoked' = revoked \cup scan[h]
    /\ Unlock(h)
    /\ Acknowledge(h)
    /\ UNCHANGED <<now, owner, expiresAt, locals, delivered, rotations>>

-----------------------------------------------------------------------------
\* Anything that ends the request with nothing committed: a statement or the
\* COMMIT fails, signing fails, the client goes away and its context is
\* cancelled, the process dies.  The deferred tx.Rollback() (or the server,
\* when the connection is gone) releases the transaction's locks.
Abort(h) ==
    /\ pc[h] \in Working
    /\ Unlock(h)
    /\ Goto(h, "failed")
    /\ UNCHANGED <<now, table, locals, history>>

\* Mutant of Return: the cookie is set whatever the error says.
MutantCookieAnyway(h) ==
    /\ pc[h] \in Answer
    /\ delivered' = delivered \cup ({draft[h]} \ {None})
    /\ Goto(h, "idle")
    /\ presented' = [presented EXCEPT ![h] = None]
    /\ started' = [started EXCEPT ![h] = 0]
    /\ draft' = [draft EXCEPT ![h] = None]
    /\ scan' = [scan EXCEPT ![h] = {}]
    /\ UNCHANGED <<now, table, locks, rotations, revoked>>

\* The handler writes its response.  Only a nil error sets the cookie.
Return(h) ==
    /\ pc[h] \in Answer
    /\ delivered' = IF pc[h] = "done" THEN delivered \cup ({draft[h]} \ {None})
                                      ELSE delivered
    /\ Goto(h, "idle")
    /\ presented' = [presented EXCEPT ![h] = None]
    /\ started' = [started EXCEPT ![h] = 0]
    /\ draft' = [draft EXCEPT ![h] = None]
    /\ scan' = [scan EXCEPT ![h] = {}]
    /\ UNCHANGED <<now, table, locks, rotations, revoked>>

-----------------------------------------------------------------------------
\* What the environment decides: a request arrives, or one is cut short.
Arrive(h) ==
    \/ \E u \in User : GenerateRefreshToken(h, u)
    \/ RejectMalformed(h)
    \/ \E t \in Token : BeginRefresh(h, t)
    \/ \E t \in Token : BeginRevoke(h, t)
    \/ \E u \in User : UpdatePassword(h, u)

\* What a handler does by itself, without waiting for anybody ...
Proceed(h) ==
    \/ Save(h)
    \/ ConsumeNothing(h)
    \/ SaveSuccessor(h)
    \/ Commit(h)
    \/ \E u \in User : DeleteByUserID(h, u)
    \/ \E t \in Token : SkipDeleted(h, t)
    \/ CommitPurge(h)
    \/ Return(h)

\* ... and when the row it needs is free.
TakeRow(h) ==
    \/ Consume(h)
    \/ Delete(h)
    \/ \E t \in Token : LockScanned(h, t)

Next == Tick \/ \E h \in Handler : Arrive(h) \/ Proceed(h) \/ TakeRow(h) \/ Abort(h)

Spec == Init /\ [][Next]_vars

-----------------------------------------------------------------------------
(* What the component promises.                                            *)

\* One rotation encloses another when its transaction began strictly earlier
\* and committed no earlier.
Encloses(outer, inner) == outer.start < inner.start /\ inner.end <= outer.end

\* A refresh token is consumed inside the transaction that stores its
\* successor (refreshTokenService.Refresh), and what makes it invalid is an
\* expires_at moved to that transaction's NOW().  So two rotations of one
\* token are never in sequence or partly overlapping: one encloses the other.
\* In particular a refresh that begins after the token was rotated is refused.
NestedRotations ==
    \A r, q \in rotations :
        r.old = q.old /\ r # q => Encloses(r, q) \/ Encloses(q, r)

\* Logout and password reset DELETE the row.  A Refresh that was under way does
\* not bring it back: no later step stores the id again, and a rotation that
\* commits was of a token that is not revoked, however their steps interleave.
RevocationIsFinal ==
    [][/\ revoked \cap stored' = {}
       /\ \A r \in rotations' \ rotations : r.old \notin revoked]_vars

\* Save and Commit precede the response that carries the cookie: an id that
\* reached a client names a committed row, until it is revoked.  No failure
\* between the INSERT and the answer hands out a token the database never had.
DeliveredIsBacked == delivered \subseteq stored \cup revoked

\* Consuming writes NOW(), the past, over an expires_at that must lie after
\* it (re-read after the wait for the row): no step revives a token or lets it
\* live longer than Login or Refresh promised.
NeverRevived ==
    [][\A t \in stored \cap stored' : expiresAt'[t] <= expiresAt[t]]_vars

\* Handler h needs a row that the transaction of g has locked.
WaitsFor(h, g) ==
    /\ g # h
    /\ g \in Handler
    /\ \/ pc[h] = "consume" /\ Valid(h, presented[h]) /\ rowLock[presented[h]] = g
       \/ pc[h] = "delete" /\ rowLock[presented[h]] = g
       \/ pc[h] = "purge" /\ \E t \in scan[h] : rowLock[t] = g

\* Refresh locks one row and needs no other; two resets of one user would lock
\* the same rows in any order, but the row of users, updated first, serialises
\* them (AuthService.ResetPassword).  So no group of transactions waits only
\* for its own members.
NoDeadlock ==
    \A group \in SUBSET Handler :
        group # {} => \E h \in group : \A g \in group : ~ WaitsFor(h, g)

-----------------------------------------------------------------------------
(* Why they hold: what is true between any two statements.                 *)

\* A locked row is committed, and belongs to a Refresh between its UPDATE and
\* its end, or to a purge that has it on its list.  A purge holds one user's
\* row, and lists only that user's tokens.
LockDiscipline ==
    /\ \A t \in Token : rowLock[t] # None =>
          /\ t \in stored
          /\ \/ pc[rowLock[t]] \in {"rotate", "commit"} /\ presented[rowLock[t]] = t
             \/ pc[rowLock[t]] = "purge" /\ t \in scan[rowLock[t]]
    /\ \A u \in User : userLock[u] # None => pc[userLock[u]] \in {"scan", "purge"}
    /\ \A u, v \in User : userLock[u] # None /\ userLock[u] = userLock[v] => u = v
    /\ \A h \in Handler :
          /\ started[h] <= now
          /\ pc[h] \in {"consume", "delete"} => presented[h] \in Token
          /\ pc[h] \in {"rotate", "commit"} =>
                /\ presented[h] \in Token
                /\ rowLock[presented[h]] = h
                /\ started[h] < expiresAt[presented[h]]
          /\ pc[h] = "purge" =>
                \A t \in scan[h] : owner[t] \in User /\ userLock[owner[t]] = h

\* An id is drawn once, is in no table while its row is a draft, and names a
\* row, or the memory of one, as soon as a client may have it.
DraftDiscipline ==
    /\ stored \cap revoked = {}
    /\ \A t \in stored \cup revoked : owner[t] # None
    /\ DeliveredIsBacked
    /\ \A h \in Handler : draft[h] # None =>
          /\ owner[draft[h]] # None
          /\ pc[h] \in {"save", "commit"} \cup Answer
          /\ pc[h] \in {"save", "commit"} =>
                /\ draft[h] \notin stored \cup revoked
                /\ expiresAt[draft[h]] \in Duration..(now + Duration)
          /\ pc[h] = "done" => draft[h] \in stored \cup revoked
    /\ \A h \in Handler :
          /\ pc[h] \in {"save", "commit"} => draft[h] # None
          /\ pc[h] = "commit" => owner[draft[h]] = owner[presented[h]]
    /\ \A g, h \in Handler : draft[g] = draft[h] /\ draft[h] # None => g = h

\* A rotated token expired no later than any of its rotations began.
RotationDiscipline ==
    \A r \in rotations :
        /\ r.start <= r.end /\ r.end <= now
        /\ r.old \in stored \cup revoked
        /\ r.old \in stored => expiresAt[r.old] <= r.start

Inv == TypeOK /\ LockDiscipline /\ DraftDiscipline /\ RotationDiscipline /\ NestedRotations

-----------------------------------------------------------------------------
\* The ledger as the committed rows show it.
Ledger == INSTANCE TokenLedger WITH
    ledger <- [t \in Token |->
                 IF t \in stored THEN [user |-> owner[t], expires |-> expiresAt[t]]
                                 ELSE None],
    gone <- revoked

\* Interleaved statement by statement, sign-ins, rotations, logouts and resets
\* leave the table as if each had happened at one instant, its COMMIT, or not
\* at all: a failure in any of them is not half of an operation.
ImplementsLedger == Ledger!LedgerSpec

-----------------------------------------------------------------------------
(* What the documentation says of rotation.                                *)

\* README: refreshing "consumes the current refresh token".  Read literally, a
\* token is consumed once.
RotatedAtMostOnce == \A r, q \in rotations : r.old = q.old => r = q
=============================================================================
