----------------------------- MODULE TokenLedger -----------------------------
(***************************************************************************)
(* What the refresh-token component promises to the rest of the program,   *)
(* without transactions, locks or handlers: a ledger of tokens in which a  *)
(* sign-in, a rotation and a revocation each happen at one instant or not  *)
(* at all.  RefreshTokens implements it.                                   *)
(*                                                                         *)
(* The ledger is candid about time.  A rotation is judged and dated at the *)
(* moment its transaction began (NOW() in PostgreSQL), and a token's life  *)
(* is counted from the moment the server built it; both may lie before the *)
(* instant at which the entry changes.                                     *)
(***************************************************************************)
EXTENDS Naturals

CONSTANTS User, Token, None, Duration

VARIABLES
    now,
    ledger,     \* the entry of a token that exists, None for one that does not
    gone        \* the tokens that were revoked

Existing == {t \in Token : ledger[t] # None}

LedgerInit ==
    /\ now = 0
    /\ ledger = [t \in Token |-> None]
    /\ gone = {}

\* The entry of a token built at a given moment.
NewEntry(u, built) == [user |-> u, expires |-> built + Duration]

\* A sign-in.
Issue(t, u) ==
    /\ t \notin Existing \cup gone
    /\ \E built \in 0..now : ledger' = [ledger EXCEPT ![t] = NewEntry(u, built)]
    /\ UNCHANGED <<now, gone>>

\* A rotation: t was still good when the rotation began, and ceases to be good
\* from that moment on, at the same instant at which s begins to exist.
Rotate(t, s) ==
    /\ t \in Existing
    /\ s \notin Existing \cup gone
    /\ \E began, built \in 0..now :
          /\ began < ledger[t].expires
          /\ ledger' = [ledger EXCEPT ![t] = [user |-> @.user, expires |-> began],
                                      ![s] = NewEntry(ledger[t].user, built)]
    /\ UNCHANGED <<now, gone>>

\* A logout or a password reset: tokens of one user cease to exist together.
Revoke(S, u) ==
    /\ \A t \in S : t \in Existing /\ ledger[t].user = u
    /\ ledger' = [t \in Token |-> IF t \in S THEN None ELSE ledger[t]]
    /\ gone' = gone \cup S
    /\ UNCHANGED now

TimePasses == now' = now + 1 /\ UNCHANGED <<ledger, gone>>

LedgerNext ==
    \/ \E t \in Token, u \in User : Issue(t, u)
    \/ \E t, s \in Token : Rotate(t, s)
    \/ \E S \in SUBSET Existing, u \in User : Revoke(S, u)
    \/ TimePasses

LedgerSpec == LedgerInit /\ [][LedgerNext]_<<now, ledger, gone>>
=============================================================================
