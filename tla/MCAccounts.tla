----------------------------- MODULE MCAccounts ------------------------------
(* Accounts on small instances.                                             *)
EXTENDS Accounts, TLC

\* Handlers, addresses, names and ids are interchangeable (safety runs only).
Interchangeable ==
    Permutations(Handler) \cup Permutations(Email) \cup Permutations(Username)
        \cup Permutations(UserId)
=============================================================================
