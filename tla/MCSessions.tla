----------------------------- MODULE MCSessions ------------------------------
(* Sessions on small instances.                                             *)
EXTENDS Sessions, TLC

\* Handlers, ids, passwords and reset tokens are interchangeable.
Interchangeable ==
    Permutations(Handler) \cup Permutations(User) \cup Permutations(Token)
        \cup Permutations(Password) \cup Permutations(Reset)
=============================================================================
