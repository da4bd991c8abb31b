------------------------------ MODULE MCRecovery ------------------------------
(***************************************************************************)
(* Recovery with an instance that TLC can exhaust.  An address is its      *)
(* user: Email and User are one set, so that permuting it is sound.        *)
(***************************************************************************)
EXTENDS Recovery, TLC

Self == [u \in User |-> u]

Interchangeable ==
    Permutations(Handler) \cup Permutations(Challenge) \cup Permutations(Reset) \cup Permutations(User)
=============================================================================
