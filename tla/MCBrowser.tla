------------------------------ MODULE MCBrowser ------------------------------
(* Browser on a small instance.                                             *)
EXTENDS Browser, TLC

Interchangeable == Permutations(User) \cup Permutations(Token) \cup Permutations(Request)
=============================================================================
