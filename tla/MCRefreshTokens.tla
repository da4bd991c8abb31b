--------------------------- MODULE MCRefreshTokens ---------------------------
(* RefreshTokens on small instances.                                        *)
EXTENDS RefreshTokens, TLC

\* Handlers, users and tokens are interchangeable.  The safety runs use this;
\* the liveness run must not.
Interchangeable == Permutations(Handler) \cup Permutations(User) \cup Permutations(Token)
=============================================================================
