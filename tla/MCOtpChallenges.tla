--------------------------- MODULE MCOtpChallenges ---------------------------
(* OtpChallenges on small instances.                                        *)
EXTENDS OtpChallenges, TLC

\* For the safety runs only.
Interchangeable == Permutations(Handler) \cup Permutations(Email)
                   \cup Permutations(Challenge) \cup Permutations(Code)
=============================================================================
