\* No symmetry: it is unsound for liveness.  Two ids for a rotation, two reset tokens for
\* resets that meet at their row and at the row of their user.
SPECIFICATION FairSessions
CONSTANTS
    Handler = {h1, h2}
    User = {u1}
    Token = {t1, t2}
    None = none
    Duration = 1
    MaxTime = 0
    Password = {p1}
    Reset = {r1, r2}
    ResetDuration = 1
PROPERTY EverySessionRequestAnswered
