\* Two overlapping requests, two refresh tokens and two reset tokens of one user,
\* an old and a new password; tokens of either kind expire.
SPECIFICATION SessionsSpec
CONSTANTS
    Handler = {h1, h2}
    User = {u1}
    Token = {t1, t2}
    None = none
    Duration = 1
    MaxTime = 1
    Password = {p1, p2}
    Reset = {r1, r2}
    ResetDuration = 1
SYMMETRY Interchangeable
INVARIANTS SessionsInv OnlyRacersOutliveReset ResetTokenUsedOnce ResetsAreWhole NoResetDeadlock
PROPERTY ImplementsRefreshTokens
