\* Two overlapping requests, two users, two tokens; a token of either kind
\* expires while the clock runs.
SPECIFICATION Spec
CONSTANTS
    User = {u1, u2}
    Token = {t1, t2}
    Request = {r1, r2}
    None = none
    Malformed = malformed
    Duration = 1
    AccessDuration = 1
    Second = 2
    MaxTime = 2
SYMMETRY Interchangeable
INVARIANTS HeldTokenIsGood OneIdentity SignedOutStaysOut
PROPERTIES RefusalIsFinal AccessIsTimely
