\* Two overlapping requests, two users with an address each, one challenge, two
\* reset tokens and one session; what expires, expires at once.
SPECIFICATION RecoverySpec
CONSTANTS
    Handler = {h1, h2}
    User = {u1, u2}
    Email = {u1, u2}
    UserOf <- Self
    Token = {t1}
    None = none
    Duration = 1
    MaxTime = 1
    Password = {p1}
    Reset = {r1, r2}
    ResetDuration = 1
    Challenge = {c1}
    Code = {k1}
    MaxAttempts = 1
    OtpDuration = 1
SYMMETRY Interchangeable
INVARIANTS OneDoor ResetsArePaidFor DoorDiscipline
PROPERTY ImplementsSessions
