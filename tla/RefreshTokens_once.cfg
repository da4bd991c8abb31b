\* The smallest instance in which a token can be rotated twice.
SPECIFICATION Spec
CONSTANTS
    Handler = {h1, h2}
    User = {u1}
    Token = {t1, t2, t3}
    None = none
    Duration = 2
    MaxTime = 1
SYMMETRY Interchangeable
INVARIANT RotatedAtMostOnce
