\* One handler is enough: wrong codes to the reset endpoint, then the right one
\* to the login endpoint.
SPECIFICATION Spec
CONSTANTS
    Handler = {h1}
    Email = {e1}
    Challenge = {c1}
    Code = {k1, k2}
    None = none
    MaxAttempts = 1
    Duration = 1
    MaxTime = 0
PROPERTY BlockedIsNotConsumed
