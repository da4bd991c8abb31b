\* No symmetry: it is unsound for liveness.  No clock and one code: neither makes a
\* handler wait.
SPECIFICATION FairSpec
CONSTANTS
    Handler = {h1, h2}
    Email = {e1}
    Challenge = {c1, c2}
    Code = {k1}
    None = none
    MaxAttempts = 1
    Duration = 1
    MaxTime = 0
PROPERTY EveryRequestAnswered
