\* One address, two challenges, a right and a wrong code, one expiry.  The second
\* challenge replaces the first, which may be on its way out.
SPECIFICATION Spec
CONSTANTS
    Handler = {h1, h2}
    Email = {e1}
    Challenge = {c1, c2}
    Code = {k1, k2}
    None = none
    MaxAttempts = 2
    Duration = 1
    MaxTime = 1
SYMMETRY Interchangeable
INVARIANTS SingleUse GuessBudget StoredWasEmailed OwnerAlwaysFound GrantedWasEmailed NoCodeDeadlock
PROPERTIES ImplementsOneTimeCodes OnlyDeletedIsReplaced
