\* Two registrations at a time over two addresses and two names; ids for two
\* accounts and two requests.  No symmetry: it is unsound for liveness.
SPECIFICATION FairSpec
CONSTANTS
    Handler = {h1, h2}
    Email = {e1, e2}
    Username = {n1, n2}
    UserId = {i1, i2, i3, i4}
    None = none
INVARIANTS UniqueAccounts AnswersAreTrue AccountsInv NoRegistrationDeadlock
PROPERTY EveryRequestAnswered
