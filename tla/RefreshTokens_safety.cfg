\* Two handlers; a sign-in and two rotations (three ids) suffice for two
\* rotations of one token.  Tokens also expire by themselves, at time 2.
SPECIFICATION Spec
CONSTANTS
    Handler = {h1, h2}
    User = {u1}
    Token = {t1, t2, t3}
    None = none
    Duration = 2
    MaxTime = 2
SYMMETRY Interchangeable
INVARIANTS Inv NestedRotations DeliveredIsBacked
PROPERTIES RevocationIsFinal NeverRevived ImplementsLedger
