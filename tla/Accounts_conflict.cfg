\* Two registrations, one after the other, with one name and two addresses.
SPECIFICATION Spec
CONSTANTS
    Handler = {h1}
    Email = {e1, e2}
    Username = {n1}
    UserId = {i1, i2, i3}
    None = none
INVARIANT ConflictIsAboutEmail
