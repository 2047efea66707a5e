SPECIFICATION Spec
CONSTANTS
    u1 = u1
    u2 = u2
    d1 = d1
    d2 = d2
    Users = {u1, u2}
    Docs = {d1, d2}
    Calls = {c1, c2}
    Owner <- MCOwner
    MaxPuts = 1
    MaxClicks = 6
    None = None
SYMMETRY Symmetry
INVARIANTS
    RowNamesAreTheirs
    NamesWereWrappedForReader
    GrantsOpen
    LoadingIsServed
CHECK_DEADLOCK FALSE
