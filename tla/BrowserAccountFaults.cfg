SPECIFICATION Spec
CONSTANTS
    Tabs = {t1}
    Servers = {s1}
    Users = {u1, u2}
    Keys = {k0, k1}
    Calls = {c1, c2}
    OldKey = k0
    None = None
SYMMETRY Symmetry
INVARIANTS
    SessionIsOnePerson
    PasskeyOpensOwnKey
    AccountKeyWasKept
