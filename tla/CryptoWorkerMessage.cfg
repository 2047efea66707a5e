SPECIFICATION Spec
CONSTANTS
    Pages = {g1}
    Users = {u1}
    Passphrases = {p1, p2}
    Keys = {k1}
    File <- MCFile
    MaxClicks = 1
    Garbled = Garbled
    None = None
CHECK_DEADLOCK FALSE
INVARIANTS
    WrongPassphraseIsSaid
