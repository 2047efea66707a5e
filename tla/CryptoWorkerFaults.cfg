SPECIFICATION Spec
CONSTANTS
    Pages = {g1, g2}
    Users = {u1, u2}
    Passphrases = {p1, p2}
    Keys = {k1, k2, k3}
    File <- MCFile
    MaxClicks = 3
    Garbled = Garbled
    None = None
SYMMETRY Symmetry
CHECK_DEADLOCK FALSE
INVARIANTS
    AccountOpens
    ReadIsOneDocument
    NoCallIsLost
PROPERTIES
    RecipientsOpen
