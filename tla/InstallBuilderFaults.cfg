SPECIFICATION BuilderSpec
CONSTANTS
    Tabs = {t1, t2}
    Secrets = {s1, s2}
    Links <- MCLinks
    Other <- MCOther
    Amounts <- MCAmounts
    Garbage = Garbage
    Edited <- MCEdited
    MaxClicks = 4
    None = None
SYMMETRY Symmetry
CHECK_DEADLOCK FALSE
INVARIANTS
    SecretsAreMarked
    LinkReopens
    ForgottenIsGone
    ReferencesAreExported
