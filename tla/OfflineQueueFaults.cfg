\* One tab, an upload, a deletion and a push of the key, every failure.
SPECIFICATION FairSpec
CONSTANTS
    Uploads = {f1}
    Deletes = {d1}
    Pushes = 1
    Tabs = {t1}
    Faults = {"lost", "refused", "killed", "expiry"}
    MaxLost = 1
    None = None
INVARIANTS
    RepeatNeedsLostAnswer
PROPERTIES
    ImplementsOutbox
    QueueDrains
