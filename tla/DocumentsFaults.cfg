\* Three handlers on one document, every kind of failure.
SPECIFICATION Spec
CONSTANTS
    Users = {u1, u2}
    Accounts = {u1, u2}
    Docs = {d1}
    Requests = {r1, r2, r3}
    Faults = {"crash", "storage", "commit"}
    None = None
SYMMETRY Symmetry
INVARIANTS
    OwnerKeepsAccess
    AuditTellsAccess
    DeletedBlobIsGone
    NoticeIsCommitted
PROPERTIES
    ServedWhileEntitled
    ImplementsAccessControl
