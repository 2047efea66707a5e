\* Two handlers, two documents, nothing fails.
SPECIFICATION FairSpec
CONSTANTS
    Users = {u1, u2}
    Accounts = {u1}
    Docs = {d1, d2}
    Requests = {r1, r2}
    Faults = {}
    None = None
INVARIANTS
    LiveHasBlob
    
    IndInv
PROPERTIES
    EveryRequestIsAnswered
