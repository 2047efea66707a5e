\* Two handlers, an authenticator that counts and one that does not, a
\* registration and a login.
SPECIFICATION Spec
CONSTANTS
    Users = {u1, u2}
    Keys = {k1, k2}
    Synced = {k2}
    Challenges = {c1, c2}
    Requests = {r1, r2}
    Faults = {"crash", "commit"}
    None = None
SYMMETRY Symmetry
INVARIANTS
    CounterStopsReplay
    ReplayIsConcurrent
    FiledForRequester
PROPERTIES
    RefusalSpendsChallenge
