\* Two handlers, two users, every failure.
SPECIFICATION Spec
CONSTANTS
    Users = {u1, u2}
    Challenges = {c1, c2}
    Tokens = {t1, t2}
    Requests = {r1, r2}
    Faults = {"crash", "commit"}
    None = None
SYMMETRY Symmetry
INVARIANTS
    LogoutIsFinal
PROPERTIES
    NoRouteAfterLogout
    AnswerSpendsChallenge
