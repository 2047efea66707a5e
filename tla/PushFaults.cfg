\* Two users with two browsers, a sender, every failure.
SPECIFICATION Spec
CONSTANTS
    Users = {u1, u2}
    Endpoints = {e1, e2}
    Ids = {i1, i2}
    Requests = {r1, r2}
    Tasks = {n1}
    Faults = {"crash", "commit", "service"}
    None = None
SYMMETRY Symmetry
INVARIANTS
    OneRowPerEndpoint
PROPERTIES
    SenderKeepsTenant
    SendIsAllOrNothing
