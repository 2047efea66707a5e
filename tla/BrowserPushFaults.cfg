SPECIFICATION WebSpec
CONSTANTS
    Users = {u1, u2}
    Docs = {d1}
    Devices <- MCDevices
    Calls = {c1, c2}
    SoftDismissLimit = 1
    MaxEndpoints = 2
    MaxClicks = 6
    None = None
SYMMETRY Symmetry
INVARIANTS
    LiveRowIsTheAskers
    
CHECK_DEADLOCK FALSE
