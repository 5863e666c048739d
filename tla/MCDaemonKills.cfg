SPECIFICATION Spec
CONSTANTS
    p1 = p1
    p2 = p2
    c1 = c1
    c2 = c2
    Procs = {p1, p2}
    Clients = {c1, c2}
    None = None
    CleanExits = FALSE
    Direct = {}
    MaxStarts = 3
    MaxCalls = 4
CHECK_DEADLOCK FALSE
INVARIANTS
    OneServer
    AcknowledgedIsOnDisk
    ReadsAreFresh
    IndInv
