SPECIFICATION Spec
CONSTANTS
    p1 = p1
    p2 = p2
    c1 = c1
    c2 = c2
    Procs = {p1, p2}
    Clients = {c1, c2}
    None = None
    CleanExits = TRUE
    Direct = {"no_socket", "flag"}
    MaxStarts = 2
    MaxCalls = 2
CHECK_DEADLOCK FALSE
PROPERTIES
    EveryCallReturns
    ShutdownEnds
