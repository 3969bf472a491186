SPECIFICATION FairSpec
CONSTANTS
    Procs = {p1, p2}
    Callers = {c1, c2}
    MaxSpawned = 1
    Chatty = {p1}
    Daemons = {}
    Shutters = {c1}
    NoProc = NoProc
    Nobody = Nobody
PROPERTIES RegistrySound CallsReturn
CHECK_DEADLOCK FALSE
