SPECIFICATION Spec
CONSTANTS
    t1 = t1
    t2 = t2
    t3 = t3
    Tasks = {t1, t2, t3}
    Main = Main
    NoTask = NoTask
    Calls = {"handle", "detached", "scope", "timeout"}
    Waiters = {Main}
    MaxBlocking = 2
    MaxDetached = 1
SYMMETRY TaskSymmetry
INVARIANTS DetachedAccounting ResultsSafe
CHECK_DEADLOCK FALSE
