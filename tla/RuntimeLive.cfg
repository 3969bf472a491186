SPECIFICATION FairSpec
CONSTANTS
    t1 = t1
    t2 = t2
    t3 = t3
    Tasks = {t1, t2}
    Main = Main
    NoTask = NoTask
    Calls = {"handle", "detached", "scope", "timeout"}
    Waiters = {Main}
    MaxBlocking = 1
    MaxDetached = 1
PROPERTY EverythingReturns
CHECK_DEADLOCK FALSE
