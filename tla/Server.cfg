SPECIFICATION FairSpec
CONSTANTS
    Conns = {k1, k2, k3}
    MaxConns = 2
INVARIANTS ConnAccounting DrainedHonest
PROPERTY ServerLive
CHECK_DEADLOCK FALSE
