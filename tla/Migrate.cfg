SPECIFICATION FairSpec
CONSTANTS
    Objects = {1, 2, 3}
    Strict = {2}
    Irreversible = {3}
    Fallible = {2}
    Migrators = {m1, m2}
    Rollers = {r1}
    RollCount = 2
    Nobody = Nobody
INVARIANT AloneInside
PROPERTIES RecordsTrue RunsEnd
CHECK_DEADLOCK FALSE
