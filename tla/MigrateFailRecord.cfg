SPECIFICATION Spec
CONSTANTS
    Objects = {1, 2}
    Strict = {2}
    Irreversible = {}
    Fallible = {2}
    Migrators = {m1}
    Rollers = {}
    RollCount = 1
    Nobody = Nobody
INVARIANT FailureRecorded
CHECK_DEADLOCK FALSE
