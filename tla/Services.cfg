SPECIFICATION Spec
CONSTANTS
    Methods = {"GET", "POST"}
    Patterns = {"a", "b"}
    Middleware = {"jwt", "log"}
    BuiltinMiddleware = {"jwt"}
    MaxOps = 3
    Batches <- MCBatches
    Threads = {1, 2}
    Routes <- MCRoutes
    BuiltinPaths = {"/health"}
    Cors = TRUE
    RateMax = 1
    RateWindow = 2
    MaxClock = 2
    CallBatches <- MCCalls
    Rows <- MCRows
    Policy <- MCPolicy
    Visible <- MCVisible
    Writable <- MCWritable
    Hierarchies <- MCHierarchies
    Configs <- MCConfigs
    DbBacked = TRUE
    HasPrimary = TRUE
    MaxRecords = 2
    Nobody = 0
    Anything = "any"
    Emails = {"e", "f"}
    Passwords = {"p", "q"}
    Providers = {"google", "github"}
    StateTTL = 1
    ResetTTL = 1
    AccessTTL = 1
    RefreshTTL = 2
    MaxPending = 1
    Scripts <- MCScripts
    MaxTime = 2
    Callers = {1, 2, 3}
    Connectors = {1, 2}
    CallKinds = {"raw", "transaction", "batch"}
    MaxQueries = 2
    PoolSize = 1
    Attempts = 2
    Statements = 2
    MaxCalls = 1
    Samples <- MCSamples
    Half <- MCHalf
    Programs <- MCPrograms4
    TableOrder <- MCTableOrder
    MaxRuns = 3
    Written <- MCWritten
    Received <- MCReceived
    Normal <- MCNormal
    Capital <- MCCapital
    MaxJsonSize = 40
    MinCapacity = 4
    MaxNestingDepth = 2
INVARIANTS
    
    
    
    DbSound
    
    JsonSound
PROPERTIES
    RoutesRight
CHECK_DEADLOCK FALSE
