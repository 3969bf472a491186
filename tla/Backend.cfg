SPECIFICATION Spec
CONSTANTS
    Arms <- MCArms
    TVars <- MCTVars
    Exprs <- MCExprs
    Anns <- MCAnns
    MaxStmts = 4
    MaxNest = 2
    Programs <- MCPrograms
    MaxInteger = 3
    Iterations = 9
    Templates <- MCTemplates
    Structs <- MCStructs
    Firsts <- MCFirsts
    Rests <- MCRests
    MaxEmitted = 6
    CallDepth = 4
    FirstValues <- MCFirstValues
    MaxInt = 255
    MaxApplied = 2
    LongestText = 10
    Methods = {"len", "charAt", "substring", "concat", "indexOf", "toUpper", "toLower", "replace", "trim", "reverse", "contains", "startsWith", "endsWith", "repeat", "charCode", "countSubstr", "split"}
    BinaryOps = {"+", "-", "*", "/", "%", "==", "!=", "<", "<=", ">", ">=", "&&", "||"}
    BVars = {"x", "y"}
    MaxEvents = 5
    MaxDepth = 2
    Base = "a"
    Alias = "b"
    NoVar = "-"
    Blocks <- MCBlocks
    Bodies <- MCBodies
    FnKinds = {"void", "fallible", "value"}
    Answers <- MCAnswers
    Fields <- MCFields
    ModelName = "Task"
    Chains <- MCChains
    TableContents <- MCContents
    Likes <- MCLikes
    Vars = {"x", "y"}
    Types <- MCTypes
    MaxCells = 8
    Values = {1, 2, 3}
    MaxLen = 3
    TwoTo32 = 6
    Keys = {11, 12, 13}
    Vals = {1, 2}
    Default = 0
INVARIANTS
    MatchSound
    TypesSound
    LoopsAsWritten
    GenericsResolved
    
    
    DropsSound
    MirFaithful
    QueriesSound
    
PROPERTIES
    ArrayIsSequence
    
CHECK_DEADLOCK FALSE
