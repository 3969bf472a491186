SPECIFICATION Spec
CONSTANTS
    SourceTexts <- MCSourceTexts
    MaxStringLength = 6
    MaxIdentifierLength = 3
    MaxTokenCount = 6
    MaxHex = 2
    PIdents = {"a", "b", "T", "panic", "get", "self"}
    Capitals = {"T"}
    PTemplates <- MCPTemplates
    MaxExprDepth = 5
    Inputs <- MCInputs
    Mods <- MCMods
    Graphs <- MCGraphs
    Files <- MCFiles
    Main = "main"
    StdItems <- MCStdItems
    ItemsOf <- MCItemsOf
    Projects <- MCPrograms
    Entries = {"a", "b"}
    Uses <- MCUses
    Texts <- MCTexts
    Runners = {1, 2}
    Layouts <- MCLayouts
    SearchDepth = 1
    MaxOps = 4
    Uris = {"a", "b"}
    Buffers <- MCLspTexts
    MaxSent = 4
INVARIANTS
    LexesRight
    CyclesFound
    
    
    
PROPERTIES
    ParsesRight
CHECK_DEADLOCK FALSE
