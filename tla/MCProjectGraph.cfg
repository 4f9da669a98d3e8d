SPECIFICATION GraphSpec
CONSTANTS
    SourcePaths <- MCPaths
    Texts <- MCTexts
    FeatureFlags = {"asm", "std"}
    MaxWalked = 4
    MaxNodes = 4
    MaxHops = 2
INVARIANTS
    ViewIsForest
    NearestFirst
CHECK_DEADLOCK FALSE
