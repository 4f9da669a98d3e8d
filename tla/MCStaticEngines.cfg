SPECIFICATION StaticSpec
CONSTANTS
    FnNames = {"f", "g"}
    Types = {"T"}
    MaxLines = 3
    MaxBuilds = 3
    Symbols = {"a", "xa", "b"}
    Containing <- MCContaining
    SymbolTail <- MCTail
    MaxFiles = 1
    MaxVectors = 2
    RuleIds = {1, 2}
    Names = {"x"}
    Checks = {"c", "d"}
    RustPaths = {"f"}
    FileLines = 4
    SnippetLines = 2
    MaxRules = 1
    MaxVisits = 2
    Functions = {"e", "f", "g", "h"}
    Entries = {"e", "f"}
    NearDepth = 1
    MaxEdges = 3
    Prime = 2
    Draws = {0, 1}
    Expressions <- MCExpressions
    MaxCircomLines = 3
    MaxConstraints = 2
    Chips = {"R", "XR", "C"}
    RangeChips = {"R", "XR"}
    Within <- MCWithin
    Columns = {"a"}
    Selectors = {"s"}
    MaxImpls = 2
    MaxTests = 2
INVARIANTS
    
    AbsenceIsReal
    MatchesCoverHits
    SeverityFollowsDistance
    VerdictAboutCircuit
    ChipFindingsExact
CHECK_DEADLOCK FALSE
