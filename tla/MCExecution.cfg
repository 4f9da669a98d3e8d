SPECIFICATION ExecutionSpec
CONSTANTS
    NodeIds = {1, 2}
    TopTick = 3
    MaxSteps = 3
    Durations = {0, 2}
    ShrinkLimit = 3
    Nodes = {n1, n2, n3}
    Values = {a, b}
    Messages = {m1, m2}
    Ticks = 2
    Builders = {b1, b2}
    Crates = {"m", "n"}
    RustFiles = {"f", "g"}
    LineNos = {1}
    Stamps = {1, 2}
    Gates = {g1, g2}
    Asserts = {"stub", "required", "other"}
    Counted = {"stub", "required", "other"}
    Sources <- MCSources
    GateRetries = {0, 2}
    GateTimes = 1
    MaxPaths = 2
    FindingIds = {"r"}
    Locations = {"p", "q"}
    Collectable <- MCCollectable
    MaxCollected = 3
    MaxReports = 2
    Packed = {"f"}
    PackFiles = {"a", "b"}
    MaxPacks = 2
INVARIANTS
    ExecutionTypeOK
    ViolationsMatchScript
    MonitorExact
    SmokeTestsOwn
    RunsOwnHarness
    KeptIsStrongest
    ManifestNotAhead
    ExportIsOnePack
CHECK_DEADLOCK FALSE
