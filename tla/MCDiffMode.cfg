SPECIFICATION DiffSpec
CONSTANTS
    p1 = p1
    p2 = p2
    Processes = {p1, p2}
    Paths = {"a1", "a2", "b1", "g", "Cargo.toml"}
    Members = {"A", "B"}
    CratesOf <- MCCratesOf
    NamedCrate <- MCNamedCrate
    Manifests = {"Cargo.toml"}
    Trees <- MCTrees
    Flawed = {2}
    First <- MCFirst
    MaxCommits = 2
    LockRetries = 1
    Renames = TRUE
SYMMETRY MCSymmetry
INVARIANTS
    InsertedIsKept
    LossesConfined
    CachedUnlessMoved
