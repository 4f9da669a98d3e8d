SPECIFICATION LiveSpec
CONSTANTS
    Clients = {c1}
    Clusters = {k1}
    Window = 2
    MaxTree = 3
    MaxGen = 2
INVARIANTS
    FreshOrWarned
PROPERTIES
    WarnedUnlessLost
