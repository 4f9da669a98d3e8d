SPECIFICATION FairSpec
CONSTANTS
    Loads = {"load1", "load2"}
    ToolActions = {"act"}
    Sessions = {"s1", "s2"}
    SessionOf <- MCSessionOf
    Keys = {"a", "b", "doc"}
    Specs = {"doc"}
    Blocked = {}
    Queries <- MCQueries
    MaxApiCalls = 2
    Wrap = 16
    Ttl = 1
    MaxTime = 1
    MaxResets = 1
INVARIANTS
    RefusedOnlyWhenSpent
    AnswersFresh
CHECK_DEADLOCK FALSE
