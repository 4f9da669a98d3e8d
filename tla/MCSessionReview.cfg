SPECIFICATION Spec
CONSTANTS
    own = own
    other = other
    rule1 = rule1
    rule2 = rule2
    c1 = c1
    c2 = c2
    Workspaces = {own, other}
    Own = own
    NoWorkspace = NoWorkspace
    RuleIds = {rule1, rule2}
    Matches <- MCMatches
    DefaultIds = {c1}
    MaxDecisions = 2
    NoRecord = NoRecord
    NoCache = NoCache
    NoId = NoId
INVARIANTS
    FindingsWereConfirmed
    OverlayCurrent
PROPERTIES
    OnlyDecisionsChangeDefaults
    OpenCandidatesKept
CHECK_DEADLOCK FALSE
