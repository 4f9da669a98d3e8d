SPECIFICATION FairSpec
CONSTANTS
    r1 = r1
    r2 = r2
    Runs = {r1, r2}
    Tools = {t1}
    EngineCount = 2
    Adjustable = {1, 2}
    Budgets = {1, 2, 3}
    ConfigBudget = 1
    MaxAdviserCalls = 3
    MaxRetries = 1
    Switches = {s1}
    MaxFailovers = 1
    NoRun = NoRun
INVARIANTS
    EveryEngineHasOneOutcome
    ToldAsItWas
    BudgetsEscalateAndReset
    ContextIsWhole
PROPERTIES
    RunsEnd
    EveryStepNearer
CHECK_DEADLOCK FALSE
