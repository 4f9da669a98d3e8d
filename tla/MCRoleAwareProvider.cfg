SPECIFICATION FairSpec
CONSTANTS
    Calls = {c1, c2}
    openai = openai
    ollama = ollama
    ghost = ghost
    Names = {openai, ollama, ghost}
    Registered = {openai, ollama}
    Default = openai
    Routes <- MCRoutes
    Threshold = 2
    CountMax = 2
    Nobody = Nobody
INVARIANTS
    BreakerConsistent
PROPERTIES
    ImplementsPromise
    BreakerHealsByItself
