SPECIFICATION LiveSpec
CONSTANTS
    MaxAttempts = 3
    Images = 2
INVARIANTS
    LeftBehindOnlyOnRefusal
PROPERTIES
    Returns
CHECK_DEADLOCK FALSE
