SPECIFICATION Spec
CONSTANTS
    Wizards = {w1}
    Main = main
    Sources = {a, b}
    SessionIds = {s1}
    NumJobs = 2
    Opens = {TRUE, FALSE}
    NoSource = none
    NoConfig = noconfig
    Gone = gone
    NoSession = nosession
SYMMETRY Symmetry
INVARIANTS
    JobsSurvive
PROPERTIES
    SessionOfOwnSource
