SPECIFICATION Spec
CONSTANTS
    MaxPid = 2
    MaxStart = 3
    Booted = {1, 2}
    Pidfds = {TRUE}
    Refusals = {}
    Options <- MCOptions
    ProbeFails = FALSE
PROPERTY ZombieMeansLetGo
