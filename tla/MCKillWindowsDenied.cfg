SPECIFICATION Spec
CONSTANTS
    MaxPid = 2
    MaxStart = 3
    Consoles <- MCConsoles
    Homes = {0, 1}
    Streams <- MCStreams
    Refusals = {}
    Prompt = TRUE
    Options <- MCOptions
INVARIANT DeniedByPolicy

