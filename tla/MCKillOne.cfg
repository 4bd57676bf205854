SPECIFICATION Spec
CONSTANTS
    MaxPid = 3
    MaxStart = 4
    Booted = {1, 2}
    Pidfds = {TRUE, FALSE}
    Refusals = {"Permission"}
    Options <- MCOptions
    ProbeFails = TRUE
INVARIANTS OnlyHoldersSignalled AbortMeansUntouched NoDescriptorLeaks TimeoutMeansEvicted DenialNeverSilent
PROPERTIES ImplementsPin Terminates
