SPECIFICATION Spec
CONSTANTS
    Timeouts <- MCTimeouts
    Poll = 4
    SlowLook = 2
INVARIANTS
    LastingStateSeen
    PromptTimeout
PROPERTIES
    Returns
