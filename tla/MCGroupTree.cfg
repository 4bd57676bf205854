SPECIFICATION Spec
CONSTANTS
    MaxPid = 5
    Ticks <- TreeTicks
    Quiet = TRUE
INVARIANT WholeTree
