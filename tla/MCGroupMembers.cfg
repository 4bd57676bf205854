SPECIFICATION Spec
CONSTANTS
    MaxPid = 4
    Ticks <- MCTicks
    Quiet = TRUE
INVARIANTS GenuineKin NeverOwnAncestor ClimbEnds ParentsFirst DaemonsSpared TreeWithoutGroups
