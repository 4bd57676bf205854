SPECIFICATION Spec
CONSTANTS
    own1 = own1
    own2 = own2
    other = other
    v4 = v4
    v6 = v6
    Visible <- MCVisible
    Hidden <- MCHidden
    Endpoints <- MCEndpoints
SYMMETRY MCSymmetry
INVARIANTS
    ConsentFirst
    EachHolderTriedOnce
