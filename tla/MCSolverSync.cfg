CONSTANTS
    m1 = m1
    m2 = m2
    None = None
    Garbage = Garbage
    Models <- MCTwoModels
    Capacity = 1
    MaxRevision = 2
SPECIFICATION Spec
INVARIANTS
    TrustedStateIsClean
PROPERTY KeepsContract
SYMMETRY Symmetry
