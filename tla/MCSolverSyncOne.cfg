CONSTANTS
    m1 = m1
    m2 = m2
    None = None
    Garbage = Garbage
    Models <- MCOneModel
    Capacity = 2
    MaxRevision = 3
SPECIFICATION FairSpec
INVARIANTS
    NoSpuriousFailure
    RejectedUntouched
PROPERTY AttemptEnds
