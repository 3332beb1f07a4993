CONSTANTS
    w1 = w1
    w2 = w2
    p1 = p1
    p2 = p2
    None = None
    Pids = {p1, p2}
    MaxTries = 2
    Epsilon = 1
    Inf <- MCInf
    Floats <- MCFloats
    InvalidNames <- MCInvalidNames
    CommentNames <- MCCommentNames
    Generated <- MCGenerated
    Scenarios <- MCScenarios
SPECIFICATION FairSpec
INVARIANTS
    DestinationWhole
    TempsOwned
    PublishedReadsBack
CHECK_DEADLOCK FALSE
PROPERTIES
    OutcomeTruthful
    WritersReturn
