SPECIFICATION AnalysisSpec
CONSTANTS
    N = 4
    Families <- MCFamilies
    Plans <- MCPlans
    Problems <- MCProblems
    Inf <- MCInf
    Grid <- MCGrid
INVARIANTS
    ClaimsHold
    NoNeedlessDoubt
    UniverseExact
PROPERTIES
    AnalysisEnds
\* The analysis returns once.
CHECK_DEADLOCK FALSE
