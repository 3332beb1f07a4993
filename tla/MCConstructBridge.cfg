SPECIFICATION Spec
CONSTANTS
    One <- MCOne
    Inf <- MCInf
    Reach <- MCReach
    Start <- MCStart
    Payloads <- MCPayloads
    BoundsTo <- MCBoundsTo
    FixTo <- MCFixTo
    TypeTo <- MCTypeTo
    ThetaTo <- MCThetaTo
    Policy = "Auto"
    Bridged <- MCBridged
    MaxEdits = 2
INVARIANTS
    BridgeExact
PROPERTIES
    TighteningKeepsCompilable
CHECK_DEADLOCK FALSE
