SPECIFICATION Spec
CONSTANTS
    capacityRow = capacityRow
    costGoal = costGoal
    NoObjective = NoObjective
    Vars <- MCVars
    Params <- MCParams
    Rows <- MCRows
    Objs <- MCObjs
    Exprs <- MCExprs
    Values <- MCValues
    LinearInputs <- MCLinearInputs
    ParamInputs <- MCParamInputs
    Layouts <- MCLayouts
    InitialValues <- MCInitialValues
    ParamValues <- MCParamValues
    Spans <- MCSpans
    Eps = 1
    MaxSteps = 4
INVARIANTS ViewsAgree StaleIdsDie CachedFresh ReplicaFits
PROPERTIES KeepsMap
