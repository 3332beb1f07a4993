CONSTANTS
    v1 = v1
    v2 = v2
    c1 = c1
    c2 = c2
    o1 = o1
    o2 = o2
    k1 = k1
    k2 = k2
    None = None
    Value <- MCValue
    Refers <- MCRefers
    Softens <- MCSoftens
    Penalises <- MCPenalises
    Var = {v1}
    Con = {c1}
    Obj = {o1, o2}
    Construct = {k2}
    Programs <- MCOnlyObjectives
    MaxChanges = 2
SPECIFICATION Spec
INVARIANTS
    ObjectivesFit
    CompilerFits
