CONSTANTS
    t1 = t1
    t2 = t2
    m1 = m1
    m2 = m2
    s1 = s1
    s2 = s2
    Threads = {t1, t2}
    Models = {m1, m2}
    Sessions = {s1, s2}
    Programs <- MCPrograms
    Settings = {0, 1}
    None = None
    Big = 9
    Vars = {1, 2}
    Params = {1, 2}
    Values = {2, 4}
    Initially = 2
    Start <- MCStart
    Operands <- MCOperands
    MaxSteps = 2
SYMMETRY MCSymmetry
SPECIFICATION BindingsSpec
INVARIANTS
    WrittenIsStored
    NamesExact
    CurrentMeansSolved
CHECK_DEADLOCK FALSE
