SPECIFICATION Spec
CONSTANTS
    s1 = s1
    s2 = s2
    p1 = p1
    p2 = p2
    c1 = c1
    j1 = j1
    None = None
    Selects = {s1, s2}
    Selectables = {p1}
    Kind <- AllKinds
    List <- Shared
    Rounds <- Once
    Conditional = {}
    Tasks = {}
    Capacity = 1
CHECK_DEADLOCK FALSE
INVARIANTS
    NoLastValueMissed
