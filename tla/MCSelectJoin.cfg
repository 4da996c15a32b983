SPECIFICATION Spec
CONSTANTS
    s1 = s1
    s2 = s2
    p1 = p1
    p2 = p2
    c1 = c1
    j1 = j1
    None = None
    Selects = {s1, s2}
    Selectables = {p1, c1, j1}
    Kind <- AllKinds
    List <- Lists
    Rounds <- Twice
    Conditional = {c1}
    Tasks = {s1}
    Capacity = 2
CHECK_DEADLOCK FALSE
INVARIANTS
    PermitsHeld
    NothingElseMissed
    OnlyEnabled
    NeverPanics
