SPECIFICATION Spec
CONSTANTS
    None = None
    s1 = s1
    s2 = s2
    Sockets = {s1, s2}
    Listeners = {s2}
    t1 = t1
    t2 = t2
    t3 = t3
    Tokens = {t1, t2, t3}
    Signals = 1
    Batch = 2
    MaxUses <- TwoAndOne
SYMMETRY TokensAlike
CHECK_DEADLOCK FALSE
INVARIANTS
    Routed
    FreedOnce
    NothingUnheard
