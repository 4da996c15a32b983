SPECIFICATION Spec
CONSTANTS
    None = None
    Coroutines = {m, a}
    main = m
    MaxClones = 1
    Yielders = {a}
    Suspenders = {m}
CHECK_DEADLOCK FALSE
INVARIANTS
    NoUnreachable
