SPECIFICATION Spec
CONSTANTS
    None = None
    Coroutines = {m, a}
    main = m
    MaxClones = 1
    Yielders = {}
    Suspenders = {m}
CHECK_DEADLOCK FALSE
INVARIANTS
    Guarantee
