SPECIFICATION FairSpec
CONSTANTS
    None = None
    Coroutines = {m, a, b}
    main = m
    MaxClones = 1
    Yielders = {m}
    Suspenders = {a, b}
CHECK_DEADLOCK FALSE
INVARIANTS
    TypeOK
    ReturnsWhatWasSent
    Resumable
    NobodyLeft
PROPERTIES
    Ceases
