SPECIFICATION FairSpec
CONSTANTS
    Wakers = {w1, w2, w3}
    Interrupter = Interrupter
    NoWakeup = NoWakeup
    Unwound = Unwound
    None = None
    Kinds = {"task", "thread"}
    Modes = {"interruptible", "uninterruptible"}
    StaleWakes = {TRUE, FALSE}
CHECK_DEADLOCK FALSE
INVARIANTS
    TypeOK
    CellSafe
    NeverUnreachable
    Guarantee
    ThreadHandleAlive
PROPERTIES
    Served
    ImplementsOneShot
