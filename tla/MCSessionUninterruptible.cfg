SPECIFICATION Spec
CONSTANTS
    Wakers = {w1, w2}
    Interrupter = Interrupter
    NoWakeup = NoWakeup
    Unwound = Unwound
    None = None
    Kinds = {"task"}
    Modes = {"uninterruptible"}
    StaleWakes = {FALSE}
CHECK_DEADLOCK FALSE
INVARIANT TaskAliveForWaker
