SPECIFICATION Spec
CONSTANTS
    Senders = {s1, s2}
    Receivers = {r1}
    bound = 1
    MaxSends = 2
    SendKinds = {"task", "thread", "select"}
    RecvKinds = {"task", "select"}
    MaxDead = 1
    Withdraw = {"recv"}
    Closers = {}
    Dead = Dead
SYMMETRY Handles
CHECK_DEADLOCK FALSE
INVARIANTS
    NoStrandedSender
    NoStrandedReceiver
