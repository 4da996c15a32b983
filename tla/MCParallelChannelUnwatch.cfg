SPECIFICATION Spec
CONSTANTS
    Senders = {s1, s2}
    Receivers = {r1}
    bound = 1
    MaxSends = 1
    SendKinds = {"task", "select"}
    RecvKinds = {"task"}
    MaxDead = 1
    Withdraw = {"send"}
    Closers = {}
    Dead = Dead
SYMMETRY Handles
CHECK_DEADLOCK FALSE
INVARIANT
    ReceiverKeepsPlace
