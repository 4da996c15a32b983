SPECIFICATION Spec
CONSTANTS
    Senders = {s1, s2}
    Receivers = {r1, r2}
    bound = 1
    MaxSends = 2
    SendKinds = {"task", "thread", "select"}
    RecvKinds = {"task", "thread", "select"}
    MaxDead = 1
    Withdraw = {"send", "recv"}
    Closers = {r1, r2}
    Dead = Dead
SYMMETRY Handles
CHECK_DEADLOCK FALSE
INVARIANTS
    TypeOK
    BoundRespected
    PermitsBacked
    ExactlyOnceInOrder
    EndIsTrue
