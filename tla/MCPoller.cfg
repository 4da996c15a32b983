SPECIFICATION FairSpec
CONSTANTS
    None = None
    Clients = {c1, c2}
    parallelism = 2
    Pool = {p1}
    Addrs = {1, 2, 3, 4}
    Fds = {f1, f2}
    Opened = {c1}
    Kinds = {"open", "pipe", "truncate"}
    Capacity = 1
    Batch = 2
    Signals = 1
    MaxOps = 1
CHECK_DEADLOCK FALSE
INVARIANTS
    Owned
    CancelsOwn
    NeverPanics
PROPERTIES
    Rests
