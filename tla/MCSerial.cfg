SPECIFICATION Spec
CONSTANTS
    Senders = {s1, s2, s3}
    Receivers = {r1, r2}
    bound = 2
    None = None
SYMMETRY Handles
CHECK_DEADLOCK FALSE
INVARIANTS
    TypeOK
    NobodyStranded
