SPECIFICATION OpsSpec
CONSTANTS
    Numbers = {n1}
    Sessions = {s1}
    Parties = {}
    Callers = {w1}
    Reapers = {r1}
    Operators = {o1, o2}
    DbFails = TRUE
    RedisFails = TRUE
    BootsBeside = TRUE
    MayFlush = TRUE
SYMMETRY MCSymmetry
INVARIANTS
    OpsTypeOK
    NumbersSurvive
    QuarantineHolds
PROPERTIES
    BootReconciles
CHECK_DEADLOCK FALSE
