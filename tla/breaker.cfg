SPECIFICATION Spec
CONSTANTS
    Callers = {p1, p2}
    Failing = {p2}
    Workers = {w1}
    Operators = TRUE
    FailureThreshold = 2
    RecoveryCount = 2
    MinSamples = 2
    RatePercent = 40
    MaxSamples = 1
INVARIANTS
    TypeOK
    TripsAtThreshold
PROPERTIES
    ClosingIsEarned
    RecoversWhenUp
CHECK_DEADLOCK FALSE
