SPECIFICATION Spec
CONSTANTS
    Subscriptions = {{"metering"}}
    Events = {e1}
    Live = {e1}
    Procs = {p1, p2}
    Count = 1
    MaxAttempts = 1
    DbFails = FALSE
    RedisFails = FALSE
    MayFlush = FALSE
PROPERTIES
    PendingIsRetried
CHECK_DEADLOCK FALSE
