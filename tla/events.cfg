SPECIFICATION FanSpec
CONSTANTS
    Subscriptions = {{}, {"metering"}, {"tenant-webhook"}}
    Events = {e1, e2}
    Live = {e1}
    Procs = {p1, p2}
    Count = 2
    MaxAttempts = 2
    DbFails = TRUE
    RedisFails = TRUE
    MayFlush = TRUE
    Clients = {c1, c2}
    Visits <- MCVisits
    Scoped = {e1}
INVARIANTS
    DeliveryTypeOK
    NeverOvercharged
    PostsEndWithSuccess
    ClientsAreTold
    LastOneUnsubscribes
PROPERTIES
    StreamIsDrained
    SilentIsDropped
CHECK_DEADLOCK FALSE
