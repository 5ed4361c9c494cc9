SPECIFICATION SessionSpec
CONSTANTS
    Numbers = {n1}
    Sessions = {s1, s2}
    Tenants = {t1}
    Phones = {p1, p2, p3}
    Clients = {c1}
    Workers = {w1}
    Admins = {}
    Reapers = {r1, r2}
    DbFails = TRUE
    TierLimit = 2
    Requests = {}
    ListedIds = FALSE
    Rests = {TRUE}
    StoreFails = {"allocate", "create", "rollback", "expire"}
    Parties <- MCParties
    Callers <- MCCallers
SYMMETRY SessionSymmetry
INVARIANTS
    PoolSafe
    RoutingUnambiguous
PROPERTIES
    RestIsServed
CHECK_DEADLOCK FALSE
