SPECIFICATION SessionSpec
CONSTANTS
    Numbers = {n1}
    Sessions = {s1, s2}
    Tenants = {t1}
    Phones = {p1, p2, p3, p4}
    Clients = {c1}
    Workers = {w1}
    Admins = {}
    Reapers = {r1}
    DbFails = TRUE
    TierLimit = 2
    Requests = {"swap"}
    ListedIds = FALSE
    Rests = {TRUE, FALSE}
    StoreFails = {}
    Parties <- MCParties
    Callers <- MCCallers
SYMMETRY SessionSymmetry
INVARIANTS
    RoutingUnambiguous
    ActiveIsRoutable
    Partition
PROPERTIES
    LeaseSpec
    ImplementsPool
CHECK_DEADLOCK FALSE
