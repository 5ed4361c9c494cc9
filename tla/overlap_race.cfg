SPECIFICATION SessionSpec
CONSTANTS
    Numbers = {n1}
    Sessions = {s1, s2}
    Tenants = {t1}
    Phones = {p1, p2}
    Clients = {c1, c2}
    Workers = {}
    Admins = {}
    Reapers = {}
    DbFails = FALSE
    TierLimit = 2
    Requests = {}
    ListedIds = FALSE
    Rests = {FALSE}
    StoreFails = {}
    Parties <- MCParties
    Callers <- MCCallers
SYMMETRY SessionSymmetry
INVARIANTS
    RoutingUnambiguous
CHECK_DEADLOCK FALSE
