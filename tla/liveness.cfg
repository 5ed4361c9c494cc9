SPECIFICATION FairSessionSpec
CONSTANTS
    Numbers = {n1}
    Sessions = {s1}
    Tenants = {t1}
    Phones = {p1, p2, p3}
    Clients = {c1}
    Workers = {w1}
    Admins = {}
    Reapers = {r1}
    DbFails = FALSE
    TierLimit = 1
    Requests = {"end", "swap"}
    ListedIds = FALSE
    Rests = {TRUE, FALSE}
    StoreFails = {}
    Parties <- MCParties
    Callers <- MCCallers
PROPERTIES
    SessionsEnd
    NumbersReturn
CHECK_DEADLOCK FALSE
