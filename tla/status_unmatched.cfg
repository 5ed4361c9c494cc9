SPECIFICATION InboundSpec
CONSTANTS
    Numbers = {n1}
    Sessions = {s1}
    Tenants = {t1}
    Phones = {p1, p2}
    Clients = {c1}
    Workers = {w1}
    Admins = {}
    Reapers = {}
    DbFails = FALSE
    TierLimit = 2
    Requests = {}
    ListedIds = FALSE
    Rests = {FALSE}
    StoreFails = {}
    Parties <- MCParties
    Callers <- MCCallers
    Calls = {k1}
    Texts = {}
    Reports = {"completed"}
    Deliveries = {1}
    MaxMail = 1
    MaxRequests = 3
    Failing = {}
PROPERTIES
    StatusReachesRecord
CHECK_DEADLOCK FALSE
