SPECIFICATION InboundSpec
CONSTANTS
    Numbers = {n1}
    Sessions = {s1, s2}
    Tenants = {t1}
    Phones = {p1, p2, p3}
    Clients = {c1}
    Workers = {w1}
    Admins = {}
    Reapers = {}
    DbFails = FALSE
    TierLimit = 1
    Requests = {"swap"}
    ListedIds = FALSE
    Rests = {FALSE}
    StoreFails = {}
    Parties <- MCParties
    Callers <- MCCallers
    Calls = {k1}
    Texts = {m1}
    Reports = {"completed"}
    Deliveries = {1, 2}
    MaxMail = 1
    MaxRequests = 3
    Failing = {1}
SYMMETRY MCSymmetry
INVARIANTS
    InboundTypeOK
    IndexIsHonest
    AnswersWereRight
    RetriesAgree
    NothingVanishes
CHECK_DEADLOCK FALSE
