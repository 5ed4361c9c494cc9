SPECIFICATION SessionSpec
CONSTANTS
    Numbers = {n1}
    Sessions = {s1, s2}
    Tenants = {t1}
    Phones = {p1, p2}
    Clients = {c1}
    Workers = {w1}
    Admins = {a1}
    Reapers = {}
    DbFails = FALSE
    TierLimit = 1
    Requests = {"end", "extend"}
    ListedIds = FALSE
    Rests = {FALSE}
    StoreFails = {"allocate"}
    Parties <- MCParties
    Callers <- MCCallers
SYMMETRY SessionSymmetry
INVARIANTS
    SessionTypeOK
    ActiveIsRoutable
    NoGhostClaim
    NoPhantomQuota
    
CHECK_DEADLOCK FALSE
