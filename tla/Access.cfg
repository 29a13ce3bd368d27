SPECIFICATION MCSpec

CONSTANTS
    own = own
    adm = adm
    mem = mem
    new = new
    p = p
    q = q
    t1 = t1
    t2 = t2
    t3 = t3
    t4 = t4
    n1 = n1
    n2 = n2
    r1 = r1
    r2 = r2
    None = None
    Users = {own, adm, mem, new, u5}
    Projects = {p, q}
    Tokens = {t1, t2, t3, t4}
    Requests = {r1, r2}
    Names = {n1, n2}
    Calls <- MCCalls
    FirstAccounts <- MCAccounts
    FirstMembers <- MCMembers
    FirstSessions <- MCSessions
    MaxPassword = 2
    Idle = 1
    Absolute = 2
    LastTime = 3
    MaxCalls = 5

CHECK_DEADLOCK FALSE

INVARIANTS
    GrantedWhenEntitled
    StaleSessionsExplained
    LoginNamesApart
PROPERTIES
    DeadStaysDead
