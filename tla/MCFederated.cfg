SPECIFICATION MCSpec
CONSTANTS
    t1 = t1
    t2 = t2
    e1 = e1
    c1 = c1
    c2 = c2
    p1 = p1
    s1 = s1
    a1 = a1
    None = None
    Tenants = {t1, t2}
    Emails = {e1, e2}
    NameIds = {n1}
    Procs = {p1, p2}
    States = {s1, s2}
    Connections = {c1, c2, c3}
    ConnTenant <- Owners
    ConnType <- Types
    Requests = {r1}
    ReqTenant <- AllOfT1
    Assertions = {a1, a2}
    MaxOry = 2
    MaxPublic = 2
    MaxSessions = 3
    UpstreamPkce = FALSE
    CleanupRaces = FALSE
    ScopedLookup = TRUE
SYMMETRY Symmetry
INVARIANTS SessionMatchesAttempt 
PROPERTIES LoginStateOnce 
