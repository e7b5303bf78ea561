SPECIFICATION MCSpec
CONSTANTS
    k1 = k1  k2 = k2  k3 = k3  k4 = k4
    user = user  agent = agent  client = client  other = other  t1 = t1  r1 = r1
    q1 = q1  q2 = q2  q3 = q3  sp1 = sp1  sp2 = sp2  i1 = i1
    c1 = c1  c2 = c2  ip1 = ip1  ip2 = ip2
    None = None
    Tokens = {k1, k2, k3, k4}
    Subjects = {user, agent, client, other}
    SubjectOf <- Holders
    KindOf <- SubjectKinds
    CrossTenant = {client}
    Tenants = {t1, t2}
    Requests = {r1, r2}
    TTL = 1
    Hop = 1
    StatusTTL = 1
    Life = 3
    MaxTime = 4
    ClearOnRevoke = TRUE
    NoKeys = NoKeys
    Lookups = {r1, r2}
    Ttl = 2
    JwksMaxTime = 4
    MaxVersion = 3
    Absent = Absent
    Handlers = {r1, r2, r3}
    Keyed = {r1, r2}
    Sps = {sp1, sp2}
    AuthnRequests = {q1, q2, q3}
    SpOf <- SpThree
    Identities = {i1, i2}
    Keys = {1, 2}
    ForceAuthn = {q3}
    MaxFaults = 1
SYMMETRY Symmetry
INVARIANTS FrontTypeOK  ActsAtHome  KeysRecent
            NameIdStable KeyAlwaysUsable
CHECK_DEADLOCK FALSE
