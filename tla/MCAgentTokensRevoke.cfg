SPECIFICATION MCSpec
CONSTANTS
    None = None
    Agents = {a1}
    Delegations = {d1}
    Tokens = {t1}
    Replicas = {r1}
    Reads = {q1}
    Peeks = {p1}
    Writes = {w1}
    Mints = {m1}
    TokenTtl = 2
    MaxTime = 1
PROPERTY RevokedAtOnce
CHECK_DEADLOCK FALSE
