SPECIFICATION MCSpec
CONSTANTS
    None = None
    Agents = {a1}
    Delegations = {d1}
    Tokens = {t1}
    Replicas = {r1, r2}
    Reads = {q1}
    Peeks = {p1}
    Writes = {w1}
    Mints = {m1}
    TokenTtl = 2
    MaxTime = 3
SYMMETRY ReplicaSymmetry
INVARIANTS ServedWithinGrant OnlyRacersSurvive
CHECK_DEADLOCK FALSE
