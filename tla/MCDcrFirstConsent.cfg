SPECIFICATION Spec
CONSTANTS
    ta = ta
    tb = tb
    ua = ua
    ub = ub
    None = None
    Clients = {c1}
    Tenants = {sys, ta, tb}
    System = sys
    Users = {ua, ub}
    Home <- MCHome
    Employees = {ub}
    Flows = {f1, f2}
    Replicas = {}
    Kinds = {"dcr"}
    Deletes = {}
    RegTenants = {sys}
    MaxBoots = 0
INVARIANT FirstConsentWins
CHECK_DEADLOCK FALSE
