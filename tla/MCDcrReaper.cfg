SPECIFICATION Spec
CONSTANTS
    ta = ta
    tb = tb
    ua = ua
    ub = ub
    None = None
    Clients = {c1}
    Tenants = {sys, ta, tb}
    System = sys
    Users = {ua, ub}
    Home <- MCHome
    Employees = {ub}
    Flows = {f1}
    Replicas = {r1}
    Kinds = {"dcr"}
    Deletes = {}
    RegTenants = {sys}
    MaxBoots = 0
PROPERTY RecheckSeesConsent
CHECK_DEADLOCK FALSE
