SPECIFICATION MCSpec
CONSTANTS
    sys = sys
    ta = ta
    tb = tb
    ua = ua
    ub = ub
    None = None
    Clients = {c1}
    Tenants = {sys, ta, tb}
    System = sys
    Users = {ua, ub}
    Home <- MCHome
    Employees = {ub}
    Flows = {f1, f2}
    Replicas = {r1}
    Kinds = {"dcr", "admin", "agent"}
    Deletes = {"self", "admin", "agent"}
    RegTenants = {sys, ta, tb}
    MaxBoots = 1
    Logins = {l1}
    LoginTenants = {sys, tb}
    MaxLevel = 2
SYMMETRY FlowSymmetry
INVARIANTS GateTypeOK  RevocationSticks AdminNeverFirstUse AgentsExempt
           
PROPERTY OwnershipPermanent
CHECK_DEADLOCK FALSE
