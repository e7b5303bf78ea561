SPECIFICATION MCSpec
CONSTANTS
    t1 = t1
    e1 = e1
    None = None
    Tenants = {t1, t2}
    Emails = {e1, e2}
    NameIds = {n1}
    Procs = {p1, p2}
    MaxOry = 2
    MaxPublic = 2
    ScopedLookup = TRUE
    Ops = {"provision", "saml", "create", "get", "update", "delete",
           "scim_create", "scim_update", "subject", "register", "settings"}
SYMMETRY Symmetry
INVARIANTS IdentityTypeOK OnePublicIdPerIdentity MembershipInHomeTenant EmailAgreement 
PROPERTY MappingNeverMoves
