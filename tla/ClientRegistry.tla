--------------------------- MODULE ClientRegistry ---------------------------
(***************************************************************************)
(* The stores that together say who owns an OAuth2 client and who may use  *)
(* it: Hydra's clients, the gateway's id_mappings and applications tables  *)
(* and the entitlement tuples of the permission backend.  The module holds *)
(* their state and one operator per statement the services issue; the      *)
(* services themselves are in DcrLifecycle.                                *)
(*                                                                         *)
(* A client's public id is also its Hydra client_id (register and          *)
(* create_application send the public id in the creation payload), so one  *)
(* member of Clients stands for both, and the UNIQUE(public_id) constraint *)
(* of id_mappings makes the table a function on Clients.                   *)
(***************************************************************************)
EXTENDS Naturals, FiniteSets

CONSTANTS
    Clients,    \* public ids that may be minted (ULIDs, never reused)
    Tenants,    \* tenants.list()
    System,     \* the system tenant
    Users,      \* identities, by public id
    Home,       \* Home[u]: the tenant of user u
    Employees,  \* members of the default entitlement group of their tenant
    None        \* SQL NULL / "no row"

ASSUME RegistryAssumption ==
    /\ System \in Tenants
    /\ None \notin Tenants
    /\ Home \in [Users -> Tenants]
    /\ Employees \subseteq Users

VARIABLES
    hydra,      \* the clients Hydra knows
    mapping,    \* id_mappings: client -> tenant_id, or None
    old,        \* mappings whose created_at is at least the GC's TTL ago
    row,        \* applications: client -> row, or NoRow
    members,    \* direct `member` tuples <<tenant store, client, user>>
    links,      \* default group links <<tenant store, client>>
    agents      \* agents table: client of an agent -> its tenant_id, or None

registryVars == <<hydra, mapping, old, row, members, links, agents>>

Rows == [tenant: Tenants, source: {"dcr", "admin"}, cross: BOOLEAN]

NoRow == [tenant |-> None, source |-> "none", cross |-> FALSE]

RegistryTypeOK ==
    /\ hydra \subseteq Clients
    /\ mapping \in [Clients -> Tenants \cup {None}]
    /\ old \subseteq Clients
    /\ row \in [Clients -> Rows \cup {NoRow}]
    /\ members \subseteq Tenants \X Clients \X Users
    /\ links \subseteq Tenants \X Clients
    /\ agents \in [Clients -> Tenants \cup {None}]

RegistryInit ==
    /\ hydra = {}
    /\ mapping = [c \in Clients |-> None]
    /\ old = {}
    /\ row = [c \in Clients |-> NoRow]
    /\ members = {}
    /\ links = {}
    /\ agents = [c \in Clients |-> None]

-----------------------------------------------------------------------------
(* Statements on id_mappings.                                              *)

\* INSERT: refused by UNIQUE(public_id) when the client is mapped already.
\* A caller tests the table and then either way proceeds.
CreateMapping(c, t) ==
    IF mapping[c] = None
    THEN /\ mapping' = [mapping EXCEPT ![c] = t]
         /\ old' = old \ {c}
    ELSE UNCHANGED <<mapping, old>>

\* DELETE ... WHERE tenant_id = t: scoped to one tenant, and the applications
\* row goes with it whatever tenant that row names (ON DELETE CASCADE).
DeleteMapping(c, t) ==
    IF mapping[c] = t
    THEN /\ mapping' = [mapping EXCEPT ![c] = None]
         /\ row' = [row EXCEPT ![c] = NoRow]
         /\ old' = old \ {c}
    ELSE UNCHANGED <<mapping, row, old>>

\* UPDATE ... SET tenant_id: by public id alone, created_at is kept.
UpdateTenant(c, t) ==
    /\ mapping[c] # None
    /\ mapping' = [mapping EXCEPT ![c] = t]

-----------------------------------------------------------------------------
(* Statements on applications.                                             *)

\* get(tenant, public_id)
RowIn(c, t) == row[c] # NoRow /\ row[c].tenant = t

\* INSERT succeeds: public_id is the primary key and references id_mappings.
CanInsertRow(c) == row[c] = NoRow /\ mapping[c] # None

InsertRow(c, t, source, cross) ==
    row' = [row EXCEPT ![c] = [tenant |-> t, source |-> source, cross |-> cross]]

\* (mutant) any existing row confirms the lost race, whatever its tenant.
EnsureDcrRowOkAnyTenant(c, t) == CanInsertRow(c) \/ row[c] # NoRow

\* ensure_dcr_row: INSERT, and on any failure accept a row of the same tenant.
EnsureDcrRowOk(c, t) == CanInsertRow(c) \/ RowIn(c, t)

EnsureDcrRow(c, t) ==
    IF CanInsertRow(c) THEN InsertRow(c, t, "dcr", FALSE) ELSE UNCHANGED row

-----------------------------------------------------------------------------
(* The agents table.                                                       *)

\* get_status(public_id) finds a row.
IsAgent(c) == agents[c] # None

-----------------------------------------------------------------------------
(* The entitlement store of each tenant.                                   *)

\* check(.., MEMBER_REL): a direct tuple, or through a linked default group.
IsMember(t, u, c) ==
    \/ <<t, c, u>> \in members
    \/ <<t, c>> \in links /\ u \in Employees /\ Home[u] = t

HasAnyTuples(t, c) ==
    \/ <<t, c>> \in links
    \/ \E u \in Users : <<t, c, u>> \in members

SeedApplication(t, c) == links' = links \cup {<<t, c>>}

\* remove_application: the tuples of listed users; group links stay.
RemoveApplication(t, c) ==
    members' = {m \in members : ~(m[1] = t /\ m[2] = c)}

-----------------------------------------------------------------------------
(* resolve_client_entitlement, in the two reads whose order matters: the   *)
(* mapping, then the applications row.                                     *)

EntitlementStates == {"unresolved", "local_dcr", "local_admin", "cross", "provisional"}

\* classify_owned(tenant t, owner): the ClientEntitlement variant, with the
\* owner_tenant it carries.
ClassifyOwned(c, t, owner) ==
    IF row[c] = NoRow THEN [state |-> "provisional", owner |-> owner]
    ELSE IF row[c].tenant # t THEN [state |-> "cross", owner |-> row[c].tenant]
    ELSE IF row[c].source = "dcr" THEN [state |-> "local_dcr", owner |-> t]
    ELSE [state |-> "local_admin", owner |-> t]

\* (mutant) a local client is eligible whatever registered it.
IsFirstUseEligibleLocal(state) == state \in {"local_dcr", "local_admin", "provisional"}

IsFirstUseEligible(state) == state \in {"local_dcr", "provisional"}
=============================================================================
