----------------------------- MODULE Bootstrap -----------------------------
(***************************************************************************)
(* Startup: build_app's writes before a replica serves (the system tenant, *)
(* the system bootstrap client in Hydra, id_mappings and applications, the *)
(* entitlement namespace and its seed), run by several replicas that may   *)
(* start together, fail and be started again; and the client credential    *)
(* service, whose update and delete reach the same client.                 *)
(*                                                                         *)
(* Any failed call makes build_app return an error, and the process exits: *)
(* a failure and a crash are the same step back to "down".                 *)
(***************************************************************************)
EXTENDS Naturals, FiniteSets

CONSTANTS
    Replicas,     \* gateway processes
    Clients,      \* client ids: the configured one and credentials created
    Boot,         \* SYSTEM_BOOTSTRAP_CLIENT_ID
    Inits,        \* the deployments a first start may find
    FaultPoints,  \* the points of a startup at which a call may fail
    AdminOps,     \* the credential operations an administrator may call
    MaxFaults     \* bound: failures and crashes in a behaviour

VARIABLES
    tenant,    \* the system tenant's row exists
    hydra,     \* hydra[c]: "none", or the client with "stale" or "current" scope
    mapping,   \* the clients with an id_mappings row
    row,       \* row[c], the applications row: "none", "plain" or "cross"
    seeded,    \* the entitlement namespace exists and the gateway app is linked
    pc,        \* pc[r]: where replica r is in build_app
    admin,     \* the credential request in progress: its op, client and point
    deleted,   \* history: clients whose deletion was answered Ok
    faults     \* failures so far

stores == <<tenant, hydra, mapping, row, seeded>>
vars == <<stores, pc, admin, deleted, faults>>

StartPcs == {"readTenant", "insertTenant", "readMapping", "getClient",
             "updateClient", "recreate", "create", "map", "readRow",
             "setCross", "insertRow", "namespace", "seed"}
Pcs == StartPcs \cup {"down", "serving"}
Idle == [op |-> "none", client |-> Boot, at |-> "idle"]

\* The type invariant; the foreign key from applications to id_mappings, and
\* from id_mappings to the system tenant, are part of it.
TypeOK ==
    /\ tenant \in BOOLEAN
    /\ hydra \in [Clients -> {"none", "stale", "current"}]
    /\ mapping \subseteq Clients
    /\ row \in [Clients -> {"none", "plain", "cross"}]
    /\ \A c \in Clients : row[c] # "none" => c \in mapping
    /\ mapping # {} => tenant
    /\ seeded \in BOOLEAN
    /\ pc \in [Replicas -> Pcs]
    /\ admin \in [op: AdminOps \cup {"none"}, client: Clients,
                  at: {"idle", "hydra", "mapping"}]
    /\ deleted \subseteq Clients
    /\ faults \in 0..MaxFaults

\* A fresh deployment; one installed before the scopes and the applications row
\* were added; one whose Hydra database was wiped.
Init ==
    \E i \in Inits :
        /\ tenant = (i # "fresh")
        /\ hydra = [c \in Clients |-> IF i = "legacy" /\ c = Boot THEN "stale" ELSE "none"]
        /\ mapping = IF i = "fresh" THEN {} ELSE {Boot}
        /\ row = [c \in Clients |-> IF i = "legacy" /\ c = Boot THEN "plain" ELSE "none"]
        /\ seeded = FALSE
        /\ pc = [r \in Replicas |-> "down"]
        /\ admin = Idle
        /\ deleted = {}
        /\ faults = 0

-----------------------------------------------------------------------------
(* Startup.                                                                *)

Goto(r, from, to) == pc[r] = from /\ pc' = [pc EXCEPT ![r] = to]
Startup == UNCHANGED <<admin, deleted, faults>>

\* The supervisor starts the process again.
Start(r) == Goto(r, "down", "readTenant") /\ UNCHANGED stores /\ Startup

\* bootstrap_system_tenant: SELECT, then an INSERT without ON CONFLICT.
ReadTenant(r) ==
    /\ Goto(r, "readTenant", IF tenant THEN "readMapping" ELSE "insertTenant")
    /\ UNCHANGED stores /\ Startup

InsertTenant(r) ==
    /\ Goto(r, "insertTenant", IF tenant THEN "down" ELSE "readMapping")
    /\ tenant' = TRUE
    /\ UNCHANGED <<hydra, mapping, row, seeded>> /\ Startup

\* (mutant) the mapping lookup is not consulted.
MappingExistsNever(c) == FALSE

\* get_tenant_id_by_ory_id("hydra", client_id)
MappingExists(c) == c \in mapping

ReadMapping(r) ==
    /\ Goto(r, "readMapping", IF MappingExists(Boot) THEN "getClient" ELSE "create")
    /\ UNCHANGED stores /\ Startup

\* A 404 recreates the client, other scopes are updated.
AfterGet(state) ==
    CASE state = "none"    -> "recreate"
      [] state = "stale"   -> "updateClient"
      [] state = "current" -> "readRow"

GetClient(r) ==
    /\ Goto(r, "getClient", AfterGet(hydra[Boot]))
    /\ UNCHANGED stores /\ Startup

\* PUT of the client: refused when it is gone.
UpdateClient(r) ==
    /\ Goto(r, "updateClient", IF hydra[Boot] = "none" THEN "down" ELSE "readRow")
    /\ hydra' = [hydra EXCEPT ![Boot] = IF @ = "none" THEN @ ELSE "current"]
    /\ UNCHANGED <<tenant, mapping, row, seeded>> /\ Startup

\* POST of the client: 409 when Hydra has one of that id.
CreateAt(r, from, to) ==
    /\ Goto(r, from, IF hydra[Boot] = "none" THEN to ELSE "down")
    /\ hydra' = [hydra EXCEPT ![Boot] = IF @ = "none" THEN "current" ELSE @]
    /\ UNCHANGED <<tenant, mapping, row, seeded>> /\ Startup

Recreate(r) == CreateAt(r, "recreate", "readRow")
CreateClient(r) == CreateAt(r, "create", "map")

\* INSERT into id_mappings: public_id is unique.
MapClient(r) ==
    /\ Goto(r, "map", IF Boot \in mapping THEN "down" ELSE "readRow")
    /\ mapping' = mapping \cup {Boot}
    /\ UNCHANGED <<tenant, hydra, row, seeded>> /\ Startup

AfterRow(state) ==
    CASE state = "none"  -> "insertRow"
      [] state = "plain" -> "setCross"
      [] state = "cross" -> "namespace"

ReadRow(r) ==
    /\ Goto(r, "readRow", AfterRow(row[Boot]))
    /\ UNCHANGED stores /\ Startup

\* UPDATE: fails when it matches no row.
SetCross(r) ==
    /\ Goto(r, "setCross", IF row[Boot] = "none" THEN "down" ELSE "namespace")
    /\ row' = [row EXCEPT ![Boot] = IF @ = "none" THEN @ ELSE "cross"]
    /\ UNCHANGED <<tenant, hydra, mapping, seeded>> /\ Startup

\* (mutant) the reference to id_mappings is not enforced.
InsertRowUnreferenced(r) ==
    LET fits == row[Boot] = "none"
    IN  /\ Goto(r, "insertRow", IF fits THEN "namespace" ELSE "down")
        /\ row' = [row EXCEPT ![Boot] = IF fits THEN "cross" ELSE @]
        /\ UNCHANGED <<tenant, hydra, mapping, seeded>> /\ Startup

\* INSERT: public_id is the key and references id_mappings.
InsertRow(r) ==
    LET fits == row[Boot] = "none" /\ Boot \in mapping
    IN  /\ Goto(r, "insertRow", IF fits THEN "namespace" ELSE "down")
        /\ row' = [row EXCEPT ![Boot] = IF fits THEN "cross" ELSE @]
        /\ UNCHANGED <<tenant, hydra, mapping, seeded>> /\ Startup

\* ensure_namespace and seed_application.  The backend's own steps are in
\* PermissionStore; here a replica that races another may be refused.
Contended(r) == \E q \in Replicas \ {r} : pc[q] \in {"namespace", "seed"}

EnsureNamespace(r) ==
    /\ \E to \in {"seed"} \cup (IF Contended(r) THEN {"down"} ELSE {}) :
           Goto(r, "namespace", to)
    /\ UNCHANGED stores /\ Startup

SeedApplication(r) ==
    /\ \/ Goto(r, "seed", "serving") /\ seeded' = TRUE
       \/ Contended(r) /\ Goto(r, "seed", "down") /\ UNCHANGED seeded
    /\ UNCHANGED <<tenant, hydra, mapping, row>> /\ Startup

\* A call of the startup fails, or a process dies, before its write happens.
Fail(r) ==
    /\ pc[r] \in FaultPoints
    /\ faults < MaxFaults
    /\ pc' = [pc EXCEPT ![r] = "down"]
    /\ faults' = faults + 1
    /\ UNCHANGED <<stores, admin, deleted>>

-----------------------------------------------------------------------------
(* The client credential service, one request at a time, on a serving      *)
(* replica.                                                                *)

Serving == \E r \in Replicas : pc[r] = "serving"
Admin == UNCHANGED <<tenant, seeded, pc, faults>>

\* create_client_credential mints a new id; the others begin with get_ory_id.
BeginCredential ==
    /\ Serving
    /\ admin = Idle
    /\ \E op \in AdminOps, c \in Clients :
           /\ IF op = "create"
              THEN c # Boot /\ c \notin mapping \cup deleted /\ hydra[c] = "none"
              ELSE c \in mapping
           /\ admin' = [op |-> op, client |-> c, at |-> "hydra"]
    /\ UNCHANGED <<hydra, mapping, row, deleted>> /\ Admin

\* create_oauth2_client under an id no other client has
CreateCredential ==
    /\ admin.op = "create" /\ admin.at = "hydra"
    /\ hydra' = [hydra EXCEPT ![admin.client] = "current"]
    /\ admin' = [admin EXCEPT !.at = "mapping"]
    /\ UNCHANGED <<mapping, row, deleted>> /\ Admin

MapCredential ==
    /\ admin.op = "create" /\ admin.at = "mapping"
    /\ mapping' = mapping \cup {admin.client}
    /\ admin' = Idle
    /\ UNCHANGED <<hydra, row, deleted>> /\ Admin

\* update_oauth2_client with the scopes asked for; 404 when it is gone.
UpdateCredential ==
    /\ admin.op = "update"
    /\ hydra' = [hydra EXCEPT ![admin.client] = IF @ = "none" THEN @ ELSE "stale"]
    /\ admin' = Idle
    /\ UNCHANGED <<mapping, row, deleted>> /\ Admin

\* (mutant) the mapping is deleted although Hydra refused.
DeleteInHydraLenient ==
    /\ admin.op = "delete" /\ admin.at = "hydra"
    /\ admin' = [admin EXCEPT !.at = "mapping"]
    /\ \/ hydra' = [hydra EXCEPT ![admin.client] = "none"]
       \/ UNCHANGED hydra
    /\ UNCHANGED <<mapping, row, deleted>> /\ Admin

\* delete_oauth2_client; its 404 ends the request.
DeleteInHydra ==
    /\ admin.op = "delete" /\ admin.at = "hydra"
    /\ admin' = IF hydra[admin.client] = "none" THEN Idle
                ELSE [admin EXCEPT !.at = "mapping"]
    /\ hydra' = [hydra EXCEPT ![admin.client] = "none"]
    /\ UNCHANGED <<mapping, row, deleted>> /\ Admin

\* mappings.delete, and the applications row with it
DeleteMapping ==
    /\ admin.op = "delete" /\ admin.at = "mapping"
    /\ mapping' = mapping \ {admin.client}
    /\ row' = [row EXCEPT ![admin.client] = "none"]
    /\ deleted' = IF admin.client \in mapping THEN deleted \cup {admin.client} ELSE deleted
    /\ admin' = Idle
    /\ UNCHANGED hydra /\ Admin

\* The request's next call fails: what it wrote stays.
CredentialFails ==
    /\ admin # Idle
    /\ faults < MaxFaults
    /\ faults' = faults + 1
    /\ admin' = Idle
    /\ UNCHANGED <<stores, pc, deleted>>

-----------------------------------------------------------------------------
ReplicaStep(r) ==
    \/ Start(r) \/ ReadTenant(r) \/ InsertTenant(r) \/ ReadMapping(r)
    \/ GetClient(r) \/ UpdateClient(r) \/ Recreate(r) \/ CreateClient(r)
    \/ MapClient(r) \/ ReadRow(r) \/ SetCross(r) \/ InsertRow(r)
    \/ EnsureNamespace(r) \/ SeedApplication(r)

AdminStep ==
    \/ BeginCredential \/ CreateCredential \/ MapCredential \/ UpdateCredential
    \/ DeleteInHydra \/ DeleteMapping \/ CredentialFails

Next == (\E r \in Replicas : ReplicaStep(r) \/ Fail(r)) \/ AdminStep

\* A supervisor restarts an exited process and the calls of a startup return.
\* Two replicas may refuse one another for a while but not for ever: the step
\* that leaves the namespace and the seed is taken strongly.
Fairness ==
    \A r \in Replicas :
        /\ WF_vars(ReplicaStep(r))
        /\ SF_vars(SeedApplication(r) /\ pc'[r] = "serving")
        /\ SF_vars(EnsureNamespace(r) /\ pc'[r] = "seed")

Spec == Init /\ [][Next]_vars
FairSpec == Spec /\ Fairness

-----------------------------------------------------------------------------
\* What build_app has installed when a replica serves, whichever deployment it
\* found, whichever replicas started with it and wherever earlier startups
\* stopped: the system tenant, the client in Hydra with the scopes required, its
\* mapping, a cross-tenant applications row and the seeded namespace (a
\* deployment nobody deletes or edits the client of).
ServingInstalled ==
    Serving =>
        /\ tenant /\ seeded
        /\ hydra[Boot] = "current"
        /\ Boot \in mapping
        /\ row[Boot] = "cross"

\* Startups interrupted anywhere but between the client's creation in Hydra and
\* its mapping are completed by the next: every replica comes to serve for good.
EveryReplicaServes == <>[](\A r \in Replicas : pc[r] = "serving")

\* A deletion answered Ok leaves no client behind in Hydra, except the bootstrap
\* client, which a startup may install again.
DeletedIsGone == \A c \in deleted \ {Boot} : hydra[c] = "none" /\ c \notin mapping
=============================================================================
