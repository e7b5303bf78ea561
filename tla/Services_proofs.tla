--------------------------- MODULE Services_proofs ---------------------------
(***************************************************************************)
(* The startup that installs the gateway's own client, the identity        *)
(* schemas and the rate limiter, for any number of replicas, clients,      *)
(* schemas, callers and requests.  They share no state.                    *)
(***************************************************************************)
EXTENDS Bootstrap, Integers, FiniteSetTheorems, TLAPS

CONSTANTS SchemaIds, Docs, EmailDocs, Traits, Accepts, Members, Procs, Ops,
          MaxVersion, MaxMade, None

VARIABLES schema, made, pin, schemaReq, contents

Schemas == INSTANCE IdentitySchemas WITH row <- schema, req <- schemaReq

-----------------------------------------------------------------------------
(* Startup.  A replica that has come to a point of build_app finds there   *)
(* what the steps before it wrote, whoever wrote it: startups only add.    *)

\* The constants of any deployment.
Deployment ==
    /\ Boot \in Clients
    /\ Inits \subseteq {"fresh", "legacy", "wiped"}
    /\ AdminOps \subseteq {"create", "update", "delete"}
    /\ MaxFaults \in Nat

Installing == {"readRow", "setCross", "insertRow", "namespace", "seed", "serving"}

\* What is there when a replica is at x; the client is, as long as nobody
\* administers it.
Reached(x) ==
    /\ x \notin {"down", "readTenant", "insertTenant"} => tenant
    /\ AdminOps = {} =>
          /\ x \in {"getClient", "updateClient", "recreate"} \cup Installing => Boot \in mapping
          /\ x \in {"map"} \cup Installing => hydra[Boot] = "current"
          /\ x \in {"namespace", "seed", "serving"} => row[Boot] = "cross"
          /\ x = "serving" => seeded

StoreTypes ==
    /\ tenant \in BOOLEAN /\ seeded \in BOOLEAN
    /\ hydra \in [Clients -> {"none", "stale", "current"}]
    /\ mapping \subseteq Clients
    /\ row \in [Clients -> {"none", "plain", "cross"}]
    /\ \A c \in Clients : row[c] # "none" => c \in mapping
    /\ mapping # {} => tenant

StartInv ==
    /\ TypeOK
    /\ \A r \in Replicas : Reached(pc[r])
    /\ admin.at # "idle" => tenant
    /\ AdminOps = {} => admin = Idle

\* Startups only add.
Kept ==
    /\ tenant => tenant'
    /\ mapping \subseteq mapping'
    /\ hydra[Boot] = "current" => hydra'[Boot] = "current"
    /\ row[Boot] = "cross" => row'[Boot] = "cross"
    /\ seeded => seeded'

LEMMA ReachedKept == ASSUME Kept, NEW x, Reached(x) PROVE Reached(x)'
BY Zenon DEF Kept, Reached

\* A replica goes on, the others stay where they are.
LEMMA ReplicaMoves ==
    ASSUME StartInv, NEW r \in Replicas, NEW from, NEW to \in Pcs, Goto(r, from, to),
           Kept, Startup, StoreTypes', Reached(to)'
    PROVE  StartInv'
<1>1. /\ pc' \in [Replicas -> Pcs] /\ pc'[r] = to
      /\ \A q \in Replicas : q # r => pc'[q] = pc[q]
    BY Zenon DEF Goto, StartInv, TypeOK
<1>2. admin' = admin /\ deleted' = deleted /\ faults' = faults
    BY Zenon DEF Startup
<1>3. TypeOK'
    BY Zenon, <1>1, <1>2 DEF StartInv, TypeOK, StoreTypes
<1>4. ASSUME NEW q \in Replicas PROVE Reached(pc[q])'
    <2>1. CASE q = r
        BY Zenon, <1>1, <2>1 DEF Reached
    <2>2. CASE q # r
        <3>1. Reached(pc[q])
            BY Zenon DEF StartInv
        <3> QED BY Zenon, <1>1, <2>2, <3>1, ReachedKept DEF Reached
    <2> QED BY Zenon, <2>1, <2>2
<1> QED BY Zenon, <1>2, <1>3, <1>4 DEF StartInv, Kept, Idle

\* A step of build_app.
LEMMA StartupStep ==
    ASSUME Deployment, StartInv, NEW r \in Replicas, ReplicaStep(r)
    PROVE  StartInv'
<1>0. /\ StoreTypes /\ Boot \in Clients /\ Reached(pc[r]) /\ pc[r] \in Pcs
      /\ hydra[Boot] \in {"none", "stale", "current"} /\ row[Boot] \in {"none", "plain", "cross"}
    BY Zenon DEF StartInv, TypeOK, StoreTypes, Deployment
<1>1. {"down", "serving", "readTenant", "insertTenant", "readMapping", "getClient",
       "updateClient", "recreate", "create", "map", "readRow",
       "setCross", "insertRow", "namespace", "seed"} \subseteq Pcs
    BY Zenon DEF Pcs, StartPcs
\* Reads: the stores stay as they are.
<1>2. ASSUME NEW from, NEW to \in Pcs, Goto(r, from, to), UNCHANGED stores, Startup, Reached(to)
      PROVE  StartInv'
    <2>1. Kept /\ StoreTypes'
        BY Zenon, <1>0, <1>2 DEF stores, Kept, StoreTypes
    <2>2. Reached(to)'
        BY Zenon, <1>2, <2>1, ReachedKept
    <2> QED BY Zenon, <1>2, <2>1, <2>2, ReplicaMoves
<1>3. CASE Start(r)
    <2>1. Reached("readTenant")
        BY Zenon DEF Reached, Installing
    <2> QED BY Zenon, <1>1, <1>2, <1>3, <2>1 DEF Start
<1>4. CASE ReadTenant(r)
    <2>1. PICK to : to = IF tenant THEN "readMapping" ELSE "insertTenant"
        BY Zenon
    <2>2. to \in Pcs /\ Reached(to)
        BY Zenon, <1>0, <1>1, <2>1 DEF Reached, Installing
    <2> QED BY Zenon, <1>2, <1>4, <2>1, <2>2 DEF ReadTenant
<1>5. CASE ReadMapping(r)
    <2>1. PICK to : to = IF MappingExists(Boot) THEN "getClient" ELSE "create"
        BY Zenon
    <2>2. pc[r] = "readMapping"
        BY Zenon, <1>5 DEF ReadMapping, Goto
    <2>3. to \in Pcs /\ Reached(to)
        BY Zenon, <1>0, <1>1, <2>1, <2>2 DEF Reached, Installing, MappingExists
    <2> QED BY Zenon, <1>2, <1>5, <2>1, <2>3 DEF ReadMapping
<1>6. CASE GetClient(r)
    <2>1. PICK to : to = AfterGet(hydra[Boot])
        BY Zenon
    <2>2. pc[r] = "getClient"
        BY Zenon, <1>6 DEF GetClient, Goto
    <2>3. to \in Pcs /\ Reached(to)
        BY Zenon, <1>0, <1>1, <2>1, <2>2 DEF Reached, Installing, AfterGet
    <2> QED BY Zenon, <1>2, <1>6, <2>1, <2>3 DEF GetClient
<1>7. CASE ReadRow(r)
    <2>1. PICK to : to = AfterRow(row[Boot])
        BY Zenon
    <2>2. pc[r] = "readRow"
        BY Zenon, <1>7 DEF ReadRow, Goto
    <2>3. to \in Pcs /\ Reached(to)
        BY Zenon, <1>0, <1>1, <2>1, <2>2 DEF Reached, Installing, AfterRow
    <2> QED BY Zenon, <1>2, <1>7, <2>1, <2>3 DEF ReadRow
<1>8. CASE EnsureNamespace(r)
    <2>1. PICK to \in {"seed", "down"} : Goto(r, "namespace", to)
        BY Zenon, <1>8 DEF EnsureNamespace
    <2>2. pc[r] = "namespace"
        BY Zenon, <2>1 DEF Goto
    <2>3. to \in Pcs /\ Reached(to)
        BY Zenon, <1>0, <1>1, <2>2 DEF Reached, Installing
    <2> QED BY Zenon, <1>2, <1>8, <2>1, <2>3 DEF EnsureNamespace
\* Writes.
<1>9. CASE InsertTenant(r)
    <2>1. PICK to : to = IF tenant THEN "down" ELSE "readMapping"
        BY Zenon
    <2>2. Kept /\ StoreTypes' /\ Startup /\ tenant'
        BY Zenon, <1>0, <1>9 DEF InsertTenant, Kept, StoreTypes
    <2>3. to \in Pcs /\ Reached(to)'
        BY Zenon, <1>1, <2>1, <2>2 DEF Reached, Installing
    <2> QED BY Zenon, <1>9, <2>1, <2>2, <2>3, ReplicaMoves DEF InsertTenant
<1>10. CASE UpdateClient(r)
    <2>1. PICK to : to = IF hydra[Boot] = "none" THEN "down" ELSE "readRow"
        BY Zenon
    <2>2. PICK w : w = IF hydra[Boot] = "none" THEN hydra[Boot] ELSE "current"
        BY Zenon
    <2>3. hydra' = [hydra EXCEPT ![Boot] = w] /\ w \in {"none", "current"}
        BY Zenon, <1>10, <2>2 DEF UpdateClient
    <2>4. Kept /\ StoreTypes' /\ Startup /\ hydra'[Boot] = w /\ mapping' = mapping
        BY Zenon, <1>0, <1>10, <2>2, <2>3 DEF UpdateClient, Kept, StoreTypes
    <2>5. pc[r] = "updateClient" /\ tenant' = tenant
        BY Zenon, <1>10 DEF UpdateClient, Goto
    <2>6. to \in Pcs /\ Reached(to)'
        BY Zenon, <1>0, <1>1, <2>1, <2>2, <2>4, <2>5 DEF Reached, Installing
    <2> QED BY Zenon, <1>10, <2>1, <2>4, <2>6, ReplicaMoves DEF UpdateClient
<1>11. ASSUME NEW from \in {"recreate", "create"}, NEW next \in {"readRow", "map"},
              CreateAt(r, from, next), from = "recreate" <=> next = "readRow"
       PROVE  StartInv'
    <2>1. PICK to : to = IF hydra[Boot] = "none" THEN next ELSE "down"
        BY Zenon
    <2>2. PICK w : w = IF hydra[Boot] = "none" THEN "current" ELSE hydra[Boot]
        BY Zenon
    <2>3. hydra' = [hydra EXCEPT ![Boot] = w] /\ w \in {"stale", "current"}
        BY Zenon, <1>0, <1>11, <2>2 DEF CreateAt
    <2>4. Kept /\ StoreTypes' /\ Startup /\ hydra'[Boot] = w /\ mapping' = mapping
        BY Zenon, <1>0, <1>11, <2>2, <2>3 DEF CreateAt, Kept, StoreTypes
    <2>5. pc[r] = from /\ tenant' = tenant
        BY Zenon, <1>11 DEF CreateAt, Goto
    <2>6. to \in Pcs /\ Reached(to)'
        BY Zenon, <1>0, <1>1, <1>11, <2>1, <2>2, <2>4, <2>5 DEF Reached, Installing
    <2> QED BY Zenon, <1>11, <2>1, <2>4, <2>6, ReplicaMoves DEF CreateAt
<1>12. CASE MapClient(r)
    <2>1. PICK to : to = IF Boot \in mapping THEN "down" ELSE "readRow"
        BY Zenon
    <2>2. pc[r] = "map" /\ hydra' = hydra /\ tenant /\ tenant' /\ Boot \in mapping'
        BY Zenon, <1>0, <1>12 DEF MapClient, Goto, Reached
    <2>3. Kept /\ StoreTypes' /\ Startup
        BY Zenon, <1>0, <1>12, <2>2 DEF MapClient, Kept, StoreTypes
    <2>4. to \in Pcs /\ Reached(to)'
        BY Zenon, <1>0, <1>1, <2>1, <2>2 DEF Reached, Installing
    <2> QED BY Zenon, <1>12, <2>1, <2>3, <2>4, ReplicaMoves DEF MapClient
<1>13. CASE SetCross(r)
    <2>1. PICK to : to = IF row[Boot] = "none" THEN "down" ELSE "namespace"
        BY Zenon
    <2>2. PICK w : w = IF row[Boot] = "none" THEN row[Boot] ELSE "cross"
        BY Zenon
    <2>3. row' = [row EXCEPT ![Boot] = w] /\ w \in {"none", "cross"}
        BY Zenon, <1>13, <2>2 DEF SetCross
    <2>4. /\ Kept /\ StoreTypes' /\ Startup /\ row'[Boot] = w
          /\ mapping' = mapping /\ hydra' = hydra /\ tenant' = tenant
        BY Zenon, <1>0, <1>13, <2>2, <2>3 DEF SetCross, Kept, StoreTypes
    <2>5. pc[r] = "setCross"
        BY Zenon, <1>13 DEF SetCross, Goto
    <2>6. to \in Pcs /\ Reached(to)'
        BY Zenon, <1>0, <1>1, <2>1, <2>2, <2>4, <2>5 DEF Reached, Installing
    <2> QED BY Zenon, <1>13, <2>1, <2>4, <2>6, ReplicaMoves DEF SetCross
<1>14. CASE InsertRow(r)
    <2>1. PICK fits \in BOOLEAN : fits = (row[Boot] = "none" /\ Boot \in mapping)
        BY Zenon
    <2>2. PICK to, w : to = (IF fits THEN "namespace" ELSE "down")
                       /\ w = (IF fits THEN "cross" ELSE row[Boot])
        BY Zenon
    <2>3. /\ row' = [row EXCEPT ![Boot] = w] /\ w \in {"none", "plain", "cross"}
          /\ Goto(r, "insertRow", to) /\ Startup
        BY Zenon, <1>0, <1>14, <2>1, <2>2 DEF InsertRow
    <2>4. /\ Kept /\ StoreTypes' /\ row'[Boot] = w
          /\ mapping' = mapping /\ hydra' = hydra /\ tenant' = tenant
        BY Zenon, <1>0, <1>14, <2>1, <2>2, <2>3 DEF InsertRow, Kept, StoreTypes
    <2>5. pc[r] = "insertRow"
        BY Zenon, <2>3 DEF Goto
    <2>6. to \in Pcs /\ Reached(to)'
        BY Zenon, <1>0, <1>1, <2>2, <2>4, <2>5 DEF Reached, Installing
    <2> QED BY Zenon, <2>3, <2>4, <2>6, ReplicaMoves
<1>15. CASE SeedApplication(r)
    <2>1. PICK to \in {"serving", "down"} : /\ Goto(r, "seed", to) /\ (to = "serving" => seeded')
                                            /\ seeded' = TRUE \/ seeded' = seeded
        BY Zenon, <1>15 DEF SeedApplication
    <2>2. /\ Kept /\ StoreTypes' /\ Startup
          /\ row' = row /\ mapping' = mapping /\ hydra' = hydra /\ tenant' = tenant
        <3>1. /\ row' = row /\ mapping' = mapping /\ hydra' = hydra /\ tenant' = tenant /\ Startup
            BY Zenon, <1>15 DEF SeedApplication
        <3>2. (seeded => seeded') /\ seeded' \in BOOLEAN
            <4>1. CASE seeded' = TRUE
                BY Zenon, <4>1
            <4>2. CASE seeded' = seeded
                BY Zenon, <1>0, <4>2 DEF StoreTypes
            <4> QED BY Zenon, <2>1, <4>1, <4>2
        <3> QED BY Zenon, <1>0, <3>1, <3>2 DEF Kept, StoreTypes
    <2>3. pc[r] = "seed"
        BY Zenon, <2>1 DEF Goto
    <2>4. to \in Pcs /\ Reached(to)'
        BY Zenon, <1>0, <1>1, <2>1, <2>2, <2>3 DEF Reached, Installing
    <2> QED BY Zenon, <2>1, <2>2, <2>4, ReplicaMoves
<1> QED BY Zenon, <1>3, <1>4, <1>5, <1>6, <1>7, <1>8, <1>9, <1>10, <1>11, <1>12, <1>13, <1>14,
           <1>15 DEF ReplicaStep, Recreate, CreateClient

\* A failed startup.
LEMMA StartupFails ==
    ASSUME Deployment, StartInv, NEW r \in Replicas, Fail(r)
    PROVE  StartInv'
<1>1. /\ pc' = [pc EXCEPT ![r] = "down"] /\ UNCHANGED <<stores, admin, deleted>>
      /\ faults' = faults + 1 /\ faults < MaxFaults
    BY Zenon DEF Fail
<1>2. faults' \in 0 .. MaxFaults
    BY <1>1 DEF StartInv, TypeOK, Deployment
<1>3. TypeOK' /\ Kept
    BY Zenon, <1>1, <1>2 DEF StartInv, TypeOK, stores, Pcs, Kept
<1>4. ASSUME NEW q \in Replicas PROVE Reached(pc[q])'
    <2>1. Reached(pc[q])'  \/ pc'[q] # "down"
        BY Zenon DEF Reached, Installing
    <2>2. pc'[q] = "down" \/ pc'[q] = pc[q]
        BY Zenon, <1>1 DEF StartInv, TypeOK
    <2>3. Reached(pc[q])
        BY Zenon DEF StartInv
    <2> QED BY Zenon, <1>3, <2>1, <2>2, <2>3, ReachedKept DEF Reached
<1> QED BY Zenon, <1>1, <1>3, <1>4 DEF StartInv, Kept, Idle

\* The credential service, which changes no point of a startup and never the
\* tenant.
LEMMA CredentialStep ==
    ASSUME Deployment, StartInv, AdminStep
    PROVE  StartInv'
<1>0. /\ admin \in [op: AdminOps \cup {"none"}, client: Clients, at: {"idle", "hydra", "mapping"}]
      /\ pc \in [Replicas -> Pcs] /\ deleted \subseteq Clients /\ faults \in 0 .. MaxFaults
      /\ StoreTypes /\ MaxFaults \in Nat
      /\ admin.at # "idle" => tenant
      /\ \A r \in Replicas : Reached(pc[r])
    BY Zenon DEF StartInv, TypeOK, StoreTypes, Deployment
<1>1. Idle \in [op: AdminOps \cup {"none"}, client: Clients, at: {"idle", "hydra", "mapping"}]
      /\ Idle.at = "idle" /\ Idle.op = "none"
    BY Zenon DEF Idle, Deployment
<1>2. AdminOps # {}
    <2>1. SUFFICES ASSUME AdminOps = {} PROVE FALSE
        BY Zenon
    <2>2. admin = Idle
        BY Zenon, <2>1 DEF StartInv
    <2> QED BY Zenon, <1>1, <2>1, <2>2 DEF AdminStep, BeginCredential, CreateCredential,
               MapCredential, UpdateCredential, DeleteInHydra, DeleteMapping, CredentialFails
<1>3. tenant' = tenant /\ seeded' = seeded /\ pc' = pc
    BY Zenon DEF AdminStep, BeginCredential, CreateCredential, MapCredential, UpdateCredential,
       DeleteInHydra, DeleteMapping, CredentialFails, Admin, stores
<1>4. faults' \in 0 .. MaxFaults
    <2>1. CASE CredentialFails
        BY <1>0, <2>1 DEF CredentialFails
    <2>2. CASE faults' = faults
        BY Zenon, <1>0, <2>2
    <2> QED BY Zenon, <2>1, <2>2 DEF AdminStep, BeginCredential, CreateCredential, MapCredential,
               UpdateCredential, DeleteInHydra, DeleteMapping, Admin
<1>5. ASSUME NEW r \in Replicas PROVE Reached(pc[r])'
    <2>1. Reached(pc[r]) /\ pc'[r] = pc[r]
        BY Zenon, <1>0, <1>3
    <2> QED BY Zenon, <1>2, <1>3, <2>1 DEF Reached
<1>6. SUFFICES /\ admin' \in [op: AdminOps \cup {"none"}, client: Clients,
                              at: {"idle", "hydra", "mapping"}]
               /\ admin'.at # "idle" => tenant
               /\ hydra' \in [Clients -> {"none", "stale", "current"}]
               /\ mapping' \subseteq Clients /\ (mapping' # {} => tenant)
               /\ row' \in [Clients -> {"none", "plain", "cross"}]
               /\ \A c \in Clients : row'[c] # "none" => c \in mapping'
               /\ deleted' \subseteq Clients
    BY Zenon, <1>0, <1>2, <1>3, <1>4, <1>5 DEF StartInv, TypeOK, StoreTypes
<1>7. CASE BeginCredential
    <2>1. tenant
        BY Zenon, <1>0, <1>7 DEF BeginCredential, Serving, Reached
    <2>2. /\ admin' \in [op: AdminOps \cup {"none"}, client: Clients,
                         at: {"idle", "hydra", "mapping"}]
          /\ hydra' = hydra /\ mapping' = mapping /\ row' = row /\ deleted' = deleted
        <3>1. PICK op \in AdminOps, c \in Clients : admin' = [op |-> op, client |-> c, at |-> "hydra"]
            BY Zenon, <1>7 DEF BeginCredential
        <3>2. hydra' = hydra /\ mapping' = mapping /\ row' = row /\ deleted' = deleted
            BY Zenon, <1>7 DEF BeginCredential
        <3> QED BY Zenon, <3>1, <3>2
    <2> QED BY Zenon, <1>0, <2>1, <2>2 DEF StoreTypes
<1>8. CASE CreateCredential
    <2>1. /\ hydra' = [hydra EXCEPT ![admin.client] = "current"] /\ admin.client \in Clients
          /\ mapping' = mapping /\ row' = row /\ deleted' = deleted /\ tenant
        BY Zenon, <1>0, <1>8 DEF CreateCredential
    <2>2. admin' \in [op: AdminOps \cup {"none"}, client: Clients, at: {"idle", "hydra", "mapping"}]
        BY Zenon, <1>0, <1>8 DEF CreateCredential
    <2> QED BY Zenon, <1>0, <2>1, <2>2 DEF StoreTypes
<1>9. CASE MapCredential
    <2>1. /\ mapping' = mapping \cup {admin.client} /\ admin.client \in Clients /\ tenant
          /\ hydra' = hydra /\ row' = row /\ deleted' = deleted /\ admin' = Idle
        BY Zenon, <1>0, <1>9 DEF MapCredential
    <2> QED BY Zenon, <1>0, <1>1, <2>1 DEF StoreTypes
<1>10. CASE UpdateCredential
    <2>1. PICK w : w = IF hydra[admin.client] = "none" THEN hydra[admin.client] ELSE "stale"
        BY Zenon
    <2>2. /\ hydra' = [hydra EXCEPT ![admin.client] = w] /\ admin.client \in Clients
          /\ mapping' = mapping /\ row' = row /\ deleted' = deleted /\ admin' = Idle
          /\ w \in {"none", "stale"}
        BY Zenon, <1>0, <1>10, <2>1 DEF UpdateCredential
    <2> QED BY Zenon, <1>0, <1>1, <2>2 DEF StoreTypes
<1>11. CASE DeleteInHydra
    <2>1. /\ hydra' = [hydra EXCEPT ![admin.client] = "none"] /\ admin.client \in Clients
          /\ mapping' = mapping /\ row' = row /\ deleted' = deleted /\ tenant
          /\ admin' = Idle \/ admin' = [admin EXCEPT !.at = "mapping"]
        BY Zenon, <1>0, <1>11 DEF DeleteInHydra
    <2>2. admin' \in [op: AdminOps \cup {"none"}, client: Clients, at: {"idle", "hydra", "mapping"}]
        BY Zenon, <1>0, <1>1, <2>1
    <2> QED BY Zenon, <1>0, <2>1, <2>2 DEF StoreTypes
<1>12. CASE DeleteMapping
    <2>1. /\ mapping' = mapping \ {admin.client} /\ admin.client \in Clients /\ tenant
          /\ row' = [row EXCEPT ![admin.client] = "none"]
          /\ hydra' = hydra /\ deleted' \subseteq Clients /\ admin' = Idle
        BY Zenon, <1>0, <1>12 DEF DeleteMapping
    <2> QED BY Zenon, <1>0, <1>1, <2>1 DEF StoreTypes
<1>13. CASE CredentialFails
    BY Zenon, <1>0, <1>1, <1>13 DEF CredentialFails, stores, StoreTypes
<1> QED BY Zenon, <1>7, <1>8, <1>9, <1>10, <1>11, <1>12, <1>13 DEF AdminStep

LEMMA StartupInit == ASSUME Deployment, Init PROVE StartInv
<1>1. PICK i \in Inits :
          /\ tenant = (i # "fresh")
          /\ hydra = [c \in Clients |-> IF i = "legacy" /\ c = Boot THEN "stale" ELSE "none"]
          /\ mapping = IF i = "fresh" THEN {} ELSE {Boot}
          /\ row = [c \in Clients |-> IF i = "legacy" /\ c = Boot THEN "plain" ELSE "none"]
    BY Zenon DEF Init
<1>2. /\ seeded = FALSE /\ pc = [r \in Replicas |-> "down"] /\ admin = Idle /\ deleted = {}
      /\ faults = 0
    BY Zenon DEF Init
<1>3. StoreTypes
    BY Zenon, <1>1, <1>2 DEF StoreTypes, Deployment
<1>4. 0 \in 0 .. MaxFaults
    BY DEF Deployment
<1>5. TypeOK
    BY Zenon, <1>2, <1>3, <1>4 DEF TypeOK, StoreTypes, Idle, Pcs, Deployment
<1>6. \A r \in Replicas : Reached(pc[r])
    BY Zenon, <1>2 DEF Reached, Installing
<1> QED BY Zenon, <1>2, <1>5, <1>6 DEF StartInv, Idle

LEMMA StartupNext == ASSUME Deployment, StartInv, [Next]_vars PROVE StartInv'
<1>1. CASE UNCHANGED vars
    BY Zenon, <1>1 DEF vars, stores, StartInv, TypeOK, Reached
<1> QED BY Zenon, <1>1, StartupStep, StartupFails, CredentialStep DEF Next

\* The stores of build_app and of the credential service stay consistent: an
\* applications row has its mapping and a mapping the system tenant, however
\* many replicas start and fail together.
THEOREM StartupTypeCorrect ==
    ASSUME Deployment
    PROVE  Spec => []TypeOK
<1>1. Init => StartInv
    BY Zenon, StartupInit
<1>2. StartInv /\ [Next]_vars => StartInv'
    BY Zenon, StartupNext
<1>3. StartInv => TypeOK
    BY Zenon DEF StartInv
<1> QED BY <1>1, <1>2, <1>3, PTL DEF Spec

\* Whenever build_app lets a replica serve, the system tenant, the bootstrap
\* client with its scopes, its mapping, its cross-tenant applications row and
\* the seeded namespace are there, for any number of replicas that start, race
\* and fail anywhere, as long as nobody administers credentials.
THEOREM StartupInstalls ==
    ASSUME Deployment, AdminOps = {}
    PROVE  Spec => []ServingInstalled
<1>1. Init => StartInv
    BY Zenon, StartupInit
<1>2. StartInv /\ [Next]_vars => StartInv'
    BY Zenon, StartupNext
<1>3. StartInv => ServingInstalled
    BY Zenon DEF StartInv, Reached, Installing, ServingInstalled, Serving
<1> QED BY <1>1, <1>2, <1>3, PTL DEF Spec

\* A credential that was deleted is in no later request; a deletion that has
\* reached the mapping has taken the client from Hydra.
CredentialInv ==
    /\ DeletedIsGone
    /\ admin.at # "idle" => admin.client \notin deleted \ {Boot}
    /\ admin.op = "delete" /\ admin.at = "mapping" /\ admin.client # Boot =>
          hydra[admin.client] = "none"

\* Startups touch no client but the bootstrap client.
LEMMA StartupsAside ==
    ASSUME Deployment, StartInv, CredentialInv, NEW r \in Replicas, ReplicaStep(r) \/ Fail(r)
    PROVE  CredentialInv'
<1>1. admin' = admin /\ deleted' = deleted /\ mapping' \subseteq mapping \cup {Boot}
    BY Zenon DEF ReplicaStep, Fail, Start, ReadTenant, InsertTenant, ReadMapping, GetClient,
       UpdateClient, Recreate, CreateClient, CreateAt, MapClient, ReadRow, SetCross, InsertRow,
       EnsureNamespace, SeedApplication, Startup, stores
<1>2. ASSUME NEW c \in Clients, c # Boot PROVE hydra'[c] = hydra[c]
    BY Zenon, <1>2 DEF ReplicaStep, Fail, Start, ReadTenant, InsertTenant, ReadMapping, GetClient,
       UpdateClient, Recreate, CreateClient, CreateAt, MapClient, ReadRow, SetCross, InsertRow,
       EnsureNamespace, SeedApplication, stores, StartInv, TypeOK
<1>3. deleted \subseteq Clients /\ admin.client \in Clients
    BY Zenon DEF StartInv, TypeOK
<1> QED BY Zenon, <1>1, <1>2, <1>3 DEF CredentialInv, DeletedIsGone

\* A step of the credential service.
LEMMA CredentialsKept ==
    ASSUME Deployment, StartInv, CredentialInv, AdminStep
    PROVE  CredentialInv'
<1>0. /\ deleted \subseteq Clients /\ admin.client \in Clients
      /\ hydra \in [Clients -> {"none", "stale", "current"}]
      /\ admin \in [op: AdminOps \cup {"none"}, client: Clients, at: {"idle", "hydra", "mapping"}]
    BY Zenon DEF StartInv, TypeOK
<1>1. Idle.at = "idle" /\ Idle.op = "none"
    BY Zenon DEF Idle
<1>2. \A c \in deleted \ {Boot} : hydra[c] = "none" /\ c \notin mapping
    BY Zenon DEF CredentialInv, DeletedIsGone
<1>3. CASE BeginCredential
    <2>1. PICK op \in AdminOps, c \in Clients :
              /\ c \notin deleted \/ c \in mapping
              /\ admin' = [op |-> op, client |-> c, at |-> "hydra"]
        BY Zenon, <1>3 DEF BeginCredential
    <2>2. hydra' = hydra /\ mapping' = mapping /\ deleted' = deleted
        BY Zenon, <1>3 DEF BeginCredential
    <2>3. admin'.client = c /\ admin'.at = "hydra"
        BY Zenon, <2>1
    <2> QED BY Zenon, <1>2, <2>1, <2>2, <2>3 DEF CredentialInv, DeletedIsGone
<1>4. CASE CreateCredential
    <2>1. /\ hydra' = [hydra EXCEPT ![admin.client] = "current"] /\ admin.op = "create"
          /\ mapping' = mapping /\ deleted' = deleted /\ admin.client \notin deleted \ {Boot}
        BY Zenon, <1>4 DEF CreateCredential, CredentialInv
    <2>2. admin'.client = admin.client /\ admin'.op = "create"
        BY Zenon, <1>0, <1>4 DEF CreateCredential
    <2> QED BY Zenon, <1>0, <1>2, <2>1, <2>2 DEF CredentialInv, DeletedIsGone
<1>5. CASE MapCredential
    <2>1. /\ mapping' = mapping \cup {admin.client} /\ hydra' = hydra /\ deleted' = deleted
          /\ admin' = Idle /\ admin.client \notin deleted \ {Boot}
        BY Zenon, <1>5 DEF MapCredential, CredentialInv
    <2> QED BY Zenon, <1>1, <1>2, <2>1 DEF CredentialInv, DeletedIsGone
<1>6. CASE UpdateCredential
    <2>1. /\ \A c \in Clients : hydra[c] = "none" => hydra'[c] = "none"
          /\ mapping' = mapping /\ deleted' = deleted /\ admin' = Idle
        BY Zenon, <1>0, <1>6 DEF UpdateCredential
    <2> QED BY Zenon, <1>0, <1>1, <1>2, <2>1 DEF CredentialInv, DeletedIsGone
<1>7. CASE DeleteInHydra
    <2>1. /\ \A c \in Clients : hydra[c] = "none" => hydra'[c] = "none"
          /\ hydra'[admin.client] = "none" /\ mapping' = mapping /\ deleted' = deleted
          /\ admin' = Idle \/ admin' = [admin EXCEPT !.at = "mapping"]
          /\ admin.client \notin deleted \ {Boot}
        BY Zenon, <1>0, <1>7 DEF DeleteInHydra, CredentialInv
    <2>2. admin' = Idle \/ admin'.client = admin.client
        BY Zenon, <1>0, <2>1
    <2> QED BY Zenon, <1>0, <1>1, <1>2, <2>1, <2>2 DEF CredentialInv, DeletedIsGone
<1>8. CASE DeleteMapping
    <2>1. /\ mapping' = mapping \ {admin.client} /\ hydra' = hydra /\ admin' = Idle
          /\ deleted' \subseteq deleted \cup {admin.client}
          /\ admin.client # Boot => hydra[admin.client] = "none"
        BY Zenon, <1>8 DEF DeleteMapping, CredentialInv
    <2> QED BY Zenon, <1>1, <1>2, <2>1 DEF CredentialInv, DeletedIsGone
<1>9. CASE CredentialFails
    BY Zenon, <1>1, <1>2, <1>9 DEF CredentialFails, stores, CredentialInv, DeletedIsGone
<1> QED BY Zenon, <1>3, <1>4, <1>5, <1>6, <1>7, <1>8, <1>9 DEF AdminStep

\* A deletion of a client credential that was answered Ok leaves no client in
\* Hydra and no mapping, although replicas start, fail and install their own
\* client meanwhile and requests are cut off between their two writes.
THEOREM DeletionsLast ==
    ASSUME Deployment
    PROVE  Spec => []DeletedIsGone
<1>1. Init => StartInv /\ CredentialInv
    <2>1. Init => admin = Idle /\ deleted = {}
        BY Zenon DEF Init
    <2>2. Idle.at = "idle"
        BY Zenon DEF Idle
    <2> QED BY Zenon, <2>1, <2>2, StartupInit DEF CredentialInv, DeletedIsGone
<1>2. StartInv /\ CredentialInv /\ [Next]_vars => StartInv' /\ CredentialInv'
    <2>1. StartInv /\ CredentialInv /\ UNCHANGED vars => CredentialInv'
        BY Zenon DEF vars, stores, CredentialInv, DeletedIsGone
    <2> QED BY Zenon, <2>1, StartupNext, StartupsAside, CredentialsKept DEF Next
<1>3. CredentialInv => DeletedIsGone
    BY Zenon DEF CredentialInv
<1> QED BY <1>1, <1>2, <1>3, PTL DEF Spec

-----------------------------------------------------------------------------
(* Identity schemas.  A version that was read stays in the history of the  *)
(* contents, whatever becomes of its row.                                  *)

SchemaRows == [json: Docs, version: Nat, default: BOOLEAN, created: Nat]

SchemaCalls ==
    [pc: {"idle", "unset", "update", "resolve", "upsert"},
     op: {"none", "update", "set_default", "write"},
     schema: SchemaIds \cup {None}, json: Docs \cup {None}, default: BOOLEAN,
     member: Members \cup {None}, traits: Traits \cup {None}, version: Nat]

\* What a call in progress is about.
CallKnown(q) ==
    /\ q.pc \in {"unset", "update"} =>
          q.schema \in SchemaIds /\ q.op \in {"update", "set_default"}
    /\ q.pc \in {"unset", "update"} /\ q.op = "update" => q.json \in Docs
    /\ q.pc \in {"resolve", "upsert"} => q.member \in Members

SchemaTypes ==
    /\ schema \in [SchemaIds -> SchemaRows \cup {None}]
    /\ made \in Nat
    /\ DOMAIN pin = Members
    /\ schemaReq \in [Procs -> SchemaCalls]
    /\ \A p \in Procs : CallKnown(schemaReq[p])

\* Version v of schema s was stored with a document that accepts t.
Accepted(s, v, t) == \E c \in contents : c[1] = s /\ c[2] = v /\ t \in Accepts[c[3]]

\* Rows are in the history; what a write resolved was accepted.
PinInv ==
    /\ SchemaTypes
    /\ \A s \in SchemaIds :
          schema[s] # None => <<s, schema[s].version, schema[s].json>> \in contents
    /\ \A p \in Procs : schemaReq[p].pc = "upsert" =>
          Accepted(schemaReq[p].schema, schemaReq[p].version, schemaReq[p].traits)
    /\ \A m \in Members : pin[m] # None => Accepted(pin[m].schema, pin[m].version, pin[m].traits)

\* The history only grows.
LEMMA AcceptedKept ==
    ASSUME contents \subseteq contents', NEW s, NEW v, NEW t, Accepted(s, v, t)
    PROVE  Accepted(s, v, t)'
BY Zenon DEF Accepted

\* One call moves, to a call that is known and whose version was accepted.
LEMMA SchemaMoves ==
    ASSUME SchemaTypes, NEW r \in Procs, NEW q \in SchemaCalls, CallKnown(q), Schemas!Go(r, q)
    PROVE  /\ schemaReq' \in [Procs -> SchemaCalls] /\ schemaReq'[r] = q
           /\ \A p \in Procs : p # r => schemaReq'[p] = schemaReq[p]
           /\ \A p \in Procs : CallKnown(schemaReq'[p])
<1>1. /\ schemaReq' \in [Procs -> SchemaCalls] /\ schemaReq'[r] = q
      /\ \A p \in Procs : p # r => schemaReq'[p] = schemaReq[p]
    BY Zenon DEF SchemaTypes, Schemas!Go
<1> QED BY Zenon, <1>1 DEF SchemaTypes

LEMMA SchemaIdle ==
    Schemas!Idle \in SchemaCalls /\ CallKnown(Schemas!Idle) /\ Schemas!Idle.pc = "idle"
<1>1. 0 \in Nat
    OBVIOUS
<1>2. Schemas!Idle.pc = "idle"
    BY Zenon DEF Schemas!Idle
<1> QED BY Zenon, <1>1, <1>2 DEF Schemas!Idle, SchemaCalls, CallKnown

\* A step that leaves the rows, the pins and the history alone.
LEMMA CallMoves ==
    ASSUME PinInv, NEW r \in Procs, NEW q \in SchemaCalls, CallKnown(q), Schemas!Go(r, q),
           UNCHANGED <<schema, made, pin, contents>>,
           q.pc = "upsert" => Accepted(q.schema, q.version, q.traits)
    PROVE  PinInv'
<1>1. /\ schemaReq' \in [Procs -> SchemaCalls] /\ schemaReq'[r] = q
      /\ \A p \in Procs : p # r => schemaReq'[p] = schemaReq[p]
      /\ \A p \in Procs : CallKnown(schemaReq'[p])
    BY Zenon, SchemaMoves DEF PinInv
<1>2. SchemaTypes'
    BY Zenon, <1>1 DEF PinInv, SchemaTypes, CallKnown
<1>3. ASSUME NEW p \in Procs, schemaReq'[p].pc = "upsert"
      PROVE  Accepted(schemaReq[p].schema, schemaReq[p].version, schemaReq[p].traits)'
    <2>1. PICK c : c = schemaReq'[p]
        BY Zenon
    <2>2. Accepted(c.schema, c.version, c.traits)
        BY Zenon, <1>1, <1>3, <2>1 DEF PinInv
    <2>3. Accepted(c.schema, c.version, c.traits)'
        BY Zenon, <2>2, AcceptedKept
    <2> QED BY Zenon, <2>1, <2>3 DEF Accepted
<1> QED BY Zenon, <1>2, <1>3 DEF PinInv, Accepted

\* The rows change, and the history with them.
LEMMA RowsMove ==
    ASSUME PinInv, contents \subseteq contents', pin' = pin, made' \in Nat,
           schema' \in [SchemaIds -> SchemaRows \cup {None}],
           \A s \in SchemaIds :
              schema'[s] # None => <<s, schema'[s].version, schema'[s].json>> \in contents',
           schemaReq' \in [Procs -> SchemaCalls],
           \A p \in Procs : CallKnown(schemaReq'[p]),
           \A p \in Procs : schemaReq'[p].pc = "upsert" => schemaReq'[p] = schemaReq[p]
    PROVE  PinInv'
<1>1. SchemaTypes'
    BY Zenon DEF PinInv, SchemaTypes, CallKnown
<1>2. ASSUME NEW p \in Procs, schemaReq'[p].pc = "upsert"
      PROVE  Accepted(schemaReq[p].schema, schemaReq[p].version, schemaReq[p].traits)'
    <2>1. schemaReq'[p] = schemaReq[p]
        BY Zenon, <1>2
    <2>2. Accepted(schemaReq[p].schema, schemaReq[p].version, schemaReq[p].traits)
        BY Zenon, <1>2, <2>1 DEF PinInv
    <2> QED BY Zenon, <2>1, <2>2, AcceptedKept DEF Accepted
<1>3. ASSUME NEW m \in Members, pin'[m] # None
      PROVE  Accepted(pin[m].schema, pin[m].version, pin[m].traits)'
    <2>1. Accepted(pin[m].schema, pin[m].version, pin[m].traits)
        BY Zenon, <1>3 DEF PinInv
    <2> QED BY Zenon, <2>1, AcceptedKept DEF Accepted
<1> QED BY Zenon, <1>1, <1>2, <1>3 DEF PinInv

\* What the second statement of an update stores.
LEMMA UpdatedRow ==
    ASSUME NEW old \in SchemaRows, NEW q \in SchemaCalls, q.op \in {"update", "set_default"},
           q.op = "update" => q.json \in Docs,
           NEW new, new = Schemas!Updated(old, q)
    PROVE  /\ new \in SchemaRows
           /\ \/ new.version = old.version /\ new.json = old.json
              \/ new.version = old.version + 1
<1>1. old.version + 1 \in Nat
    BY DEF SchemaRows
<1>2. q.default \in BOOLEAN
    BY Zenon DEF SchemaCalls
<1>3. CASE q.op = "set_default"
    BY Zenon, <1>3 DEF Schemas!Updated, SchemaRows
<1>4. CASE q.op = "update"
    BY Zenon, <1>1, <1>2, <1>4 DEF Schemas!Updated, SchemaRows
<1> QED BY Zenon, <1>3, <1>4

\* A step of an administrator or of an identity write.
LEMMA SchemaStep ==
    ASSUME PinInv, Schemas!Next
    PROVE  PinInv'
<1>0. /\ schema \in [SchemaIds -> SchemaRows \cup {None}] /\ made \in Nat
      /\ schemaReq \in [Procs -> SchemaCalls] /\ \A p \in Procs : CallKnown(schemaReq[p])
      /\ \A s \in SchemaIds :
            schema[s] # None => <<s, schema[s].version, schema[s].json>> \in contents
    BY Zenon DEF PinInv, SchemaTypes
<1> SUFFICES ASSUME NEW r \in Procs,
                    \/ Schemas!CreateSchema(r) \/ Schemas!DeleteSchema(r) \/ Schemas!BeginUpdate(r)
                    \/ Schemas!BeginSetDefault(r) \/ Schemas!UnsetDefault(r)
                    \/ Schemas!UpdateSchema(r) \/ Schemas!BeginWrite(r)
                    \/ Schemas!ResolveSchema(r) \/ Schemas!StoreMembership(r)
             PROVE  PinInv'
    BY Zenon DEF Schemas!Next
<1>1. CASE Schemas!CreateSchema(r)
    <2>1. PICK s \in SchemaIds, d \in Docs, b \in BOOLEAN :
              /\ schema' = [schema EXCEPT ![s] =
                    [json |-> d, version |-> 1, default |-> b, created |-> made + 1]]
              /\ contents' = contents \cup {<<s, 1, d>>}
        BY Zenon, <1>1 DEF Schemas!CreateSchema
    <2>2. PICK new : new = [json |-> d, version |-> 1, default |-> b, created |-> made + 1]
        BY Zenon
    <2>3. new \in SchemaRows /\ made' \in Nat
        <3>1. 1 \in Nat /\ made + 1 \in Nat
            BY <1>0
        <3> QED BY Zenon, <1>1, <2>2, <3>1 DEF SchemaRows, Schemas!CreateSchema
    <2>4. new.version = 1 /\ new.json = d /\ pin' = pin /\ schemaReq' = schemaReq
        BY Zenon, <1>1, <2>2 DEF Schemas!CreateSchema
    <2>5. schema' = [schema EXCEPT ![s] = new]
        BY Zenon, <2>1, <2>2
    <2>6. schema' \in [SchemaIds -> SchemaRows \cup {None}]
        BY Zenon, <1>0, <2>3, <2>5
    <2>7. ASSUME NEW x \in SchemaIds, schema'[x] # None
          PROVE  <<x, schema'[x].version, schema'[x].json>> \in contents'
        BY Zenon, <1>0, <2>1, <2>4, <2>5, <2>7
    <2> QED BY Zenon, <1>0, <2>1, <2>3, <2>4, <2>6, <2>7, RowsMove
<1>2. CASE Schemas!DeleteSchema(r)
    <2>1. PICK s \in SchemaIds : schema' = [schema EXCEPT ![s] = None]
        BY Zenon, <1>2 DEF Schemas!DeleteSchema
    <2>2. made' = made /\ pin' = pin /\ schemaReq' = schemaReq /\ contents' = contents
        BY Zenon, <1>2 DEF Schemas!DeleteSchema
    <2>3. schema' \in [SchemaIds -> SchemaRows \cup {None}]
        BY Zenon, <1>0, <2>1
    <2>4. \A x \in SchemaIds : schema'[x] # None => schema'[x] = schema[x]
        BY Zenon, <1>0, <2>1
    <2>5. \A x \in SchemaIds :
              schema'[x] # None => <<x, schema'[x].version, schema'[x].json>> \in contents'
        BY Zenon, <1>0, <2>2, <2>4
    <2> QED BY Zenon, <1>0, <2>2, <2>3, <2>5, RowsMove
<1>3. CASE Schemas!BeginUpdate(r)
    <2>1. PICK s \in SchemaIds, d \in Docs, b \in BOOLEAN :
              Schemas!Go(r, [Schemas!Idle EXCEPT !.op = "update", !.schema = s, !.json = d,
                                !.default = b, !.pc = IF b THEN "unset" ELSE "update"])
        BY Zenon, <1>3 DEF Schemas!BeginUpdate
    <2>2. PICK at \in {"unset", "update"} : at = IF b THEN "unset" ELSE "update"
        BY Zenon
    <2>3. PICK i \in SchemaCalls : i = Schemas!Idle
        BY Zenon, SchemaIdle
    <2>4. PICK q : q = [i EXCEPT !.op = "update", !.schema = s, !.json = d, !.default = b, !.pc = at]
        BY Zenon
    <2>5. q \in SchemaCalls /\ q.pc = at /\ q.schema = s /\ q.op = "update" /\ q.json = d
        BY Zenon, <2>4 DEF SchemaCalls
    <2>6. Schemas!Go(r, q)
        BY Zenon, <2>1, <2>2, <2>3, <2>4
    <2>7. CallKnown(q) /\ q.pc # "upsert"
        BY Zenon, <2>5 DEF CallKnown
    <2>8. UNCHANGED <<schema, made, pin, contents>>
        BY Zenon, <1>3 DEF Schemas!BeginUpdate
    <2> QED BY Zenon, <2>5, <2>6, <2>7, <2>8, CallMoves
<1>4. CASE Schemas!BeginSetDefault(r)
    <2>1. PICK s \in SchemaIds :
              Schemas!Go(r, [Schemas!Idle EXCEPT !.op = "set_default", !.schema = s,
                                !.default = TRUE, !.pc = "unset"])
        BY Zenon, <1>4 DEF Schemas!BeginSetDefault
    <2>2. PICK i \in SchemaCalls : i = Schemas!Idle
        BY Zenon, SchemaIdle
    <2>3. PICK q : q = [i EXCEPT !.op = "set_default", !.schema = s, !.default = TRUE, !.pc = "unset"]
        BY Zenon
    <2>4. q \in SchemaCalls /\ q.pc = "unset" /\ q.schema = s /\ q.op = "set_default"
        BY Zenon, <2>3 DEF SchemaCalls
    <2>5. Schemas!Go(r, q)
        BY Zenon, <2>1, <2>2, <2>3
    <2>6. CallKnown(q) /\ q.pc # "upsert"
        BY Zenon, <2>4 DEF CallKnown
    <2>7. UNCHANGED <<schema, made, pin, contents>>
        BY Zenon, <1>4 DEF Schemas!BeginSetDefault
    <2> QED BY Zenon, <2>4, <2>5, <2>6, <2>7, CallMoves
<1>5. CASE Schemas!UnsetDefault(r)
    <2>1. /\ schema' = [s \in SchemaIds |->
                IF schema[s] = None THEN None ELSE [schema[s] EXCEPT !.default = FALSE]]
          /\ Schemas!Go(r, [schemaReq[r] EXCEPT !.pc = "update"]) /\ schemaReq[r].pc = "unset"
          /\ made' = made /\ pin' = pin /\ contents' = contents
        BY Zenon, <1>5 DEF Schemas!UnsetDefault
    <2>2. PICK q : q = [schemaReq[r] EXCEPT !.pc = "update"]
        BY Zenon
    <2>3. /\ q \in SchemaCalls /\ q.pc = "update" /\ q.schema = schemaReq[r].schema
          /\ q.op = schemaReq[r].op /\ q.json = schemaReq[r].json
        BY Zenon, <1>0, <2>2 DEF SchemaCalls
    <2>4. CallKnown(q)
        BY Zenon, <1>0, <2>1, <2>3 DEF CallKnown
    <2>5. /\ schemaReq' \in [Procs -> SchemaCalls] /\ schemaReq'[r] = q
          /\ \A p \in Procs : p # r => schemaReq'[p] = schemaReq[p]
          /\ \A p \in Procs : CallKnown(schemaReq'[p])
        BY Zenon, <2>1, <2>2, <2>3, <2>4, SchemaMoves DEF PinInv
    <2>6. ASSUME NEW s \in SchemaIds
          PROVE  \/ schema[s] = None /\ schema'[s] = None
                 \/ /\ schema[s] # None /\ schema'[s] \in SchemaRows
                    /\ schema'[s].version = schema[s].version /\ schema'[s].json = schema[s].json
        <3>1. CASE schema[s] = None
            BY Zenon, <2>1, <3>1
        <3>2. CASE schema[s] # None
            <4>1. schema[s] \in SchemaRows /\ schema'[s] = [schema[s] EXCEPT !.default = FALSE]
                BY Zenon, <1>0, <2>1, <3>2
            <4> QED BY Zenon, <3>2, <4>1 DEF SchemaRows
        <3> QED BY Zenon, <3>1, <3>2
    <2>7. schema' \in [SchemaIds -> SchemaRows \cup {None}]
        BY Zenon, <2>1, <2>6
    <2>8. ASSUME NEW s \in SchemaIds, schema'[s] # None
          PROVE  <<s, schema'[s].version, schema'[s].json>> \in contents'
        <3>1. /\ schema[s] # None /\ schema'[s].version = schema[s].version
              /\ schema'[s].json = schema[s].json
            BY Zenon, <2>6, <2>8
        <3>2. <<s, schema[s].version, schema[s].json>> \in contents
            BY Zenon, <1>0, <3>1
        <3> QED BY <2>1, <3>1, <3>2
    <2>9. \A p \in Procs : schemaReq'[p].pc = "upsert" => schemaReq'[p] = schemaReq[p]
        BY Zenon, <2>3, <2>5
    <2> QED BY Zenon, <1>0, <2>1, <2>5, <2>7, <2>8, <2>9, RowsMove
<1>6. CASE Schemas!UpdateSchema(r)
    <2> DEFINE q == schemaReq[r]
    <2>1. /\ q.pc = "update" /\ Schemas!Go(r, Schemas!Idle) /\ made' = made /\ pin' = pin
        BY Zenon, <1>6 DEF Schemas!UpdateSchema
    <2>2. /\ q \in SchemaCalls /\ q.schema \in SchemaIds /\ q.op \in {"update", "set_default"}
          /\ q.op = "update" => q.json \in Docs
        BY Zenon, <1>0, <2>1 DEF CallKnown
    <2>3. /\ schemaReq' \in [Procs -> SchemaCalls] /\ schemaReq'[r] = Schemas!Idle
          /\ \A p \in Procs : p # r => schemaReq'[p] = schemaReq[p]
          /\ \A p \in Procs : CallKnown(schemaReq'[p])
        BY Zenon, <2>1, SchemaMoves, SchemaIdle DEF PinInv
    <2>4. \A p \in Procs : schemaReq'[p].pc = "upsert" => schemaReq'[p] = schemaReq[p]
        BY Zenon, <2>3, SchemaIdle
    <2>5. CASE schema[q.schema] = None
        <3>1. schema' = schema /\ contents' = contents
            BY Zenon, <1>6, <2>5 DEF Schemas!UpdateSchema
        <3>2. \A s \in SchemaIds :
                  schema'[s] # None => <<s, schema'[s].version, schema'[s].json>> \in contents'
            BY Zenon, <1>0, <3>1
        <3> QED BY Zenon, <1>0, <2>1, <2>3, <2>4, <3>1, <3>2, RowsMove
    <2>6. CASE schema[q.schema] # None
        <3>1. PICK old \in SchemaRows : old = schema[q.schema]
            BY Zenon, <1>0, <2>2, <2>6
        <3>2. PICK new : new = Schemas!Updated(schema[q.schema], q)
            BY Zenon
        <3>3. new \in SchemaRows
            BY Zenon, <2>2, <3>1, <3>2, UpdatedRow
        <3>4. /\ schema' = [schema EXCEPT ![q.schema] = new]
              /\ contents' = contents \cup {<<q.schema, new.version, new.json>>}
            BY Zenon, <1>6, <2>6, <3>2 DEF Schemas!UpdateSchema
        <3> HIDE DEF q
        <3>5. schema' \in [SchemaIds -> SchemaRows \cup {None}]
            BY Zenon, <1>0, <3>3, <3>4
        <3>6. ASSUME NEW s \in SchemaIds, schema'[s] # None
              PROVE  <<s, schema'[s].version, schema'[s].json>> \in contents'
            BY Zenon, <1>0, <3>4, <3>6
        <3> QED BY Zenon, <1>0, <2>1, <2>3, <2>4, <3>4, <3>5, <3>6, RowsMove
    <2> QED BY Zenon, <2>5, <2>6
<1>7. CASE Schemas!BeginWrite(r)
    <2>1. PICK m \in Members, t \in Traits, s \in SchemaIds \cup {None} :
              Schemas!Go(r, [Schemas!Idle EXCEPT !.op = "write", !.member = m, !.traits = t,
                                !.schema = s, !.pc = "resolve"])
        BY Zenon, <1>7 DEF Schemas!BeginWrite
    <2>2. PICK i \in SchemaCalls : i = Schemas!Idle
        BY Zenon, SchemaIdle
    <2>3. PICK q : q = [i EXCEPT !.op = "write", !.member = m, !.traits = t, !.schema = s,
                           !.pc = "resolve"]
        BY Zenon
    <2>4. q \in SchemaCalls /\ q.pc = "resolve" /\ q.member = m
        BY Zenon, <2>3 DEF SchemaCalls
    <2>5. Schemas!Go(r, q)
        BY Zenon, <2>1, <2>2, <2>3
    <2>6. CallKnown(q) /\ q.pc # "upsert"
        BY Zenon, <2>4 DEF CallKnown
    <2>7. UNCHANGED <<schema, made, pin, contents>>
        BY Zenon, <1>7 DEF Schemas!BeginWrite
    <2> QED BY Zenon, <2>4, <2>5, <2>6, <2>7, CallMoves
<1>8. CASE Schemas!ResolveSchema(r)
    <2> DEFINE q == schemaReq[r]
               found == IF q.schema = None THEN Schemas!GetDefault
                        ELSE {s \in SchemaIds : s = q.schema /\ schema[s] # None}
               valid == {s \in found : q.traits \in Accepts[schema[s].json]}
    <2>1. UNCHANGED <<schema, made, pin, contents>> /\ q.pc = "resolve" /\ q \in SchemaCalls
        BY Zenon, <1>0, <1>8 DEF Schemas!ResolveSchema
    <2>2. CASE Schemas!Go(r, Schemas!Idle)
        BY Zenon, <2>1, <2>2, SchemaIdle, CallMoves
    <2>3. ASSUME NEW s \in valid,
                 Schemas!Go(r, [q EXCEPT !.schema = s, !.version = schema[s].version, !.pc = "upsert"])
          PROVE  PinInv'
        <3>1. s \in SchemaIds /\ schema[s] # None /\ q.traits \in Accepts[schema[s].json]
            BY Zenon, <2>3 DEF Schemas!GetDefault
        <3>2. PICK v \in Nat : v = schema[s].version
            BY Zenon, <1>0, <3>1 DEF SchemaRows
        <3>3. PICK e : e = [q EXCEPT !.schema = s, !.version = v, !.pc = "upsert"]
            BY Zenon
        <3>4. /\ e \in SchemaCalls /\ e.pc = "upsert" /\ e.schema = s /\ e.version = v
              /\ e.member = q.member /\ e.traits = q.traits
            BY Zenon, <2>1, <3>1, <3>3 DEF SchemaCalls
        <3>5. CallKnown(e)
            BY Zenon, <1>0, <2>1, <3>4 DEF CallKnown
        <3>6. Schemas!Go(r, e)
            BY Zenon, <2>3, <3>2, <3>3
        <3>7. PICK c : c = <<s, schema[s].version, schema[s].json>>
            BY Zenon
        <3>8. c \in contents /\ c[1] = s /\ c[2] = v /\ c[3] = schema[s].json
            BY Zenon, <1>0, <3>1, <3>2, <3>7
        <3>9. Accepted(e.schema, e.version, e.traits)
            BY Zenon, <3>1, <3>4, <3>8 DEF Accepted
        <3> QED BY Zenon, <2>1, <3>4, <3>5, <3>6, <3>9, CallMoves
    <2> QED BY Zenon, <1>8, <2>2, <2>3 DEF Schemas!ResolveSchema
<1>9. CASE Schemas!StoreMembership(r)
    <2>1. /\ schemaReq[r].pc = "upsert" /\ Schemas!Go(r, Schemas!Idle)
          /\ pin' = [pin EXCEPT ![schemaReq[r].member] = Schemas!Pinned(schemaReq[r])]
          /\ schema' = schema /\ made' = made /\ contents' = contents
        BY Zenon, <1>9 DEF Schemas!StoreMembership
    <2>2. /\ schemaReq' \in [Procs -> SchemaCalls] /\ schemaReq'[r] = Schemas!Idle
          /\ \A p \in Procs : p # r => schemaReq'[p] = schemaReq[p]
          /\ \A p \in Procs : CallKnown(schemaReq'[p])
        BY Zenon, <2>1, SchemaMoves, SchemaIdle DEF PinInv
    <2>3. SchemaTypes'
        BY Zenon, <2>1, <2>2 DEF PinInv, SchemaTypes, CallKnown
    <2>4. ASSUME NEW p \in Procs, schemaReq'[p].pc = "upsert"
          PROVE  Accepted(schemaReq[p].schema, schemaReq[p].version, schemaReq[p].traits)'
        <3>1. schemaReq'[p] = schemaReq[p]
            BY Zenon, <2>2, <2>4, SchemaIdle
        <3>2. Accepted(schemaReq[p].schema, schemaReq[p].version, schemaReq[p].traits)
            BY Zenon, <2>4, <3>1 DEF PinInv
        <3> QED BY Zenon, <2>1, <3>1, <3>2 DEF Accepted
    <2>5. ASSUME NEW m \in Members, pin'[m] # None
          PROVE  Accepted(pin[m].schema, pin[m].version, pin[m].traits)'
        <3>1. PICK x : x = pin'[m]
            BY Zenon
        <3>2. Accepted(x.schema, x.version, x.traits)
            <4>1. CASE m = schemaReq[r].member
                <5>1. x = Schemas!Pinned(schemaReq[r])
                    BY Zenon, <2>1, <3>1, <4>1 DEF PinInv, SchemaTypes
                <5>2. /\ x.schema = schemaReq[r].schema /\ x.version = schemaReq[r].version
                      /\ x.traits = schemaReq[r].traits
                    BY Zenon, <5>1 DEF Schemas!Pinned
                <5> QED BY Zenon, <2>1, <5>2 DEF PinInv
            <4>2. CASE m # schemaReq[r].member
                <5>1. x = pin[m]
                    BY Zenon, <2>1, <3>1, <4>2 DEF PinInv, SchemaTypes
                <5> QED BY Zenon, <2>5, <3>1, <5>1 DEF PinInv
            <4> QED BY Zenon, <4>1, <4>2
        <3>3. Accepted(x.schema, x.version, x.traits)'
            BY Zenon, <2>1, <3>2, AcceptedKept
        <3> QED BY Zenon, <3>1, <3>3 DEF Accepted
    <2>6. \A s \in SchemaIds :
              schema'[s] # None => <<s, schema'[s].version, schema'[s].json>> \in contents'
        BY Zenon, <1>0, <2>1
    <2> QED BY Zenon, <2>3, <2>4, <2>5, <2>6 DEF PinInv
<1> QED BY Zenon, <1>1, <1>2, <1>3, <1>4, <1>5, <1>6, <1>7, <1>8, <1>9

LEMMA SchemaInit == ASSUME Schemas!Init PROVE PinInv
<1>1. /\ schema = [s \in SchemaIds |-> None] /\ made = 0 /\ pin = [m \in Members |-> None]
      /\ schemaReq = [r \in Procs |-> Schemas!Idle] /\ contents = {}
    BY Zenon DEF Schemas!Init
<1>2. 0 \in Nat
    OBVIOUS
<1>3. SchemaTypes
    BY Zenon, <1>1, <1>2, SchemaIdle DEF SchemaTypes
<1> QED BY Zenon, <1>1, <1>3, SchemaIdle DEF PinInv

LEMMA SchemaStutter == ASSUME PinInv, UNCHANGED Schemas!vars PROVE PinInv'
<1>1. /\ schema' = schema /\ made' = made /\ pin' = pin /\ schemaReq' = schemaReq
      /\ contents' = contents
    BY Zenon DEF Schemas!vars
<1> QED BY Zenon, <1>1 DEF PinInv, SchemaTypes, CallKnown, Accepted

\* The version a membership pins is one whose document accepted its traits,
\* although resolve_schema reads the schema long before the membership is
\* written and any number of updates, deletions and recreations come between.
THEOREM PinsAccepted == Schemas!Spec => []Schemas!PinsValid
<1>1. Schemas!Init => PinInv
    BY Zenon, SchemaInit
<1>2. PinInv /\ [Schemas!Next]_(Schemas!vars) => PinInv'
    BY Zenon, SchemaStep, SchemaStutter
<1>3. PinInv => Schemas!PinsValid
    BY Zenon DEF PinInv, Accepted, Schemas!PinsValid
<1> QED BY <1>1, <1>2, <1>3, PTL DEF Schemas!Spec

\* Without deletions a row stays and carries the newest version of its schema.
VersionInv ==
    /\ PinInv
    /\ \A c \in contents :
          /\ c[1] \in SchemaIds /\ schema[c[1]] # None
          /\ c[2] \in Nat /\ c[2] <= schema[c[1]].version
          /\ c[2] = schema[c[1]].version => c[3] = schema[c[1]].json
    /\ Schemas!VersionImmutable

\* A row keeps its version and document, or takes the next version.
LEMMA VersionsMove ==
    ASSUME VersionInv, PinInv', NEW s \in SchemaIds, NEW v \in Nat, NEW d,
           \A x \in SchemaIds : schema[x] # None =>
              /\ schema'[x] # None
              /\ \/ schema'[x].version = schema[x].version /\ schema'[x].json = schema[x].json
                 \/ x = s /\ schema'[x].version = schema[x].version + 1,
           \/ contents' = contents
           \/ /\ contents' = contents \cup {<<s, v, d>>}
              /\ schema'[s] # None /\ schema'[s].version = v /\ schema'[s].json = d
              /\ schema[s] # None => v = schema[s].version + 1
                                     \/ (v = schema[s].version /\ d = schema[s].json)
    PROVE  VersionInv'
<1>1. ASSUME NEW c \in contents
      PROVE  /\ c[1] \in SchemaIds /\ schema'[c[1]] # None /\ c[2] \in Nat
             /\ c[2] <= schema'[c[1]].version
             /\ c[2] = schema'[c[1]].version => c[3] = schema'[c[1]].json
    <2>1. /\ c[1] \in SchemaIds /\ schema[c[1]] # None /\ c[2] \in Nat
          /\ c[2] <= schema[c[1]].version
          /\ c[2] = schema[c[1]].version => c[3] = schema[c[1]].json
        BY Zenon DEF VersionInv
    <2>2. schema[c[1]].version \in Nat
        BY Zenon, <2>1 DEF VersionInv, PinInv, SchemaTypes, SchemaRows
    <2>3. schema'[c[1]] # None
        BY Zenon, <2>1
    <2>4. CASE /\ schema'[c[1]].version = schema[c[1]].version
               /\ schema'[c[1]].json = schema[c[1]].json
        BY Zenon, <2>1, <2>3, <2>4
    <2>5. CASE schema'[c[1]].version = schema[c[1]].version + 1
        <3>1. c[2] <= schema'[c[1]].version /\ c[2] # schema'[c[1]].version
            BY <2>1, <2>2, <2>5
        <3> QED BY Zenon, <2>1, <2>3, <3>1
    <2> QED BY Zenon, <2>1, <2>4, <2>5
<1>2. CASE contents' = contents
    BY Zenon, <1>1, <1>2 DEF VersionInv, Schemas!VersionImmutable
<1>3. CASE /\ contents' = contents \cup {<<s, v, d>>}
           /\ schema'[s] # None /\ schema'[s].version = v /\ schema'[s].json = d
           /\ schema[s] # None => v = schema[s].version + 1
                                  \/ (v = schema[s].version /\ d = schema[s].json)
    <2>1. PICK n : n = <<s, v, d>>
        BY Zenon
    <2>2. n[1] = s /\ n[2] = v /\ n[3] = d
        BY Zenon, <2>1
    <2>3. v <= v
        OBVIOUS
    <2>4. ASSUME NEW c \in contents, c[1] = n[1], c[2] = n[2] PROVE c[3] = n[3]
        BY Zenon, <1>1, <1>3, <2>2, <2>4
    <2>5. Schemas!VersionImmutable'
        <3>1. \A c \in contents' : c \in contents \/ c = n
            BY Zenon, <1>3, <2>1
        <3>2. ASSUME NEW c \in contents', NEW e \in contents', c[1] = e[1], c[2] = e[2]
              PROVE  c[3] = e[3]
            <4>1. CASE c \in contents /\ e \in contents
                BY Zenon, <3>2, <4>1 DEF VersionInv, Schemas!VersionImmutable
            <4>2. CASE c \in contents /\ e = n
                BY Zenon, <2>4, <3>2, <4>2
            <4>3. CASE c = n /\ e \in contents
                BY Zenon, <2>4, <3>2, <4>3
            <4> QED BY Zenon, <3>1, <4>1, <4>2, <4>3
        <3> QED BY Zenon, <3>2 DEF Schemas!VersionImmutable
    <2>6. ASSUME NEW c \in contents'
          PROVE  /\ c[1] \in SchemaIds /\ schema'[c[1]] # None
                 /\ c[2] \in Nat /\ c[2] <= schema'[c[1]].version
                 /\ c[2] = schema'[c[1]].version => c[3] = schema'[c[1]].json
        <3>1. CASE c \in contents
            BY Zenon, <1>1, <3>1
        <3>2. CASE c = n
            BY Zenon, <1>3, <2>2, <2>3, <3>2
        <3> QED BY Zenon, <1>3, <2>1, <3>1, <3>2
    <2> QED BY Zenon, <2>5, <2>6 DEF VersionInv
<1> QED BY Zenon, <1>2, <1>3
\* A step that may touch versions.
LEMMA VersionStep ==
    ASSUME None \notin SchemaRows, "delete" \notin Ops, VersionInv, PinInv', Schemas!Next
    PROVE  VersionInv'
<1>0. /\ schema \in [SchemaIds -> SchemaRows \cup {None}]
      /\ schemaReq \in [Procs -> SchemaCalls] /\ \A p \in Procs : CallKnown(schemaReq[p])
    BY Zenon DEF VersionInv, PinInv, SchemaTypes
<1> SUFFICES ASSUME NEW r \in Procs,
                    \/ Schemas!CreateSchema(r) \/ Schemas!DeleteSchema(r) \/ Schemas!BeginUpdate(r)
                    \/ Schemas!BeginSetDefault(r) \/ Schemas!UnsetDefault(r)
                    \/ Schemas!UpdateSchema(r) \/ Schemas!BeginWrite(r)
                    \/ Schemas!ResolveSchema(r) \/ Schemas!StoreMembership(r)
             PROVE  VersionInv'
    BY Zenon DEF Schemas!Next
<1>1. CASE Schemas!CreateSchema(r)
    <2>1. PICK s \in SchemaIds, d \in Docs, b \in BOOLEAN :
              /\ schema[s] = None
              /\ schema' = [schema EXCEPT ![s] =
                    [json |-> d, version |-> 1, default |-> b, created |-> made + 1]]
              /\ contents' = contents \cup {<<s, 1, d>>}
        BY Zenon, <1>1 DEF Schemas!CreateSchema
    <2>2. PICK new : new = [json |-> d, version |-> 1, default |-> b, created |-> made + 1]
        BY Zenon
    <2>3. new \in SchemaRows /\ new.version = 1 /\ new.json = d /\ 1 \in Nat
        <3>1. 1 \in Nat /\ made + 1 \in Nat
            BY DEF VersionInv, PinInv, SchemaTypes
        <3> QED BY Zenon, <2>2, <3>1 DEF SchemaRows
    <2>4. schema' = [schema EXCEPT ![s] = new]
        BY Zenon, <2>1, <2>2
    <2>5. schema'[s] = new /\ new # None /\ \A x \in SchemaIds : x # s => schema'[x] = schema[x]
        BY Zenon, <1>0, <2>3, <2>4
    <2>6. \A x \in SchemaIds : schema[x] # None =>
              /\ schema'[x] # None
              /\ \/ schema'[x].version = schema[x].version /\ schema'[x].json = schema[x].json
                 \/ x = s /\ schema'[x].version = schema[x].version + 1
        BY Zenon, <2>1, <2>5
    <2>7. PICK v \in Nat : v = 1
        BY Zenon, <2>3
    <2>8. /\ contents' = contents \cup {<<s, v, d>>}
          /\ schema'[s] # None /\ schema'[s].version = v /\ schema'[s].json = d
          /\ schema[s] # None => v = schema[s].version + 1
                                 \/ (v = schema[s].version /\ d = schema[s].json)
        BY Zenon, <2>1, <2>3, <2>5, <2>7
    <2> QED BY Zenon, <2>6, <2>8, VersionsMove
<1>2. CASE Schemas!UnsetDefault(r)
    <2>1. /\ schema' = [s \in SchemaIds |->
                IF schema[s] = None THEN None ELSE [schema[s] EXCEPT !.default = FALSE]]
          /\ contents' = contents
        BY Zenon, <1>2 DEF Schemas!UnsetDefault
    <2>2. ASSUME NEW x \in SchemaIds, schema[x] # None
          PROVE  /\ schema'[x] # None
                 /\ schema'[x].version = schema[x].version /\ schema'[x].json = schema[x].json
        <3>1. schema[x] \in SchemaRows /\ schema'[x] = [schema[x] EXCEPT !.default = FALSE]
            BY Zenon, <1>0, <2>1, <2>2
        <3>2. /\ schema'[x] \in SchemaRows
              /\ schema'[x].version = schema[x].version /\ schema'[x].json = schema[x].json
            BY Zenon, <3>1 DEF SchemaRows
        <3> QED BY Zenon, <3>2
    <2>3. schemaReq[r].schema \in SchemaIds
        BY Zenon, <1>0, <1>2 DEF CallKnown, Schemas!UnsetDefault
    <2>4. 0 \in Nat
        OBVIOUS
    <2> QED BY Zenon, <2>1, <2>2, <2>3, <2>4, VersionsMove
<1>3. CASE Schemas!UpdateSchema(r)
    <2> DEFINE q == schemaReq[r]
    <2>1. /\ q.pc = "update" /\ q.schema \in SchemaIds /\ q.op \in {"update", "set_default"}
          /\ q.op = "update" => q.json \in Docs
        <3>1. q.pc = "update"
            BY Zenon, <1>3 DEF Schemas!UpdateSchema
        <3> QED BY Zenon, <1>0, <3>1 DEF CallKnown
    <2>2. CASE schema[q.schema] = None
        <3>1. schema' = schema /\ contents' = contents
            BY Zenon, <1>3, <2>2 DEF Schemas!UpdateSchema
        <3>2. 0 \in Nat
            OBVIOUS
        <3> QED BY Zenon, <2>1, <3>1, <3>2, VersionsMove
    <2>3. CASE schema[q.schema] # None
        <3>1. PICK old \in SchemaRows : old = schema[q.schema]
            BY Zenon, <1>0, <2>1, <2>3
        <3>2. PICK new : new = Schemas!Updated(schema[q.schema], q)
            BY Zenon
        <3>3. /\ schema' = [schema EXCEPT ![q.schema] = new]
              /\ contents' = contents \cup {<<q.schema, new.version, new.json>>}
            BY Zenon, <1>3, <2>3, <3>2 DEF Schemas!UpdateSchema
        <3>4. /\ new \in SchemaRows
              /\ \/ new.version = old.version /\ new.json = old.json
                 \/ new.version = old.version + 1
            BY Zenon, <1>0, <2>1, <3>1, <3>2, UpdatedRow
        <3> HIDE DEF q
        <3>5. schema'[q.schema] = new /\ \A x \in SchemaIds : x # q.schema => schema'[x] = schema[x]
            BY Zenon, <1>0, <2>1, <3>3
        <3>6. PICK s \in SchemaIds, v \in Nat, d \in Docs :
                  s = q.schema /\ v = new.version /\ d = new.json
            BY Zenon, <2>1, <3>4 DEF SchemaRows
        <3>7. \A x \in SchemaIds : schema[x] # None =>
                  /\ schema'[x] # None
                  /\ \/ schema'[x].version = schema[x].version /\ schema'[x].json = schema[x].json
                     \/ x = s /\ schema'[x].version = schema[x].version + 1
            BY Zenon, <3>1, <3>4, <3>5, <3>6
        <3>8. /\ contents' = contents \cup {<<s, v, d>>}
              /\ schema'[s] # None /\ schema'[s].version = v /\ schema'[s].json = d
              /\ schema[s] # None => v = schema[s].version + 1
                                     \/ (v = schema[s].version /\ d = schema[s].json)
            BY Zenon, <3>1, <3>3, <3>4, <3>5, <3>6
        <3> QED BY Zenon, <3>7, <3>8, VersionsMove
    <2> QED BY Zenon, <2>2, <2>3
<1>4. CASE schema' = schema /\ contents' = contents
    BY Zenon, <1>4 DEF VersionInv, Schemas!VersionImmutable
<1> QED BY Zenon, <1>1, <1>2, <1>3, <1>4 DEF Schemas!DeleteSchema, Schemas!BeginUpdate,
           Schemas!BeginSetDefault, Schemas!BeginWrite, Schemas!ResolveSchema,
           Schemas!StoreMembership

\* While schemas are only created, updated and made default, a version of a
\* schema has one document: update_identity_schema takes a new version in the
\* statement that stores its document, however many updates race.
THEOREM VersionsImmutable ==
    ASSUME None \notin SchemaRows, "delete" \notin Ops
    PROVE  Schemas!Spec => []Schemas!VersionImmutable
<1>1. Schemas!Init => VersionInv
    <2>1. Schemas!Init => contents = {}
        BY Zenon DEF Schemas!Init
    <2> QED BY Zenon, <2>1, SchemaInit DEF VersionInv, Schemas!VersionImmutable
<1>2. VersionInv /\ [Schemas!Next]_(Schemas!vars) => VersionInv'
    <2>1. ASSUME VersionInv, UNCHANGED Schemas!vars PROVE VersionInv'
        <3>1. PinInv' /\ schema' = schema /\ contents' = contents
            BY Zenon, <2>1, SchemaStutter DEF Schemas!vars, VersionInv
        <3> QED BY Zenon, <2>1, <3>1 DEF VersionInv, Schemas!VersionImmutable
    <2>2. ASSUME VersionInv, Schemas!Next PROVE VersionInv'
        <3>1. PinInv'
            BY Zenon, <2>2, SchemaStep DEF VersionInv
        <3> QED BY Zenon, <2>2, <3>1, VersionStep
    <2> QED BY Zenon, <2>1, <2>2
<1>3. VersionInv => Schemas!VersionImmutable
    BY Zenon DEF VersionInv
<1> QED BY <1>1, <1>2, <1>3, PTL DEF Schemas!Spec

-----------------------------------------------------------------------------
(* The rate limiter, for every burst, period, number of tracked keys and   *)
(* set of callers.  The argument is that a bucket, whoever else calls or   *)
(* is evicted, only lacks what one recent request of its own key and the   *)
(* time since explain: a tracked key has a request that was let through,   *)
(* and holds at least what came back since.                                *)

CONSTANTS Callers, Burst, Per, MaxKeys, LastTick, MaxCalls
VARIABLES time, buckets, admitted, denied

Limiter == INSTANCE RateLimiter WITH Requests <- Callers, MaxTime <- LastTick, now <- time

\* A limit of some requests in some period, for some keys.
LimiterConfig ==
    /\ Burst \in Nat \ {0} /\ Per \in Nat \ {0}
    /\ MaxKeys \in Nat \ {0} /\ LastTick \in Nat

\* The request that explains what bucket b of key k lacks.
Explained(k, b) ==
    \E r \in Callers, a \in 0 .. LastTick :
        /\ Limiter!KeyOf(r) = k
        /\ a <= b.last
        /\ admitted[r][a] > 0
        /\ (b.last - a) * Burst <= b.level

BucketInv ==
    \A k \in DOMAIN buckets : buckets[k].last <= time /\ Explained(k, buckets[k])

LimiterInv ==
    /\ Limiter!TypeOK /\ IsFiniteSet(DOMAIN buckets)
    /\ BucketInv
    /\ Limiter!DeniedForItsOwn

\* The smaller of two numbers.
LEMMA LevelMin ==
    ASSUME NEW x \in Int, NEW y \in Int
    PROVE  LET m == Limiter!Min({x, y}) IN m \in {x, y} /\ m <= x /\ m <= y
<1>1. \E m \in {x, y} : \A n \in {x, y} : m <= n
    BY SMT
<1> QED BY Zenon, <1>1 DEF Limiter!Min

\* The library's cardinality.
LEMMA LimiterCard == \A S : Limiter!Cardinality(S) = Cardinality(S)
    BY Zenon DEF Limiter!Cardinality, Cardinality

\* Requests counted under one key are of one party.
LEMMA KeyIsParty ==
    ASSUME NEW q, NEW r, Limiter!KeyOf(q) = Limiter!KeyOf(r)
    PROVE  Limiter!SameParty(q, r)
    BY DEF Limiter!KeyOf, Limiter!SameParty, Limiter!AnonymousBucketKey

\* The limiter starts empty.
LEMMA LimiterInit == LimiterConfig /\ Limiter!Init => LimiterInv
<1> SUFFICES ASSUME LimiterConfig, Limiter!Init PROVE LimiterInv
    BY Zenon
<1>1. DOMAIN buckets = {} /\ denied = {}
    BY DEF Limiter!Init
<1>2. Cardinality(DOMAIN buckets) <= MaxKeys /\ IsFiniteSet(DOMAIN buckets)
    <2>1. Cardinality(DOMAIN buckets) = 0 /\ IsFiniteSet(DOMAIN buckets)
        BY Zenon, <1>1, FS_EmptySet
    <2> QED BY <2>1 DEF LimiterConfig
<1>3. time \in 0 .. LastTick /\ admitted \in [Callers -> [0 .. LastTick -> Nat]]
    BY DEF LimiterConfig, Limiter!Init, Limiter!Times
<1> QED BY Zenon, <1>1, <1>2, <1>3, LimiterCard
        DEF LimiterInv, BucketInv, Limiter!TypeOK, Limiter!Times, Limiter!DeniedForItsOwn

\* Making room for key k keeps stored buckets only, and leaves room for k.
LEMMA RoomMade ==
    ASSUME LimiterConfig, LimiterInv, NEW k, NEW map, map = Limiter!RoomFor(k)
    PROVE  /\ DOMAIN map \subseteq DOMAIN buckets
           /\ \A j \in DOMAIN map : map[j] = buckets[j]
           /\ IsFiniteSet(DOMAIN map \cup {k}) /\ Cardinality(DOMAIN map \cup {k}) <= MaxKeys
<1>0. IsFiniteSet(DOMAIN buckets) /\ Cardinality(DOMAIN buckets) <= MaxKeys
    BY Zenon, LimiterCard DEF LimiterInv, Limiter!TypeOK
<1>1. CASE k \in DOMAIN buckets
    <2>1. map = buckets
        BY Zenon, <1>1 DEF Limiter!RoomFor
    <2>2. DOMAIN map \cup {k} = DOMAIN buckets
        BY Zenon, <1>1, <2>1
    <2> QED BY Zenon, <1>0, <2>1, <2>2
<1>2. CASE k \notin DOMAIN buckets
    <2>1. PICK kept : kept = Limiter!BelowFull
        BY Zenon
    <2>2. kept \subseteq DOMAIN buckets
        BY Zenon, <2>1 DEF Limiter!BelowFull
    <2>3. IsFiniteSet(kept) /\ k \notin kept
        BY Zenon, <1>0, <1>2, <2>2, FS_Subset
    <2>4. /\ IsFiniteSet(DOMAIN buckets \cup {k}) /\ IsFiniteSet(kept \cup {k}) /\ IsFiniteSet({k})
          /\ Cardinality(DOMAIN buckets \cup {k}) = Cardinality(DOMAIN buckets) + 1
          /\ Cardinality(kept \cup {k}) = Cardinality(kept) + 1
          /\ Cardinality({k}) = 1
        BY Zenon, <1>0, <1>2, <2>3, FS_AddElement, FS_Singleton
    <2>5. /\ Cardinality(DOMAIN buckets) \in Nat /\ Cardinality(kept) \in Nat
          /\ MaxKeys \in Nat /\ MaxKeys >= 1
        <3>1. Cardinality(DOMAIN buckets) \in Nat /\ Cardinality(kept) \in Nat
            BY Zenon, <1>0, <2>3, FS_CardinalityType
        <3> QED BY <3>1 DEF LimiterConfig
    <2>6. CASE ~(Cardinality(DOMAIN buckets) >= MaxKeys)
        <3>1. map = buckets
            BY Zenon, <2>6, LimiterCard DEF Limiter!RoomFor
        <3>2. Cardinality(DOMAIN buckets) + 1 <= MaxKeys
            BY <2>5, <2>6
        <3> QED BY Zenon, <2>4, <3>1, <3>2
    <2>7. CASE Cardinality(DOMAIN buckets) >= MaxKeys /\ Cardinality(kept) >= MaxKeys
        <3>1. map = <<>>
            BY Zenon, <1>2, <2>1, <2>7, LimiterCard DEF Limiter!RoomFor
        <3>2. DOMAIN map = {}
            BY <3>1
        <3>3. DOMAIN map \cup {k} = {k}
            BY Zenon, <3>2
        <3>4. Cardinality({k}) <= MaxKeys
            BY <2>4, <2>5
        <3> QED BY Zenon, <2>4, <3>2, <3>3, <3>4
    <2>8. CASE Cardinality(DOMAIN buckets) >= MaxKeys /\ ~(Cardinality(kept) >= MaxKeys)
        <3>1. map = [j \in kept |-> buckets[j]]
            BY Zenon, <1>2, <2>1, <2>8, LimiterCard DEF Limiter!RoomFor, Limiter!KeepOnly
        <3>2. DOMAIN map = kept /\ \A j \in kept : map[j] = buckets[j]
            BY Zenon, <3>1
        <3>3. Cardinality(kept) + 1 <= MaxKeys
            BY <2>5, <2>8
        <3> QED BY Zenon, <2>2, <2>4, <3>2, <3>3
    <2> QED BY Zenon, <2>6, <2>7, <2>8
<1> QED BY Zenon, <1>1, <1>2

\* Time passes.
LEMMA LimiterTick == LimiterConfig /\ LimiterInv /\ Limiter!Tick => LimiterInv'
<1> SUFFICES ASSUME LimiterConfig, LimiterInv, Limiter!Tick PROVE LimiterInv'
    BY Zenon
<1>1. /\ time \in 0 .. LastTick /\ time' = time + 1 /\ time' \in 0 .. LastTick
      /\ denied' = {} /\ buckets' = buckets /\ admitted' = admitted
    BY DEF LimiterConfig, LimiterInv, Limiter!TypeOK, Limiter!Tick, Limiter!Times
<1>2. Limiter!TypeOK'
    BY Zenon, <1>1 DEF LimiterInv, Limiter!TypeOK, Limiter!Times
<1>3. BucketInv'
    <2>1. \A k \in DOMAIN buckets : buckets[k].last \in 0 .. LastTick
        BY Zenon DEF LimiterInv, Limiter!TypeOK, Limiter!Times
    <2>2. \A k \in DOMAIN buckets : buckets[k].last <= time => buckets[k].last <= time'
        BY <1>1, <2>1
    <2> QED BY Zenon, <1>1, <2>2 DEF LimiterInv, BucketInv, Explained
<1> QED BY Zenon, <1>1, <1>2, <1>3 DEF LimiterInv, Limiter!DeniedForItsOwn

\* The map after a call of key k: what stays is explained as before, also by
\* the longer history, and so must bucket b of k be.
LEMMA CallMap ==
    ASSUME LimiterConfig, LimiterInv, NEW k \in Limiter!BucketKeys,
           NEW b \in [level: 0 .. Limiter!Full, last: 0 .. LastTick],
           b.last = time, time' = time,
           buckets' = Limiter!Put(Limiter!RoomFor(k), k, b),
           admitted' \in [Callers -> [0 .. LastTick -> Nat]],
           \A r \in Callers, a \in 0 .. LastTick : admitted[r][a] > 0 => admitted'[r][a] > 0,
           \E r \in Callers, a \in 0 .. LastTick :
               /\ Limiter!KeyOf(r) = k /\ a <= b.last
               /\ admitted'[r][a] > 0 /\ (b.last - a) * Burst <= b.level,
           denied' \subseteq Callers, Limiter!DeniedForItsOwn'
    PROVE  LimiterInv'
<1>1. PICK map : map = Limiter!RoomFor(k)
    BY Zenon
<1>2. /\ DOMAIN map \subseteq DOMAIN buckets
      /\ \A j \in DOMAIN map : map[j] = buckets[j]
      /\ IsFiniteSet(DOMAIN map \cup {k}) /\ Cardinality(DOMAIN map \cup {k}) <= MaxKeys
    BY Zenon, <1>1, RoomMade
<1>3. /\ DOMAIN buckets' = DOMAIN map \cup {k}
      /\ \A j \in DOMAIN buckets' : buckets'[j] = IF j = k THEN b ELSE map[j]
    BY Zenon, <1>1 DEF Limiter!Put
<1>4. buckets'[k] = b /\ \A j \in DOMAIN buckets' : j # k => j \in DOMAIN buckets /\ buckets'[j] = buckets[j]
    BY Zenon, <1>2, <1>3
<1>5. Limiter!TypeOK' /\ IsFiniteSet(DOMAIN buckets)'
    <2>1. DOMAIN buckets' \subseteq Limiter!BucketKeys
        BY Zenon, <1>4 DEF LimiterInv, Limiter!TypeOK
    <2>2. \A j \in DOMAIN buckets' : buckets'[j] \in [level: 0 .. Limiter!Full, last: 0 .. LastTick]
        BY Zenon, <1>4 DEF LimiterInv, Limiter!TypeOK, Limiter!Times
    <2>3. Limiter!Cardinality(DOMAIN buckets') <= MaxKeys
        BY Zenon, <1>2, <1>3, LimiterCard
    <2> QED BY Zenon, <1>2, <1>3, <2>1, <2>2, <2>3
            DEF LimiterInv, Limiter!TypeOK, Limiter!Times, Limiter!BucketKeys, Limiter!Full
<1>6. BucketInv'
    <2> SUFFICES ASSUME NEW j \in DOMAIN buckets'
                 PROVE  buckets'[j].last <= time' /\ Explained(j, buckets[j])'
        BY Zenon DEF BucketInv
    <2>1. CASE j = k
        <3>1. time <= time
            BY DEF LimiterInv, Limiter!TypeOK, Limiter!Times
        <3> QED BY Zenon, <1>4, <2>1, <3>1 DEF Explained
    <2>2. CASE j # k
        BY Zenon, <1>4, <2>2 DEF LimiterInv, BucketInv, Explained
    <2> QED BY Zenon, <2>1, <2>2
<1> QED BY Zenon, <1>5, <1>6 DEF LimiterInv

\* A call: let through, or refused for what its own key used.
LEMMA LimiterCheck ==
    ASSUME LimiterConfig, LimiterInv, NEW q \in Callers, Limiter!Check(q)
    PROVE  LimiterInv'
<1>1. PICK k, map, level, full :
          /\ k = Limiter!KeyOf(q) /\ map = Limiter!RoomFor(k) /\ full = Limiter!Full
          /\ level = IF k \in DOMAIN map THEN Limiter!Refilled(map[k]) ELSE full
    BY Zenon
<1>2. k \in Limiter!BucketKeys
    BY Zenon, <1>1 DEF Limiter!BucketKeys
<1>3. /\ time \in 0 .. LastTick /\ time \in Nat /\ full \in Nat /\ Per <= full
      /\ Burst \in Nat /\ Per \in Nat
    <2>1. full = Burst * Per
        BY Zenon, <1>1 DEF Limiter!Full
    <2> QED BY <2>1 DEF LimiterConfig, LimiterInv, Limiter!TypeOK, Limiter!Times
<1>4. /\ level \in 0 .. full
      /\ level < Per => \E r \in Callers, a \in 0 .. LastTick :
             /\ Limiter!KeyOf(r) = k /\ a <= time
             /\ admitted[r][a] > 0 /\ (time - a) * Burst <= level
    <2>1. CASE k \notin DOMAIN map
        BY <1>1, <1>3, <2>1
    <2>2. CASE k \in DOMAIN map
        <3>1. PICK b : b = buckets[k]
            BY Zenon
        <3>2. k \in DOMAIN buckets /\ map[k] = b
            BY Zenon, <1>1, <2>2, <3>1, RoomMade
        <3>3. /\ b.level \in 0 .. full /\ b.last \in 0 .. LastTick /\ b.last <= time
              /\ Explained(k, b)
            BY Zenon, <1>1, <3>1, <3>2 DEF LimiterInv, BucketInv, Limiter!TypeOK, Limiter!Times
        <3>4. PICK x \in Int : x = b.level + (time - b.last) * Burst
            BY <1>3, <3>3
        <3>5. level \in {x, full} /\ level <= x /\ level <= full
            <4>1. level = Limiter!Min({x, full})
                BY Zenon, <1>1, <2>2, <3>2, <3>4 DEF Limiter!Refilled
            <4>2. full \in Int
                BY <1>3
            <4> QED BY Zenon, <4>1, <4>2, LevelMin
        <3>6. PICK r \in Callers, a \in 0 .. LastTick :
                  /\ Limiter!KeyOf(r) = k /\ a <= b.last
                  /\ admitted[r][a] > 0 /\ (b.last - a) * Burst <= b.level
            BY Zenon, <3>3 DEF Explained
        <3>7. PICK s \in Nat, u \in Nat : s = time - b.last /\ u = b.last - a
            BY <1>3, <3>3, <3>6
        <3>8. /\ (s + u) * Burst = s * Burst + u * Burst
              /\ s * Burst \in Nat
            BY <1>3, <3>7
        <3>9. time - a = s + u /\ a <= time
            BY <1>3, <3>3, <3>6, <3>7
        <3>10. (time - a) * Burst <= x /\ 0 <= x
            <4>1. (time - a) * Burst = s * Burst + u * Burst
                BY Zenon, <3>8, <3>9
            <4>2. x = b.level + s * Burst /\ u * Burst <= b.level
                BY Zenon, <3>4, <3>6, <3>7
            <4>3. u * Burst \in Nat
                BY <1>3, <3>7
            <4> HIDE DEF LimiterConfig
            <4> QED BY <3>3, <3>8, <4>1, <4>2, <4>3
        <3>11. level \in 0 .. full /\ (level < Per => level = x)
            BY <1>3, <3>5, <3>10
        <3> QED BY Zenon, <3>6, <3>9, <3>10, <3>11
    <2> QED BY Zenon, <2>1, <2>2
<1>5. level \in Nat
    BY <1>3, <1>4
<1>6. admitted \in [Callers -> [0 .. LastTick -> Nat]]
    BY Zenon DEF LimiterInv, Limiter!TypeOK, Limiter!Times
<1>7. CASE level >= Per
    <2>1. PICK b : b = [level |-> level - Per, last |-> time]
        BY Zenon
    <2>2. /\ buckets' = Limiter!Put(Limiter!RoomFor(k), k, b)
          /\ admitted' = [admitted EXCEPT ![q][time] = @ + 1]
          /\ denied' = {} /\ time' = time
        BY Zenon, <1>1, <1>7, <2>1 DEF Limiter!Check
    <2>3. level - Per \in 0 .. full /\ 0 <= level - Per /\ time <= time /\ (time - time) * Burst = 0
        BY <1>3, <1>4, <1>7
    <2>4. /\ b \in [level: 0 .. Limiter!Full, last: 0 .. LastTick]
          /\ b.last = time /\ b.level = level - Per
        BY Zenon, <1>1, <1>3, <2>1, <2>3
    <2>5. /\ admitted' \in [Callers -> [0 .. LastTick -> Nat]]
          /\ \A r \in Callers, a \in 0 .. LastTick : admitted[r][a] > 0 => admitted'[r][a] > 0
          /\ admitted'[q][time] > 0
        <3>1. PICK n \in Nat : n = admitted[q][time]
            BY Zenon, <1>3, <1>6
        <3>2. n + 1 \in Nat /\ n + 1 > 0
            BY <3>1
        <3>3. \A r \in Callers, a \in 0 .. LastTick :
                  admitted'[r][a] = IF r = q /\ a = time THEN n + 1 ELSE admitted[r][a]
            BY Zenon, <1>3, <1>6, <2>2, <3>1
        <3>4. admitted' \in [Callers -> [0 .. LastTick -> Nat]]
            BY Zenon, <1>3, <1>6, <2>2, <3>1, <3>2
        <3> QED BY Zenon, <1>3, <3>2, <3>3, <3>4
    <2>6. \E r \in Callers, a \in 0 .. LastTick :
              /\ Limiter!KeyOf(r) = k /\ a <= b.last
              /\ admitted'[r][a] > 0 /\ (b.last - a) * Burst <= b.level
        <3>1. (b.last - time) * Burst <= b.level
            BY Zenon, <2>3, <2>4
        <3> QED BY Zenon, <1>1, <1>3, <2>3, <2>4, <2>5, <3>1
    <2>7. denied' \subseteq Callers /\ Limiter!DeniedForItsOwn'
        BY Zenon, <2>2 DEF Limiter!DeniedForItsOwn
    <2> QED BY Zenon, <1>2, <2>2, <2>4, <2>5, <2>6, <2>7, CallMap
<1>8. CASE ~(level >= Per)
    <2>1. PICK b : b = [level |-> level, last |-> time]
        BY Zenon
    <2>2. /\ buckets' = Limiter!Put(Limiter!RoomFor(k), k, b)
          /\ admitted' = admitted /\ denied' = {q} /\ time' = time
        BY Zenon, <1>1, <1>8, <2>1 DEF Limiter!Check
    <2>3. level < Per
        BY <1>3, <1>5, <1>8
    <2>4. PICK r \in Callers, a \in 0 .. LastTick :
              /\ Limiter!KeyOf(r) = k /\ a <= time
              /\ admitted[r][a] > 0 /\ (time - a) * Burst <= level
        BY Zenon, <1>4, <2>3
    <2>5. /\ b \in [level: 0 .. Limiter!Full, last: 0 .. LastTick]
          /\ b.last = time /\ b.level = level
        BY Zenon, <1>1, <1>3, <1>4, <2>1
    <2>6. \E rr \in Callers, aa \in 0 .. LastTick :
              /\ Limiter!KeyOf(rr) = k /\ aa <= b.last
              /\ admitted'[rr][aa] > 0 /\ (b.last - aa) * Burst <= b.level
        BY Zenon, <2>2, <2>4, <2>5
    <2>7. denied' \subseteq Callers /\ Limiter!DeniedForItsOwn'
        <3>1. Limiter!SameParty(q, r)
            BY Zenon, <1>1, <2>4, KeyIsParty
        <3>2. a \in 0 .. time
            BY <1>3, <2>4
        <3>3. (time - a) * Burst < Per
            <4>1. PICK n \in Int : n = (time - a) * Burst
                BY <1>3, <3>2
            <4> QED BY <1>3, <1>5, <2>3, <2>4, <4>1
        <3> QED BY Zenon, <2>2, <2>4, <3>1, <3>2, <3>3
                DEF Limiter!DeniedForItsOwn, Limiter!SameParty, Limiter!ClientOf
    <2> QED BY Zenon, <1>2, <1>6, <2>2, <2>5, <2>6, <2>7, CallMap
<1> QED BY Zenon, <1>7, <1>8

\* Every step keeps the invariant.
LEMMA LimiterStep == LimiterConfig /\ LimiterInv /\ [Limiter!Next]_Limiter!vars => LimiterInv'
<1> SUFFICES ASSUME LimiterConfig, LimiterInv, [Limiter!Next]_Limiter!vars PROVE LimiterInv'
    BY Zenon
<1>1. CASE Limiter!Next
    BY Zenon, <1>1, LimiterTick, LimiterCheck DEF Limiter!Next
<1>2. CASE UNCHANGED Limiter!vars
    BY Zenon, <1>2 DEF Limiter!vars, LimiterInv, BucketInv, Explained, Limiter!TypeOK,
       Limiter!DeniedForItsOwn
<1> QED BY Zenon, <1>1, <1>2

\* The limiter's map never holds more than MAX_RATE_LIMIT_KEYS buckets and no
\* level leaves 0 .. max, whatever keys are evicted (RateLimiter::check).
THEOREM BucketsBounded ==
    ASSUME LimiterConfig
    PROVE  Limiter!Spec => []Limiter!TypeOK
<1>1. LimiterInv => Limiter!TypeOK
    BY Zenon DEF LimiterInv
<1>2. Limiter!Init => LimiterInv
    BY Zenon, LimiterInit
<1>3. LimiterInv /\ [Limiter!Next]_Limiter!vars => LimiterInv'
    BY Zenon, LimiterStep
<1> QED BY <1>1, <1>2, <1>3, PTL DEF Limiter!Spec

\* A request is refused only for a recent request of its own party: no other
\* client, endpoint class or eviction can starve it (rate_limit_middleware,
\* RateLimiter::check).
THEOREM RefusedForItsOwn ==
    ASSUME LimiterConfig
    PROVE  Limiter!Spec => []Limiter!DeniedForItsOwn
<1>1. LimiterInv => Limiter!DeniedForItsOwn
    BY Zenon DEF LimiterInv
<1>2. Limiter!Init => LimiterInv
    BY Zenon, LimiterInit
<1>3. LimiterInv /\ [Limiter!Next]_Limiter!vars => LimiterInv'
    BY Zenon, LimiterStep
<1> QED BY <1>1, <1>2, <1>3, PTL DEF Limiter!Spec
=============================================================================
