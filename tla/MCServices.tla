----------------------------- MODULE MCServices ------------------------------
(***************************************************************************)
(* The services beside the login: permissions and the listing of tuples,   *)
(* SCIM groups, identity schemas, the transient tokens of self-service,    *)
(* and the startup that installs the gateway's own client.                 *)
(* They share no state, so a behaviour runs one of them, chosen at the     *)
(* start, and the others rest: their product would add interleavings and   *)
(* no states of any of them.  A part is a component with the operations,   *)
(* sets and bounds of one question.                                        *)
(***************************************************************************)
EXTENDS Naturals, FiniteSets, Sequences, TLC

CONSTANTS
    None, Blank,
    p0, p1, p2,                                 \* calls and requests in flight
    n1, n2, d1, m1, m2, k1, k2,                 \* namespaces, types, models, keys
    u1, u2, g1, g2,                             \* SCIM users and groups
    sa, sb, doc1, doc2, bare, tr1, tr2, i1,     \* schemas, documents, traits
    f1, f2, s1, c1, l1, sys, acme,              \* raw tokens and tenants
    r1, r2, r3, boot, x1, x2                    \* replicas and credentials

VARIABLES
    part,
    store, published, record, owner, mirror, nextStore, nextRow, call,
    clock, table, used, pc, cursor, pages, steady,
    unborn, mapped, groups, members, groupTuples, entitled, scimReq, done,
    schema, made, pin, schemaReq, contents,
    tok, now, live, selfReq, issued, ended,
    tenant, hydra, mapping, appRow, seeded, startPc, admin, deleted, faults

permissionVars == <<store, published, record, owner, mirror, nextStore, nextRow, call>>
pagingVars == <<clock, table, used, pc, cursor, pages, steady>>
scimVars == <<unborn, mapped, groups, members, groupTuples, entitled, scimReq, done>>
schemaVars == <<schema, made, pin, schemaReq, contents>>
selfVars == <<tok, now, live, selfReq, issued, ended>>
bootVars == <<tenant, hydra, mapping, appRow, seeded, startPc, admin, deleted, faults>>

-----------------------------------------------------------------------------
(* Permissions: calls cut off anywhere, one at a time; the namespaces of a *)
(* tenant provisioned one after another; and tuples written in parallel.   *)

CrashOps == {"ensure", "ensure_namespace", "write_tuples", "ensure_tuples"}
TupleOps == {"ensure_namespace", "create_tuple", "delete_tuple"}

\* m1 defines the type named like n1; m2 defines d1 as well.
Flat == (m1 :> {n1}) @@ (m2 :> {n1, d1})

AddOne(keys) == {[adds |-> {k}, dels |-> {}] : k \in keys}
AnyBatch(keys) == {b \in [adds: SUBSET keys, dels: SUBSET keys] :
                     b.adds \cap b.dels = {} /\ b.adds \cup b.dels # {}}

Crash == INSTANCE PermissionStore
    WITH Namespaces <- {n1}, Types <- {n1, d1}, Models <- {m1, m2}, ModelTypes <- Flat,
         Keys <- {k1, k2}, TypeOf <- (k1 :> n1) @@ (k2 :> d1), Procs <- {p0},
         Ops <- CrashOps \cup TupleOps \cup {"delete_namespace"},
         Batches <- AnyBatch({k1, k2}),
         MaxStores <- 2, MaxVersions <- 2, MaxRows <- 2, row <- mirror
Ensure == INSTANCE PermissionStore
    WITH Namespaces <- {n1, n2}, Types <- {n1, n2, d1}, Models <- {m1, m2}, ModelTypes <- Flat,
         Keys <- {k1, k2}, TypeOf <- (k1 :> n1) @@ (k2 :> d1), Procs <- {p0},
         Ops <- CrashOps, Batches <- AddOne({k2}),
         MaxStores <- 3, MaxVersions <- 3, MaxRows <- 1, row <- mirror
Tuples == INSTANCE PermissionStore
    WITH Namespaces <- {n1}, Types <- {n1, d1}, Models <- {m1}, ModelTypes <- (m1 :> {n1}),
         Keys <- {k1}, TypeOf <- (k1 :> n1), Procs <- {p1, p2},
         Ops <- TupleOps, Batches <- AddOne({k1}),
         MaxStores <- 1, MaxVersions <- 1, MaxRows <- 3, row <- mirror

\* Wherever earlier calls stopped, calls that come one after another keep one
\* OpenFGA store per namespace, and ensure_namespace_model answers Ok only when
\* store, published model and registry record agree as asked.
ProvisioningSound ==
    /\ part = "crash" => Crash!OneStorePerNamespace
    /\ part = "ensure" => Ensure!OkEnsureProvisioned

\* A granted tuple is in the mirror that listings read, whichever single-tuple
\* calls race: create writes the row first, delete takes it last.
GrantedIsListed == part = "tuples" => Tuples!GrantedIsListed

PermissionInit ==
    CASE part = "ensure" -> Ensure!Init
      [] part = "tuples" -> Tuples!Init
      [] OTHER -> Crash!Init

PermissionNext ==
    \/ part = "crash" /\ Crash!Next
    \/ part = "ensure" /\ Ensure!Next
    \/ part = "tuples" /\ Tuples!Next

-----------------------------------------------------------------------------
(* Listing: pages of two rows, for the request asks for more than MaxSize. *)

Walk == INSTANCE TuplePaging
    WITH Ids <- 1..5, MaxClock <- 1, RequestedSize <- 9, DefaultSize <- 1, MaxSize <- 2

\* However rows come and go between two requests of a ListRelationTuples walk,
\* no row is returned twice, and every row that was there all the time is.
WalkExact == part = "walk" => Walk!WalkExact

-----------------------------------------------------------------------------
(* SCIM groups: creation and deletion cut off anywhere, over a backend     *)
(* that refuses to write a tuple again; and updates that are not cut off.  *)

CreateAndDelete == {"create_user", "delete_user", "create_group", "delete_group"}

Cut == INSTANCE ScimGroups
    WITH Users <- {u1, u2}, Groups <- {g1, g2}, Procs <- {p0}, Ops <- CreateAndDelete,
         Strict <- TRUE, MayFail <- TRUE, req <- scimReq
Update == INSTANCE ScimGroups
    WITH Users <- {u1, u2}, Groups <- {g1, g2}, Procs <- {p0},
         Ops <- CreateAndDelete \cup {"update_user", "update_group"},
         Strict <- FALSE, MayFail <- FALSE, req <- scimReq

\* Wherever a request of ScimServiceImpl was cut off, an entitled user is a
\* listed member of a group that exists; and when none is cut off, members and
\* entitlements agree after each, and are what an update asked for.
EntitlementsSound ==
    /\ part = "cut" => Cut!EntitledIsMember /\ Cut!GoneEntitlesNothing
    /\ part = "update" => Update!StoresAgree /\ Update!OkMeansAsAsked

ScimNext ==
    \/ part = "cut" /\ Cut!Next
    \/ part = "update" /\ Update!Next

-----------------------------------------------------------------------------
(* Identity schemas: pins against updates and deletions; and two schemas   *)
(* whose versions administrators move.                                     *)

Accepting == (doc1 :> {tr1}) @@ (doc2 :> {tr2}) @@ (bare :> {tr1, tr2})

Pins == INSTANCE IdentitySchemas
    WITH SchemaIds <- {sa}, Docs <- {doc1, doc2, bare}, EmailDocs <- {doc1, doc2},
         Traits <- {tr1, tr2}, Accepts <- Accepting, Members <- {i1}, Procs <- {p1, p2},
         Ops <- {"create", "delete", "update", "write"}, MaxVersion <- 2, MaxMade <- 2,
         row <- schema, req <- schemaReq
Versions == INSTANCE IdentitySchemas
    WITH SchemaIds <- {sa, sb}, Docs <- {doc1, doc2, bare}, EmailDocs <- {doc1, doc2},
         Traits <- {tr1, tr2}, Accepts <- Accepting, Members <- {i1}, Procs <- {p1, p2},
         Ops <- {"create", "update", "set_default"}, MaxVersion <- 3, MaxMade <- 2,
         row <- schema, req <- schemaReq

\* The version a membership pins is one whose document accepted its traits, also
\* when the schema is updated, deleted or recreated between the validation and
\* the membership write; and while schemas are only updated a version has one
\* content, for updates that race take a new version each.
PinsHold ==
    /\ part = "pins" => Pins!PinsValid
    /\ part = "versions" => Versions!VersionImmutable

SchemaInit == IF part = "pins" THEN Pins!Init ELSE Versions!Init

SchemaNext ==
    \/ part = "pins" /\ Pins!Next
    \/ part = "versions" /\ Versions!Next

-----------------------------------------------------------------------------
(* Transient tokens: the ids of a challenge over time, the answers of flow *)
(* requests over a table that may fail, sessions, links, and arguments of  *)
(* every kind.                                                             *)

FlowOps == {"create_flow", "submit_flow", "proxy"}
LinkOps == {"recovery_link", "submit_token", "logout_flow", "submit_logout"}
SessionOps == {"to_session", "get_session", "list_sessions", "delete_session"}
TypedOps == {"to_session", "get_session", "recovery_link", "submit_token", "get_flow"}
SettleOps == {"create_login", "get_challenge", "settle_challenge", "device", "get_flow"}

IdentityOfSession == (s1 :> i1)

Ids == INSTANCE SelfService
    WITH Flows <- {}, Sessions <- {}, Challenges <- {c1}, Links <- {},
         Publics <- 1..2, Procs <- {p1, p2}, Ops <- {"get_challenge", "get_logout"},
         MaxTime <- 2, DbMayFail <- FALSE,
         Identities <- {i1}, IdentityOf <- IdentityOfSession, Mapped <- {<<acme, i1>>},
         Tenants <- {sys, acme}, System <- sys, Lifetime <- 1, req <- selfReq
Answers == INSTANCE SelfService
    WITH Flows <- {f1, f2}, Sessions <- {}, Challenges <- {}, Links <- {},
         Publics <- 1..4, Procs <- {p1}, Ops <- FlowOps,
         MaxTime <- 0, DbMayFail <- TRUE,
         Identities <- {i1}, IdentityOf <- IdentityOfSession, Mapped <- {<<acme, i1>>},
         Tenants <- {sys, acme}, System <- sys, Lifetime <- 1, req <- selfReq
SessionTokens == INSTANCE SelfService
    WITH Flows <- {}, Sessions <- {s1}, Challenges <- {}, Links <- {},
         Publics <- 1..2, Procs <- {p1, p2}, Ops <- SessionOps,
         MaxTime <- 2, DbMayFail <- TRUE,
         Identities <- {i1}, IdentityOf <- IdentityOfSession, Mapped <- {<<acme, i1>>},
         Tenants <- {sys, acme}, System <- sys, Lifetime <- 1, req <- selfReq
LinkTokens == INSTANCE SelfService
    WITH Flows <- {f1}, Sessions <- {}, Challenges <- {}, Links <- {l1},
         Publics <- 1..4, Procs <- {p1, p2}, Ops <- LinkOps,
         MaxTime <- 0, DbMayFail <- TRUE,
         Identities <- {i1}, IdentityOf <- IdentityOfSession, Mapped <- {<<acme, i1>>},
         Tenants <- {sys, acme}, System <- sys, Lifetime <- 1, req <- selfReq
Typed == INSTANCE SelfService
    WITH Flows <- {f1}, Sessions <- {s1}, Challenges <- {}, Links <- {l1},
         Publics <- 1..6, Procs <- {p1}, Ops <- TypedOps,
         MaxTime <- 1, DbMayFail <- FALSE,
         Identities <- {i1}, IdentityOf <- IdentityOfSession, Mapped <- {<<acme, i1>>},
         Tenants <- {sys, acme}, System <- sys, Lifetime <- 1, req <- selfReq
Settled == INSTANCE SelfService
    WITH Flows <- {f1}, Sessions <- {}, Challenges <- {c1}, Links <- {},
         Publics <- 1..4, Procs <- {p1}, Ops <- SettleOps,
         MaxTime <- 1, DbMayFail <- FALSE,
         Identities <- {i1}, IdentityOf <- IdentityOfSession, Mapped <- {<<acme, i1>>},
         Tenants <- {sys, acme}, System <- sys, Lifetime <- 1, req <- selfReq

\* One tenant is answered one id for one token, whatever requests race to mint
\* it and however long after its row expired, and one id is never answered for
\* two tokens or two tenants (TransientTokenRepository::create is an upsert).
SameTokenSameId == part = "ids" => Ids!SameTokenSameId

\* Public ids face the callers and raw tokens face Kratos and Hydra: an answer
\* whose fields cannot all be minted is given up, and an id minted for one
\* purpose is never resolved for another.
BoundaryKept ==
    /\ part = "answers" => Answers!NoRawInAnswers
    /\ part = "links" => LinkTokens!NoRawInAnswers
    /\ part = "typed" => Typed!RightKind
    /\ part = "settled" => Settled!RightKind

\* delete_session ends only sessions of identities mapped in the caller's
\* tenant, although to_session stores a row for the session under whatever
\* tenant asks.
SessionEndedAtHome == part = "sessions" => SessionTokens!SessionEndedAtHome

SelfInit ==
    CASE part = "answers" -> Answers!Init
      [] part = "sessions" -> SessionTokens!Init
      [] part = "links" -> LinkTokens!Init
      [] part = "typed" -> Typed!Init
      [] part = "settled" -> Settled!Init
      [] OTHER -> Ids!Init

SelfNext ==
    \/ part = "ids" /\ Ids!Next
    \/ part = "answers" /\ Answers!Next
    \/ part = "sessions" /\ SessionTokens!Next
    \/ part = "links" /\ LinkTokens!Next
    \/ part = "typed" /\ Typed!Next
    \/ part = "settled" /\ Settled!Next

-----------------------------------------------------------------------------
(* Startup: three replicas on any deployment; and an administrator who     *)
(* creates, edits and deletes credentials while two replicas start.        *)

\* Every point of a startup, a serving replica included.
AnyPoint == {"readTenant", "insertTenant", "readMapping", "getClient", "updateClient",
             "recreate", "create", "map", "readRow", "setCross", "insertRow",
             "namespace", "seed", "serving"}

Race == INSTANCE Bootstrap
    WITH Replicas <- {r1, r2, r3}, Clients <- {boot}, Boot <- boot,
         Inits <- {"fresh", "legacy", "wiped"}, FaultPoints <- AnyPoint,
         AdminOps <- {}, MaxFaults <- 2, row <- appRow, pc <- startPc
Credentials == INSTANCE Bootstrap
    WITH Replicas <- {r1, r2}, Clients <- {boot, x1, x2}, Boot <- boot,
         Inits <- {"legacy", "wiped"}, FaultPoints <- AnyPoint,
         AdminOps <- {"create", "update", "delete"}, MaxFaults <- 1,
         row <- appRow, pc <- startPc

\* What a startup installs is there and what an administrator deleted is gone:
\* tenant, client with its scopes, mapping, cross-tenant applications row and
\* seeded namespace whenever build_app lets a replica serve, whichever
\* deployment it found and wherever earlier startups stopped; and no client in
\* Hydra after a deletion answered Ok, but the one startups install again.
InstallationSound ==
    /\ part = "race" => Race!ServingInstalled
    /\ part = "credentials" => Credentials!DeletedIsGone

BootInit ==
    CASE part = "race" -> Race!Init
      [] part = "credentials" -> Credentials!Init
      [] OTHER -> Race!Init /\ ~tenant

BootNext ==
    \/ part = "race" /\ Race!Next
    \/ part = "credentials" /\ Credentials!Next

-----------------------------------------------------------------------------
Parts == {"crash", "ensure", "tuples", "walk", "cut", "update", "pins", "versions",
          "ids", "answers", "sessions", "links", "typed", "settled",
          "race", "credentials"}

\* The type invariants of the six components.
ServicesTypeOK ==
    /\ part = "crash" => Crash!TypeOK
    /\ part = "ensure" => Ensure!TypeOK
    /\ part = "tuples" => Tuples!TypeOK
    /\ part = "walk" => Walk!TypeOK
    /\ part = "cut" => Cut!TypeOK
    /\ part = "update" => Update!TypeOK
    /\ part = "pins" => Pins!TypeOK
    /\ part = "versions" => Versions!TypeOK
    /\ part = "ids" => Ids!TypeOK
    /\ part = "answers" => Answers!TypeOK
    /\ part = "race" => Race!TypeOK
    /\ part = "credentials" => Credentials!TypeOK

Init ==
    /\ part \in Parts
    /\ PermissionInit /\ Walk!Init /\ Cut!Init /\ SchemaInit /\ SelfInit /\ BootInit

Next ==
    /\ \/ PermissionNext /\ UNCHANGED <<pagingVars, scimVars, schemaVars, selfVars, bootVars>>
       \/ part = "walk" /\ Walk!Next
          /\ UNCHANGED <<permissionVars, scimVars, schemaVars, selfVars, bootVars>>
       \/ ScimNext /\ UNCHANGED <<permissionVars, pagingVars, schemaVars, selfVars, bootVars>>
       \/ SchemaNext /\ UNCHANGED <<permissionVars, pagingVars, scimVars, selfVars, bootVars>>
       \/ SelfNext /\ UNCHANGED <<permissionVars, pagingVars, scimVars, schemaVars, bootVars>>
       \/ BootNext /\ UNCHANGED <<permissionVars, pagingVars, scimVars, schemaVars, selfVars>>
    /\ UNCHANGED part

Spec == Init /\ [][Next]_<<part, permissionVars, pagingVars, scimVars, schemaVars,
                           selfVars, bootVars>>

\* Exchanges the two values of every pair at the same time.
Exchange(pairs) ==
    {f \in Permutations(UNION {{p[1], p[2]} : p \in pairs}) :
        /\ \A p \in pairs : {f[p[1]], f[p[2]]} = {p[1], p[2]}
        /\ \A p, q \in pairs : f[p[1]] = p[1] <=> f[q[1]] = q[1]}

\* Values of different parts are exchanged together; a part at rest names
\* both values of a pair alike, or neither.
Symmetry == Exchange({<<p1, p2>>, <<u1, u2>>, <<x1, x2>>})
            \cup Exchange({<<sa, sb>>, <<g1, g2>>, <<r1, r2>>})
=============================================================================
