--------------------------- MODULE PermissionStore ---------------------------
(***************************************************************************)
(* The permission service over the OpenFGA backend, for one tenant: the    *)
(* namespace registry with its type index, OpenFGA's stores, authorization *)
(* models and tuples, and the permission_tuples table that mirrors the     *)
(* tuples for listing.  A call is a process that takes one step per awaited*)
(* request; any request may fail or lose its answer, and a replica may stop*)
(* between two.                                                            *)
(*                                                                         *)
(* A tuple key's "namespace" field is an object type: resolve_mapping finds*)
(* the registered namespace that owns the type.  Objects, relations and    *)
(* subjects are folded into the key.  Everything is keyed by tenant in the *)
(* code (a store's name starts with it), so one tenant stands for each.    *)
(***************************************************************************)
EXTENDS Naturals, FiniteSets, Sequences

CONSTANTS
    Namespaces,     \* namespace names; each is also a type name
    Types,          \* object type names
    Models,         \* authorization models, normalised
    ModelTypes,     \* ModelTypes[m]: the relation-bearing types of model m
    Keys,           \* tuple keys
    TypeOf,         \* TypeOf[k]: the type of key k's object
    Procs,          \* calls in flight
    Ops,            \* the calls this instance exercises
    Batches,        \* the [adds, dels] a batch may carry
    MaxStores,      \* bound: stores ever created
    MaxVersions,    \* bound: models ever published
    MaxRows,        \* bound: rows of permission_tuples ever created
    None

PermissionOps == {"ensure", "ensure_namespace", "delete_namespace", "create_tuple",
                  "delete_tuple", "write_tuples", "ensure_tuples"}

StoreIds == 1 .. MaxStores
RowIds == 1 .. MaxRows

VARIABLES
    store,      \* OpenFGA: store id -> [ns, tuples], or NoStore
    published,  \* OpenFGA: authorization models, in order, with their store
    record,     \* permission_namespaces: namespace -> row, or NoRecord
    owner,      \* permission_namespace_types: type -> namespace, or None
    row,        \* permission_tuples: row id -> key, or None
    nextStore, nextRow,
    call        \* calls in flight: next request and local values

backendVars == <<store, published, nextStore>>
registryVars == <<record, owner>>
mirrorVars == <<row, nextRow>>
permissionVars == <<backendVars, registryVars, mirrorVars, call>>

NoStore == [ns |-> None, tuples |-> {}]
NoRecord == [model |-> None, store |-> 0, version |-> 0]

NoCall == [op |-> "none", pc |-> "idle", ns |-> None, model |-> None,
           adds |-> {}, dels |-> {}, todo |-> {}, at |-> [k \in Keys |-> 0],
           row |-> 0, store |-> 0, version |-> 0, merge |-> FALSE, refused |-> FALSE]

Pcs == {"idle", "ok", "err", "get", "model_get", "find", "create_store", "publish",
        "conflicts", "commit", "ns_get", "drop_get", "drop_store", "drop_rows",
        "drop_record", "insert", "row_get", "resolve", "probe", "write", "mirror",
        "unmirror", "row_delete"}

TypeOK ==
    /\ store \in [StoreIds -> [ns: Namespaces, tuples: SUBSET Keys] \cup {NoStore}]
    /\ published \in Seq([store: StoreIds, model: Models])
    /\ record \in [Namespaces -> [model: Models, store: 0 .. MaxStores,
                                  version: 0 .. MaxVersions] \cup {NoRecord}]
    /\ owner \in [Types -> Namespaces \cup {None}]
    /\ row \in [RowIds -> Keys \cup {None}]
    /\ nextStore \in 1 .. MaxStores + 1 /\ nextRow \in 1 .. MaxRows + 1
    /\ \A p \in Procs :
          /\ call[p].pc \in Pcs /\ call[p].op \in PermissionOps \cup {"none"}
          /\ call[p].ns \in Namespaces \cup {None}
          /\ call[p].adds \subseteq Keys /\ call[p].dels \subseteq Keys
          /\ call[p].at \in [Keys -> 0 .. MaxStores]

Init ==
    /\ store = [s \in StoreIds |-> NoStore]
    /\ published = <<>>
    /\ record = [n \in Namespaces |-> NoRecord]
    /\ owner = [ty \in Types |-> None]
    /\ row = [r \in RowIds |-> None]
    /\ nextStore = 1 /\ nextRow = 1
    /\ call = [p \in Procs |-> NoCall]

-----------------------------------------------------------------------------
Goto(p, pc) == call' = [call EXCEPT ![p].pc = pc]
Fail(p) == call' = [call EXCEPT ![p] = [NoCall EXCEPT !.op = call[p].op, !.pc = "err"]]
Begin(p, c) == call[p].pc = "idle" /\ call' = [call EXCEPT ![p] = c]
CallOnly == UNCHANGED <<backendVars, registryVars, mirrorVars>>

\* get_by_type: the type index, else a namespace of that name.
OwnerOf(ty) ==
    IF owner[ty] # None THEN owner[ty]
    ELSE IF ty \in Namespaces /\ record[ty] # NoRecord THEN ty
    ELSE None

\* resolve_mapping: a record without store or model is not configured.
Resolvable(ty) ==
    /\ OwnerOf(ty) # None
    /\ record[OwnerOf(ty)].store # 0 /\ record[OwnerOf(ty)].version # 0

-----------------------------------------------------------------------------
(* ensure_permission_namespace, and the backend's ensure_model, which      *)
(* ensure_namespace calls with a flat model.                               *)

BeginEnsure(p, op, n, m) ==
    /\ op \in Ops
    /\ Begin(p, [NoCall EXCEPT !.op = op, !.ns = n, !.model = m,
                    !.pc = IF op = "ensure" THEN "get" ELSE "model_get"])
    /\ CallOnly

\* Idempotent fast path: an identical model is already registered.
EnsureFastPath(p) ==
    /\ call[p].pc = "get"
    /\ Goto(p, IF record[call[p].ns].model = call[p].model THEN "ok" ELSE "model_get")
    /\ CallOnly

EnsureModelGet(p) ==
    LET c == call[p]  rec == record[c.ns] IN
    /\ c.pc = "model_get"
    /\ IF rec.store = 0 THEN Goto(p, "find")
       ELSE IF rec.model = c.model
            THEN call' = [call EXCEPT ![p].merge = TRUE,     \* nothing to persist
                            ![p].pc = IF c.op = "ensure" THEN "conflicts" ELSE "ok"]
            ELSE call' = [call EXCEPT ![p].pc = "publish", ![p].store = rec.store]
    /\ CallOnly

\* (mutant) a new store whenever the registry knows of none.
FindStoreNever(p) ==
    /\ call[p].pc = "find"
    /\ Goto(p, "create_store")
    /\ CallOnly

\* find_store_by_name: adopt what a crashed attempt left behind.
FindStore(p) ==
    LET named == {s \in StoreIds : store[s].ns = call[p].ns} IN
    /\ call[p].pc = "find"
    /\ \/ named = {} /\ Goto(p, "create_store")
       \/ \E s \in named : call' = [call EXCEPT ![p].pc = "publish", ![p].store = s]
    /\ CallOnly

CreateStore(p) ==
    /\ call[p].pc = "create_store" /\ nextStore <= MaxStores
    /\ store' = [store EXCEPT ![nextStore] = [ns |-> call[p].ns, tuples |-> {}]]
    /\ nextStore' = nextStore + 1
    /\ \/ call' = [call EXCEPT ![p].pc = "publish", ![p].store = nextStore]
       \/ Fail(p)                                   \* the answer is lost
    /\ UNCHANGED <<published, registryVars, mirrorVars>>

\* write_model: 404 when the store is gone.
PublishModel(p) ==
    LET c == call[p] IN
    /\ c.pc = "publish"
    /\ IF store[c.store] = NoStore
       THEN Fail(p) /\ UNCHANGED published
       ELSE /\ Len(published) < MaxVersions
            /\ published' = Append(published, [store |-> c.store, model |-> c.model])
            /\ call' = [call EXCEPT ![p].pc = "conflicts",
                                    ![p].version = Len(published) + 1]
    /\ UNCHANGED <<store, nextStore, registryVars, mirrorVars>>

\* upsert, a READ COMMITTED transaction: first the conflicting types are read.
UpsertConflicts(p) ==
    LET c == call[p] IN
    /\ c.pc = "conflicts"
    /\ IF \E ty \in ModelTypes[c.model] : owner[ty] \notin {c.ns, None}
       THEN Fail(p) ELSE Goto(p, "commit")
    /\ CallOnly

\* Then row and type index are written (COALESCE keeps ids that are not given,
\* ON CONFLICT DO NOTHING leaves a type to whoever took it meanwhile).  The
\* backend's persist_record is followed by the service's merge without ids.
UpsertCommit(p) ==
    LET c == call[p]
        types == ModelTypes[c.model]
        old == record[c.ns]
    IN
    /\ c.pc = "commit"
    /\ record' = [record EXCEPT ![c.ns] =
                    [model |-> c.model,
                     store |-> IF c.merge THEN old.store ELSE c.store,
                     version |-> IF c.merge THEN old.version ELSE c.version]]
    /\ owner' = [ty \in Types |->
                   IF ty \in types /\ owner[ty] = None THEN c.ns
                   ELSE IF ty \notin types /\ owner[ty] = c.ns THEN None
                   ELSE owner[ty]]
    /\ call' = [call EXCEPT ![p].merge = TRUE,
                  ![p].pc = IF c.merge \/ c.op = "ensure_namespace" THEN "ok" ELSE "conflicts"]
    /\ UNCHANGED <<backendVars, mirrorVars>>

-----------------------------------------------------------------------------
(* delete_permission_namespace: store, mirror rows, record.                *)

BeginDeleteNamespace(p, n) ==
    /\ "delete_namespace" \in Ops
    /\ Begin(p, [NoCall EXCEPT !.op = "delete_namespace", !.ns = n, !.pc = "ns_get"])
    /\ CallOnly

DeleteNamespaceGet(p) ==
    /\ call[p].pc = "ns_get"
    /\ Goto(p, IF record[call[p].ns] = NoRecord THEN "err" ELSE "drop_get")
    /\ CallOnly

\* The backend reads the record again: none, or none provisioned, is fine.
DeleteNamespaceResolve(p) ==
    LET s == record[call[p].ns].store IN
    /\ call[p].pc = "drop_get"
    /\ call' = [call EXCEPT ![p].pc = IF s = 0 THEN "drop_rows" ELSE "drop_store",
                            ![p].store = s]
    /\ CallOnly

\* delete_store: a 404 is not an error.
DeleteStore(p) ==
    /\ call[p].pc = "drop_store"
    /\ store' = [store EXCEPT ![call[p].store] = NoStore]
    /\ Goto(p, "drop_rows") \/ Fail(p)              \* (the answer may be lost)
    /\ UNCHANGED <<published, nextStore, registryVars, mirrorVars>>

\* delete_by_namespace: the rows whose own namespace field has that name.
DeleteRows(p) ==
    /\ call[p].pc = "drop_rows"
    /\ row' = [r \in RowIds |-> IF row[r] # None /\ TypeOf[row[r]] = call[p].ns
                                THEN None ELSE row[r]]
    /\ Goto(p, "drop_record")
    /\ UNCHANGED <<backendVars, registryVars, nextRow>>

\* The type index goes with the record (ON DELETE CASCADE).
DeleteRecord(p) ==
    LET n == call[p].ns IN
    /\ call[p].pc = "drop_record"
    /\ record' = [record EXCEPT ![n] = NoRecord]
    /\ owner' = [ty \in Types |-> IF owner[ty] = n THEN None ELSE owner[ty]]
    /\ Goto(p, "ok")
    /\ UNCHANGED <<backendVars, mirrorVars>>

-----------------------------------------------------------------------------
(* create_relation_tuple and delete_relation_tuple.                        *)

BeginCreateTuple(p, k) ==
    /\ "create_tuple" \in Ops
    /\ Begin(p, [NoCall EXCEPT !.op = "create_tuple", !.adds = {k}, !.pc = "insert"])
    /\ CallOnly

\* tuples.create: the row comes first, and nothing makes rows of a key unique.
InsertRow(p) ==
    /\ call[p].pc = "insert" /\ nextRow <= MaxRows
    /\ row' = [row EXCEPT ![nextRow] = CHOOSE k \in call[p].adds : TRUE]
    /\ nextRow' = nextRow + 1
    /\ Goto(p, "resolve") \/ Fail(p)
    /\ UNCHANGED <<backendVars, registryVars>>

BeginDeleteTuple(p, r) ==
    /\ "delete_tuple" \in Ops
    /\ Begin(p, [NoCall EXCEPT !.op = "delete_tuple", !.row = r, !.pc = "row_get"])
    /\ CallOnly

GetRow(p) ==
    LET k == row[call[p].row] IN
    /\ call[p].pc = "row_get"
    /\ IF k = None THEN Fail(p)
       ELSE call' = [call EXCEPT ![p].pc = "resolve", ![p].dels = {k}]
    /\ CallOnly

\* (mutant) all rows of the key go with the one that was named.
DeleteRowByKey(p) ==
    LET r == call[p].row IN
    /\ call[p].pc = "row_delete"
    /\ row' = [x \in RowIds |-> IF row[x] = row[r] THEN None ELSE row[x]]
    /\ Goto(p, IF row[r] = None THEN "err" ELSE "ok")
    /\ UNCHANGED <<backendVars, registryVars, nextRow>>

\* tuples.delete by id: TupleNotFound when another call was faster.
DeleteRow(p) ==
    LET r == call[p].row IN
    /\ call[p].pc = "row_delete"
    /\ row' = [row EXCEPT ![r] = None]
    /\ Goto(p, IF row[r] = None THEN "err" ELSE "ok")
    /\ UNCHANGED <<backendVars, registryVars, nextRow>>

-----------------------------------------------------------------------------
(* write_relation_tuples, and the backend's write_tuples and ensure_tuples.*)

BeginWriteTuples(p, op, batch) ==
    /\ op \in {"write_tuples", "ensure_tuples"} \cap Ops
    /\ Begin(p, [NoCall EXCEPT !.op = op, !.adds = batch.adds, !.dels = batch.dels,
                    !.pc = "resolve", !.merge = (op = "write_tuples")])
    /\ CallOnly

\* resolve_mapping for the types of the keys; one that is not configured ends
\* the call.  ensure_tuples resolves once to probe and once more to write (its
\* field merge says the probes are done).
Resolve(p) ==
    LET c == call[p]
        keys == c.adds \cup c.dels
        at == [k \in Keys |-> IF k \in keys THEN record[OwnerOf(TypeOf[k])].store ELSE 0]
    IN
    /\ c.pc = "resolve"
    /\ IF \E k \in keys : ~Resolvable(TypeOf[k])
       THEN Fail(p)
       ELSE IF c.op = "ensure_tuples" /\ ~c.merge
       THEN call' = [call EXCEPT ![p].pc = "probe", ![p].at = at, ![p].todo = keys]
       ELSE call' = [call EXCEPT ![p].pc = "write", ![p].at = at,
                                 ![p].todo = {at[k] : k \in keys}]
    /\ CallOnly

\* ensure_tuples reads every key and keeps only the delta.
Probe(p) ==
    LET c == call[p] IN
    /\ c.pc = "probe"
    /\ \/ /\ c.todo = {}
          /\ call' = [call EXCEPT ![p].pc = "resolve", ![p].merge = TRUE]
       \/ \E k \in c.todo :
             LET present == k \in store[c.at[k]].tuples
                 moot == IF (k \in c.adds) = present THEN {k} ELSE {}
             IN call' = [call EXCEPT ![p].todo = c.todo \ {k},
                                     ![p].adds = c.adds \ moot,
                                     ![p].dels = c.dels \ moot]
    /\ CallOnly

\* What follows the last write.
AfterWrite(op) ==
    CASE op \in {"create_tuple", "ensure_tuples"} -> "ok"
      [] op = "delete_tuple" -> "row_delete"
      [] op = "write_tuples" -> "mirror"

\* One write per store, in any order.  OpenFGA takes it whole or refuses it: an
\* existing key cannot be written, a missing one cannot be deleted.
WriteStore(p) ==
    LET c == call[p] IN
    /\ c.pc = "write"
    /\ \/ /\ c.todo = {}
          /\ Goto(p, AfterWrite(c.op))
          /\ UNCHANGED store
       \/ \E s \in c.todo :
             LET adds == {k \in c.adds : c.at[k] = s}
                 dels == {k \in c.dels : c.at[k] = s}
             IN IF store[s] # NoStore /\ adds \cap store[s].tuples = {}
                                     /\ dels \subseteq store[s].tuples
                THEN /\ store' = [store EXCEPT ![s].tuples = (@ \ dels) \cup adds]
                     /\ \/ call' = [call EXCEPT ![p].todo = c.todo \ {s}]
                        \/ Fail(p)                   \* the answer is lost
                ELSE /\ call' = [call EXCEPT ![p].pc = "err",
                                             ![p].refused = (store[s] # NoStore)]
                     /\ UNCHANGED store
    /\ UNCHANGED <<published, nextStore, registryVars, mirrorVars>>

\* create_many mirrors the writes in one statement, delete_by_key the deletes
\* one by one.
MirrorWrites(p) ==
    LET c == call[p]
        n == Cardinality(c.adds)
    IN
    /\ c.pc = "mirror" /\ nextRow + n <= MaxRows + 1
    /\ \E ids \in [nextRow .. nextRow + n - 1 -> c.adds] :
          /\ \A k \in c.adds : \E r \in DOMAIN ids : ids[r] = k
          /\ row' = [r \in RowIds |-> IF r \in DOMAIN ids THEN ids[r] ELSE row[r]]
    /\ nextRow' = nextRow + n
    /\ call' = [call EXCEPT ![p].pc = "unmirror", ![p].todo = c.dels]
    /\ UNCHANGED <<backendVars, registryVars>>

MirrorDeletes(p) ==
    LET c == call[p] IN
    /\ c.pc = "unmirror"
    /\ \/ c.todo = {} /\ Goto(p, "ok") /\ UNCHANGED row
       \/ \E k \in c.todo :
             /\ row' = [r \in RowIds |-> IF row[r] = k THEN None ELSE row[r]]
             /\ call' = [call EXCEPT ![p].todo = c.todo \ {k}]
    /\ UNCHANGED <<backendVars, registryVars, nextRow>>

-----------------------------------------------------------------------------
Waiting(p) == call[p].pc \notin {"idle", "ok", "err"}

RequestFails(p) == Waiting(p) /\ Fail(p) /\ CallOnly

\* The caller has its answer, or the replica stopped.
Return(p) ==
    /\ call[p].pc # "idle"
    /\ call' = [call EXCEPT ![p] = NoCall]
    /\ CallOnly

BeginCall(p) ==
    \/ \E op \in {"ensure", "ensure_namespace"}, n \in Namespaces, m \in Models :
          BeginEnsure(p, op, n, m)
    \/ \E n \in Namespaces : BeginDeleteNamespace(p, n)
    \/ \E k \in Keys : BeginCreateTuple(p, k)
    \/ \E r \in 1 .. nextRow - 1 : BeginDeleteTuple(p, r)
    \/ \E op \in Ops, batch \in Batches : BeginWriteTuples(p, op, batch)

EnsureStep(p) ==
    \/ EnsureFastPath(p)
    \/ EnsureModelGet(p)
    \/ FindStore(p)
    \/ CreateStore(p)
    \/ PublishModel(p)
    \/ UpsertConflicts(p)
    \/ UpsertCommit(p)

DeleteStep(p) ==
    \/ DeleteNamespaceGet(p)
    \/ DeleteNamespaceResolve(p)
    \/ DeleteStore(p)
    \/ DeleteRows(p)
    \/ DeleteRecord(p)

TupleStep(p) ==
    \/ InsertRow(p)
    \/ GetRow(p)
    \/ DeleteRow(p)
    \/ Resolve(p)
    \/ Probe(p)
    \/ WriteStore(p)
    \/ MirrorWrites(p)
    \/ MirrorDeletes(p)

Next == \E p \in Procs :
    \/ BeginCall(p)
    \/ EnsureStep(p)
    \/ DeleteStep(p)
    \/ TupleStep(p)
    \/ RequestFails(p)
    \/ Return(p)

Spec == Init /\ [][Next]_permissionVars

-----------------------------------------------------------------------------
(* Properties.                                                             *)

Granted(k) == \E s \in StoreIds : k \in store[s].tuples
Listed(k) == \E r \in RowIds : row[r] = k
Alone(p) == \A q \in Procs \ {p} : ~Waiting(q)

\* With CreateRelationTuple and DeleteRelationTuple in any number, in any
\* interleaving and with any request failing, a tuple that grants something is
\* listed: its row is written first and removed last, and OpenFGA's refusal of
\* duplicate writes and deletes keeps racing calls from removing each other's.
GrantedIsListed == \A k \in Keys : Granted(k) => Listed(k)

\* Attempts that stop anywhere leave at most one store per namespace behind:
\* ensure_model adopts the store of a crashed attempt.  (One call at a time.)
OneStorePerNamespace ==
    \A s, u \in StoreIds : store[s] # NoStore /\ store[s].ns = store[u].ns => s = u

\* An ensure that was answered with success has the namespace registered under
\* the model it asked for, in a live store, with a published version that is
\* that very model.  (One call at a time, without deletions.)
OkEnsureProvisioned ==
    \A p \in Procs :
        LET c == call[p]  rec == record[c.ns] IN
        c.pc = "ok" /\ c.op \in {"ensure", "ensure_namespace"} /\ Alone(p) =>
            /\ rec.model = c.model
            /\ store[rec.store].ns = c.ns
            /\ published[rec.version] = [store |-> rec.store, model |-> c.model]
=============================================================================
