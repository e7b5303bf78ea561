----------------------- MODULE PermissionStore_proofs -----------------------
(***************************************************************************)
(* The mirror of the permission tuples, for any number of keys, types,     *)
(* namespaces and calls: with single-tuple creates and deletes and with    *)
(* ensures of namespaces, racing and failing anywhere, a tuple that grants *)
(* something is listed.  Rows of a key are not unique and any of them may  *)
(* be deleted, so no row belongs to a tuple: the argument counts.  A key   *)
(* has as many rows that nobody is about to delete as it has tuples in     *)
(* stores and creations that may still write one.                          *)
(***************************************************************************)
EXTENDS PermissionStore, FiniteSetTheorems, TLAPS

\* The constants of any deployment.
Deployment ==
    /\ TypeOf \in [Keys -> Types]
    /\ None \notin Keys /\ None \notin Namespaces
    /\ MaxStores \in Nat /\ MaxRows \in Nat
    /\ IsFiniteSet(Procs)

\* Neither batches nor deletions of a namespace take part.
SingleTuples == Ops \cap {"delete_namespace", "write_tuples", "ensure_tuples"} = {}

CallType ==
    [op: {"none", "ensure", "ensure_namespace", "create_tuple", "delete_tuple"}, pc: Pcs,
     ns: Namespaces \cup {None}, model: Models \cup {None},
     adds: SUBSET Keys, dels: SUBSET Keys, todo: SUBSET StoreIds,
     at: [Keys -> 0 .. MaxStores], row: 0 .. MaxRows, store: 0 .. MaxStores,
     version: Nat, merge: BOOLEAN, refused: BOOLEAN]

RecordType == [model: Models \cup {None}, store: 0 .. MaxStores, version: Nat]

\* The types of the stores and of the calls.
StoreTypes ==
    /\ store \in [StoreIds -> [ns: Namespaces \cup {None}, tuples: SUBSET Keys]]
    /\ published \in Seq([store: 0 .. MaxStores, model: Models \cup {None}])
    /\ record \in [Namespaces -> RecordType]
    /\ owner \in [Types -> Namespaces \cup {None}]
    /\ row \in [RowIds -> Keys \cup {None}]
    /\ nextStore \in 1 .. MaxStores + 1 /\ nextRow \in 1 .. MaxRows + 1
    /\ call \in [Procs -> CallType]

\* Rows are numbered as they are created.
RowsInOrder == \A r \in RowIds : r >= nextRow => row[r] = None

CreatePcs == {"insert", "resolve", "write"}
DeletePcs == {"row_get", "resolve", "write", "row_delete"}
EnsurePcs == {"get", "model_get", "find", "create_store", "publish", "conflicts", "commit"}

\* What a call is about.
Phase(c) ==
    /\ c.pc \in EnsurePcs => c.ns \in Namespaces
    /\ c.pc \in CreatePcs \cup DeletePcs =>
          \/ c.op = "create_tuple" /\ c.pc \in CreatePcs
          \/ c.op = "delete_tuple" /\ c.pc \in DeletePcs
    /\ c.pc \notin {"ns_get", "drop_get", "drop_store", "drop_rows", "drop_record",
                    "probe", "mirror", "unmirror"}
    /\ c.op = "create_tuple" /\ c.pc \in CreatePcs => c.dels = {} /\ \E k \in Keys : c.adds = {k}
    /\ c.op = "delete_tuple" /\ c.pc \in DeletePcs =>
          c.adds = {} /\ c.row \in RowIds /\ c.row < nextRow
    /\ c.op = "delete_tuple" /\ c.pc \in DeletePcs \ {"row_get"} =>
          \E k \in Keys : c.dels = {k} /\ row[c.row] \in {k, None}
    /\ c.pc = "write" /\ c.todo # {} => \A k \in c.adds \cup c.dels : c.todo = {c.at[k]}

CallsInv == \A p \in Procs : Phase(call[p])

\* A creation whose row is there and that may still write its tuple.
Creating(c, k) ==
    /\ c.op = "create_tuple" /\ c.adds = {k}
    /\ c.pc = "resolve" \/ (c.pc = "write" /\ c.todo # {})

\* A deletion that has taken the tuple and is about to take its row.
Removing(c, k) ==
    /\ c.op = "delete_tuple" /\ c.dels = {k}
    /\ c.pc = "row_delete" \/ (c.pc = "write" /\ c.todo = {})

Holders(k) == {s \in StoreIds : k \in store[s].tuples}
Creators(k) == {p \in Procs : Creating(call[p], k)}
Spare(k) == {r \in RowIds : /\ row[r] = k
                            /\ \A p \in Procs : Removing(call[p], k) => call[p].row # r}

\* A key has a spare row for each of its tuples and pending creations.
Balanced(k) == Cardinality(Holders(k)) + Cardinality(Creators(k)) <= Cardinality(Spare(k))

CountInv == \A k \in Keys : Balanced(k)

MirrorInv == StoreTypes /\ RowsInOrder /\ CallsInv /\ CountInv

-----------------------------------------------------------------------------
(* Counting.                                                               *)

\* The counted sets are finite.
LEMMA Finite ==
    ASSUME Deployment, NEW k
    PROVE  IsFiniteSet(Holders(k)) /\ IsFiniteSet(Creators(k)) /\ IsFiniteSet(Spare(k))
<1>0. 1 \in Int /\ MaxStores \in Int /\ MaxRows \in Int
    BY DEF Deployment
<1>1. IsFiniteSet(StoreIds) /\ IsFiniteSet(RowIds) /\ IsFiniteSet(Procs)
    BY Zenon, <1>0, FS_Interval DEF Deployment, StoreIds, RowIds
<1>2. Holders(k) \subseteq StoreIds /\ Creators(k) \subseteq Procs /\ Spare(k) \subseteq RowIds
    BY Zenon DEF Holders, Creators, Spare
<1> QED BY Zenon, <1>1, <1>2, FS_Subset

\* No tuple and no pending creation more, no spare row less.
LEMMA Balance ==
    ASSUME NEW H, NEW C, NEW S, NEW H2, NEW C2, NEW S2,
           IsFiniteSet(H), IsFiniteSet(C), IsFiniteSet(S2),
           H2 \subseteq H, C2 \subseteq C, S \subseteq S2,
           Cardinality(H) + Cardinality(C) <= Cardinality(S)
    PROVE  Cardinality(H2) + Cardinality(C2) <= Cardinality(S2)
<1>1. /\ IsFiniteSet(H2) /\ Cardinality(H2) <= Cardinality(H)
      /\ IsFiniteSet(C2) /\ Cardinality(C2) <= Cardinality(C)
      /\ IsFiniteSet(S) /\ Cardinality(S) <= Cardinality(S2)
    BY Zenon, FS_Subset
<1>2. /\ Cardinality(H) \in Nat /\ Cardinality(H2) \in Nat /\ Cardinality(C) \in Nat
      /\ Cardinality(C2) \in Nat /\ Cardinality(S) \in Nat /\ Cardinality(S2) \in Nat
    BY Zenon, <1>1, FS_CardinalityType
<1> QED BY <1>1, <1>2

\* A creation inserts its row: one spare row and one pending creation more.
LEMMA BalanceInsert ==
    ASSUME NEW H, NEW C, NEW S, NEW p, NEW r,
           IsFiniteSet(H), IsFiniteSet(C), IsFiniteSet(S), r \notin S,
           Cardinality(H) + Cardinality(C) <= Cardinality(S)
    PROVE  Cardinality(H) + Cardinality(C \cup {p}) <= Cardinality(S \cup {r})
<1>1. /\ Cardinality(C \cup {p}) \in {Cardinality(C), Cardinality(C) + 1}
      /\ Cardinality(S \cup {r}) = Cardinality(S) + 1
    BY Zenon, FS_AddElement
<1>2. Cardinality(H) \in Nat /\ Cardinality(C) \in Nat /\ Cardinality(S) \in Nat
    BY Zenon, FS_CardinalityType
<1> QED BY <1>1, <1>2

\* A creation writes its tuple: pending no more, one tuple more.
LEMMA BalanceCreate ==
    ASSUME NEW H, NEW C, NEW S, NEW p, NEW s,
           IsFiniteSet(H), IsFiniteSet(C), IsFiniteSet(S), p \in C,
           Cardinality(H) + Cardinality(C) <= Cardinality(S)
    PROVE  Cardinality(H \cup {s}) + Cardinality(C \ {p}) <= Cardinality(S)
<1>1. /\ Cardinality(H \cup {s}) \in {Cardinality(H), Cardinality(H) + 1}
      /\ Cardinality(C \ {p}) = Cardinality(C) - 1
    BY Zenon, FS_AddElement, FS_RemoveElement
<1>2. Cardinality(H) \in Nat /\ Cardinality(C) \in Nat /\ Cardinality(S) \in Nat
    BY Zenon, FS_CardinalityType
<1> QED BY <1>1, <1>2

\* A deletion takes a tuple and dooms a row.
LEMMA BalanceDelete ==
    ASSUME NEW H, NEW C, NEW S, NEW r, NEW s,
           IsFiniteSet(H), IsFiniteSet(C), IsFiniteSet(S), s \in H,
           Cardinality(H) + Cardinality(C) <= Cardinality(S)
    PROVE  Cardinality(H \ {s}) + Cardinality(C) <= Cardinality(S \ {r})
<1>1. /\ Cardinality(H \ {s}) = Cardinality(H) - 1
      /\ Cardinality(S \ {r}) \in {Cardinality(S), Cardinality(S) - 1}
    BY Zenon, FS_RemoveElement
<1>2. Cardinality(H) \in Nat /\ Cardinality(C) \in Nat /\ Cardinality(S) \in Nat
    BY Zenon, FS_CardinalityType
<1> QED BY <1>1, <1>2

-----------------------------------------------------------------------------
(* Steps of one call.                                                      *)

OthersRest(p) == \A q \in Procs \ {p} : call'[q] = call[q]

\* A call that neither creates nor deletes a tuple.
OutsideCall(c) ==
    /\ c.pc \in {"idle", "ok", "err"} \cup EnsurePcs
    /\ c.pc \in EnsurePcs => c.ns \in Namespaces

\* The other calls' phases: rows are only added at nextRow or taken.
LEMMA PhasesKept ==
    ASSUME MirrorInv, NEW p \in Procs, OthersRest(p), Phase(call[p])',
           nextRow' \in Nat, nextRow' >= nextRow,
           \A r \in RowIds : r < nextRow => row'[r] \in {row[r], None}
    PROVE  CallsInv'
<1> SUFFICES ASSUME NEW q \in Procs PROVE Phase(call[q])'
    BY Zenon DEF CallsInv
<1>1. CASE q = p
    BY Zenon, <1>1
<1>2. CASE q # p
    <2>1. Phase(call[q]) /\ call'[q] = call[q]
        BY Zenon, <1>2 DEF MirrorInv, CallsInv, OthersRest
    <2>2. call[q] \in CallType /\ nextRow \in Nat
        BY DEF MirrorInv, StoreTypes
    <2>3. call[q].op = "delete_tuple" /\ call[q].pc \in DeletePcs => call[q].row < nextRow'
        BY <2>1, <2>2 DEF Phase, RowIds
    <2>4. ASSUME call[q].op = "delete_tuple", call[q].pc \in DeletePcs \ {"row_get"}
          PROVE  \E k \in Keys : call[q].dels = {k} /\ row'[call[q].row] \in {k, None}
        <3>1. PICK k \in Keys : call[q].dels = {k} /\ row[call[q].row] \in {k, None}
            BY Zenon, <2>1, <2>4 DEF Phase
        <3>2. row'[call[q].row] \in {row[call[q].row], None}
            BY Zenon, <2>1, <2>4 DEF Phase
        <3> QED BY Zenon, <3>1, <3>2
    <2> QED BY Zenon, <2>1, <2>3, <2>4 DEF Phase
<1> QED BY Zenon, <1>1, <1>2

\* The finite sets after a step.
LEMMA FinitePrimed ==
    ASSUME Deployment, NEW k
    PROVE  IsFiniteSet(Spare(k)')
<1>1. 1 \in Int /\ MaxRows \in Int
    BY DEF Deployment
<1>2. IsFiniteSet(RowIds)
    BY Zenon, <1>1, FS_Interval DEF RowIds
<1>3. Spare(k)' \subseteq RowIds
    BY Zenon DEF Spare
<1> QED BY Zenon, <1>2, <1>3, FS_Subset

\* The calls pending after a step of p.
LEMMA CreatorsKept ==
    ASSUME NEW p \in Procs, OthersRest(p), NEW k
    PROVE  /\ Creators(k)' \subseteq Creators(k) \cup {p}
           /\ ~Creating(call[p], k)' => Creators(k)' \subseteq Creators(k) \ {p}
<1> SUFFICES ASSUME NEW q \in Procs, q # p, Creating(call[q], k)' PROVE Creating(call[q], k)
    BY Zenon DEF Creators
<1> QED BY Zenon DEF OthersRest, Creating

\* The rows of k that stay spare: those that stay and are not doomed by p.
LEMMA SpareKept ==
    ASSUME NEW p \in Procs, OthersRest(p), NEW k, NEW r \in Spare(k), row'[r] = k,
           Removing(call[p], k)' => call'[p].row # r
    PROVE  r \in Spare(k)'
<1>1. r \in RowIds /\ \A q \in Procs : Removing(call[q], k) => call[q].row # r
    BY Zenon DEF Spare
<1>2. ASSUME NEW q \in Procs, q # p, Removing(call[q], k)' PROVE call'[q].row # r
    <2>1. call'[q] = call[q]
        BY Zenon, <1>2 DEF OthersRest
    <2>2. Removing(call[q], k)
        BY Zenon, <1>2, <2>1 DEF Removing
    <2> QED BY Zenon, <1>1, <2>1, <2>2
<1>3. \A q \in Procs : Removing(call[q], k)' => call'[q].row # r
    BY Zenon, <1>2
<1> QED BY Zenon, <1>1, <1>3 DEF Spare

\* A step that adds no tuple and no pending creation of a key, dooms no row of
\* it, and takes at most a row that it had doomed.
LEMMA Monotone ==
    ASSUME Deployment, MirrorInv, NEW p \in Procs, OthersRest(p), NEW k \in Keys,
           \A s \in StoreIds : k \in store'[s].tuples => k \in store[s].tuples,
           Creating(call[p], k)' => Creating(call[p], k),
           Removing(call[p], k)' => Removing(call[p], k) /\ call'[p].row = call[p].row,
           \A r \in RowIds : row[r] = k =>
               row'[r] = k \/ (Removing(call[p], k) /\ call[p].row = r)
    PROVE  Balanced(k)'
<1>1. Holders(k)' \subseteq Holders(k)
    BY Zenon DEF Holders
<1>2. Creators(k)' \subseteq Creators(k)
    <2>1. CASE Creating(call[p], k)'
        <3>1. p \in Creators(k)
            BY Zenon, <2>1 DEF Creators
        <3> QED BY Zenon, <3>1, CreatorsKept
    <2>2. CASE ~Creating(call[p], k)'
        BY Zenon, <2>2, CreatorsKept
    <2> QED BY Zenon, <2>1, <2>2
<1>3. ASSUME NEW r \in Spare(k) PROVE r \in Spare(k)'
    <2>1. r \in RowIds /\ row[r] = k /\ (Removing(call[p], k) => call[p].row # r)
        BY Zenon, <1>3 DEF Spare
    <2>2. row'[r] = k /\ (Removing(call[p], k)' => call'[p].row # r)
        BY Zenon, <2>1
    <2> QED BY Zenon, <2>2, SpareKept
<1>4. Spare(k) \subseteq Spare(k)'
    BY Zenon, <1>3
<1>5. IsFiniteSet(Holders(k)) /\ IsFiniteSet(Creators(k)) /\ IsFiniteSet(Spare(k)')
    BY Zenon, Finite, FinitePrimed
<1>6. Cardinality(Holders(k)) + Cardinality(Creators(k)) <= Cardinality(Spare(k))
    BY Zenon DEF MirrorInv, CountInv, Balanced
<1>7. Cardinality(Holders(k)') + Cardinality(Creators(k)') <= Cardinality(Spare(k)')
    BY Zenon, <1>1, <1>2, <1>4, <1>5, <1>6, Balance
<1> QED BY Zenon, <1>7 DEF Balanced

\* A call that is now outside the work on a tuple, on the same rows.
LEMMA Outside ==
    ASSUME Deployment, MirrorInv, NEW p \in Procs, OthersRest(p), OutsideCall(call[p])',
           \A s \in StoreIds : store'[s].tuples \subseteq store[s].tuples,
           UNCHANGED mirrorVars
    PROVE  RowsInOrder' /\ CallsInv' /\ CountInv'
<1>1. Phase(call[p])'
    BY Zenon DEF Phase, OutsideCall, EnsurePcs, CreatePcs, DeletePcs
<1>2. /\ \A k \in Keys : ~Creating(call[p], k)'
      /\ \A k \in Keys : ~Removing(call[p], k)'
    BY Zenon DEF Creating, Removing, OutsideCall, EnsurePcs
<1>3. row' = row /\ nextRow' = nextRow /\ nextRow \in Nat
    BY DEF mirrorVars, MirrorInv, StoreTypes
<1>4. RowsInOrder'
    BY Zenon, <1>3 DEF MirrorInv, RowsInOrder
<1>5. CallsInv'
    BY <1>1, <1>3, PhasesKept
<1>6. ASSUME NEW k \in Keys PROVE Balanced(k)'
    BY Zenon, <1>2, <1>3, Monotone
<1> QED BY Zenon, <1>4, <1>5, <1>6 DEF CountInv

\* Store ids and their bounds.
LEMMA Bounds == ASSUME Deployment PROVE 0 \in 0 .. MaxStores /\ StoreIds \subseteq 0 .. MaxStores
BY DEF Deployment, StoreIds

\* The answers of the calls, as records.
LEMMA CallRecords ==
    ASSUME Deployment
    PROVE  /\ NoCall \in CallType
           /\ \A c \in CallType : [NoCall EXCEPT !.op = c.op, !.pc = "err"] \in CallType
<1>1. [k \in Keys |-> 0] \in [Keys -> 0 .. MaxStores]
    BY DEF Deployment
<1>2. NoCall \in CallType
    BY <1>1 DEF Deployment, NoCall, CallType, Pcs
<1>3. ASSUME NEW c \in CallType PROVE [NoCall EXCEPT !.op = c.op, !.pc = "err"] \in CallType
    <2>1. PICK n \in CallType : n = NoCall
        BY Zenon, <1>2
    <2>2. "err" \in Pcs
        BY Zenon DEF Pcs
    <2>3. [n EXCEPT !.op = c.op, !.pc = "err"] \in CallType
        BY Zenon, <2>2 DEF CallType
    <2> QED BY Zenon, <2>1, <2>3
<1> QED BY Zenon, <1>2, <1>3

\* A call moves on, the others rest.
LEMMA CallMoved ==
    ASSUME call \in [Procs -> CallType], NEW p \in Procs, NEW c \in CallType,
           call' = [call EXCEPT ![p] = c]
    PROVE  call' \in [Procs -> CallType] /\ OthersRest(p) /\ call'[p] = c
BY Zenon DEF OthersRest

\* The same call on the same keys and row, at the same place or at another.
Same(c, d) ==
    /\ d.op = c.op /\ d.ns = c.ns /\ d.adds = c.adds /\ d.dels = c.dels /\ d.row = c.row

\* One field of a call.
LEMMA PcField ==
    ASSUME NEW c \in CallType, NEW v \in Pcs
    PROVE  \E d \in CallType : d = [c EXCEPT !.pc = v] /\ Same(c, d) /\ d.pc = v
<1>1. PICK d : d = [c EXCEPT !.pc = v]
    BY Zenon
<1>2. d \in CallType /\ Same(c, d) /\ d.pc = v
    BY Zenon, <1>1 DEF CallType, Same
<1> QED BY Zenon, <1>1, <1>2

LEMMA StoreField ==
    ASSUME NEW c \in CallType, NEW v \in 0 .. MaxStores
    PROVE  \E d \in CallType : d = [c EXCEPT !.store = v] /\ Same(c, d) /\ d.pc = c.pc
<1>1. PICK d : d = [c EXCEPT !.store = v]
    BY Zenon
<1>2. d \in CallType /\ Same(c, d) /\ d.pc = c.pc
    BY Zenon, <1>1 DEF CallType, Same
<1> QED BY Zenon, <1>1, <1>2

LEMMA VersionField ==
    ASSUME NEW c \in CallType, NEW v \in Nat
    PROVE  \E d \in CallType : d = [c EXCEPT !.version = v] /\ Same(c, d) /\ d.pc = c.pc
<1>1. PICK d : d = [c EXCEPT !.version = v]
    BY Zenon
<1>2. d \in CallType /\ Same(c, d) /\ d.pc = c.pc
    BY Zenon, <1>1 DEF CallType, Same
<1> QED BY Zenon, <1>1, <1>2

LEMMA MergeField ==
    ASSUME NEW c \in CallType, NEW v \in BOOLEAN
    PROVE  \E d \in CallType : d = [c EXCEPT !.merge = v] /\ Same(c, d) /\ d.pc = c.pc
<1>1. PICK d : d = [c EXCEPT !.merge = v]
    BY Zenon
<1>2. d \in CallType /\ Same(c, d) /\ d.pc = c.pc
    BY Zenon, <1>1 DEF CallType, Same
<1> QED BY Zenon, <1>1, <1>2

LEMMA RefusedField ==
    ASSUME NEW c \in CallType, NEW v \in BOOLEAN
    PROVE  \E d \in CallType : d = [c EXCEPT !.refused = v] /\ Same(c, d) /\ d.pc = c.pc
<1>1. PICK d : d = [c EXCEPT !.refused = v]
    BY Zenon
<1>2. d \in CallType /\ Same(c, d) /\ d.pc = c.pc
    BY Zenon, <1>1 DEF CallType, Same
<1> QED BY Zenon, <1>1, <1>2

LEMMA AtField ==
    ASSUME NEW c \in CallType, NEW v \in [Keys -> 0 .. MaxStores]
    PROVE  \E d \in CallType : /\ d = [c EXCEPT !.at = v]
                               /\ Same(c, d) /\ d.pc = c.pc /\ d.at = v
<1>1. PICK d : d = [c EXCEPT !.at = v]
    BY Zenon
<1>2. d \in CallType /\ Same(c, d) /\ d.pc = c.pc /\ d.at = v
    BY Zenon, <1>1 DEF CallType, Same
<1> QED BY Zenon, <1>1, <1>2

LEMMA TodoField ==
    ASSUME NEW c \in CallType, NEW v \in SUBSET StoreIds
    PROVE  \E d \in CallType : /\ d = [c EXCEPT !.todo = v]
                               /\ Same(c, d) /\ d.pc = c.pc /\ d.at = c.at /\ d.todo = v
<1>1. PICK d : d = [c EXCEPT !.todo = v]
    BY Zenon
<1>2. d \in CallType /\ Same(c, d) /\ d.pc = c.pc /\ d.at = c.at /\ d.todo = v
    BY Zenon, <1>1 DEF CallType, Same
<1> QED BY Zenon, <1>1, <1>2

LEMMA DelsField ==
    ASSUME NEW c \in CallType, NEW v \in SUBSET Keys
    PROVE  \E d \in CallType : /\ d = [c EXCEPT !.dels = v]
                               /\ d.pc = c.pc /\ d.op = c.op /\ d.adds = c.adds
                               /\ d.row = c.row /\ d.dels = v
<1>1. PICK d : d = [c EXCEPT !.dels = v]
    BY Zenon
<1>2. d \in CallType /\ d.pc = c.pc /\ d.op = c.op /\ d.adds = c.adds /\ d.row = c.row /\ d.dels = v
    BY Zenon, <1>1 DEF CallType
<1> QED BY Zenon, <1>1, <1>2

\* A call that only goes on to another place.
LEMMA CallGoes ==
    ASSUME call \in [Procs -> CallType], NEW p \in Procs, NEW pc \in Pcs,
           call' = [call EXCEPT ![p].pc = pc]
    PROVE  /\ call' \in [Procs -> CallType] /\ OthersRest(p)
           /\ Same(call[p], call'[p]) /\ call'[p].pc = pc
<1>1. PICK c \in CallType : c = [call[p] EXCEPT !.pc = pc] /\ Same(call[p], c) /\ c.pc = pc
    BY Zenon, PcField
<1>2. call' = [call EXCEPT ![p] = c]
    BY Zenon, <1>1
<1> QED BY Zenon, <1>1, <1>2, CallMoved

\* An ensure that goes on with a store, a model version or its merge pending.
LEMMA EnsureGoes ==
    ASSUME call \in [Procs -> CallType], NEW p \in Procs, NEW pc \in Pcs,
           NEW x \in 0 .. MaxStores, NEW v \in Nat, NEW b \in BOOLEAN,
           \/ call' = [call EXCEPT ![p].pc = pc, ![p].store = x]
           \/ call' = [call EXCEPT ![p].pc = pc, ![p].version = v]
           \/ call' = [call EXCEPT ![p].merge = b, ![p].pc = pc]
           \/ call' = [call EXCEPT ![p].pc = pc, ![p].refused = b]
    PROVE  /\ call' \in [Procs -> CallType] /\ OthersRest(p)
           /\ Same(call[p], call'[p]) /\ call'[p].pc = pc
<1>1. PICK c \in CallType : c = [call[p] EXCEPT !.pc = pc] /\ Same(call[p], c) /\ c.pc = pc
    BY Zenon, PcField
<1>2. CASE call' = [call EXCEPT ![p].pc = pc, ![p].store = x]
    <2>1. PICK d \in CallType : d = [c EXCEPT !.store = x] /\ Same(c, d) /\ d.pc = c.pc
        BY Zenon, StoreField
    <2>2. call' = [call EXCEPT ![p] = d]
        BY Zenon, <1>1, <1>2, <2>1
    <2> QED BY Zenon, <1>1, <2>1, <2>2, CallMoved DEF Same
<1>3. CASE call' = [call EXCEPT ![p].pc = pc, ![p].version = v]
    <2>1. PICK d \in CallType : d = [c EXCEPT !.version = v] /\ Same(c, d) /\ d.pc = c.pc
        BY Zenon, VersionField
    <2>2. call' = [call EXCEPT ![p] = d]
        BY Zenon, <1>1, <1>3, <2>1
    <2> QED BY Zenon, <1>1, <2>1, <2>2, CallMoved DEF Same
<1>4. CASE call' = [call EXCEPT ![p].pc = pc, ![p].refused = b]
    <2>1. PICK d \in CallType : d = [c EXCEPT !.refused = b] /\ Same(c, d) /\ d.pc = c.pc
        BY Zenon, RefusedField
    <2>2. call' = [call EXCEPT ![p] = d]
        BY Zenon, <1>1, <1>4, <2>1
    <2> QED BY Zenon, <1>1, <2>1, <2>2, CallMoved DEF Same
<1>5. CASE call' = [call EXCEPT ![p].merge = b, ![p].pc = pc]
    <2>1. PICK d \in CallType : d = [call[p] EXCEPT !.merge = b] /\ Same(call[p], d)
        BY Zenon, MergeField
    <2>2. PICK e \in CallType : e = [d EXCEPT !.pc = pc] /\ Same(d, e) /\ e.pc = pc
        BY Zenon, PcField
    <2>3. call' = [call EXCEPT ![p] = e]
        BY Zenon, <1>5, <2>1, <2>2
    <2> QED BY Zenon, <2>1, <2>2, <2>3, CallMoved DEF Same
<1> QED BY Zenon, <1>2, <1>3, <1>4, <1>5

\* A failed request ends its call.
LEMMA FailStep ==
    ASSUME Deployment, MirrorInv, NEW p \in Procs, Fail(p)
    PROVE  call' \in [Procs -> CallType] /\ OthersRest(p) /\ call'[p].pc = "err"
<1> DEFINE c == [NoCall EXCEPT !.op = call[p].op, !.pc = "err"]
<1>1. call \in [Procs -> CallType] /\ c \in CallType
    BY Zenon, CallRecords DEF MirrorInv, StoreTypes
<1>2. call' = [call EXCEPT ![p] = c] /\ c.pc = "err"
    BY Zenon DEF Fail, NoCall
<1> HIDE DEF c
<1> QED BY Zenon, <1>1, <1>2 DEF OthersRest

-----------------------------------------------------------------------------
(* Ensures of namespaces, beginnings and ends of calls.                    *)

\* A step that changes nothing but its call, which is outside afterwards.
LEMMA CallOnlyStep ==
    ASSUME Deployment, MirrorInv, NEW p \in Procs, OthersRest(p), CallOnly,
           call' \in [Procs -> CallType], OutsideCall(call[p])'
    PROVE  MirrorInv'
<1>1. /\ UNCHANGED mirrorVars
      /\ \A s \in StoreIds : store'[s].tuples \subseteq store[s].tuples
    BY Zenon DEF CallOnly, backendVars
<1>2. StoreTypes'
    BY Zenon DEF CallOnly, backendVars, registryVars, mirrorVars, MirrorInv, StoreTypes
<1> QED BY Zenon, <1>1, <1>2, Outside DEF MirrorInv

\* A request that fails, and the return of a call.
LEMMA EndStep ==
    ASSUME Deployment, MirrorInv, NEW p \in Procs, RequestFails(p) \/ Return(p)
    PROVE  MirrorInv'
<1>1. CASE RequestFails(p)
    <2>1. call' \in [Procs -> CallType] /\ OthersRest(p) /\ call'[p].pc = "err" /\ CallOnly
        BY Zenon, <1>1, FailStep DEF RequestFails
    <2> QED BY Zenon, <2>1, CallOnlyStep DEF OutsideCall, EnsurePcs
<1>2. CASE Return(p)
    <2>1. call' = [call EXCEPT ![p] = NoCall] /\ CallOnly /\ NoCall.pc = "idle"
        BY Zenon, <1>2 DEF Return, NoCall
    <2>2. call' \in [Procs -> CallType] /\ OthersRest(p) /\ call'[p].pc = "idle"
        BY Zenon, <2>1, CallRecords DEF MirrorInv, StoreTypes, OthersRest
    <2> QED BY Zenon, <2>1, <2>2, CallOnlyStep DEF OutsideCall, EnsurePcs
<1> QED BY Zenon, <1>1, <1>2

\* The beginning of an ensure.
LEMMA BeginEnsureStep ==
    ASSUME Deployment, MirrorInv, NEW p \in Procs,
           NEW op \in {"ensure", "ensure_namespace"}, NEW n \in Namespaces, NEW m \in Models,
           BeginEnsure(p, op, n, m)
    PROVE  MirrorInv'
<1> DEFINE c == [NoCall EXCEPT !.op = op, !.ns = n, !.model = m,
                    !.pc = IF op = "ensure" THEN "get" ELSE "model_get"]
<1>1. c \in CallType /\ OutsideCall(c)
    <2>1. PICK b \in CallType : b = NoCall
        BY Zenon, CallRecords
    <2>2. PICK pc : pc = IF op = "ensure" THEN "get" ELSE "model_get"
        BY Zenon
    <2>3. pc \in Pcs /\ pc \in EnsurePcs
        BY Zenon, <2>2 DEF Pcs, EnsurePcs
    <2>4. PICK d : d = [b EXCEPT !.op = op, !.ns = n, !.model = m, !.pc = pc]
        BY Zenon
    <2>5. d \in CallType /\ d.pc = pc /\ d.ns = n
        BY Zenon, <2>3, <2>4 DEF CallType
    <2> QED BY Zenon, <2>1, <2>2, <2>3, <2>4, <2>5 DEF OutsideCall
<1>2. call' = [call EXCEPT ![p] = c] /\ CallOnly
    BY Zenon DEF BeginEnsure, Begin
<1> HIDE DEF c
<1>3. call' \in [Procs -> CallType] /\ OthersRest(p) /\ OutsideCall(call[p])'
    BY Zenon, <1>1, <1>2 DEF MirrorInv, StoreTypes, OthersRest, OutsideCall
<1> QED BY Zenon, <1>2, <1>3, CallOnlyStep

\* Reads of ensure_permission_namespace and ensure_model.
LEMMA EnsureReadStep ==
    ASSUME Deployment, MirrorInv, NEW p \in Procs,
           EnsureFastPath(p) \/ EnsureModelGet(p) \/ FindStore(p) \/ UpsertConflicts(p)
    PROVE  MirrorInv'
<1>0. call \in [Procs -> CallType] /\ record \in [Namespaces -> RecordType] /\ CallOnly
    BY Zenon DEF MirrorInv, StoreTypes, EnsureFastPath, EnsureModelGet, FindStore, UpsertConflicts
<1>1. call[p].ns \in Namespaces
    BY Zenon DEF MirrorInv, CallsInv, Phase, EnsurePcs, EnsureFastPath, EnsureModelGet, FindStore,
           UpsertConflicts
<1>2. CASE Fail(p)
    BY Zenon, <1>0, <1>2, FailStep, CallOnlyStep DEF OutsideCall, EnsurePcs
<1>3. ASSUME NEW pc \in {"ok"} \cup EnsurePcs, NEW x \in 0 .. MaxStores, NEW b \in BOOLEAN,
             \/ call' = [call EXCEPT ![p].pc = pc]
             \/ call' = [call EXCEPT ![p].merge = b, ![p].pc = pc]
             \/ call' = [call EXCEPT ![p].pc = pc, ![p].store = x]
      PROVE  MirrorInv'
    <2>1. pc \in Pcs
        BY Zenon DEF EnsurePcs, Pcs
    <2>2. /\ call' \in [Procs -> CallType] /\ OthersRest(p)
          /\ Same(call[p], call'[p]) /\ call'[p].pc = pc
        BY Zenon, <1>0, <1>3, <2>1, CallGoes, EnsureGoes
    <2>3. call'[p].ns = call[p].ns
        BY Zenon, <2>2 DEF Same
    <2>4. OutsideCall(call[p])'
        BY Zenon, <1>1, <2>2, <2>3 DEF OutsideCall
    <2> QED BY Zenon, <1>0, <2>2, <2>4, CallOnlyStep
<1>4. CASE EnsureFastPath(p)
    <2>1. \E pc \in {"ok"} \cup EnsurePcs : call' = [call EXCEPT ![p].pc = pc]
        BY Zenon, <1>4 DEF EnsureFastPath, Goto, EnsurePcs
    <2> QED BY Zenon, <1>3, <2>1, Bounds
<1>5. CASE UpsertConflicts(p)
    <2>1. Fail(p) \/ \E pc \in {"ok"} \cup EnsurePcs : call' = [call EXCEPT ![p].pc = pc]
        BY Zenon, <1>5 DEF UpsertConflicts, Goto, EnsurePcs
    <2> QED BY Zenon, <1>2, <1>3, <2>1, Bounds
<1>6. CASE FindStore(p)
    <2>1. \/ call' = [call EXCEPT ![p].pc = "create_store"]
          \/ \E x \in 0 .. MaxStores : call' = [call EXCEPT ![p].pc = "publish", ![p].store = x]
        BY Zenon, <1>6, Bounds DEF FindStore, Goto
    <2> QED BY Zenon, <1>3, <2>1, Bounds DEF EnsurePcs
<1>7. CASE EnsureModelGet(p)
    <2> DEFINE x == record[call[p].ns].store
    <2>1. x \in 0 .. MaxStores
        BY Zenon, <1>0, <1>1 DEF RecordType
    <2>2. \/ call' = [call EXCEPT ![p].pc = "find"]
          \/ \E pc \in {"conflicts", "ok"} : call' = [call EXCEPT ![p].merge = TRUE, ![p].pc = pc]
          \/ call' = [call EXCEPT ![p].pc = "publish", ![p].store = x]
        BY Zenon, <1>7 DEF EnsureModelGet, Goto
    <2> QED BY Zenon, <1>3, <2>1, <2>2 DEF EnsurePcs
<1> QED BY Zenon, <1>4, <1>5, <1>6, <1>7

\* create_store: an empty store.
LEMMA CreateStoreStep ==
    ASSUME Deployment, MirrorInv, NEW p \in Procs, CreateStore(p)
    PROVE  MirrorInv'
<1>0. /\ call \in [Procs -> CallType] /\ nextStore \in StoreIds
      /\ store \in [StoreIds -> [ns: Namespaces \cup {None}, tuples: SUBSET Keys]]
    BY DEF Deployment, MirrorInv, StoreTypes, CreateStore, StoreIds
<1>1. call[p].ns \in Namespaces
    BY Zenon DEF MirrorInv, CallsInv, Phase, EnsurePcs, CreateStore
<1>2. call' \in [Procs -> CallType] /\ OthersRest(p) /\ OutsideCall(call[p])'
    <2>1. CASE Fail(p)
        BY Zenon, <2>1, FailStep DEF OutsideCall, EnsurePcs
    <2>2. CASE call' = [call EXCEPT ![p].pc = "publish", ![p].store = nextStore]
        <3>1. nextStore \in 0 .. MaxStores
            BY Zenon, <1>0, Bounds
        <3>2. "publish" \in Pcs /\ 0 \in Nat /\ TRUE \in BOOLEAN
            BY Zenon DEF Pcs
        <3>3. /\ call' \in [Procs -> CallType] /\ OthersRest(p)
              /\ Same(call[p], call'[p]) /\ call'[p].pc = "publish"
            BY Zenon, <1>0, <2>2, <3>1, <3>2, EnsureGoes
        <3> QED BY Zenon, <1>1, <3>3 DEF OutsideCall, EnsurePcs, Same
    <2> QED BY Zenon, <2>1, <2>2 DEF CreateStore
<1>3. \A s \in StoreIds : store'[s].tuples \subseteq store[s].tuples
    BY Zenon, <1>0 DEF CreateStore
<1>4. StoreTypes'
    <2>1. [ns |-> call[p].ns, tuples |-> {}] \in [ns: Namespaces \cup {None}, tuples: SUBSET Keys]
        BY Zenon, <1>1
    <2>2. store' \in [StoreIds -> [ns: Namespaces \cup {None}, tuples: SUBSET Keys]]
        BY Zenon, <1>0, <2>1 DEF CreateStore
    <2>3. nextStore' \in 1 .. MaxStores + 1
        BY <1>0 DEF CreateStore, StoreIds, Deployment
    <2> QED BY Zenon, <1>2, <2>2, <2>3
               DEF CreateStore, registryVars, mirrorVars, MirrorInv, StoreTypes
<1> QED BY Zenon, <1>2, <1>3, <1>4, Outside DEF MirrorInv, CreateStore

\* write_model
LEMMA PublishStep ==
    ASSUME Deployment, MirrorInv, NEW p \in Procs, PublishModel(p)
    PROVE  MirrorInv'
<1>0. /\ call \in [Procs -> CallType]
      /\ published \in Seq([store: 0 .. MaxStores, model: Models \cup {None}])
    BY Zenon DEF MirrorInv, StoreTypes
<1>1. call[p].ns \in Namespaces
    BY Zenon DEF MirrorInv, CallsInv, Phase, EnsurePcs, PublishModel
<1>2. CASE Fail(p) /\ UNCHANGED published
    <2>1. CallOnly
        BY Zenon, <1>2 DEF PublishModel, CallOnly, backendVars
    <2> QED BY Zenon, <1>2, <2>1, FailStep, CallOnlyStep DEF OutsideCall, EnsurePcs
<1>3. CASE /\ published' = Append(published, [store |-> call[p].store, model |-> call[p].model])
           /\ call' = [call EXCEPT ![p].pc = "conflicts", ![p].version = Len(published) + 1]
    <2>1. Len(published) + 1 \in Nat
        BY <1>0
    <2>2. "conflicts" \in Pcs /\ 0 \in 0 .. MaxStores /\ TRUE \in BOOLEAN
        BY Zenon, Bounds DEF Pcs
    <2>3. /\ call' \in [Procs -> CallType] /\ OthersRest(p)
          /\ Same(call[p], call'[p]) /\ call'[p].pc = "conflicts"
        BY Zenon, <1>0, <1>3, <2>1, <2>2, EnsureGoes
    <2>4. OutsideCall(call[p])'
        BY Zenon, <1>1, <2>3 DEF OutsideCall, EnsurePcs, Same
    <2>5. [store |-> call[p].store, model |-> call[p].model] \in
              [store: 0 .. MaxStores, model: Models \cup {None}]
        BY Zenon, <1>0 DEF CallType
    <2>6. published' \in Seq([store: 0 .. MaxStores, model: Models \cup {None}])
        BY <1>0, <1>3, <2>5
    <2>7. StoreTypes'
        BY Zenon, <2>3, <2>6 DEF PublishModel, registryVars, mirrorVars, MirrorInv, StoreTypes
    <2>8. \A s \in StoreIds : store'[s].tuples \subseteq store[s].tuples
        BY Zenon DEF PublishModel
    <2> QED BY Zenon, <2>3, <2>4, <2>7, <2>8, Outside DEF MirrorInv, PublishModel
<1> QED BY Zenon, <1>2, <1>3 DEF PublishModel

\* The upsert of a namespace's record and type index.
LEMMA CommitStep ==
    ASSUME Deployment, MirrorInv, NEW p \in Procs, UpsertCommit(p)
    PROVE  MirrorInv'
<1> DEFINE c == call[p]
<1> DEFINE old == record[c.ns]
<1> DEFINE new == [model |-> c.model,
                   store |-> IF c.merge THEN old.store ELSE c.store,
                   version |-> IF c.merge THEN old.version ELSE c.version]
<1>0. /\ call \in [Procs -> CallType] /\ record \in [Namespaces -> RecordType]
      /\ owner \in [Types -> Namespaces \cup {None}]
    BY Zenon DEF MirrorInv, StoreTypes
<1>1. c.ns \in Namespaces
    BY Zenon DEF MirrorInv, CallsInv, Phase, EnsurePcs, UpsertCommit
<1>2. PICK pc \in {"ok", "conflicts"} : call' = [call EXCEPT ![p].merge = TRUE, ![p].pc = pc]
    BY Zenon DEF UpsertCommit
<1>3. pc \in Pcs /\ 0 \in 0 .. MaxStores /\ 0 \in Nat /\ TRUE \in BOOLEAN
    <2>1. 0 \in Nat
        BY Zenon
    <2> QED BY Zenon, <2>1, Bounds DEF Pcs
<1>4. /\ call' \in [Procs -> CallType] /\ OthersRest(p)
      /\ Same(call[p], call'[p]) /\ call'[p].pc = pc
    BY Zenon, <1>0, <1>2, <1>3, EnsureGoes
<1>5. OutsideCall(call[p])'
    BY Zenon, <1>1, <1>4 DEF OutsideCall, EnsurePcs, Same
<1>6. new \in RecordType
    BY Zenon, <1>0, <1>1 DEF CallType, RecordType
<1>7. record' \in [Namespaces -> RecordType]
    <2>1. record' = [record EXCEPT ![c.ns] = new]
        BY Zenon DEF UpsertCommit
    <2> HIDE DEF new
    <2> QED BY Zenon, <1>0, <1>6, <2>1
<1>8. owner' \in [Types -> Namespaces \cup {None}]
    BY Zenon, <1>0, <1>1 DEF UpsertCommit
<1>9. StoreTypes'
    BY Zenon, <1>4, <1>7, <1>8 DEF UpsertCommit, backendVars, mirrorVars, MirrorInv, StoreTypes
<1>10. UNCHANGED mirrorVars /\ \A s \in StoreIds : store'[s].tuples \subseteq store[s].tuples
    BY Zenon DEF UpsertCommit, backendVars
<1> QED BY Zenon, <1>4, <1>5, <1>9, <1>10, Outside DEF MirrorInv

-----------------------------------------------------------------------------
(* create_relation_tuple and delete_relation_tuple.                        *)

\* A step that changes nothing but a call on a tuple, which creates or removes
\* only what it did before.
LEMMA CallMoves ==
    ASSUME Deployment, MirrorInv, NEW p \in Procs, OthersRest(p), CallOnly,
           call' \in [Procs -> CallType], Phase(call[p])',
           \A k \in Keys : Creating(call[p], k)' => Creating(call[p], k),
           \A k \in Keys : Removing(call[p], k)' =>
               Removing(call[p], k) /\ call'[p].row = call[p].row
    PROVE  MirrorInv'
<1>1. store' = store /\ row' = row /\ nextRow' = nextRow /\ nextRow \in Nat
    BY DEF CallOnly, backendVars, mirrorVars, MirrorInv, StoreTypes
<1>2. StoreTypes'
    BY Zenon DEF CallOnly, backendVars, registryVars, mirrorVars, MirrorInv, StoreTypes
<1>3. RowsInOrder'
    BY Zenon, <1>1 DEF MirrorInv, RowsInOrder
<1>4. CallsInv'
    BY <1>1, PhasesKept
<1>5. ASSUME NEW k \in Keys PROVE Balanced(k)'
    BY Zenon, <1>1, Monotone
<1> QED BY Zenon, <1>2, <1>3, <1>4, <1>5 DEF MirrorInv, CountInv

\* The beginning of a creation or of a deletion.
LEMMA BeginTupleStep ==
    ASSUME Deployment, MirrorInv, NEW p \in Procs,
           \/ \E k \in Keys : BeginCreateTuple(p, k)
           \/ \E r \in 1 .. nextRow - 1 : BeginDeleteTuple(p, r)
    PROVE  MirrorInv'
<1>1. call \in [Procs -> CallType] /\ nextRow \in 1 .. MaxRows + 1 /\ CallOnly
    BY Zenon DEF MirrorInv, StoreTypes, BeginCreateTuple, BeginDeleteTuple
<1>2. nextRow' = nextRow /\ row' = row
    BY Zenon, <1>1 DEF CallOnly, mirrorVars
<1>3. ASSUME NEW k \in Keys, BeginCreateTuple(p, k) PROVE MirrorInv'
    <2> DEFINE c == [NoCall EXCEPT !.op = "create_tuple", !.adds = {k}, !.pc = "insert"]
    <2>1. c \in CallType
        <3>1. PICK b \in CallType : b = NoCall
            BY Zenon, CallRecords
        <3>2. "insert" \in Pcs /\ {k} \in SUBSET Keys
            BY Zenon DEF Pcs
        <3>3. [b EXCEPT !.op = "create_tuple", !.adds = {k}, !.pc = "insert"] \in CallType
            BY Zenon, <3>2 DEF CallType
        <3> QED BY Zenon, <3>1, <3>3
    <2>2. c.op = "create_tuple" /\ c.pc = "insert" /\ c.adds = {k} /\ c.dels = {}
        BY Zenon DEF NoCall
    <2>3. call' = [call EXCEPT ![p] = c]
        BY Zenon, <1>3 DEF BeginCreateTuple, Begin
    <2> HIDE DEF c
    <2>4. call' \in [Procs -> CallType] /\ OthersRest(p) /\ call'[p] = c
        BY Zenon, <1>1, <2>1, <2>3 DEF OthersRest
    <2>5. Phase(call[p])'
        BY Zenon, <2>2, <2>4 DEF Phase, CreatePcs, DeletePcs, EnsurePcs
    <2>6. \A x \in Keys : ~Creating(call[p], x)' /\ ~Removing(call[p], x)'
        BY Zenon, <2>2, <2>4 DEF Creating, Removing
    <2> QED BY Zenon, <1>1, <2>4, <2>5, <2>6, CallMoves
<1>4. ASSUME NEW r \in 1 .. nextRow - 1, BeginDeleteTuple(p, r) PROVE MirrorInv'
    <2> DEFINE c == [NoCall EXCEPT !.op = "delete_tuple", !.row = r, !.pc = "row_get"]
    <2>0. r \in RowIds /\ r < nextRow /\ r \in 0 .. MaxRows
        BY <1>1, <1>4 DEF RowIds, Deployment
    <2>1. c \in CallType
        <3>1. PICK b \in CallType : b = NoCall
            BY Zenon, CallRecords
        <3>2. "row_get" \in Pcs
            BY Zenon DEF Pcs
        <3>3. [b EXCEPT !.op = "delete_tuple", !.row = r, !.pc = "row_get"] \in CallType
            BY Zenon, <2>0, <3>2 DEF CallType
        <3> QED BY Zenon, <3>1, <3>3
    <2>2. c.op = "delete_tuple" /\ c.pc = "row_get" /\ c.adds = {} /\ c.row = r
        BY Zenon DEF NoCall
    <2>3. call' = [call EXCEPT ![p] = c]
        BY Zenon, <1>4 DEF BeginDeleteTuple, Begin
    <2> HIDE DEF c
    <2>4. call' \in [Procs -> CallType] /\ OthersRest(p) /\ call'[p] = c
        BY Zenon, <1>1, <2>1, <2>3 DEF OthersRest
    <2>5. Phase(call[p])'
        BY Zenon, <1>2, <2>0, <2>2, <2>4 DEF Phase, CreatePcs, DeletePcs, EnsurePcs
    <2>6. \A x \in Keys : ~Creating(call[p], x)' /\ ~Removing(call[p], x)'
        BY Zenon, <2>2, <2>4 DEF Creating, Removing
    <2> QED BY Zenon, <1>1, <2>4, <2>5, <2>6, CallMoves
<1> QED BY Zenon, <1>3, <1>4

\* A creation inserts its row: with it comes the right to one tuple.
LEMMA InsertRowStep ==
    ASSUME Deployment, MirrorInv, NEW p \in Procs, InsertRow(p)
    PROVE  MirrorInv'
<1>0. /\ call \in [Procs -> CallType] /\ row \in [RowIds -> Keys \cup {None}]
      /\ nextRow \in RowIds /\ nextRow \in Nat /\ store' = store /\ None \notin Keys
    BY DEF Deployment, MirrorInv, StoreTypes, InsertRow, RowIds, backendVars
<1>1. Phase(call[p]) /\ call[p].pc = "insert"
    BY Zenon DEF MirrorInv, CallsInv, InsertRow
<1>2. PICK k \in Keys : call[p].adds = {k}
    BY Zenon, <1>1 DEF Phase, CreatePcs, DeletePcs
<1>3. call[p].op = "create_tuple" /\ call[p].dels = {}
    BY Zenon, <1>1 DEF Phase, CreatePcs, DeletePcs
<1>4. row' = [row EXCEPT ![nextRow] = k] /\ nextRow' = nextRow + 1
    <2>1. (CHOOSE x \in call[p].adds : TRUE) = k
        BY Zenon, <1>2
    <2> QED BY Zenon, <2>1 DEF InsertRow
<1>5. row[nextRow] = None
    BY <1>0 DEF MirrorInv, RowsInOrder
<1>6. \A r \in RowIds : r # nextRow => row'[r] = row[r]
    BY Zenon, <1>0, <1>4
<1>7. RowsInOrder'
    BY <1>0, <1>4, <1>6 DEF MirrorInv, RowsInOrder, RowIds
<1>8. \A r \in RowIds : r < nextRow => row'[r] \in {row[r], None}
    BY <1>0, <1>6 DEF RowIds
<1>9. \A x \in Keys, r \in RowIds : row[r] = x => row'[r] = x
    BY Zenon, <1>0, <1>5, <1>6
<1>10. call' \in [Procs -> CallType] /\ OthersRest(p) => StoreTypes'
    <2>1. row' \in [RowIds -> Keys \cup {None}] /\ nextRow' \in 1 .. MaxRows + 1
        BY <1>0, <1>4 DEF RowIds, Deployment
    <2> QED BY Zenon, <2>1 DEF InsertRow, backendVars, registryVars, MirrorInv, StoreTypes
<1>11. CASE Fail(p)
    <2>1. call' \in [Procs -> CallType] /\ OthersRest(p) /\ call'[p].pc = "err"
        BY Zenon, <1>11, FailStep
    <2>2. Phase(call[p])'
        BY Zenon, <2>1 DEF Phase, CreatePcs, DeletePcs, EnsurePcs
    <2>3. \A x \in Keys : ~Creating(call[p], x)' /\ ~Removing(call[p], x)'
        BY Zenon, <2>1 DEF Creating, Removing
    <2>4. CallsInv'
        BY <1>0, <1>4, <1>8, <2>1, <2>2, PhasesKept
    <2>5. ASSUME NEW x \in Keys PROVE Balanced(x)'
        BY Zenon, <1>0, <1>9, <2>1, <2>3, Monotone
    <2> QED BY Zenon, <1>7, <1>10, <2>1, <2>4, <2>5 DEF MirrorInv, CountInv
<1>12. CASE Goto(p, "resolve")
    <2>1. call' \in [Procs -> CallType] /\ OthersRest(p)
        BY Zenon, <1>0, <1>12, CallGoes DEF Goto, Pcs
    <2>2. /\ call'[p].pc = "resolve" /\ call'[p].op = "create_tuple"
          /\ call'[p].adds = {k} /\ call'[p].dels = {}
        BY <1>0, <1>2, <1>3, <1>12 DEF Goto, CallType
    <2>3. Phase(call[p])'
        BY Zenon, <2>2 DEF Phase, CreatePcs, DeletePcs, EnsurePcs
    <2>4. \A x \in Keys : ~Removing(call[p], x)' /\ (x # k => ~Creating(call[p], x)')
        BY Zenon, <2>2 DEF Creating, Removing
    <2>5. CallsInv'
        BY <1>0, <1>4, <1>8, <2>1, <2>3, PhasesKept
    <2>6. ASSUME NEW x \in Keys, x # k PROVE Balanced(x)'
        BY Zenon, <1>0, <1>9, <2>1, <2>4, <2>6, Monotone
    <2>7. Balanced(k)'
        <3>1. IsFiniteSet(Holders(k)) /\ IsFiniteSet(Creators(k)) /\ IsFiniteSet(Spare(k))
            BY Zenon, Finite
        <3>2. nextRow \notin Spare(k)
            BY Zenon, <1>0, <1>5 DEF Spare
        <3>3. Cardinality(Holders(k)) + Cardinality(Creators(k)) <= Cardinality(Spare(k))
            BY Zenon DEF MirrorInv, CountInv, Balanced
        <3>4. Cardinality(Holders(k)) + Cardinality(Creators(k) \cup {p}) <=
                  Cardinality(Spare(k) \cup {nextRow})
            BY Zenon, <3>1, <3>2, <3>3, BalanceInsert
        <3>5. Holders(k)' \subseteq Holders(k)
            BY Zenon, <1>0 DEF Holders
        <3>6. Creators(k)' \subseteq Creators(k) \cup {p}
            BY Zenon, <2>1, CreatorsKept
        <3>7. ASSUME NEW r \in Spare(k) PROVE r \in Spare(k)'
            <4>1. r \in RowIds /\ row[r] = k
                BY Zenon, <3>7 DEF Spare
            <4>2. row'[r] = k
                BY Zenon, <1>9, <4>1
            <4> QED BY Zenon, <2>1, <2>4, <4>2, SpareKept
        <3>8. nextRow \in Spare(k)'
            <4>1. row'[nextRow] = k
                BY Zenon, <1>0, <1>4
            <4>2. ASSUME NEW q \in Procs, Removing(call[q], k)' PROVE call'[q].row # nextRow
                <5>1. q # p
                    BY Zenon, <2>4, <4>2
                <5>2. call'[q] = call[q]
                    BY Zenon, <2>1, <5>1 DEF OthersRest
                <5>3. call[q].op = "delete_tuple" /\ call[q].pc \in DeletePcs
                    BY Zenon, <4>2, <5>2 DEF Removing, DeletePcs
                <5>4. call[q].row \in RowIds /\ call[q].row < nextRow
                    BY Zenon, <5>3 DEF MirrorInv, CallsInv, Phase
                <5> QED BY <1>0, <5>2, <5>4 DEF RowIds
            <4> QED BY Zenon, <1>0, <4>1, <4>2 DEF Spare
        <3>9. Spare(k) \cup {nextRow} \subseteq Spare(k)'
            BY Zenon, <3>7, <3>8
        <3>10. IsFiniteSet(Creators(k) \cup {p}) /\ IsFiniteSet(Spare(k)')
            BY Zenon, <3>1, FS_AddElement, FinitePrimed
        <3>11. Cardinality(Holders(k)') + Cardinality(Creators(k)') <= Cardinality(Spare(k)')
            BY Zenon, <3>1, <3>4, <3>5, <3>6, <3>9, <3>10, Balance
        <3> QED BY Zenon, <3>11 DEF Balanced
    <2> QED BY Zenon, <1>7, <1>10, <2>1, <2>5, <2>6, <2>7 DEF MirrorInv, CountInv
<1> QED BY Zenon, <1>11, <1>12 DEF InsertRow

\* The key and the row of a deletion.
LEMMA DeletionOf ==
    ASSUME MirrorInv, NEW p \in Procs, call[p].op = "delete_tuple",
           call[p].pc \in DeletePcs \ {"row_get"}
    PROVE  /\ call[p].adds = {} /\ call[p].row \in RowIds /\ call[p].row < nextRow
           /\ \E k \in Keys : call[p].dels = {k} /\ row[call[p].row] \in {k, None}
BY Zenon DEF MirrorInv, CallsInv, Phase

\* A deletion reads its row: the key it will delete.
LEMMA GetRowStep ==
    ASSUME Deployment, MirrorInv, NEW p \in Procs, GetRow(p)
    PROVE  MirrorInv'
<1> DEFINE k == row[call[p].row]
<1>0. /\ call \in [Procs -> CallType] /\ row \in [RowIds -> Keys \cup {None}]
      /\ CallOnly /\ row' = row /\ nextRow' = nextRow
    BY Zenon DEF MirrorInv, StoreTypes, GetRow, CallOnly, mirrorVars
<1>1. Phase(call[p]) /\ call[p].pc = "row_get"
    BY Zenon DEF MirrorInv, CallsInv, GetRow
<1>2. /\ call[p].op = "delete_tuple" /\ call[p].adds = {}
      /\ call[p].row \in RowIds /\ call[p].row < nextRow
    BY Zenon, <1>1 DEF Phase, CreatePcs, DeletePcs
<1>3. CASE k = None
    <2>1. call' \in [Procs -> CallType] /\ OthersRest(p) /\ call'[p].pc = "err"
        BY Zenon, <1>3, FailStep DEF GetRow
    <2> QED BY Zenon, <1>0, <2>1, CallOnlyStep DEF OutsideCall, EnsurePcs
<1>4. CASE k # None
    <2>1. k \in Keys /\ call' = [call EXCEPT ![p].pc = "resolve", ![p].dels = {k}]
        BY Zenon, <1>0, <1>2, <1>4 DEF GetRow
    <2> HIDE DEF k
    <2>2. PICK c \in CallType : /\ call' = [call EXCEPT ![p] = c] /\ c.pc = "resolve"
                                /\ c.op = call[p].op /\ c.dels = {k}
                                /\ c.adds = call[p].adds /\ c.row = call[p].row
        <3>0. PICK ks \in SUBSET Keys : ks = {k}
            BY Zenon, <2>1
        <3>1. "resolve" \in Pcs /\ call[p] \in CallType
            BY Zenon, <1>0 DEF Pcs
        <3>2. PICK d \in CallType : /\ d = [call[p] EXCEPT !.pc = "resolve"]
                                    /\ Same(call[p], d) /\ d.pc = "resolve"
            BY Zenon, <3>1, PcField
        <3>3. PICK e \in CallType : /\ e = [d EXCEPT !.dels = ks]
                                    /\ e.pc = d.pc /\ e.op = d.op /\ e.adds = d.adds
                                    /\ e.row = d.row /\ e.dels = ks
            BY Zenon, DelsField
        <3>4. call' = [call EXCEPT ![p] = e]
            BY Zenon, <2>1, <3>0, <3>2, <3>3
        <3> QED BY Zenon, <3>0, <3>2, <3>3, <3>4 DEF Same
    <2>3. /\ call' \in [Procs -> CallType] /\ OthersRest(p)
          /\ call'[p].pc = "resolve" /\ call'[p].op = "delete_tuple" /\ call'[p].dels = {k}
          /\ call'[p].adds = {} /\ call'[p].row = call[p].row
        BY Zenon, <1>0, <1>2, <2>2, CallMoved
    <2>4. row'[call'[p].row] = k
        BY Zenon, <1>0, <2>3 DEF k
    <2>5. Phase(call[p])'
        BY Zenon, <1>0, <1>2, <2>1, <2>3, <2>4 DEF Phase, CreatePcs, DeletePcs, EnsurePcs
    <2>6. \A x \in Keys : ~Creating(call[p], x)' /\ ~Removing(call[p], x)'
        BY Zenon, <2>3 DEF Creating, Removing
    <2> QED BY Zenon, <1>0, <2>3, <2>5, <2>6, CallMoves
<1> QED BY Zenon, <1>3, <1>4

\* A deletion takes the row it had doomed.
LEMMA DeleteRowStep ==
    ASSUME Deployment, MirrorInv, NEW p \in Procs, DeleteRow(p)
    PROVE  MirrorInv'
<1>0. /\ call \in [Procs -> CallType] /\ row \in [RowIds -> Keys \cup {None}]
      /\ nextRow \in Nat /\ nextRow' = nextRow /\ store' = store /\ None \notin Keys
    BY DEF Deployment, MirrorInv, StoreTypes, DeleteRow, backendVars
<1>1. call[p].op = "delete_tuple" /\ call[p].pc = "row_delete"
    BY Zenon DEF MirrorInv, CallsInv, Phase, CreatePcs, DeletePcs, DeleteRow
<1>2. PICK k \in Keys : call[p].dels = {k} /\ row[call[p].row] \in {k, None}
    BY Zenon, <1>1, DeletionOf DEF DeletePcs
<1>3. Removing(call[p], k)
    BY Zenon, <1>1, <1>2 DEF Removing
<1>4. row' = [row EXCEPT ![call[p].row] = None] /\ call[p].row \in RowIds
    BY Zenon, <1>1, DeletionOf DEF DeleteRow, DeletePcs
<1>5. \A r \in RowIds : row'[r] \in {row[r], None}
    BY Zenon, <1>0, <1>4
<1>6. PICK pc \in {"ok", "err"} : call' = [call EXCEPT ![p].pc = pc]
    BY Zenon DEF DeleteRow, Goto
<1>7. call' \in [Procs -> CallType] /\ OthersRest(p)
    BY Zenon, <1>0, <1>6, CallGoes DEF Pcs
<1>8. call'[p].pc = pc
    BY Zenon, <1>0, <1>6 DEF CallType
<1>9. Phase(call[p])'
    BY Zenon, <1>8 DEF Phase, CreatePcs, DeletePcs, EnsurePcs
<1>10. \A x \in Keys : ~Creating(call[p], x)' /\ ~Removing(call[p], x)'
    BY Zenon, <1>8 DEF Creating, Removing
<1>11. CallsInv'
    BY <1>0, <1>5, <1>7, <1>9, PhasesKept
<1>12. RowsInOrder'
    BY Zenon, <1>0, <1>5 DEF MirrorInv, RowsInOrder
<1>13. StoreTypes'
    <2>1. row' \in [RowIds -> Keys \cup {None}]
        BY Zenon, <1>0, <1>4
    <2> QED BY Zenon, <1>7, <2>1 DEF DeleteRow, backendVars, registryVars, MirrorInv, StoreTypes
<1>14. ASSUME NEW x \in Keys PROVE Balanced(x)'
    <2>1. ASSUME NEW r \in RowIds, row[r] = x
          PROVE  row'[r] = x \/ (Removing(call[p], x) /\ call[p].row = r)
        <3>1. CASE r # call[p].row
            BY Zenon, <1>0, <1>4, <2>1, <3>1
        <3>2. CASE r = call[p].row
            <4>1. x = k
                BY Zenon, <1>0, <1>2, <2>1, <3>2
            <4> QED BY Zenon, <1>3, <3>2, <4>1
        <3> QED BY Zenon, <3>1, <3>2
    <2> QED BY Zenon, <1>0, <1>7, <1>10, <2>1, Monotone
<1> QED BY Zenon, <1>11, <1>12, <1>13, <1>14 DEF MirrorInv, CountInv

\* The store a configured type resolves to.
LEMMA ResolvedStore ==
    ASSUME MirrorInv, Deployment, NEW k \in Keys, Resolvable(TypeOf[k])
    PROVE  record[OwnerOf(TypeOf[k])].store \in StoreIds
<1>1. TypeOf[k] \in Types
    BY Zenon DEF Deployment
<1>2. OwnerOf(TypeOf[k]) \in Namespaces
    BY Zenon, <1>1 DEF MirrorInv, StoreTypes, OwnerOf, Resolvable
<1>3. record[OwnerOf(TypeOf[k])].store \in 0 .. MaxStores
    BY Zenon, <1>2 DEF MirrorInv, StoreTypes, RecordType
<1> QED BY <1>3 DEF Resolvable, StoreIds, Deployment

\* A call finds the store of its key's type, or fails.
LEMMA ResolveStep ==
    ASSUME Deployment, MirrorInv, NEW p \in Procs, Resolve(p)
    PROVE  MirrorInv'
<1> DEFINE keys == call[p].adds \cup call[p].dels
<1> DEFINE at == [k \in Keys |-> IF k \in keys THEN record[OwnerOf(TypeOf[k])].store ELSE 0]
<1>0. call \in [Procs -> CallType] /\ CallOnly /\ row' = row /\ nextRow' = nextRow
    BY Zenon DEF MirrorInv, StoreTypes, Resolve, CallOnly, mirrorVars
<1>1. Phase(call[p]) /\ call[p].pc = "resolve"
    BY Zenon DEF MirrorInv, CallsInv, Resolve
<1>2. call[p].op \in {"create_tuple", "delete_tuple"}
    BY Zenon, <1>1 DEF Phase, CreatePcs, DeletePcs
<1>3. PICK k \in Keys : keys = {k}
    BY Zenon, <1>1, <1>2 DEF Phase, CreatePcs, DeletePcs
<1>4. CASE ~Resolvable(TypeOf[k])
    <2>1. Fail(p)
        BY Zenon, <1>3, <1>4 DEF Resolve
    <2>2. call' \in [Procs -> CallType] /\ OthersRest(p) /\ call'[p].pc = "err"
        BY Zenon, <2>1, FailStep
    <2> QED BY Zenon, <1>0, <2>2, CallOnlyStep DEF OutsideCall, EnsurePcs
<1>5. CASE Resolvable(TypeOf[k])
    <2>1. at[k] \in StoreIds
        BY Zenon, <1>3, <1>5, ResolvedStore
    <2>2. at \in [Keys -> 0 .. MaxStores]
        <3>1. \A x \in Keys : at[x] \in {at[k], 0}
            BY Zenon, <1>3
        <3> QED BY Zenon, <2>1, <3>1, Bounds
    <2>3. {at[x] : x \in keys} = {at[k]}
        BY Zenon, <1>3
    <2>4. call' = [call EXCEPT ![p].pc = "write", ![p].at = at,
                               ![p].todo = {at[x] : x \in keys}]
        BY Zenon, <1>2, <1>3, <1>5 DEF Resolve
    <2> HIDE DEF at
    <2>5. call' = [call EXCEPT ![p].pc = "write", ![p].at = at, ![p].todo = {at[k]}]
        BY Zenon, <2>3, <2>4
    <2>6. PICK d \in CallType : /\ d = [call[p] EXCEPT !.pc = "write"]
                                /\ Same(call[p], d) /\ d.pc = "write"
        <3>1. "write" \in Pcs /\ call[p] \in CallType
            BY Zenon, <1>0 DEF Pcs
        <3> QED BY Zenon, <3>1, PcField
    <2>7. PICK c \in CallType : /\ call' = [call EXCEPT ![p] = c] /\ Same(call[p], c)
                                /\ c.pc = "write" /\ c.at = at /\ c.todo = {at[k]}
        <3>1. PICK a \in [Keys -> 0 .. MaxStores], t \in SUBSET StoreIds : a = at /\ t = {at[k]}
            BY Zenon, <2>1, <2>2
        <3>2. PICK e \in CallType : /\ e = [d EXCEPT !.at = a]
                                    /\ Same(d, e) /\ e.pc = d.pc /\ e.at = a
            BY Zenon, AtField
        <3>3. PICK g \in CallType : /\ g = [e EXCEPT !.todo = t]
                                    /\ Same(e, g) /\ g.pc = e.pc /\ g.at = e.at /\ g.todo = t
            BY Zenon, TodoField
        <3>4. call' = [call EXCEPT ![p] = g]
            BY Zenon, <2>5, <2>6, <3>1, <3>2, <3>3
        <3> QED BY Zenon, <2>6, <3>1, <3>2, <3>3, <3>4 DEF Same
    <2>8. /\ call' \in [Procs -> CallType] /\ OthersRest(p)
          /\ call'[p].pc = "write" /\ call'[p].at = at /\ call'[p].todo = {at[k]}
          /\ call'[p].op = call[p].op /\ call'[p].adds = call[p].adds
          /\ call'[p].dels = call[p].dels /\ call'[p].row = call[p].row
        BY Zenon, <1>0, <2>7, CallMoved DEF Same
    <2>9. \A x \in call'[p].adds \cup call'[p].dels : call'[p].todo = {call'[p].at[x]}
        BY Zenon, <1>3, <2>8
    <2>10. Phase(call[p])'
        BY Zenon, <1>0, <1>1, <1>2, <2>8, <2>9 DEF Phase, CreatePcs, DeletePcs, EnsurePcs
    <2>11. \A x \in Keys : ~Removing(call[p], x)' /\ (Creating(call[p], x)' => Creating(call[p], x))
        BY Zenon, <1>1, <2>8 DEF Creating, Removing
    <2> QED BY Zenon, <1>0, <2>8, <2>10, <2>11, CallMoves
<1> QED BY Zenon, <1>4, <1>5

\* The last write is done: a creation ends, a deletion goes on to its row.
LEMMA WriteDoneStep ==
    ASSUME Deployment, MirrorInv, NEW p \in Procs, WriteStore(p), call[p].todo = {}
    PROVE  MirrorInv'
<1>0. /\ call \in [Procs -> CallType] /\ call[p].pc = "write" /\ Phase(call[p])
      /\ Goto(p, AfterWrite(call[p].op)) /\ CallOnly /\ row' = row /\ nextRow' = nextRow
    BY Zenon DEF MirrorInv, StoreTypes, CallsInv, WriteStore, CallOnly, backendVars, mirrorVars
<1>1. CASE call[p].op = "create_tuple"
    <2>1. call' = [call EXCEPT ![p].pc = "ok"]
        BY Zenon, <1>0, <1>1 DEF AfterWrite, Goto
    <2>2. call' \in [Procs -> CallType] /\ OthersRest(p)
        BY Zenon, <1>0, <2>1, CallGoes DEF Pcs
    <2>3. call'[p].pc = "ok"
        BY Zenon, <1>0, <2>1 DEF CallType
    <2> QED BY Zenon, <1>0, <2>2, <2>3, CallOnlyStep DEF OutsideCall, EnsurePcs
<1>2. CASE call[p].op = "delete_tuple"
    <2>1. call' = [call EXCEPT ![p].pc = "row_delete"]
        BY Zenon, <1>0, <1>2 DEF AfterWrite, Goto
    <2>2. call' \in [Procs -> CallType] /\ OthersRest(p)
        BY Zenon, <1>0, <2>1, CallGoes DEF Pcs
    <2>3. /\ call'[p].pc = "row_delete" /\ call'[p].op = call[p].op
          /\ call'[p].adds = call[p].adds /\ call'[p].dels = call[p].dels
          /\ call'[p].row = call[p].row
        BY <1>0, <2>1 DEF CallType
    <2>4. Phase(call[p])'
        BY Zenon, <1>0, <1>2, <2>3 DEF Phase, CreatePcs, DeletePcs, EnsurePcs
    <2>5. \A x \in Keys : ~Creating(call[p], x)' /\ (Removing(call[p], x)' => Removing(call[p], x))
        BY Zenon, <1>0, <1>2, <2>3 DEF Creating, Removing
    <2> QED BY Zenon, <1>0, <2>2, <2>3, <2>4, <2>5, CallMoves
<1> QED BY Zenon, <1>0, <1>1, <1>2 DEF Phase, CreatePcs, DeletePcs

\* A creation's write: its tuple takes the place of the pending creation.
LEMMA CreateWriteStep ==
    ASSUME Deployment, MirrorInv, NEW p \in Procs, NEW s \in StoreIds, NEW k \in Keys,
           call[p].op = "create_tuple", call[p].pc = "write", call[p].adds = {k},
           call[p].todo # {}, OthersRest(p), UNCHANGED mirrorVars,
           store' = [store EXCEPT ![s].tuples = @ \cup {k}],
           \A x \in Keys : ~Creating(call[p], x)' /\ ~Removing(call[p], x)'
    PROVE  CountInv'
<1>0. /\ store \in [StoreIds -> [ns: Namespaces \cup {None}, tuples: SUBSET Keys]]
      /\ row' = row
    BY Zenon DEF MirrorInv, StoreTypes, mirrorVars
<1>1. \A u \in StoreIds : store'[u].tuples \subseteq store[u].tuples \cup {k}
    BY Zenon, <1>0
<1>2. ASSUME NEW x \in Keys, x # k PROVE Balanced(x)'
    <2>1. \A u \in StoreIds : x \in store'[u].tuples => x \in store[u].tuples
        BY Zenon, <1>1, <1>2
    <2> QED BY Zenon, <1>0, <2>1, Monotone
<1>3. Balanced(k)'
    <2>1. IsFiniteSet(Holders(k)) /\ IsFiniteSet(Creators(k)) /\ IsFiniteSet(Spare(k))
        BY Zenon, Finite
    <2>2. p \in Creators(k)
        BY Zenon DEF Creators, Creating
    <2>3. Cardinality(Holders(k)) + Cardinality(Creators(k)) <= Cardinality(Spare(k))
        BY Zenon DEF MirrorInv, CountInv, Balanced
    <2>4. Cardinality(Holders(k) \cup {s}) + Cardinality(Creators(k) \ {p}) <= Cardinality(Spare(k))
        BY Zenon, <2>1, <2>2, <2>3, BalanceCreate
    <2>5. Holders(k)' \subseteq Holders(k) \cup {s}
        BY Zenon, <1>0 DEF Holders
    <2>6. Creators(k)' \subseteq Creators(k) \ {p}
        BY Zenon, CreatorsKept
    <2>7. ASSUME NEW r \in Spare(k) PROVE r \in Spare(k)'
        <3>1. row'[r] = k
            BY Zenon, <1>0, <2>7 DEF Spare
        <3> QED BY Zenon, <3>1, SpareKept
    <2>8. Spare(k) \subseteq Spare(k)'
        BY Zenon, <2>7
    <2>9. IsFiniteSet(Holders(k) \cup {s}) /\ IsFiniteSet(Creators(k) \ {p}) /\ IsFiniteSet(Spare(k)')
        BY Zenon, <2>1, FS_AddElement, FS_RemoveElement, FinitePrimed
    <2>10. Cardinality(Holders(k)') + Cardinality(Creators(k)') <= Cardinality(Spare(k)')
        BY Zenon, <2>4, <2>5, <2>6, <2>8, <2>9, Balance
    <2> QED BY Zenon, <2>10 DEF Balanced
<1> QED BY Zenon, <1>2, <1>3 DEF CountInv

\* A deletion's write: a tuple goes, and at most the deletion's row is doomed.
LEMMA DeleteWriteStep ==
    ASSUME Deployment, MirrorInv, NEW p \in Procs, NEW s \in StoreIds, NEW k \in Keys,
           k \in store[s].tuples, OthersRest(p), UNCHANGED mirrorVars,
           store' = [store EXCEPT ![s].tuples = @ \ {k}],
           \A x \in Keys : ~Creating(call[p], x)',
           \A x \in Keys : x # k => ~Removing(call[p], x)'
    PROVE  CountInv'
<1>0. /\ store \in [StoreIds -> [ns: Namespaces \cup {None}, tuples: SUBSET Keys]]
      /\ row' = row
    BY Zenon DEF MirrorInv, StoreTypes, mirrorVars
<1>1. \A u \in StoreIds : store'[u].tuples \subseteq store[u].tuples
    BY Zenon, <1>0
<1>2. ASSUME NEW x \in Keys, x # k PROVE Balanced(x)'
    <2>1. \A u \in StoreIds : x \in store'[u].tuples => x \in store[u].tuples
        BY Zenon, <1>1
    <2> QED BY Zenon, <1>0, <1>2, <2>1, Monotone
<1>3. Balanced(k)'
    <2> DEFINE r == call'[p].row
    <2>1. IsFiniteSet(Holders(k)) /\ IsFiniteSet(Creators(k)) /\ IsFiniteSet(Spare(k))
        BY Zenon, Finite
    <2>2. s \in Holders(k)
        BY Zenon DEF Holders
    <2>3. Cardinality(Holders(k)) + Cardinality(Creators(k)) <= Cardinality(Spare(k))
        BY Zenon DEF MirrorInv, CountInv, Balanced
    <2>4. Cardinality(Holders(k) \ {s}) + Cardinality(Creators(k)) <= Cardinality(Spare(k) \ {r})
        BY Zenon, <2>1, <2>2, <2>3, BalanceDelete
    <2>5. Holders(k)' \subseteq Holders(k) \ {s}
        BY Zenon, <1>0 DEF Holders
    <2>6. Creators(k)' \subseteq Creators(k)
        BY Zenon, CreatorsKept
    <2>7. ASSUME NEW x \in Spare(k) \ {r} PROVE x \in Spare(k)'
        <3>1. row'[x] = k /\ r # x
            BY Zenon, <1>0, <2>7 DEF Spare
        <3> QED BY Zenon, <3>1, SpareKept
    <2>8. Spare(k) \ {r} \subseteq Spare(k)'
        BY Zenon, <2>7
    <2>9. IsFiniteSet(Holders(k) \ {s}) /\ IsFiniteSet(Spare(k)')
        BY Zenon, <2>1, FS_RemoveElement, FinitePrimed
    <2>10. Cardinality(Holders(k)') + Cardinality(Creators(k)') <= Cardinality(Spare(k)')
        BY Zenon, <2>1, <2>4, <2>5, <2>6, <2>8, <2>9, Balance
    <2> QED BY Zenon, <2>10 DEF Balanced
<1> QED BY Zenon, <1>2, <1>3 DEF CountInv

\* A write to a store: taken whole, with its answer or without, or refused.
LEMMA WriteOneStep ==
    ASSUME Deployment, MirrorInv, NEW p \in Procs, WriteStore(p), call[p].todo # {}
    PROVE  MirrorInv'
<1>0. /\ call \in [Procs -> CallType] /\ call[p].pc = "write" /\ Phase(call[p])
      /\ store \in [StoreIds -> [ns: Namespaces \cup {None}, tuples: SUBSET Keys]]
      /\ UNCHANGED <<published, nextStore, registryVars, mirrorVars>>
      /\ row' = row /\ nextRow' = nextRow /\ nextRow \in Nat
    BY DEF MirrorInv, StoreTypes, CallsInv, WriteStore, mirrorVars
<1> DEFINE adds(s) == {k \in call[p].adds : call[p].at[k] = s}
<1> DEFINE dels(s) == {k \in call[p].dels : call[p].at[k] = s}
<1> DEFINE taken(s) == store[s] # NoStore /\ adds(s) \cap store[s].tuples = {}
                                          /\ dels(s) \subseteq store[s].tuples
<1>1. PICK s \in call[p].todo :
          IF taken(s)
          THEN /\ store' = [store EXCEPT ![s].tuples = (@ \ dels(s)) \cup adds(s)]
               /\ call' = [call EXCEPT ![p].todo = call[p].todo \ {s}] \/ Fail(p)
          ELSE /\ call' = [call EXCEPT ![p].pc = "err", ![p].refused = (store[s] # NoStore)]
               /\ UNCHANGED store
    BY Zenon DEF WriteStore
<1>2. s \in StoreIds
    BY Zenon, <1>0, <1>1 DEF CallType
<1>3. \A k \in call[p].adds \cup call[p].dels : call[p].todo = {call[p].at[k]}
    BY Zenon, <1>0 DEF Phase
<1>4. adds(s) = call[p].adds /\ dels(s) = call[p].dels
    BY Zenon, <1>1, <1>3
<1>5. \/ call[p].op = "create_tuple" /\ call[p].dels = {} /\ \E k \in Keys : call[p].adds = {k}
      \/ call[p].op = "delete_tuple" /\ call[p].adds = {} /\ \E k \in Keys : call[p].dels = {k}
    BY Zenon, <1>0 DEF Phase, CreatePcs, DeletePcs
<1>6. CASE ~taken(s)
    <2>1. (store[s] # NoStore) \in BOOLEAN
        BY Zenon
    <2>2. PICK b \in BOOLEAN : call' = [call EXCEPT ![p].pc = "err", ![p].refused = b]
        BY Zenon, <1>1, <1>6, <2>1
    <2>3. "err" \in Pcs /\ 0 \in 0 .. MaxStores /\ 0 \in Nat
        <3>1. 0 \in Nat
            BY Zenon
        <3> QED BY Zenon, <3>1, Bounds DEF Pcs
    <2>4. call' \in [Procs -> CallType] /\ OthersRest(p) /\ call'[p].pc = "err"
        BY Zenon, <1>0, <2>2, <2>3, EnsureGoes
    <2>5. CallOnly
        BY Zenon, <1>0, <1>1, <1>6 DEF CallOnly, backendVars
    <2> QED BY Zenon, <2>4, <2>5, CallOnlyStep DEF OutsideCall, EnsurePcs
<1>7. CASE taken(s)
    <2>1. /\ store' = [store EXCEPT ![s].tuples = (@ \ dels(s)) \cup adds(s)]
          /\ call' = [call EXCEPT ![p].todo = call[p].todo \ {s}] \/ Fail(p)
        BY Zenon, <1>1, <1>7
    <2>2. call[p].dels \subseteq store[s].tuples
        BY Zenon, <1>4, <1>7
    <2> HIDE DEF adds, dels, taken
    <2>3. store' = [store EXCEPT ![s].tuples = (@ \ call[p].dels) \cup call[p].adds]
        BY Zenon, <1>4, <2>1
    <2>4. store' \in [StoreIds -> [ns: Namespaces \cup {None}, tuples: SUBSET Keys]]
        BY Zenon, <1>0, <2>3 DEF CallType
    <2>5. call' \in [Procs -> CallType] => StoreTypes'
        BY Zenon, <1>0, <2>4 DEF registryVars, mirrorVars, MirrorInv, StoreTypes
    <2>6. RowsInOrder'
        BY Zenon, <1>0 DEF MirrorInv, RowsInOrder
    <2>7. /\ call' \in [Procs -> CallType] /\ OthersRest(p) /\ Phase(call[p])'
          /\ \A x \in Keys : ~Creating(call[p], x)'
          /\ \A x \in Keys : Removing(call[p], x)' =>
                call[p].op = "delete_tuple" /\ call[p].dels = {x}
        <3>1. CASE Fail(p)
            <4>1. call' \in [Procs -> CallType] /\ OthersRest(p) /\ call'[p].pc = "err"
                BY Zenon, <3>1, FailStep
            <4> QED BY Zenon, <4>1 DEF Phase, CreatePcs, DeletePcs, EnsurePcs, Creating, Removing
        <3>2. CASE call' = [call EXCEPT ![p].todo = call[p].todo \ {s}]
            <4>1. call[p].todo \ {s} = {}
                BY Zenon, <1>1, <1>3, <1>5
            <4>2. {} \in SUBSET StoreIds /\ call[p] \in CallType
                BY Zenon, <1>0
            <4>3. PICK c \in CallType : /\ c = [call[p] EXCEPT !.todo = {}] /\ Same(call[p], c)
                                        /\ c.pc = call[p].pc /\ c.todo = {}
                BY Zenon, <4>2, TodoField
            <4>4. call' \in [Procs -> CallType] /\ OthersRest(p) /\ call'[p] = c
                <5>1. call' = [call EXCEPT ![p] = c]
                    BY Zenon, <3>2, <4>1, <4>3
                <5> QED BY Zenon, <1>0, <5>1, CallMoved
            <4>5. Phase(call[p])'
                BY Zenon, <1>0, <4>3, <4>4 DEF Phase, CreatePcs, DeletePcs, EnsurePcs, Same
            <4> QED BY Zenon, <1>0, <4>3, <4>4, <4>5 DEF Creating, Removing, Same
        <3> QED BY Zenon, <2>1, <3>1, <3>2
    <2>8. CallsInv'
        BY <1>0, <2>7, PhasesKept
    <2>9. CountInv'
        <3>1. ASSUME NEW k \in Keys, call[p].op = "create_tuple", call[p].dels = {},
                     call[p].adds = {k}
              PROVE  CountInv'
            <4>1. store' = [store EXCEPT ![s].tuples = @ \cup {k}]
                BY Zenon, <1>0, <1>2, <2>3, <3>1
            <4>2. \A x \in Keys : ~Removing(call[p], x)'
                BY Zenon, <2>7, <3>1
            <4> QED BY Zenon, <1>0, <1>2, <2>7, <3>1, <4>1, <4>2, CreateWriteStep
        <3>2. ASSUME NEW k \in Keys, call[p].op = "delete_tuple", call[p].adds = {},
                     call[p].dels = {k}
              PROVE  CountInv'
            <4>1. store' = [store EXCEPT ![s].tuples = @ \ {k}]
                BY Zenon, <1>0, <1>2, <2>3, <3>2
            <4>2. k \in store[s].tuples
                BY Zenon, <2>2, <3>2
            <4>3. \A x \in Keys : x # k => ~Removing(call[p], x)'
                BY Zenon, <2>7, <3>2
            <4> QED BY Zenon, <1>0, <1>2, <2>7, <4>1, <4>2, <4>3, DeleteWriteStep
        <3> QED BY Zenon, <1>5, <3>1, <3>2
    <2> QED BY Zenon, <2>5, <2>6, <2>7, <2>8, <2>9 DEF MirrorInv
<1> QED BY Zenon, <1>6, <1>7

-----------------------------------------------------------------------------
(* The theorem.                                                            *)

\* At start no store holds a tuple and no call is in flight.
LEMMA MirrorInit ==
    ASSUME Deployment, Init
    PROVE  MirrorInv
<1>1. StoreTypes
    <2>1. NoStore \in [ns: Namespaces \cup {None}, tuples: SUBSET Keys]
        BY Zenon DEF NoStore
    <2>2. NoRecord \in RecordType
        BY Zenon, Bounds DEF NoRecord, RecordType
    <2>3. 1 \in 1 .. MaxStores + 1 /\ 1 \in 1 .. MaxRows + 1
        BY DEF Deployment
    <2>4. published \in Seq([store: 0 .. MaxStores, model: Models \cup {None}])
        BY DEF Init
    <2>5. NoCall \in CallType
        BY Zenon, CallRecords
    <2> QED BY Zenon, <2>1, <2>2, <2>3, <2>4, <2>5 DEF Init, StoreTypes
<1>2. RowsInOrder
    BY Zenon DEF Init, RowsInOrder
<1>3. \A p \in Procs : call[p].pc = "idle"
    BY Zenon DEF Init, NoCall
<1>4. CallsInv
    BY Zenon, <1>3 DEF CallsInv, Phase, CreatePcs, DeletePcs, EnsurePcs
<1>5. ASSUME NEW k \in Keys PROVE Balanced(k)
    <2>1. Holders(k) = {} /\ Creators(k) = {}
        BY Zenon, <1>3 DEF Init, NoStore, Holders, Creators, Creating
    <2>2. Cardinality(Holders(k)) = 0 /\ Cardinality(Creators(k)) = 0
        BY Zenon, <2>1, FS_EmptySet
    <2>3. Cardinality(Spare(k)) \in Nat
        BY Zenon, Finite, FS_CardinalityType
    <2> QED BY <2>2, <2>3 DEF Balanced
<1> QED BY Zenon, <1>1, <1>2, <1>4, <1>5 DEF MirrorInv, CountInv

\* Every step keeps a spare row for each tuple and each pending creation.
LEMMA MirrorNext ==
    ASSUME Deployment, SingleTuples, MirrorInv, Next
    PROVE  MirrorInv'
<1>1. PICK p \in Procs : \/ BeginCall(p) \/ EnsureStep(p) \/ DeleteStep(p)
                         \/ TupleStep(p) \/ RequestFails(p) \/ Return(p)
    BY Zenon DEF Next
<1>2. call[p].pc \notin {"ns_get", "drop_get", "drop_store", "drop_rows", "drop_record",
                         "probe", "mirror", "unmirror"}
    BY Zenon DEF MirrorInv, CallsInv, Phase
<1>3. ~DeleteStep(p) /\ ~Probe(p) /\ ~MirrorWrites(p) /\ ~MirrorDeletes(p)
    BY Zenon, <1>2
       DEF DeleteStep, DeleteNamespaceGet, DeleteNamespaceResolve, DeleteStore, DeleteRows,
                DeleteRecord, Probe, MirrorWrites, MirrorDeletes
<1>4. CASE BeginCall(p)
    <2>1. \A n \in Namespaces : ~BeginDeleteNamespace(p, n)
        BY Zenon DEF BeginDeleteNamespace, SingleTuples
    <2>2. \A op \in Ops, batch \in Batches : ~BeginWriteTuples(p, op, batch)
        BY Zenon DEF BeginWriteTuples, SingleTuples
    <2> QED BY Zenon, <1>4, <2>1, <2>2, BeginEnsureStep, BeginTupleStep DEF BeginCall
<1>5. CASE EnsureStep(p)
    BY Zenon, <1>5, EnsureReadStep, CreateStoreStep, PublishStep, CommitStep DEF EnsureStep
<1>6. CASE TupleStep(p)
    BY Zenon, <1>3, <1>6, InsertRowStep, GetRowStep, DeleteRowStep, ResolveStep, WriteDoneStep,
       WriteOneStep DEF TupleStep
<1> QED BY Zenon, <1>1, <1>3, <1>4, <1>5, <1>6, EndStep

\* Nothing changes.
LEMMA Unchanged == ASSUME MirrorInv, UNCHANGED permissionVars PROVE MirrorInv'
<1>1. /\ store' = store /\ published' = published /\ record' = record /\ owner' = owner
      /\ row' = row /\ nextStore' = nextStore /\ nextRow' = nextRow /\ call' = call
    BY Zenon DEF permissionVars, backendVars, registryVars, mirrorVars
<1>2. StoreTypes' /\ RowsInOrder'
    BY Zenon, <1>1 DEF MirrorInv, StoreTypes, RowsInOrder
<1>3. CallsInv'
    BY Zenon, <1>1 DEF MirrorInv, CallsInv, Phase
<1>4. CountInv'
    <2>1. ASSUME NEW k \in Keys
          PROVE  Holders(k)' = Holders(k) /\ Creators(k)' = Creators(k) /\ Spare(k)' = Spare(k)
        BY Zenon, <1>1 DEF Holders, Creators, Spare, Creating, Removing
    <2> QED BY Zenon, <2>1 DEF MirrorInv, CountInv, Balanced
<1> QED BY Zenon, <1>2, <1>3, <1>4 DEF MirrorInv

\* A tuple that grants something has a row.
LEMMA GrantedHasRow ==
    ASSUME Deployment, MirrorInv
    PROVE  GrantedIsListed
<1> SUFFICES ASSUME NEW k \in Keys, NEW s \in StoreIds, k \in store[s].tuples,
                    ~Listed(k)
             PROVE  FALSE
    BY Zenon DEF GrantedIsListed, Granted
<1>1. Spare(k) = {} /\ s \in Holders(k)
    BY Zenon DEF Spare, Listed, Holders
<1>2. IsFiniteSet(Holders(k)) /\ IsFiniteSet(Creators(k)) /\ IsFiniteSet(Spare(k))
    BY Zenon, Finite
<1>3. Cardinality(Holders(k)) \in Nat /\ Cardinality(Creators(k)) \in Nat
    BY Zenon, <1>2, FS_CardinalityType
<1>4. Cardinality(Spare(k)) = 0 /\ Cardinality(Holders(k)) # 0
    BY Zenon, <1>1, <1>2, FS_EmptySet
<1>5. Cardinality(Holders(k)) + Cardinality(Creators(k)) <= Cardinality(Spare(k))
    BY Zenon DEF MirrorInv, CountInv, Balanced
<1> QED BY <1>3, <1>4, <1>5

\* CreateRelationTuple and DeleteRelationTuple, racing in any number, with any
\* request failing or losing its answer, never leave a tuple in OpenFGA that
\* the permission_tuples table does not list.
THEOREM TuplesListed ==
    ASSUME Deployment, SingleTuples
    PROVE  Spec => []GrantedIsListed
<1>1. Init => MirrorInv
    BY Zenon, MirrorInit
<1>2. MirrorInv /\ [Next]_permissionVars => MirrorInv'
    <2>1. MirrorInv /\ UNCHANGED permissionVars => MirrorInv'
        BY Zenon, Unchanged
    <2> QED BY Zenon, <2>1, MirrorNext
<1>3. MirrorInv => GrantedIsListed
    BY Zenon, GrantedHasRow
<1> QED BY <1>1, <1>2, <1>3, PTL DEF Spec
=============================================================================
