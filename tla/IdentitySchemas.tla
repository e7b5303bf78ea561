-------------------------- MODULE IdentitySchemas --------------------------
(***************************************************************************)
(* The identity schemas of one tenant (tenant_identity_schemas), their     *)
(* administration, and the identity writes that validate traits against a  *)
(* schema and pin its version in the membership.  set_default and a        *)
(* defaulting update are two statements, and an identity write reads the   *)
(* schema long before it stores the pin; administrators and identity       *)
(* writes interleave between the statements.                               *)
(***************************************************************************)
EXTENDS Naturals, FiniteSets

CONSTANTS
    SchemaIds,    \* schema_id values of the tenant
    Docs,         \* schema_json values
    EmailDocs,    \* the documents that declare traits.email as a string
    Traits,       \* trait documents
    Accepts,      \* Accepts[d]: the traits that document d validates
    Members,      \* identities of the tenant
    Procs,        \* requests in flight
    Ops,          \* the operations a run exercises
    MaxVersion,   \* bound on schema versions
    MaxMade,      \* bound on schemas created
    None

VARIABLES
    row,        \* the table: schema_id -> row, or None
    made,       \* rows created so far (created_at order)
    pin,        \* tenant_memberships: member -> pin, or None
    req,
    contents    \* history: <<schema_id, version, schema_json>> ever stored

vars == <<row, made, pin, req, contents>>

Rows == [json: Docs, version: 1..MaxVersion, default: BOOLEAN, created: 1..MaxMade]

Pins == [schema: SchemaIds, version: 1..MaxVersion, traits: Traits]

Idle == [pc |-> "idle", op |-> "none", schema |-> None, json |-> None,
         default |-> FALSE, member |-> None, traits |-> None, version |-> 0]

\* Every stored document has passed require_email_string_schema.
TypeOK ==
    /\ row \in [SchemaIds -> Rows \cup {None}]
    /\ \A s \in SchemaIds : row[s] # None => row[s].json \in EmailDocs
    /\ made \in 0..MaxMade
    /\ pin \in [Members -> Pins \cup {None}]
    /\ req \in [Procs ->
          [pc: {"idle", "unset", "update", "resolve", "upsert"},
           op: {"none", "update", "set_default", "write"},
           schema: SchemaIds \cup {None}, json: Docs \cup {None}, default: BOOLEAN,
           member: Members \cup {None}, traits: Traits \cup {None}, version: 0..MaxVersion]]
    /\ contents \subseteq SchemaIds \X (1..MaxVersion) \X Docs

Init ==
    /\ row = [s \in SchemaIds |-> None]
    /\ made = 0
    /\ pin = [m \in Members |-> None]
    /\ req = [r \in Procs |-> Idle]
    /\ contents = {}

Go(r, q) == req' = [req EXCEPT ![r] = q]

\* require_email_string_schema
RequireEmailString(d) == d \in EmailDocs

-----------------------------------------------------------------------------
(* Administration.                                                         *)

\* create_identity_schema: one INSERT, UNIQUE(tenant_id, schema_id), version 1.
\* It does not unset another default.
CreateSchema(r) ==
    /\ "create" \in Ops /\ req[r].pc = "idle" /\ made < MaxMade
    /\ \E s \in SchemaIds, d \in Docs, b \in BOOLEAN :
          /\ RequireEmailString(d) /\ row[s] = None
          /\ row' = [row EXCEPT ![s] =
                [json |-> d, version |-> 1, default |-> b, created |-> made + 1]]
          /\ contents' = contents \cup {<<s, 1, d>>}
    /\ made' = made + 1
    /\ UNCHANGED <<pin, req>>

DeleteSchema(r) ==
    /\ "delete" \in Ops /\ req[r].pc = "idle"
    /\ \E s \in SchemaIds : row[s] # None /\ row' = [row EXCEPT ![s] = None]
    /\ UNCHANGED <<made, pin, req, contents>>

\* The bound on versions: every update in flight can still take one.
VersionsLeft(s) ==
    row[s] # None =>
        row[s].version + Cardinality({p \in Procs : req[p].op = "update" /\ req[p].schema = s})
            < MaxVersion

\* update_identity_schema: only a defaulting update unsets first.
BeginUpdate(r) ==
    /\ "update" \in Ops /\ req[r].pc = "idle"
    /\ \E s \in SchemaIds, d \in Docs, b \in BOOLEAN :
          /\ RequireEmailString(d) /\ VersionsLeft(s)
          /\ Go(r, [Idle EXCEPT !.op = "update", !.schema = s, !.json = d, !.default = b,
                       !.pc = IF b THEN "unset" ELSE "update"])
    /\ UNCHANGED <<row, made, pin, contents>>

BeginSetDefault(r) ==
    /\ "set_default" \in Ops /\ req[r].pc = "idle"
    /\ \E s \in SchemaIds :
          Go(r, [Idle EXCEPT !.op = "set_default", !.schema = s, !.default = TRUE,
                    !.pc = "unset"])
    /\ UNCHANGED <<row, made, pin, contents>>

UnsetDefault(r) ==
    /\ req[r].pc = "unset"
    /\ row' = [s \in SchemaIds |->
                  IF row[s] = None THEN None ELSE [row[s] EXCEPT !.default = FALSE]]
    /\ Go(r, [req[r] EXCEPT !.pc = "update"])
    /\ UNCHANGED <<made, pin, contents>>

\* set_default touches the flag alone; update stores the document and bumps.
Updated(old, q) ==
    IF q.op = "set_default" THEN [old EXCEPT !.default = TRUE]
    ELSE [old EXCEPT !.json = q.json, !.default = q.default, !.version = @ + 1]

\* The second statement; no row is SchemaNotFound, after the unset.
UpdateSchema(r) ==
    LET q == req[r]
    IN  /\ q.pc = "update"
        /\ IF row[q.schema] = None THEN UNCHANGED <<row, contents>>
           ELSE LET new == Updated(row[q.schema], q)
                IN  /\ row' = [row EXCEPT ![q.schema] = new]
                    /\ contents' = contents \cup {<<q.schema, new.version, new.json>>}
        /\ Go(r, Idle)
        /\ UNCHANGED <<made, pin>>

-----------------------------------------------------------------------------
(* Identity writes: create_identity, update_identity, provisioning.        *)

BeginWrite(r) ==
    /\ "write" \in Ops /\ req[r].pc = "idle"
    /\ \E m \in Members, t \in Traits, s \in SchemaIds \cup {None} :
          Go(r, [Idle EXCEPT !.op = "write", !.member = m, !.traits = t, !.schema = s,
                    !.pc = "resolve"])
    /\ UNCHANGED <<row, made, pin, contents>>

\* get_default: of the rows marked default, the newest.
GetDefault ==
    {s \in SchemaIds :
        /\ row[s] # None /\ row[s].default
        /\ \A u \in SchemaIds :
              row[u] # None /\ row[u].default => row[u].created <= row[s].created}

\* resolve_schema and validate_traits.
ResolveSchema(r) ==
    LET q == req[r]
        found == IF q.schema = None THEN GetDefault
                 ELSE {s \in SchemaIds : s = q.schema /\ row[s] # None}
        valid == {s \in found : q.traits \in Accepts[row[s].json]}
    IN  /\ q.pc = "resolve"
        /\ IF valid = {} THEN Go(r, Idle)
           ELSE \E s \in valid :
                   Go(r, [q EXCEPT !.schema = s, !.version = row[s].version,
                             !.pc = "upsert"])
        /\ UNCHANGED <<row, made, pin, contents>>

\* (mutant) the pin takes the version of the row at the time of the write.
PinnedNow(q) ==
    [schema |-> q.schema, traits |-> q.traits,
     version |-> IF row[q.schema] = None THEN q.version ELSE row[q.schema].version]

\* The membership stores the schema_id and version that were resolved.
Pinned(q) == [schema |-> q.schema, version |-> q.version, traits |-> q.traits]

StoreMembership(r) ==
    /\ req[r].pc = "upsert"
    /\ pin' = [pin EXCEPT ![req[r].member] = Pinned(req[r])]
    /\ Go(r, Idle)
    /\ UNCHANGED <<row, made, contents>>

Next ==
    \E r \in Procs :
        \/ CreateSchema(r) \/ DeleteSchema(r) \/ BeginUpdate(r) \/ BeginSetDefault(r)
        \/ UnsetDefault(r) \/ UpdateSchema(r) \/ BeginWrite(r) \/ ResolveSchema(r)
        \/ StoreMembership(r)

Spec == Init /\ [][Next]_vars

-----------------------------------------------------------------------------
(* Properties.                                                             *)

\* The version a membership pins is one whose document accepted its traits,
\* although the schema may be updated, deleted or recreated between the
\* validation and the membership write.
PinsValid ==
    \A m \in Members : pin[m] # None =>
        \E c \in contents : /\ c[1] = pin[m].schema /\ c[2] = pin[m].version
                            /\ pin[m].traits \in Accepts[c[3]]

\* A version of a schema has one content: updates, also concurrent ones, take
\* a new version each.
VersionImmutable ==
    \A c, d \in contents : c[1] = d[1] /\ c[2] = d[2] => c[3] = d[3]
=============================================================================
