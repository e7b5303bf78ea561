----------------------------- MODULE Identities -----------------------------
(***************************************************************************)
(* The stores that together make up an end user: Kratos' identities, the   *)
(* gateway's id_mappings rows with backend 'kratos', tenant_memberships    *)
(* and saml_identity_mappings; and the identity provisioner, which every   *)
(* federated login runs.  No transaction spans two of the stores: a        *)
(* request is a process that takes one step per awaited call, and any call *)
(* may fail or the replica may stop between two of them.                   *)
(*                                                                         *)
(* Traits are abstracted to the email and to who wrote the rest of the     *)
(* document.  A NameId stands for a (provider_id, name_id) pair.           *)
(***************************************************************************)
EXTENDS Naturals, FiniteSets

CONSTANTS
    Tenants,        \* tenants that own identities
    Emails,         \* normalised addresses: the Kratos identifier
    NameIds,        \* SAML subjects
    Procs,          \* requests in flight
    MaxOry,         \* bound: identities Kratos ever creates
    MaxPublic,      \* bound: gateway ids (ULIDs) ever minted
    ScopedLookup,   \* Kratos finds an identity by "<tenant>:<email>"
    None            \* SQL NULL / "no row"

ASSUME IdentityAssumption ==
    /\ MaxOry \in Nat /\ MaxPublic \in Nat
    /\ ScopedLookup \in BOOLEAN
    /\ None \notin Tenants /\ None \notin Emails /\ None \notin NameIds

OryIds == 1 .. MaxOry
PublicIds == 1 .. MaxPublic

VARIABLES
    kratos,     \* Kratos: identity -> [email, by], or Gone
    mapping,    \* id_mappings: public id -> [tenant, ory], or Unmapped
    member,     \* tenant_memberships: <<tenant, public id>> -> row, or NoMember
    saml,       \* saml_identity_mappings: <<tenant, name id>> -> [public, ory]
    nextOry,    \* the next id Kratos will assign
    nextPublic, \* the next ULID the gateway will mint
    proc        \* requests: their operation, next call and local values

storeVars == <<kratos, mapping, member, saml, nextOry, nextPublic>>
identityVars == <<storeVars, proc>>

Gone == [email |-> None, by |-> "none"]
Unmapped == [tenant |-> None, ory |-> 0]
NoMember == [email |-> None, by |-> "none"]
NoSaml == [public |-> 0, ory |-> 0]

IdentityOps == {"provision", "saml", "create", "get", "update", "delete",
                "scim_create", "scim_update", "subject", "register", "settings"}

\* A request's next awaited call; "ok" and "err" are its two answers.
CallPcs == {"schema", "saml_get", "list", "find", "create", "map", "member",
            "upsert", "saml_put", "resolve", "fetch", "backfill", "put", "drop",
            "unmap", "rollback", "submit", "session", "default", "undo"}

RequestType ==
    [op: IdentityOps \cup {"none"}, pc: CallPcs \cup {"idle", "ok", "err"},
     tenant: Tenants \cup {None}, email: Emails \cup {None}, name: NameIds \cup {None},
     read: Emails \cup {None}, ory: OryIds \cup {0}, public: PublicIds \cup {0}]

StoreTypeOK ==
    /\ kratos \in [OryIds -> [email: Emails, by: {"base", "scim"}] \cup {Gone}]
    /\ mapping \in [PublicIds -> [tenant: Tenants, ory: OryIds] \cup {Unmapped}]
    /\ member \in [Tenants \X PublicIds ->
                     [email: Emails, by: {"jit", "admin", "backfill", "self"}] \cup {NoMember}]
    /\ saml \in [Tenants \X NameIds ->
                   [public: PublicIds, ory: OryIds] \cup {NoSaml}]
    /\ nextOry \in 1 .. MaxOry + 1
    /\ nextPublic \in 1 .. MaxPublic + 1

IdentityTypeOK == StoreTypeOK /\ proc \in [Procs -> RequestType]

Request(op, pc, t, e, n, k, x) ==
    [op |-> op, pc |-> pc, tenant |-> t, email |-> e, name |-> n, read |-> None,
     ory |-> k, public |-> x]

Idle == Request("none", "idle", None, None, None, 0, 0)

IdentityInit ==
    /\ kratos = [k \in OryIds |-> Gone]
    /\ mapping = [x \in PublicIds |-> Unmapped]
    /\ member = [m \in Tenants \X PublicIds |-> NoMember]
    /\ saml = [s \in Tenants \X NameIds |-> NoSaml]
    /\ nextOry = 1
    /\ nextPublic = 1
    /\ proc = [p \in Procs |-> Idle]

-----------------------------------------------------------------------------
(* Statements of the stores.                                               *)

\* Kratos: the email is the password identifier, unique over all identities.
EmailTaken(e, but) == \E k \in OryIds \ {but} : kratos[k].email = e

\* admin/identities?credentials_identifier=<tenant>:<email>
ListByIdentifier(e) == {k \in OryIds : ScopedLookup /\ kratos[k].email = e}

KratosInsert(e, by) ==
    /\ nextOry <= MaxOry
    /\ kratos' = [kratos EXCEPT ![nextOry] = [email |-> e, by |-> by]]
    /\ nextOry' = nextOry + 1

\* (mutant) the lookup is by public id alone.
MappedAnywhere(t, x) == mapping[x] # Unmapped

\* get_ory_id(tenant, 'kratos', public_id)
MappedIn(t, x) == mapping[x] # Unmapped /\ mapping[x].tenant = t

\* get_public_id(tenant, 'kratos', ory_id)
PublicIdsOf(t, k) == {x \in PublicIds : mapping[x] = [tenant |-> t, ory |-> k]}

\* (mutant) no uniqueness on the Kratos id.
CanMapAgain(t, k) == TRUE

\* UNIQUE(tenant_id, backend, ory_global_id)
CanMap(t, k) == PublicIdsOf(t, k) = {}

\* (mutant) an upsert that moves the identity's row to the caller's tenant.
InsertMappingUpsert(t, k) ==
    LET old == {x \in PublicIds : mapping[x].ory = k} IN
    /\ nextPublic <= MaxPublic
    /\ mapping' = [x \in PublicIds |->
                     IF x \in old \/ (old = {} /\ x = nextPublic)
                     THEN [tenant |-> t, ory |-> k] ELSE mapping[x]]
    /\ nextPublic' = nextPublic + 1

InsertMapping(t, k) ==
    /\ nextPublic <= MaxPublic
    /\ mapping' = [mapping EXCEPT ![nextPublic] = [tenant |-> t, ory |-> k]]
    /\ nextPublic' = nextPublic + 1

UpsertMember(t, x, e, by) ==
    member' = [member EXCEPT ![<<t, x>>] = [email |-> e, by |-> by]]

-----------------------------------------------------------------------------
(* Requests.                                                               *)

Begin(p, r) == proc[p].pc = "idle" /\ proc' = [proc EXCEPT ![p] = r]

\* The request goes on to the call pc, knowing an address and the two ids.
Moved(q, pc, read, k, x) ==
    [op |-> q.op, pc |-> pc, tenant |-> q.tenant, email |-> q.email, name |-> q.name,
     read |-> read, ory |-> k, public |-> x]

Goto(p, pc, read, k, x) == proc' = [proc EXCEPT ![p] = Moved(proc[p], pc, read, k, x)]

Step(p, pc) == Goto(p, pc, proc[p].read, proc[p].ory, proc[p].public)
StepOry(p, pc, k) == Goto(p, pc, proc[p].read, k, proc[p].public)
StepPublic(p, pc, x) == Goto(p, pc, proc[p].read, proc[p].ory, x)
StepRead(p, pc, e) == Goto(p, pc, e, proc[p].ory, proc[p].public)

Fail(p) == proc' = [proc EXCEPT ![p] = Request(proc[p].op, "err", None, None, None, 0, 0)]

\* provision(tenant, schema, claims) and provision_saml(.., name_id, email, ..)
BeginProvision(p, t, e) ==
    /\ Begin(p, Request("provision", "schema", t, e, None, 0, 0))
    /\ UNCHANGED storeVars

BeginProvisionSaml(p, t, n, e) ==
    /\ Begin(p, Request("saml", "schema", t, e, n, 0, 0))
    /\ UNCHANGED storeVars

\* schemas.get_by_schema_id, then the checks on the claims; a missing schema,
\* an unverified email of an untrusted provider and traits the schema refuses
\* end the request without effect (CallFails).
ProvisionSchema(p) ==
    /\ proc[p].pc = "schema"
    /\ Step(p, IF proc[p].op = "saml" THEN "saml_get" ELSE "list")
    /\ UNCHANGED storeVars

\* saml_mappings.get_by_name_id: a hit answers at once, whatever became of the
\* identity and of its id_mappings row.
SamlLookup(p) ==
    LET hit == saml[<<proc[p].tenant, proc[p].name>>] IN
    /\ proc[p].pc = "saml_get"
    /\ Goto(p, IF hit = NoSaml THEN "list" ELSE "ok", proc[p].read, hit.ory, hit.public)
    /\ UNCHANGED storeVars

\* (mutant) nothing found is mapped like something found.
FindByEmailNoCreate(p) ==
    /\ proc[p].pc = "list"
    /\ Step(p, "map")
    /\ UNCHANGED storeVars

\* (mutant) the first identity listed, whatever its identifier.
FindByEmailUnfiltered(p) ==
    LET found == {k \in OryIds : kratos[k] # Gone} IN
    /\ proc[p].pc = "list"
    /\ \/ /\ found = {}
          /\ Step(p, "create")
       \/ \E k \in found : StepOry(p, "find", k)
    /\ UNCHANGED storeVars

FindByEmail(p) ==
    LET found == ListByIdentifier(proc[p].email) IN
    /\ proc[p].pc = "list"
    /\ \/ /\ found = {}
          /\ Step(p, "create")
       \/ \E k \in found : StepOry(p, "find", k)
    /\ UNCHANGED storeVars

\* mappings.get_public_id; MappingNotFound mints one below, except that a
\* settings submission has no identity then.
FindPublicId(p) ==
    LET known == PublicIdsOf(proc[p].tenant, proc[p].ory)
        next == IF proc[p].op \in {"subject", "register"} THEN "ok" ELSE "member"
    IN
    /\ proc[p].pc = "find"
    /\ \/ /\ known = {}
          /\ IF proc[p].op = "settings" THEN Fail(p) ELSE Step(p, "map")
       \/ \E x \in known : StepPublic(p, next, x)
    /\ UNCHANGED storeVars

\* kratos.create_identity: 409 when the email is taken.
CreateIdentity(p) ==
    LET by == IF proc[p].op = "scim_create" THEN "scim" ELSE "base" IN
    /\ proc[p].pc = "create"
    /\ \/ /\ EmailTaken(proc[p].email, 0)
          /\ Fail(p)
          /\ UNCHANGED <<kratos, nextOry>>
       \/ /\ ~EmailTaken(proc[p].email, 0)
          /\ KratosInsert(proc[p].email, by)
          /\ StepOry(p, "map", nextOry)
       \/ /\ ~EmailTaken(proc[p].email, 0)      \* created, but the answer is lost
          /\ KratosInsert(proc[p].email, by)
          /\ Fail(p)
    /\ UNCHANGED <<mapping, member, saml, nextPublic>>

\* What follows a stored mapping: the provisioner looks for a membership, the
\* identity service writes one, a registration reads the default schema first,
\* SCIM and public_subject are done.
AfterMap(op) ==
    IF op \in {"provision", "saml"} THEN "member"
    ELSE IF op = "register" THEN "default"
    ELSE IF op = "create" THEN "upsert" ELSE "ok"

\* mappings.create with a fresh ULID; the unique constraint refuses a second
\* id for the same identity, and that error ends the request.
CreateMapping(p) ==
    /\ proc[p].pc = "map"
    /\ \/ /\ CanMap(proc[p].tenant, proc[p].ory)
          /\ InsertMapping(proc[p].tenant, proc[p].ory)
          /\ StepPublic(p, AfterMap(proc[p].op), nextPublic)
       \/ /\ ~CanMap(proc[p].tenant, proc[p].ory)
          /\ Fail(p)
          /\ UNCHANGED <<mapping, nextPublic>>
    /\ UNCHANGED <<kratos, member, saml, nextOry>>

\* (mutant) a missing membership is taken for an existing one.
EnsureMembershipSkipped(p) ==
    /\ proc[p].pc = "member" /\ proc[p].op \in {"provision", "saml"}
    /\ Step(p, IF proc[p].op = "saml" THEN "saml_put" ELSE "ok")
    /\ UNCHANGED storeVars

\* ensure_membership: memberships.get, and an upsert only when there is none.
EnsureMembership(p) ==
    LET q == proc[p]
        done == IF q.op = "saml" THEN "saml_put" ELSE "ok"
    IN
    /\ q.pc = "member" /\ q.op \in {"provision", "saml"}
    /\ Step(p, IF member[<<q.tenant, q.public>>] = NoMember THEN "upsert" ELSE done)
    /\ UNCHANGED storeVars

SeedMembership(p) ==
    LET q == proc[p] IN
    /\ q.pc = "upsert" /\ q.op \in {"provision", "saml"}
    /\ UpsertMember(q.tenant, q.public, q.email, "jit")
    /\ Step(p, IF q.op = "saml" THEN "saml_put" ELSE "ok")
    /\ UNCHANGED <<kratos, mapping, saml, nextOry, nextPublic>>

\* saml_mappings.create: UNIQUE(tenant, provider, name_id) and
\* UNIQUE(identity_public_id); a duplicate is ignored.
RecordSamlMapping(p) ==
    LET q == proc[p]
        free == /\ saml[<<q.tenant, q.name>>] = NoSaml
                /\ \A s \in DOMAIN saml : saml[s].public # q.public
    IN
    /\ q.pc = "saml_put"
    /\ saml' = IF free
               THEN [saml EXCEPT ![<<q.tenant, q.name>>] =
                        [public |-> q.public, ory |-> q.ory]]
               ELSE saml
    /\ Step(p, "ok")
    /\ UNCHANGED <<kratos, mapping, member, nextOry, nextPublic>>

ProvisionerStep(p) ==
    \/ ProvisionSchema(p)
    \/ SamlLookup(p)
    \/ FindByEmail(p)
    \/ FindPublicId(p)
    \/ CreateIdentity(p)
    \/ CreateMapping(p)
    \/ EnsureMembership(p)
    \/ SeedMembership(p)
    \/ RecordSamlMapping(p)

\* What an awaited call that returns an error leads to: `?` ends the request,
\* except that create_identity and a registration undo what they did when the
\* membership write failed, a registration takes a failed lookup for a miss, and
\* provision_saml ignores whatever the database says to its last INSERT.
AfterError(op, pc) ==
    IF op = "create" /\ pc = "upsert" THEN "rollback"
    ELSE IF op = "register" /\ pc = "upsert" THEN "undo"
    ELSE IF op = "register" /\ pc = "find" THEN "map"
    ELSE IF pc = "saml_put" THEN "ok" ELSE "err"

CallFails(p) ==
    LET next == AfterError(proc[p].op, proc[p].pc) IN
    /\ proc[p].pc \in CallPcs
    /\ IF next = "err" THEN Fail(p) ELSE Step(p, next)
    /\ UNCHANGED storeVars

\* The replica stops: the request is gone and what it wrote stays.
Crash(p) ==
    /\ proc[p].pc \in CallPcs
    /\ proc' = [proc EXCEPT ![p] = Idle]
    /\ UNCHANGED storeVars
=============================================================================
