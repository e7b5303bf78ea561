-------------------------- MODULE IdentityLifecycle --------------------------
(***************************************************************************)
(* The requests that create, read, change and delete identities: the       *)
(* identity service, the user half of the SCIM service, the provisioner of *)
(* federated logins (Identities) and the consent service's public_subject, *)
(* all on the same four stores and all in flight at once.                  *)
(***************************************************************************)
EXTENDS Identities

CONSTANT Ops    \* the operations this instance exercises

ASSUME OpsAssumption == Ops \subseteq IdentityOps

-----------------------------------------------------------------------------
(* Admission: a caller of tenant t with the scope the handler requires.    *)

BeginFederated(p) ==
    \/ /\ "provision" \in Ops
       /\ \E t \in Tenants, e \in Emails : BeginProvision(p, t, e)
    \/ /\ "saml" \in Ops
       /\ \E t \in Tenants, n \in NameIds, e \in Emails : BeginProvisionSaml(p, t, n, e)

\* create_identity and SCIM create_user: the schema is resolved and the traits
\* are validated before the first call that has an effect.
BeginCreate(p) ==
    \E op \in {"create", "scim_create"} \cap Ops, t \in Tenants, e \in Emails :
        /\ Begin(p, Request(op, "create", t, e, None, 0, 0))
        /\ UNCHANGED storeVars

\* Operations on an existing identity name it by public id; update carries the
\* email of the new traits.
BeginOnExisting(p) ==
    \E op \in {"get", "update", "delete", "scim_update"} \cap Ops,
       t \in Tenants, x \in 1 .. nextPublic - 1, e \in Emails :
        /\ Begin(p, Request(op, "resolve", t, IF op \in {"get", "delete"} THEN None ELSE e,
                            None, 0, x))
        /\ UNCHANGED storeVars

\* public_subject(tenant, ory_subject): the subject of a Hydra request.
BeginSubject(p) ==
    /\ "subject" \in Ops
    /\ \E t \in Tenants, k \in 1 .. nextOry - 1 :
        Begin(p, Request("subject", "find", t, None, None, k, 0))
    /\ UNCHANGED storeVars

\* submit_registration_flow with an email, submit_settings_flow with a profile
\* under the session of an identity.
BeginSelfService(p) ==
    /\ \/ /\ "register" \in Ops
          /\ \E t \in Tenants, e \in Emails :
                Begin(p, Request("register", "submit", t, e, None, 0, 0))
       \/ /\ "settings" \in Ops
          /\ \E t \in Tenants, k \in 1 .. nextOry - 1, e \in Emails :
                Begin(p, Request("settings", "session", t, e, None, k, 0))
    /\ UNCHANGED storeVars

-----------------------------------------------------------------------------
(* create_identity: membership, and the rollback when it cannot be written *)

StoreMembership(p) ==
    LET q == proc[p] IN
    /\ q.pc = "upsert" /\ q.op \in {"create", "update", "register", "settings"}
    /\ UpsertMember(q.tenant, q.public, q.email,
                    IF q.op \in {"create", "update"} THEN "admin" ELSE "self")
    /\ Step(p, IF q.op = "settings" THEN "put" ELSE "ok")
    /\ UNCHANGED <<kratos, mapping, saml, nextOry, nextPublic>>

\* `let _ = kratos.delete_identity(..)`, then the error of the upsert.
Rollback(p) ==
    /\ proc[p].pc = "rollback"
    /\ kratos' = [kratos EXCEPT ![proc[p].ory] = Gone]
    /\ Fail(p)
    /\ UNCHANGED <<mapping, member, saml, nextOry, nextPublic>>

-----------------------------------------------------------------------------
(* resolve_identity: mapping, membership, and a backfill from Kratos.      *)

AfterResolve(op) ==
    IF op \in {"get", "update"} THEN "member" ELSE IF op = "delete" THEN "drop" ELSE "put"

\* mappings.get_ory_id(tenant, ..): MappingNotFound ends the request.
ResolveMapping(p) ==
    LET q == proc[p] IN
    /\ q.pc = "resolve"
    /\ IF MappedIn(q.tenant, q.public)
       THEN StepOry(p, AfterResolve(q.op), mapping[q.public].ory)
       ELSE Fail(p)
    /\ UNCHANGED storeVars

\* (mutant) update_identity takes the new email as it comes.
EmailMayChange(q, email) == TRUE

\* Email is immutable: the new traits carry the membership's email.
EmailUnchanged(q, email) == q.op \in {"update", "settings"} => q.email = email

\* With the membership in hand get is done, update goes on to Kratos and a
\* settings submission stores the merged traits first.
AfterResolved(op) ==
    IF op = "get" THEN "ok" ELSE IF op = "update" THEN "put" ELSE "upsert"

Resolved(p, email) ==
    IF EmailUnchanged(proc[p], email) THEN Step(p, AfterResolved(proc[p].op)) ELSE Fail(p)

ResolveMembership(p) ==
    LET current == member[<<proc[p].tenant, proc[p].public>>] IN
    /\ proc[p].pc = "member" /\ proc[p].op \in {"get", "update", "settings"}
    /\ IF current = NoMember
       THEN Step(p, IF proc[p].op = "settings" THEN "default" ELSE "fetch")
       ELSE Resolved(p, current.email)
    /\ UNCHANGED storeVars

\* Backfill: read the identity from Kratos (404 ends the request), then upsert
\* what was read.
FetchForBackfill(p) ==
    LET found == kratos[proc[p].ory] IN
    /\ proc[p].pc = "fetch"
    /\ IF found = Gone
       THEN Fail(p)
       ELSE StepRead(p, "backfill", found.email)
    /\ UNCHANGED storeVars

Backfill(p) ==
    LET q == proc[p] IN
    /\ q.pc = "backfill"
    /\ UpsertMember(q.tenant, q.public, q.read, "backfill")
    /\ Resolved(p, q.read)
    /\ UNCHANGED <<kratos, mapping, saml, nextOry, nextPublic>>

-----------------------------------------------------------------------------
(* update_identity and SCIM update_user: the Kratos half.                  *)

\* kratos.update_identity: 404 when it is gone, 409 when the address is taken.
\* update_identity sends {email} and goes on to the membership; a settings
\* submission is reduced to {email} and is done; SCIM sends the whole trait
\* document under the tenant's schema and writes no membership.
UpdateKratos(p) ==
    LET q == proc[p] IN
    /\ q.pc = "put"
    /\ \/ /\ kratos[q.ory] = Gone \/ EmailTaken(q.email, q.ory)
          /\ Fail(p)
          /\ UNCHANGED kratos
       \/ /\ kratos[q.ory] # Gone /\ ~EmailTaken(q.email, q.ory)
          /\ kratos' = [kratos EXCEPT ![q.ory] =
                          [email |-> q.email,
                           by |-> IF q.op = "scim_update" THEN "scim" ELSE "base"]]
          /\ Step(p, IF q.op = "update" THEN "upsert" ELSE "ok")
    /\ UNCHANGED <<mapping, member, saml, nextOry, nextPublic>>

-----------------------------------------------------------------------------
(* delete_identity and SCIM delete_user.                                   *)

\* kratos.delete_identity: a 404 is an error like any other.
DeleteKratos(p) ==
    LET q == proc[p] IN
    /\ q.pc = "drop"
    /\ \/ /\ kratos[q.ory] = Gone
          /\ Fail(p)
          /\ UNCHANGED kratos
       \/ /\ kratos[q.ory] # Gone
          /\ kratos' = [kratos EXCEPT ![q.ory] = Gone]
          /\ \/ Step(p, "unmap")
             \/ Fail(p)                    \* deleted, but the answer is lost
    /\ UNCHANGED <<mapping, member, saml, nextOry, nextPublic>>

\* mappings.delete(tenant, ..): MappingNotFound when no row matched.
DeleteMapping(p) ==
    LET q == proc[p] IN
    /\ q.pc = "unmap"
    /\ IF MappedIn(q.tenant, q.public)
       THEN /\ mapping' = [mapping EXCEPT ![q.public] = Unmapped]
            /\ Step(p, "ok")
       ELSE Fail(p) /\ UNCHANGED mapping
    /\ UNCHANGED <<kratos, member, saml, nextOry, nextPublic>>

-----------------------------------------------------------------------------
(* Self-service: submit_registration_flow and submit_settings_flow.        *)

\* Kratos registers the address, or answers a replayed submission with the
\* session of the identity it made before; a taken address is refused.  An
\* answer that carries no session the gateway can read is passed on as it is.
SubmitRegistration(p) ==
    LET q == proc[p] IN
    /\ q.pc = "submit"
    /\ \/ /\ ~EmailTaken(q.email, 0)
          /\ KratosInsert(q.email, "base")
          /\ \/ StepOry(p, "find", nextOry)
             \/ Step(p, "ok")
       \/ /\ \E k \in OryIds : /\ kratos[k].email = q.email
                              /\ StepOry(p, "find", k)
          /\ UNCHANGED <<kratos, nextOry>>
       \/ /\ EmailTaken(q.email, 0)
          /\ Fail(p)
          /\ UNCHANGED <<kratos, nextOry>>
    /\ UNCHANGED <<mapping, member, saml, nextPublic>>

\* schemas.get_default: a registration then validates the traits, a settings
\* submission backfills the membership from its session.
DefaultSchema(p) ==
    /\ proc[p].pc = "default"
    /\ \/ Step(p, IF proc[p].op = "register" THEN "upsert" ELSE "backfill")
       \/ proc[p].op = "register" /\ Step(p, "undo")
    /\ UNCHANGED storeVars

\* `let _ = mappings.delete(..)`, then the error that led here.
UndoMapping(p) ==
    LET q == proc[p] IN
    /\ q.pc = "undo"
    /\ mapping' = IF MappedIn(q.tenant, q.public)
                  THEN [mapping EXCEPT ![q.public] = Unmapped] ELSE mapping
    /\ Fail(p)
    /\ UNCHANGED <<kratos, member, saml, nextOry, nextPublic>>

\* kratos.to_session: the identity of the caller's cookie, with its email.
ReadSession(p) ==
    LET found == kratos[proc[p].ory] IN
    /\ proc[p].pc = "session"
    /\ IF found = Gone
       THEN Fail(p)
       ELSE StepRead(p, "find", found.email)
    /\ UNCHANGED storeVars

-----------------------------------------------------------------------------
\* The caller has its answer.
Return(p) ==
    /\ proc[p].pc \in {"ok", "err"}
    /\ proc' = [proc EXCEPT ![p] = Idle]
    /\ UNCHANGED storeVars

ServiceStep(p) ==
    \/ StoreMembership(p)
    \/ Rollback(p)
    \/ ResolveMapping(p)
    \/ ResolveMembership(p)
    \/ FetchForBackfill(p)
    \/ Backfill(p)
    \/ UpdateKratos(p)
    \/ DeleteKratos(p)
    \/ DeleteMapping(p)
    \/ SubmitRegistration(p)
    \/ DefaultSchema(p)
    \/ UndoMapping(p)
    \/ ReadSession(p)
    \/ Return(p)

BeginStep(p) ==
    \/ BeginFederated(p)
    \/ BeginCreate(p)
    \/ BeginOnExisting(p)
    \/ BeginSubject(p)
    \/ BeginSelfService(p)

IdentityNext == \E p \in Procs :
    \/ BeginStep(p)
    \/ ProvisionerStep(p)
    \/ ServiceStep(p)
    \/ CallFails(p)
    \/ Crash(p)

IdentitySpec == IdentityInit /\ [][IdentityNext]_identityVars

-----------------------------------------------------------------------------
(* Properties.                                                             *)

Minted == 1 .. nextPublic - 1
Linked(x) == mapping[x] # Unmapped

\* Two requests that race to mint a public id for one identity (a federated
\* login, public_subject in a consent, a SCIM create) leave one mapping: a
\* tenant never sees the same person under two ids.
OnePublicIdPerIdentity ==
    \A x, y \in Minted : Linked(x) /\ mapping[x] = mapping[y] => x = y

\* tenant_memberships has no foreign key; the services keep it in step.  A
\* membership lies in the tenant its public id was mapped to, whatever
\* tenants' requests raced on that id.
MembershipInHomeTenant ==
    \A t \in Tenants, x \in PublicIds :
        /\ member[<<t, x>>] # NoMember => x \in Minted
        /\ member[<<t, x>>] # NoMember /\ Linked(x) => mapping[x].tenant = t

\* The Kratos identifier and the gateway's traits agree on the address, in
\* every interleaving of creates, updates, backfills, deletes, registrations
\* and logins, where no SCIM update takes part: those write the identity and
\* not the membership, and a backfill that read the address before one may
\* store it after.
EmailAgreement ==
    \A t \in Tenants, x \in PublicIds :
        LET k == mapping[x].ory IN
        Linked(x) /\ member[<<t, x>>] # NoMember /\ kratos[k].by = "base"
            => member[<<t, x>>].email = kratos[k].email

\* A login that was answered with success has its whole chain in place: the
\* membership, the mapping of the caller's tenant and the identity; a missing
\* mapping was taken by a delete, which takes the identity first.  (Where no
\* registration takes part: a failed one takes back the mapping it made, which
\* a login may have found meanwhile.)
OkMeansComplete ==
    \A p \in Procs :
        LET q == proc[p] IN
        q.pc = "ok" /\ q.op \in {"provision", "saml"} =>
            /\ member[<<q.tenant, q.public>>] # NoMember
            /\ \/ mapping[q.public] = [tenant |-> q.tenant, ory |-> q.ory]
               \/ mapping[q.public] = Unmapped /\ kratos[q.ory] = Gone

\* A public id stands for one person for ever: a mapping is never re-pointed
\* to another identity or another tenant, it can only be removed.
MappingNeverMoves ==
    [][\A x \in PublicIds : Linked(x) => mapping'[x] \in {mapping[x], Unmapped}]_identityVars

-----------------------------------------------------------------------------
(* The inductive invariant behind them.  Ids are never used twice, so what *)
(* a request learned about an identity or a public id stays true of it     *)
(* until it is gone: an identity keeps its address, a public id its        *)
(* mapping, a membership its tenant.                                       *)

NoUndo == "register" \notin Ops
NoScimUpdate == "scim_update" \notin Ops

Created == 1 .. nextOry - 1

\* The mapping of x, as long as it is there, is the one of k in t.
Backed(t, x, k) ==
    /\ x \in Minted /\ k \in Created
    /\ Linked(x) => mapping[x] = [tenant |-> t, ory |-> k]

\* The mapping of x is there, or the identity went before it.
Chained(x, k) == Linked(x) \/ kratos[k] = Gone

SameEmail(k, e) == kratos[k] = Gone \/ kratos[k].email = e

StoreInv ==
    /\ \A k \in OryIds : k >= nextOry => kratos[k] = Gone
    /\ \A x \in PublicIds : x >= nextPublic => mapping[x] = Unmapped
    /\ \A x \in PublicIds : Linked(x) => mapping[x].ory \in Created
    /\ OnePublicIdPerIdentity
    /\ MembershipInHomeTenant
    /\ \A t \in Tenants, n \in NameIds :
          LET s == saml[<<t, n>>] IN
          s # NoSaml => /\ Backed(t, s.public, s.ory)
                        /\ member[<<t, s.public>>] # NoMember
                        /\ NoUndo => Chained(s.public, s.ory)
    /\ NoScimUpdate =>
          \A t \in Tenants, x \in PublicIds :
              Linked(x) /\ member[<<t, x>>] # NoMember
                  => SameEmail(mapping[x].ory, member[<<t, x>>].email)

FederatedOps == {"provision", "saml"}

\* Which operation makes which call.
By(q, pcs, ops) == q.pc \in pcs => q.op \in ops

CallTable(q) ==
    /\ By(q, {"schema", "list"}, FederatedOps)
    /\ By(q, {"saml_get", "saml_put"}, {"saml"})
    /\ By(q, {"create"}, FederatedOps \cup {"create", "scim_create"})
    /\ By(q, {"find"}, FederatedOps \cup {"subject", "register", "settings"})
    /\ By(q, {"map"}, FederatedOps \cup {"create", "scim_create", "subject", "register"})
    /\ By(q, {"member"}, FederatedOps \cup {"get", "update", "settings"})
    /\ By(q, {"upsert"}, FederatedOps \cup {"create", "update", "register", "settings"})
    /\ By(q, {"resolve"}, {"get", "update", "delete", "scim_update"})
    /\ By(q, {"fetch"}, {"get", "update"})
    /\ By(q, {"backfill"}, {"get", "update", "settings"})
    /\ By(q, {"put"}, {"update", "settings", "scim_update"})
    /\ By(q, {"drop", "unmap"}, {"delete"})
    /\ By(q, {"rollback"}, {"create"})
    /\ By(q, {"submit", "undo"}, {"register"})
    /\ By(q, {"session"}, {"settings"})
    /\ By(q, {"default"}, {"register", "settings"})

\* Calls made knowing the identity, and knowing its public id as well.
WithBoth == {"member", "upsert", "saml_put", "fetch", "backfill", "put", "drop", "unmap",
             "rollback", "default", "undo"}
WithOry == WithBoth \cup {"find", "map", "session"}

\* Requests that read the identity's address, and those whose own address is
\* the identity's.
HasRead(q) == q.pc = "backfill" \/ (q.op = "settings" /\ q.pc \in {"find", "member", "default"})
Vouched(q) ==
    \/ q.pc \in {"upsert", "put"}
    \/ /\ q.pc \in {"find", "map", "member", "default"}
       /\ q.op \in FederatedOps \cup {"create", "register"}
    \/ q.pc = "ok" /\ q.op = "provision"

RequestInv(q) ==
    /\ q.op \in Ops \cup {"none"}
    /\ CallTable(q)
    /\ q.pc \in CallPcs =>
          /\ q.tenant \in Tenants
          /\ q.op \notin {"get", "delete", "subject"} => q.email \in Emails
          /\ q.op = "saml" => q.name \in NameIds
    /\ q.pc = "resolve" => q.public \in Minted
    /\ q.pc \in WithOry => q.ory \in Created
    /\ q.pc \in WithBoth => Backed(q.tenant, q.public, q.ory)
    /\ q.pc = "unmap" => kratos[q.ory] = Gone
    /\ HasRead(q) => q.read \in Emails /\ (NoScimUpdate => SameEmail(q.ory, q.read))
    /\ NoScimUpdate /\ Vouched(q) => SameEmail(q.ory, q.email)
    /\ q.op \in FederatedOps /\ q.pc \in {"saml_put", "ok"} =>
          /\ q.tenant \in Tenants /\ Backed(q.tenant, q.public, q.ory)
          /\ member[<<q.tenant, q.public>>] # NoMember
    /\ NoUndo /\ q.op \in FederatedOps /\ q.pc \in {"member", "upsert", "saml_put", "ok"} =>
          Chained(q.public, q.ory)

\* Requests that know a public id and an identity agree on which belongs to
\* which, and a membership they find has the identity's address, whether or
\* not the mapping is still there.
Holds(q) == q.pc \in WithBoth

HolderInv ==
    /\ \A p, r \in Procs :
          Holds(proc[p]) /\ Holds(proc[r]) /\ proc[p].public = proc[r].public
              => proc[p].ory = proc[r].ory
    /\ NoScimUpdate => \A p \in Procs :
          LET found == member[<<proc[p].tenant, proc[p].public>>] IN
          Holds(proc[p]) /\ found # NoMember => SameEmail(proc[p].ory, found.email)

IdentityIInv ==
    /\ IdentityTypeOK /\ StoreInv /\ HolderInv
    /\ \A p \in Procs : RequestInv(proc[p])
=============================================================================
