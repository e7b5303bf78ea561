---------------------------- MODULE DcrLifecycle ----------------------------
(***************************************************************************)
(* The life of an OAuth2 client in the gateway: dynamic registration,      *)
(* first-use consent, admin-created applications and agents, self-delete,  *)
(* the mapping heal, and the two maintenance jobs (startup backfill and    *)
(* the daily reaper of unused registrations).  Every handler is cut at its *)
(* awaits: a step is one statement on one store, and any two handlers      *)
(* interleave between their steps.  A handler may also die at any await    *)
(* (its replica crashes or a backend call fails), leaving what it wrote.   *)
(***************************************************************************)
EXTENDS ClientRegistry

CONSTANTS
    Flows,      \* consent submissions that can be in flight at once
    Replicas,   \* gateway processes, each with its own backfill and reaper
    Kinds,      \* the creating endpoints in use: subset of {"dcr","admin","agent"}
    Deletes,    \* the delete endpoints in use: subset of {"self","admin","agent"}
    RegTenants, \* tenants creations are made under (System: anonymous DCR)
    MaxBoots    \* bound: client visits by startup backfills

ASSUME LifecycleAssumption ==
    /\ Kinds \subseteq {"dcr", "admin", "agent"}
    /\ Deletes \subseteq {"self", "admin", "agent"}
    /\ RegTenants \subseteq Tenants
    /\ MaxBoots \in Nat

VARIABLES
    kind,       \* per minted public id: the endpoint that created it (it fixes
                \* Hydra's grant_types); "none" while the id is not minted
    remembered, \* Hydra: <<user, client>> pairs with a remembered consent
    reg,        \* per client: its creating request
    consent,    \* per flow: an accept_consent call
    del,        \* per client: a delete call (self, admin or agent)
    heal,       \* clients with a heal_client_mapping past its Hydra lookup
    gc,         \* per replica: the reaper's visit of one client
    boot,       \* per replica: the backfill's visit of one client
    boots,      \* visits made by backfills
    revoked     \* history: grants an admin revoked and nobody re-approved

procVars == <<kind, remembered, reg, consent, del, heal, gc, boot, boots, revoked>>
vars == <<registryVars, procVars>>

-----------------------------------------------------------------------------
IdleReg == [pc |-> "idle", tenant |-> None]
IdleFlow == [pc |-> "idle", user |-> None, client |-> None, skip |-> FALSE,
             state |-> "unresolved", owner |-> None]
IdleDel == [pc |-> "idle", kind |-> "none", tenant |-> None]
IdleVisit == [pc |-> "idle", client |-> None, tenant |-> None]

FlowPcs == {"resolve", "classify", "check", "rehome", "row", "grant", "accept"}
DelPcs == {"hydra", "tenant", "row", "tuples", "approw", "mapping"}
GcPcs == {"row", "agent", "tuples", "recheck", "hydra", "mapping"}
BootPcs == {"row", "agent", "tuples", "seed", "ensure"}

RegType == {IdleReg} \cup
    [pc: {"mapping", "row", "seed"}, tenant: Tenants]
FlowType == {IdleFlow} \cup
    [pc: FlowPcs, user: Users, client: Clients, skip: BOOLEAN,
     state: EntitlementStates, owner: Tenants \cup {None}]
DelType == {IdleDel} \cup
    [pc: DelPcs, kind: Deletes, tenant: Tenants \cup {None}]
VisitType(pcs) == {IdleVisit} \cup [pc: pcs, client: Clients, tenant: Tenants]

\* Every table holds rows of its schema and every handler is at one of its awaits.
TypeOK ==
    /\ RegistryTypeOK
    /\ kind \in [Clients -> Kinds \cup {"none"}]
    /\ remembered \subseteq Users \X Clients
    /\ reg \in [Clients -> RegType]
    /\ consent \in [Flows -> FlowType]
    /\ del \in [Clients -> DelType]
    /\ heal \subseteq Clients
    /\ gc \in [Replicas -> VisitType(GcPcs)]
    /\ boot \in [Replicas -> VisitType(BootPcs)]
    /\ boots \in 0..MaxBoots
    /\ revoked \subseteq Tenants \X Clients \X Users

Init ==
    /\ RegistryInit
    /\ kind = [c \in Clients |-> "none"]
    /\ remembered = {}
    /\ reg = [c \in Clients |-> IdleReg]
    /\ consent = [f \in Flows |-> IdleFlow]
    /\ del = [c \in Clients |-> IdleDel]
    /\ heal = {}
    /\ gc = [r \in Replicas |-> IdleVisit]
    /\ boot = [r \in Replicas |-> IdleVisit]
    /\ boots = 0
    /\ revoked = {}

-----------------------------------------------------------------------------
(* Creation: register, create_application and create_agent.                *)

\* The Hydra client is created first.  create_agent writes its agents row
\* before that; nothing reads the row until the mapping exists.
CreateClient(c, k, t) ==
    /\ kind[c] = "none"
    /\ kind' = [kind EXCEPT ![c] = k]
    /\ hydra' = hydra \cup {c}
    /\ agents' = IF k = "agent" THEN [agents EXCEPT ![c] = t] ELSE agents
    /\ reg' = [reg EXCEPT ![c] = [pc |-> "mapping", tenant |-> t]]
    /\ UNCHANGED <<mapping, old, row, members, links, remembered, consent, del,
                   heal, gc, boot, boots, revoked>>

\* The mapping insert; only create_application goes on to write a row.
CreateClientMapping(c) ==
    /\ reg[c].pc = "mapping"
    /\ CreateMapping(c, reg[c].tenant)
    /\ reg' = [reg EXCEPT ![c] = IF kind[c] = "admin" THEN [@ EXCEPT !.pc = "row"]
                                 ELSE IdleReg]
    /\ UNCHANGED <<hydra, row, members, links, agents, kind, remembered, consent,
                   del, heal, gc, boot, boots, revoked>>

\* create_application's row insert: a primary-key conflict ends the call.
CreateApplicationRow(c, cross) ==
    /\ reg[c].pc = "row"
    /\ cross => reg[c].tenant = System
    /\ IF CanInsertRow(c)
       THEN /\ InsertRow(c, reg[c].tenant, "admin", cross)
            /\ reg' = [reg EXCEPT ![c].pc = "seed"]
       ELSE /\ reg' = [reg EXCEPT ![c] = IdleReg]
            /\ UNCHANGED row
    /\ UNCHANGED <<hydra, mapping, old, members, links, agents, kind, remembered,
                   consent, del, heal, gc, boot, boots, revoked>>

CreateApplicationSeed(c) ==
    /\ reg[c].pc = "seed"
    /\ SeedApplication(reg[c].tenant, c)
    /\ reg' = [reg EXCEPT ![c] = IdleReg]
    /\ UNCHANGED <<hydra, mapping, old, row, members, agents, kind, remembered,
                   consent, del, heal, gc, boot, boots, revoked>>

AgentClients == {c \in Clients : kind[c] = "agent"}

\* No creating call compensates a failure after the Hydra client exists,
\* except create_agent, which tries to delete the agents row and the client.
CreateFails(c) ==
    /\ reg[c].pc # "idle"
    /\ reg' = [reg EXCEPT ![c] = IdleReg]
    /\ hydra' \in {hydra} \cup {hydra \ {d} : d \in {c} \cap AgentClients}
    /\ agents' \in {agents} \cup
                   {[agents EXCEPT ![d] = None] : d \in {c} \cap AgentClients}
    /\ UNCHANGED <<mapping, old, row, members, links, kind, remembered, consent,
                   del, heal, gc, boot, boots, revoked>>

-----------------------------------------------------------------------------
(* The mapping heal of resolve_public_client.                              *)

\* Nobody holds a client_id before the request that creates it has ended.
Published(c) == kind[c] # "none" /\ reg[c].pc = "idle"

HealLookup(c) ==
    /\ Published(c)
    /\ mapping[c] = None
    /\ c \in hydra
    /\ heal' = heal \cup {c}
    /\ UNCHANGED <<registryVars, kind, remembered, reg, consent, del, gc, boot,
                   boots, revoked>>

\* The insert goes to the system tenant; losing to another writer is fine.
HealCreate(c) ==
    /\ c \in heal
    /\ CreateMapping(c, System)
    /\ heal' = heal \ {c}
    /\ UNCHANGED <<hydra, row, members, links, agents, kind, remembered, reg,
                   consent, del, gc, boot, boots, revoked>>

HealFails(c) ==
    /\ c \in heal
    /\ heal' = heal \ {c}
    /\ UNCHANGED <<registryVars, kind, remembered, reg, consent, del, gc, boot,
                   boots, revoked>>

-----------------------------------------------------------------------------
(* accept_consent.                                                         *)

OtherThanConsent == <<kind, reg, del, heal, gc, boot, boots>>

EndFlow(f) == consent' = [consent EXCEPT ![f] = IdleFlow]
GotoFlow(f, pc) == consent' = [consent EXCEPT ![f].pc = pc]
SetFlow(f, pc, state, owner) ==
    consent' = [consent EXCEPT ![f] =
        [pc |-> pc, user |-> consent[f].user, client |-> consent[f].client,
         skip |-> consent[f].skip, state |-> state, owner |-> owner]]

\* Hydra hands out the consent request, with its `skip` flag.  Agent clients
\* hold only the client_credentials grant and never get one.
ConsentBegin(f, u, c) ==
    /\ consent[f].pc = "idle"
    /\ Published(c) /\ c \in hydra \ AgentClients
    /\ consent' = [consent EXCEPT ![f] =
                     [pc |-> "resolve", user |-> u, client |-> c,
                      skip |-> <<u, c>> \in remembered,
                      state |-> "unresolved", owner |-> None]]
    /\ revoked' = IF <<u, c>> \in remembered THEN revoked
                  ELSE {x \in revoked : ~(x[2] = c /\ x[3] = u)}
    /\ UNCHANGED <<registryVars, remembered, OtherThanConsent>>

\* The mapping reads of resolve_client_entitlement.  Unmapped, and a failed
\* lookup, skip the entitlement check.
ConsentResolve(f) ==
    /\ consent[f].pc = "resolve"
    /\ \/ /\ mapping[consent[f].client] # None
          /\ SetFlow(f, "classify", consent[f].state, mapping[consent[f].client])
       \/ /\ mapping[consent[f].client] = None
          /\ GotoFlow(f, "accept")
    /\ UNCHANGED <<registryVars, remembered, revoked, OtherThanConsent>>

ConsentResolveFails(f) ==
    /\ consent[f].pc \in {"resolve", "classify"}
    /\ GotoFlow(f, "accept")
    /\ UNCHANGED <<registryVars, remembered, revoked, OtherThanConsent>>

\* (mutant) the refusal of skipped consents is missing.
FirstUseIgnoringSkip(f, state, owner) ==
    SetFlow(f, IF state = "provisional" /\ owner # Home[consent[f].user]
               THEN "rehome" ELSE "row", state, owner)

\* grant_first_use up to its first write: a skipped consent is refused, and
\* the mapping is re-homed only for a client provisional in another tenant.
FirstUse(f, state, owner) ==
    IF consent[f].skip THEN EndFlow(f)
    ELSE SetFlow(f, IF state = "provisional" /\ owner # Home[consent[f].user]
                    THEN "rehome" ELSE "row", state, owner)

\* The applications read, and the arm of accept_consent it selects.
ConsentClassify(f) ==
    LET t == Home[consent[f].user]
        c == consent[f].client
        res == ClassifyOwned(c, t, consent[f].owner)
    IN  /\ consent[f].pc = "classify"
        /\ CASE res.state = "cross" /\ ~row[c].cross -> EndFlow(f)
             [] res.state = "provisional" /\ res.owner # t ->
                    FirstUse(f, res.state, res.owner)
             [] OTHER -> SetFlow(f, "check", res.state, res.owner)
        /\ UNCHANGED <<registryVars, remembered, revoked, OtherThanConsent>>

\* is_member in the owner's store; a failed check is answered like "no".
ConsentCheck(f) ==
    LET c == consent[f].client
        state == consent[f].state
    IN  /\ consent[f].pc = "check"
        /\ \E member \in {FALSE, IsMember(consent[f].owner, consent[f].user, c)} :
              IF member THEN GotoFlow(f, "accept")
              ELSE IF IsFirstUseEligible(state)
                   THEN FirstUse(f, state, consent[f].owner)
                   ELSE EndFlow(f)
        /\ UNCHANGED <<registryVars, remembered, revoked, OtherThanConsent>>

\* update_tenant names the client only: whoever owns it now is not compared.
ConsentRehome(f) ==
    LET c == consent[f].client IN
    /\ consent[f].pc = "rehome"
    /\ IF mapping[c] # None
       THEN UpdateTenant(c, Home[consent[f].user]) /\ GotoFlow(f, "row")
       ELSE EndFlow(f) /\ UNCHANGED mapping
    /\ UNCHANGED <<hydra, old, row, members, links, agents, remembered, revoked,
                   OtherThanConsent>>

ConsentRow(f) ==
    LET c == consent[f].client
        t == Home[consent[f].user]
    IN  /\ consent[f].pc = "row"
        /\ IF EnsureDcrRowOk(c, t) THEN GotoFlow(f, "grant") ELSE EndFlow(f)
        /\ EnsureDcrRow(c, t)
        /\ UNCHANGED <<hydra, mapping, old, members, links, agents, remembered,
                       revoked, OtherThanConsent>>

ConsentGrant(f) ==
    LET u == consent[f].user IN
    /\ consent[f].pc = "grant"
    /\ members' = members \cup {<<Home[u], consent[f].client, u>>}
    /\ GotoFlow(f, "accept")
    /\ UNCHANGED <<hydra, mapping, old, row, links, agents, remembered, revoked,
                   OtherThanConsent>>

\* Hydra's acceptance comes last; the caller chooses `remember`.
ConsentAccept(f, remember) ==
    /\ consent[f].pc = "accept"
    /\ EndFlow(f)
    /\ remembered' = IF remember /\ consent[f].client \in hydra
                     THEN remembered \cup {<<consent[f].user, consent[f].client>>}
                     ELSE remembered
    /\ UNCHANGED <<registryVars, revoked, OtherThanConsent>>

ConsentFails(f) ==
    /\ consent[f].pc # "idle"
    /\ EndFlow(f)
    /\ UNCHANGED <<registryVars, remembered, revoked, OtherThanConsent>>

-----------------------------------------------------------------------------
(* Deletes: delete_registered_client (self), delete_application (admin) and *)
(* delete_agent.                                                           *)

GotoDel(c, pc) == del' = [del EXCEPT ![c].pc = pc]
EndDel(c) == del' = [del EXCEPT ![c] = IdleDel]
OtherThanDel == <<kind, remembered, reg, consent, heal, gc, boot, boots, revoked>>

\* resolve_public_client (whose heal may fail to write) and the credential
\* check; Hydra's 404 jumps to the reconciliation of an orphaned mapping.
SelfDeleteBegin(c) ==
    /\ "self" \in Deletes
    /\ del[c].pc = "idle" /\ Published(c)
    /\ mapping[c] # None \/ c \in hydra
    /\ del' = [del EXCEPT ![c] =
                 [pc |-> IF c \in hydra THEN "hydra" ELSE "tenant",
                  kind |-> "self", tenant |-> None]]
    /\ UNCHANGED <<registryVars, OtherThanDel>>

\* An admin of the tenant the mapping names.
DeleteApplicationBegin(c) ==
    /\ "admin" \in Deletes
    /\ del[c].pc = "idle" /\ Published(c) /\ mapping[c] # None
    /\ del' = [del EXCEPT ![c] =
                 [pc |-> "hydra", kind |-> "admin", tenant |-> mapping[c]]]
    /\ UNCHANGED <<registryVars, OtherThanDel>>

\* delete_agent removes its agents row first; the rest is best effort.
DeleteAgentBegin(c) ==
    /\ "agent" \in Deletes
    /\ del[c].pc = "idle" /\ Published(c) /\ IsAgent(c)
    /\ agents' = [agents EXCEPT ![c] = None]
    /\ del' = [del EXCEPT ![c] =
                 [pc |-> "hydra", kind |-> "agent", tenant |-> agents[c]]]
    /\ UNCHANGED <<hydra, mapping, old, row, members, links, OtherThanDel>>

\* A client Hydra no longer has is an error to self-delete and to
\* delete_application (404).
DeleteHydraClient(c) ==
    /\ del[c].pc = "hydra" /\ del[c].kind # "agent"
    /\ hydra' = hydra \ {c}
    /\ IF c \notin hydra THEN EndDel(c)
       ELSE GotoDel(c, IF del[c].kind = "self" THEN "tenant" ELSE "approw")
    /\ UNCHANGED <<mapping, old, row, members, links, agents, OtherThanDel>>

\* delete_agent looks the mapping up in its tenant, and goes on without the
\* Hydra delete when there is none or when Hydra refuses.
DeleteAgentClient(c) ==
    /\ del[c].pc = "hydra" /\ del[c].kind = "agent"
    /\ \/ mapping[c] = del[c].tenant /\ hydra' = hydra \ {c}
       \/ UNCHANGED hydra
    /\ GotoDel(c, "mapping")
    /\ UNCHANGED <<mapping, old, row, members, links, agents, OtherThanDel>>

\* delete_application's own row delete, scoped to its tenant; a failure is
\* ignored.
DeleteApplicationRow(c) ==
    /\ del[c].pc = "approw"
    /\ \/ RowIn(c, del[c].tenant) /\ row' = [row EXCEPT ![c] = NoRow]
       \/ UNCHANGED row
    /\ GotoDel(c, "mapping")
    /\ UNCHANGED <<hydra, mapping, old, members, links, agents, OtherThanDel>>

\* delete_orphaned_client_mapping: whose mapping is it now?
OrphanTenant(c) ==
    /\ del[c].pc = "tenant" /\ del[c].kind = "self"
    /\ del' = [del EXCEPT ![c] = IF mapping[c] = None THEN IdleDel
                                 ELSE [pc |-> "row", kind |-> "self", tenant |-> mapping[c]]]
    /\ UNCHANGED <<registryVars, OtherThanDel>>

OrphanRow(c) ==
    /\ del[c].pc = "row"
    /\ GotoDel(c, IF RowIn(c, del[c].tenant) THEN "tuples" ELSE "mapping")
    /\ UNCHANGED <<registryVars, OtherThanDel>>

\* A failed removal is logged and the cleanup goes on.
OrphanTuples(c) ==
    /\ del[c].pc = "tuples"
    /\ RemoveApplication(del[c].tenant, c) \/ UNCHANGED members
    /\ GotoDel(c, "mapping")
    /\ UNCHANGED <<hydra, mapping, old, row, links, agents, OtherThanDel>>

DeleteClientMapping(c) ==
    /\ del[c].pc = "mapping"
    /\ DeleteMapping(c, del[c].tenant)
    /\ EndDel(c)
    /\ UNCHANGED <<hydra, members, links, agents, OtherThanDel>>

DeleteFails(c) ==
    /\ del[c].pc # "idle"
    /\ EndDel(c)
    /\ UNCHANGED <<registryVars, OtherThanDel>>

-----------------------------------------------------------------------------
(* The reaper: reap_registration on one client of the listing.             *)

GotoGc(r, pc) == gc' = [gc EXCEPT ![r].pc = pc]
EndGc(r) == gc' = [gc EXCEPT ![r] = IdleVisit]
OtherThanGc == <<kind, remembered, reg, consent, del, heal, boot, boots, revoked>>

\* list_mappings(tenant) and the age test; younger rows are skipped.
GcVisit(r, c) ==
    /\ gc[r].pc = "idle"
    /\ mapping[c] # None /\ c \in old
    /\ gc' = [gc EXCEPT ![r] = [pc |-> "row", client |-> c, tenant |-> mapping[c]]]
    /\ UNCHANGED <<registryVars, OtherThanGc>>

\* A check of the visit: `stop` ends it, otherwise it moves on.
GcTest(r, pc, stop, next) ==
    /\ gc[r].pc = pc
    /\ IF stop THEN EndGc(r) ELSE GotoGc(r, next)
    /\ UNCHANGED <<registryVars, OtherThanGc>>

GcCheckRow(r) == GcTest(r, "row", RowIn(gc[r].client, gc[r].tenant), "agent")

\* (mutant) the agent test is missing.
GcCheckNoAgent(r) == GcTest(r, "agent", FALSE, "tuples")

GcCheckAgent(r) == GcTest(r, "agent", IsAgent(gc[r].client), "tuples")
GcRecheckTuples(r) ==
    GcTest(r, "tuples", HasAnyTuples(gc[r].tenant, gc[r].client), "recheck")
GcRecheckRow(r) == GcTest(r, "recheck", RowIn(gc[r].client, gc[r].tenant), "hydra")

\* (mutant) any answer of Hydra lets the visit go on to the mapping.
GcDeleteHydraIgnoringErrors(r) ==
    /\ gc[r].pc = "hydra"
    /\ hydra' \in {hydra, hydra \ {gc[r].client}}
    /\ GotoGc(r, "mapping")
    /\ UNCHANGED <<mapping, old, row, members, links, agents, OtherThanGc>>

\* (mutant) a 404 is an error like any other.
GcDeleteHydraStrict(r) ==
    /\ gc[r].pc = "hydra"
    /\ hydra' = hydra \ {gc[r].client}
    /\ IF gc[r].client \in hydra THEN GotoGc(r, "mapping") ELSE EndGc(r)
    /\ UNCHANGED <<mapping, old, row, members, links, agents, OtherThanGc>>

\* Hydra first, and an already missing client is no error.
GcDeleteHydra(r) ==
    /\ gc[r].pc = "hydra"
    /\ hydra' = hydra \ {gc[r].client}
    /\ GotoGc(r, "mapping")
    /\ UNCHANGED <<mapping, old, row, members, links, agents, OtherThanGc>>

GcDeleteMapping(r) ==
    /\ gc[r].pc = "mapping"
    /\ DeleteMapping(gc[r].client, gc[r].tenant)
    /\ EndGc(r)
    /\ UNCHANGED <<hydra, members, links, agents, OtherThanGc>>

GcFails(r) ==
    /\ gc[r].pc # "idle"
    /\ EndGc(r)
    /\ UNCHANGED <<registryVars, OtherThanGc>>

-----------------------------------------------------------------------------
(* The startup backfill: backfill_client on one client of the listing.     *)

GotoBoot(r, pc) == boot' = [boot EXCEPT ![r].pc = pc]
EndBoot(r) == boot' = [boot EXCEPT ![r] = IdleVisit]
OtherThanBoot == <<kind, remembered, reg, consent, del, heal, gc, boots, revoked>>

BackfillVisit(r, c) ==
    /\ boot[r].pc = "idle"
    /\ boots < MaxBoots
    /\ mapping[c] # None
    /\ boot' = [boot EXCEPT ![r] = [pc |-> "row", client |-> c, tenant |-> mapping[c]]]
    /\ boots' = boots + 1
    /\ UNCHANGED <<registryVars, kind, remembered, reg, consent, del, heal, gc, revoked>>

BackfillTest(r, pc, stop, next) ==
    /\ boot[r].pc = pc
    /\ IF stop THEN EndBoot(r) ELSE GotoBoot(r, next)
    /\ UNCHANGED <<registryVars, OtherThanBoot>>

BackfillCheckRow(r) ==
    BackfillTest(r, "row", RowIn(boot[r].client, boot[r].tenant), "agent")
BackfillCheckAgent(r) == BackfillTest(r, "agent", IsAgent(boot[r].client), "tuples")

\* A client with any tuple is not reseeded but still gets its row.
BackfillCheckTuples(r) ==
    BackfillTest(r, "tuples", FALSE,
        IF HasAnyTuples(boot[r].tenant, boot[r].client) THEN "ensure" ELSE "seed")

BackfillSeed(r) ==
    /\ boot[r].pc = "seed"
    /\ SeedApplication(boot[r].tenant, boot[r].client)
    /\ GotoBoot(r, "ensure")
    /\ UNCHANGED <<hydra, mapping, old, row, members, agents, OtherThanBoot>>

BackfillRow(r) ==
    /\ boot[r].pc = "ensure"
    /\ EnsureDcrRow(boot[r].client, boot[r].tenant)
    /\ EndBoot(r)
    /\ UNCHANGED <<hydra, mapping, old, members, links, agents, OtherThanBoot>>

BackfillFails(r) ==
    /\ boot[r].pc # "idle"
    /\ EndBoot(r)
    /\ UNCHANGED <<registryVars, OtherThanBoot>>

-----------------------------------------------------------------------------
(* The owning tenant's admin, and time.                                    *)

OtherThanAdmin == <<kind, remembered, reg, consent, del, heal, gc, boot, boots>>

\* A per-user grant written through the permission service.
AdminGrant(c, u) ==
    /\ row[c] # NoRow
    /\ members' = members \cup {<<row[c].tenant, c, u>>}
    /\ revoked' = revoked \ {<<row[c].tenant, c, u>>}
    /\ UNCHANGED <<hydra, mapping, old, row, links, agents, OtherThanAdmin>>

\* An interactive consent of u for c that is already under way.
Approving(f, u, c) ==
    consent[f].pc # "idle" /\ consent[f].user = u /\ consent[f].client = c /\ ~consent[f].skip

\* Taking a grant away; the history keeps it unless an approval is under way.
AdminRevoke(t, c, u) ==
    /\ <<t, c, u>> \in members
    /\ members' = members \ {<<t, c, u>>}
    /\ revoked' = IF \E f \in Flows : Approving(f, u, c) THEN revoked
                  ELSE revoked \cup {<<t, c, u>>}
    /\ UNCHANGED <<hydra, mapping, old, row, links, agents, OtherThanAdmin>>

\* update_application by the row's tenant: only the system tenant sets the
\* flag, any tenant clears it.  (The mapping read before it may be stale.)
SetCrossTenant(c, cross) ==
    /\ row[c] # NoRow
    /\ cross => row[c].tenant = System
    /\ row' = [row EXCEPT ![c] =
                 [tenant |-> @.tenant, source |-> @.source, cross |-> cross]]
    /\ UNCHANGED <<hydra, mapping, old, members, links, agents, revoked, OtherThanAdmin>>

\* The unused-registration TTL passes for a mapping.
Age(c) ==
    /\ mapping[c] # None /\ c \notin old
    /\ old' = old \cup {c}
    /\ UNCHANGED <<hydra, mapping, row, members, links, agents, revoked, OtherThanAdmin>>

-----------------------------------------------------------------------------
CreateStep(c) ==
    \/ \E k \in Kinds, t \in RegTenants : CreateClient(c, k, t)
    \/ CreateClientMapping(c)
    \/ \E cross \in BOOLEAN : CreateApplicationRow(c, cross)
    \/ CreateApplicationSeed(c)
    \/ CreateFails(c)

HealStep(c) == HealLookup(c) \/ HealCreate(c) \/ HealFails(c)

ConsentStep(f) ==
    \/ \E u \in Users, c \in Clients : ConsentBegin(f, u, c)
    \/ ConsentResolve(f)
    \/ ConsentResolveFails(f)
    \/ ConsentClassify(f)
    \/ ConsentCheck(f)
    \/ ConsentRehome(f)
    \/ ConsentRow(f)
    \/ ConsentGrant(f)
    \/ \E remember \in BOOLEAN : ConsentAccept(f, remember)
    \/ ConsentFails(f)

DeleteStep(c) ==
    \/ SelfDeleteBegin(c)
    \/ DeleteApplicationBegin(c)
    \/ DeleteAgentBegin(c)
    \/ DeleteHydraClient(c)
    \/ DeleteAgentClient(c)
    \/ DeleteApplicationRow(c)
    \/ OrphanTenant(c)
    \/ OrphanRow(c)
    \/ OrphanTuples(c)
    \/ DeleteClientMapping(c)
    \/ DeleteFails(c)

GcStep(r) ==
    \/ \E c \in Clients : GcVisit(r, c)
    \/ GcCheckRow(r)
    \/ GcCheckAgent(r)
    \/ GcRecheckTuples(r)
    \/ GcRecheckRow(r)
    \/ GcDeleteHydra(r)
    \/ GcDeleteMapping(r)
    \/ GcFails(r)

BackfillStep(r) ==
    \/ \E c \in Clients : BackfillVisit(r, c)
    \/ BackfillCheckRow(r)
    \/ BackfillCheckAgent(r)
    \/ BackfillCheckTuples(r)
    \/ BackfillSeed(r)
    \/ BackfillRow(r)
    \/ BackfillFails(r)

AdminStep(c) ==
    \/ \E u \in Users : AdminGrant(c, u)
    \/ \E t \in Tenants, u \in Users : AdminRevoke(t, c, u)
    \/ \E cross \in BOOLEAN : SetCrossTenant(c, cross)
    \/ Age(c)

Next ==
    \/ \E c \in Clients : CreateStep(c) \/ HealStep(c) \/ DeleteStep(c) \/ AdminStep(c)
    \/ \E f \in Flows : ConsentStep(f)
    \/ \E r \in Replicas : GcStep(r) \/ BackfillStep(r)

Spec == Init /\ [][Next]_vars

\* Time passes, the daily worker keeps visiting every listed client, and no
\* backend call of its visits fails for ever (spawn_gc_worker loops, a failed
\* client is retried by the next pass).
Fairness ==
    /\ \A c \in Clients : WF_vars(Age(c))
    /\ \A r \in Replicas :
          /\ \A c \in Clients : SF_vars(GcVisit(r, c))
          /\ SF_vars(GcCheckRow(r))
          /\ SF_vars(GcCheckAgent(r))
          /\ SF_vars(GcRecheckTuples(r))
          /\ SF_vars(GcRecheckRow(r))
          /\ SF_vars(GcDeleteHydra(r))
          /\ SF_vars(GcDeleteMapping(r))

FairSpec == Spec /\ Fairness

-----------------------------------------------------------------------------
(* What the life cycle promises.                                           *)

\* Ownership is permanent (client_entitlement): once a client has its
\* applications row, no interleaving of consents, backfills, heals, reapers
\* and deletes changes the tenant or the registration source in it, or takes
\* it away, as long as Hydra still has the client.  It rests on every delete
\* path removing the Hydra client first.  (What is left of a deleted agent
\* follows delete_agent's best-effort order and is exempt.)
OwnershipPermanent ==
    [][\A c \in Clients \ AgentClients :
          row[c] # NoRow /\ c \in hydra' =>
              row'[c].tenant = row[c].tenant /\ row'[c].source = row[c].source]_vars

\* A live client has direct grants in the store of one tenant only, its
\* owner's: a consent that loses the claim to another tenant fails in
\* ensure_dcr_row before it reaches entitlements.grant.
GrantsInOwnerStore ==
    \A m \in members :
        m[2] \in hydra \ AgentClients => RowIn(m[2], m[1])

\* An admin-created application is never granted by first-use consent: no
\* accept_consent call is between its checks and its grant on one.
AdminNeverFirstUse ==
    \A f \in Flows :
        consent[f].pc \in {"rehome", "row", "grant"} =>
            row[consent[f].client].source # "admin"

\* A revoked grant stays revoked until its user approves again: a consent
\* Hydra remembers (skip) never brings the tuple back.
RevocationSticks == revoked \cap members = {}

\* The maintenance jobs never seed, claim or delete the client of an agent.
AgentsExempt ==
    \A r \in Replicas :
        /\ gc[r].pc \in {"hydra", "mapping"} => ~IsAgent(gc[r].client)
        /\ boot[r].pc \in {"seed", "ensure"} => ~IsAgent(boot[r].client)

\* The reaper converges: a mapped registration nobody uses is gone in the end.
UnusedEventuallyReaped ==
    \A c \in Clients :
        mapping[c] # None ~>
            \/ mapping[c] = None
            \/ row[c] # NoRow \/ \E t \in Tenants : HasAnyTuples(t, c)
            \/ IsAgent(c)

-----------------------------------------------------------------------------
(* The inductive invariant behind the promises: what each store and each    *)
(* handler in flight may rely on, whatever the other handlers do.           *)

Minted(c) == kind[c] # "none"

\* Only minted ids are known to Hydra, mapped, owned, granted, created or healed.
ClientInv(c) ==
    /\ c \in hydra \/ mapping[c] # None \/ row[c] # NoRow => Minted(c)
    /\ \A m \in members : m[2] = c => Minted(c)
    /\ c \in heal \/ reg[c].pc # "idle" => Minted(c)
    /\ IsAgent(c) => kind[c] = "agent"

\* A consent that reaches the grant is interactive, is not about an admin
\* application, and finds the row in its user's tenant unless the client is
\* gone from Hydra; while it runs, its user's revocations are forgotten.
FlowInv(f) ==
    LET c == consent[f].client
        u == consent[f].user
        pc == consent[f].pc
    IN  pc # "idle" =>
        /\ Published(c) /\ kind[c] # "agent"
        /\ pc = "grant" /\ c \in hydra => RowIn(c, Home[u])
        /\ pc \in {"rehome", "row", "grant"} =>
              ~consent[f].skip /\ row[c].source # "admin"
        /\ pc = "check" /\ IsFirstUseEligible(consent[f].state) => row[c].source # "admin"
        /\ ~consent[f].skip => \A t \in Tenants : <<t, c, u>> \notin revoked

\* A delete past its first step has removed the Hydra client.
DelInv(c) ==
    del[c].pc # "idle" =>
        /\ Minted(c)
        /\ kind[c] # "agent" =>
              del[c].kind # "agent" /\ (del[c].pc # "hydra" => c \notin hydra)

\* So has a reaper about to delete a mapping; and past its agent check it is
\* not at an agent's client.
GcInv(r) ==
    gc[r].pc # "idle" =>
        /\ Minted(gc[r].client)
        /\ gc[r].pc \in {"tuples", "recheck", "hydra", "mapping"} => ~IsAgent(gc[r].client)
        /\ gc[r].pc = "mapping" => gc[r].client \notin hydra

BootInv(r) ==
    boot[r].pc # "idle" =>
        /\ Minted(boot[r].client)
        /\ boot[r].pc \in {"tuples", "seed", "ensure"} => ~IsAgent(boot[r].client)

IInv ==
    /\ TypeOK
    /\ GrantsInOwnerStore
    /\ RevocationSticks
    /\ \A c \in Clients : ClientInv(c) /\ DelInv(c)
    /\ \A f \in Flows : FlowInv(f)
    /\ \A r \in Replicas : GcInv(r) /\ BootInv(r)

-----------------------------------------------------------------------------
(* What the repository says of the code and the code does not do.  Each of  *)
(* these is checked in a run of its own, and TLC finds it violated.         *)

\* "the client is re-homed into that user's tenant (first consent wins,
\* permanently), a registration_source = 'dcr' applications row is created
\* there" (docs/security.md): an owned client is mapped in its owner's tenant.
FirstConsentWins ==
    \A c \in hydra : row[c] # NoRow => mapping[c] = row[c].tenant

\* "Race with a concurrent first-use consent: re-check entitlement tuples and
\* the applications row immediately before deleting" (dcr_maintenance): at
\* the moment the re-check passes, the client has no applications row.
RecheckSeesConsent ==
    [][\A r \in Replicas :
          gc[r].pc = "recheck" /\ gc'[r].pc = "hydra" => row[gc[r].client] = NoRow]_vars

\* "Provisional: mapped (somewhere) but with no applications row anywhere - a
\* post-deploy DCR registration nobody has consented to yet.  Eligible; the
\* first consenting user's tenant claims it" (client_entitlement): a
\* registration gets its DCR row from a consent.
ClaimedByConsent ==
    [][\A c \in Clients :
          row[c] = NoRow /\ row'[c].source = "dcr" /\ kind[c] = "dcr" =>
              \E f \in Flows : consent[f].pc = "row" /\ consent[f].client = c]_vars
=============================================================================
