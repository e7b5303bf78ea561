-------------------------- MODULE LoginGate_proofs --------------------------
(***************************************************************************)
(* Proofs about the life cycle of clients (DcrLifecycle) and about the     *)
(* login gate that runs beside it, for every set of clients, tenants,      *)
(* users, consent flows, logins and replicas.                              *)
(*                                                                         *)
(* The argument is rely-guarantee: Rely says what no step may do to the    *)
(* stores, Stable that each handler's invariant survives a step of another *)
(* handler that respects Rely, and one lemma per action that the action    *)
(* respects Rely and re-establishes its own handler's invariant.  The      *)
(* composition implements the life cycle; a login keeps its own invariant  *)
(* because what it read is either remembered in `saw` or protected by Rely *)
(* while Hydra has the client.                                             *)
(***************************************************************************)
EXTENDS LoginGate, TLAPS

-----------------------------------------------------------------------------
(* The life cycle of clients.                                              *)

\* Once its row is written, a live client that is no agent's keeps the row's
\* tenant and source.
RowKept(c) ==
    row[c] # NoRow /\ c \in hydra' /\ kind[c] # "agent" =>
        /\ row'[c] # NoRow
        /\ row'[c].tenant = row[c].tenant
        /\ row'[c].source = row[c].source

\* What every step guarantees about one client.
RelyClient(c) ==
    /\ Minted(c) => kind'[c] = kind[c]
    /\ Minted(c) /\ c \notin hydra => c \notin hydra'
    /\ Minted(c) /\ ~IsAgent(c) => ~IsAgent(c)'
    /\ Published(c) => reg'[c].pc = "idle"
    /\ Published(c) /\ row[c].source # "admin" => row'[c].source # "admin"
    /\ RowKept(c)

\* No step records a revocation against an interactive consent under way.
RelyRevoked ==
    \A f \in Flows, t \in Tenants :
        /\ consent[f].pc # "idle" /\ ~consent[f].skip
        /\ <<t, consent[f].client, consent[f].user>> \notin revoked
        => <<t, consent[f].client, consent[f].user>> \notin revoked'

Rely == (\A c \in Clients : RelyClient(c)) /\ RelyRevoked

-----------------------------------------------------------------------------
(* A tuple of the right type added to a store.                             *)

\* A relation tuple.
LEMMA AddTriple ==
    ASSUME NEW A, NEW B, NEW C, NEW S, S \subseteq A \X B \X C,
           NEW a \in A, NEW b \in B, NEW c \in C
    PROVE  S \cup {<<a, b, c>>} \subseteq A \X B \X C
<1>1. <<a, b, c>> \in A \X B \X C
  BY Zenon
<1> QED BY Zenon, <1>1, Zenon

\* A remembered consent.
LEMMA AddPair ==
    ASSUME NEW A, NEW B, NEW S, S \subseteq A \X B, NEW a \in A, NEW b \in B
    PROVE  S \cup {<<a, b>>} \subseteq A \X B
<1>1. <<a, b>> \in A \X B
  BY Zenon
<1> QED BY Zenon, <1>1, Zenon

-----------------------------------------------------------------------------
(* What the type invariant says of a handler that is not idle.             *)

\* A consent.
LEMMA FlowActive ==
    ASSUME TypeOK, NEW f \in Flows, consent[f].pc # "idle"
    PROVE  /\ consent[f].pc \in FlowPcs
           /\ consent[f].user \in Users
           /\ consent[f].client \in Clients
           /\ consent[f].skip \in BOOLEAN
           /\ consent[f].state \in EntitlementStates
           /\ consent[f].owner \in Tenants \cup {None}
           /\ consent[f] = [pc |-> consent[f].pc, user |-> consent[f].user,
                            client |-> consent[f].client, skip |-> consent[f].skip,
                            state |-> consent[f].state, owner |-> consent[f].owner]
           /\ Home[consent[f].user] \in Tenants
BY RegistryAssumption DEF TypeOK, FlowType, IdleFlow

\* A deletion.
LEMMA DelActive ==
    ASSUME TypeOK, NEW c \in Clients, del[c].pc # "idle"
    PROVE  /\ del[c].pc \in DelPcs
           /\ del[c].kind \in Deletes
           /\ del[c].tenant \in Tenants \cup {None}
           /\ del[c] = [pc |-> del[c].pc, kind |-> del[c].kind, tenant |-> del[c].tenant]
BY DEF TypeOK, DelType, IdleDel

\* A visit of the reaper.
LEMMA GcActive ==
    ASSUME TypeOK, NEW r \in Replicas, gc[r].pc # "idle"
    PROVE  /\ gc[r].pc \in GcPcs
           /\ gc[r].client \in Clients
           /\ gc[r].tenant \in Tenants
           /\ gc[r] = [pc |-> gc[r].pc, client |-> gc[r].client, tenant |-> gc[r].tenant]
BY DEF TypeOK, VisitType, IdleVisit

\* A visit of the startup backfill.
LEMMA BootActive ==
    ASSUME TypeOK, NEW r \in Replicas, boot[r].pc # "idle"
    PROVE  /\ boot[r].pc \in BootPcs
           /\ boot[r].client \in Clients
           /\ boot[r].tenant \in Tenants
           /\ boot[r] = [pc |-> boot[r].pc, client |-> boot[r].client, tenant |-> boot[r].tenant]
BY DEF TypeOK, VisitType, IdleVisit

-----------------------------------------------------------------------------
(* A handler that does not move keeps its invariant under Rely.            *)

\* A consent between two awaited calls.
LEMMA FlowStable ==
    ASSUME TypeOK, Rely, NEW f \in Flows, FlowInv(f), consent'[f] = consent[f]
    PROVE  FlowInv(f)'
<1> DEFINE c == consent[f].client
           u == consent[f].user
<1>1. CASE consent[f].pc = "idle"
  BY Zenon, <1>1 DEF FlowInv
<1>2. CASE consent[f].pc # "idle"
  <2>1. c \in Clients /\ u \in Users /\ Home[u] \in Tenants
    BY Zenon, <1>2, FlowActive
  <2>2. Published(c) /\ kind[c] # "agent"
    BY Zenon, <1>2 DEF FlowInv
  <2>3. RelyClient(c) /\ Minted(c)
    BY Zenon, <2>1, <2>2 DEF Rely, Published, Minted
  <2>4. Published(c)' /\ kind'[c] # "agent"
    BY Zenon, <2>2, <2>3 DEF Published, RelyClient, Minted
  <2>5. consent[f].pc = "grant" /\ c \in hydra' => RowIn(c, Home[u])'
    <3> SUFFICES ASSUME consent[f].pc = "grant", c \in hydra' PROVE RowIn(c, Home[u])'
      BY Zenon
    <3>1. c \in hydra
      BY Zenon, <2>3 DEF RelyClient
    <3>2. RowIn(c, Home[u])
      BY Zenon, <3>1 DEF FlowInv
    <3> QED BY Zenon, <2>2, <2>3, <3>2 DEF RelyClient, RowKept, RowIn
  <2>6. row[c].source # "admin" => row'[c].source # "admin"
    BY Zenon, <2>2, <2>3 DEF RelyClient
  <2>7. ~consent[f].skip => \A t \in Tenants : <<t, c, u>> \notin revoked'
    BY Zenon, <1>2 DEF FlowInv, Rely, RelyRevoked
  <2> QED BY Zenon, <1>2, <2>4, <2>5, <2>6, <2>7 DEF FlowInv
<1> QED BY Zenon, <1>1, <1>2

\* A deletion between two awaited calls.
LEMMA DelStable ==
    ASSUME Rely, NEW c \in Clients, DelInv(c), del'[c] = del[c]
    PROVE  DelInv(c)'
BY Zenon DEF Rely, RelyClient, DelInv, Minted

\* A visit of the reaper between its tests and its deletes.
LEMMA GcStable ==
    ASSUME TypeOK, Rely, NEW r \in Replicas, GcInv(r), gc'[r] = gc[r]
    PROVE  GcInv(r)'
BY Zenon, GcActive DEF Rely, RelyClient, GcInv, Minted

\* A visit of the backfill between its tests and its writes.
LEMMA BootStable ==
    ASSUME TypeOK, Rely, NEW r \in Replicas, BootInv(r), boot'[r] = boot[r]
    PROVE  BootInv(r)'
BY Zenon, BootActive DEF Rely, RelyClient, BootInv, Minted

-----------------------------------------------------------------------------
(* From the parts to the whole.                                            *)

\* A step needs only what it changes shown: the rest is stable.
LEMMA Combine ==
    ASSUME IInv, TypeOK', Rely, GrantsInOwnerStore', RevocationSticks',
           \A c \in Clients : ClientInv(c)',
           \A f \in Flows : consent'[f] = consent[f] \/ FlowInv(f)',
           \A c \in Clients : del'[c] = del[c] \/ DelInv(c)',
           \A r \in Replicas : gc'[r] = gc[r] \/ GcInv(r)',
           \A r \in Replicas : boot'[r] = boot[r] \/ BootInv(r)'
    PROVE  IInv'
<1>1. \A f \in Flows : FlowInv(f)'
  BY Zenon, FlowStable DEF IInv
<1>2. \A c \in Clients : DelInv(c)'
  BY Zenon, DelStable DEF IInv
<1>3. \A r \in Replicas : GcInv(r)'
  BY Zenon, GcStable DEF IInv
<1>4. \A r \in Replicas : BootInv(r)'
  BY Zenon, BootStable DEF IInv
<1> QED BY Zenon, <1>1, <1>2, <1>3, <1>4 DEF IInv

\* A step that leaves the stores, the creations and the history alone.
LEMMA Quiet ==
    ASSUME IInv, UNCHANGED <<registryVars, kind, reg, heal, revoked>>
    PROVE  /\ Rely
           /\ GrantsInOwnerStore'
           /\ RevocationSticks'
           /\ \A c \in Clients : ClientInv(c)'
           /\ RegistryTypeOK'
<1>1. Rely
  BY Zenon DEF Rely, RelyClient, RelyRevoked, RowKept, Minted, IsAgent, Published, registryVars
<1>2. GrantsInOwnerStore' /\ RevocationSticks'
  BY Zenon DEF IInv, GrantsInOwnerStore, RevocationSticks, AgentClients, RowIn, registryVars
<1>3. \A c \in Clients : ClientInv(c)'
  BY Zenon DEF IInv, ClientInv, Minted, IsAgent, registryVars
<1>4. RegistryTypeOK'
  BY Zenon DEF IInv, TypeOK, RegistryTypeOK, registryVars
<1> QED BY Zenon, <1>1, <1>2, <1>3, <1>4

\* A step that moves one consent and writes no row.
LEMMA FlowOnly ==
    ASSUME IInv, NEW f \in Flows,
           UNCHANGED <<registryVars, revoked, OtherThanConsent>>,
           remembered' \subseteq Users \X Clients,
           consent' \in [Flows -> FlowType],
           \A g \in Flows : g # f => consent'[g] = consent[g],
           FlowInv(f)'
    PROVE  IInv' /\ Rely
<1>1. UNCHANGED <<registryVars, kind, reg, heal, revoked>>
  BY Zenon DEF OtherThanConsent
<1>2. TypeOK'
  BY Zenon, <1>1, Quiet DEF IInv, TypeOK, OtherThanConsent
<1> QED BY Zenon, <1>1, <1>2, Quiet, Combine DEF OtherThanConsent

\* A step that moves one deletion and writes no row.
LEMMA DelOnly ==
    ASSUME IInv, NEW c \in Clients,
           UNCHANGED <<registryVars, OtherThanDel>>,
           del' \in [Clients -> DelType],
           \A d \in Clients : d # c => del'[d] = del[d],
           DelInv(c)'
    PROVE  IInv' /\ Rely
<1>1. UNCHANGED <<registryVars, kind, reg, heal, revoked>>
  BY Zenon DEF OtherThanDel
<1>2. TypeOK'
  BY Zenon, <1>1, Quiet DEF IInv, TypeOK, OtherThanDel
<1> QED BY Zenon, <1>1, <1>2, Quiet, Combine DEF OtherThanDel

\* A step that moves one reaper visit and writes no row.
LEMMA GcOnly ==
    ASSUME IInv, NEW r \in Replicas,
           UNCHANGED <<registryVars, OtherThanGc>>,
           gc' \in [Replicas -> VisitType(GcPcs)],
           \A q \in Replicas : q # r => gc'[q] = gc[q],
           GcInv(r)'
    PROVE  IInv' /\ Rely
<1>1. UNCHANGED <<registryVars, kind, reg, heal, revoked>>
  BY Zenon DEF OtherThanGc
<1>2. TypeOK'
  BY Zenon, <1>1, Quiet DEF IInv, TypeOK, OtherThanGc
<1> QED BY Zenon, <1>1, <1>2, Quiet, Combine DEF OtherThanGc

\* A step that moves one backfill visit and writes no row.
LEMMA BootOnly ==
    ASSUME IInv, NEW r \in Replicas,
           UNCHANGED <<registryVars, kind, remembered, reg, consent, del, heal, gc, revoked>>,
           boots' \in 0..MaxBoots,
           boot' \in [Replicas -> VisitType(BootPcs)],
           \A q \in Replicas : q # r => boot'[q] = boot[q],
           BootInv(r)'
    PROVE  IInv' /\ Rely
<1>1. UNCHANGED <<registryVars, kind, reg, heal, revoked>>
  BY Zenon
<1>2. TypeOK'
  BY Zenon, <1>1, Quiet DEF IInv, TypeOK
<1> QED BY Zenon, <1>1, <1>2, Quiet, Combine

-----------------------------------------------------------------------------
(* What moving or ending a handler does to it.                             *)

\* A consent goes on.
LEMMA GotoFlowEffect ==
    ASSUME TypeOK, NEW f \in Flows, NEW pc \in FlowPcs, consent[f].pc # "idle",
           GotoFlow(f, pc)
    PROVE  /\ consent' \in [Flows -> FlowType]
           /\ \A g \in Flows : g # f => consent'[g] = consent[g]
           /\ consent'[f].pc = pc
           /\ consent'[f].user = consent[f].user
           /\ consent'[f].client = consent[f].client
           /\ consent'[f].skip = consent[f].skip
           /\ consent'[f].state = consent[f].state
BY FlowActive DEF TypeOK, FlowType, GotoFlow

\* A consent ends.
LEMMA EndFlowEffect ==
    ASSUME TypeOK, NEW f \in Flows, EndFlow(f)
    PROVE  /\ consent' \in [Flows -> FlowType]
           /\ \A g \in Flows : g # f => consent'[g] = consent[g]
           /\ FlowInv(f)'
BY Zenon DEF TypeOK, FlowType, EndFlow, IdleFlow, FlowInv

\* Setting program counter, state and owner at once.
LEMMA SetFlowEffect ==
    ASSUME TypeOK, NEW f \in Flows, consent[f].pc # "idle", NEW pc \in FlowPcs,
           NEW state \in EntitlementStates, NEW owner \in Tenants \cup {None},
           SetFlow(f, pc, state, owner)
    PROVE  /\ consent' \in [Flows -> FlowType]
           /\ \A g \in Flows : g # f => consent'[g] = consent[g]
           /\ consent'[f].pc = pc
           /\ consent'[f].user = consent[f].user
           /\ consent'[f].client = consent[f].client
           /\ consent'[f].skip = consent[f].skip
           /\ consent'[f].state = state
<1> DEFINE x == [pc |-> pc, user |-> consent[f].user, client |-> consent[f].client,
                skip |-> consent[f].skip, state |-> state, owner |-> owner]
<1>1. x \in FlowType
  BY Zenon, FlowActive DEF FlowType
<1>2. consent' = [consent EXCEPT ![f] = x] /\ consent \in [Flows -> FlowType]
  BY Zenon DEF TypeOK, SetFlow
<1> QED BY Zenon, <1>1, <1>2

\* A deletion goes on.
LEMMA GotoDelEffect ==
    ASSUME TypeOK, NEW c \in Clients, NEW pc \in DelPcs, del[c].pc # "idle",
           GotoDel(c, pc)
    PROVE  /\ del' \in [Clients -> DelType]
           /\ \A d \in Clients : d # c => del'[d] = del[d]
           /\ del'[c].pc = pc
           /\ del'[c].kind = del[c].kind
           /\ del'[c].tenant = del[c].tenant
BY DelActive DEF TypeOK, DelType, GotoDel

\* A deletion ends.
LEMMA EndDelEffect ==
    ASSUME TypeOK, NEW c \in Clients, EndDel(c)
    PROVE  /\ del' \in [Clients -> DelType]
           /\ \A d \in Clients : d # c => del'[d] = del[d]
           /\ DelInv(c)'
BY Zenon DEF TypeOK, DelType, EndDel, IdleDel, DelInv

\* A reaper visit goes on.
LEMMA GotoGcEffect ==
    ASSUME TypeOK, NEW r \in Replicas, NEW pc \in GcPcs, gc[r].pc # "idle",
           GotoGc(r, pc)
    PROVE  /\ gc' \in [Replicas -> VisitType(GcPcs)]
           /\ \A q \in Replicas : q # r => gc'[q] = gc[q]
           /\ gc'[r].pc = pc
           /\ gc'[r].client = gc[r].client
           /\ gc'[r].tenant = gc[r].tenant
BY GcActive DEF TypeOK, VisitType, GotoGc

\* A reaper visit ends.
LEMMA EndGcEffect ==
    ASSUME TypeOK, NEW r \in Replicas, EndGc(r)
    PROVE  /\ gc' \in [Replicas -> VisitType(GcPcs)]
           /\ \A q \in Replicas : q # r => gc'[q] = gc[q]
           /\ GcInv(r)'
BY Zenon DEF TypeOK, VisitType, EndGc, IdleVisit, GcInv

\* A backfill visit goes on.
LEMMA GotoBootEffect ==
    ASSUME TypeOK, NEW r \in Replicas, NEW pc \in BootPcs, boot[r].pc # "idle",
           GotoBoot(r, pc)
    PROVE  /\ boot' \in [Replicas -> VisitType(BootPcs)]
           /\ \A q \in Replicas : q # r => boot'[q] = boot[q]
           /\ boot'[r].pc = pc
           /\ boot'[r].client = boot[r].client
           /\ boot'[r].tenant = boot[r].tenant
BY BootActive DEF TypeOK, VisitType, GotoBoot

\* A backfill visit ends.
LEMMA EndBootEffect ==
    ASSUME TypeOK, NEW r \in Replicas, EndBoot(r)
    PROVE  /\ boot' \in [Replicas -> VisitType(BootPcs)]
           /\ \A q \in Replicas : q # r => boot'[q] = boot[q]
           /\ BootInv(r)'
BY Zenon DEF TypeOK, VisitType, EndBoot, IdleVisit, BootInv

-----------------------------------------------------------------------------
(* What the store statements do to applications and id_mappings.           *)

\* ensure_dcr_row inserts where there is no row, and changes none.
LEMMA EnsureDcrRowEffect ==
    ASSUME TypeOK, NEW c \in Clients, NEW t \in Tenants, EnsureDcrRow(c, t)
    PROVE  /\ row' \in [Clients -> Rows \cup {NoRow}]
           /\ \A d \in Clients : row[d] # NoRow => row'[d] = row[d]
           /\ \A d \in Clients : row'[d] = row[d] \/ row'[d].source = "dcr"
           /\ EnsureDcrRowOk(c, t) => row'[c] # NoRow /\ row'[c].tenant = t
<1>1. CASE CanInsertRow(c)
  <2> DEFINE new == [tenant |-> t, source |-> "dcr", cross |-> FALSE]
  <2>1. row' = [row EXCEPT ![c] = new] /\ row[c] = NoRow
    BY Zenon, <1>1 DEF EnsureDcrRow, InsertRow, CanInsertRow
  <2>2. new \in Rows /\ new.tenant = t /\ new.source = "dcr"
    BY Zenon DEF Rows
  <2>3. new # NoRow
    BY Zenon, <2>2, RegistryAssumption DEF NoRow
  <2> HIDE DEF new
  <2> QED BY Zenon, <2>1, <2>2, <2>3 DEF TypeOK, RegistryTypeOK
<1>2. CASE ~CanInsertRow(c)
  BY Zenon, <1>2 DEF EnsureDcrRow, EnsureDcrRowOk, RowIn, TypeOK, RegistryTypeOK
<1> QED BY Zenon, <1>1, <1>2

\* Deleting a mapping takes the applications row with it, by cascade.
LEMMA DeleteMappingEffect ==
    ASSUME TypeOK, NEW c \in Clients, NEW t, DeleteMapping(c, t)
    PROVE  /\ row' \in [Clients -> Rows \cup {NoRow}]
           /\ mapping' \in [Clients -> Tenants \cup {None}]
           /\ old' \subseteq Clients
           /\ \A d \in Clients : d # c => row'[d] = row[d]
           /\ \A d \in Clients : row'[d] = row[d] \/ row'[d] = NoRow
           /\ \A d \in Clients : mapping'[d] # None => mapping[d] # None
BY Zenon DEF TypeOK, RegistryTypeOK, DeleteMapping

-----------------------------------------------------------------------------
(* accept_consent.                                                         *)

\* FirstUse ends a skipped consent, and otherwise goes on to write.
LEMMA FirstUseStep ==
    ASSUME IInv, NEW f \in Flows, consent[f].pc # "idle",
           NEW state \in EntitlementStates, NEW owner \in Tenants \cup {None},
           FirstUse(f, state, owner),
           row[consent[f].client].source # "admin",
           UNCHANGED <<registryVars, remembered, revoked, OtherThanConsent>>
    PROVE  IInv' /\ Rely
<1> DEFINE c == consent[f].client
<1>0. TypeOK /\ FlowInv(f) /\ remembered \subseteq Users \X Clients
  BY Zenon DEF IInv, TypeOK
<1>1. CASE consent[f].skip
  <2>1. EndFlow(f)
    BY Zenon, <1>1 DEF FirstUse
  <2> QED BY Zenon, <1>0, <2>1, EndFlowEffect, FlowOnly
<1>2. CASE ~consent[f].skip
  <2>1. PICK pc \in {"rehome", "row"} : SetFlow(f, pc, state, owner)
    BY Zenon, <1>2 DEF FirstUse
  <2>2. /\ consent' \in [Flows -> FlowType]
        /\ \A g \in Flows : g # f => consent'[g] = consent[g]
        /\ consent'[f].pc = pc
        /\ consent'[f].user = consent[f].user
        /\ consent'[f].client = c
        /\ consent'[f].skip = consent[f].skip
    BY <1>0, <2>1, SetFlowEffect DEF FlowPcs
  <2>3. FlowInv(f)'
    BY Zenon, <1>0, <1>2, <2>2
    DEF FlowInv, Published, OtherThanConsent, registryVars
  <2> QED BY Zenon, <1>0, <2>2, <2>3, FlowOnly
<1> QED BY Zenon, <1>1, <1>2

\* A consent request arrives, with Hydra's skip flag.
LEMMA ConsentBeginStep ==
    ASSUME IInv, NEW f \in Flows, NEW u \in Users, NEW c \in Clients, ConsentBegin(f, u, c)
    PROVE  IInv' /\ Rely
<1>1. /\ consent' \in [Flows -> FlowType]
      /\ \A g \in Flows : g # f => consent'[g] = consent[g]
      /\ consent'[f].pc = "resolve"
      /\ consent'[f].user = u
      /\ consent'[f].client = c
      /\ consent'[f].skip = (<<u, c>> \in remembered)
  BY DEF IInv, TypeOK, ConsentBegin, FlowType, FlowPcs, IdleFlow, EntitlementStates
<1>2. /\ revoked' \subseteq revoked
      /\ ~consent'[f].skip => \A t \in Tenants : <<t, c, u>> \notin revoked'
  BY Zenon, <1>1 DEF ConsentBegin
<1>3. FlowInv(f)'
  BY Zenon, <1>1, <1>2
  DEF ConsentBegin, FlowInv, Published, AgentClients, OtherThanConsent, registryVars
<1>4. TypeOK'
  BY Zenon, <1>1, <1>2
     DEF IInv, TypeOK, RegistryTypeOK, ConsentBegin, OtherThanConsent, registryVars
<1>5. Rely
  BY Zenon, <1>2 DEF Rely, RelyClient, RelyRevoked, RowKept, Minted, IsAgent, Published,
              ConsentBegin, OtherThanConsent, registryVars
<1>6. GrantsInOwnerStore' /\ RevocationSticks'
  BY Zenon, <1>2 DEF IInv, GrantsInOwnerStore, RevocationSticks, AgentClients, RowIn,
              ConsentBegin, OtherThanConsent, registryVars
<1>7. \A d \in Clients : ClientInv(d)'
  BY Zenon DEF IInv, ClientInv, Minted, IsAgent, ConsentBegin, OtherThanConsent, registryVars
<1> QED
  BY Zenon, <1>1, <1>3, <1>4, <1>5, <1>6, <1>7, Combine DEF ConsentBegin, OtherThanConsent

\* The client's owner is resolved, or the consent is refused.
LEMMA ConsentResolveStep ==
    ASSUME IInv, NEW f \in Flows, ConsentResolve(f) \/ ConsentResolveFails(f)
    PROVE  IInv' /\ Rely
<1>0. TypeOK /\ FlowInv(f) /\ consent[f].pc # "idle"
  BY Zenon DEF IInv, ConsentResolve, ConsentResolveFails
<1>1. /\ UNCHANGED <<registryVars, remembered, revoked, OtherThanConsent>>
      /\ remembered \subseteq Users \X Clients
  BY Zenon DEF IInv, TypeOK, ConsentResolve, ConsentResolveFails
<1>2. CASE GotoFlow(f, "accept")
  <2>1. FlowInv(f)'
    BY Zenon, <1>0, <1>1, <1>2, GotoFlowEffect
    DEF FlowInv, FlowPcs, Published, OtherThanConsent, registryVars
  <2> QED BY Zenon, <1>0, <1>1, <1>2, <2>1, GotoFlowEffect, FlowOnly DEF FlowPcs
<1>3. CASE SetFlow(f, "classify", consent[f].state, mapping[consent[f].client])
  <2>1. /\ consent' \in [Flows -> FlowType]
        /\ \A g \in Flows : g # f => consent'[g] = consent[g]
        /\ consent'[f].pc = "classify"
        /\ consent'[f].user = consent[f].user
        /\ consent'[f].client = consent[f].client
        /\ consent'[f].skip = consent[f].skip
    <3>1. mapping[consent[f].client] \in Tenants \cup {None}
      BY Zenon, <1>0, FlowActive DEF TypeOK, RegistryTypeOK
    <3> QED BY ZenonT(40), <1>0, <1>3, <3>1, SetFlowEffect, FlowActive DEF FlowPcs
  <2>2. FlowInv(f)'
    BY Zenon, <1>0, <1>1, <2>1 DEF FlowInv, Published, OtherThanConsent, registryVars
  <2> QED BY Zenon, <1>0, <1>1, <2>1, <2>2, FlowOnly
<1> QED BY Zenon, <1>2, <1>3 DEF ConsentResolve, ConsentResolveFails

\* The client is classified by its application row.
LEMMA ConsentClassifyStep ==
    ASSUME IInv, NEW f \in Flows, ConsentClassify(f)
    PROVE  IInv' /\ Rely
<1> DEFINE t == Home[consent[f].user]
           c == consent[f].client
           res == ClassifyOwned(c, t, consent[f].owner)
<1>0. /\ TypeOK /\ FlowInv(f) /\ consent[f].pc # "idle"
      /\ UNCHANGED <<registryVars, remembered, revoked, OtherThanConsent>>
      /\ remembered \subseteq Users \X Clients
  BY Zenon DEF IInv, TypeOK, ConsentClassify
<1>1. c \in Clients /\ t \in Tenants /\ consent[f].owner \in Tenants \cup {None}
  BY Zenon, <1>0, FlowActive
<1>2. row[c] \in Rows \cup {NoRow}
  BY Zenon, <1>0, <1>1 DEF TypeOK, RegistryTypeOK
<1>3. /\ res.state \in EntitlementStates
      /\ res.owner \in Tenants \cup {None}
      /\ IsFirstUseEligible(res.state) => row[c].source # "admin"
  BY <1>1, <1>2 DEF ClassifyOwned, EntitlementStates, IsFirstUseEligible, Rows, NoRow
<1>4. \/ EndFlow(f)
      \/ res.state = "provisional" /\ FirstUse(f, res.state, res.owner)
      \/ SetFlow(f, "check", res.state, res.owner)
  BY Zenon DEF ConsentClassify
<1> HIDE DEF res
<1>5. CASE EndFlow(f)
  BY Zenon, <1>0, <1>5, EndFlowEffect, FlowOnly
<1>6. CASE res.state = "provisional" /\ FirstUse(f, res.state, res.owner)
  <2>1. row[c].source # "admin"
    BY Zenon, <1>3, <1>6 DEF IsFirstUseEligible
  <2> QED BY Zenon, <1>0, <1>3, <1>6, <2>1, FirstUseStep
<1>7. CASE SetFlow(f, "check", res.state, res.owner)
  <2>1. /\ consent' \in [Flows -> FlowType]
        /\ \A g \in Flows : g # f => consent'[g] = consent[g]
        /\ consent'[f].pc = "check"
        /\ consent'[f].user = consent[f].user
        /\ consent'[f].client = c
        /\ consent'[f].skip = consent[f].skip
        /\ consent'[f].state = res.state
    BY Zenon, <1>0, <1>3, <1>7, SetFlowEffect DEF FlowPcs
  <2>2. FlowInv(f)'
    BY Zenon, <1>0, <1>3, <2>1
    DEF FlowInv, Published, OtherThanConsent, registryVars, IsFirstUseEligible
  <2> QED BY Zenon, <1>0, <2>1, <2>2, FlowOnly
<1> QED BY Zenon, <1>4, <1>5, <1>6, <1>7

\* The membership check, and the first-use exemption.
LEMMA ConsentCheckStep ==
    ASSUME IInv, NEW f \in Flows, ConsentCheck(f)
    PROVE  IInv' /\ Rely
<1> DEFINE c == consent[f].client
           s == consent[f].state
<1>0. /\ TypeOK /\ FlowInv(f) /\ consent[f].pc = "check"
      /\ UNCHANGED <<registryVars, remembered, revoked, OtherThanConsent>>
      /\ remembered \subseteq Users \X Clients
  BY Zenon DEF IInv, TypeOK, ConsentCheck
<1>1. \/ GotoFlow(f, "accept")
      \/ IsFirstUseEligible(s) /\ FirstUse(f, s, consent[f].owner)
      \/ EndFlow(f)
  BY Zenon DEF ConsentCheck
<1>2. CASE GotoFlow(f, "accept")
  <2>1. FlowInv(f)'
    BY Zenon, <1>0, <1>2, GotoFlowEffect
    DEF FlowInv, FlowPcs, Published, OtherThanConsent, registryVars
  <2> QED BY Zenon, <1>0, <1>2, <2>1, GotoFlowEffect, FlowOnly DEF FlowPcs
<1>3. CASE IsFirstUseEligible(s) /\ FirstUse(f, s, consent[f].owner)
  <2>1. row[c].source # "admin"
    BY Zenon, <1>0, <1>3 DEF FlowInv
  <2> QED BY Zenon, <1>0, <1>3, <2>1, FirstUseStep, FlowActive
<1>4. CASE EndFlow(f)
  BY Zenon, <1>0, <1>4, EndFlowEffect, FlowOnly
<1> QED BY Zenon, <1>1, <1>2, <1>3, <1>4

\* A first use re-homes an unclaimed client to the user's tenant.
LEMMA ConsentRehomeStep ==
    ASSUME IInv, NEW f \in Flows, ConsentRehome(f)
    PROVE  IInv' /\ Rely
<1> DEFINE c == consent[f].client
           t == Home[consent[f].user]
<1>0. /\ TypeOK /\ FlowInv(f) /\ consent[f].pc = "rehome"
      /\ UNCHANGED <<hydra, old, row, members, links, agents, remembered, revoked,
                     OtherThanConsent>>
  BY Zenon DEF IInv, ConsentRehome
<1>1. c \in Clients /\ t \in Tenants
  BY Zenon, <1>0, FlowActive
<1>2. /\ mapping' \in [Clients -> Tenants \cup {None}]
      /\ \A d \in Clients : mapping'[d] # None => mapping[d] # None
  BY Zenon, <1>0, <1>1 DEF TypeOK, RegistryTypeOK, ConsentRehome, UpdateTenant
<1>3. GotoFlow(f, "row") \/ EndFlow(f)
  BY Zenon DEF ConsentRehome
<1>4. /\ consent' \in [Flows -> FlowType]
      /\ \A g \in Flows : g # f => consent'[g] = consent[g]
      /\ FlowInv(f)'
  <2>1. CASE GotoFlow(f, "row")
    <3>1. FlowInv(f)'
      BY Zenon, <1>0, <2>1, GotoFlowEffect DEF FlowInv, FlowPcs, Published, OtherThanConsent
    <3> QED BY Zenon, <1>0, <2>1, <3>1, GotoFlowEffect DEF FlowPcs
  <2>2. CASE EndFlow(f)
    BY Zenon, <1>0, <2>2, EndFlowEffect
  <2> QED BY Zenon, <1>3, <2>1, <2>2
<1>5. TypeOK'
  BY Zenon, <1>0, <1>2, <1>4 DEF TypeOK, RegistryTypeOK, OtherThanConsent
<1>6. Rely
  BY Zenon, <1>0 DEF Rely, RelyClient, RelyRevoked, RowKept, Minted, IsAgent, Published,
              OtherThanConsent
<1>7. GrantsInOwnerStore' /\ RevocationSticks'
  BY Zenon, <1>0 DEF IInv, GrantsInOwnerStore, RevocationSticks, AgentClients, RowIn,
              OtherThanConsent
<1>8. \A d \in Clients : ClientInv(d)'
  BY Zenon, <1>0, <1>2 DEF IInv, ClientInv, Minted, IsAgent, OtherThanConsent
<1> QED BY Zenon, <1>0, <1>4, <1>5, <1>6, <1>7, <1>8, Combine DEF OtherThanConsent

\* The application row of the first use is ensured.
LEMMA ConsentRowStep ==
    ASSUME IInv, NEW f \in Flows, ConsentRow(f)
    PROVE  IInv' /\ Rely
<1> DEFINE c == consent[f].client
           t == Home[consent[f].user]
<1>0. /\ TypeOK /\ FlowInv(f) /\ consent[f].pc = "row"
      /\ UNCHANGED <<hydra, mapping, old, members, links, agents, remembered,
                     revoked, OtherThanConsent>>
      /\ EnsureDcrRow(c, t)
  BY Zenon DEF IInv, ConsentRow
<1>1. c \in Clients /\ t \in Tenants
  BY Zenon, <1>0, FlowActive
<1>2. /\ row' \in [Clients -> Rows \cup {NoRow}]
      /\ \A d \in Clients : row[d] # NoRow => row'[d] = row[d]
      /\ \A d \in Clients : row'[d] = row[d] \/ row'[d].source = "dcr"
      /\ EnsureDcrRowOk(c, t) => row'[c] # NoRow /\ row'[c].tenant = t
  BY Zenon, <1>0, <1>1, EnsureDcrRowEffect
<1>3. \/ EnsureDcrRowOk(c, t) /\ GotoFlow(f, "grant")
      \/ EndFlow(f)
  BY Zenon DEF ConsentRow
<1>4. /\ consent' \in [Flows -> FlowType]
      /\ \A g \in Flows : g # f => consent'[g] = consent[g]
      /\ FlowInv(f)'
  <2>1. CASE EnsureDcrRowOk(c, t) /\ GotoFlow(f, "grant")
    <3>1. row'[c].source # "admin" /\ row'[c] # NoRow /\ row'[c].tenant = t
      BY Zenon, <1>0, <1>1, <1>2, <2>1 DEF FlowInv
    <3>2. FlowInv(f)'
      BY Zenon, <1>0, <2>1, <3>1, GotoFlowEffect
      DEF FlowInv, FlowPcs, Published, OtherThanConsent, RowIn
    <3> QED BY Zenon, <1>0, <2>1, <3>2, GotoFlowEffect DEF FlowPcs
  <2>2. CASE EndFlow(f)
    BY Zenon, <1>0, <2>2, EndFlowEffect
  <2> QED BY Zenon, <1>3, <2>1, <2>2
<1>5. TypeOK'
  BY Zenon, <1>0, <1>2, <1>4 DEF TypeOK, RegistryTypeOK, OtherThanConsent
<1>6. Rely
  BY Zenon, <1>0, <1>2 DEF Rely, RelyClient, RelyRevoked, RowKept, Minted, IsAgent, Published,
                    OtherThanConsent
<1>7. GrantsInOwnerStore' /\ RevocationSticks'
  BY Zenon, <1>0, <1>2 DEF IInv, GrantsInOwnerStore, RevocationSticks, AgentClients, RowIn,
                    TypeOK, RegistryTypeOK, OtherThanConsent
<1>8. \A d \in Clients : ClientInv(d)'
  <2>1. Minted(c)
    BY Zenon, <1>0 DEF FlowInv, Published, Minted
  <2>2. \A d \in Clients : d # c => row'[d] = row[d]
    BY Zenon, <1>0, <1>1 DEF TypeOK, RegistryTypeOK, EnsureDcrRow, InsertRow
  <2> QED BY Zenon, <1>0, <2>1, <2>2 DEF IInv, ClientInv, Minted, IsAgent, OtherThanConsent
<1> QED BY Zenon, <1>0, <1>4, <1>5, <1>6, <1>7, <1>8, Combine DEF OtherThanConsent

\* The first user is granted, in the store of the owner.
LEMMA ConsentGrantStep ==
    ASSUME IInv, NEW f \in Flows, ConsentGrant(f)
    PROVE  IInv' /\ Rely
<1> DEFINE c == consent[f].client
           u == consent[f].user
           t == Home[u]
<1>0. /\ TypeOK /\ FlowInv(f) /\ consent[f].pc = "grant"
      /\ GotoFlow(f, "accept")
      /\ members' = members \cup {<<t, c, u>>}
      /\ UNCHANGED <<hydra, mapping, old, row, links, agents, remembered, revoked,
                     OtherThanConsent>>
  BY Zenon DEF IInv, ConsentGrant
<1>1. c \in Clients /\ u \in Users /\ t \in Tenants
  BY Zenon, <1>0, FlowActive
<1>2. /\ consent' \in [Flows -> FlowType]
      /\ \A g \in Flows : g # f => consent'[g] = consent[g]
  BY Zenon, <1>0, GotoFlowEffect DEF FlowPcs
<1>3. FlowInv(f)'
  BY Zenon, <1>0, GotoFlowEffect DEF FlowInv, FlowPcs, Published, OtherThanConsent
<1>4. TypeOK'
  <2>1. members \subseteq Tenants \X Clients \X Users
    BY Zenon, <1>0 DEF TypeOK, RegistryTypeOK
  <2>2. members \cup {<<t, c, u>>} \subseteq Tenants \X Clients \X Users
    BY <2>1, <1>1, AddTriple
  <2>3. members' \subseteq Tenants \X Clients \X Users
    BY Zenon, <1>0, <2>2
  <2>4. RegistryTypeOK'
    BY Zenon, <1>0, <2>3 DEF TypeOK, RegistryTypeOK
  <2> QED BY Zenon, <1>0, <1>2, <2>4 DEF TypeOK, OtherThanConsent
<1>5. Rely
  BY Zenon, <1>0 DEF Rely, RelyClient, RelyRevoked, RowKept, Minted, IsAgent, Published,
              OtherThanConsent
<1>6. GrantsInOwnerStore'
  <2>1. c \in hydra => RowIn(c, t)
    BY Zenon, <1>0 DEF FlowInv
  <2> QED BY <1>0, <2>1 DEF IInv, GrantsInOwnerStore, AgentClients, RowIn, OtherThanConsent
<1>7. RevocationSticks'
  <2>1. <<t, c, u>> \notin revoked
    BY Zenon, <1>0, <1>1 DEF FlowInv
  <2> QED BY Zenon, <1>0, <2>1 DEF IInv, RevocationSticks
<1>8. \A d \in Clients : ClientInv(d)'
  <2>1. Minted(c)
    BY Zenon, <1>0 DEF FlowInv, Published, Minted
  <2>2. ASSUME NEW d \in Clients PROVE ClientInv(d)'
    <3>1. ClientInv(d)
      BY Zenon DEF IInv
    <3>2. ASSUME NEW m \in members', m[2] = d PROVE Minted(d)
      <4>1. m \in members \/ m = <<t, c, u>>
        BY Zenon, <1>0, <3>2
      <4>2. CASE m \in members
        BY Zenon, <3>1, <3>2, <4>2 DEF ClientInv
      <4>3. CASE m = <<t, c, u>>
        <5> HIDE DEF c, t, u
        <5>1. m[2] = c
          BY Zenon, <4>3
        <5> QED BY Zenon, <2>1, <3>2, <5>1
      <4> QED BY Zenon, <4>1, <4>2, <4>3
    <3>3. Minted(d)' = Minted(d) /\ IsAgent(d)' = IsAgent(d)
      BY Zenon, <1>0 DEF Minted, IsAgent, OtherThanConsent
    <3> QED BY Zenon, <1>0, <3>1, <3>2, <3>3 DEF ClientInv, OtherThanConsent
  <2> QED BY Zenon, <2>2
<1> QED BY Zenon, <1>0, <1>2, <1>3, <1>4, <1>5, <1>6, <1>7, <1>8, Combine DEF OtherThanConsent

\* accept_consent, or a failed call.
LEMMA ConsentEndStep ==
    ASSUME IInv, NEW f \in Flows,
           ConsentFails(f) \/ \E remember \in BOOLEAN : ConsentAccept(f, remember)
    PROVE  IInv' /\ Rely
<1>1. TypeOK /\ EndFlow(f) /\ UNCHANGED <<registryVars, revoked, OtherThanConsent>>
  BY Zenon DEF IInv, ConsentFails, ConsentAccept
<1>2. remembered' \subseteq Users \X Clients
  BY FlowActive DEF IInv, TypeOK, ConsentFails, ConsentAccept
<1> QED BY Zenon, <1>1, <1>2, EndFlowEffect, FlowOnly

\* Every step of a consent keeps the invariant.
LEMMA ConsentSteps ==
    ASSUME IInv, NEW f \in Flows, ConsentStep(f)
    PROVE  IInv' /\ Rely
BY Zenon, ConsentBeginStep, ConsentResolveStep, ConsentClassifyStep, ConsentCheckStep,
   ConsentRehomeStep, ConsentRowStep, ConsentGrantStep, ConsentEndStep DEF ConsentStep

-----------------------------------------------------------------------------
(* Creation and heal.                                                      *)

\* A step on the stores or on a creation in which no other handler moves.
LEMMA StoreStep ==
    ASSUME IInv, TypeOK', Rely, GrantsInOwnerStore', RevocationSticks',
           \A c \in Clients : ClientInv(c)',
           UNCHANGED <<consent, del, gc, boot>>
    PROVE  IInv' /\ Rely
BY Zenon, Combine

\* A client is created in Hydra.
LEMMA CreateClientStep ==
    ASSUME IInv, NEW c \in Clients, NEW k \in Kinds, NEW t \in RegTenants,
           CreateClient(c, k, t)
    PROVE  IInv' /\ Rely
<1> USE LifecycleAssumption
<1>0. /\ kind[c] = "none"
      /\ kind \in [Clients -> Kinds \cup {"none"}]
      /\ agents \in [Clients -> Tenants \cup {None}]
      /\ reg \in [Clients -> RegType]
      /\ k # "none" /\ t \in Tenants
  BY Zenon DEF CreateClient, IInv, TypeOK, RegistryTypeOK
<1>1. /\ kind' = [kind EXCEPT ![c] = k]
      /\ kind' \in [Clients -> Kinds \cup {"none"}]
      /\ hydra' = hydra \cup {c}
      /\ agents' \in [Clients -> Tenants \cup {None}]
      /\ \A d \in Clients : d # c \/ k # "agent" => agents'[d] = agents[d]
      /\ reg' \in [Clients -> RegType]
      /\ \A d \in Clients : d # c => reg'[d] = reg[d]
  BY Zenon, <1>0 DEF CreateClient, RegType
<1>2. UNCHANGED <<mapping, old, row, members, links, remembered, consent, del, heal,
                  gc, boot, boots, revoked>>
  BY Zenon DEF CreateClient
<1>3. TypeOK'
  BY Zenon, <1>1, <1>2 DEF IInv, TypeOK, RegistryTypeOK
<1>4. Rely
  BY Zenon, <1>0, <1>1, <1>2 DEF Rely, RelyClient, RelyRevoked, RowKept, Minted, IsAgent, Published
<1>5. GrantsInOwnerStore' /\ RevocationSticks'
  <2>1. \A m \in members : m[2] # c
    BY Zenon, <1>0 DEF IInv, ClientInv, Minted
  <2> QED BY Zenon, <1>0, <1>1, <1>2, <2>1 DEF IInv, GrantsInOwnerStore, RevocationSticks,
             AgentClients, RowIn
<1>6. \A d \in Clients : ClientInv(d)'
  BY <1>0, <1>1, <1>2 DEF IInv, ClientInv, Minted, IsAgent
<1> QED BY Zenon, <1>2, <1>3, <1>4, <1>5, <1>6, StoreStep

\* The insert of a mapping.
LEMMA CreateMappingEffect ==
    ASSUME TypeOK, NEW c \in Clients, NEW t \in Tenants, CreateMapping(c, t)
    PROVE  /\ mapping' \in [Clients -> Tenants \cup {None}]
           /\ old' \subseteq Clients
           /\ \A d \in Clients : d # c => mapping'[d] = mapping[d]
BY Zenon DEF TypeOK, RegistryTypeOK, CreateMapping

\* What the type invariant says of a registration under way.
LEMMA RegActive ==
    ASSUME TypeOK, NEW c \in Clients, reg[c].pc # "idle"
    PROVE  /\ reg[c].tenant \in Tenants
           /\ reg[c] = [pc |-> reg[c].pc, tenant |-> reg[c].tenant]
BY DEF TypeOK, RegType, IdleReg

\* The mapping of a created client is stored.
LEMMA CreateClientMappingStep ==
    ASSUME IInv, NEW c \in Clients, CreateClientMapping(c)
    PROVE  IInv' /\ Rely
<1>0. /\ TypeOK /\ reg[c].pc = "mapping" /\ Minted(c)
      /\ UNCHANGED <<hydra, row, members, links, agents, kind, remembered, consent,
                     del, heal, gc, boot, boots, revoked>>
  BY Zenon DEF IInv, ClientInv, CreateClientMapping
<1>1. /\ mapping' \in [Clients -> Tenants \cup {None}]
      /\ old' \subseteq Clients
      /\ \A d \in Clients : d # c => mapping'[d] = mapping[d]
  BY Zenon, <1>0, RegActive, CreateMappingEffect DEF CreateClientMapping
<1>2. /\ reg' \in [Clients -> RegType]
      /\ \A d \in Clients : d # c => reg'[d] = reg[d]
  BY <1>0, RegActive DEF CreateClientMapping, TypeOK, RegType
<1>3. TypeOK'
  BY Zenon, <1>0, <1>1, <1>2 DEF TypeOK, RegistryTypeOK
<1>4. Rely
  BY Zenon, <1>0, <1>2 DEF Rely, RelyClient, RelyRevoked, RowKept, Minted, IsAgent, Published
<1>5. GrantsInOwnerStore' /\ RevocationSticks'
  BY Zenon, <1>0 DEF IInv, GrantsInOwnerStore, RevocationSticks, AgentClients, RowIn
<1>6. \A d \in Clients : ClientInv(d)'
  BY Zenon, <1>0, <1>1, <1>2 DEF IInv, ClientInv, Minted, IsAgent
<1> QED BY Zenon, <1>0, <1>3, <1>4, <1>5, <1>6, StoreStep

\* create_application stores its row.
LEMMA CreateApplicationRowStep ==
    ASSUME IInv, NEW c \in Clients, NEW cross \in BOOLEAN, CreateApplicationRow(c, cross)
    PROVE  IInv' /\ Rely
<1> USE RegistryAssumption
<1>0. /\ TypeOK /\ reg[c].pc = "row" /\ Minted(c) /\ reg[c].tenant \in Tenants
      /\ UNCHANGED <<hydra, mapping, old, members, links, agents, kind, remembered,
                     consent, del, heal, gc, boot, boots, revoked>>
  BY Zenon, RegActive DEF IInv, ClientInv, CreateApplicationRow
<1>1. /\ row' \in [Clients -> Rows \cup {NoRow}]
      /\ \A d \in Clients : d # c \/ row[d] # NoRow => row'[d] = row[d]
  BY <1>0 DEF CreateApplicationRow, InsertRow, CanInsertRow, TypeOK, RegistryTypeOK, Rows
<1>2. /\ reg' \in [Clients -> RegType]
      /\ \A d \in Clients : d # c => reg'[d] = reg[d]
  BY <1>0, RegActive DEF CreateApplicationRow, TypeOK, RegType
<1>3. TypeOK'
  BY Zenon, <1>0, <1>1, <1>2 DEF TypeOK, RegistryTypeOK
<1>4. Rely
  BY Zenon, <1>0, <1>1, <1>2 DEF Rely, RelyClient, RelyRevoked, RowKept, Minted, IsAgent, Published
<1>5. GrantsInOwnerStore' /\ RevocationSticks'
  BY Zenon, <1>0, <1>1 DEF IInv, GrantsInOwnerStore, RevocationSticks, AgentClients, RowIn,
                    TypeOK, RegistryTypeOK
<1>6. \A d \in Clients : ClientInv(d)'
  BY Zenon, <1>0, <1>1, <1>2 DEF IInv, ClientInv, Minted, IsAgent
<1> QED BY Zenon, <1>0, <1>3, <1>4, <1>5, <1>6, StoreStep

\* create_application seeds the application's group link.
LEMMA CreateApplicationSeedStep ==
    ASSUME IInv, NEW c \in Clients, CreateApplicationSeed(c)
    PROVE  IInv' /\ Rely
<1>0. /\ TypeOK /\ reg[c].pc = "seed" /\ Minted(c) /\ reg[c].tenant \in Tenants
      /\ links' = links \cup {<<reg[c].tenant, c>>}
      /\ reg' = [reg EXCEPT ![c] = IdleReg]
      /\ UNCHANGED <<hydra, mapping, old, row, members, agents, kind, remembered,
                     consent, del, heal, gc, boot, boots, revoked>>
  BY Zenon, RegActive DEF IInv, ClientInv, CreateApplicationSeed, SeedApplication
<1>1. /\ reg' \in [Clients -> RegType]
      /\ reg'[c].pc = "idle"
      /\ \A d \in Clients : d # c => reg'[d] = reg[d]
  BY Zenon, <1>0 DEF TypeOK, RegType, IdleReg
<1>2. TypeOK'
  BY <1>0, <1>1 DEF TypeOK, RegistryTypeOK
<1>3. Rely
  BY Zenon, <1>0, <1>1 DEF Rely, RelyClient, RelyRevoked, RowKept, Minted, IsAgent, Published
<1>4. GrantsInOwnerStore' /\ RevocationSticks'
  BY Zenon, <1>0 DEF IInv, GrantsInOwnerStore, RevocationSticks, AgentClients, RowIn
<1>5. \A d \in Clients : ClientInv(d)'
  BY Zenon, <1>0, <1>1 DEF IInv, ClientInv, Minted, IsAgent
<1> QED BY Zenon, <1>0, <1>2, <1>3, <1>4, <1>5, StoreStep

\* A registration fails between two of its writes.
LEMMA CreateFailsStep ==
    ASSUME IInv, NEW c \in Clients, CreateFails(c)
    PROVE  IInv' /\ Rely
<1>0. /\ TypeOK /\ Minted(c)
      /\ reg' = [reg EXCEPT ![c] = IdleReg]
      /\ UNCHANGED <<mapping, old, row, members, links, kind, remembered, consent,
                     del, heal, gc, boot, boots, revoked>>
  BY Zenon DEF IInv, ClientInv, CreateFails
<1>1. /\ reg' \in [Clients -> RegType]
      /\ reg'[c].pc = "idle"
      /\ \A d \in Clients : d # c => reg'[d] = reg[d]
  BY Zenon, <1>0 DEF TypeOK, RegType, IdleReg
<1>2. /\ hydra' \subseteq hydra
      /\ agents' \in [Clients -> Tenants \cup {None}]
      /\ \A d \in Clients : agents'[d] = agents[d] \/ agents'[d] = None
  BY <1>0 DEF CreateFails, TypeOK, RegistryTypeOK
<1>3. TypeOK'
  BY Zenon, <1>0, <1>1, <1>2 DEF TypeOK, RegistryTypeOK
<1>4. Rely
  BY Zenon, <1>0, <1>1, <1>2 DEF Rely, RelyClient, RelyRevoked, RowKept, Minted, IsAgent, Published
<1>5. GrantsInOwnerStore' /\ RevocationSticks'
  BY Zenon, <1>0, <1>2 DEF IInv, GrantsInOwnerStore, RevocationSticks, AgentClients, RowIn
<1>6. \A d \in Clients : ClientInv(d)'
  BY Zenon, <1>0, <1>1, <1>2 DEF IInv, ClientInv, Minted, IsAgent
<1> QED BY Zenon, <1>0, <1>3, <1>4, <1>5, <1>6, StoreStep

\* heal_client_mapping: the lookup in Hydra and the insert behind it.
LEMMA HealSteps ==
    ASSUME IInv, NEW c \in Clients, HealStep(c)
    PROVE  IInv' /\ Rely
<1>0. /\ TypeOK /\ Minted(c)
      /\ UNCHANGED <<hydra, row, members, links, agents, kind, remembered, reg,
                     consent, del, gc, boot, boots, revoked>>
  BY Zenon DEF IInv, ClientInv, HealStep, HealLookup, HealCreate, HealFails, Published,
         Minted, registryVars
<1>1. /\ mapping' \in [Clients -> Tenants \cup {None}]
      /\ old' \subseteq Clients
      /\ \A d \in Clients : d # c => mapping'[d] = mapping[d]
  <2>1. CASE HealLookup(c) \/ HealFails(c)
    BY Zenon, <1>0, <2>1 DEF HealLookup, HealFails, registryVars, TypeOK, RegistryTypeOK
  <2>2. CASE HealCreate(c)
    BY Zenon, <1>0, <2>2, CreateMappingEffect, RegistryAssumption DEF HealCreate
  <2> QED BY Zenon, <2>1, <2>2 DEF HealStep
<1>2. heal' \subseteq Clients /\ \A d \in heal' : d # c => d \in heal
  BY Zenon, <1>0 DEF TypeOK, HealStep, HealLookup, HealCreate, HealFails
<1>3. TypeOK'
  BY Zenon, <1>0, <1>1, <1>2 DEF TypeOK, RegistryTypeOK
<1>4. Rely
  BY Zenon, <1>0 DEF Rely, RelyClient, RelyRevoked, RowKept, Minted, IsAgent, Published
<1>5. GrantsInOwnerStore' /\ RevocationSticks'
  BY Zenon, <1>0 DEF IInv, GrantsInOwnerStore, RevocationSticks, AgentClients, RowIn
<1>6. \A d \in Clients : ClientInv(d)'
  BY Zenon, <1>0, <1>1, <1>2 DEF IInv, ClientInv, Minted, IsAgent
<1> QED BY Zenon, <1>0, <1>3, <1>4, <1>5, <1>6, StoreStep

\* Every step of a registration keeps the invariant.
LEMMA CreateSteps ==
    ASSUME IInv, NEW c \in Clients, CreateStep(c)
    PROVE  IInv' /\ Rely
BY Zenon, CreateClientStep, CreateClientMappingStep, CreateApplicationRowStep,
   CreateApplicationSeedStep, CreateFailsStep DEF CreateStep

-----------------------------------------------------------------------------
(* Deletes and the reaper.                                                 *)

\* A step that only takes things away from the stores, and takes the row of
\* an interactive client only once Hydra does not have the client.
LEMMA Shrink ==
    ASSUME IInv, RegistryTypeOK', UNCHANGED <<kind, reg, consent, heal, revoked>>,
           hydra' \subseteq hydra,
           members' \subseteq members,
           \A c \in Clients : agents'[c] = agents[c] \/ agents'[c] = None,
           \A c \in Clients : mapping'[c] # None => mapping[c] # None,
           \A c \in Clients : \/ row'[c] = row[c]
                              \/ row'[c] = NoRow /\ (c \notin hydra' \/ kind[c] = "agent")
    PROVE  /\ Rely
           /\ GrantsInOwnerStore'
           /\ RevocationSticks'
           /\ \A c \in Clients : ClientInv(c)'
<1>1. Rely
  <2>1. NoRow.source # "admin"
    BY Zenon DEF NoRow
  <2> QED BY Zenon, <2>1 DEF Rely, RelyClient, RelyRevoked, RowKept, Minted, IsAgent, Published
<1>2. GrantsInOwnerStore'
  <2> SUFFICES ASSUME NEW m \in members', m[2] \in hydra' \ AgentClients'
               PROVE  RowIn(m[2], m[1])'
    BY Zenon DEF GrantsInOwnerStore
  <2>1. m[2] \in Clients /\ kind[m[2]] # "agent" /\ RowIn(m[2], m[1])
    BY Zenon DEF IInv, TypeOK, RegistryTypeOK, GrantsInOwnerStore, AgentClients
  <2>2. row'[m[2]] = row[m[2]]
    BY Zenon, <2>1
  <2> QED BY Zenon, <2>1, <2>2 DEF RowIn
<1>3. RevocationSticks'
  BY Zenon DEF IInv, RevocationSticks
<1>4. \A c \in Clients : ClientInv(c)'
  BY Zenon DEF IInv, ClientInv, Minted, IsAgent
<1> QED BY Zenon, <1>1, <1>2, <1>3, <1>4

\* A step of a deletion that only removes rows.
LEMMA DelShrink ==
    ASSUME IInv, NEW c \in Clients, RegistryTypeOK', UNCHANGED OtherThanDel,
           hydra' \subseteq hydra,
           members' \subseteq members,
           \A d \in Clients : agents'[d] = agents[d] \/ agents'[d] = None,
           \A d \in Clients : mapping'[d] # None => mapping[d] # None,
           \A d \in Clients : \/ row'[d] = row[d]
                              \/ row'[d] = NoRow /\ (d \notin hydra' \/ kind[d] = "agent"),
           del' \in [Clients -> DelType],
           \A d \in Clients : d # c => del'[d] = del[d],
           DelInv(c)'
    PROVE  IInv' /\ Rely
<1>1. UNCHANGED <<kind, remembered, reg, consent, heal, gc, boot, boots, revoked>>
  BY Zenon DEF OtherThanDel
<1>2. TypeOK'
  BY Zenon, <1>1 DEF IInv, TypeOK
<1> QED BY Zenon, <1>1, <1>2, Shrink, Combine

\* A deletion is admitted.
LEMMA DeleteBeginStep ==
    ASSUME IInv, NEW c \in Clients,
           SelfDeleteBegin(c) \/ DeleteApplicationBegin(c) \/ DeleteAgentBegin(c)
    PROVE  IInv' /\ Rely
<1>0. TypeOK /\ del[c].pc = "idle" /\ Published(c) /\ ClientInv(c)
  BY Zenon DEF IInv, SelfDeleteBegin, DeleteApplicationBegin, DeleteAgentBegin
<1>1. CASE SelfDeleteBegin(c) \/ DeleteApplicationBegin(c)
  <2>1. /\ UNCHANGED <<registryVars, OtherThanDel>>
        /\ del' \in [Clients -> DelType]
        /\ \A d \in Clients : d # c => del'[d] = del[d]
        /\ del'[c].kind # "agent"
        /\ del'[c].pc # "hydra" => c \notin hydra
    BY <1>0, <1>1 DEF SelfDeleteBegin, DeleteApplicationBegin, TypeOK, RegistryTypeOK,
                      DelType, DelPcs
  <2>2. DelInv(c)'
    BY Zenon, <1>0, <2>1 DEF DelInv, Minted, Published, OtherThanDel, registryVars
  <2> QED BY Zenon, <2>1, <2>2, DelOnly
<1>2. CASE DeleteAgentBegin(c)
  <2>1. /\ UNCHANGED <<hydra, mapping, old, row, members, links, OtherThanDel>>
        /\ agents' = [agents EXCEPT ![c] = None]
        /\ del' \in [Clients -> DelType]
        /\ \A d \in Clients : d # c => del'[d] = del[d]
        /\ kind[c] = "agent"
    BY Zenon, <1>0, <1>2 DEF DeleteAgentBegin, TypeOK, RegistryTypeOK, DelType, DelPcs,
                      ClientInv
  <2>2. DelInv(c)'
    BY Zenon, <2>1 DEF DelInv, Minted, OtherThanDel
  <2>3. RegistryTypeOK'
    BY Zenon, <1>0, <2>1 DEF TypeOK, RegistryTypeOK
  <2>4. \A d \in Clients : agents'[d] = agents[d] \/ agents'[d] = None
    BY Zenon, <1>0, <2>1 DEF TypeOK, RegistryTypeOK
  <2> QED BY Zenon, <2>1, <2>2, <2>3, <2>4, DelShrink
<1> QED BY Zenon, <1>1, <1>2

\* The deletion of the client in Hydra.
LEMMA DeleteHydraStep ==
    ASSUME IInv, NEW c \in Clients, DeleteHydraClient(c) \/ DeleteAgentClient(c)
    PROVE  IInv' /\ Rely
<1>0. /\ TypeOK /\ DelInv(c) /\ del[c].pc = "hydra"
      /\ UNCHANGED <<mapping, old, row, members, links, agents, OtherThanDel>>
  BY Zenon DEF IInv, DeleteHydraClient, DeleteAgentClient
<1>1. hydra' \subseteq hydra /\ RegistryTypeOK'
  BY Zenon, <1>0 DEF TypeOK, RegistryTypeOK, DeleteHydraClient, DeleteAgentClient
<1>2. CASE EndDel(c)
  BY Zenon, <1>0, <1>1, <1>2, EndDelEffect, DelShrink
<1>3. CASE DeleteHydraClient(c) /\ ~EndDel(c)
  <2>1. PICK pc \in {"tenant", "approw"} : GotoDel(c, pc)
    BY Zenon, <1>3 DEF DeleteHydraClient
  <2>2. c \notin hydra'
    BY Zenon, <1>3 DEF DeleteHydraClient
  <2>3. /\ del' \in [Clients -> DelType]
        /\ \A d \in Clients : d # c => del'[d] = del[d]
        /\ del'[c].kind = del[c].kind
    BY Zenon, <1>0, <2>1, GotoDelEffect DEF DelPcs
  <2>4. DelInv(c)'
    BY Zenon, <1>0, <2>2, <2>3 DEF DelInv, Minted, OtherThanDel
  <2> QED BY Zenon, <1>0, <1>1, <2>3, <2>4, DelShrink
<1>4. CASE DeleteAgentClient(c)
  <2>1. /\ del' \in [Clients -> DelType]
        /\ \A d \in Clients : d # c => del'[d] = del[d]
    BY Zenon, <1>0, <1>4, GotoDelEffect DEF DelPcs, DeleteAgentClient
  <2>2. kind[c] = "agent"
    BY Zenon, <1>0, <1>4 DEF DeleteAgentClient, DelInv
  <2>3. DelInv(c)'
    BY Zenon, <1>0, <2>2 DEF DelInv, Minted, OtherThanDel
  <2> QED BY Zenon, <1>0, <1>1, <2>1, <2>3, DelShrink
<1> QED BY Zenon, <1>2, <1>3, <1>4

\* A delete moving between two steps after the Hydra delete.
LEMMA DelLater ==
    ASSUME TypeOK, NEW c \in Clients, DelInv(c), del[c].pc \notin {"idle", "hydra"},
           NEW pc \in DelPcs, GotoDel(c, pc), UNCHANGED <<hydra, kind>>
    PROVE  /\ del' \in [Clients -> DelType]
           /\ \A d \in Clients : d # c => del'[d] = del[d]
           /\ DelInv(c)'
BY Zenon, GotoDelEffect DEF DelInv, Minted

\* delete_orphaned_client_mapping finds the tenant and the row, or fails.
LEMMA DeleteOrphanStep ==
    ASSUME IInv, NEW c \in Clients, OrphanTenant(c) \/ OrphanRow(c) \/ DeleteFails(c)
    PROVE  IInv' /\ Rely
<1>0. /\ TypeOK /\ DelInv(c) /\ UNCHANGED <<registryVars, OtherThanDel>>
      /\ UNCHANGED <<hydra, kind>>
  BY Zenon DEF IInv, OrphanTenant, OrphanRow, DeleteFails, OtherThanDel, registryVars
<1>1. CASE EndDel(c)
  BY Zenon, <1>0, <1>1, EndDelEffect, DelOnly
<1>2. CASE OrphanTenant(c) /\ mapping[c] # None
  <2> DEFINE x == [pc |-> "row", kind |-> "self", tenant |-> mapping[c]]
  <2>1. /\ del' = [del EXCEPT ![c] = x]
        /\ del[c].pc = "tenant" /\ del[c].kind = "self"
    BY Zenon, <1>2 DEF OrphanTenant
  <2>2. "self" \in Deletes
    BY Zenon, <1>0, <2>1, DelActive
  <2>3. x \in DelType
    BY Zenon, <1>0, <2>2 DEF TypeOK, RegistryTypeOK, DelType, DelPcs
  <2>4. /\ del' \in [Clients -> DelType]
        /\ \A d \in Clients : d # c => del'[d] = del[d]
        /\ del'[c] = x
    BY Zenon, <1>0, <2>1, <2>3 DEF TypeOK
  <2>5. DelInv(c)'
    BY Zenon, <1>0, <2>1, <2>4 DEF DelInv, Minted
  <2> QED BY Zenon, <1>0, <2>4, <2>5, DelOnly
<1>3. CASE OrphanRow(c)
  <2>1. PICK pc \in {"tuples", "mapping"} : GotoDel(c, pc)
    BY Zenon, <1>3 DEF OrphanRow
  <2>2. del[c].pc = "row" /\ pc \in DelPcs
    BY Zenon, <1>3 DEF OrphanRow, DelPcs
  <2> QED BY Zenon, <1>0, <2>1, <2>2, DelLater, DelOnly
<1> QED BY Zenon, <1>1, <1>2, <1>3 DEF OrphanTenant, EndDel, DeleteFails

\* The deletes in the gateway's own stores.
LEMMA DeleteStoreStep ==
    ASSUME IInv, NEW c \in Clients,
           OrphanTuples(c) \/ DeleteApplicationRow(c) \/ DeleteClientMapping(c)
    PROVE  IInv' /\ Rely
<1>0. /\ TypeOK /\ DelInv(c) /\ UNCHANGED <<hydra, links, agents, OtherThanDel>>
      /\ del[c].pc \in DelPcs \ {"hydra"}
      /\ UNCHANGED <<hydra, kind>>
  BY Zenon DEF IInv, OrphanTuples, DeleteApplicationRow, DeleteClientMapping, OtherThanDel, DelPcs
<1>1. c \notin hydra' \/ kind[c] = "agent"
  BY Zenon, <1>0 DEF DelInv, DelPcs
<1>2. CASE OrphanTuples(c)
  <2>1. /\ UNCHANGED <<mapping, old, row>> /\ members' \subseteq members
        /\ GotoDel(c, "mapping")
    BY Zenon, <1>2 DEF OrphanTuples, RemoveApplication
  <2>2. RegistryTypeOK'
    BY Zenon, <1>0, <2>1 DEF TypeOK, RegistryTypeOK
  <2> QED BY Zenon, <1>0, <2>1, <2>2, DelLater, DelShrink DEF DelPcs
<1>3. CASE DeleteApplicationRow(c)
  <2>1. /\ UNCHANGED <<mapping, old, members>>
        /\ GotoDel(c, "mapping")
        /\ row' = row \/ row' = [row EXCEPT ![c] = NoRow]
    BY Zenon, <1>3 DEF DeleteApplicationRow
  <2>2. /\ RegistryTypeOK'
        /\ \A d \in Clients : \/ row'[d] = row[d]
                              \/ row'[d] = NoRow /\ (d \notin hydra' \/ kind[d] = "agent")
    BY Zenon, <1>0, <1>1, <2>1 DEF TypeOK, RegistryTypeOK
  <2> QED BY Zenon, <1>0, <2>1, <2>2, DelLater, DelShrink DEF DelPcs
<1>4. CASE DeleteClientMapping(c)
  <2>1. UNCHANGED members /\ EndDel(c) /\ DeleteMapping(c, del[c].tenant)
    BY Zenon, <1>4 DEF DeleteClientMapping
  <2>2. /\ row' \in [Clients -> Rows \cup {NoRow}]
        /\ mapping' \in [Clients -> Tenants \cup {None}]
        /\ old' \subseteq Clients
        /\ \A d \in Clients : d # c => row'[d] = row[d]
        /\ \A d \in Clients : row'[d] = row[d] \/ row'[d] = NoRow
        /\ \A d \in Clients : mapping'[d] # None => mapping[d] # None
    BY Zenon, <1>0, <2>1, DeleteMappingEffect
  <2>3. RegistryTypeOK'
    BY Zenon, <1>0, <2>1, <2>2 DEF TypeOK, RegistryTypeOK
  <2>4. \A d \in Clients : \/ row'[d] = row[d]
                           \/ row'[d] = NoRow /\ (d \notin hydra' \/ kind[d] = "agent")
    BY Zenon, <1>1, <2>2
  <2> QED BY Zenon, <1>0, <2>1, <2>2, <2>3, <2>4, EndDelEffect, DelShrink
<1> QED BY Zenon, <1>2, <1>3, <1>4

\* Every step of a deletion keeps the invariant.
LEMMA DeleteSteps ==
    ASSUME IInv, NEW c \in Clients, DeleteStep(c)
    PROVE  IInv' /\ Rely
BY Zenon, DeleteBeginStep, DeleteHydraStep, DeleteOrphanStep, DeleteStoreStep DEF DeleteStep

\* The reaper visits an old mapping.
LEMMA GcVisitStep ==
    ASSUME IInv, NEW r \in Replicas, NEW c \in Clients, GcVisit(r, c)
    PROVE  IInv' /\ Rely
<1> DEFINE x == [pc |-> "row", client |-> c, tenant |-> mapping[c]]
<1>1. /\ TypeOK /\ ClientInv(c) /\ mapping[c] # None
      /\ gc' = [gc EXCEPT ![r] = x]
      /\ UNCHANGED <<registryVars, OtherThanGc>>
  BY Zenon DEF IInv, GcVisit
<1>2. x \in VisitType(GcPcs)
  BY Zenon, <1>1 DEF TypeOK, RegistryTypeOK, VisitType, GcPcs
<1>3. /\ gc' \in [Replicas -> VisitType(GcPcs)]
      /\ \A q \in Replicas : q # r => gc'[q] = gc[q]
      /\ gc'[r] = x
  BY Zenon, <1>1, <1>2 DEF TypeOK
<1>4. GcInv(r)'
  BY Zenon, <1>1, <1>3 DEF GcInv, ClientInv, Minted, OtherThanGc
<1> QED BY Zenon, <1>1, <1>3, <1>4, GcOnly

\* The reaper's tests, before and after it read the tuples.
LEMMA GcTestStep ==
    ASSUME IInv, NEW r \in Replicas,
           \/ GcCheckRow(r) \/ GcCheckAgent(r) \/ GcRecheckTuples(r)
           \/ GcRecheckRow(r) \/ GcFails(r)
    PROVE  IInv' /\ Rely
<1>0. /\ TypeOK /\ GcInv(r) /\ gc[r].pc # "idle"
      /\ UNCHANGED <<registryVars, OtherThanGc>>
      /\ UNCHANGED <<kind, agents, hydra>>
  BY Zenon DEF IInv, GcCheckRow, GcCheckAgent, GcRecheckTuples, GcRecheckRow, GcFails, GcTest,
         OtherThanGc, registryVars
<1>1. CASE EndGc(r)
  BY Zenon, <1>0, <1>1, EndGcEffect, GcOnly
<1>2. CASE ~EndGc(r)
  <2>1. PICK pc \in GcPcs :
          /\ GotoGc(r, pc)
          /\ pc # "mapping"
          /\ \/ pc = "agent"
             \/ pc = "tuples" /\ ~IsAgent(gc[r].client)
             \/ gc[r].pc \in {"tuples", "recheck"}
    BY Zenon, <1>2 DEF GcCheckRow, GcCheckAgent, GcRecheckTuples, GcRecheckRow, GcFails, GcTest,
                GcPcs
  <2>2. /\ gc' \in [Replicas -> VisitType(GcPcs)]
        /\ \A q \in Replicas : q # r => gc'[q] = gc[q]
        /\ gc'[r].pc = pc
        /\ gc'[r].client = gc[r].client
    BY Zenon, <1>0, <2>1, GotoGcEffect
  <2>3. GcInv(r)'
    BY Zenon, <1>0, <2>1, <2>2 DEF GcInv, Minted, IsAgent
  <2> QED BY Zenon, <1>0, <2>2, <2>3, GcOnly
<1> QED BY Zenon, <1>1, <1>2

\* The reaper's two deletes.
LEMMA GcDeleteStep ==
    ASSUME IInv, NEW r \in Replicas, GcDeleteHydra(r) \/ GcDeleteMapping(r)
    PROVE  IInv' /\ Rely
<1> DEFINE c == gc[r].client
<1>0. /\ TypeOK /\ GcInv(r) /\ gc[r].pc # "idle" /\ c \in Clients
      /\ UNCHANGED <<members, links, agents>>
      /\ UNCHANGED <<kind, remembered, reg, consent, del, heal, boot, boots, revoked>>
  BY Zenon, GcActive DEF IInv, GcDeleteHydra, GcDeleteMapping, OtherThanGc
<1>1. /\ hydra' \subseteq hydra
      /\ RegistryTypeOK'
      /\ \A d \in Clients : mapping'[d] # None => mapping[d] # None
      /\ \A d \in Clients : row'[d] = row[d] \/ (row'[d] = NoRow /\ d \notin hydra')
  <2>1. CASE GcDeleteHydra(r)
    <3>1. hydra' = hydra \ {c} /\ UNCHANGED <<mapping, old, row>>
      BY Zenon, <2>1 DEF GcDeleteHydra
    <3>2. RegistryTypeOK'
      BY Zenon, <1>0, <3>1 DEF TypeOK, RegistryTypeOK
    <3> QED BY Zenon, <3>1, <3>2
  <2>2. CASE GcDeleteMapping(r)
    <3>1. UNCHANGED hydra /\ DeleteMapping(c, gc[r].tenant) /\ c \notin hydra
      BY Zenon, <1>0, <2>2 DEF GcDeleteMapping, GcInv
    <3>2. /\ row' \in [Clients -> Rows \cup {NoRow}]
          /\ mapping' \in [Clients -> Tenants \cup {None}]
          /\ old' \subseteq Clients
          /\ \A d \in Clients : d # c => row'[d] = row[d]
          /\ \A d \in Clients : row'[d] = row[d] \/ row'[d] = NoRow
          /\ \A d \in Clients : mapping'[d] # None => mapping[d] # None
      BY Zenon, <1>0, <3>1, DeleteMappingEffect
    <3>3. RegistryTypeOK'
      BY Zenon, <1>0, <3>1, <3>2 DEF TypeOK, RegistryTypeOK
    <3>4. \A d \in Clients : row'[d] = row[d] \/ (row'[d] = NoRow /\ d \notin hydra')
      BY Zenon, <3>1, <3>2
    <3> QED BY Zenon, <3>1, <3>2, <3>3, <3>4
  <2> QED BY Zenon, <2>1, <2>2
<1>2. /\ gc' \in [Replicas -> VisitType(GcPcs)]
      /\ \A q \in Replicas : q # r => gc'[q] = gc[q]
      /\ GcInv(r)'
  <2>1. CASE GcDeleteHydra(r)
    <3>1. /\ GotoGc(r, "mapping") /\ gc[r].pc = "hydra" /\ c \notin hydra'
      BY Zenon, <2>1 DEF GcDeleteHydra
    <3>2. /\ gc' \in [Replicas -> VisitType(GcPcs)]
          /\ \A q \in Replicas : q # r => gc'[q] = gc[q]
          /\ gc'[r].pc = "mapping"
          /\ gc'[r].client = c
      BY Zenon, <1>0, <3>1, GotoGcEffect DEF GcPcs
    <3>3. GcInv(r)'
      BY Zenon, <1>0, <3>1, <3>2 DEF GcInv, Minted, IsAgent
    <3> QED BY Zenon, <3>2, <3>3
  <2>2. CASE GcDeleteMapping(r)
    BY Zenon, <1>0, <2>2, EndGcEffect DEF GcDeleteMapping
  <2> QED BY Zenon, <2>1, <2>2
<1>3. TypeOK'
  BY Zenon, <1>0, <1>1, <1>2 DEF TypeOK
<1>4. /\ Rely /\ GrantsInOwnerStore' /\ RevocationSticks'
      /\ \A d \in Clients : ClientInv(d)'
  BY Zenon, <1>0, <1>1, Shrink
<1> QED BY Zenon, <1>0, <1>2, <1>3, <1>4, Combine

\* Every step of the reaper keeps the invariant.
LEMMA GcSteps ==
    ASSUME IInv, NEW r \in Replicas, GcStep(r)
    PROVE  IInv' /\ Rely
BY Zenon, GcVisitStep, GcTestStep, GcDeleteStep DEF GcStep

-----------------------------------------------------------------------------
(* The backfill.                                                           *)

\* The backfill visits a mapping at startup.
LEMMA BackfillVisitStep ==
    ASSUME IInv, NEW r \in Replicas, NEW c \in Clients, BackfillVisit(r, c)
    PROVE  IInv' /\ Rely
<1> DEFINE x == [pc |-> "row", client |-> c, tenant |-> mapping[c]]
<1>1. /\ TypeOK /\ ClientInv(c) /\ mapping[c] # None
      /\ boot' = [boot EXCEPT ![r] = x]
      /\ UNCHANGED <<registryVars, kind, remembered, reg, consent, del, heal, gc, revoked>>
  BY Zenon DEF IInv, BackfillVisit
<1>2. x \in VisitType(BootPcs)
  BY Zenon, <1>1 DEF TypeOK, RegistryTypeOK, VisitType, BootPcs
<1>3. /\ boot' \in [Replicas -> VisitType(BootPcs)]
      /\ \A q \in Replicas : q # r => boot'[q] = boot[q]
      /\ boot'[r] = x
  BY Zenon, <1>1, <1>2 DEF TypeOK
<1>4. BootInv(r)'
  BY Zenon, <1>1, <1>3 DEF BootInv, ClientInv, Minted
<1>5. boots' \in 0..MaxBoots
  BY <1>1, LifecycleAssumption DEF TypeOK, BackfillVisit
<1> QED BY Zenon, <1>1, <1>3, <1>4, <1>5, BootOnly

\* The backfill's tests.
LEMMA BackfillTestStep ==
    ASSUME IInv, NEW r \in Replicas,
           \/ BackfillCheckRow(r) \/ BackfillCheckAgent(r) \/ BackfillCheckTuples(r)
           \/ BackfillFails(r)
    PROVE  IInv' /\ Rely
<1>0. /\ TypeOK /\ BootInv(r) /\ boot[r].pc # "idle"
      /\ UNCHANGED <<registryVars, kind, remembered, reg, consent, del, heal, gc, revoked>>
      /\ boots' \in 0..MaxBoots
      /\ UNCHANGED agents
  BY Zenon DEF IInv, TypeOK, BackfillCheckRow, BackfillCheckAgent, BackfillCheckTuples,
         BackfillFails, BackfillTest, OtherThanBoot, registryVars
<1>1. CASE EndBoot(r)
  BY Zenon, <1>0, <1>1, EndBootEffect, BootOnly
<1>2. CASE ~EndBoot(r)
  <2>1. PICK pc \in BootPcs :
          /\ GotoBoot(r, pc)
          /\ \/ pc = "agent"
             \/ pc = "tuples" /\ ~IsAgent(boot[r].client)
             \/ boot[r].pc = "tuples"
    BY Zenon, <1>2 DEF BackfillCheckRow, BackfillCheckAgent, BackfillCheckTuples, BackfillFails,
                BackfillTest, BootPcs
  <2>2. /\ boot' \in [Replicas -> VisitType(BootPcs)]
        /\ \A q \in Replicas : q # r => boot'[q] = boot[q]
        /\ boot'[r].pc = pc
        /\ boot'[r].client = boot[r].client
    BY Zenon, <1>0, <2>1, GotoBootEffect
  <2>3. BootInv(r)'
    BY Zenon, <1>0, <2>1, <2>2 DEF BootInv, Minted, IsAgent
  <2> QED BY Zenon, <1>0, <2>2, <2>3, BootOnly
<1> QED BY Zenon, <1>1, <1>2

\* The backfill seeds the group link of a client without tuples.
LEMMA BackfillSeedStep ==
    ASSUME IInv, NEW r \in Replicas, BackfillSeed(r)
    PROVE  IInv' /\ Rely
<1>0. /\ TypeOK /\ BootInv(r) /\ boot[r].pc = "seed"
      /\ boot[r].client \in Clients /\ boot[r].tenant \in Tenants
      /\ links' = links \cup {<<boot[r].tenant, boot[r].client>>}
      /\ UNCHANGED <<hydra, mapping, old, row, members, agents, kind, remembered, reg,
                     consent, del, heal, gc, boots, revoked>>
  BY Zenon, BootActive DEF IInv, BackfillSeed, SeedApplication, OtherThanBoot
<1>1. /\ boot' \in [Replicas -> VisitType(BootPcs)]
      /\ \A q \in Replicas : q # r => boot'[q] = boot[q]
      /\ boot'[r].pc = "ensure"
      /\ boot'[r].client = boot[r].client
  BY Zenon, <1>0, GotoBootEffect DEF BackfillSeed, BootPcs
<1>2. BootInv(r)'
  BY Zenon, <1>0, <1>1 DEF BootInv, Minted, IsAgent
<1>3. TypeOK'
  <2>1. links \subseteq Tenants \X Clients
    BY Zenon, <1>0 DEF TypeOK, RegistryTypeOK
  <2>2. links \cup {<<boot[r].tenant, boot[r].client>>} \subseteq Tenants \X Clients
    BY <1>0, <2>1, AddPair
  <2>3. links' \subseteq Tenants \X Clients
    BY Zenon, <1>0, <2>2
  <2>4. RegistryTypeOK'
    BY Zenon, <1>0, <2>3 DEF TypeOK, RegistryTypeOK
  <2> QED BY Zenon, <1>0, <1>1, <2>4 DEF TypeOK
<1>4. Rely
  BY Zenon, <1>0 DEF Rely, RelyClient, RelyRevoked, RowKept, Minted, IsAgent, Published
<1>5. GrantsInOwnerStore' /\ RevocationSticks'
  BY Zenon, <1>0 DEF IInv, GrantsInOwnerStore, RevocationSticks, AgentClients, RowIn
<1>6. \A d \in Clients : ClientInv(d)'
  BY Zenon, <1>0 DEF IInv, ClientInv, Minted, IsAgent
<1> QED BY Zenon, <1>0, <1>1, <1>2, <1>3, <1>4, <1>5, <1>6, Combine

\* The backfill ensures the client's row.
LEMMA BackfillRowStep ==
    ASSUME IInv, NEW r \in Replicas, BackfillRow(r)
    PROVE  IInv' /\ Rely
<1> DEFINE c == boot[r].client
<1>0. /\ TypeOK /\ BootInv(r) /\ boot[r].pc = "ensure"
      /\ c \in Clients /\ boot[r].tenant \in Tenants
      /\ EnsureDcrRow(c, boot[r].tenant)
      /\ UNCHANGED <<hydra, mapping, old, members, links, agents, kind, remembered, reg,
                     consent, del, heal, gc, boots, revoked>>
  BY Zenon, BootActive DEF IInv, BackfillRow, OtherThanBoot
<1>1. /\ boot' \in [Replicas -> VisitType(BootPcs)]
      /\ \A q \in Replicas : q # r => boot'[q] = boot[q]
      /\ BootInv(r)'
  BY Zenon, <1>0, EndBootEffect DEF BackfillRow
<1>2. /\ row' \in [Clients -> Rows \cup {NoRow}]
      /\ \A d \in Clients : row[d] # NoRow => row'[d] = row[d]
      /\ \A d \in Clients : row'[d] = row[d] \/ row'[d].source = "dcr"
  BY Zenon, <1>0, EnsureDcrRowEffect
<1>3. TypeOK'
  BY Zenon, <1>0, <1>1, <1>2 DEF TypeOK, RegistryTypeOK
<1>4. Rely
  BY Zenon, <1>0, <1>2 DEF Rely, RelyClient, RelyRevoked, RowKept, Minted, IsAgent, Published
<1>5. GrantsInOwnerStore' /\ RevocationSticks'
  BY Zenon, <1>0, <1>2 DEF IInv, GrantsInOwnerStore, RevocationSticks, AgentClients, RowIn,
                    TypeOK, RegistryTypeOK
<1>6. \A d \in Clients : ClientInv(d)'
  <2>1. Minted(c)
    BY Zenon, <1>0 DEF BootInv
  <2>2. \A d \in Clients : d # c => row'[d] = row[d]
    BY Zenon, <1>0 DEF TypeOK, RegistryTypeOK, EnsureDcrRow, InsertRow
  <2> QED BY Zenon, <1>0, <2>1, <2>2 DEF IInv, ClientInv, Minted, IsAgent
<1> QED BY Zenon, <1>0, <1>1, <1>3, <1>4, <1>5, <1>6, Combine

\* Every step of the backfill keeps the invariant.
LEMMA BackfillSteps ==
    ASSUME IInv, NEW r \in Replicas, BackfillStep(r)
    PROVE  IInv' /\ Rely
BY Zenon, BackfillVisitStep, BackfillTestStep, BackfillSeedStep, BackfillRowStep DEF BackfillStep

-----------------------------------------------------------------------------
(* The admin, and time.                                                    *)

\* An administrator grants a user, in the owner's store.
LEMMA AdminGrantStep ==
    ASSUME IInv, NEW c \in Clients, NEW u \in Users, AdminGrant(c, u)
    PROVE  IInv' /\ Rely
<1> DEFINE t == row[c].tenant
<1>1. /\ TypeOK /\ row[c] # NoRow /\ RowIn(c, t)
      /\ members' = members \cup {<<t, c, u>>}
      /\ revoked' = revoked \ {<<t, c, u>>}
      /\ UNCHANGED <<hydra, mapping, old, row, links, agents>>
      /\ UNCHANGED <<kind, remembered, reg, consent, del, heal, gc, boot, boots>>
  BY Zenon DEF IInv, AdminGrant, OtherThanAdmin, RowIn
<1>2. t \in Tenants /\ Minted(c)
  <2>1. t \in Tenants
    BY Zenon, <1>1 DEF TypeOK, RegistryTypeOK, Rows
  <2>2. Minted(c)
    BY Zenon, <1>1 DEF IInv, ClientInv
  <2> QED BY Zenon, <2>1, <2>2
<1>3. TypeOK'
  <2>1. members \subseteq Tenants \X Clients \X Users
    BY Zenon, <1>1 DEF TypeOK, RegistryTypeOK
  <2>2. members \cup {<<t, c, u>>} \subseteq Tenants \X Clients \X Users
    BY <2>1, <1>2, AddTriple
  <2>3. members' \subseteq Tenants \X Clients \X Users
    BY Zenon, <1>1, <2>2
  <2>4. revoked' \subseteq Tenants \X Clients \X Users
    BY Zenon, <1>1 DEF TypeOK
  <2>5. RegistryTypeOK'
    BY Zenon, <1>1, <2>3 DEF TypeOK, RegistryTypeOK
  <2> QED BY Zenon, <1>1, <2>4, <2>5 DEF TypeOK
<1>4. Rely
  BY Zenon, <1>1 DEF Rely, RelyClient, RelyRevoked, RowKept, Minted, IsAgent, Published
<1>5. GrantsInOwnerStore'
  <2> SUFFICES ASSUME NEW m \in members', m[2] \in hydra \ AgentClients
               PROVE  RowIn(m[2], m[1])
    BY Zenon, <1>1 DEF GrantsInOwnerStore, AgentClients, RowIn
  <2>1. CASE m \in members
    BY Zenon, <2>1 DEF IInv, GrantsInOwnerStore
  <2>2. CASE m = <<t, c, u>>
    BY Zenon, <1>1, <2>2
  <2> QED BY Zenon, <1>1, <2>1, <2>2
<1>6. RevocationSticks'
  BY Zenon, <1>1 DEF IInv, RevocationSticks
<1>7. \A d \in Clients : ClientInv(d)'
  <2> SUFFICES ASSUME NEW d \in Clients PROVE ClientInv(d)'
    BY Zenon
  <2>1. \A m \in members : m[2] = d => Minted(d)
    BY Zenon DEF IInv, ClientInv
  <2>2. <<t, c, u>>[2] = d => Minted(d)
    BY Zenon, <1>2
  <2>3. \A m \in members' : m[2] = d => Minted(d)
    BY Zenon, <1>1, <2>1, <2>2
  <2> QED BY Zenon, <1>1, <2>3 DEF IInv, ClientInv, Minted, IsAgent
<1> QED BY Zenon, <1>1, <1>3, <1>4, <1>5, <1>7, <1>6, StoreStep

\* An administrator revokes a user: the tuple goes and stays away.
LEMMA AdminRevokeStep ==
    ASSUME IInv, NEW c \in Clients, NEW t \in Tenants, NEW u \in Users, AdminRevoke(t, c, u)
    PROVE  IInv' /\ Rely
<1>0. /\ TypeOK
      /\ members' = members \ {<<t, c, u>>}
      /\ \/ revoked' = revoked
         \/ /\ revoked' = revoked \cup {<<t, c, u>>}
            /\ \A f \in Flows : ~Approving(f, u, c)
      /\ UNCHANGED <<hydra, mapping, old, row, links, agents>>
      /\ UNCHANGED <<kind, remembered, reg, consent, del, heal, gc, boot, boots>>
  BY Zenon DEF IInv, AdminRevoke, OtherThanAdmin
<1>1. TypeOK'
  <2>1. members' \subseteq Tenants \X Clients \X Users
    BY Zenon, <1>0 DEF TypeOK, RegistryTypeOK
  <2>2. revoked' \subseteq Tenants \X Clients \X Users
    BY <1>0 DEF TypeOK
  <2>3. RegistryTypeOK'
    BY Zenon, <1>0, <2>1 DEF TypeOK, RegistryTypeOK
  <2> QED BY Zenon, <1>0, <2>2, <2>3 DEF TypeOK
<1>2. RelyRevoked
  BY <1>0 DEF RelyRevoked, Approving
<1>3. Rely
  BY Zenon, <1>0, <1>2 DEF Rely, RelyClient, RowKept, Minted, IsAgent, Published
<1>4. GrantsInOwnerStore' /\ RevocationSticks'
  BY Zenon, <1>0 DEF IInv, GrantsInOwnerStore, RevocationSticks, AgentClients, RowIn
<1>5. \A d \in Clients : ClientInv(d)'
  BY Zenon, <1>0 DEF IInv, ClientInv, Minted, IsAgent
<1> QED BY Zenon, <1>0, <1>1, <1>3, <1>4, <1>5, StoreStep

\* An administrator opens a client to other tenants.
LEMMA SetCrossTenantStep ==
    ASSUME IInv, NEW c \in Clients, NEW cross \in BOOLEAN, SetCrossTenant(c, cross)
    PROVE  IInv' /\ Rely
<1> DEFINE x == [tenant |-> row[c].tenant, source |-> row[c].source, cross |-> cross]
<1>0. /\ TypeOK /\ row[c] \in Rows
      /\ row' = [row EXCEPT ![c] = x]
      /\ UNCHANGED <<hydra, mapping, old, members, links, agents, revoked>>
      /\ UNCHANGED <<kind, remembered, reg, consent, del, heal, gc, boot, boots>>
  BY Zenon DEF IInv, TypeOK, RegistryTypeOK, SetCrossTenant, RowIn, OtherThanAdmin
<1>1. x \in Rows /\ x.tenant = row[c].tenant /\ x.source = row[c].source
  BY Zenon, <1>0 DEF Rows
<1>2. x # NoRow /\ row[c] # NoRow
  BY <1>0, <1>1, RegistryAssumption DEF NoRow, Rows
<1> HIDE DEF x
<1>3. /\ row' \in [Clients -> Rows \cup {NoRow}]
      /\ \A d \in Clients : /\ row'[d].tenant = row[d].tenant
                            /\ row'[d].source = row[d].source
                            /\ row'[d] # NoRow <=> row[d] # NoRow
  BY Zenon, <1>0, <1>1, <1>2 DEF TypeOK, RegistryTypeOK
<1>4. TypeOK'
  BY Zenon, <1>0, <1>3 DEF TypeOK, RegistryTypeOK
<1>5. Rely
  BY Zenon, <1>0, <1>3 DEF Rely, RelyClient, RelyRevoked, RowKept, Minted, IsAgent, Published
<1>6. GrantsInOwnerStore' /\ RevocationSticks'
  BY Zenon, <1>0, <1>3 DEF IInv, GrantsInOwnerStore, RevocationSticks, AgentClients, RowIn,
                    TypeOK, RegistryTypeOK
<1>7. \A d \in Clients : ClientInv(d)'
  BY Zenon, <1>0, <1>3 DEF IInv, ClientInv, Minted, IsAgent
<1> QED BY Zenon, <1>0, <1>4, <1>5, <1>6, <1>7, StoreStep

\* A client grows old enough for the reaper.
LEMMA AgeStep ==
    ASSUME IInv, NEW c \in Clients, Age(c)
    PROVE  IInv' /\ Rely
<1>0. /\ TypeOK /\ old' = old \cup {c}
      /\ UNCHANGED <<hydra, mapping, row, members, links, agents, revoked>>
      /\ UNCHANGED <<kind, remembered, reg, consent, del, heal, gc, boot, boots>>
  BY Zenon DEF IInv, Age, OtherThanAdmin
<1>1. TypeOK'
  BY Zenon, <1>0 DEF TypeOK, RegistryTypeOK
<1>2. Rely
  BY Zenon, <1>0 DEF Rely, RelyClient, RelyRevoked, RowKept, Minted, IsAgent, Published
<1>3. GrantsInOwnerStore' /\ RevocationSticks'
  BY Zenon, <1>0 DEF IInv, GrantsInOwnerStore, RevocationSticks, AgentClients, RowIn
<1>4. \A d \in Clients : ClientInv(d)'
  BY Zenon, <1>0 DEF IInv, ClientInv, Minted, IsAgent
<1> QED BY Zenon, <1>0, <1>1, <1>2, <1>3, <1>4, StoreStep

\* Every step of an administrator, and of time, keeps the invariant.
LEMMA AdminSteps ==
    ASSUME IInv, NEW c \in Clients, AdminStep(c)
    PROVE  IInv' /\ Rely
BY Zenon, AdminGrantStep, AdminRevokeStep, SetCrossTenantStep, AgeStep DEF AdminStep

-----------------------------------------------------------------------------
(* The inductive invariant, and what follows from it.                      *)

\* Empty stores meet the invariant.
LEMMA IInvInit == Init => IInv
<1> SUFFICES ASSUME Init PROVE IInv
  BY Zenon
<1> USE RegistryAssumption, LifecycleAssumption DEF Init, RegistryInit
<1>1. TypeOK
  <2>1. RegistryTypeOK
    BY Zenon DEF RegistryTypeOK
  <2>2. kind \in [Clients -> Kinds \cup {"none"}] /\ reg \in [Clients -> RegType]
    BY Zenon DEF RegType
  <2>3. consent \in [Flows -> FlowType] /\ del \in [Clients -> DelType]
    BY Zenon DEF FlowType, DelType
  <2>4. /\ gc \in [Replicas -> VisitType(GcPcs)]
        /\ boot \in [Replicas -> VisitType(BootPcs)]
    BY Zenon DEF VisitType
  <2>5. boots \in 0..MaxBoots
    OBVIOUS
  <2>6. /\ remembered \subseteq Users \X Clients
        /\ heal \subseteq Clients
        /\ revoked \subseteq Tenants \X Clients \X Users
    BY Zenon
  <2> QED BY Zenon, <2>1, <2>2, <2>3, <2>4, <2>5, <2>6 DEF TypeOK
<1>2. GrantsInOwnerStore /\ RevocationSticks
  BY Zenon DEF GrantsInOwnerStore, RevocationSticks
<1>3. \A c \in Clients : ClientInv(c) /\ DelInv(c)
  BY Zenon DEF ClientInv, DelInv, IsAgent, IdleReg, IdleDel
<1>4. \A f \in Flows : FlowInv(f)
  BY Zenon DEF FlowInv, IdleFlow
<1>5. \A r \in Replicas : GcInv(r) /\ BootInv(r)
  BY Zenon DEF GcInv, BootInv, IdleVisit
<1> QED BY Zenon, <1>1, <1>2, <1>3, <1>4, <1>5 DEF IInv

\* The invariant is inductive, and every step keeps the guarantee.
LEMMA IInvNext == IInv /\ [Next]_vars => IInv' /\ Rely
<1> SUFFICES ASSUME IInv, [Next]_vars PROVE IInv' /\ Rely
  BY Zenon
<1>1. CASE UNCHANGED vars
  <2>1. UNCHANGED <<registryVars, kind, reg, heal, revoked>>
    BY Zenon, <1>1 DEF vars, procVars
  <2>2. UNCHANGED <<remembered, consent, del, gc, boot, boots>>
    BY Zenon, <1>1 DEF vars, procVars
  <2>3. TypeOK'
    BY Zenon, <2>1, <2>2, Quiet DEF IInv, TypeOK
  <2> QED BY Zenon, <2>1, <2>2, <2>3, Quiet, Combine
<1>2. CASE Next
  BY Zenon, <1>2, CreateSteps, HealSteps, DeleteSteps, AdminSteps, ConsentSteps, GcSteps,
     BackfillSteps DEF Next
<1> QED BY Zenon, <1>1, <1>2

\* The invariant behind the promises holds in every reachable state: each
\* handler in flight keeps the facts about the stores that it relies on at
\* its next await, whatever the other handlers do meanwhile.
THEOREM Invariance == Spec => []IInv
BY IInvInit, IInvNext, PTL DEF Spec

\* Every table holds rows of its schema and every handler is at one of its
\* awaits.
THEOREM TypeCorrect == Spec => []TypeOK
<1>1. IInv => TypeOK
  BY Zenon DEF IInv
<1> QED BY <1>1, Invariance, PTL

\* A live client has direct grants in its owner's store only: a consent that
\* loses the claim fails in ensure_dcr_row before entitlements.grant.
THEOREM OneGrantingTenant == Spec => []GrantsInOwnerStore
<1>1. IInv => GrantsInOwnerStore
  BY Zenon DEF IInv
<1> QED BY <1>1, Invariance, PTL

\* A consent Hydra remembers never brings back a grant an admin revoked:
\* grant_first_use refuses a skipped consent.
THEOREM RevocationsStick == Spec => []RevocationSticks
<1>1. IInv => RevocationSticks
  BY Zenon DEF IInv
<1> QED BY <1>1, Invariance, PTL

\* No accept_consent call is between its checks and its grant on an
\* application that create_application made.
THEOREM AdminExcluded == Spec => []AdminNeverFirstUse
<1>1. IInv => AdminNeverFirstUse
  BY Zenon DEF IInv, FlowInv, AdminNeverFirstUse
<1> QED BY <1>1, Invariance, PTL

\* Past their agent check, the maintenance jobs are never at an agent's
\* client when they seed, claim or delete.
THEOREM AgentsExcluded == Spec => []AgentsExempt
<1>1. IInv => AgentsExempt
  BY Zenon DEF IInv, GcInv, BootInv, AgentsExempt
<1> QED BY <1>1, Invariance, PTL

\* While Hydra has a client, its applications row keeps tenant and source:
\* every delete path removes the Hydra client before the row.
THEOREM Ownership == Spec => OwnershipPermanent
<1> DEFINE Kept == \A c \in Clients \ AgentClients :
                      row[c] # NoRow /\ c \in hydra' =>
                          row'[c].tenant = row[c].tenant /\ row'[c].source = row[c].source
<1>1. IInv /\ [Next]_vars => [Kept]_vars
  <2>1. IInv /\ [Next]_vars => Rely
    BY Zenon, IInvNext
  <2>2. Rely => Kept
    BY Zenon DEF Rely, RelyClient, RowKept, AgentClients
  <2> QED BY Zenon, <2>1, <2>2
<1>2. Spec => [][Kept]_vars
  BY <1>1, Invariance, PTL DEF Spec
<1> QED BY Zenon, <1>2 DEF OwnershipPermanent

-----------------------------------------------------------------------------
(* Records of logins, and what Witness does to them.                       *)

\* A login record once its request saw the facts S as well.
Seen(q, S) == [q EXCEPT !.saw = q.saw \cup S]

\* The classification a login carries names a tenant.
OwnerKnown(q) == q.pc \in {"classify", "check"} => q.owner \in Tenants

\* What the type says of a login under way.
LEMMA LoginActive ==
    ASSUME NEW q \in LoginType, q.pc # "idle"
    PROVE  /\ q.pc \in LoginPcs
           /\ q.user \in Users /\ q.tenant \in LoginTenants /\ q.client \in Clients
           /\ q.required \in Levels /\ q.state \in EntitlementStates
           /\ q.owner \in Tenants \cup {None}
           /\ q.saw \subseteq Facts \cup {"unread"}
           /\ q = [pc |-> q.pc, user |-> q.user, tenant |-> q.tenant,
                   client |-> q.client, required |-> q.required, state |-> q.state,
                   owner |-> q.owner, saw |-> q.saw]
BY DEF LoginType, IdleLogin

\* Seeing more facts changes nothing else of a login.
LEMMA SeenType ==
    ASSUME NEW q \in LoginType, q.pc # "idle", NEW S, S \subseteq Facts
    PROVE  /\ Seen(q, S) \in LoginType
           /\ Seen(q, S).pc = q.pc /\ Seen(q, S).user = q.user
           /\ Seen(q, S).tenant = q.tenant /\ Seen(q, S).client = q.client
           /\ Seen(q, S).required = q.required /\ Seen(q, S).state = q.state
           /\ Seen(q, S).owner = q.owner
           /\ Seen(q, S).saw = q.saw \cup S
BY LoginActive DEF Seen, LoginType

\* The facts of the next state, one by one.
LEMMA FactsNext ==
    ASSUME NEW q
    PROVE  /\ FactsNow(q)' \subseteq Facts
           /\ "session" \in FactsNow(q)' <=> session'[q.user] >= q.required
           /\ "member" \in FactsNow(q)' <=>
                 ~OwnedElsewhere(q.client, q.tenant)' /\ IsMember(q.tenant, q.user, q.client)'
           /\ "foreign_member" \in FactsNow(q)' <=>
                 /\ OwnedElsewhere(q.client, q.tenant)'
                 /\ IsMember(row[q.client].tenant, q.user, q.client)'
           /\ "flagged" \in FactsNow(q)' <=>
                 OwnedElsewhere(q.client, q.tenant)' /\ row'[q.client].cross
           /\ "eligible" \in FactsNow(q)' <=>
                 /\ mapping'[q.client] # None
                 /\ \/ row'[q.client] = NoRow
                    \/ RowIn(q.client, q.tenant)' /\ row'[q.client].source = "dcr"
           /\ "unmapped" \in FactsNow(q)' <=> mapping'[q.client] = None
BY Zenon DEF FactsNow, Facts

\* Witness leaves idle logins idle and adds the facts of the next state to
\* every other one.
LEMMA WitnessEffect ==
    ASSUME NEW moved \in [Logins -> LoginType], login' = Witness(moved), NEW l \in Logins
    PROVE  /\ moved[l].pc = "idle" => login'[l] = IdleLogin
           /\ moved[l].pc # "idle" =>
                 \E S \in SUBSET Facts :
                    /\ login'[l] = Seen(moved[l], S)
                    /\ \A q : q = moved[l] => S = FactsNow(q)'
<1>1. CASE moved[l].pc = "idle"
  BY Zenon, <1>1 DEF Witness
<1>2. CASE moved[l].pc # "idle"
  <2> DEFINE S == UNION {FactsNow(q)' : q \in {moved[l]}}
  <2>1. \A q : q = moved[l] => S = FactsNow(q)'
    BY Zenon
  <2>2. S \subseteq Facts
    BY Zenon, FactsNext
  <2>3. login'[l] = Seen(moved[l], S)
    BY Zenon, <1>2 DEF Witness, Seen
  <2> QED BY Zenon, <1>2, <2>1, <2>2, <2>3
<1> QED BY Zenon, <1>1, <1>2

-----------------------------------------------------------------------------
(* A login that does not move keeps its invariant under Rely.              *)

\* More facts never take a justification away.
LEMMA JustifiedMonotone ==
    ASSUME NEW A, NEW B, A \subseteq B, Justified(A)
    PROVE  Justified(B)
BY Zenon DEF Justified

\* A login between two awaited calls survives the steps of the lifecycle.
LEMMA LoginStable ==
    ASSUME Rely, IInv, NEW q \in LoginType, LoginInv(q), q.pc # "idle",
           NEW S, S \subseteq Facts
    PROVE  LoginInv(Seen(q, S))'
<1> DEFINE c == q.client
           x == Seen(q, S)
<1>1. /\ x.pc = q.pc /\ x.tenant = q.tenant /\ x.client = c /\ x.state = q.state
      /\ x.owner = q.owner /\ x.saw = q.saw \cup S /\ c \in Clients
  BY Zenon, SeenType, LoginActive
<1>2. RelyClient(c) /\ Published(c) /\ kind[c] # "agent" /\ Minted(c)
  BY Zenon, <1>1 DEF Rely, LoginInv, Published, Minted
<1>3. Published(c)' /\ kind'[c] # "agent"
  BY Zenon, <1>2 DEF Published, RelyClient, Minted
<1>4. c \in hydra' => c \in hydra
  BY Zenon, <1>2 DEF RelyClient
<1>5. c \in hydra' /\ RowIn(c, q.owner) => RowIn(c, q.owner)'
  BY Zenon, <1>2 DEF RelyClient, RowKept, RowIn
<1>6. Justified(q.saw) => Justified(x.saw)
  BY Zenon, <1>1, JustifiedMonotone
<1> HIDE DEF x
<1> SUFFICES LoginInv(x)'
  BY Zenon DEF x
<1>7. q.pc = "check" =>
         \/ Justified(q.saw)
         \/ /\ q.state = "local_admin" /\ q.owner = q.tenant
            /\ c \in hydra => RowIn(c, q.owner)
         \/ /\ q.state = "cross" /\ q.owner # q.tenant /\ "flagged" \in q.saw
            /\ c \in hydra => RowIn(c, q.owner)
  BY Zenon DEF LoginInv
<1>8. /\ q.pc # "session" => "session" \in q.saw
      /\ q.pc = "accept" /\ c \in hydra => Justified(q.saw)
      /\ q.pc = "accepted" => Justified(q.saw)
  BY Zenon DEF LoginInv
<1> QED BY Zenon, <1>1, <1>3, <1>4, <1>5, <1>6, <1>7, <1>8 DEF LoginInv

-----------------------------------------------------------------------------
(* From the parts to the whole.                                            *)

\* The bookkeeping of a step: the life cycle took a step of its own or none,
\* every login but one stayed where it was, and that one is as it should be.
LEMMA GateCombine ==
    ASSUME GateIInv, [Next]_vars, session' \in [Users -> {0} \cup Levels],
           NEW moved \in [Logins -> LoginType], login' = Witness(moved),
           \A l \in Logins :
              \/ moved[l] = login[l]
              \/ moved[l].pc = "idle"
              \/ /\ OwnerKnown(moved[l])
                 /\ \A q, S : q = moved[l] /\ S = FactsNow(q)' => LoginInv(Seen(q, S))'
    PROVE  GateIInv'
<1>1. IInv' /\ Rely /\ TypeOK'
  BY Zenon, IInvNext DEF GateIInv, IInv
<1>2. ASSUME NEW l \in Logins
      PROVE  login'[l] \in LoginType /\ OwnerKnown(login'[l]) /\ LoginInv(login[l])'
  <2>1. CASE moved[l].pc = "idle"
    <3>1. login'[l] = IdleLogin
      BY Zenon, <2>1, WitnessEffect
    <3> QED BY <3>1 DEF LoginType, OwnerKnown, LoginInv, IdleLogin
  <2>2. CASE moved[l].pc # "idle"
    <3>1. PICK S \in SUBSET Facts : /\ login'[l] = Seen(moved[l], S)
                                    /\ \A q : q = moved[l] => S = FactsNow(q)'
      BY Zenon, <2>2, WitnessEffect
    <3>2. login'[l] \in LoginType /\ moved[l] \in LoginType
      BY <2>2, <3>1, SeenType
    <3>3. login'[l].pc = moved[l].pc /\ login'[l].owner = moved[l].owner
      BY <2>2, <3>1, SeenType
    <3>4. CASE moved[l] = login[l]
      <4>1. LoginInv(login[l]) /\ OwnerKnown(login[l])
        BY Zenon DEF GateIInv, GateTypeOK, OwnerKnown
      <4>2. LoginInv(moved[l])
        BY Zenon, <4>1, <3>4
      <4>3. \A q : q = moved[l] => LoginInv(Seen(q, S))'
        BY Zenon, <4>2, <3>2, <2>2, <1>1, LoginStable DEF GateIInv
      <4>4. \A q : q = login'[l] => LoginInv(q)'
        BY Zenon, <4>3, <3>1
      <4>5. LoginInv(login[l])'
        BY Zenon, <4>4
      <4> QED BY Zenon, <4>1, <4>5, <3>2, <3>3, <3>4 DEF OwnerKnown
    <3>5. CASE /\ OwnerKnown(moved[l])
               /\ \A q, S1 : q = moved[l] /\ S1 = FactsNow(q)' => LoginInv(Seen(q, S1))'
      <4>1. \A q : q = login'[l] => LoginInv(q)'
        BY Zenon, <3>5, <3>1
      <4>2. LoginInv(login[l])'
        BY Zenon, <4>1
      <4> QED BY Zenon, <4>2, <3>2, <3>3, <3>5 DEF OwnerKnown
    <3> QED BY Zenon, <2>2, <3>4, <3>5
  <2> QED BY Zenon, <2>1, <2>2
<1>3. login' \in [Logins -> LoginType]
  <2>1. login' = [l \in Logins |-> login'[l]]
    BY Zenon DEF Witness
  <2> QED BY Zenon, <1>2, <2>1
<1>4. GateTypeOK'
  BY Zenon, <1>1, <1>2, <1>3 DEF GateTypeOK, OwnerKnown
<1> QED BY Zenon, <1>1, <1>2, <1>4 DEF GateIInv

\* One login moves to x and the stores stay as they are.
LEMMA LoginMoves ==
    ASSUME GateIInv, UNCHANGED <<vars, session>>, NEW l \in Logins,
           NEW x \in LoginType, login' = Witness([login EXCEPT ![l] = x]), x.pc # "idle",
           OwnerKnown(x), \A S : S = FactsNow(x)' => LoginInv(Seen(x, S))'
    PROVE  GateIInv'
<1> DEFINE moved == [login EXCEPT ![l] = x]
<1>1. moved \in [Logins -> LoginType] /\ session' \in [Users -> {0} \cup Levels]
  BY Zenon DEF GateIInv, GateTypeOK
<1>2. moved[l] = x /\ \A k \in Logins : k # l => moved[k] = login[k]
  BY Zenon DEF GateIInv, GateTypeOK
<1>3. \A q, S : q = moved[l] /\ S = FactsNow(q)' => LoginInv(Seen(q, S))'
  BY Zenon, <1>2
<1>4. login' = Witness(moved) /\ [Next]_vars
  BY Zenon
<1>5. OwnerKnown(moved[l])
  BY Zenon, <1>2
<1> HIDE DEF moved
<1> QED BY Zenon, <1>1, <1>2, <1>3, <1>4, <1>5, GateCombine

\* A login that ends leaves nothing behind.
LEMMA LoginEnded ==
    ASSUME GateIInv, UNCHANGED <<vars, session>>, NEW l \in Logins,
           login' = Witness(EndLogin(l))
    PROVE  GateIInv'
<1> DEFINE moved == [login EXCEPT ![l] = IdleLogin]
<1>1. moved \in [Logins -> LoginType] /\ session' \in [Users -> {0} \cup Levels]
  BY Zenon DEF GateIInv, GateTypeOK, LoginType
<1>2. moved[l].pc = "idle" /\ \A k \in Logins : k # l => moved[k] = login[k]
  BY Zenon DEF GateIInv, GateTypeOK, IdleLogin
<1>3. login' = Witness(moved) /\ [Next]_vars
  BY Zenon DEF EndLogin
<1> HIDE DEF moved
<1> QED BY Zenon, <1>1, <1>2, <1>3, GateCombine

\* A login under way, by name.
LEMMA LoginAt ==
    ASSUME GateIInv, NEW l \in Logins, login[l].pc # "idle"
    PROVE  /\ login[l] \in LoginType /\ LoginInv(login[l]) /\ OwnerKnown(login[l])
           /\ login[l].client \in Clients /\ Published(login[l].client)
           /\ kind[login[l].client] # "agent"
BY Zenon, LoginActive DEF GateIInv, GateTypeOK, OwnerKnown, LoginInv

\* Moving a record to another read.
LEMMA GotoType ==
    ASSUME NEW q \in LoginType, q.pc # "idle", NEW pc \in LoginPcs,
           NEW x, x = [q EXCEPT !.pc = pc]
    PROVE  /\ x \in LoginType /\ x.pc = pc /\ x.user = q.user /\ x.tenant = q.tenant
           /\ x.client = q.client /\ x.required = q.required /\ x.state = q.state
           /\ x.owner = q.owner /\ x.saw = q.saw
BY LoginActive DEF LoginType

\* The points at which a login may wait.
LEMMA LoginPcFacts ==
    /\ "idle" \notin LoginPcs
    /\ {"session", "resolve", "classify", "check", "accept", "accepted"} \subseteq LoginPcs
BY Zenon DEF LoginPcs

-----------------------------------------------------------------------------
(* One lemma per step of a login.                                          *)

\* A login request arrives.
LEMMA LoginBeginStep ==
    ASSUME GateIInv, NEW l \in Logins, NEW u \in Users, NEW t \in LoginTenants,
           NEW c \in Clients, NEW a \in Levels, LoginBegin(l, u, t, c, a)
    PROVE  GateIInv'
<1> DEFINE x == [pc |-> "session", user |-> u, tenant |-> t, client |-> c,
                 required |-> a, state |-> "unresolved", owner |-> None, saw |-> {}]
<1>1. x \in LoginType /\ x.pc = "session" /\ x.client = c
  BY Zenon DEF LoginType, LoginPcs, EntitlementStates
<1>2. /\ UNCHANGED <<vars, session>>
      /\ login' = Witness([login EXCEPT ![l] = x])
      /\ Published(c) /\ kind[c] # "agent"
  BY Zenon DEF LoginBegin, AgentClients
<1> HIDE DEF x
<1>3. ASSUME NEW S, S = FactsNow(x)' PROVE LoginInv(Seen(x, S))'
  <2>1. S \subseteq Facts
    BY Zenon, <1>3, FactsNext
  <2>2. Seen(x, S).pc = "session" /\ Seen(x, S).client = c
    BY Zenon, <1>1, <2>1, SeenType
  <2>3. Published(c)' /\ kind'[c] # "agent"
    BY Zenon, <1>2 DEF Published, vars, procVars
  <2> QED BY Zenon, <2>2, <2>3 DEF LoginInv
<1> QED BY Zenon, <1>1, <1>2, <1>3, LoginMoves DEF OwnerKnown

\* The session is read; a skip needs one that is strong enough.
LEMMA LoginSessionStep ==
    ASSUME GateIInv, NEW l \in Logins, LoginSession(l)
    PROVE  GateIInv'
<1>0. UNCHANGED <<vars, session>> /\ login[l].pc = "session"
  BY Zenon DEF LoginSession
<1>1. CASE ~Sufficient(login[l])
  BY Zenon, <1>0, <1>1, LoginEnded DEF LoginSession
<1>2. CASE Sufficient(login[l])
  <2>1. PICK q : q = login[l]
    BY Zenon
  <2>2. q \in LoginType /\ LoginInv(q) /\ Published(q.client) /\ kind[q.client] # "agent"
    BY Zenon, <1>0, <2>1, LoginAt
  <2> DEFINE x == [q EXCEPT !.pc = "resolve"]
  <2>3. /\ x \in LoginType /\ x.pc = "resolve" /\ x.client = q.client /\ x.user = q.user
        /\ x.required = q.required /\ x.saw = q.saw
    BY <1>0, <2>1, <2>2, GotoType, LoginPcFacts
  <2>4. login' = Witness([login EXCEPT ![l] = x])
    <3>1. GotoLogin(l, "resolve") = [login EXCEPT ![l] = x]
      BY Zenon, <2>1 DEF GotoLogin, GateIInv, GateTypeOK
    <3> QED BY Zenon, <1>2, <3>1 DEF LoginSession
  <2>5. session'[q.user] >= q.required
    BY Zenon, <1>0, <1>2, <2>1 DEF Sufficient
  <2> HIDE DEF x
  <2>6. ASSUME NEW S, S = FactsNow(x)' PROVE LoginInv(Seen(x, S))'
    <3>1. S \subseteq Facts /\ "session" \in S
      BY Zenon, <2>3, <2>5, <2>6, FactsNext
    <3>2. /\ Seen(x, S).pc = "resolve" /\ Seen(x, S).client = q.client
          /\ "session" \in Seen(x, S).saw
      BY Zenon, <2>3, <3>1, SeenType
    <3>3. Published(q.client)' /\ kind'[q.client] # "agent"
      BY Zenon, <1>0, <2>2 DEF Published, vars, procVars
    <3> QED BY Zenon, <3>2, <3>3 DEF LoginInv
  <2> QED BY Zenon, <1>0, <2>3, <2>4, <2>6, LoginMoves DEF OwnerKnown
<1> QED BY Zenon, <1>1, <1>2

\* The client's tenant is resolved.
LEMMA LoginResolveStep ==
    ASSUME GateIInv, NEW l \in Logins, LoginResolve(l)
    PROVE  GateIInv'
<1>0. UNCHANGED <<vars, session>> /\ login[l].pc = "resolve"
  BY Zenon DEF LoginResolve
<1>1. PICK q : q = login[l]
  BY Zenon
<1>2. /\ q \in LoginType /\ LoginInv(q) /\ q.client \in Clients
      /\ Published(q.client) /\ kind[q.client] # "agent"
  BY Zenon, <1>0, <1>1, LoginAt
<1>3. Published(q.client)' /\ kind'[q.client] # "agent" /\ mapping' = mapping
  BY Zenon, <1>0, <1>2 DEF Published, vars, procVars, registryVars
<1>4. "session" \in q.saw
  BY Zenon, <1>0, <1>1, <1>2 DEF LoginInv
<1>5. CASE mapping[q.client] = None
  <2> DEFINE x == [q EXCEPT !.pc = "accept"]
  <2>1. x \in LoginType /\ x.pc = "accept" /\ x.client = q.client /\ x.saw = q.saw
    BY <1>0, <1>1, <1>2, GotoType, LoginPcFacts
  <2>2. login' = Witness([login EXCEPT ![l] = x])
    <3>1. GotoLogin(l, "accept") = [login EXCEPT ![l] = x]
      BY Zenon, <1>1 DEF GotoLogin, GateIInv, GateTypeOK
    <3> QED BY Zenon, <1>1, <1>5, <3>1 DEF LoginResolve
  <2> HIDE DEF x
  <2>3. ASSUME NEW S, S = FactsNow(x)' PROVE LoginInv(Seen(x, S))'
    <3>1. S \subseteq Facts /\ "unmapped" \in S
      BY Zenon, <1>3, <1>5, <2>1, <2>3, FactsNext
    <3>2. /\ Seen(x, S).pc = "accept" /\ Seen(x, S).client = q.client
          /\ "session" \in Seen(x, S).saw /\ "unmapped" \in Seen(x, S).saw
      BY Zenon, <1>4, <2>1, <3>1, SeenType
    <3> QED BY Zenon, <1>3, <3>2 DEF LoginInv, Justified
  <2> QED BY Zenon, <1>0, <2>1, <2>2, <2>3, LoginMoves DEF OwnerKnown
<1>6. CASE mapping[q.client] # None
  <2> DEFINE x == [pc |-> "classify", user |-> q.user, tenant |-> q.tenant,
                   client |-> q.client, required |-> q.required, state |-> q.state,
                   owner |-> mapping[q.client], saw |-> q.saw]
  <2>0. mapping[q.client] \in Tenants
    BY Zenon, <1>2, <1>6 DEF GateIInv, IInv, TypeOK, RegistryTypeOK
  <2>1. PICK y : y = x
    BY Zenon
  <2>2. /\ y \in LoginType /\ y.pc = "classify" /\ y.client = q.client /\ y.saw = q.saw
        /\ y.owner \in Tenants
    BY Zenon, <1>0, <1>1, <1>2, <2>0, <2>1, LoginActive DEF LoginType, LoginPcs
  <2>3. login' = Witness([login EXCEPT ![l] = y])
    <3>1. SetLogin(l, "classify", q.state, mapping[q.client], q.saw)
             = [login EXCEPT ![l] = y]
      BY Zenon, <1>1, <2>1 DEF SetLogin
    <3> QED BY Zenon, <1>1, <1>6, <3>1 DEF LoginResolve
  <2>4. ASSUME NEW S, S = FactsNow(y)' PROVE LoginInv(Seen(y, S))'
    <3>1. S \subseteq Facts
      BY Zenon, <2>4, FactsNext
    <3>2. /\ Seen(y, S).pc = "classify" /\ Seen(y, S).client = q.client
          /\ "session" \in Seen(y, S).saw
      BY Zenon, <1>4, <2>2, <3>1, SeenType
    <3> QED BY Zenon, <1>3, <3>2 DEF LoginInv
  <2> QED BY Zenon, <1>0, <2>2, <2>3, <2>4, LoginMoves DEF OwnerKnown
<1> QED BY Zenon, <1>5, <1>6

\* An owner that cannot be resolved refuses the login.
LEMMA LoginResolveFailsStep ==
    ASSUME GateIInv, NEW l \in Logins, LoginResolveFails(l)
    PROVE  GateIInv'
<1>0. UNCHANGED <<vars, session>> /\ login[l].pc \in {"resolve", "classify"}
  BY Zenon DEF LoginResolveFails
<1>1. PICK q : q = login[l]
  BY Zenon
<1>2. /\ q \in LoginType /\ LoginInv(q) /\ q.client \in Clients
      /\ Published(q.client) /\ kind[q.client] # "agent"
  BY Zenon, <1>0, <1>1, LoginAt
<1>3. Published(q.client)' /\ kind'[q.client] # "agent"
  BY Zenon, <1>0, <1>2 DEF Published, vars, procVars
<1>4. "session" \in q.saw
  BY Zenon, <1>0, <1>1, <1>2 DEF LoginInv
<1> DEFINE x == [pc |-> "accept", user |-> q.user, tenant |-> q.tenant,
                 client |-> q.client, required |-> q.required, state |-> q.state,
                 owner |-> q.owner, saw |-> q.saw \cup {"unread"}]
<1>5. /\ x \in LoginType /\ x.pc = "accept" /\ x.client = q.client
      /\ x.saw = q.saw \cup {"unread"}
  BY Zenon, <1>0, <1>1, <1>2, LoginActive DEF LoginType, LoginPcs
<1>6. login' = Witness([login EXCEPT ![l] = x])
  <2>1. SetLogin(l, "accept", q.state, q.owner, q.saw \cup {"unread"}) = [login EXCEPT ![l] = x]
    BY Zenon, <1>1 DEF SetLogin
  <2> QED BY Zenon, <1>1, <2>1 DEF LoginResolveFails
<1> HIDE DEF x
<1>7. ASSUME NEW S, S = FactsNow(x)' PROVE LoginInv(Seen(x, S))'
  <2>1. S \subseteq Facts
    BY Zenon, <1>7, FactsNext
  <2>2. /\ Seen(x, S).pc = "accept" /\ Seen(x, S).client = q.client
        /\ "session" \in Seen(x, S).saw /\ "unread" \in Seen(x, S).saw
    BY <1>4, <1>5, <2>1, SeenType
  <2> QED BY Zenon, <1>3, <2>2 DEF LoginInv, Justified
<1> QED BY Zenon, <1>0, <1>5, <1>6, <1>7, LoginMoves DEF OwnerKnown

\* The applications read of a login: what ClassifyOwned returns, and the fact
\* that is seen with it.
LEMMA ClassifyFacts ==
    ASSUME IInv, NEW q, q.client \in Clients, q.tenant \in Tenants, q.owner \in Tenants,
           UNCHANGED vars,
           NEW res, res = ClassifyOwned(q.client, q.tenant, q.owner),
           NEW S, S = FactsNow(q)'
    PROVE  /\ res.state \in EntitlementStates /\ res.owner \in Tenants
           /\ \/ /\ res.state \in {"provisional", "local_dcr"}
                 /\ "eligible" \in S \/ "unmapped" \in S
              \/ /\ res.state = "local_admin" /\ res.owner = q.tenant
                 /\ RowIn(q.client, res.owner)
              \/ /\ res.state = "cross" /\ res.owner # q.tenant /\ RowIn(q.client, res.owner)
                 /\ row[q.client].cross => "flagged" \in S
<1> DEFINE c == q.client
<1>1. row' = row /\ mapping' = mapping
  BY Zenon DEF vars, registryVars
<1>2. row[c] # NoRow => row[c].tenant \in Tenants
  BY Zenon DEF IInv, TypeOK, RegistryTypeOK, Rows
<1>3. CASE row[c] = NoRow
  <2>1. "eligible" \in S \/ "unmapped" \in S
    BY Zenon, <1>1, <1>3, FactsNext
  <2> QED BY Zenon, <1>3, <2>1 DEF ClassifyOwned, EntitlementStates
<1>4. CASE row[c] # NoRow /\ row[c].tenant # q.tenant
  <2>1. row[c].cross => "flagged" \in S
    BY Zenon, <1>1, <1>4, FactsNext DEF OwnedElsewhere
  <2> QED BY Zenon, <1>2, <1>4, <2>1 DEF ClassifyOwned, EntitlementStates, RowIn
<1>5. CASE row[c] # NoRow /\ row[c].tenant = q.tenant /\ row[c].source = "dcr"
  <2>1. "eligible" \in S \/ "unmapped" \in S
    BY Zenon, <1>1, <1>5, FactsNext DEF RowIn
  <2> QED BY Zenon, <1>5, <2>1 DEF ClassifyOwned, EntitlementStates
<1>6. CASE row[c] # NoRow /\ row[c].tenant = q.tenant /\ row[c].source # "dcr"
  BY Zenon, <1>2, <1>6 DEF ClassifyOwned, EntitlementStates, RowIn
<1> QED BY Zenon, <1>3, <1>4, <1>5, <1>6

\* Facts are about a login's user, tenant, client and level only.
LEMMA FactsSame ==
    ASSUME NEW q, NEW x, x.user = q.user, x.tenant = q.tenant, x.client = q.client,
           x.required = q.required
    PROVE  FactsNow(x)' = FactsNow(q)'
BY Zenon DEF FactsNow

\* The client is classified by its application row.
LEMMA LoginClassifyStep ==
    ASSUME GateIInv, NEW l \in Logins, LoginClassify(l)
    PROVE  GateIInv'
<1>0. UNCHANGED <<vars, session>> /\ login[l].pc = "classify"
  BY Zenon DEF LoginClassify
<1>1. PICK q : q = login[l]
  BY Zenon
<1>2. /\ q \in LoginType /\ LoginInv(q) /\ q.client \in Clients /\ q.owner \in Tenants
      /\ Published(q.client) /\ kind[q.client] # "agent"
  BY Zenon, <1>0, <1>1, LoginAt DEF OwnerKnown
<1>3. q.tenant \in Tenants
  BY Zenon, <1>0, <1>1, <1>2, LoginActive, LoginAssumption
<1>4. /\ Published(q.client)' /\ kind'[q.client] # "agent"
      /\ hydra' = hydra /\ row' = row
  BY Zenon, <1>0, <1>2 DEF Published, vars, procVars, registryVars
<1>5. "session" \in q.saw
  BY Zenon, <1>0, <1>1, <1>2 DEF LoginInv
<1>6. PICK res : res = ClassifyOwned(q.client, q.tenant, q.owner)
  BY Zenon
<1>7. CASE Refused(q.client, res)
  BY Zenon, <1>0, <1>1, <1>6, <1>7, LoginEnded DEF LoginClassify
<1>8. CASE ~Refused(q.client, res)
  <2> DEFINE pc == IF res.state = "provisional" /\ res.owner # q.tenant
                   THEN "accept" ELSE "check"
             x == [pc |-> pc, user |-> q.user, tenant |-> q.tenant, client |-> q.client,
                   required |-> q.required, state |-> res.state, owner |-> res.owner,
                   saw |-> q.saw]
  <2>1. res.state \in EntitlementStates /\ res.owner \in Tenants
    BY Zenon, <1>0, <1>2, <1>3, <1>6, ClassifyFacts DEF GateIInv
  <2>2. /\ x \in LoginType /\ x.pc = pc /\ x.user = q.user /\ x.tenant = q.tenant
        /\ x.client = q.client /\ x.required = q.required /\ x.state = res.state
        /\ x.owner = res.owner /\ x.saw = q.saw
    BY Zenon, <1>0, <1>1, <1>2, <2>1, LoginActive DEF LoginType, LoginPcs
  <2>3. login' = Witness([login EXCEPT ![l] = x])
    <3>1. SetLogin(l, pc, res.state, res.owner, q.saw) = [login EXCEPT ![l] = x]
      BY Zenon, <1>1 DEF SetLogin
    <3> QED BY Zenon, <1>1, <1>6, <1>8, <3>1 DEF LoginClassify
  <2>4. x.pc \in {"accept", "check"} /\ x.pc # "idle"
    BY Zenon, <2>2
  <2> HIDE DEF x
  <2>5. ASSUME NEW S, S = FactsNow(x)' PROVE LoginInv(Seen(x, S))'
    <3>1. S \subseteq Facts /\ S = FactsNow(q)'
      BY Zenon, <2>2, <2>5, FactsNext, FactsSame
    <3>2. PICK y : y = Seen(x, S)
      BY Zenon
    <3>3. /\ y.pc = pc /\ y.client = q.client /\ y.tenant = q.tenant
          /\ y.state = res.state /\ y.owner = res.owner /\ y.saw = q.saw \cup S
      BY <2>2, <2>4, <3>1, <3>2, SeenType
    <3>4. \/ /\ res.state \in {"provisional", "local_dcr"}
             /\ "eligible" \in S \/ "unmapped" \in S
          \/ /\ res.state = "local_admin" /\ res.owner = q.tenant
             /\ RowIn(q.client, res.owner)
          \/ /\ res.state = "cross" /\ res.owner # q.tenant /\ RowIn(q.client, res.owner)
             /\ row[q.client].cross => "flagged" \in S
      BY Zenon, <1>0, <1>2, <1>3, <1>6, <3>1, ClassifyFacts DEF GateIInv
    <3>5. res.state = "cross" => row[q.client].cross
      BY Zenon, <1>8 DEF Refused
    <3>6. RowIn(q.client, res.owner) => RowIn(q.client, res.owner)'
      BY Zenon, <1>4 DEF RowIn
    <3>7. "eligible" \in S \/ "unmapped" \in S => Justified(y.saw)
      BY Zenon, <3>3 DEF Justified
    <3>8. LoginInv(y)'
      BY Zenon, <1>4, <1>5, <3>3, <3>4, <3>5, <3>6, <3>7 DEF LoginInv
    <3> QED BY Zenon, <3>2, <3>8
  <2>6. OwnerKnown(x)
    BY Zenon, <2>1, <2>2 DEF OwnerKnown
  <2> QED BY Zenon, <1>0, <2>2, <2>3, <2>4, <2>5, <2>6, LoginMoves
<1> QED BY Zenon, <1>7, <1>8

\* The membership check, and the first-use exemption.
LEMMA LoginCheckStep ==
    ASSUME GateIInv, NEW l \in Logins, LoginCheck(l)
    PROVE  GateIInv'
<1>0. UNCHANGED <<vars, session>> /\ login[l].pc = "check"
  BY Zenon DEF LoginCheck
<1>1. PICK q : q = login[l]
  BY Zenon
<1>2. /\ q \in LoginType /\ LoginInv(q) /\ q.client \in Clients
      /\ Published(q.client) /\ kind[q.client] # "agent"
  BY Zenon, <1>0, <1>1, LoginAt
<1>3. /\ Published(q.client)' /\ kind'[q.client] # "agent"
      /\ hydra' = hydra /\ row' = row /\ members' = members /\ links' = links
  BY Zenon, <1>0, <1>2 DEF Published, vars, procVars, registryVars
<1>4. "session" \in q.saw
  BY Zenon, <1>0, <1>1, <1>2 DEF LoginInv
<1>5. PICK member \in {FALSE, Home[q.user] = q.tenant /\ IsMember(q.owner, q.user, q.client)} :
         login' = Witness(IF Admitted(q, member) THEN GotoLogin(l, "accept") ELSE EndLogin(l))
  BY Zenon, <1>1 DEF LoginCheck
<1>6. CASE ~Admitted(q, member)
  BY Zenon, <1>0, <1>5, <1>6, LoginEnded
<1>7. CASE Admitted(q, member)
  <2> DEFINE x == [q EXCEPT !.pc = "accept"]
  <2>1. /\ x \in LoginType /\ x.pc = "accept" /\ x.user = q.user /\ x.tenant = q.tenant
        /\ x.client = q.client /\ x.required = q.required /\ x.saw = q.saw
    BY <1>0, <1>1, <1>2, GotoType, LoginPcFacts
  <2>2. login' = Witness([login EXCEPT ![l] = x])
    <3>1. GotoLogin(l, "accept") = [login EXCEPT ![l] = x]
      BY Zenon, <1>1 DEF GotoLogin, GateIInv, GateTypeOK
    <3> QED BY Zenon, <1>5, <1>7, <3>1
  <2> HIDE DEF x
  <2>3. ASSUME NEW S, S = FactsNow(x)' PROVE LoginInv(Seen(x, S))'
    <3>1. S \subseteq Facts /\ S = FactsNow(q)'
      BY Zenon, <2>1, <2>3, FactsNext, FactsSame
    <3>2. PICK y : y = Seen(x, S)
      BY Zenon
    <3>3. y.pc = "accept" /\ y.client = q.client /\ y.saw = q.saw \cup S
      BY <2>1, <3>1, <3>2, SeenType
    <3>4. IsMember(q.owner, q.user, q.client) => IsMember(q.owner, q.user, q.client)'
      BY Zenon, <1>3 DEF IsMember
    <3>5. ASSUME q.client \in hydra PROVE Justified(y.saw)
      <4>1. CASE Justified(q.saw)
        BY Zenon, <4>1, <3>3, JustifiedMonotone
      <4>2. CASE /\ q.state = "local_admin" /\ q.owner = q.tenant
                 /\ RowIn(q.client, q.owner)
        <5>1. IsMember(q.owner, q.user, q.client)
          BY Zenon, <1>5, <1>7, <4>2 DEF Admitted, IsFirstUseEligible
        <5>2. ~OwnedElsewhere(q.client, q.tenant)'
          BY Zenon, <1>3, <4>2 DEF OwnedElsewhere, RowIn
        <5>3. "member" \in S
          BY Zenon, <3>1, <3>4, <4>2, <5>1, <5>2, FactsNext
        <5> QED BY Zenon, <3>3, <5>3 DEF Justified
      <4>3. CASE /\ q.state = "cross" /\ q.owner # q.tenant /\ "flagged" \in q.saw
                 /\ RowIn(q.client, q.owner)
        <5>1. IsMember(q.owner, q.user, q.client)
          BY Zenon, <1>5, <1>7, <4>3 DEF Admitted, IsFirstUseEligible
        <5>2. OwnedElsewhere(q.client, q.tenant)' /\ row'[q.client].tenant = q.owner
          BY Zenon, <1>3, <4>3 DEF OwnedElsewhere, RowIn
        <5>3. IsMember(row[q.client].tenant, q.user, q.client)'
          BY Zenon, <1>3, <5>1, <5>2 DEF IsMember
        <5>4. "foreign_member" \in S
          BY Zenon, <3>1, <5>2, <5>3, FactsNext
        <5> QED BY Zenon, <3>3, <4>3, <5>4 DEF Justified
      <4> QED BY Zenon, <1>0, <1>1, <1>2, <3>5, <4>1, <4>2, <4>3 DEF LoginInv
    <3>6. LoginInv(y)'
      BY Zenon, <1>3, <1>4, <3>3, <3>5 DEF LoginInv
    <3> QED BY Zenon, <3>2, <3>6
  <2> QED BY Zenon, <1>0, <2>1, <2>2, <2>3, LoginMoves DEF OwnerKnown
<1> QED BY Zenon, <1>6, <1>7

\* accept_login on what was read before.
LEMMA LoginAcceptStep ==
    ASSUME GateIInv, NEW l \in Logins, LoginAccept(l)
    PROVE  GateIInv'
<1>0. UNCHANGED <<vars, session>> /\ login[l].pc = "accept"
  BY Zenon DEF LoginAccept
<1>1. PICK q : q = login[l]
  BY Zenon
<1>2. /\ q \in LoginType /\ LoginInv(q) /\ q.client \in Clients
      /\ Published(q.client) /\ kind[q.client] # "agent"
  BY Zenon, <1>0, <1>1, LoginAt
<1>3. Published(q.client)' /\ kind'[q.client] # "agent"
  BY Zenon, <1>0, <1>2 DEF Published, vars, procVars
<1>4. CASE q.client \notin hydra
  BY Zenon, <1>0, <1>1, <1>4, LoginEnded DEF LoginAccept
<1>5. CASE q.client \in hydra
  <2> DEFINE x == [q EXCEPT !.pc = "accepted"]
  <2>1. x \in LoginType /\ x.pc = "accepted" /\ x.client = q.client /\ x.saw = q.saw
    BY <1>0, <1>1, <1>2, GotoType, LoginPcFacts
  <2>2. login' = Witness([login EXCEPT ![l] = x])
    <3>1. GotoLogin(l, "accepted") = [login EXCEPT ![l] = x]
      BY Zenon, <1>1 DEF GotoLogin, GateIInv, GateTypeOK
    <3> QED BY Zenon, <1>1, <1>5, <3>1 DEF LoginAccept
  <2>3. "session" \in q.saw /\ Justified(q.saw)
    BY Zenon, <1>0, <1>1, <1>2, <1>5 DEF LoginInv
  <2> HIDE DEF x
  <2>4. ASSUME NEW S, S = FactsNow(x)' PROVE LoginInv(Seen(x, S))'
    <3>1. S \subseteq Facts
      BY Zenon, <2>4, FactsNext
    <3>2. PICK y : y = Seen(x, S)
      BY Zenon
    <3>3. y.pc = "accepted" /\ y.client = q.client /\ y.saw = q.saw \cup S
      BY <2>1, <3>1, <3>2, SeenType
    <3>4. Justified(y.saw)
      BY Zenon, <2>3, <3>3, JustifiedMonotone
    <3>5. LoginInv(y)'
      BY Zenon, <1>3, <2>3, <3>3, <3>4 DEF LoginInv
    <3> QED BY Zenon, <3>2, <3>5
  <2> QED BY Zenon, <1>0, <2>1, <2>2, <2>4, LoginMoves DEF OwnerKnown
<1> QED BY Zenon, <1>4, <1>5

\* A refusal, a failed call or the end of the request.
LEMMA LoginEndsStep ==
    ASSUME GateIInv, NEW l \in Logins, LoginEnds(l)
    PROVE  GateIInv'
BY Zenon, LoginEnded DEF LoginEnds

\* Every step of a login keeps the invariant.
LEMMA LoginSteps ==
    ASSUME GateIInv, NEW l \in Logins, LoginStep(l)
    PROVE  GateIInv'
BY Zenon, LoginBeginStep, LoginSessionStep, LoginResolveStep, LoginResolveFailsStep,
   LoginClassifyStep, LoginCheckStep, LoginAcceptStep, LoginEndsStep DEF LoginStep

\* A step of Kratos or of the life cycle moves no login.
LEMMA Elsewhere ==
    ASSUME GateIInv, [Next]_vars, session' \in [Users -> {0} \cup Levels],
           login' = Witness(login)
    PROVE  GateIInv'
<1>1. login \in [Logins -> LoginType]
  BY Zenon DEF GateIInv, GateTypeOK
<1> QED BY Zenon, <1>1, GateCombine

-----------------------------------------------------------------------------
(* The composition, and what follows.                                      *)

\* No login is in flight at first.
LEMMA GateStart == GateInit => GateIInv
<1> SUFFICES ASSUME GateInit PROVE GateIInv
  BY Zenon
<1>1. IInv /\ TypeOK
  BY Zenon, IInvInit DEF GateInit, IInv
<1>2. GateTypeOK
  BY Zenon, <1>1 DEF GateInit, GateTypeOK, LoginType, IdleLogin
<1>3. \A l \in Logins : LoginInv(login[l])
  BY Zenon DEF GateInit, LoginInv, IdleLogin
<1> QED BY Zenon, <1>1, <1>2, <1>3 DEF GateIInv

\* The invariant is inductive, and a login is no step of the lifecycle.
LEMMA GateStep == GateIInv /\ [GateNext]_gateVars => GateIInv' /\ [Next]_vars
<1> SUFFICES ASSUME GateIInv, [GateNext]_gateVars PROVE GateIInv' /\ [Next]_vars
  BY Zenon
<1>0. session \in [Users -> {0} \cup Levels]
  BY Zenon DEF GateIInv, GateTypeOK
<1>1. CASE UNCHANGED gateVars
  <2>1. UNCHANGED vars /\ UNCHANGED <<session, login>>
    BY Zenon, <1>1 DEF gateVars, loginVars
  <2>2. IInv' /\ TypeOK' /\ Rely
    BY Zenon, <2>1, IInvNext DEF GateIInv, IInv
  <2>3. GateTypeOK'
    BY Zenon, <2>1, <2>2 DEF GateIInv, GateTypeOK
  <2>4. \A l \in Logins : LoginInv(login[l])'
    BY Zenon, <2>1 DEF GateIInv, LoginInv, Published, RowIn, vars, procVars, registryVars
  <2> QED BY Zenon, <2>1, <2>2, <2>3, <2>4 DEF GateIInv
<1>2. CASE \E l \in Logins : LoginStep(l)
  <2>1. UNCHANGED vars
    BY Zenon, <1>2 DEF LoginStep, LoginBegin, LoginSession, LoginResolve, LoginResolveFails,
                LoginClassify, LoginCheck, LoginAccept, LoginEnds
  <2> QED BY Zenon, <1>2, <2>1, LoginSteps
<1>3. CASE \E u \in Users, a \in {0} \cup Levels : SessionChanges(u, a)
  <2>1. PICK u \in Users, a \in {0} \cup Levels : SessionChanges(u, a)
    BY Zenon, <1>3
  <2>2. session' \in [Users -> {0} \cup Levels]
    BY Zenon, <1>0, <2>1 DEF SessionChanges
  <2>3. UNCHANGED vars /\ login' = Witness(login)
    BY Zenon, <2>1 DEF SessionChanges
  <2> QED BY Zenon, <2>2, <2>3, Elsewhere
<1>4. CASE Next /\ UNCHANGED session /\ login' = Witness(login)
  BY Zenon, <1>0, <1>4, Elsewhere
<1> QED BY Zenon, <1>1, <1>2, <1>3, <1>4 DEF GateNext

\* What every login relies on at its next read holds in every reachable state.
THEOREM GateInvariance == GateSpec => []GateIInv
BY GateStart, GateStep, PTL DEF GateSpec

\* accept_skippable_login beside the life cycle adds nothing to it: the
\* composition implements DcrLifecycle, and keeps all that is proved of it.
THEOREM GateImplementsLifecycle == GateSpec => Spec
<1>1. GateInit => Init
  BY Zenon DEF GateInit
<1>2. GateIInv /\ [GateNext]_gateVars => [Next]_vars
  BY Zenon, GateStep
<1> QED BY <1>1, <1>2, GateInvariance, PTL DEF GateSpec, Spec

\* Every login is at one of its reads, with a tenant to classify against.
THEOREM GateTypeCorrect == GateSpec => []GateTypeOK
<1>1. GateIInv => GateTypeOK
  BY Zenon DEF GateIInv
<1> QED BY <1>1, GateInvariance, PTL

\* accept_skippable_login accepts no login without a reason that held at some
\* instant of the request, whatever consents, grants, revocations, deletes
\* and reapers ran between its reads.
THEOREM GateIsSound == GateSpec => []GateSound
<1>1. GateIInv => GateSound
  BY Zenon DEF GateIInv, LoginInv, GateSound
<1> QED BY <1>1, GateInvariance, PTL

\* An accepted login had, at some instant of the request, a session of the
\* assurance level Hydra asked for.
THEOREM AssuranceIsSound == GateSpec => []AssuranceSound
<1>1. GateIInv => AssuranceSound
  BY Zenon DEF GateIInv, LoginInv, AssuranceSound
<1> QED BY <1>1, GateInvariance, PTL

\* A skippable login that Hydra is told to accept passed both gates.
THEOREM LoginIsSound == GateSpec => []LoginSound
<1>1. GateSound /\ AssuranceSound => LoginSound
  BY Zenon DEF LoginSound
<1> QED BY <1>1, GateIsSound, AssuranceIsSound, PTL
=============================================================================
