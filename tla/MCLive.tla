------------------------------- MODULE MCLive --------------------------------
(***************************************************************************)
(* What must happen in the end: the reaper takes unused registrations,     *)
(* caches forget dead delegations and disabled agents, and every replica   *)
(* comes to serve.  The three components share no state, so a behaviour    *)
(* runs one of them, chosen at the start, under its own fairness, and the  *)
(* others rest.                                                            *)
(***************************************************************************)
EXTENDS Naturals, FiniteSets, TLC

CONSTANTS
    None, r1, r2,
    c1, sys, ta, tb, ua, f1,                \* clients
    a1, d1, t1, q1, p1, w1, m1,             \* agent tokens
    boot                                    \* startup

VARIABLES
    part,
    hydra, mapping, old, row, members, links, agents,
    kind, remembered, reg, consent, del, heal, gc, backfill, boots, revoked,
    now, status, grants, tokens, cache, scache, inbox, read, peek, write, mint,
    applied, racers,
    tenant, bootHydra, bootMapping, bootRow, seeded, pc, admin, deleted, faults

clientVars == <<hydra, mapping, old, row, members, links, agents, kind, remembered, reg,
                consent, del, heal, gc, backfill, boots, revoked>>
tokenVars == <<now, status, grants, tokens, cache, scache, inbox, read, peek, write, mint,
               applied, racers>>
bootVars == <<tenant, bootHydra, bootMapping, bootRow, seeded, pc, admin, deleted, faults>>

Registrations == INSTANCE DcrLifecycle
    WITH Clients <- {c1}, Tenants <- {sys, ta, tb}, System <- sys, Users <- {ua},
         Home <- (ua :> ta), Employees <- {}, Flows <- {f1}, Replicas <- {r1},
         Kinds <- {"dcr"}, Deletes <- {"self"}, RegTenants <- {sys}, MaxBoots <- 0,
         boot <- backfill

Delegated == INSTANCE AgentTokens
    WITH Agents <- {a1}, Delegations <- {d1}, Tokens <- {t1}, Replicas <- {r1},
         Reads <- {q1}, Peeks <- {p1}, Writes <- {w1}, Mints <- {m1},
         TokenTtl <- 2, MaxTime <- 1

\* Startups may stop anywhere but between the client's creation in Hydra and
\* its mapping.
Startup == INSTANCE Bootstrap
    WITH Replicas <- {r1, r2}, Clients <- {boot}, Boot <- boot,
         Inits <- {"fresh", "legacy", "wiped"}, AdminOps <- {}, MaxFaults <- 2,
         FaultPoints <- {"readTenant", "insertTenant", "readMapping", "getClient",
                         "updateClient", "recreate", "create", "readRow", "setCross",
                         "insertRow", "namespace", "seed", "serving"},
         hydra <- bootHydra, mapping <- bootMapping, row <- bootRow

-----------------------------------------------------------------------------
Init ==
    /\ part \in {"registrations", "tokens", "statuses", "startup"}
    /\ Registrations!Init
    /\ Delegated!Init
    /\ Startup!Init /\ (part # "startup" => ~tenant)

Registered(A) == part = "registrations" /\ A /\ UNCHANGED <<part, tokenVars, bootVars>>
Resolved(A) == part = "tokens" /\ A /\ UNCHANGED <<part, peek, clientVars, bootVars>>
Peeked(A) == part = "statuses" /\ A /\ UNCHANGED <<part, read, clientVars, bootVars>>
Started(A) == part = "startup" /\ A /\ UNCHANGED <<part, clientVars, tokenVars>>

\* Lookups of act-tokens and lookups of an agent's status fill different
\* caches: a behaviour makes lookups of one of the two kinds.  A status is read
\* and cached whether or not there are delegations, so it needs none of them.
Next ==
    /\ \/ part = "registrations" /\ Registrations!Next /\ UNCHANGED <<tokenVars, bootVars>>
       \/ /\ part \in {"tokens", "statuses"}
          /\ Delegated!Next
          /\ IF part = "tokens" THEN UNCHANGED peek ELSE UNCHANGED <<read, grants, now>>
          /\ UNCHANGED <<clientVars, bootVars>>
       \/ part = "startup" /\ Startup!Next /\ UNCHANGED <<clientVars, tokenVars>>
    /\ UNCHANGED part

vars == <<part, clientVars, tokenVars, bootVars>>

\* The fairness of the components.  Actions of different components are never
\* enabled in one behaviour, so fairness of their disjunction is fairness of
\* each: DcrLifecycle's, AgentTokens' and Bootstrap's formulae, side by side.
Seeds(r) == Startup!SeedApplication(r) /\ pc'[r] = "serving"
Ensures(r) == Startup!EnsureNamespace(r) /\ pc'[r] = "seed"

Fairness ==
    /\ WF_vars(\/ Registered(Registrations!Age(c1))
               \/ Resolved(Delegated!ActEntryLapses(r1, t1))
               \/ Peeked(Delegated!ActEntryLapses(r1, t1))
               \/ Started(Startup!ReplicaStep(r1)))
    /\ WF_vars(\/ Resolved(Delegated!StatusEntryLapses(r1, a1))
               \/ Peeked(Delegated!StatusEntryLapses(r1, a1))
               \/ Started(Startup!ReplicaStep(r2)))
    /\ WF_vars(\/ Resolved(\/ Delegated!ResolveRow(q1) \/ Delegated!ResolveDelegation(q1)
                           \/ Delegated!ResolveStatus(q1) \/ Delegated!ResolveInsert(q1))
               \/ Peeked(Delegated!StatusInsert(p1)))
    /\ SF_vars(Registered(Registrations!GcVisit(r1, c1)) \/ Started(Seeds(r1)))
    /\ SF_vars(Registered(Registrations!GcCheckRow(r1)) \/ Started(Seeds(r2)))
    /\ SF_vars(Registered(Registrations!GcCheckAgent(r1)) \/ Started(Ensures(r1)))
    /\ SF_vars(Registered(Registrations!GcRecheckTuples(r1)) \/ Started(Ensures(r2)))
    /\ SF_vars(Registered(Registrations!GcRecheckRow(r1)))
    /\ SF_vars(Registered(Registrations!GcDeleteHydra(r1)))
    /\ SF_vars(Registered(Registrations!GcDeleteMapping(r1)))

Spec == Init /\ [][Next]_vars /\ Fairness

-----------------------------------------------------------------------------
\* The reaper converges: a mapped registration nobody uses is gone in the end
\* (spawn_gc_worker, DcrLifecycle's property).
UnusedEventuallyReaped == Registrations!UnusedEventuallyReaped

\* A dead delegation is in the end served by no replica, for ever, even if
\* messages are lost, replicas restart before they publish, or lookups refill
\* the cache after the eviction (resolve_act_token's TTL).
RevocationConverges == Delegated!RevocationConverges

\* An agent that stays disabled is in the end active in no cache, and one that
\* stays active is in the end refused nowhere (agent_status's TTL).
StatusConverges == Delegated!StatusConverges

\* What the caches of act tokens and agent statuses say converges to what the
\* tables say, with no help from the broadcast.
CachesConverge == RevocationConverges /\ StatusConverges

\* Startups interrupted anywhere but between the client's creation in Hydra and
\* its mapping are completed by the next: every replica comes to serve for good
\* (build_app).
EveryReplicaServes == <>[](part = "startup" => \A r \in {r1, r2} : pc[r] = "serving")
=============================================================================
