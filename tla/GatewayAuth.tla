----------------------------- MODULE GatewayAuth -----------------------------
(***************************************************************************)
(* Bearer authentication of a request: auth_middleware asks the cached     *)
(* introspector about the token, resolves its subject through id_mappings, *)
(* looks an agent's status up and picks the tenant the request acts on.    *)
(* Every one of these is a separate await, so revocation at Hydra, the     *)
(* cache's writes by other replicas, the disabling of an agent and changes *)
(* of id_mappings may come between any two of them.                        *)
(*                                                                         *)
(* Time is a counter of ticks.  A request may be delayed at will, but the  *)
(* answer of an introspection is written to the cache within Hop ticks     *)
(* (the pool's acquire and statement timeouts), the status of an agent to  *)
(* the replica's own cache likewise, and Hydra's revocation is final.  The *)
(* requests are those of one replica; the tokens, the introspection cache  *)
(* and the tables are shared with all.                                     *)
(***************************************************************************)
EXTENDS Naturals, FiniteSets

CONSTANTS
    Tokens,         \* access tokens Hydra may issue
    Subjects,       \* Ory ids: Kratos identities and Hydra clients
    SubjectOf,      \* SubjectOf[k]: the `sub` of token k, or None
    KindOf,         \* KindOf[s]: "user", "client" or "agent"
    CrossTenant,    \* clients whose applications row has cross_tenant set
    Tenants,
    Requests,       \* the requests of a behaviour, each made once
    TTL,            \* token_introspection_cache_ttl_seconds
    Hop,            \* most ticks between Hydra's answer and the cache write
    StatusTTL,      \* agent_cache_ttl_seconds
    Life,           \* lifetime of an access token
    MaxTime,        \* bound on the clock
    ClearOnRevoke,  \* Oauth2State.token_cache is configured
    None

ASSUME AuthAssumption ==
    /\ SubjectOf \in [Tokens -> Subjects \cup {None}]
    /\ KindOf \in [Subjects -> {"user", "client", "agent"}]
    /\ CrossTenant \subseteq {s \in Subjects : KindOf[s] = "client"}
    /\ None \notin Subjects \cup Tenants \cup (0 .. MaxTime)
    /\ {TTL, Hop, StatusTTL, Life, MaxTime} \subseteq Nat
    /\ ClearOnRevoke \in BOOLEAN

VARIABLES
    now,
    issued,     \* issued[k]: when Hydra issued token k, or None
    revoked,    \* revoked[k]: when Hydra revoked token k, or None
    clearing,   \* tokens whose revoke request has yet to clear the cache
    cache,      \* token_introspection_cache: [at, exp] per token, or None
    mapped,     \* id_mappings: the tenant of each subject, or None
    unmapped,   \* when a subject's mapping was deleted, or None
    rehomed,    \* when first consent moved a client to another tenant, or None
    disabled,   \* since when an agent is disabled, or None
    status,     \* the replica's status cache: [at, ok] per subject, or None
    req         \* the requests

vars == <<now, issued, revoked, clearing, cache, mapped, unmapped, rehomed, disabled, status, req>>

hydraVars == <<issued, revoked>>
mappingVars == <<mapped, unmapped, rehomed>>
agentVars == <<disabled, status>>

Times == 0 .. MaxTime

NoReq == [pc |-> "new", tok |-> None, start |-> 0, seen |-> 0, exp |-> 0,
          header |-> None, tenant |-> None, read |-> 0, may |-> FALSE,
          kind |-> "none", target |-> None]

Pcs == {"new", "cache", "hydra", "put", "tenant", "public", "status", "insert", "target",
        "ok", "unauthorized", "unavailable"}

TypeOK ==
    /\ now \in Times
    /\ issued \in [Tokens -> Times \cup {None}]
    /\ revoked \in [Tokens -> Times \cup {None}]
    /\ clearing \subseteq Tokens
    /\ cache \in [Tokens -> [at: Times, exp: 0 .. MaxTime + Life] \cup {None}]
    /\ mapped \in [Subjects -> Tenants \cup {None}]
    /\ unmapped \in [Subjects -> Times \cup {None}]
    /\ rehomed \in [Subjects -> Times \cup {None}]
    /\ disabled \in [Subjects -> Times \cup {None}]
    /\ status \in [Subjects -> [at: Times, ok: BOOLEAN] \cup {None}]
    /\ req \in [Requests ->
          [pc: Pcs, tok: Tokens \cup {None}, start: Times, seen: Times,
           exp: 0 .. MaxTime + Life, header: Tenants \cup {None},
           tenant: Tenants \cup {None}, read: Times, may: BOOLEAN, kind: {"none", "user", "client", "agent"},
           target: Tenants \cup {None}]]
    \* an accepted request knows who it speaks for and where it acts
    /\ \A r \in Requests :
          req[r].pc = "ok" => /\ req[r].kind # "none"
                              /\ None \notin {req[r].tenant, req[r].target}
                              /\ SubjectOf[req[r].tok] # None

Init ==
    /\ now = 0
    /\ issued = [k \in Tokens |-> None]
    /\ revoked = [k \in Tokens |-> None]
    /\ clearing = {}
    /\ cache = [k \in Tokens |-> None]
    /\ mapped \in [Subjects -> Tenants]
    /\ unmapped = [s \in Subjects |-> None]
    /\ rehomed = [s \in Subjects |-> None]
    /\ disabled = [s \in Subjects |-> None]
    /\ status = [s \in Subjects |-> None]
    /\ req = [r \in Requests |-> NoReq]

-----------------------------------------------------------------------------
(* The world outside the request: the clock, Hydra and the other services. *)

\* A cache is never written later than Hop ticks after the answer was given.
WriteDue(r) ==
    \/ req[r].pc = "put" /\ req[r].seen + Hop <= now
    \/ req[r].pc = "insert" /\ req[r].read + Hop <= now

Tick ==
    /\ now < MaxTime
    /\ \A r \in Requests : ~WriteDue(r)
    /\ now' = now + 1
    /\ UNCHANGED <<issued, revoked, clearing, cache, mappingVars, agentVars, req>>

IssueToken(k) ==
    /\ issued[k] = None
    /\ issued' = [issued EXCEPT ![k] = now]
    /\ UNCHANGED <<now, revoked, clearing, cache, mappingVars, agentVars, req>>

Expiry(k) == issued[k] + Life

\* Hydra's answer: "active" until revoked or expired.
ActiveAtHydra(k) == issued[k] # None /\ revoked[k] = None /\ now < Expiry(k)

\* POST /oauth2/revoke, first await: hydra.revoke.  The cache is cleared in a
\* second one, when the handler has a cache at all.
Revoke(k) ==
    /\ issued[k] # None /\ revoked[k] = None
    /\ revoked' = [revoked EXCEPT ![k] = now]
    /\ clearing' = IF ClearOnRevoke THEN clearing \cup {k} ELSE clearing
    /\ UNCHANGED <<now, issued, cache, mappingVars, agentVars, req>>

\* cache.remove; a failure is logged and the answer is 200 all the same.
ClearCache(k) ==
    /\ k \in clearing
    /\ clearing' = clearing \ {k}
    /\ \/ cache' = [cache EXCEPT ![k] = None]
       \/ UNCHANGED cache
    /\ UNCHANGED <<now, issued, revoked, mappingVars, agentVars, req>>

\* First consent re-homes a client, once (id_mappings.update_tenant).
Rehome(s, t) ==
    /\ KindOf[s] = "client" /\ rehomed[s] = None /\ mapped[s] \notin {None, t}
    /\ mapped' = [mapped EXCEPT ![s] = t]
    /\ rehomed' = [rehomed EXCEPT ![s] = now]
    /\ UNCHANGED <<now, issued, revoked, clearing, cache, unmapped, disabled, status, req>>

DeleteMapping(s) ==
    /\ mapped[s] # None
    /\ mapped' = [mapped EXCEPT ![s] = None]
    /\ unmapped' = [unmapped EXCEPT ![s] = now]
    /\ UNCHANGED <<now, issued, revoked, clearing, cache, rehomed, disabled, status, req>>

DisableAgent(s) ==
    /\ KindOf[s] = "agent" /\ disabled[s] = None
    /\ disabled' = [disabled EXCEPT ![s] = now]
    /\ UNCHANGED <<now, issued, revoked, clearing, cache, mappingVars, status, req>>

\* evict_agent, on the replica that disabled the agent or when its message
\* arrives; a lost message is never followed by this step.
EvictStatus(s) ==
    /\ disabled[s] # None
    /\ status' = [status EXCEPT ![s] = None]
    /\ UNCHANGED <<now, issued, revoked, clearing, cache, mappingVars, disabled, req>>

-----------------------------------------------------------------------------
(* CachedTokenIntrospector::introspect.                                    *)

Step(r, rec) == req' = [req EXCEPT ![r] = rec]

Refuse(r, why) == Step(r, [NoReq EXCEPT !.pc = why])

\* A request with a bearer token on a protected path, and perhaps an
\* x-tenant-id header.  Act-tokens are resolved before and are AgentTokens'.
Begin(r, k, header) ==
    /\ req[r].pc = "new"
    /\ issued[k] # None
    /\ Step(r, [req[r] EXCEPT !.pc = "cache", !.tok = k, !.start = now, !.header = header])
    /\ UNCHANGED <<now, hydraVars, clearing, cache, mappingVars, agentVars>>

\* (mutant) the expiry of the token is not compared.
FreshByAge(k) == cache[k] # None /\ now <= cache[k].at + TTL

Fresh(k) ==
    /\ cache[k] # None
    /\ now <= cache[k].at + TTL
    /\ now <= cache[k].exp

CacheGet(r) ==
    /\ req[r].pc = "cache"
    /\ \/ /\ Fresh(req[r].tok)
          /\ Step(r, [req[r] EXCEPT !.pc = "tenant", !.seen = now])
       \/ /\ ~Fresh(req[r].tok)
          /\ Step(r, [req[r] EXCEPT !.pc = "hydra"])
       \/ Refuse(r, "unavailable")
    /\ UNCHANGED <<now, hydraVars, clearing, cache, mappingVars, agentVars>>

\* inner.introspect: inactive answers are refused and never cached.
Introspect(r) ==
    LET k == req[r].tok IN
    /\ req[r].pc = "hydra"
    /\ \/ /\ ActiveAtHydra(k)
          /\ Step(r, [req[r] EXCEPT !.pc = "put", !.seen = now, !.exp = Expiry(k)])
       \/ ~ActiveAtHydra(k) /\ Refuse(r, "unauthorized")
       \/ Refuse(r, "unavailable")
    /\ UNCHANGED <<now, hydraVars, clearing, cache, mappingVars, agentVars>>

\* cache.put, an upsert stamped NOW(); best effort.
CachePut(r) ==
    /\ req[r].pc = "put"
    /\ \/ cache' = [cache EXCEPT ![req[r].tok] = [at |-> now, exp |-> req[r].exp]]
       \/ UNCHANGED cache
    /\ Step(r, [req[r] EXCEPT !.pc = "tenant"])
    /\ UNCHANGED <<now, hydraVars, clearing, mappingVars, agentVars>>

-----------------------------------------------------------------------------
(* resolve_subject, agent_status and resolve_target_tenant.                *)

Who(r) == SubjectOf[req[r].tok]

\* An answer without `sub` is a broken upstream.  Otherwise
\* get_tenant_id_by_ory_id in the hydra backend, then in the kratos one.
ReadTenant(r) ==
    /\ req[r].pc = "tenant"
    /\ \/ Refuse(r, "unavailable")
       \/ Who(r) # None /\ mapped[Who(r)] = None /\ Refuse(r, "unauthorized")
       \/ /\ Who(r) # None /\ mapped[Who(r)] # None
          /\ Step(r, [req[r] EXCEPT !.pc = "public", !.tenant = mapped[Who(r)]])
    /\ UNCHANGED <<now, hydraVars, clearing, cache, mappingVars, agentVars>>

\* get_public_id_by_ory_id: the row may be gone by now.
ReadPublic(r) ==
    /\ req[r].pc = "public"
    /\ \/ Refuse(r, "unavailable")
       \/ mapped[Who(r)] = None /\ Refuse(r, "unauthorized")
       \/ /\ mapped[Who(r)] # None /\ KindOf[Who(r)] = "user"
          /\ Step(r, [req[r] EXCEPT !.pc = "target", !.kind = "user"])
       \/ /\ mapped[Who(r)] # None /\ KindOf[Who(r)] # "user"
          /\ Step(r, [req[r] EXCEPT !.pc = "status"])
    /\ UNCHANGED <<now, hydraVars, clearing, cache, mappingVars, agentVars>>

AgentMayAct(s) == disabled[s] = None

\* agent_status(public id): an answer cached by this replica, else the row.
StatusHit(s) == status[s] # None /\ now < status[s].at + StatusTTL

\* A status other than active refuses the request.
Judge(r, may) ==
    IF may THEN Step(r, [req[r] EXCEPT !.pc = "target", !.kind = KindOf[Who(r)]])
    ELSE Refuse(r, "unauthorized")

ReadStatus(r) ==
    LET s == Who(r) IN
    /\ req[r].pc = "status"
    /\ \/ StatusHit(s) /\ Judge(r, status[s].ok)
       \/ /\ ~StatusHit(s)
          /\ Step(r, [req[r] EXCEPT !.pc = "insert", !.read = now, !.may = AgentMayAct(s)])
       \/ ~StatusHit(s) /\ Refuse(r, "unavailable")
    /\ UNCHANGED <<now, hydraVars, clearing, cache, mappingVars, agentVars>>

InsertStatus(r) ==
    /\ req[r].pc = "insert"
    /\ status' = [status EXCEPT ![Who(r)] = [at |-> now, ok |-> req[r].may]]
    /\ Judge(r, req[r].may)
    /\ UNCHANGED <<now, hydraVars, clearing, cache, mappingVars, disabled>>

\* (mutant) any client may name the tenant it acts on.
MayNameTenantAny(r) == req[r].kind = "client"

MayNameTenant(r) == req[r].kind = "client" /\ Who(r) \in CrossTenant

\* The header counts for a plain client whose application is cross-tenant;
\* a failed lookup falls back to the home tenant.
TargetTenant(r) ==
    /\ req[r].pc = "target"
    /\ \/ Step(r, [req[r] EXCEPT !.pc = "ok", !.target = req[r].tenant])
       \/ /\ MayNameTenant(r) /\ req[r].header # None
          /\ mapped[Who(r)] # None
          /\ Step(r, [req[r] EXCEPT !.pc = "ok", !.target = req[r].header])
    /\ UNCHANGED <<now, hydraVars, clearing, cache, mappingVars, agentVars>>

-----------------------------------------------------------------------------
Next ==
    \/ Tick
    \/ \E k \in Tokens : IssueToken(k) \/ Revoke(k) \/ ClearCache(k)
    \/ \E s \in Subjects :
          \/ DeleteMapping(s)
          \/ DisableAgent(s) \/ EvictStatus(s)
          \/ \E t \in Tenants : Rehome(s, t)
    \/ \E r \in Requests :
          \/ \E k \in Tokens, header \in Tenants \cup {None} : Begin(r, k, header)
          \/ CacheGet(r) \/ Introspect(r) \/ CachePut(r)
          \/ ReadTenant(r) \/ ReadPublic(r) \/ ReadStatus(r) \/ InsertStatus(r)
          \/ TargetTenant(r)

Spec == Init /\ [][Next]_vars

-----------------------------------------------------------------------------
(* Properties.                                                             *)

Accepted(r) == req[r].pc = "ok"

\* A revoked token is accepted only by a request that looked it up within the
\* cache's TTL, plus the delay of one cache write, after the revocation: the
\* entry an introspection leaves behind never keeps a token alive beyond
\* that, whoever writes or clears it in the meantime.
StaleWindow ==
    \A r \in Requests :
        LET k == req[r].tok IN
        (Accepted(r) /\ revoked[k] # None) => req[r].seen <= revoked[k] + TTL + Hop

\* No cached answer outlives the token itself: an accepted request looked its
\* token up before or at its expiry (the exp test of cache.get).
NeverAfterExpiry ==
    \A r \in Requests : Accepted(r) => req[r].seen <= Expiry(req[r].tok)

\* What a revocation by other means costs: a deleted mapping acts on every
\* request that begins afterwards, cached introspection or not, and a disabled
\* agent is accepted only by requests that begin within the status cache's TTL
\* and the delay of its write, even when the invalidation never arrives.
KillSwitchWindow ==
    \A r \in Requests :
        LET s == Who(r) IN
        Accepted(r) =>
            /\ disabled[s] # None => req[r].start <= disabled[s] + StatusTTL + Hop
            /\ unmapped[s] # None => req[r].start <= unmapped[s]

\* The authority behind an accepted request was good recently: its token was
\* neither expired nor revoked too long ago, and its subject neither unmapped
\* nor disabled too long ago.
AuthorityRecent == StaleWindow /\ NeverAfterExpiry /\ KillSwitchWindow

\* A request begun after first consent re-homed its client acts on the new
\* home, not on the tenant the token was first seen under: the cache holds no
\* tenant, and x-tenant-id moves only the clients flagged for it.
ActsAtHome ==
    \A r \in Requests :
        LET s == Who(r) IN
        (/\ Accepted(r)
         /\ mapped[s] # None
         /\ (rehomed[s] # None => req[r].start > rehomed[s]))
        => \/ req[r].target = mapped[s]
           \/ s \in CrossTenant /\ req[r].target = req[r].header
=============================================================================
