---------------------------- MODULE AgentTokens ----------------------------
(***************************************************************************)
(* Agent act-tokens: delegations, minting, and the resolution of a         *)
(* presented token through the in-process caches of each gateway replica,  *)
(* with invalidation on write, a core NATS broadcast to the other replicas *)
(* and a TTL behind both.  Handlers are cut at their awaits: a resolution  *)
(* reads the token, the delegation and the agent in three statements and   *)
(* only then fills the cache, while revocations and status changes commit, *)
(* evict and publish in three further steps.                               *)
(***************************************************************************)
EXTENDS Naturals, FiniteSets

CONSTANTS
    Agents,       \* agent public ids
    Delegations,  \* delegation ids (grants by users)
    Tokens,       \* act-tokens that may be minted
    Replicas,     \* gateway processes
    Reads,        \* concurrent resolve_act_token calls that miss the cache
    Peeks,        \* concurrent agent_status calls that miss the cache
    Writes,       \* concurrent revoke / update / delete calls
    Mints,        \* concurrent mint calls
    TokenTtl,     \* AGENT_ACT_TOKEN_TTL_SECONDS
    MaxTime,      \* bound: the clock
    None

ASSUME TokensAssumption ==
    /\ Agents \cap Delegations = {}
    /\ None \notin Agents \cup Delegations \cup Tokens \cup Replicas
    /\ TokenTtl \in Nat \ {0}
    /\ MaxTime \in Nat

VARIABLES
    now,      \* the clock, shared by replicas and database
    status,   \* agents: "none" (no row), "active", "disabled"
    grants,   \* agent_delegations: state, agent_id, expires_at
    tokens,   \* agent_act_tokens: state, delegation_id, expires_at
    cache,    \* act_cache of each replica: "miss", "neg" (None), "pos" (Some)
    scache,   \* status_cache of each replica: "miss" or a status
    inbox,    \* NATS messages under way: <<replica, invalidated id>>
    read,     \* resolve_act_token calls that missed the cache
    peek,     \* agent_status calls that missed the cache
    write,    \* revoke_agent_delegation, update_agent and delete_agent calls
    mint,     \* mint_agent_act_token calls
    applied,  \* history: <<replica, delegation>> evicted after the delegation died
    racers    \* history: <<replica, token>> positive entries written after that death

dbVars == <<status, grants, tokens>>
cacheVars == <<cache, scache, applied, racers>>
vars == <<now, dbVars, cacheVars, inbox, read, peek, write, mint>>

-----------------------------------------------------------------------------
Time == 0..MaxTime
Statuses == {"none", "active", "disabled"}

NoGrant == [state |-> "none", agent |-> None, exp |-> 0]
NoToken == [state |-> "none", delegation |-> None, exp |-> 0]
IdleRead == [pc |-> "idle", replica |-> None, token |-> None, at |-> 0, val |-> "neg",
             live |-> FALSE]
IdlePeek == [pc |-> "idle", replica |-> None, agent |-> None, val |-> "none"]
IdleWrite == [pc |-> "idle", replica |-> None, id |-> None, status |-> "none"]
IdleMint == [pc |-> "idle", agent |-> None, delegation |-> None, exp |-> 0]

GrantType == {NoGrant} \cup
    [state: {"live", "revoked", "gone"}, agent: Agents, exp: Time]
TokenType == {NoToken} \cup
    [state: {"minted", "gone"}, delegation: Delegations, exp: Time]
ReadType == {IdleRead} \cup
    [pc: {"row", "delegation", "status", "insert"}, replica: Replicas, token: Tokens,
     at: Time, val: {"neg", "pos"}, live: BOOLEAN]
PeekType == {IdlePeek} \cup
    [pc: {"insert"}, replica: Replicas, agent: Agents, val: Statuses]
WritePcs == {"commit", "evict", "publish"}
WriteType == {IdleWrite}
    \cup [pc: WritePcs, replica: Replicas, id: Delegations, status: {"revoked"}]
    \cup [pc: WritePcs, replica: Replicas, id: Agents, status: Statuses]
MintType == {IdleMint} \cup
    [pc: {"delegation", "insert"}, agent: Agents, delegation: Delegations, exp: Time]

\* Every table and cache holds what its schema allows, every call is at one of
\* its awaits.
TypeOK ==
    /\ now \in Time
    /\ status \in [Agents -> Statuses]
    /\ grants \in [Delegations -> GrantType]
    /\ tokens \in [Tokens -> TokenType]
    /\ cache \in [Replicas -> [Tokens -> {"miss", "neg", "pos"}]]
    /\ scache \in [Replicas -> [Agents -> Statuses \cup {"miss"}]]
    /\ inbox \subseteq Replicas \X (Agents \cup Delegations)
    /\ read \in [Reads -> ReadType]
    /\ peek \in [Peeks -> PeekType]
    /\ write \in [Writes -> WriteType]
    /\ mint \in [Mints -> MintType]
    /\ applied \subseteq Replicas \X Delegations
    /\ racers \subseteq Replicas \X Tokens

Init ==
    /\ now = 0
    /\ status = [a \in Agents |-> "active"]
    /\ grants = [d \in Delegations |-> NoGrant]
    /\ tokens = [t \in Tokens |-> NoToken]
    /\ cache = [r \in Replicas |-> [t \in Tokens |-> "miss"]]
    /\ scache = [r \in Replicas |-> [a \in Agents |-> "miss"]]
    /\ inbox = {}
    /\ read = [q \in Reads |-> IdleRead]
    /\ peek = [q \in Peeks |-> IdlePeek]
    /\ write = [w \in Writes |-> IdleWrite]
    /\ mint = [m \in Mints |-> IdleMint]
    /\ applied = {}
    /\ racers = {}

-----------------------------------------------------------------------------
Least(a, b) == IF a <= b THEN a ELSE b

\* The delegation an act-token was minted against, and what is known of both.
DelegationOf(t) == tokens[t].delegation
Dead(d) == grants[d].state \in {"revoked", "gone"}

\* What evict_delegation or evict_agent called for x concerns.
Concerns(d, x) == d = x \/ grants[d].agent = x

\* A cache hit is filtered by the resolution's own expiry.
Serves(r, t) == cache[r][t] = "pos" /\ tokens[t].exp > now

-----------------------------------------------------------------------------
(* Delegations and minting.                                                *)

\* create_agent_delegation.  The checks and the insert are separate statements,
\* but what happens in between (a disable, the clock) only makes a state that
\* this order reaches too, and a delete makes the insert fail.
CreateAgentDelegation(d, a, exp) ==
    /\ grants[d] = NoGrant
    /\ status[a] = "active"
    /\ exp > now
    /\ grants' = [grants EXCEPT ![d] = [state |-> "live", agent |-> a, exp |-> exp]]
    /\ UNCHANGED <<now, status, tokens, cacheVars, inbox, read, peek, write, mint>>

OtherThanMint == <<now, status, grants, cacheVars, inbox, read, peek, write>>

\* mint_agent_act_token: the agent's own status, then the delegation, then the
\* insert, each on its own await.
MintBegin(m, a, d) ==
    /\ mint[m].pc = "idle"
    /\ status[a] = "active"
    /\ mint' = [mint EXCEPT ![m] =
                  [pc |-> "delegation", agent |-> a, delegation |-> d, exp |-> 0]]
    /\ UNCHANGED <<tokens, OtherThanMint>>

MintDelegation(m) ==
    LET d == mint[m].delegation IN
    /\ mint[m].pc = "delegation"
    /\ grants[d].state = "live" /\ grants[d].agent = mint[m].agent /\ grants[d].exp > now
    /\ mint' = [mint EXCEPT ![m] =
                  [pc |-> "insert", agent |-> @.agent, delegation |-> d, exp |-> grants[d].exp]]
    /\ UNCHANGED <<tokens, OtherThanMint>>

\* (mutant) the lifetime is not capped by the delegation's.
MintInsertUncapped(m, t) ==
    LET d == mint[m].delegation IN
    /\ mint[m].pc = "insert"
    /\ tokens[t] = NoToken
    /\ grants[d].state \in {"live", "revoked"}
    /\ tokens' = [tokens EXCEPT ![t] =
                    [state |-> "minted", delegation |-> d, exp |-> Least(now + TokenTtl, MaxTime)]]
    /\ mint' = [mint EXCEPT ![m] = IdleMint]
    /\ UNCHANGED OtherThanMint

\* The token's lifetime is capped by the delegation as it was read; a deleted
\* delegation fails the foreign key, a revoked one does not.
MintInsert(m, t) ==
    LET d == mint[m].delegation IN
    /\ mint[m].pc = "insert"
    /\ tokens[t] = NoToken
    /\ grants[d].state \in {"live", "revoked"}
    /\ tokens' = [tokens EXCEPT ![t] =
                    [state |-> "minted", delegation |-> d,
                     exp |-> Least(now + TokenTtl, mint[m].exp)]]
    /\ mint' = [mint EXCEPT ![m] = IdleMint]
    /\ UNCHANGED OtherThanMint

\* A check refuses (status, ownership, revocation, expiry, membership), a
\* statement fails, or the replica dies.
MintFails(m) ==
    /\ mint[m].pc # "idle"
    /\ mint' = [mint EXCEPT ![m] = IdleMint]
    /\ UNCHANGED <<tokens, OtherThanMint>>

-----------------------------------------------------------------------------
(* resolve_act_token.                                                      *)

OtherThanRead == <<now, dbVars, scache, applied, inbox, peek, write, mint>>

SetRead(q, pc, at, val) ==
    read' = [read EXCEPT ![q] =
        [pc |-> pc, replica |-> @.replica, token |-> @.token, at |-> at, val |-> val,
         live |-> @.live]]

\* The cache is missed; `live` records whether the grant was good then.
ResolveMiss(q, r, t) ==
    /\ read[q].pc = "idle"
    /\ tokens[t] # NoToken
    /\ cache[r][t] = "miss"
    /\ read' = [read EXCEPT ![q] =
                  [pc |-> "row", replica |-> r, token |-> t, at |-> 0, val |-> "neg",
                   live |-> ~Dead(DelegationOf(t))]]
    /\ UNCHANGED <<cache, racers, OtherThanRead>>

\* get_by_hash, then the clock reading of validate_act_token_row.
ResolveRow(q) ==
    LET t == read[q].token IN
    /\ read[q].pc = "row"
    /\ SetRead(q, IF tokens[t].state = "minted" /\ tokens[t].exp > now
                  THEN "delegation" ELSE "insert", now, "neg")
    /\ UNCHANGED <<cache, racers, OtherThanRead>>

\* (mutant) revoked_at is not looked at.
ResolveDelegationRevoked(q) ==
    LET g == grants[DelegationOf(read[q].token)] IN
    /\ read[q].pc = "delegation"
    /\ SetRead(q, IF g.state # "gone" /\ g.exp > read[q].at THEN "status" ELSE "insert",
               read[q].at, "neg")
    /\ UNCHANGED <<cache, racers, OtherThanRead>>

ResolveDelegation(q) ==
    LET g == grants[DelegationOf(read[q].token)] IN
    /\ read[q].pc = "delegation"
    /\ SetRead(q, IF g.state = "live" /\ g.exp > read[q].at THEN "status" ELSE "insert",
               read[q].at, "neg")
    /\ UNCHANGED <<cache, racers, OtherThanRead>>

ResolveStatus(q) ==
    LET a == grants[DelegationOf(read[q].token)].agent IN
    /\ read[q].pc = "status"
    /\ SetRead(q, "insert", read[q].at, IF status[a] = "active" THEN "pos" ELSE "neg")
    /\ UNCHANGED <<cache, racers, OtherThanRead>>

\* The cache is filled with what was read, and the caller answered.
ResolveInsert(q) ==
    LET r == read[q].replica
        t == read[q].token
    IN  /\ read[q].pc = "insert"
        /\ cache' = [cache EXCEPT ![r] = [@ EXCEPT ![t] = read[q].val]]
        /\ racers' = IF read[q].val = "pos" /\ Dead(DelegationOf(t))
                     THEN racers \cup {<<r, t>>} ELSE racers \ {<<r, t>>}
        /\ read' = [read EXCEPT ![q] = IdleRead]
        /\ UNCHANGED OtherThanRead

\* A statement fails: nothing is cached.
ResolveFails(q) ==
    /\ read[q].pc \in {"row", "delegation", "status"}
    /\ read' = [read EXCEPT ![q] = IdleRead]
    /\ UNCHANGED <<cache, racers, OtherThanRead>>

-----------------------------------------------------------------------------
(* agent_status.                                                           *)

StatusMiss(q, r, a) ==
    /\ peek[q].pc = "idle"
    /\ scache[r][a] = "miss"
    /\ peek' = [peek EXCEPT ![q] =
                  [pc |-> "insert", replica |-> r, agent |-> a, val |-> status[a]]]
    /\ UNCHANGED <<now, dbVars, cacheVars, inbox, read, write, mint>>

StatusInsert(q) ==
    LET r == peek[q].replica IN
    /\ peek[q].pc = "insert"
    /\ scache' = [scache EXCEPT ![r] = [@ EXCEPT ![peek[q].agent] = peek[q].val]]
    /\ peek' = [peek EXCEPT ![q] = IdlePeek]
    /\ UNCHANGED <<now, dbVars, cache, applied, racers, inbox, read, write, mint>>

-----------------------------------------------------------------------------
(* Eviction: what invalidate_entries_if and invalidate take out of one      *)
(* replica's caches.  Entries written later are not touched, and negative   *)
(* entries never match the predicate.                                       *)

Matches(r, t, x) == cache[r][t] = "pos" /\ Concerns(DelegationOf(t), x)

\* (mutant) an agent's eviction drops its status only.
EvictStatusOnly(r, x) ==
    /\ cache' = [cache EXCEPT ![r] =
                   [t \in Tokens |-> IF cache[r][t] = "pos" /\ DelegationOf(t) = x
                                     THEN "miss" ELSE cache[r][t]]]
    /\ scache' = [scache EXCEPT ![r] = [a \in Agents |-> IF a = x THEN "miss" ELSE scache[r][a]]]
    /\ applied' = applied \cup {<<r, d>> : d \in {e \in Delegations : Dead(e) /\ Concerns(e, x)}}
    /\ racers' = {p \in racers : ~(p[1] = r /\ Matches(r, p[2], x))}

Evict(r, x) ==
    /\ cache' = [cache EXCEPT ![r] =
                   [t \in Tokens |-> IF Matches(r, t, x) THEN "miss" ELSE cache[r][t]]]
    /\ scache' = [scache EXCEPT ![r] = [a \in Agents |-> IF a = x THEN "miss" ELSE scache[r][a]]]
    /\ applied' = applied \cup {<<r, d>> : d \in {e \in Delegations : Dead(e) /\ Concerns(e, x)}}
    /\ racers' = {p \in racers : ~(p[1] = r /\ Matches(r, p[2], x))}

-----------------------------------------------------------------------------
(* revoke_agent_delegation, update_agent (status) and delete_agent.        *)

OtherThanWrite == <<now, read, peek, mint>>

SetWrite(w, pc, r, x, s) ==
    write' = [write EXCEPT ![w] = [pc |-> pc, replica |-> r, id |-> x, status |-> s]]

GotoWrite(w, pc) == SetWrite(w, pc, write[w].replica, write[w].id, write[w].status)

\* delegations.get and the ownership check.
RevokeBegin(w, r, d) ==
    /\ write[w].pc = "idle"
    /\ grants[d].state \in {"live", "revoked"}
    /\ SetWrite(w, "commit", r, d, "revoked")
    /\ UNCHANGED <<dbVars, cacheVars, inbox, OtherThanWrite>>

\* agents.get; a status equal to the one read here ends the call.
UpdateAgentBegin(w, r, a, s) ==
    /\ write[w].pc = "idle"
    /\ status[a] # "none" /\ s # status[a]
    /\ SetWrite(w, "commit", r, a, s)
    /\ UNCHANGED <<dbVars, cacheVars, inbox, OtherThanWrite>>

DeleteAgentBegin(w, r, a) ==
    /\ write[w].pc = "idle"
    /\ status[a] # "none"
    /\ SetWrite(w, "commit", r, a, "none")
    /\ UNCHANGED <<dbVars, cacheVars, inbox, OtherThanWrite>>

\* The UPDATE or DELETE; a row that is gone ends the call.  Deleting an agent
\* cascades to its delegations and their act-tokens.
CommitRevoke(w) ==
    LET d == write[w].id IN
    /\ write[w].pc = "commit" /\ write[w].status = "revoked"
    /\ IF grants[d].state \in {"live", "revoked"}
       THEN /\ grants' = [grants EXCEPT ![d] =
                            [state |-> "revoked", agent |-> @.agent, exp |-> @.exp]]
            /\ GotoWrite(w, "evict")
       ELSE /\ write' = [write EXCEPT ![w] = IdleWrite]
            /\ UNCHANGED grants
    /\ UNCHANGED <<status, tokens, cacheVars, inbox, OtherThanWrite>>

CommitStatus(w) ==
    LET a == write[w].id IN
    /\ write[w].pc = "commit" /\ write[w].status \in {"active", "disabled"}
    /\ IF status[a] # "none"
       THEN /\ status' = [status EXCEPT ![a] = write[w].status]
            /\ GotoWrite(w, "evict")
       ELSE /\ write' = [write EXCEPT ![w] = IdleWrite]
            /\ UNCHANGED status
    /\ UNCHANGED <<grants, tokens, cacheVars, inbox, OtherThanWrite>>

\* ON DELETE CASCADE from the agent to its delegations to their tokens.
Cascade(a) ==
    /\ grants' = [d \in Delegations |->
                    IF grants[d].agent = a
                    THEN [state |-> "gone", agent |-> a, exp |-> grants[d].exp] ELSE grants[d]]
    /\ tokens' = [t \in Tokens |->
                    IF tokens[t].state = "minted" /\ grants[DelegationOf(t)].agent = a
                    THEN [state |-> "gone", delegation |-> tokens[t].delegation,
                          exp |-> tokens[t].exp]
                    ELSE tokens[t]]

CommitDelete(w) ==
    LET a == write[w].id IN
    /\ write[w].pc = "commit" /\ write[w].status = "none"
    /\ IF status[a] # "none"
       THEN /\ status' = [status EXCEPT ![a] = "none"]
            /\ Cascade(a)
            /\ GotoWrite(w, "evict")
       ELSE /\ write' = [write EXCEPT ![w] = IdleWrite]
            /\ UNCHANGED dbVars
    /\ UNCHANGED <<cacheVars, inbox, OtherThanWrite>>

\* invalidate_delegation / invalidate_agent: local eviction, then the
\* broadcast, which reaches this replica's own subscriber too.
InvalidateLocal(w) ==
    /\ write[w].pc = "evict"
    /\ Evict(write[w].replica, write[w].id)
    /\ GotoWrite(w, "publish")
    /\ UNCHANGED <<dbVars, inbox, OtherThanWrite>>

\* Fire and forget: without NATS, or when the publish fails, nobody hears.
Publish(w) ==
    /\ write[w].pc = "publish"
    /\ inbox' \in {inbox, inbox \cup {<<r, write[w].id>> : r \in Replicas}}
    /\ write' = [write EXCEPT ![w] = IdleWrite]
    /\ UNCHANGED <<dbVars, cacheVars, OtherThanWrite>>

WriteFails(w) ==
    /\ write[w].pc = "commit"
    /\ write' = [write EXCEPT ![w] = IdleWrite]
    /\ UNCHANGED <<dbVars, cacheVars, inbox, OtherThanWrite>>

-----------------------------------------------------------------------------
(* The invalidation subscriber, the TTL, restarts and the clock.           *)

HandleInvalidation(r, x) ==
    /\ <<r, x>> \in inbox
    /\ Evict(r, x)
    /\ inbox' = inbox \ {<<r, x>>}
    /\ UNCHANGED <<now, dbVars, read, peek, write, mint>>

\* Core NATS drops what a disconnected subscriber misses.
LoseMessage(r, x) ==
    /\ <<r, x>> \in inbox
    /\ inbox' = inbox \ {<<r, x>>}
    /\ UNCHANGED <<now, dbVars, cacheVars, read, peek, write, mint>>

\* time_to_live of the two caches.
ActEntryLapses(r, t) ==
    /\ cache[r][t] # "miss"
    /\ cache' = [cache EXCEPT ![r] = [@ EXCEPT ![t] = "miss"]]
    /\ racers' = racers \ {<<r, t>>}
    /\ UNCHANGED <<now, dbVars, scache, applied, inbox, read, peek, write, mint>>

StatusEntryLapses(r, a) ==
    /\ scache[r][a] # "miss"
    /\ scache' = [scache EXCEPT ![r] = [@ EXCEPT ![a] = "miss"]]
    /\ UNCHANGED <<now, dbVars, cache, applied, racers, inbox, read, peek, write, mint>>

\* A replica dies and comes back with empty caches: what it was doing stops,
\* so a committed revocation may never be published.
Restart(r) ==
    /\ cache' = [cache EXCEPT ![r] = [t \in Tokens |-> "miss"]]
    /\ scache' = [scache EXCEPT ![r] = [a \in Agents |-> "miss"]]
    /\ racers' = {p \in racers : p[1] # r}
    /\ inbox' = {p \in inbox : p[1] # r}
    /\ read' = [q \in Reads |-> IF read[q].replica = r THEN IdleRead ELSE read[q]]
    /\ peek' = [q \in Peeks |-> IF peek[q].replica = r THEN IdlePeek ELSE peek[q]]
    /\ write' = [w \in Writes |-> IF write[w].replica = r THEN IdleWrite ELSE write[w]]
    /\ UNCHANGED <<now, dbVars, applied, mint>>

Tick ==
    /\ now < MaxTime
    /\ now' = now + 1
    /\ UNCHANGED <<dbVars, cacheVars, inbox, read, peek, write, mint>>

-----------------------------------------------------------------------------
GrantStep ==
    \/ \E d \in Delegations, a \in Agents, exp \in Time : CreateAgentDelegation(d, a, exp)
    \/ \E m \in Mints :
          \/ \E a \in Agents, d \in Delegations : MintBegin(m, a, d)
          \/ MintDelegation(m)
          \/ \E t \in Tokens : MintInsert(m, t)
          \/ MintFails(m)

ReadStep(q) ==
    \/ \E r \in Replicas, t \in Tokens : ResolveMiss(q, r, t)
    \/ ResolveRow(q)
    \/ ResolveDelegation(q)
    \/ ResolveStatus(q)
    \/ ResolveInsert(q)
    \/ ResolveFails(q)

PeekStep(q) ==
    \/ \E r \in Replicas, a \in Agents : StatusMiss(q, r, a)
    \/ StatusInsert(q)

WriteStep(w) ==
    \/ \E r \in Replicas, d \in Delegations : RevokeBegin(w, r, d)
    \/ \E r \in Replicas, a \in Agents, s \in {"active", "disabled"} :
          UpdateAgentBegin(w, r, a, s)
    \/ \E r \in Replicas, a \in Agents : DeleteAgentBegin(w, r, a)
    \/ CommitRevoke(w)
    \/ CommitStatus(w)
    \/ CommitDelete(w)
    \/ InvalidateLocal(w)
    \/ Publish(w)
    \/ WriteFails(w)

ReplicaStep(r) ==
    \/ \E x \in Agents \cup Delegations : HandleInvalidation(r, x) \/ LoseMessage(r, x)
    \/ \E t \in Tokens : ActEntryLapses(r, t)
    \/ \E a \in Agents : StatusEntryLapses(r, a)
    \/ Restart(r)

Next ==
    \/ GrantStep
    \/ \E q \in Reads : ReadStep(q)
    \/ \E q \in Peeks : PeekStep(q)
    \/ \E w \in Writes : WriteStep(w)
    \/ \E r \in Replicas : ReplicaStep(r)
    \/ Tick

Spec == Init /\ [][Next]_vars

\* Cache entries reach their TTL and a lookup's statements return; nothing is
\* assumed of the broadcast, of writers, or of the tokens' own expiry.
Fairness ==
    /\ \A r \in Replicas :
          /\ \A t \in Tokens : WF_vars(ActEntryLapses(r, t))
          /\ \A a \in Agents : WF_vars(StatusEntryLapses(r, a))
    /\ \A q \in Reads :
          WF_vars(ResolveRow(q) \/ ResolveDelegation(q) \/ ResolveStatus(q) \/ ResolveInsert(q))
    /\ \A q \in Peeks : WF_vars(StatusInsert(q))

FairSpec == Spec /\ Fairness

-----------------------------------------------------------------------------
(* What the authority promises.                                            *)

\* "The token never outlives its delegation" (mint): whatever a replica
\* answers from its cache, the delegation has not expired, although the cache
\* is never told about expiries and the delegation is not read again.
ServedWithinGrant ==
    \A r \in Replicas, t \in Tokens :
        Serves(r, t) => now < grants[DelegationOf(t)].exp

\* Eviction is complete up to the reads under way: once a replica has evicted
\* a delegation that was revoked or deleted, the only positive entries left in
\* its cache for it were put there by a lookup that overlapped the death, and
\* no lookup that starts after the death ends positive.
OnlyRacersSurvive ==
    /\ \A r \in Replicas, t \in Tokens :
          cache[r][t] = "pos" /\ <<r, DelegationOf(t)>> \in applied => <<r, t>> \in racers
    /\ \A q \in Reads : read[q].pc = "insert" /\ read[q].val = "pos" => read[q].live

\* The TTL behind the broadcast works: a dead delegation is in the end served
\* by no replica, for ever, even if messages are lost, replicas restart before
\* they publish, or lookups refill the cache after the eviction.
RevocationConverges ==
    \A d \in Delegations :
        Dead(d) ~> [](\A r \in Replicas, t \in Tokens :
                         DelegationOf(t) = d => cache[r][t] # "pos")

\* The same for an agent that stays disabled, including its own status entry;
\* and an agent that stays active is in the end refused nowhere.
StatusConverges ==
    \A a \in Agents :
        /\ <>[](status[a] = "disabled") =>
              <>[](\A r \in Replicas :
                      /\ scache[r][a] # "active"
                      /\ \A t \in Tokens : ~(cache[r][t] = "pos" /\ Concerns(DelegationOf(t), a)))
        /\ <>[](status[a] = "active") =>
              <>[](\A r \in Replicas : scache[r][a] # "disabled")

-----------------------------------------------------------------------------
(* The inductive invariant behind the safety promises.                     *)

\* A token row has its delegation and expires no later; so will one being minted.
TokenInv(t) ==
    tokens[t] # NoToken =>
        /\ grants[DelegationOf(t)] # NoGrant
        /\ tokens[t].exp <= grants[DelegationOf(t)].exp

MintInv(m) ==
    mint[m].pc = "insert" =>
        /\ grants[mint[m].delegation] # NoGrant
        /\ mint[m].exp = grants[mint[m].delegation].exp

\* A lookup is about a known token, and past the delegation's check it began
\* while the delegation was good.
ReadInv(q) ==
    read[q].pc # "idle" =>
        /\ tokens[read[q].token] # NoToken
        /\ ~read[q].live => Dead(DelegationOf(read[q].token))
        /\ read[q].pc = "status" \/ read[q].val = "pos" => read[q].live

\* Positive entries are about known tokens; evicted delegations are dead.
CacheInv(r) ==
    /\ \A t \in Tokens : cache[r][t] = "pos" => tokens[t] # NoToken
    /\ \A d \in Delegations : <<r, d>> \in applied => Dead(d)
    /\ \A t \in Tokens :
          cache[r][t] = "pos" /\ <<r, DelegationOf(t)>> \in applied => <<r, t>> \in racers

Inv ==
    /\ TypeOK
    /\ \A t \in Tokens : TokenInv(t)
    /\ \A m \in Mints : MintInv(m)
    /\ \A q \in Reads : ReadInv(q)
    /\ \A r \in Replicas : CacheInv(r)

-----------------------------------------------------------------------------
(* What the repository says of the code and the code does not do.          *)

\* A write call ends: its handler returns to the caller.
Returns(w) == write[w].pc = "publish" /\ write'[w].pc = "idle"

\* "Revoke a grant; minted act-tokens fail introspection immediately."
\* (docs/api/reference.md): when revoke_agent_delegation returns, the replica
\* that ran it answers from its cache for none of the grant's tokens.
RevokedAtOnce ==
    [][\A w \in Writes, t \in Tokens :
          Returns(w) /\ DelegationOf(t) = write[w].id =>
              cache'[write[w].replica][t] # "pos"]_vars

\* "disabling (or re-enabling) an agent takes effect immediately for all of
\* its act-tokens" (update_agent): when the enabling call returns, the replica
\* that ran it refuses no token of the agent from its cache whose grant lives.
EnabledAtOnce ==
    [][\A w \in Writes, t \in Tokens :
          /\ Returns(w) /\ write[w].status = "active" /\ status[write[w].id] = "active"
          /\ tokens[t].state = "minted" /\ tokens[t].exp > now
          /\ ~Dead(DelegationOf(t)) /\ grants[DelegationOf(t)].agent = write[w].id
          => cache'[write[w].replica][t] # "neg"]_vars
=============================================================================
