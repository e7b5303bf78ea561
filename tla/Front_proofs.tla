---------------------------- MODULE Front_proofs ----------------------------
(***************************************************************************)
(* The front of the gateway: bearer authentication, the JWKS cache and the *)
(* SAML identity provider.  They share no state.                           *)
(***************************************************************************)
EXTENDS GatewayAuth, JwksCache, SamlIdp, TLAPS

-----------------------------------------------------------------------------
(* Bearer authentication, for every cache TTL, write delay, token lifetime *)
(* and number of tokens, subjects and requests: how long a revoked or an   *)
(* expired token may still be accepted, that deleting a mapping acts at    *)
(* once, how long a disabled agent may still be taken for active, and the  *)
(* tenant an accepted request acts on.                                     *)

ReqStates ==
    [pc: Pcs, tok: Tokens \cup {None}, start: Times, seen: Times,
     exp: 0 .. MaxTime + Life, header: Tenants \cup {None},
     tenant: Tenants \cup {None}, read: Times, may: BOOLEAN, kind: {"none", "user", "client", "agent"},
     target: Tenants \cup {None}]

\* The types of the stores and of the requests.
StoreTypes ==
    /\ now \in Times
    /\ issued \in [Tokens -> Times \cup {None}]
    /\ revoked \in [Tokens -> Times \cup {None}]
    /\ clearing \subseteq Tokens
    /\ cache \in [Tokens -> [at: Times, exp: 0 .. MaxTime + Life] \cup {None}]
    /\ mapped \in [Subjects -> Tenants \cup {None}]
    /\ unmapped \in [Subjects -> Times \cup {None}]
    /\ rehomed \in [Subjects -> Times \cup {None}]
    /\ disabled \in [Subjects -> Times \cup {None}]
    /\ status \in [Subjects -> [at: Times, ok: BOOLEAN] \cup {None}]
    /\ req \in [Requests -> ReqStates]

\* Where the token has been looked up, and where the mapping has been read.
LookedUp == {"put", "tenant", "public", "status", "insert", "target", "ok"}
Resolved == {"public", "status", "insert", "target", "ok"}
Begun == LookedUp \cup {"cache", "hydra"}

\* What holds of a request that has got as far as record q says.
GoodToken(q) ==
    /\ q.start <= now /\ q.seen <= now
    /\ q.pc \in Begun => q.tok \in Tokens /\ issued[q.tok] # None
    /\ q.pc \in LookedUp =>
           /\ revoked[q.tok] # None => q.seen <= revoked[q.tok] + TTL + Hop
           /\ q.seen <= issued[q.tok] + Life
    /\ q.pc = "put" =>
           /\ revoked[q.tok] # None => q.seen <= revoked[q.tok]
           /\ now <= q.seen + Hop
           /\ q.exp = issued[q.tok] + Life

GoodSubject(q) ==
    /\ q.pc \in Resolved =>
           /\ SubjectOf[q.tok] \in Subjects
           /\ q.tenant # None
           /\ unmapped[SubjectOf[q.tok]] # None => q.start <= unmapped[SubjectOf[q.tok]]
    /\ q.pc = "insert" =>
           /\ q.start <= q.read /\ q.read <= now /\ now <= q.read + Hop
           /\ q.may /\ disabled[SubjectOf[q.tok]] # None => q.read <= disabled[SubjectOf[q.tok]]
    /\ q.pc \in {"target", "ok"} =>
           /\ q.kind # "none"
           /\ disabled[SubjectOf[q.tok]] # None =>
                  q.start <= disabled[SubjectOf[q.tok]] + StatusTTL + Hop
    /\ q.pc = "ok" => q.target # None

ReqInv == \A r \in Requests : GoodToken(req[r]) /\ GoodSubject(req[r])

\* An entry was written soon enough after the answer it holds.
CacheInv ==
    \A k \in Tokens : cache[k] # None =>
        /\ issued[k] # None
        /\ cache[k].exp = issued[k] + Life
        /\ cache[k].at <= now
        /\ revoked[k] # None => cache[k].at <= revoked[k] + Hop

\* A status was cached soon enough after it was read.
StatusInv ==
    \A s \in Subjects : status[s] # None =>
        /\ status[s].at <= now
        /\ status[s].ok /\ disabled[s] # None => status[s].at <= disabled[s] + Hop

TokenInv ==
    /\ \A k \in Tokens : issued[k] # None => issued[k] <= now
    /\ \A k \in Tokens : revoked[k] # None => issued[k] # None /\ revoked[k] <= now

\* A mapping once deleted does not come back; only agents are disabled.
SubjectInv ==
    /\ \A s \in Subjects : mapped[s] # None => unmapped[s] = None
    /\ \A s \in Subjects : unmapped[s] # None => unmapped[s] <= now
    /\ \A s \in Subjects : disabled[s] # None => KindOf[s] = "agent" /\ disabled[s] <= now

IInv == StoreTypes /\ ReqInv /\ CacheInv /\ StatusInv /\ TokenInv /\ SubjectInv

\* The constants, as the provers use them.
LEMMA Constants ==
    /\ TTL \in Nat /\ Hop \in Nat /\ StatusTTL \in Nat /\ Life \in Nat /\ MaxTime \in Nat
    /\ SubjectOf \in [Tokens -> Subjects \cup {None}]
    /\ KindOf \in [Subjects -> {"user", "client", "agent"}]
    /\ None \notin Subjects /\ None \notin Tenants
BY Zenon, AuthAssumption

\* The typing of the component follows from the invariant.
LEMMA InvType == IInv => TypeOK
<1> SUFFICES ASSUME IInv PROVE TypeOK
    BY Zenon
<1>1. ASSUME NEW r \in Requests, req[r].pc = "ok"
      PROVE  /\ req[r].kind # "none"
             /\ None \notin {req[r].tenant, req[r].target}
             /\ SubjectOf[req[r].tok] # None
    BY Zenon, <1>1, Constants DEF IInv, ReqInv, GoodSubject, Resolved
<1> QED BY Zenon, <1>1 DEF IInv, StoreTypes, ReqStates, TypeOK

\* The invariant holds initially.
LEMMA InitInv == Init => IInv
<1> SUFFICES ASSUME Init PROVE IInv
    BY Zenon
<1> USE Constants DEF Times
<1>1. CacheInv /\ StatusInv /\ TokenInv /\ SubjectInv
    BY Zenon DEF Init, CacheInv, StatusInv, TokenInv, SubjectInv
<1>2. NoReq \in ReqStates /\ GoodToken(NoReq) /\ GoodSubject(NoReq)
    BY DEF Init, NoReq, ReqStates, Pcs, GoodToken, GoodSubject, Begun, LookedUp, Resolved
<1>3. ReqInv
    BY Zenon, <1>2 DEF Init, ReqInv
<1>4. StoreTypes
    BY <1>2 DEF Init, StoreTypes
<1> QED BY Zenon, <1>1, <1>3, <1>4 DEF IInv

-----------------------------------------------------------------------------
(* The clock, Hydra and the other services.                                *)

\* The clock only moves while no cache write is due.
LEMMA TickStep == IInv /\ Tick => IInv'
<1> SUFFICES ASSUME IInv, Tick PROVE IInv'
    BY Zenon
<1> USE Constants DEF Times
<1>0. now \in Times /\ now' = now + 1 /\ now' \in Times
    BY DEF IInv, StoreTypes, Tick
<1>1. StoreTypes'
    BY Zenon, <1>0 DEF IInv, StoreTypes, Tick, mappingVars, agentVars
<1>2. CacheInv' /\ StatusInv'
    <2>1. CacheInv'
        BY <1>0 DEF IInv, StoreTypes, CacheInv, Tick
    <2>2. StatusInv'
        BY <1>0 DEF IInv, StoreTypes, StatusInv, Tick, agentVars
    <2> QED BY Zenon, <2>1, <2>2
<1>3. TokenInv'
    BY <1>0 DEF IInv, StoreTypes, TokenInv, Tick
<1>4. SubjectInv'
    BY <1>0 DEF IInv, StoreTypes, SubjectInv, Tick, mappingVars, agentVars
<1>5. ReqInv'
    <2> SUFFICES ASSUME NEW r \in Requests
                 PROVE  (GoodToken(req[r]) /\ GoodSubject(req[r]))'
        BY Zenon DEF ReqInv
    <2>1. req[r] \in ReqStates /\ GoodToken(req[r]) /\ GoodSubject(req[r]) /\ req' = req
        BY Zenon DEF IInv, StoreTypes, ReqInv, Tick
    <2>2. req[r].start \in Nat /\ req[r].seen \in Nat /\ req[r].read \in Nat /\ now \in Nat
        BY <1>0, <2>1 DEF ReqStates
    <2>3. /\ req[r].pc = "put" => now' <= req[r].seen + Hop
          /\ req[r].pc = "insert" => now' <= req[r].read + Hop
        BY <1>0, <2>2 DEF Tick, WriteDue
    <2>4. /\ req[r].start <= now => req[r].start <= now'
          /\ req[r].seen <= now => req[r].seen <= now'
          /\ req[r].read <= now => req[r].read <= now'
        BY <1>0, <2>2
    <2>5. GoodToken(req[r])'
        BY Zenon, <1>0, <2>1, <2>3, <2>4 DEF GoodToken, Tick
    <2>6. GoodSubject(req[r])'
        BY Zenon, <1>0, <2>1, <2>3, <2>4 DEF GoodSubject, Tick, mappingVars, agentVars
    <2> QED BY Zenon, <2>5, <2>6
<1> QED BY Zenon, <1>1, <1>2, <1>3, <1>4, <1>5 DEF IInv

\* A token is issued: no request and no entry knows it yet.
LEMMA IssueStep == ASSUME IInv, NEW k \in Tokens, IssueToken(k) PROVE IInv'
<1> USE Constants DEF Times
<1>1. /\ now \in Times /\ issued[k] = None /\ issued' = [issued EXCEPT ![k] = now]
      /\ UNCHANGED <<now, revoked, clearing, cache, mapped, unmapped, rehomed, disabled, status, req>>
    BY Zenon DEF IInv, StoreTypes, IssueToken, mappingVars, agentVars
<1>2. StoreTypes'
    BY Zenon, <1>1 DEF IInv, StoreTypes
<1>3. CacheInv' /\ TokenInv'
    BY <1>1 DEF IInv, StoreTypes, CacheInv, TokenInv
<1>4. SubjectInv' /\ StatusInv'
    BY Zenon, <1>1 DEF IInv, SubjectInv, StatusInv
<1>5. ReqInv'
    <2> SUFFICES ASSUME NEW r \in Requests
                 PROVE  (GoodToken(req[r]) /\ GoodSubject(req[r]))'
        BY Zenon DEF ReqInv
    <2>1. GoodToken(req[r]) /\ GoodSubject(req[r])
        BY Zenon DEF IInv, ReqInv
    <2>2. req[r].pc \in Begun => req[r].tok \in Tokens /\ issued'[req[r].tok] = issued[req[r].tok]
        BY Zenon, <1>1, <2>1 DEF IInv, StoreTypes, GoodToken
    <2>3. GoodToken(req[r])'
        BY Zenon, <1>1, <2>1, <2>2 DEF GoodToken, Begun, LookedUp
    <2>4. GoodSubject(req[r])'
        BY Zenon, <1>1, <2>1 DEF GoodSubject
    <2> QED BY Zenon, <2>3, <2>4
<1> QED BY Zenon, <1>2, <1>3, <1>4, <1>5 DEF IInv

\* A token is revoked: what was looked up or written lies in the past.
LEMMA RevokeStep == ASSUME IInv, NEW k \in Tokens, Revoke(k) PROVE IInv'
<1> USE Constants DEF Times
<1>0. /\ now \in Times /\ issued[k] # None /\ revoked[k] = None
      /\ revoked' = [revoked EXCEPT ![k] = now] /\ clearing' \subseteq Tokens
      /\ UNCHANGED <<now, issued, cache, mapped, unmapped, rehomed, disabled, status, req>>
    BY Zenon DEF IInv, StoreTypes, Revoke, mappingVars, agentVars
<1>1. StoreTypes'
    BY Zenon, <1>0 DEF IInv, StoreTypes
<1>2. CacheInv'
    BY <1>0 DEF IInv, StoreTypes, CacheInv
<1>3. TokenInv'
    BY <1>0 DEF IInv, StoreTypes, TokenInv
<1>4. SubjectInv' /\ StatusInv'
    BY Zenon, <1>0 DEF IInv, SubjectInv, StatusInv
<1>5. ReqInv'
    <2> SUFFICES ASSUME NEW r \in Requests
                 PROVE  (GoodToken(req[r]) /\ GoodSubject(req[r]))'
        BY Zenon DEF ReqInv
    <2>1. req[r] \in ReqStates /\ GoodToken(req[r]) /\ GoodSubject(req[r])
        BY Zenon DEF IInv, StoreTypes, ReqInv
    <2>2. req[r].seen \in Nat /\ now \in Nat
        BY <1>0, <2>1 DEF ReqStates
    <2>3. GoodToken(req[r])'
        BY <1>0, <2>1, <2>2 DEF IInv, StoreTypes, GoodToken, LookedUp, Begun
    <2>4. GoodSubject(req[r])'
        BY Zenon, <1>0, <2>1 DEF GoodSubject
    <2> QED BY Zenon, <2>3, <2>4
<1> QED BY Zenon, <1>1, <1>2, <1>3, <1>4, <1>5 DEF IInv

\* Clearing an entry, or failing to.
LEMMA ClearStep == ASSUME IInv, NEW k \in Tokens, ClearCache(k) PROVE IInv'
<1>0. /\ cache' \in {cache, [cache EXCEPT ![k] = None]} /\ clearing' \subseteq clearing
      /\ UNCHANGED <<now, issued, revoked, mapped, unmapped, rehomed, disabled, status, req>>
    BY Zenon DEF ClearCache, mappingVars, agentVars
<1>1. StoreTypes'
    BY Zenon, <1>0 DEF IInv, StoreTypes
<1>2. CacheInv'
    BY Zenon, <1>0 DEF IInv, StoreTypes, CacheInv
<1>3. StatusInv' /\ TokenInv' /\ SubjectInv' /\ ReqInv'
    BY <1>0 DEF IInv, StatusInv, TokenInv, SubjectInv, ReqInv, GoodToken, GoodSubject
<1> QED BY Zenon, <1>1, <1>2, <1>3 DEF IInv

\* A client is re-homed: it stays mapped.
LEMMA RehomeStep ==
    ASSUME IInv, NEW s \in Subjects, NEW t \in Tenants, Rehome(s, t) PROVE IInv'
<1> USE Constants DEF Times
<1>0. /\ now \in Times /\ mapped[s] # None
      /\ mapped' = [mapped EXCEPT ![s] = t] /\ rehomed' = [rehomed EXCEPT ![s] = now]
      /\ UNCHANGED <<now, issued, revoked, clearing, cache, unmapped, disabled, status, req>>
    BY Zenon DEF IInv, StoreTypes, Rehome
<1>1. StoreTypes'
    BY Zenon, <1>0 DEF IInv, StoreTypes
<1>2. CacheInv' /\ StatusInv' /\ TokenInv' /\ ReqInv'
    BY <1>0 DEF IInv, CacheInv, StatusInv, TokenInv, ReqInv, GoodToken, GoodSubject
<1>3. SubjectInv'
    BY Zenon, <1>0 DEF IInv, StoreTypes, SubjectInv
<1> QED BY Zenon, <1>1, <1>2, <1>3 DEF IInv

\* A mapping is deleted: the requests that read it began before.
LEMMA DeleteMappingStep ==
    ASSUME IInv, NEW s \in Subjects, DeleteMapping(s) PROVE IInv'
<1> USE Constants DEF Times
<1>0. /\ now \in Times /\ mapped[s] # None
      /\ mapped' = [mapped EXCEPT ![s] = None] /\ unmapped' = [unmapped EXCEPT ![s] = now]
      /\ UNCHANGED <<now, issued, revoked, clearing, cache, rehomed, disabled, status, req>>
    BY Zenon DEF IInv, StoreTypes, DeleteMapping
<1>1. StoreTypes'
    BY Zenon, <1>0 DEF IInv, StoreTypes
<1>2. CacheInv' /\ StatusInv' /\ TokenInv'
    BY Zenon, <1>0 DEF IInv, CacheInv, StatusInv, TokenInv
<1>3. SubjectInv'
    <2>1. now <= now
        BY <1>0
    <2> QED BY Zenon, <1>0, <2>1 DEF IInv, StoreTypes, SubjectInv
<1>4. ReqInv'
    BY Zenon, <1>0 DEF IInv, StoreTypes, ReqInv, GoodToken, GoodSubject
<1> QED BY Zenon, <1>1, <1>2, <1>3, <1>4 DEF IInv

\* An agent is disabled: the requests that read its status began before.
LEMMA DisableStep ==
    ASSUME IInv, NEW s \in Subjects, DisableAgent(s) PROVE IInv'
<1> USE Constants DEF Times
<1>0. /\ now \in Times /\ KindOf[s] = "agent"
      /\ disabled' = [disabled EXCEPT ![s] = now]
      /\ UNCHANGED <<now, issued, revoked, clearing, cache, mapped, unmapped, rehomed, status, req>>
    BY Zenon DEF IInv, StoreTypes, DisableAgent, mappingVars
<1>1. StoreTypes'
    BY Zenon, <1>0 DEF IInv, StoreTypes
<1>2. CacheInv' /\ TokenInv'
    BY Zenon, <1>0 DEF IInv, CacheInv, TokenInv
<1>3. SubjectInv' /\ StatusInv'
    BY <1>0 DEF IInv, StoreTypes, SubjectInv, StatusInv
<1>4. ReqInv'
    <2> SUFFICES ASSUME NEW r \in Requests
                 PROVE  (GoodToken(req[r]) /\ GoodSubject(req[r]))'
        BY Zenon DEF ReqInv
    <2>1. req[r] \in ReqStates /\ GoodToken(req[r]) /\ GoodSubject(req[r])
        BY Zenon DEF IInv, StoreTypes, ReqInv
    <2>2. req[r].start \in Nat /\ req[r].read \in Nat /\ now \in Nat /\ req[r].start <= now
        BY <1>0, <2>1 DEF ReqStates, GoodToken
    <2>3. GoodToken(req[r])'
        BY Zenon, <1>0, <2>1 DEF GoodToken
    <2>4. GoodSubject(req[r])'
        BY <1>0, <2>1, <2>2 DEF IInv, StoreTypes, GoodSubject, Resolved
    <2> QED BY Zenon, <2>3, <2>4
<1> QED BY Zenon, <1>1, <1>2, <1>3, <1>4 DEF IInv

\* An eviction only takes an entry away.
LEMMA EvictStep ==
    ASSUME IInv, NEW s \in Subjects, EvictStatus(s) PROVE IInv'
<1>0. /\ status' = [status EXCEPT ![s] = None]
      /\ UNCHANGED <<now, issued, revoked, clearing, cache, mapped, unmapped, rehomed, disabled, req>>
    BY Zenon DEF EvictStatus, mappingVars
<1>1. StoreTypes'
    BY Zenon, <1>0 DEF IInv, StoreTypes
<1>2. StatusInv'
    BY Zenon, <1>0 DEF IInv, StoreTypes, StatusInv
<1>3. CacheInv' /\ TokenInv' /\ SubjectInv' /\ ReqInv'
    BY <1>0 DEF IInv, CacheInv, TokenInv, SubjectInv, ReqInv, GoodToken, GoodSubject
<1> QED BY Zenon, <1>1, <1>2, <1>3 DEF IInv

-----------------------------------------------------------------------------
(* The steps of a request.                                                 *)

\* A step that only gives request r the record q preserves the invariant when q
\* is good.
LEMMA RequestStep ==
    ASSUME IInv, NEW r \in Requests, NEW q \in ReqStates, Step(r, q),
           GoodToken(q), GoodSubject(q),
           UNCHANGED <<now, hydraVars, clearing, cache, mappingVars, agentVars>>
    PROVE  IInv'
<1>0. /\ req' = [req EXCEPT ![r] = q]
      /\ UNCHANGED <<now, issued, revoked, clearing, cache, mapped, unmapped, rehomed, disabled, status>>
    BY Zenon DEF Step, hydraVars, mappingVars, agentVars
<1>1. /\ req' \in [Requests -> ReqStates] /\ req'[r] = q
      /\ \A p \in Requests : p # r => req'[p] = req[p]
    BY Zenon, <1>0 DEF IInv, StoreTypes
<1>2. StoreTypes'
    BY Zenon, <1>0, <1>1 DEF IInv, StoreTypes
<1>3. CacheInv' /\ StatusInv' /\ TokenInv' /\ SubjectInv'
    BY Zenon, <1>0 DEF IInv, CacheInv, StatusInv, TokenInv, SubjectInv
<1>4. ReqInv'
    <2> SUFFICES ASSUME NEW p \in Requests
                 PROVE  (GoodToken(req[p]) /\ GoodSubject(req[p]))'
        BY Zenon DEF ReqInv
    <2>1. GoodToken(req'[p]) /\ GoodSubject(req'[p])
        BY Zenon, <1>1 DEF IInv, ReqInv
    <2>2. GoodToken(req[p])'
        BY Zenon, <1>0, <2>1 DEF GoodToken
    <2>3. GoodSubject(req[p])'
        BY Zenon, <1>0, <2>1 DEF GoodSubject
    <2> QED BY Zenon, <2>2, <2>3
<1> QED BY Zenon, <1>2, <1>3, <1>4 DEF IInv

\* A refusal forgets what the request knew.
LEMMA RefuseStep ==
    ASSUME IInv, NEW r \in Requests, NEW why \in {"unauthorized", "unavailable"},
           Refuse(r, why),
           UNCHANGED <<now, hydraVars, clearing, cache, mappingVars, agentVars>>
    PROVE  IInv'
<1> DEFINE q == [NoReq EXCEPT !.pc = why]
<1>1. NoReq \in ReqStates /\ now \in Nat
    <2>1. 0 \in Times /\ 0 \in 0 .. MaxTime + Life /\ Times \subseteq Nat
        BY Constants DEF Times
    <2>2. "new" \in Pcs /\ FALSE \in BOOLEAN /\ "none" \in {"none", "user", "client", "agent"}
        BY Zenon DEF Pcs
    <2>3. NoReq \in ReqStates
        BY Zenon, <2>1, <2>2 DEF NoReq, ReqStates
    <2> QED BY Zenon, <2>1, <2>3 DEF IInv, StoreTypes
<1>2. q \in ReqStates
    BY Zenon, <1>1 DEF ReqStates, Pcs
<1>3. q.pc = why /\ q.start = 0 /\ q.seen = 0
    BY Zenon DEF NoReq
<1> HIDE DEF q
<1>4. GoodToken(q) /\ GoodSubject(q)
    <2>1. q.start <= now /\ q.seen <= now
        BY <1>1, <1>3
    <2>2. q.pc \notin Begun \cup {"insert", "target", "ok"}
        BY Zenon, <1>3 DEF Begun, LookedUp
    <2> QED BY Zenon, <2>1, <2>2 DEF GoodToken, GoodSubject, Begun, LookedUp, Resolved
<1>5. Step(r, q)
    BY Zenon DEF Refuse, q
<1> QED BY Zenon, <1>2, <1>4, <1>5, RequestStep

\* A request begins with a token Hydra issued.
LEMMA BeginStep ==
    ASSUME IInv, NEW r \in Requests, NEW k \in Tokens,
           NEW header \in Tenants \cup {None}, Begin(r, k, header)
    PROVE  IInv'
<1> DEFINE q == [req[r] EXCEPT !.pc = "cache", !.tok = k, !.start = now, !.header = header]
<1> USE Constants DEF Times
<1>1. req[r] \in ReqStates /\ now \in Times /\ GoodToken(req[r]) /\ issued[k] # None
    BY Zenon DEF IInv, StoreTypes, ReqInv, Begin
<1>2. q \in ReqStates
    BY Zenon, <1>1 DEF ReqStates, Pcs
<1>3. q.pc = "cache" /\ q.tok = k /\ q.start = now /\ q.seen = req[r].seen
    BY Zenon, <1>1 DEF ReqStates
<1>4. Step(r, q) /\ UNCHANGED <<now, hydraVars, clearing, cache, mappingVars, agentVars>>
    BY Zenon DEF Begin
<1> HIDE DEF q
<1>5. GoodToken(q) /\ GoodSubject(q)
    BY <1>1, <1>3 DEF GoodToken, GoodSubject, Begun, LookedUp, Resolved
<1> QED BY Zenon, <1>2, <1>4, <1>5, RequestStep

\* A hit is young enough, and of a token not yet expired.
LEMMA CacheGetStep ==
    ASSUME IInv, NEW r \in Requests, CacheGet(r)
    PROVE  IInv'
<1> USE Constants DEF Times
<1>0. UNCHANGED <<now, hydraVars, clearing, cache, mappingVars, agentVars>>
    BY Zenon DEF CacheGet
<1>1. /\ req[r] \in ReqStates /\ now \in Times /\ GoodToken(req[r]) /\ req[r].pc = "cache"
      /\ req[r].tok \in Tokens /\ issued[req[r].tok] # None
    BY Zenon DEF IInv, StoreTypes, ReqInv, CacheGet, GoodToken, Begun
<1>2. CASE Fresh(req[r].tok) /\ Step(r, [req[r] EXCEPT !.pc = "tenant", !.seen = now])
    <2> DEFINE q == [req[r] EXCEPT !.pc = "tenant", !.seen = now]
               k == req[r].tok
    <2>1. q \in ReqStates
        BY Zenon, <1>1 DEF ReqStates, Pcs
    <2>2. q.pc = "tenant" /\ q.tok = k /\ q.start = req[r].start /\ q.seen = now
        BY Zenon, <1>1 DEF ReqStates
    <2>3. /\ cache[k] # None /\ cache[k].exp = issued[k] + Life
          /\ now <= cache[k].at + TTL /\ now <= cache[k].exp
          /\ revoked[k] # None => cache[k].at <= revoked[k] + Hop
        BY Zenon, <1>1, <1>2 DEF IInv, CacheInv, Fresh
    <2>4. /\ cache[k].at \in Nat /\ issued[k] \in Nat
          /\ revoked[k] # None => revoked[k] \in Nat
        BY <1>1, <2>3 DEF IInv, StoreTypes
    <2> HIDE DEF q
    <2>5. GoodToken(q) /\ GoodSubject(q)
        BY <1>1, <2>2, <2>3, <2>4 DEF GoodToken, GoodSubject, Begun, LookedUp, Resolved
    <2> QED BY Zenon, <1>0, <1>2, <2>1, <2>5, RequestStep DEF q
<1>3. CASE Step(r, [req[r] EXCEPT !.pc = "hydra"])
    <2> DEFINE q == [req[r] EXCEPT !.pc = "hydra"]
    <2>1. q \in ReqStates
        BY Zenon, <1>1 DEF ReqStates, Pcs
    <2>2. q.pc = "hydra" /\ q.tok = req[r].tok /\ q.start = req[r].start /\ q.seen = req[r].seen
        BY Zenon, <1>1 DEF ReqStates
    <2> HIDE DEF q
    <2>3. GoodToken(q) /\ GoodSubject(q)
        BY Zenon, <1>1, <2>2 DEF GoodToken, GoodSubject, Begun, LookedUp, Resolved
    <2> QED BY Zenon, <1>0, <1>3, <2>1, <2>3, RequestStep DEF q
<1>4. CASE Refuse(r, "unavailable")
    BY Zenon, <1>0, <1>4, RefuseStep
<1> QED BY Zenon, <1>2, <1>3, <1>4 DEF CacheGet

\* Hydra's answer is about this moment.
LEMMA IntrospectStep ==
    ASSUME IInv, NEW r \in Requests, Introspect(r)
    PROVE  IInv'
<1> USE Constants DEF Times
<1> DEFINE k == req[r].tok
<1>0. UNCHANGED <<now, hydraVars, clearing, cache, mappingVars, agentVars>>
    BY Zenon DEF Introspect
<1>1. /\ req[r] \in ReqStates /\ now \in Times /\ GoodToken(req[r])
      /\ k \in Tokens /\ issued[k] \in Times
    BY Zenon DEF IInv, StoreTypes, ReqInv, Introspect, GoodToken, Begun
<1>2. CASE /\ ActiveAtHydra(k)
           /\ Step(r, [req[r] EXCEPT !.pc = "put", !.seen = now, !.exp = Expiry(k)])
    <2> DEFINE q == [req[r] EXCEPT !.pc = "put", !.seen = now, !.exp = Expiry(k)]
    <2>1. Expiry(k) = issued[k] + Life /\ Expiry(k) \in 0 .. MaxTime + Life
        BY <1>1 DEF Expiry
    <2>2. q \in ReqStates
        BY Zenon, <1>1, <2>1 DEF ReqStates, Pcs
    <2>3. q.pc = "put" /\ q.tok = k /\ q.start = req[r].start /\ q.seen = now /\ q.exp = Expiry(k)
        BY Zenon, <1>1 DEF ReqStates
    <2>4. revoked[k] = None /\ now < issued[k] + Life /\ issued[k] # None
        BY Zenon, <1>2, <2>1 DEF ActiveAtHydra
    <2> HIDE DEF q
    <2>5. GoodToken(q) /\ GoodSubject(q)
        BY <1>1, <2>1, <2>3, <2>4 DEF GoodToken, GoodSubject, Begun, LookedUp, Resolved
    <2> QED BY Zenon, <1>0, <1>2, <2>2, <2>5, RequestStep DEF q
<1>3. CASE Refuse(r, "unavailable") \/ Refuse(r, "unauthorized")
    BY Zenon, <1>0, <1>3, RefuseStep
<1> QED BY Zenon, <1>2, <1>3 DEF Introspect

\* The entry is written at most Hop after the answer it holds.
LEMMA CachePutStep ==
    ASSUME IInv, NEW r \in Requests, CachePut(r)
    PROVE  IInv'
<1> USE Constants DEF Times
<1> DEFINE k == req[r].tok
           q == [req[r] EXCEPT !.pc = "tenant"]
           e == [at |-> now, exp |-> req[r].exp]
<1>1. /\ req[r] \in ReqStates /\ now \in Times /\ GoodToken(req[r]) /\ req[r].pc = "put"
      /\ k \in Tokens /\ issued[k] # None /\ req[r].exp = issued[k] + Life
      /\ now <= req[r].seen + Hop
      /\ revoked[k] # None => req[r].seen <= revoked[k]
    BY Zenon DEF IInv, StoreTypes, ReqInv, CachePut, GoodToken, Begun, LookedUp
<1>2. /\ cache' \in {cache, [cache EXCEPT ![k] = e]} /\ Step(r, q)
      /\ UNCHANGED <<now, issued, revoked, clearing, mapped, unmapped, rehomed, disabled, status>>
    BY Zenon DEF CachePut, hydraVars, mappingVars, agentVars
<1>3. q \in ReqStates
    BY Zenon, <1>1 DEF ReqStates, Pcs
<1>4. q.pc = "tenant" /\ q.tok = k /\ q.start = req[r].start /\ q.seen = req[r].seen
    BY Zenon, <1>1 DEF ReqStates
<1>5. e \in [at: Times, exp: 0 .. MaxTime + Life] /\ e.at = now /\ e.exp = issued[k] + Life
    BY Zenon, <1>1 DEF ReqStates
<1>6. req[r].seen \in Nat /\ now \in Nat /\ (revoked[k] # None => revoked[k] \in Nat)
    BY <1>1 DEF ReqStates, IInv, StoreTypes
<1> HIDE DEF q, e
<1>7. GoodToken(q) /\ GoodSubject(q)
    BY Zenon, <1>1, <1>4 DEF GoodToken, GoodSubject, Begun, LookedUp, Resolved
<1>8. /\ req' \in [Requests -> ReqStates] /\ req'[r] = q
      /\ \A p \in Requests : p # r => req'[p] = req[p]
    BY Zenon, <1>2, <1>3 DEF IInv, StoreTypes, Step
<1>9. StoreTypes'
    BY <1>2, <1>5, <1>8 DEF IInv, StoreTypes
<1>10. CacheInv'
    <2>1. revoked[k] # None => now <= revoked[k] + Hop
        BY <1>1, <1>6
    <2> QED BY <1>1, <1>2, <1>5, <1>6, <2>1 DEF IInv, StoreTypes, CacheInv
<1>11. StatusInv' /\ TokenInv' /\ SubjectInv'
    BY Zenon, <1>2 DEF IInv, StatusInv, TokenInv, SubjectInv
<1>12. ReqInv'
    <2> SUFFICES ASSUME NEW p \in Requests
                 PROVE  (GoodToken(req[p]) /\ GoodSubject(req[p]))'
        BY Zenon DEF ReqInv
    <2>1. GoodToken(req'[p]) /\ GoodSubject(req'[p])
        BY Zenon, <1>7, <1>8 DEF IInv, ReqInv
    <2>2. GoodToken(req[p])'
        BY Zenon, <1>2, <2>1 DEF GoodToken
    <2>3. GoodSubject(req[p])'
        BY Zenon, <1>2, <2>1 DEF GoodSubject
    <2> QED BY Zenon, <2>2, <2>3
<1> QED BY Zenon, <1>9, <1>10, <1>11, <1>12 DEF IInv

\* The mapping is read now: a deletion would have shown.
LEMMA ReadTenantStep ==
    ASSUME IInv, NEW r \in Requests, ReadTenant(r)
    PROVE  IInv'
<1> USE Constants DEF Times
<1>0. UNCHANGED <<now, hydraVars, clearing, cache, mappingVars, agentVars>>
    BY Zenon DEF ReadTenant
<1>1. /\ req[r] \in ReqStates /\ now \in Times /\ GoodToken(req[r])
      /\ req[r].tok \in Tokens /\ req[r].pc = "tenant"
    BY Zenon DEF IInv, StoreTypes, ReqInv, ReadTenant, GoodToken, Begun, LookedUp
<1>2. CASE /\ Who(r) # None /\ mapped[Who(r)] # None
           /\ Step(r, [req[r] EXCEPT !.pc = "public", !.tenant = mapped[Who(r)]])
    <2> DEFINE q == [req[r] EXCEPT !.pc = "public", !.tenant = mapped[Who(r)]]
    <2>1. /\ SubjectOf[req[r].tok] \in Subjects /\ Who(r) = SubjectOf[req[r].tok]
          /\ mapped[Who(r)] \in Tenants /\ unmapped[Who(r)] = None
        BY <1>1, <1>2 DEF Who, IInv, StoreTypes, SubjectInv
    <2>2. q \in ReqStates
        BY Zenon, <1>1, <2>1 DEF ReqStates, Pcs
    <2>3. /\ q.pc = "public" /\ q.tok = req[r].tok /\ q.start = req[r].start
          /\ q.seen = req[r].seen /\ q.tenant = mapped[Who(r)]
        BY Zenon, <1>1 DEF ReqStates
    <2> HIDE DEF q
    <2>4. GoodToken(q) /\ GoodSubject(q)
        BY Zenon, <1>1, <1>2, <2>1, <2>3 DEF GoodToken, GoodSubject, Begun, LookedUp, Resolved
    <2> QED BY Zenon, <1>0, <1>2, <2>2, <2>4, RequestStep DEF q
<1>3. CASE Refuse(r, "unavailable") \/ Refuse(r, "unauthorized")
    BY Zenon, <1>0, <1>3, RefuseStep
<1> QED BY Zenon, <1>2, <1>3 DEF ReadTenant

\* A user goes on; a client's status is read first.
LEMMA ReadPublicStep ==
    ASSUME IInv, NEW r \in Requests, ReadPublic(r)
    PROVE  IInv'
<1> USE Constants DEF Times
<1>0. UNCHANGED <<now, hydraVars, clearing, cache, mappingVars, agentVars>>
    BY Zenon DEF ReadPublic
<1>1. /\ req[r] \in ReqStates /\ now \in Times /\ GoodToken(req[r]) /\ GoodSubject(req[r])
      /\ req[r].pc = "public" /\ SubjectOf[req[r].tok] \in Subjects /\ Who(r) = SubjectOf[req[r].tok]
    BY Zenon DEF IInv, StoreTypes, ReqInv, ReadPublic, GoodSubject, Resolved, Who
<1>2. CASE /\ KindOf[Who(r)] = "user"
           /\ Step(r, [req[r] EXCEPT !.pc = "target", !.kind = "user"])
    <2> DEFINE q == [req[r] EXCEPT !.pc = "target", !.kind = "user"]
    <2>1. disabled[SubjectOf[req[r].tok]] = None
        BY Zenon, <1>1, <1>2 DEF IInv, SubjectInv
    <2>2. q \in ReqStates
        BY Zenon, <1>1 DEF ReqStates, Pcs
    <2>3. /\ q.pc = "target" /\ q.tok = req[r].tok /\ q.start = req[r].start
          /\ q.seen = req[r].seen /\ q.tenant = req[r].tenant /\ q.kind = "user"
        BY Zenon, <1>1 DEF ReqStates
    <2> HIDE DEF q
    <2>4. GoodToken(q) /\ GoodSubject(q)
        BY Zenon, <1>1, <2>1, <2>3 DEF GoodToken, GoodSubject, Begun, LookedUp, Resolved
    <2> QED BY Zenon, <1>0, <1>2, <2>2, <2>4, RequestStep DEF q
<1>3. CASE Step(r, [req[r] EXCEPT !.pc = "status"])
    <2> DEFINE q == [req[r] EXCEPT !.pc = "status"]
    <2>1. q \in ReqStates
        BY Zenon, <1>1 DEF ReqStates, Pcs
    <2>2. /\ q.pc = "status" /\ q.tok = req[r].tok /\ q.start = req[r].start
          /\ q.seen = req[r].seen /\ q.tenant = req[r].tenant
        BY Zenon, <1>1 DEF ReqStates
    <2> HIDE DEF q
    <2>3. GoodToken(q) /\ GoodSubject(q)
        BY Zenon, <1>1, <2>2 DEF GoodToken, GoodSubject, Begun, LookedUp, Resolved
    <2> QED BY Zenon, <1>0, <1>3, <2>1, <2>3, RequestStep DEF q
<1>4. CASE Refuse(r, "unavailable") \/ Refuse(r, "unauthorized")
    BY Zenon, <1>0, <1>4, RefuseStep
<1> QED BY Zenon, <1>2, <1>3, <1>4 DEF ReadPublic

\* A request whose agent is judged by an answer that is recent enough.
LEMMA JudgedGood ==
    ASSUME IInv, NEW r \in Requests, req[r].pc \in {"status", "insert"},
           disabled[Who(r)] # None => req[r].start <= disabled[Who(r)] + StatusTTL + Hop
    PROVE  LET q == [req[r] EXCEPT !.pc = "target", !.kind = KindOf[Who(r)]]
           IN  q \in ReqStates /\ GoodToken(q) /\ GoodSubject(q)
<1> USE Constants DEF Times
<1> DEFINE q == [req[r] EXCEPT !.pc = "target", !.kind = KindOf[Who(r)]]
<1>1. /\ req[r] \in ReqStates /\ now \in Times /\ GoodToken(req[r]) /\ GoodSubject(req[r])
      /\ SubjectOf[req[r].tok] \in Subjects /\ Who(r) = SubjectOf[req[r].tok]
    BY Zenon DEF IInv, StoreTypes, ReqInv, GoodSubject, Resolved, Who
<1>2. KindOf[Who(r)] \in {"user", "client", "agent"}
    BY Zenon, <1>1
<1>3. q \in ReqStates
    BY Zenon, <1>1, <1>2 DEF ReqStates, Pcs
<1>4. /\ q.pc = "target" /\ q.tok = req[r].tok /\ q.start = req[r].start
      /\ q.seen = req[r].seen /\ q.tenant = req[r].tenant /\ q.kind = KindOf[Who(r)]
    BY Zenon, <1>1 DEF ReqStates
<1> HIDE DEF q
<1>5. GoodToken(q) /\ GoodSubject(q)
    BY Zenon, <1>1, <1>2, <1>4 DEF GoodToken, GoodSubject, Begun, LookedUp, Resolved
<1> QED BY Zenon, <1>3, <1>5 DEF q

\* A cached status is young enough; a status read now is that of the table.
LEMMA ReadStatusStep ==
    ASSUME IInv, NEW r \in Requests, ReadStatus(r)
    PROVE  IInv'
<1> USE Constants DEF Times
<1> DEFINE s == Who(r)
<1>0. UNCHANGED <<now, hydraVars, clearing, cache, mappingVars, agentVars>>
    BY Zenon DEF ReadStatus
<1>1. /\ req[r] \in ReqStates /\ now \in Times /\ GoodToken(req[r]) /\ GoodSubject(req[r])
      /\ req[r].pc = "status" /\ SubjectOf[req[r].tok] \in Subjects /\ s = SubjectOf[req[r].tok]
    BY Zenon DEF IInv, StoreTypes, ReqInv, ReadStatus, GoodSubject, Resolved, Who
<1>2. CASE StatusHit(s) /\ status[s].ok /\ Judge(r, status[s].ok)
    <2> DEFINE q == [req[r] EXCEPT !.pc = "target", !.kind = KindOf[Who(r)]]
    <2>1. /\ status[s] # None /\ now < status[s].at + StatusTTL
          /\ disabled[s] # None => status[s].at <= disabled[s] + Hop
        BY Zenon, <1>1, <1>2 DEF StatusHit, IInv, StatusInv
    <2>2. /\ status[s].at \in Nat /\ now \in Nat /\ req[r].start \in Nat
          /\ req[r].start <= now
          /\ disabled[s] # None => disabled[s] \in Nat
        BY <1>1, <2>1 DEF IInv, StoreTypes, ReqStates, GoodToken
    <2>3. disabled[s] # None => req[r].start <= disabled[s] + StatusTTL + Hop
        <3> DEFINE a == status[s].at
                   d == disabled[s]
                   b == req[r].start
        <3>1. /\ a \in Nat /\ now \in Nat /\ b \in Nat /\ b <= now /\ now < a + StatusTTL
              /\ d # None => d \in Nat /\ a <= d + Hop
            BY Zenon, <2>1, <2>2
        <3> HIDE DEF a, b, d
        <3>2. d # None => b <= d + StatusTTL + Hop
            BY <3>1
        <3> QED BY Zenon, <3>2 DEF b, d
    <2>4. q \in ReqStates /\ GoodToken(q) /\ GoodSubject(q)
        BY Zenon, <1>1, <2>3, JudgedGood
    <2>5. Step(r, q)
        BY Zenon, <1>2 DEF Judge
    <2> HIDE DEF q
    <2> QED BY Zenon, <1>0, <2>4, <2>5, RequestStep
<1>3. CASE Step(r, [req[r] EXCEPT !.pc = "insert", !.read = now, !.may = AgentMayAct(s)])
    <2> DEFINE q == [req[r] EXCEPT !.pc = "insert", !.read = now, !.may = AgentMayAct(s)]
    <2>1. AgentMayAct(s) \in BOOLEAN /\ (AgentMayAct(s) => disabled[s] = None)
        BY Zenon DEF AgentMayAct
    <2>2. q \in ReqStates
        BY Zenon, <1>1, <2>1 DEF ReqStates, Pcs
    <2>3. /\ q.pc = "insert" /\ q.tok = req[r].tok /\ q.start = req[r].start
          /\ q.seen = req[r].seen /\ q.tenant = req[r].tenant
          /\ q.read = now /\ q.may = AgentMayAct(s)
        BY Zenon, <1>1 DEF ReqStates
    <2> HIDE DEF q
    <2>4. GoodToken(q)
        BY Zenon, <1>1, <2>3 DEF GoodToken, Begun, LookedUp
    <2>5. /\ SubjectOf[q.tok] \in Subjects /\ q.tenant # None
          /\ unmapped[SubjectOf[q.tok]] # None => q.start <= unmapped[SubjectOf[q.tok]]
        BY Zenon, <1>1, <2>3 DEF GoodSubject, Resolved
    <2>6. q.start <= q.read /\ q.read <= now /\ now <= q.read + Hop
        BY <1>1, <2>3 DEF GoodToken, ReqStates
    <2>7. ~(q.may /\ disabled[SubjectOf[q.tok]] # None)
        BY Zenon, <1>1, <2>1, <2>3
    <2>8. GoodSubject(q)
        BY Zenon, <2>3, <2>5, <2>6, <2>7 DEF GoodSubject
    <2> QED BY Zenon, <1>0, <1>3, <2>2, <2>4, <2>8, RequestStep DEF q
<1>4. CASE Refuse(r, "unavailable") \/ Refuse(r, "unauthorized")
    BY Zenon, <1>0, <1>4, RefuseStep
<1> QED BY Zenon, <1>2, <1>3, <1>4 DEF ReadStatus, Judge

\* The entry is written at most Hop after the status it holds was read.
LEMMA InsertStatusStep ==
    ASSUME IInv, NEW r \in Requests, InsertStatus(r)
    PROVE  IInv'
<1> USE Constants DEF Times
<1> DEFINE s == Who(r)
           e == [at |-> now, ok |-> req[r].may]
<1>1. /\ req[r] \in ReqStates /\ now \in Times /\ GoodToken(req[r]) /\ GoodSubject(req[r])
      /\ req[r].pc = "insert" /\ s \in Subjects /\ s = SubjectOf[req[r].tok]
    BY Zenon DEF IInv, StoreTypes, ReqInv, InsertStatus, GoodSubject, Resolved, Who
<1>2. /\ req[r].start <= req[r].read /\ now <= req[r].read + Hop
      /\ req[r].may /\ disabled[s] # None => req[r].read <= disabled[s]
    BY Zenon, <1>1 DEF GoodSubject
<1>3. /\ req[r].start \in Nat /\ req[r].read \in Nat /\ now \in Nat /\ req[r].may \in BOOLEAN
      /\ disabled[s] # None => disabled[s] \in Nat
    BY <1>1 DEF IInv, StoreTypes, ReqStates
<1>4. /\ status' = [status EXCEPT ![s] = e] /\ Judge(r, req[r].may)
      /\ UNCHANGED <<now, issued, revoked, clearing, cache, mapped, unmapped, rehomed, disabled>>
    BY Zenon DEF InsertStatus, hydraVars, mappingVars
<1>5. e \in [at: Times, ok: BOOLEAN] /\ e.at = now /\ e.ok = req[r].may
    BY Zenon, <1>1, <1>3
<1>6. PICK q \in ReqStates : req' = [req EXCEPT ![r] = q] /\ GoodToken(q) /\ GoodSubject(q)
    <2>1. CASE req[r].may
        <3>1. disabled[s] # None => req[r].start <= disabled[s] + StatusTTL + Hop
            BY <1>2, <1>3, <2>1
        <3>2. LET q == [req[r] EXCEPT !.pc = "target", !.kind = KindOf[s]]
              IN  q \in ReqStates /\ GoodToken(q) /\ GoodSubject(q)
            BY Zenon, <1>1, <3>1, JudgedGood
        <3> QED BY Zenon, <1>4, <2>1, <3>2 DEF Judge, Step
    <2>2. CASE ~req[r].may
        <3> DEFINE q == [NoReq EXCEPT !.pc = "unauthorized"]
        <3>0. NoReq \in ReqStates
            BY DEF NoReq, ReqStates, Pcs
        <3>1. q \in ReqStates
            BY Zenon, <3>0 DEF ReqStates, Pcs
        <3>2. q.pc = "unauthorized" /\ q.start = 0 /\ q.seen = 0
            BY Zenon DEF NoReq
        <3>3. req' = [req EXCEPT ![r] = q]
            BY Zenon, <1>4, <2>2 DEF Judge, Refuse, Step
        <3> HIDE DEF q
        <3>4. GoodToken(q) /\ GoodSubject(q)
            BY <1>3, <3>2 DEF GoodToken, GoodSubject, Begun, LookedUp, Resolved
        <3> QED BY Zenon, <3>1, <3>3, <3>4
    <2> QED BY Zenon, <2>1, <2>2
<1> HIDE DEF e
<1>7. /\ req' \in [Requests -> ReqStates] /\ req'[r] = q
      /\ \A p \in Requests : p # r => req'[p] = req[p]
    BY Zenon, <1>6 DEF IInv, StoreTypes
<1>8. StoreTypes'
    BY Zenon, <1>1, <1>4, <1>5, <1>7 DEF IInv, StoreTypes
<1>9. StatusInv'
    <2>1. req[r].may /\ disabled[s] # None => now <= disabled[s] + Hop
        BY <1>2, <1>3
    <2> QED BY <1>1, <1>3, <1>4, <1>5, <2>1 DEF IInv, StoreTypes, StatusInv
<1>10. CacheInv' /\ TokenInv' /\ SubjectInv'
    BY Zenon, <1>4 DEF IInv, CacheInv, TokenInv, SubjectInv
<1>11. ReqInv'
    <2> SUFFICES ASSUME NEW p \in Requests
                 PROVE  (GoodToken(req[p]) /\ GoodSubject(req[p]))'
        BY Zenon DEF ReqInv
    <2>1. GoodToken(req'[p]) /\ GoodSubject(req'[p])
        BY Zenon, <1>6, <1>7 DEF IInv, ReqInv
    <2>2. GoodToken(req[p])'
        BY Zenon, <1>4, <2>1 DEF GoodToken
    <2>3. GoodSubject(req[p])'
        BY Zenon, <1>4, <2>1 DEF GoodSubject
    <2> QED BY Zenon, <2>2, <2>3
<1> QED BY Zenon, <1>8, <1>9, <1>10, <1>11 DEF IInv

\* The request is accepted, at home or where its header says.
LEMMA TargetStep ==
    ASSUME IInv, NEW r \in Requests, TargetTenant(r)
    PROVE  IInv'
<1> USE Constants DEF Times
<1>1. /\ req[r] \in ReqStates /\ now \in Times /\ GoodToken(req[r]) /\ GoodSubject(req[r])
      /\ req[r].pc = "target" /\ req[r].tenant # None
    BY Zenon DEF IInv, StoreTypes, ReqInv, TargetTenant, GoodSubject, Resolved
<1>2. PICK t \in Tenants : Step(r, [req[r] EXCEPT !.pc = "ok", !.target = t])
    BY Zenon, <1>1 DEF TargetTenant, ReqStates
<1> DEFINE q == [req[r] EXCEPT !.pc = "ok", !.target = t]
<1>3. q \in ReqStates
    BY Zenon, <1>1 DEF ReqStates, Pcs
<1>4. /\ q.pc = "ok" /\ q.tok = req[r].tok /\ q.start = req[r].start /\ q.kind = req[r].kind
      /\ q.seen = req[r].seen /\ q.tenant = req[r].tenant /\ q.target = t
    BY Zenon, <1>1 DEF ReqStates
<1>5. UNCHANGED <<now, hydraVars, clearing, cache, mappingVars, agentVars>>
    BY Zenon DEF TargetTenant
<1> HIDE DEF q
<1>6. GoodToken(q) /\ GoodSubject(q)
    BY Zenon, <1>1, <1>4 DEF GoodToken, GoodSubject, Begun, LookedUp, Resolved
<1> QED BY Zenon, <1>2, <1>3, <1>5, <1>6, RequestStep DEF q

\* Every step preserves the invariant.
LEMMA StepInv == IInv /\ [Next]_vars => IInv'
<1> SUFFICES ASSUME IInv, [Next]_vars PROVE IInv'
    BY Zenon
<1>1. CASE Tick
    BY Zenon, <1>1, TickStep
<1>2. ASSUME NEW k \in Tokens, IssueToken(k) \/ Revoke(k) \/ ClearCache(k) PROVE IInv'
    BY Zenon, <1>2, IssueStep, RevokeStep, ClearStep
<1>3. ASSUME NEW s \in Subjects, DeleteMapping(s) \/ DisableAgent(s) \/ EvictStatus(s)
      PROVE  IInv'
    BY Zenon, <1>3, DeleteMappingStep, DisableStep, EvictStep
<1>4. ASSUME NEW s \in Subjects, NEW t \in Tenants, Rehome(s, t) PROVE IInv'
    BY Zenon, <1>4, RehomeStep
<1>5. ASSUME NEW r \in Requests, NEW k \in Tokens, NEW header \in Tenants \cup {None},
             Begin(r, k, header)
      PROVE  IInv'
    BY Zenon, <1>5, BeginStep
<1>6. ASSUME NEW r \in Requests, CacheGet(r) \/ Introspect(r) \/ CachePut(r) PROVE IInv'
    BY Zenon, <1>6, CacheGetStep, IntrospectStep, CachePutStep
<1>7. ASSUME NEW r \in Requests, ReadTenant(r) \/ ReadPublic(r) PROVE IInv'
    BY Zenon, <1>7, ReadTenantStep, ReadPublicStep
<1>8. ASSUME NEW r \in Requests, ReadStatus(r) \/ InsertStatus(r) \/ TargetTenant(r)
      PROVE  IInv'
    BY Zenon, <1>8, ReadStatusStep, InsertStatusStep, TargetStep
<1>9. CASE UNCHANGED vars
    <2> USE <1>9 DEF vars
    <2>1. StoreTypes' /\ CacheInv' /\ StatusInv' /\ TokenInv' /\ SubjectInv'
        BY Zenon DEF IInv, StoreTypes, CacheInv, StatusInv, TokenInv, SubjectInv
    <2>2. ReqInv'
        BY DEF IInv, ReqInv, GoodToken, GoodSubject
    <2> QED BY Zenon, <2>1, <2>2 DEF IInv
<1> QED BY Zenon, <1>1, <1>2, <1>3, <1>4, <1>5, <1>6, <1>7, <1>8, <1>9 DEF Next

\* Type correctness, what an accepted request knows included.
THEOREM TypeCorrect == Spec => []TypeOK
BY InitInv, StepInv, InvType, PTL DEF Spec

\* A revoked token is accepted only by a request that looked it up within the
\* cache's TTL and the delay of one cache write after the revocation.
THEOREM RevocationWindow == Spec => []StaleWindow
<1>1. IInv => StaleWindow
    BY Zenon DEF IInv, ReqInv, GoodToken, LookedUp, StaleWindow, Accepted
<1> QED BY <1>1, InitInv, StepInv, PTL DEF Spec

\* No cached answer outlives its token.
THEOREM ExpiryHonoured == Spec => []NeverAfterExpiry
<1>1. IInv => NeverAfterExpiry
    BY Zenon DEF IInv, ReqInv, GoodToken, LookedUp, NeverAfterExpiry, Accepted, Expiry
<1> QED BY <1>1, InitInv, StepInv, PTL DEF Spec

\* A deleted mapping refuses every request that begins afterwards; a disabled
\* agent every one that begins after the status cache's TTL and the delay of
\* one cache write, whether or not the invalidation arrives.
THEOREM KillSwitch == Spec => []KillSwitchWindow
<1>1. IInv => KillSwitchWindow
    BY Zenon DEF IInv, ReqInv, GoodSubject, Resolved, KillSwitchWindow, Accepted, Who
<1> QED BY <1>1, InitInv, StepInv, PTL DEF Spec

\* The three windows together: the authority behind an accepted request was
\* good recently.
THEOREM AuthorityIsRecent == Spec => []AuthorityRecent
<1>1. StaleWindow /\ NeverAfterExpiry /\ KillSwitchWindow => AuthorityRecent
    BY Zenon DEF AuthorityRecent
<1> QED BY <1>1, RevocationWindow, ExpiryHonoured, KillSwitch, PTL

-----------------------------------------------------------------------------
(* Where a request acts.                                                   *)

\* A request that has read its mapping holds the subject's present tenant,
\* unless the mapping moved or went after the request began; and it acts there
\* or, for a cross-tenant client, on the tenant it named.
AtHome(q) ==
    LET s == SubjectOf[q.tok] IN
    /\ (/\ q.pc \in Resolved /\ mapped[s] # None
        /\ (rehomed[s] # None => q.start > rehomed[s]))
       => q.tenant = mapped[s]
    /\ q.pc = "ok" => q.target = q.tenant \/ (s \in CrossTenant /\ q.target = q.header)

HomeInv == \A r \in Requests : AtHome(req[r])

\* A step of one request that moves no mapping.
LEMMA RequestHome ==
    ASSUME IInv, HomeInv, NEW r \in Requests, NEW q, AtHome(q),
           req' = [req EXCEPT ![r] = q], UNCHANGED mappingVars
    PROVE  HomeInv'
<1>1. req \in [Requests -> ReqStates]
    BY Zenon DEF IInv, StoreTypes
<1>2. \A x \in Requests : req'[x] = IF x = r THEN q ELSE req[x]
    BY Zenon, <1>1
<1>3. \A x \in Requests : AtHome(req'[x])
    BY Zenon, <1>2 DEF HomeInv
<1> QED BY <1>3 DEF HomeInv, AtHome, mappingVars

\* A refusal forgets where the request acted.
LEMMA RefuseHome ==
    ASSUME IInv, HomeInv, NEW r \in Requests, NEW why \in {"unauthorized", "unavailable"},
           Refuse(r, why), UNCHANGED mappingVars
    PROVE  HomeInv'
<1> DEFINE q == [NoReq EXCEPT !.pc = why]
<1>1. q.pc = why
    BY Zenon DEF NoReq
<1>2. AtHome(q)
    BY Zenon, <1>1 DEF AtHome, Resolved
<1>3. req' = [req EXCEPT ![r] = q]
    BY Zenon DEF Refuse, Step
<1> QED BY Zenon, <1>2, <1>3, RequestHome

\* A step between two reads keeps what the request knows.
LEMMA KeepHome ==
    ASSUME IInv, HomeInv, NEW r \in Requests, NEW q, req' = [req EXCEPT ![r] = q],
           q.tok = req[r].tok, q.start = req[r].start, q.tenant = req[r].tenant,
           q.pc # "ok", q.pc \in Resolved => req[r].pc \in Resolved,
           UNCHANGED mappingVars
    PROVE  HomeInv'
<1>1. AtHome(req[r])
    BY Zenon DEF HomeInv
<1>2. AtHome(q)
    BY Zenon, <1>1 DEF AtHome
<1> QED BY Zenon, <1>2, RequestHome

\* Tokens are looked up without the mapping.
LEMMA TokenHome ==
    ASSUME IInv, HomeInv, NEW r \in Requests,
           \/ \E k \in Tokens, header \in Tenants \cup {None} : Begin(r, k, header)
           \/ CacheGet(r) \/ Introspect(r) \/ CachePut(r)
    PROVE  HomeInv'
<1>1. UNCHANGED mappingVars
    BY Zenon DEF Begin, CacheGet, Introspect, CachePut
<1>2. \/ \E why \in {"unauthorized", "unavailable"} : Refuse(r, why)
      \/ \E q : q.pc \in {"cache", "hydra", "put", "tenant"} /\ req' = [req EXCEPT ![r] = q]
    <2>1. req[r] \in ReqStates
        BY Zenon DEF IInv, StoreTypes
    <2>2. ASSUME NEW k \in Tokens, NEW header \in Tenants \cup {None}, Begin(r, k, header)
          PROVE  \E q : q.pc = "cache" /\ req' = [req EXCEPT ![r] = q]
        <3> DEFINE q == [req[r] EXCEPT !.pc = "cache", !.tok = k, !.start = now, !.header = header]
        <3>1. q.pc = "cache"
            BY Zenon, <2>1 DEF ReqStates
        <3>2. req' = [req EXCEPT ![r] = q]
            BY Zenon, <2>2 DEF Begin, Step
        <3> QED BY Zenon, <3>1, <3>2
    <2>3. ASSUME CacheGet(r)
          PROVE  \/ Refuse(r, "unavailable")
                 \/ \E q : q.pc \in {"hydra", "tenant"} /\ req' = [req EXCEPT ![r] = q]
        <3> DEFINE hit == [req[r] EXCEPT !.pc = "tenant", !.seen = now]
        <3> DEFINE miss == [req[r] EXCEPT !.pc = "hydra"]
        <3>1. hit.pc = "tenant" /\ miss.pc = "hydra"
            BY Zenon, <2>1 DEF ReqStates
        <3>2. \/ Refuse(r, "unavailable")
              \/ req' = [req EXCEPT ![r] = hit] \/ req' = [req EXCEPT ![r] = miss]
            BY Zenon, <2>3 DEF CacheGet, Step
        <3> HIDE DEF hit, miss
        <3> QED BY <3>1, <3>2
    <2>4. ASSUME Introspect(r)
          PROVE  \/ \E why \in {"unauthorized", "unavailable"} : Refuse(r, why)
                 \/ \E q : q.pc = "put" /\ req' = [req EXCEPT ![r] = q]
        <3> DEFINE q == [req[r] EXCEPT !.pc = "put", !.seen = now, !.exp = Expiry(req[r].tok)]
        <3>1. q.pc = "put"
            BY Zenon, <2>1 DEF ReqStates
        <3>2. \/ \E why \in {"unauthorized", "unavailable"} : Refuse(r, why)
              \/ req' = [req EXCEPT ![r] = q]
            BY Zenon, <2>4 DEF Introspect, Step
        <3> QED BY Zenon, <3>1, <3>2
    <2>5. ASSUME CachePut(r) PROVE \E q : q.pc = "tenant" /\ req' = [req EXCEPT ![r] = q]
        <3> DEFINE q == [req[r] EXCEPT !.pc = "tenant"]
        <3>1. q.pc = "tenant"
            BY Zenon, <2>1 DEF ReqStates
        <3>2. req' = [req EXCEPT ![r] = q]
            BY Zenon, <2>5 DEF CachePut, Step
        <3> QED BY Zenon, <3>1, <3>2
    <2> QED BY <2>2, <2>3, <2>4, <2>5
<1>3. ASSUME NEW q, q.pc \in {"cache", "hydra", "put", "tenant"}, req' = [req EXCEPT ![r] = q]
      PROVE  HomeInv'
    <2>1. AtHome(q)
        BY Zenon, <1>3 DEF AtHome, Resolved
    <2> QED BY Zenon, <1>1, <1>3, <2>1, RequestHome
<1> QED BY <1>1, <1>2, <1>3, RefuseHome

\* resolve_subject takes the tenant from the mapping of the moment.
LEMMA SubjectHome ==
    ASSUME IInv, HomeInv, NEW r \in Requests, ReadTenant(r) \/ ReadPublic(r)
    PROVE  HomeInv'
<1>0. UNCHANGED mappingVars
    BY Zenon DEF ReadTenant, ReadPublic
<1>1. req[r] \in ReqStates
    BY Zenon DEF IInv, StoreTypes
<1>2. CASE \E why \in {"unauthorized", "unavailable"} : Refuse(r, why)
    BY Zenon, <1>0, <1>2, RefuseHome
<1>3. CASE ReadTenant(r) /\ Step(r, [req[r] EXCEPT !.pc = "public", !.tenant = mapped[Who(r)]])
    <2> DEFINE q == [req[r] EXCEPT !.pc = "public", !.tenant = mapped[Who(r)]]
    <2>1. q.pc = "public" /\ q.tok = req[r].tok /\ q.tenant = mapped[SubjectOf[q.tok]]
        BY Zenon, <1>1 DEF ReqStates, Who
    <2>2. AtHome(q)
        BY Zenon, <2>1 DEF AtHome
    <2> QED BY Zenon, <1>0, <1>3, <2>2, RequestHome DEF Step
<1>4. CASE ReadPublic(r) /\ Step(r, [req[r] EXCEPT !.pc = "target", !.kind = "user"])
    <2> DEFINE q == [req[r] EXCEPT !.pc = "target", !.kind = "user"]
    <2>1. /\ q.pc = "target" /\ q.tok = req[r].tok /\ q.start = req[r].start
          /\ q.tenant = req[r].tenant /\ req[r].pc \in Resolved
        BY Zenon, <1>1, <1>4 DEF ReqStates, ReadPublic, Resolved
    <2> QED BY Zenon, <1>0, <1>4, <2>1, KeepHome DEF Step
<1>5. CASE ReadPublic(r) /\ Step(r, [req[r] EXCEPT !.pc = "status"])
    <2> DEFINE q == [req[r] EXCEPT !.pc = "status"]
    <2>1. /\ q.pc = "status" /\ q.tok = req[r].tok /\ q.start = req[r].start
          /\ q.tenant = req[r].tenant /\ req[r].pc \in Resolved
        BY Zenon, <1>1, <1>5 DEF ReqStates, ReadPublic, Resolved
    <2> QED BY Zenon, <1>0, <1>5, <2>1, KeepHome DEF Step
<1> QED BY Zenon, <1>2, <1>3, <1>4, <1>5 DEF ReadTenant, ReadPublic

\* The status of an agent says nothing of where it acts.
LEMMA StatusHome ==
    ASSUME IInv, HomeInv, NEW r \in Requests, ReadStatus(r) \/ InsertStatus(r)
    PROVE  HomeInv'
<1>0. UNCHANGED mappingVars
    BY Zenon DEF ReadStatus, InsertStatus
<1>1. req[r] \in ReqStates /\ req[r].pc \in Resolved
    BY Zenon DEF IInv, StoreTypes, ReadStatus, InsertStatus, Resolved
<1>2. CASE \E why \in {"unauthorized", "unavailable"} : Refuse(r, why)
    BY Zenon, <1>0, <1>2, RefuseHome
<1>3. CASE Step(r, [req[r] EXCEPT !.pc = "target", !.kind = KindOf[Who(r)]])
    <2> DEFINE q == [req[r] EXCEPT !.pc = "target", !.kind = KindOf[Who(r)]]
    <2>1. /\ q.pc = "target" /\ q.tok = req[r].tok /\ q.start = req[r].start
          /\ q.tenant = req[r].tenant
        BY Zenon, <1>1 DEF ReqStates
    <2> QED BY Zenon, <1>0, <1>1, <1>3, <2>1, KeepHome DEF Step
<1>4. CASE Step(r, [req[r] EXCEPT !.pc = "insert", !.read = now, !.may = AgentMayAct(Who(r))])
    <2> DEFINE q == [req[r] EXCEPT !.pc = "insert", !.read = now, !.may = AgentMayAct(Who(r))]
    <2>1. /\ q.pc = "insert" /\ q.tok = req[r].tok /\ q.start = req[r].start
          /\ q.tenant = req[r].tenant
        BY Zenon, <1>1 DEF ReqStates
    <2> QED BY Zenon, <1>0, <1>1, <1>4, <2>1, KeepHome DEF Step
<1> QED BY Zenon, <1>2, <1>3, <1>4 DEF ReadStatus, InsertStatus, Judge

\* x-tenant-id counts for a cross-tenant client only.
LEMMA TargetHome ==
    ASSUME IInv, HomeInv, NEW r \in Requests, TargetTenant(r)
    PROVE  HomeInv'
<1>0. UNCHANGED mappingVars /\ req[r] \in ReqStates /\ req[r].pc = "target" /\ AtHome(req[r])
    BY Zenon DEF TargetTenant, IInv, StoreTypes, HomeInv
<1>1. PICK t : /\ req' = [req EXCEPT ![r] = [req[r] EXCEPT !.pc = "ok", !.target = t]]
               /\ \/ t = req[r].tenant
                  \/ SubjectOf[req[r].tok] \in CrossTenant /\ t = req[r].header
    BY Zenon DEF TargetTenant, Step, MayNameTenant, Who
<1> DEFINE q == [req[r] EXCEPT !.pc = "ok", !.target = t]
<1>2. /\ q.pc = "ok" /\ q.tok = req[r].tok /\ q.start = req[r].start
      /\ q.tenant = req[r].tenant /\ q.target = t /\ q.header = req[r].header
    BY Zenon, <1>0 DEF ReqStates
<1> HIDE DEF q
<1>3. AtHome(q)
    BY Zenon, <1>0, <1>1, <1>2 DEF AtHome, Resolved
<1> QED BY Zenon, <1>0, <1>1, <1>3, RequestHome DEF q

\* Every step leaves requests acting at home; a mapping that moves or goes
\* excuses the requests begun by then.
LEMMA StepHome == IInv /\ HomeInv /\ [Next]_vars => HomeInv'
<1> SUFFICES ASSUME IInv, HomeInv, [Next]_vars PROVE HomeInv'
    BY Zenon
<1>1. CASE UNCHANGED <<req, mappingVars>>
    BY Zenon, <1>1 DEF HomeInv, AtHome, mappingVars
<1>2. ASSUME NEW s \in Subjects, NEW t \in Tenants, Rehome(s, t) PROVE HomeInv'
    <2> SUFFICES ASSUME NEW r \in Requests PROVE AtHome(req[r])'
        BY Zenon DEF HomeInv
    <2>1. AtHome(req[r]) /\ req[r].start <= now /\ now \in Nat /\ req[r].start \in Nat
        BY Constants DEF HomeInv, IInv, ReqInv, GoodToken, StoreTypes, ReqStates, Times
    <2>2. req' = req /\ mapped \in [Subjects -> Tenants \cup {None}]
          /\ rehomed \in [Subjects -> Times \cup {None}]
        BY Zenon, <1>2 DEF Rehome, IInv, StoreTypes
    <2>3. CASE SubjectOf[req[r].tok] = s
        <3>1. rehomed'[s] = now /\ ~(req[r].start > now)
            BY <1>2, <2>1, <2>2 DEF Rehome
        <3>2. now # None
            BY Zenon, AuthAssumption DEF IInv, StoreTypes, Times
        <3> QED BY Zenon, <2>1, <2>2, <2>3, <3>1, <3>2 DEF AtHome
    <2>4. CASE SubjectOf[req[r].tok] # s
        <3>1. /\ mapped'[SubjectOf[req[r].tok]] = mapped[SubjectOf[req[r].tok]]
              /\ rehomed'[SubjectOf[req[r].tok]] = rehomed[SubjectOf[req[r].tok]]
            BY <1>2, <2>2, <2>4 DEF Rehome
        <3> QED BY Zenon, <2>1, <2>2, <3>1 DEF AtHome
    <2> QED BY Zenon, <2>3, <2>4
<1>3. ASSUME NEW s \in Subjects, DeleteMapping(s) PROVE HomeInv'
    <2> SUFFICES ASSUME NEW r \in Requests PROVE AtHome(req[r])'
        BY Zenon DEF HomeInv
    <2>1. AtHome(req[r]) /\ req' = req /\ rehomed' = rehomed
        BY Zenon, <1>3 DEF HomeInv, DeleteMapping
    <2>2. mapped \in [Subjects -> Tenants \cup {None}] /\ mapped' = [mapped EXCEPT ![s] = None]
        BY Zenon, <1>3 DEF IInv, StoreTypes, DeleteMapping
    <2>3. \/ mapped'[SubjectOf[req[r].tok]] = None
          \/ mapped'[SubjectOf[req[r].tok]] = mapped[SubjectOf[req[r].tok]]
        BY <2>2
    <2> QED BY Zenon, <2>1, <2>3 DEF AtHome
<1>4. ASSUME NEW r \in Requests,
             \/ \E k \in Tokens, header \in Tenants \cup {None} : Begin(r, k, header)
             \/ CacheGet(r) \/ Introspect(r) \/ CachePut(r)
      PROVE  HomeInv'
    BY Zenon, <1>4, TokenHome
<1>5. ASSUME NEW r \in Requests,
             \/ ReadTenant(r) \/ ReadPublic(r)
             \/ ReadStatus(r) \/ InsertStatus(r) \/ TargetTenant(r)
      PROVE  HomeInv'
    BY Zenon, <1>5, SubjectHome, StatusHome, TargetHome
<1>6. Tick => UNCHANGED <<req, mappingVars>>
    BY Zenon DEF Tick
<1>7. ASSUME NEW k \in Tokens, IssueToken(k) \/ Revoke(k) \/ ClearCache(k)
      PROVE  UNCHANGED <<req, mappingVars>>
    BY Zenon, <1>7 DEF IssueToken, Revoke, ClearCache
<1>8. ASSUME NEW s \in Subjects, DisableAgent(s) \/ EvictStatus(s)
      PROVE  UNCHANGED <<req, mappingVars>>
    BY Zenon, <1>8 DEF DisableAgent, EvictStatus
<1>9. UNCHANGED vars => UNCHANGED <<req, mappingVars>>
    BY Zenon DEF vars, mappingVars
<1> QED BY Zenon, <1>1, <1>2, <1>3, <1>4, <1>5, <1>6, <1>7, <1>8, <1>9 DEF Next

\* A request begun after its client was re-homed acts on the new home, and
\* only a client flagged cross_tenant acts on another tenant it names
\* (resolve_subject, resolve_target_tenant).
THEOREM RequestsActAtHome == Spec => []ActsAtHome
<1>1. Init => HomeInv
    BY DEF Init, HomeInv, AtHome, NoReq, Resolved
<1>2. HomeInv => ActsAtHome
    <2> SUFFICES ASSUME HomeInv, NEW r \in Requests, Accepted(r), mapped[Who(r)] # None,
                        rehomed[Who(r)] # None => req[r].start > rehomed[Who(r)]
                 PROVE  \/ req[r].target = mapped[Who(r)]
                        \/ Who(r) \in CrossTenant /\ req[r].target = req[r].header
        BY Zenon DEF ActsAtHome
    <2>1. AtHome(req[r])
        BY Zenon DEF HomeInv
    <2> QED BY Zenon, <2>1 DEF AtHome, Accepted, Who, Resolved
<1> QED BY <1>1, <1>2, InitInv, StepInv, StepHome, PTL DEF Spec

-----------------------------------------------------------------------------
(* KeysRecent for every TTL, every number of overlapping callbacks and     *)
(* every rotation schedule.  The argument is that a key set, in a request  *)
(* or in the cache, was still published when its stamp was taken: the      *)
(* stamp precedes the fetch.                                               *)

\* Key set v was still published at time t.
PublishedAt(v, t) == replaced[v] = NoKeys \/ t <= replaced[v]

\* The versions not yet published were not replaced; the replaced ones were
\* replaced in the past.
RotationInv ==
    /\ \A v \in Versions : v >= version => replaced[v] = NoKeys
    /\ \A v \in Versions : replaced[v] # NoKeys => replaced[v] <= clock

\* A request's instant is past; what it fetched was published at that instant.
LookupInv ==
    \A r \in Lookups :
        /\ lookup[r].at <= clock
        /\ lookup[r].pc = "insert" =>
               lookup[r].keys \in Versions /\ PublishedAt(lookup[r].keys, lookup[r].at)

\* The entry was published at its stamp.
EntryInv == entry # NoKeys => PublishedAt(entry.keys, entry.at)

\* A lookup began in the past.
UsedInv == \A v \in Versions, at \in JwksTimes : <<v, at>> \in used => at <= clock

JwksInv == JwksTypeOK /\ RotationInv /\ LookupInv /\ EntryInv /\ UsedInv /\ KeysRecent

\* The invariant holds when the process starts.
LEMMA JwksInitInv == JwksInit => JwksInv
<1> SUFFICES ASSUME JwksInit PROVE JwksInv
    BY Zenon
<1> USE JwksAssumption DEF JwksInit, JwksTimes, Versions, NoLookup
<1>1. JwksTypeOK
    BY DEF JwksTypeOK
<1>2. RotationInv /\ LookupInv
    BY DEF RotationInv, LookupInv
<1>3. EntryInv /\ UsedInv /\ KeysRecent
    BY Zenon DEF EntryInv, UsedInv, KeysRecent
<1> QED BY Zenon, <1>1, <1>2, <1>3 DEF JwksInv

\* What a step may do to the history: nothing, or one lookup of a key set that
\* was published less than a TTL before the request's instant.
Answered(r, v) ==
    /\ v \in Versions
    /\ used' = {<<v, lookup[r].at>>}
    /\ \/ replaced[v] = NoKeys
       \/ lookup[r].at < replaced[v] + Ttl

\* An answer given with a key set leaves both invariants intact.
LEMMA AnsweredInv ==
    ASSUME JwksInv, NEW r \in Lookups, NEW v, Answered(r, v),
           UNCHANGED <<clock, replaced>>
    PROVE  UsedInv' /\ KeysRecent'
<1>1. lookup[r].at <= clock
    BY Zenon DEF JwksInv, LookupInv
<1>2. \A w \in Versions, at \in JwksTimes : <<w, at>> \in used' => w = v /\ at = lookup[r].at
    BY Zenon DEF Answered
<1> QED BY Zenon, <1>1, <1>2 DEF UsedInv, KeysRecent, Answered, Versions, JwksTimes

\* Every step preserves the invariant.
LEMMA JwksStepInv == JwksInv /\ [JwksNext]_jwksVars => JwksInv'
<1> SUFFICES ASSUME JwksInv, [JwksNext]_jwksVars PROVE JwksInv'
    BY Zenon
<1> USE JwksAssumption DEF JwksTimes, Versions, NoLookup
<1>1. CASE JwksTick
    <2>1. JwksTypeOK'
        BY <1>1 DEF JwksInv, JwksTypeOK, JwksTick
    <2>2. RotationInv'
        BY SMTT(20), <1>1 DEF JwksInv, JwksTypeOK, JwksTick, RotationInv, PublishedAt
    <2>3. LookupInv'
        BY <1>1 DEF JwksInv, JwksTypeOK, JwksTick, LookupInv, PublishedAt
    <2>4. EntryInv' /\ UsedInv' /\ KeysRecent'
        BY <1>1 DEF JwksInv, JwksTypeOK, JwksTick, EntryInv, UsedInv, KeysRecent, PublishedAt
    <2> QED BY Zenon, <2>1, <2>2, <2>3, <2>4 DEF JwksInv
<1>2. CASE Rotate
    <2>0. /\ version \in Versions /\ version' \in Versions /\ clock \in Nat
          /\ version' = version + 1
          /\ replaced[version] = NoKeys
          /\ replaced' = [replaced EXCEPT ![version] = clock]
          /\ UNCHANGED <<clock, entry, lookup, used>>
        BY <1>2 DEF Rotate, JwksInv, JwksTypeOK, RotationInv
    <2>1. JwksTypeOK'
        BY Zenon, <2>0 DEF JwksInv, JwksTypeOK
    <2>2. RotationInv'
        BY <2>0 DEF JwksInv, JwksTypeOK, RotationInv
    <2>3. LookupInv'
        BY Zenon, <2>0 DEF JwksInv, JwksTypeOK, LookupInv, PublishedAt
    <2>4. EntryInv'
        BY <2>0 DEF JwksInv, JwksTypeOK, EntryInv, PublishedAt
    <2>5. UsedInv' /\ KeysRecent'
        BY <2>0 DEF JwksInv, JwksTypeOK, UsedInv, KeysRecent
    <2> QED BY Zenon, <2>1, <2>2, <2>3, <2>4, <2>5 DEF JwksInv
<1>3. ASSUME NEW r \in Lookups, BeginLookup(r) PROVE JwksInv'
    <2>1. JwksTypeOK'
        BY Zenon, <1>3 DEF JwksInv, JwksTypeOK, BeginLookup
    <2>2. LookupInv'
        BY <1>3 DEF JwksInv, JwksTypeOK, BeginLookup, LookupInv, PublishedAt
    <2>3. RotationInv' /\ EntryInv' /\ UsedInv' /\ KeysRecent'
        BY Zenon, <1>3
           DEF JwksInv, BeginLookup, RotationInv, EntryInv, UsedInv, KeysRecent, PublishedAt
    <2> QED BY Zenon, <2>1, <2>2, <2>3 DEF JwksInv
<1>4. ASSUME NEW r \in Lookups, ReadCache(r) PROVE JwksInv'
    <2>1. JwksTypeOK' /\ LookupInv'
        <3>1. CASE EntryFresh(lookup[r].at)
            <4>1. /\ entry.keys \in Versions /\ lookup[r].at \in JwksTimes
                  /\ lookup' = [lookup EXCEPT ![r] = NoLookup]
                  /\ used' = {<<entry.keys, lookup[r].at>>}
                  /\ UNCHANGED <<clock, version, replaced, entry>>
                BY Zenon, <1>4, <3>1 DEF JwksInv, JwksTypeOK, ReadCache, Answer, EntryFresh
            <4> QED BY <4>1 DEF JwksInv, JwksTypeOK, LookupInv, PublishedAt
        <3>2. CASE ~EntryFresh(lookup[r].at)
            <4>1. /\ lookup[r].pc = "lock"
                  /\ lookup' = [lookup EXCEPT ![r].pc = "fetch"]
                  /\ UNCHANGED <<clock, version, replaced, entry, used>>
                BY Zenon, <1>4, <3>2 DEF ReadCache
            <4>2. JwksTypeOK'
                BY Zenon, <4>1 DEF JwksInv, JwksTypeOK
            <4>3. LookupInv'
                BY Zenon, <4>1 DEF JwksInv, JwksTypeOK, LookupInv, PublishedAt
            <4> QED BY Zenon, <4>2, <4>3
        <3> QED BY Zenon, <3>1, <3>2
    <2>2. RotationInv' /\ EntryInv'
        BY Zenon, <1>4 DEF JwksInv, ReadCache, RotationInv, EntryInv, PublishedAt
    <2>3. UsedInv' /\ KeysRecent'
        <3>1. CASE EntryFresh(lookup[r].at)
            <4>1. Answered(r, entry.keys)
                BY <1>4, <3>1 DEF JwksInv, JwksTypeOK, ReadCache, Answer, Answered, EntryFresh,
                   EntryInv, PublishedAt
            <4> QED BY Zenon, <4>1, <1>4, AnsweredInv DEF ReadCache
        <3>2. CASE ~EntryFresh(lookup[r].at)
            BY Zenon, <1>4, <3>2 DEF JwksInv, ReadCache, UsedInv, KeysRecent
        <3> QED BY Zenon, <3>1, <3>2
    <2> QED BY Zenon, <2>1, <2>2, <2>3 DEF JwksInv
<1>5. ASSUME NEW r \in Lookups, Fetch(r) PROVE JwksInv'
    <2>1. JwksTypeOK'
        BY Zenon, <1>5 DEF JwksInv, JwksTypeOK, Fetch
    <2>2. LookupInv'
        BY <1>5 DEF JwksInv, JwksTypeOK, Fetch, LookupInv, RotationInv, PublishedAt
    <2>3. RotationInv' /\ EntryInv' /\ UsedInv' /\ KeysRecent'
        BY Zenon, <1>5 DEF JwksInv, Fetch, RotationInv, EntryInv, UsedInv, KeysRecent, PublishedAt
    <2> QED BY Zenon, <2>1, <2>2, <2>3 DEF JwksInv
<1>6. ASSUME NEW r \in Lookups, FetchFails(r) PROVE JwksInv'
    <2>1. JwksTypeOK'
        BY <1>6 DEF JwksInv, JwksTypeOK, FetchFails
    <2>2. LookupInv'
        BY <1>6 DEF JwksInv, JwksTypeOK, FetchFails, LookupInv, PublishedAt
    <2>3. RotationInv' /\ EntryInv' /\ UsedInv' /\ KeysRecent'
        BY Zenon, <1>6
           DEF JwksInv, FetchFails, RotationInv, EntryInv, UsedInv, KeysRecent, PublishedAt
    <2> QED BY Zenon, <2>1, <2>2, <2>3 DEF JwksInv
<1>7. ASSUME NEW r \in Lookups, InsertKeys(r) PROVE JwksInv'
    <2>0. /\ lookup[r].keys \in Versions /\ PublishedAt(lookup[r].keys, lookup[r].at)
          /\ lookup[r].at \in JwksTimes /\ lookup[r].at <= clock
        BY Zenon, <1>7 DEF JwksInv, JwksTypeOK, InsertKeys, LookupInv
    <2>1. JwksTypeOK'
        BY <1>7, <2>0 DEF JwksInv, JwksTypeOK, InsertKeys, Answer, Stamp
    <2>2. LookupInv'
        BY <1>7 DEF JwksInv, JwksTypeOK, InsertKeys, Answer, LookupInv, PublishedAt
    <2>3. RotationInv' /\ EntryInv'
        BY Zenon, <1>7, <2>0
           DEF JwksInv, JwksTypeOK, InsertKeys, Stamp, RotationInv, EntryInv, PublishedAt
    <2>4. Answered(r, lookup[r].keys)
        BY <1>7, <2>0 DEF JwksInv, JwksTypeOK, InsertKeys, Answer, Answered, PublishedAt
    <2>5. UsedInv' /\ KeysRecent'
        BY Zenon, <2>4, <1>7, AnsweredInv DEF InsertKeys
    <2> QED BY Zenon, <2>1, <2>2, <2>3, <2>5 DEF JwksInv
<1>8. CASE UNCHANGED jwksVars
    BY Zenon, <1>8 DEF jwksVars, JwksInv, JwksTypeOK, RotationInv, LookupInv, EntryInv, UsedInv,
       KeysRecent, PublishedAt
<1> QED BY Zenon, <1>1, <1>2, <1>3, <1>4, <1>5, <1>6, <1>7, <1>8 DEF JwksNext

\* Type correctness, an entry's stamp never ahead of the clock included.
THEOREM JwksTypeCorrect == JwksSpec => []JwksTypeOK
<1>1. JwksInv => JwksTypeOK
    BY Zenon DEF JwksInv
<1> QED BY <1>1, JwksInitInv, JwksStepInv, PTL DEF JwksSpec

\* ID tokens are only ever checked with keys the provider still published less
\* than JWKS_CACHE_TTL before the callback began.
THEOREM KeysAreRecent == JwksSpec => []KeysRecent
<1>1. JwksInv => KeysRecent
    BY Zenon DEF JwksInv
<1> QED BY <1>1, JwksInitInv, JwksStepInv, PTL DEF JwksSpec

-----------------------------------------------------------------------------
(* The three properties of the SAML identity provider, for any number of   *)
(* handlers, SPs, requests, identities and keys.                           *)

HandlerStates ==
    [pc: IdpPcs, req: AuthnRequests \cup {Absent}, who: Identities \cup {Absent},
     key: Keys \cup {Absent}, plain: BOOLEAN]

\* Handler x has recorded its request and has not answered it.
Active(x) == h[x].pc \notin {"idle", "record"}

\* Every handler knows what it needs for the steps that remain.
ProgressInv ==
    \A x \in Handlers :
        /\ h[x].pc # "idle" => h[x].req \in AuthnRequests
        /\ h[x].pc \in {"key", "decrypt", "migrate", "nameid"} => h[x].who \in Identities
        /\ h[x].pc \in {"decrypt", "migrate", "nameid"} =>
               h[x].key \in Keys /\ keys[h[x].key] # Absent

\* A recorded request belongs to one handler, or to the response it sent.
OnceInv ==
    /\ \A x \in Handlers : Active(x) => h[x].req \in inbound
    /\ \A x, y \in Handlers : (Active(x) /\ Active(y) /\ h[x].req = h[y].req) => x = y
    /\ \A a \in responses : a.req \in inbound
    /\ \A a \in responses, x \in Handlers : Active(x) => h[x].req # a.req

\* The name in the table, and in a response, is the computed one.
NameInv ==
    /\ \A p \in Pairs : nameids[p] \in {Absent, p}
    /\ \A a \in responses : a.name = <<SpOf[a.req], a.who>>

\* A key read without its plain text has a ciphertext.
KeyInv ==
    /\ ~unusable
    /\ \A x \in Handlers :
           (h[x].pc = "decrypt" /\ ~h[x].plain) => keys[h[x].key].cipher
    /\ \A x \in Handlers : h[x].pc = "migrate" => x \in Keyed

IdpInv == IdpTypeOK /\ ProgressInv /\ OnceInv /\ AnsweredOnce /\ NameInv /\ KeyInv

\* The invariant holds initially.
LEMMA IdpInitInv == IdpInit => IdpInv
<1> SUFFICES ASSUME IdpInit PROVE IdpInv
    BY Zenon
<1> USE SamlIdpAssumption DEF IdpInit, Resting
<1>1. IdpTypeOK
    <2>1. Resting \in HandlerStates
        BY Zenon DEF HandlerStates, IdpPcs
    <2>2. h \in [Handlers -> HandlerStates]
        BY Zenon, <2>1
    <2>3. nameids \in [Pairs -> Pairs \cup {Absent}] /\ keys \in [Keys -> KeyRows \cup {Absent}]
        BY Zenon
    <2>4. \A k \in Keys : keys[k] = Absent
        BY Zenon
    <2>5. faults \in 0..MaxFaults /\ inbound \subseteq AuthnRequests /\ session = Absent
        OBVIOUS
    <2>6. responses = {} /\ unusable = FALSE
        BY Zenon
    <2> HIDE DEF IdpInit, Resting
    <2> QED BY Zenon, <2>2, <2>3, <2>4, <2>5, <2>6 DEF IdpTypeOK, HandlerStates
<1>2. ProgressInv /\ OnceInv /\ KeyInv
    BY Zenon DEF ProgressInv, OnceInv, KeyInv, Active
<1>3. NameInv /\ AnsweredOnce
    BY Zenon DEF NameInv, AnsweredOnce, Pairs
<1> QED BY Zenon, <1>1, <1>2, <1>3 DEF IdpInv

\* The browser signing in or out disturbs nothing.
LEMMA SessionStep == IdpInv /\ SessionChanges => IdpInv'
<1> SUFFICES ASSUME IdpInv, SessionChanges PROVE IdpInv'
    BY Zenon
<1>1. IdpTypeOK'
    BY Zenon DEF IdpInv, IdpTypeOK, SessionChanges
<1>2. ProgressInv' /\ OnceInv' /\ AnsweredOnce' /\ NameInv' /\ KeyInv'
    BY Zenon DEF IdpInv, SessionChanges, ProgressInv, OnceInv, Active, AnsweredOnce, NameInv, KeyInv
<1> QED BY Zenon, <1>1, <1>2 DEF IdpInv

\* A key is stored where none was: no handler had read it.
LEMMA StoreKeyStep ==
    ASSUME IdpInv, NEW k \in Keys, NEW keyed \in BOOLEAN, StoreKey(k, keyed)
    PROVE  IdpInv'
<1>1. keys[k] = Absent /\ keys' = [keys EXCEPT ![k] = [plain |-> ~keyed, cipher |-> keyed]]
    BY Zenon DEF StoreKey
<1>2. UNCHANGED <<inbound, nameids, session, h, responses, unusable, faults>>
    BY Zenon DEF StoreKey
<1>3. [plain |-> ~keyed, cipher |-> keyed] \in KeyRows
    BY Zenon DEF KeyRows
<1>4. IdpTypeOK'
    <2>1. keys' \in [Keys -> KeyRows \cup {Absent}]
        BY Zenon, <1>1, <1>3 DEF IdpInv, IdpTypeOK
    <2>2. \A j \in Keys : keys'[j] # Absent => keys'[j].plain # keys'[j].cipher
        BY Zenon, <1>1 DEF IdpInv, IdpTypeOK
    <2> QED BY Zenon, <1>2, <2>1, <2>2 DEF IdpInv, IdpTypeOK
<1>5. ProgressInv' /\ KeyInv'
    BY Zenon, <1>1, <1>2, <1>3 DEF IdpInv, IdpTypeOK, ProgressInv, KeyInv, KeyRows
<1>6. OnceInv' /\ AnsweredOnce' /\ NameInv'
    BY Zenon, <1>2 DEF IdpInv, OnceInv, Active, AnsweredOnce, NameInv
<1> QED BY Zenon, <1>4, <1>5, <1>6 DEF IdpInv

-----------------------------------------------------------------------------
(* The handler's steps.                                                    *)

\* Typing of a step that gives handler x a new state and leaves the rest.
LEMMA HandlerType ==
    ASSUME IdpTypeOK, NEW x \in Handlers, NEW s \in HandlerStates,
           h' = [h EXCEPT ![x] = s]
    PROVE  /\ h' \in [Handlers -> HandlerStates]
           /\ h'[x] = s
           /\ \A y \in Handlers : y # x => h'[y] = h[y]
BY Zenon DEF IdpTypeOK, HandlerStates

\* A handler at rest is well formed.
LEMMA IdleType == Resting \in HandlerStates
BY Zenon DEF Resting, HandlerStates, IdpPcs

\* A request that ends without a response.
LEMMA FailStep ==
    ASSUME IdpInv, NEW x \in Handlers, Fail(x),
           UNCHANGED <<stores, responses, unusable, faults>>
    PROVE  IdpInv'
<1>1. h' = [h EXCEPT ![x] = Resting]
    BY Zenon DEF Fail, Go
<1>2. /\ h' \in [Handlers -> HandlerStates] /\ h'[x] = Resting
      /\ \A y \in Handlers : y # x => h'[y] = h[y]
    BY Zenon, <1>1, IdleType, HandlerType DEF IdpInv
<1>3. h'[x].pc = "idle"
    BY <1>2 DEF Resting
<1>4. IdpTypeOK'
    BY Zenon, <1>2 DEF IdpInv, IdpTypeOK, HandlerStates, stores
<1>5. ProgressInv'
    BY Zenon, <1>2, <1>3 DEF IdpInv, ProgressInv, stores
<1>6. OnceInv'
    BY <1>2, <1>3 DEF IdpInv, OnceInv, Active, stores
<1>7. AnsweredOnce' /\ NameInv'
    BY Zenon DEF IdpInv, AnsweredOnce, NameInv, stores
<1>8. KeyInv'
    BY Zenon, <1>2, <1>3 DEF IdpInv, KeyInv, stores
<1> QED BY Zenon, <1>4, <1>5, <1>6, <1>7, <1>8 DEF IdpInv

\* A step that only moves handler x on, within a request it has recorded.
LEMMA MoveStep ==
    ASSUME IdpInv, NEW x \in Handlers, NEW s \in HandlerStates,
           h' = [h EXCEPT ![x] = s],
           UNCHANGED <<stores, responses, unusable, faults>>,
           Active(x), s.pc \notin {"idle", "record"}, s.req = h[x].req,
           s.pc # "whoami" => s.who \in Identities,
           s.pc \in {"decrypt", "migrate", "nameid"} => s.key \in Keys /\ keys[s.key] # Absent,
           (s.pc = "decrypt" /\ ~s.plain) => keys[s.key].cipher,
           s.pc = "migrate" => x \in Keyed
    PROVE  IdpInv'
<1>1. /\ h' \in [Handlers -> HandlerStates] /\ h'[x] = s
      /\ \A y \in Handlers : y # x => h'[y] = h[y]
    BY Zenon, HandlerType DEF IdpInv
<1>2. IdpTypeOK'
    BY Zenon, <1>1 DEF IdpInv, IdpTypeOK, HandlerStates, stores
<1>3. ProgressInv'
    BY Zenon, <1>1 DEF IdpInv, ProgressInv, stores, HandlerStates, IdpPcs, Active
<1>4. OnceInv'
    BY <1>1 DEF IdpInv, OnceInv, Active, stores
<1>5. AnsweredOnce' /\ NameInv'
    BY Zenon DEF IdpInv, AnsweredOnce, NameInv, stores
<1>6. KeyInv'
    BY Zenon, <1>1 DEF IdpInv, KeyInv, stores
<1> QED BY Zenon, <1>2, <1>3, <1>4, <1>5, <1>6 DEF IdpInv

\* The response: handler x names the identity it read by the computed NameID.
LEMMA RespondStep ==
    ASSUME IdpInv, NEW x \in Handlers, h[x].pc = "nameid",
           Respond(x, <<SpOf[h[x].req], h[x].who>>),
           UNCHANGED <<inbound, keys, session, unusable>>,
           nameids' \in [Pairs -> Pairs \cup {Absent}],
           \A p \in Pairs : nameids'[p] \in {Absent, p},
           faults' \in 0..MaxFaults
    PROVE  IdpInv'
<1> DEFINE q == h[x].req
           new == [req |-> q, who |-> h[x].who, name |-> <<SpOf[q], h[x].who>>, key |-> h[x].key]
<1>1. h' = [h EXCEPT ![x] = Resting] /\ responses' = responses \cup {new}
    BY Zenon DEF Respond, Go
<1>2. /\ h' \in [Handlers -> HandlerStates] /\ h'[x] = Resting
      /\ \A y \in Handlers : y # x => h'[y] = h[y]
    BY Zenon, <1>1, IdleType, HandlerType DEF IdpInv
<1>3. h'[x].pc = "idle"
    BY <1>2 DEF Resting
<1>4. q \in AuthnRequests /\ h[x].who \in Identities /\ h[x].key \in Keys
    BY Zenon DEF IdpInv, ProgressInv
<1>5. Active(x) /\ q \in inbound /\ \A a \in responses : a.req # q
    BY Zenon DEF IdpInv, OnceInv, Active
<1>6. IdpTypeOK'
    <2>1. SpOf[q] \in Sps
        BY Zenon, <1>4, SamlIdpAssumption
    <2>2. new \in [req: AuthnRequests, who: Identities, name: Pairs, key: Keys]
        BY Zenon, <1>4, <2>1 DEF Pairs
    <2>3. responses' \subseteq [req: AuthnRequests, who: Identities, name: Pairs, key: Keys]
        BY Zenon, <1>1, <2>2 DEF IdpInv, IdpTypeOK
    <2> QED BY Zenon, <1>2, <2>3 DEF IdpInv, IdpTypeOK, HandlerStates
<1>7. ProgressInv' /\ KeyInv'
    BY <1>2, <1>3 DEF IdpInv, ProgressInv, KeyInv
<1>8. OnceInv'
    BY <1>1, <1>2, <1>3, <1>5 DEF IdpInv, OnceInv, Active
<1>9. AnsweredOnce'
    BY <1>1, <1>5 DEF IdpInv, AnsweredOnce
<1>10. NameInv'
    BY <1>1 DEF IdpInv, NameInv
<1> QED BY Zenon, <1>6, <1>7, <1>8, <1>9, <1>10 DEF IdpInv

\* An AuthnRequest arrives at the sso handler.
LEMMA SsoStep ==
    ASSUME IdpInv, NEW x \in Handlers, NEW q \in AuthnRequests, Sso(x, q)
    PROVE  IdpInv'
<1> DEFINE s == [pc |-> "record", req |-> q, who |-> Absent, key |-> Absent, plain |-> FALSE]
<1>1. s \in HandlerStates /\ h' = [h EXCEPT ![x] = s]
    BY Zenon DEF HandlerStates, IdpPcs, Sso, Go
<1>2. /\ h' \in [Handlers -> HandlerStates] /\ h'[x] = s
      /\ \A y \in Handlers : y # x => h'[y] = h[y]
    BY Zenon, <1>1, HandlerType DEF IdpInv
<1>3. h'[x].pc = "record" /\ h'[x].req = q
    BY <1>2
<1>4. UNCHANGED <<inbound, nameids, keys, session, responses, unusable, faults>>
    BY Zenon DEF Sso, stores
<1> HIDE DEF s
<1>5. IdpTypeOK'
    BY Zenon, <1>2, <1>4 DEF IdpInv, IdpTypeOK, HandlerStates
<1>6. ProgressInv' /\ KeyInv'
    BY Zenon, <1>2, <1>3, <1>4 DEF IdpInv, ProgressInv, KeyInv
<1>7. OnceInv'
    BY <1>2, <1>3, <1>4 DEF IdpInv, OnceInv, Active
<1>8. AnsweredOnce' /\ NameInv'
    BY Zenon, <1>4 DEF IdpInv, AnsweredOnce, NameInv
<1> QED BY Zenon, <1>5, <1>6, <1>7, <1>8 DEF IdpInv

\* create_inbound records the request's id, or refuses a replay.
LEMMA CreateInboundStep ==
    ASSUME IdpInv, NEW x \in Handlers, CreateInbound(x)
    PROVE  IdpInv'
<1> DEFINE q == h[x].req
           s == [h[x] EXCEPT !.pc = "whoami"]
<1>1. h[x].pc = "record" /\ q \in AuthnRequests /\ ~Active(x)
    BY Zenon DEF CreateInbound, IdpInv, ProgressInv, Active
<1>2. inbound' = inbound \cup {q} /\ UNCHANGED <<nameids, keys, session, responses, unusable, faults>>
    BY Zenon DEF CreateInbound
<1>3. h[x] \in HandlerStates
    BY Zenon DEF IdpInv, IdpTypeOK, HandlerStates
<1>4. CASE FreshId(q) /\ q \notin ForceAuthn
    <2>1. h' = [h EXCEPT ![x] = s]
        BY Zenon, <1>4 DEF CreateInbound, Go
    <2>2. s \in HandlerStates /\ s.pc = "whoami" /\ s.req = q
        BY Zenon, <1>3 DEF HandlerStates, IdpPcs
    <2> HIDE DEF s
    <2>3. /\ h' \in [Handlers -> HandlerStates] /\ h'[x] = s
          /\ \A y \in Handlers : y # x => h'[y] = h[y]
        BY Zenon, <2>1, <2>2, HandlerType DEF IdpInv
    <2>4. q \notin inbound
        BY Zenon, <1>4 DEF FreshId
    <2>5. IdpTypeOK'
        BY Zenon, <1>1, <1>2, <2>3 DEF IdpInv, IdpTypeOK, HandlerStates
    <2>6. ProgressInv' /\ KeyInv'
        BY Zenon, <1>1, <1>2, <2>2, <2>3 DEF IdpInv, ProgressInv, KeyInv
    <2>7. OnceInv'
        BY <1>1, <1>2, <2>2, <2>3, <2>4 DEF IdpInv, OnceInv, Active
    <2>8. AnsweredOnce' /\ NameInv'
        BY Zenon, <1>2 DEF IdpInv, AnsweredOnce, NameInv
    <2> QED BY Zenon, <2>5, <2>6, <2>7, <2>8 DEF IdpInv
<1>5. CASE ~(FreshId(q) /\ q \notin ForceAuthn)
    <2>1. h' = [h EXCEPT ![x] = Resting]
        BY Zenon, <1>5 DEF CreateInbound, Fail, Go
    <2>2. /\ h' \in [Handlers -> HandlerStates] /\ h'[x] = Resting
          /\ \A y \in Handlers : y # x => h'[y] = h[y]
        BY Zenon, <2>1, IdleType, HandlerType DEF IdpInv
    <2>3. h'[x].pc = "idle"
        BY <2>2 DEF Resting
    <2>4. IdpTypeOK'
        BY Zenon, <1>1, <1>2, <2>2 DEF IdpInv, IdpTypeOK, HandlerStates
    <2>5. ProgressInv' /\ KeyInv'
        BY Zenon, <1>1, <1>2, <2>2, <2>3 DEF IdpInv, ProgressInv, KeyInv
    <2>6. OnceInv'
        BY <1>1, <1>2, <2>2, <2>3 DEF IdpInv, OnceInv, Active
    <2>7. AnsweredOnce' /\ NameInv'
        BY Zenon, <1>2 DEF IdpInv, AnsweredOnce, NameInv
    <2> QED BY Zenon, <2>4, <2>5, <2>6, <2>7 DEF IdpInv
<1> QED BY Zenon, <1>4, <1>5

\* The session of the browser is read.
LEMMA WhoamiStep ==
    ASSUME IdpInv, NEW x \in Handlers, Whoami(x)
    PROVE  IdpInv'
<1> DEFINE s == [h[x] EXCEPT !.pc = "key", !.who = session]
<1>1. CASE session = Absent
    BY Zenon, <1>1, FailStep DEF Whoami
<1>2. CASE session # Absent
    <2>1. h[x] \in HandlerStates /\ session \in Identities
        BY Zenon, <1>2 DEF IdpInv, IdpTypeOK, HandlerStates
    <2>2. s \in HandlerStates
        BY Zenon, <2>1 DEF HandlerStates, IdpPcs
    <2>3. s.pc = "key" /\ s.req = h[x].req /\ s.who = session
        BY Zenon, <2>1 DEF HandlerStates
    <2>4. h' = [h EXCEPT ![x] = s] /\ Active(x) /\ UNCHANGED <<stores, responses, unusable, faults>>
        BY Zenon, <1>2 DEF Whoami, Go, Active
    <2> HIDE DEF s
    <2> QED BY Zenon, <2>1, <2>2, <2>3, <2>4, MoveStep
<1> QED BY Zenon, <1>1, <1>2

\* get_active picks the newest row.
LEMMA GetActiveStep ==
    ASSUME IdpInv, NEW x \in Handlers, GetActive(x)
    PROVE  IdpInv'
<1> DEFINE stored == {k \in Keys : keys[k] # Absent}
<1>1. CASE stored = {}
    BY Zenon, <1>1, FailStep DEF GetActive
<1>2. CASE stored # {}
    <2>1. PICK k \in stored :
              Go(x, [pc |-> "decrypt", req |-> h[x].req, who |-> h[x].who,
                     key |-> k, plain |-> keys[k].plain])
        BY Zenon, <1>2 DEF GetActive
    <2> DEFINE s == [pc |-> "decrypt", req |-> h[x].req, who |-> h[x].who,
                     key |-> k, plain |-> keys[k].plain]
    <2>2. k \in Keys /\ keys[k] # Absent /\ keys[k] \in KeyRows /\ keys[k].plain # keys[k].cipher
        BY Zenon DEF IdpInv, IdpTypeOK
    <2>3. h[x].pc = "key" /\ h[x] \in HandlerStates /\ h[x].who \in Identities
        BY Zenon DEF GetActive, IdpInv, IdpTypeOK, HandlerStates, ProgressInv
    <2>4. s \in HandlerStates
        BY Zenon, <2>2, <2>3 DEF HandlerStates, IdpPcs, KeyRows
    <2>5. h' = [h EXCEPT ![x] = s] /\ Active(x) /\ UNCHANGED <<stores, responses, unusable, faults>>
        BY Zenon, <2>1, <2>3 DEF GetActive, Go, Active
    <2>6. ~keys[k].plain => keys[k].cipher
        BY Zenon, <2>2 DEF KeyRows
    <2>7. /\ s.pc = "decrypt" /\ s.req = h[x].req /\ s.who = h[x].who
          /\ s.key = k /\ s.plain = keys[k].plain
        BY Zenon
    <2> HIDE DEF s
    <2> QED BY Zenon, <2>2, <2>3, <2>4, <2>5, <2>6, <2>7, MoveStep
<1> QED BY Zenon, <1>1, <1>2

\* The row's private key is decrypted.
LEMMA DecryptStep ==
    ASSUME IdpInv, NEW x \in Handlers, DecryptRow(x)
    PROVE  IdpInv'
<1>1. /\ h[x].pc = "decrypt" /\ h[x] \in HandlerStates /\ Active(x)
      /\ h[x].who \in Identities /\ h[x].key \in Keys /\ keys[h[x].key] # Absent
    BY Zenon DEF DecryptRow, IdpInv, IdpTypeOK, HandlerStates, ProgressInv, Active
<1>2. ~h[x].plain => CipherOf(x)
    BY Zenon, <1>1 DEF IdpInv, KeyInv, CipherOf
<1>3. CipherOf(x) \in BOOLEAN /\ h[x].plain \in BOOLEAN
    BY Zenon, <1>1 DEF IdpInv, IdpTypeOK, KeyRows, CipherOf, HandlerStates
<1>4. unusable = FALSE
    BY Zenon DEF IdpInv, KeyInv, IdpTypeOK
<1>5. CASE x \notin Keyed
    <2>1. Fail(x) /\ UNCHANGED <<stores, responses, unusable, faults>>
        BY Zenon, <1>4, <1>5 DEF DecryptRow
    <2> QED BY Zenon, <2>1, FailStep
<1>6. CASE x \in Keyed
    <2> DEFINE next == IF CipherOf(x) THEN "nameid" ELSE "migrate"
               s == [h[x] EXCEPT !.pc = next]
    <2>1. /\ h' = [h EXCEPT ![x] = s]
          /\ unusable' = unusable
        BY Zenon, <1>2, <1>3, <1>4, <1>6 DEF DecryptRow, Go
    <2>2. UNCHANGED <<stores, responses, unusable, faults>>
        BY Zenon, <2>1 DEF DecryptRow
    <2>3. next \in {"nameid", "migrate"}
        BY Zenon
    <2> HIDE DEF next
    <2>4. s \in HandlerStates
        BY Zenon, <1>1, <2>3 DEF HandlerStates, IdpPcs
    <2>5. s.pc = next /\ s.req = h[x].req /\ s.who = h[x].who /\ s.key = h[x].key
        BY Zenon, <1>1 DEF HandlerStates
    <2> HIDE DEF s
    <2> QED BY Zenon, <1>1, <1>6, <2>1, <2>2, <2>3, <2>4, <2>5, MoveStep
<1> QED BY Zenon, <1>5, <1>6

\* The key moves to encrypted storage while other handlers hold what they read.
LEMMA MigrateStep ==
    ASSUME IdpInv, NEW x \in Handlers, MigrateKey(x)
    PROVE  IdpInv'
<1> DEFINE s == [h[x] EXCEPT !.pc = "nameid"]
           k == h[x].key
           new == [plain |-> FALSE, cipher |-> TRUE]
<1>1. /\ h[x].pc = "migrate" /\ h[x] \in HandlerStates /\ Active(x)
      /\ h[x].who \in Identities /\ k \in Keys /\ keys[k] # Absent /\ h[x].req \in AuthnRequests
    BY Zenon DEF MigrateKey, IdpInv, IdpTypeOK, HandlerStates, ProgressInv, Active
<1>2. /\ keys' = [keys EXCEPT ![k] = new] /\ h' = [h EXCEPT ![x] = s]
      /\ UNCHANGED <<inbound, nameids, session, responses, unusable, faults>>
    BY Zenon DEF MigrateKey, Migrated, Go
<1>3. s \in HandlerStates /\ s.pc = "nameid" /\ s.req = h[x].req /\ s.who = h[x].who /\ s.key = k
    BY Zenon, <1>1 DEF HandlerStates, IdpPcs
<1> HIDE DEF s
<1>4. /\ h' \in [Handlers -> HandlerStates] /\ h'[x] = s
      /\ \A y \in Handlers : y # x => h'[y] = h[y]
    BY Zenon, <1>2, <1>3, HandlerType DEF IdpInv
<1>5. new \in KeyRows /\ new.cipher /\ ~new.plain
    BY Zenon DEF KeyRows
<1>6. /\ keys' \in [Keys -> KeyRows \cup {Absent}] /\ keys'[k] = new
      /\ \A j \in Keys : j # k => keys'[j] = keys[j]
    BY Zenon, <1>1, <1>2, <1>5 DEF IdpInv, IdpTypeOK
<1> HIDE DEF new
<1>7. new # Absent
    BY Zenon, SamlIdpAssumption, <1>5 DEF KeyRows
<1>8. IdpTypeOK'
    <2>1. \A j \in Keys : keys'[j] # Absent => keys'[j].plain # keys'[j].cipher
        BY Zenon, <1>5, <1>6 DEF IdpInv, IdpTypeOK, KeyRows
    <2> QED BY Zenon, <1>2, <1>4, <1>6, <2>1 DEF IdpInv, IdpTypeOK, HandlerStates
<1>9. ProgressInv'
    BY <1>1, <1>2, <1>3, <1>4, <1>6, <1>7 DEF IdpInv, ProgressInv
<1>10. KeyInv'
    BY Zenon, <1>2, <1>3, <1>4, <1>5, <1>6 DEF IdpInv, KeyInv, ProgressInv
<1>11. OnceInv'
    BY <1>1, <1>2, <1>3, <1>4 DEF IdpInv, OnceInv, Active
<1>12. AnsweredOnce' /\ NameInv'
    BY Zenon, <1>2 DEF IdpInv, AnsweredOnce, NameInv
<1> QED BY Zenon, <1>8, <1>9, <1>10, <1>11, <1>12 DEF IdpInv

\* A stored NameID is used as it is.
LEMMA NameIdStoredStep ==
    ASSUME IdpInv, NEW x \in Handlers, NameIdStored(x)
    PROVE  IdpInv'
<1> DEFINE p == <<SpOf[h[x].req], h[x].who>>
<1>1. h[x].pc = "nameid" /\ h[x].req \in AuthnRequests /\ h[x].who \in Identities
    BY Zenon DEF NameIdStored, IdpInv, ProgressInv
<1>2. SpOf[h[x].req] \in Sps
    BY Zenon, <1>1, SamlIdpAssumption
<1>3. p \in Pairs
    BY Zenon, <1>1, <1>2 DEF Pairs
<1>4. nameids[p] \in {Absent, p}
    BY Zenon, <1>3 DEF IdpInv, NameInv
<1>5. Computed(p[1], p[2]) = p
    BY Zenon DEF Computed
<1>6. /\ nameids' = [nameids EXCEPT ![p] = p] /\ Respond(x, p)
      /\ UNCHANGED <<inbound, keys, session, unusable, faults>>
    BY Zenon, <1>4, <1>5 DEF NameIdStored
<1>7. nameids' \in [Pairs -> Pairs \cup {Absent}]
    BY Zenon, <1>3, <1>6 DEF IdpInv, IdpTypeOK
<1>8. \A r \in Pairs : nameids'[r] \in {Absent, r}
    BY Zenon, <1>3, <1>6 DEF IdpInv, IdpTypeOK, NameInv
<1>9. faults' \in 0..MaxFaults
    BY Zenon, <1>6 DEF IdpInv, IdpTypeOK
<1> QED BY Zenon, <1>1, <1>6, <1>7, <1>8, <1>9, RespondStep

\* resolve_pairwise_name_id computes the NameID when the store fails.
LEMMA NameIdComputedStep ==
    ASSUME IdpInv, NEW x \in Handlers, NameIdComputed(x)
    PROVE  IdpInv'
<1>1. /\ h[x].pc = "nameid" /\ Respond(x, <<SpOf[h[x].req], h[x].who>>)
      /\ UNCHANGED <<inbound, nameids, keys, session, unusable>>
    BY Zenon DEF NameIdComputed, Fallback, Computed, stores
<1>2. faults' \in 0..MaxFaults
    BY SamlIdpAssumption DEF NameIdComputed, IdpInv, IdpTypeOK
<1>3. nameids' \in [Pairs -> Pairs \cup {Absent}] /\ \A p \in Pairs : nameids'[p] \in {Absent, p}
    BY Zenon, <1>1 DEF IdpInv, IdpTypeOK, NameInv
<1> QED BY Zenon, <1>1, <1>2, <1>3, RespondStep

\* The invariant is inductive.
LEMMA IdpStepInv == IdpInv /\ [IdpNext]_idpVars => IdpInv'
<1> SUFFICES ASSUME IdpInv, [IdpNext]_idpVars PROVE IdpInv'
    BY Zenon
<1>1. CASE SessionChanges
    BY Zenon, <1>1, SessionStep
<1>2. ASSUME NEW k \in Keys, NEW keyed \in BOOLEAN, StoreKey(k, keyed) PROVE IdpInv'
    BY Zenon, <1>2, StoreKeyStep
<1>3. ASSUME NEW x \in Handlers, NEW q \in AuthnRequests, Sso(x, q) PROVE IdpInv'
    BY Zenon, <1>3, SsoStep
<1>4. ASSUME NEW x \in Handlers, CreateInbound(x) \/ Whoami(x) \/ GetActive(x) PROVE IdpInv'
    BY Zenon, <1>4, CreateInboundStep, WhoamiStep, GetActiveStep
<1>5. ASSUME NEW x \in Handlers, DecryptRow(x) \/ MigrateKey(x) PROVE IdpInv'
    BY Zenon, <1>5, DecryptStep, MigrateStep
<1>6. ASSUME NEW x \in Handlers, NameIdStored(x) \/ NameIdComputed(x) PROVE IdpInv'
    BY Zenon, <1>6, NameIdStoredStep, NameIdComputedStep
<1>7. CASE UNCHANGED idpVars
    <2> USE <1>7 DEF idpVars, stores
    <2>1. IdpTypeOK'
        BY Zenon DEF IdpInv, IdpTypeOK
    <2>2. ProgressInv' /\ OnceInv' /\ AnsweredOnce' /\ NameInv' /\ KeyInv'
        BY Zenon DEF IdpInv, ProgressInv, OnceInv, Active, AnsweredOnce, NameInv, KeyInv
    <2> QED BY Zenon, <2>1, <2>2 DEF IdpInv
<1> QED BY Zenon, <1>1, <1>2, <1>3, <1>4, <1>5, <1>6, <1>7 DEF IdpNext

\* An AuthnRequest is answered at most once.
THEOREM AnswersOnce == IdpSpec => []AnsweredOnce
<1>1. IdpInv => AnsweredOnce
    BY Zenon DEF IdpInv
<1> QED BY <1>1, IdpInitInv, IdpStepInv, PTL DEF IdpSpec

\* An SP knows an identity by one NameID, and no two by the same.
THEOREM NameIdsStable == IdpSpec => []NameIdStable
<1>1. IdpInv => NameIdStable
    <2> SUFFICES ASSUME IdpInv, NEW a \in responses, NEW b \in responses,
                        SpOf[a.req] = SpOf[b.req]
                 PROVE  a.who = b.who <=> a.name = b.name
        BY Zenon DEF NameIdStable
    <2>1. a.name = <<SpOf[a.req], a.who>> /\ b.name = <<SpOf[b.req], b.who>>
        BY Zenon DEF IdpInv, NameInv
    <2> QED BY <2>1
<1> QED BY <1>1, IdpInitInv, IdpStepInv, PTL DEF IdpSpec

\* A replica with the encryption key never meets a key it cannot use.
THEOREM KeysUsable == IdpSpec => []KeyAlwaysUsable
<1>1. IdpInv => KeyAlwaysUsable
    BY Zenon DEF IdpInv, KeyInv, KeyAlwaysUsable
<1> QED BY <1>1, IdpInitInv, IdpStepInv, PTL DEF IdpSpec
=============================================================================
