------------------------- MODULE AgentTokens_proofs -------------------------
(***************************************************************************)
(* Proofs about AgentTokens, for every set of agents, delegations, tokens, *)
(* replicas and concurrent calls.  Grow says that delegations only go from *)
(* good to dead and that tokens keep what they were minted with; a call in *)
(* flight keeps its part of Inv under Grow, and each action re-establishes *)
(* the parts it touches.                                                   *)
(***************************************************************************)
EXTENDS AgentTokens, TLAPS

Grow ==
    /\ \A d \in Delegations :
          grants[d] # NoGrant =>
              /\ grants'[d] # NoGrant
              /\ grants'[d].exp = grants[d].exp
              /\ Dead(d) => Dead(d)'
    /\ \A t \in Tokens :
          tokens[t] # NoToken =>
              /\ tokens'[t] # NoToken
              /\ tokens'[t].delegation = tokens[t].delegation
              /\ tokens'[t].exp = tokens[t].exp

-----------------------------------------------------------------------------
(* What the type invariant says of rows and of calls in flight.            *)

\* A token that was minted names a delegation and an expiry.
LEMMA TokenKnown ==
    ASSUME TypeOK, NEW t \in Tokens, tokens[t] # NoToken
    PROVE  /\ tokens[t].state \in {"minted", "gone"}
           /\ DelegationOf(t) \in Delegations
           /\ tokens[t].exp \in Time
BY Zenon DEF TypeOK, TokenType, DelegationOf

\* A delegation that was created names its agent and an expiry.
LEMMA GrantKnown ==
    ASSUME TypeOK, NEW d \in Delegations, grants[d] # NoGrant
    PROVE  /\ grants[d].state \in {"live", "revoked", "gone"}
           /\ grants[d].agent \in Agents
           /\ grants[d].exp \in Time
BY Zenon DEF TypeOK, GrantType

\* A delegation that ended had been created.
LEMMA DeadIsKnown ==
    ASSUME NEW d \in Delegations, Dead(d)
    PROVE  grants[d] # NoGrant
BY DEF Dead, NoGrant

\* A lookup under way knows its replica, its token and when it read.
LEMMA ReadActive ==
    ASSUME TypeOK, NEW q \in Reads, read[q].pc # "idle"
    PROVE  /\ read[q].replica \in Replicas
           /\ read[q].token \in Tokens
           /\ read[q].at \in Time
           /\ read[q].val \in {"neg", "pos"}
           /\ read[q].live \in BOOLEAN
BY DEF TypeOK, ReadType, IdleRead

\* A write under way knows its replica and what it ends or enables.
LEMMA WriteActive ==
    ASSUME TypeOK, NEW w \in Writes, write[w].pc # "idle"
    PROVE  /\ write[w].replica \in Replicas
           /\ \/ write[w].id \in Delegations /\ write[w].status = "revoked"
              \/ write[w].id \in Agents /\ write[w].status \in Statuses
BY DEF TypeOK, WriteType, IdleWrite

\* A mint under way knows its agent and its delegation.
LEMMA MintActive ==
    ASSUME TypeOK, NEW m \in Mints, mint[m].pc # "idle"
    PROVE  /\ mint[m].agent \in Agents
           /\ mint[m].delegation \in Delegations
           /\ mint[m].exp \in Time
BY DEF TypeOK, MintType, IdleMint

-----------------------------------------------------------------------------
(* What survives a step of somebody else.                                  *)

\* What ties a token to its delegation survives the steps of others.
LEMMA TokenStable ==
    ASSUME TypeOK, Grow, NEW t \in Tokens, TokenInv(t), tokens[t] # NoToken
    PROVE  TokenInv(t)'
<1>1. DelegationOf(t) \in Delegations
  BY Zenon, TokenKnown
<1> QED BY Zenon, <1>1 DEF Grow, TokenInv, DelegationOf

\* A mint between its read and its insert survives the steps of others.
LEMMA MintStable ==
    ASSUME TypeOK, Grow, NEW m \in Mints, MintInv(m), mint'[m] = mint[m]
    PROVE  MintInv(m)'
<1>1. mint[m].pc = "insert" => mint[m].delegation \in Delegations
  BY Zenon, MintActive
<1> QED BY Zenon, <1>1 DEF Grow, MintInv

\* A lookup between two awaited calls survives the steps of others.
LEMMA ReadStable ==
    ASSUME TypeOK, Grow, NEW q \in Reads, ReadInv(q), read'[q] = read[q]
    PROVE  ReadInv(q)'
<1>1. CASE read[q].pc = "idle"
  BY Zenon, <1>1 DEF ReadInv
<1>2. CASE read[q].pc # "idle"
  <2> DEFINE t == read[q].token
  <2>1. t \in Tokens /\ tokens[t] # NoToken
    BY Zenon, <1>2, ReadActive DEF ReadInv
  <2>2. DelegationOf(t) \in Delegations
    BY Zenon, <2>1, TokenKnown
  <2>3. tokens'[t] # NoToken /\ tokens'[t].delegation = tokens[t].delegation
    BY Zenon, <2>1 DEF Grow
  <2>4. ~read[q].live => Dead(DelegationOf(t))
    BY Zenon, <1>2 DEF ReadInv
  <2>5. Dead(DelegationOf(t)) => grants'[DelegationOf(t)].state \in {"revoked", "gone"}
    BY Zenon, <2>2, DeadIsKnown DEF Grow, Dead
  <2> QED BY Zenon, <1>2, <2>3, <2>4, <2>5 DEF ReadInv, Dead, DelegationOf
<1> QED BY Zenon, <1>1, <1>2

\* A replica's cached answers stay justified while only rows change.
LEMMA CacheStable ==
    ASSUME TypeOK, Grow, NEW r \in Replicas, CacheInv(r),
           UNCHANGED <<cache, applied, racers>>
    PROVE  CacheInv(r)'
<1>1. \A t \in Tokens : cache[r][t] = "pos" =>
          tokens'[t] # NoToken /\ tokens'[t].delegation = tokens[t].delegation
  BY Zenon DEF CacheInv, Grow
<1>2. \A d \in Delegations : <<r, d>> \in applied => Dead(d)'
  BY Zenon, DeadIsKnown DEF CacheInv, Grow
<1> QED BY Zenon, <1>1, <1>2 DEF CacheInv, DelegationOf

\* A step that leaves the caches alone needs its own parts shown only.
LEMMA Combine ==
    ASSUME Inv, TypeOK', Grow,
           \A t \in Tokens : tokens[t] # NoToken \/ tokens'[t] = NoToken \/ TokenInv(t)',
           \A m \in Mints : mint'[m] = mint[m] \/ MintInv(m)',
           \A q \in Reads : read'[q] = read[q] \/ ReadInv(q)',
           UNCHANGED <<cache, applied, racers>> \/ \A r \in Replicas : CacheInv(r)'
    PROVE  Inv'
<1>1. \A t \in Tokens : TokenInv(t)'
  <2> TAKE t \in Tokens
  <2>1. tokens'[t] = NoToken => TokenInv(t)'
    BY Zenon DEF TokenInv
  <2> QED BY Zenon, <2>1, TokenStable DEF Inv
<1>2. \A m \in Mints : MintInv(m)'
  BY Zenon, MintStable DEF Inv
<1>3. \A q \in Reads : ReadInv(q)'
  BY Zenon, ReadStable DEF Inv
<1>4. \A r \in Replicas : CacheInv(r)'
  BY Zenon, CacheStable DEF Inv
<1> QED BY Zenon, <1>1, <1>2, <1>3, <1>4 DEF Inv

\* A step that touches no row grows the rows trivially.
LEMMA QuietGrow ==
    ASSUME UNCHANGED dbVars
    PROVE  Grow
BY Zenon DEF Grow, dbVars, Dead

\* A step that leaves the tables alone.
LEMMA QuietCombine ==
    ASSUME Inv, TypeOK', UNCHANGED dbVars,
           \A m \in Mints : mint'[m] = mint[m] \/ MintInv(m)',
           \A q \in Reads : read'[q] = read[q] \/ ReadInv(q)',
           UNCHANGED <<cache, applied, racers>> \/ \A r \in Replicas : CacheInv(r)'
    PROVE  Inv'
<1>1. \A t \in Tokens : tokens[t] # NoToken \/ tokens'[t] = NoToken \/ TokenInv(t)'
  BY Zenon DEF dbVars
<1> QED BY Zenon, <1>1, QuietGrow, Combine

-----------------------------------------------------------------------------
(* Delegations and minting.                                                *)

\* create_agent_delegation: a new row, which no token has yet.
LEMMA CreateDelegationStep ==
    ASSUME Inv, NEW d \in Delegations, NEW a \in Agents, NEW exp \in Time,
           CreateAgentDelegation(d, a, exp)
    PROVE  Inv'
<1> DEFINE new == [state |-> "live", agent |-> a, exp |-> exp]
<1>1. /\ TypeOK /\ grants[d] = NoGrant
      /\ grants' = [grants EXCEPT ![d] = new]
      /\ UNCHANGED <<now, status, tokens, cache, scache, applied, racers, inbox, read,
                     peek, write, mint>>
  BY Zenon DEF Inv, CreateAgentDelegation, cacheVars
<1>2. new \in GrantType
  BY Zenon DEF GrantType
<1> HIDE DEF new
<1>3. TypeOK'
  BY Zenon, <1>1, <1>2 DEF TypeOK
<1>4. Grow
  BY Zenon, <1>1 DEF Grow, TypeOK, Dead
<1> QED BY Zenon, <1>1, <1>3, <1>4, Combine

\* The reads of mint_agent_token, and its failure.
LEMMA MintReadStep ==
    ASSUME Inv, NEW m \in Mints,
           \/ \E a \in Agents, d \in Delegations : MintBegin(m, a, d)
           \/ MintDelegation(m)
           \/ MintFails(m)
    PROVE  Inv'
<1>1. TypeOK /\ UNCHANGED <<tokens, OtherThanMint>> /\ UNCHANGED dbVars
  BY Zenon DEF Inv, MintBegin, MintDelegation, MintFails, OtherThanMint, dbVars
<1>2. PICK x \in MintType :
          /\ mint' = [mint EXCEPT ![m] = x]
          /\ x.pc = "insert" =>
                grants[x.delegation] # NoGrant /\ x.exp = grants[x.delegation].exp
  <2>1. CASE \E a \in Agents, d \in Delegations : MintBegin(m, a, d)
    <3>1. PICK a \in Agents, d \in Delegations : MintBegin(m, a, d)
      BY Zenon, <2>1
    <3> DEFINE y == [pc |-> "delegation", agent |-> a, delegation |-> d, exp |-> 0]
    <3>2. y \in MintType /\ y.pc = "delegation"
      BY TokensAssumption DEF MintType, Time
    <3>3. mint' = [mint EXCEPT ![m] = y]
      BY Zenon, <3>1 DEF MintBegin
    <3> QED BY Zenon, <3>2, <3>3
  <2>2. CASE MintDelegation(m)
    <3> DEFINE d == mint[m].delegation
               y == [pc |-> "insert", agent |-> mint[m].agent, delegation |-> d,
                     exp |-> grants[d].exp]
    <3>1. /\ mint[m].pc = "delegation" /\ grants[d].state = "live"
          /\ mint' = [mint EXCEPT ![m] = y]
      BY Zenon, <2>2 DEF MintDelegation
    <3>2. d \in Delegations /\ mint[m].agent \in Agents
      BY Zenon, <1>1, <3>1, MintActive
    <3>3. grants[d] # NoGrant
      BY <3>1 DEF NoGrant
    <3>4. y \in MintType
      BY Zenon, <1>1, <3>2, <3>3, GrantKnown DEF MintType
    <3> QED BY Zenon, <3>1, <3>3, <3>4
  <2>3. CASE MintFails(m)
    <3>1. IdleMint \in MintType /\ IdleMint.pc = "idle"
      BY Zenon DEF MintType, IdleMint
    <3>2. mint' = [mint EXCEPT ![m] = IdleMint]
      BY Zenon, <2>3 DEF MintFails
    <3> QED BY Zenon, <3>1, <3>2
  <2> QED BY Zenon, <2>1, <2>2, <2>3
<1>3. /\ mint' \in [Mints -> MintType]
      /\ \A n \in Mints : n # m => mint'[n] = mint[n]
      /\ mint'[m] = x
  BY Zenon, <1>1, <1>2 DEF TypeOK
<1>4. TypeOK'
  BY Zenon, <1>1, <1>3 DEF TypeOK, OtherThanMint, cacheVars
<1>5. MintInv(m)'
  BY Zenon, <1>1, <1>2, <1>3 DEF MintInv, OtherThanMint
<1> QED BY Zenon, <1>1, <1>3, <1>4, <1>5, QuietCombine DEF OtherThanMint, cacheVars

\* The insert of mint_agent_token: the token expires with its delegation.
LEMMA MintInsertStep ==
    ASSUME Inv, NEW m \in Mints, NEW t \in Tokens, MintInsert(m, t)
    PROVE  Inv'
<1> DEFINE d == mint[m].delegation
           exp == Least(now + TokenTtl, mint[m].exp)
           new == [state |-> "minted", delegation |-> d, exp |-> exp]
<1>1. /\ TypeOK /\ MintInv(m) /\ mint[m].pc = "insert" /\ tokens[t] = NoToken
      /\ tokens' = [tokens EXCEPT ![t] = new]
      /\ mint' = [mint EXCEPT ![m] = IdleMint]
      /\ UNCHANGED OtherThanMint
  BY Zenon DEF Inv, MintInsert
<1>2. d \in Delegations /\ mint[m].exp \in Time /\ now \in Time
  BY Zenon, <1>1, MintActive DEF TypeOK
<1>3. exp \in Time /\ exp <= mint[m].exp
  BY <1>2, TokensAssumption DEF Least, Time
<1>4. grants[d] # NoGrant /\ mint[m].exp = grants[d].exp
  BY Zenon, <1>1 DEF MintInv
<1>5. /\ new \in TokenType /\ new.delegation = d /\ new.exp = exp
      /\ new # NoToken
  BY Zenon, <1>2, <1>3 DEF TokenType, NoToken
<1> HIDE DEF new
<1>6. /\ tokens' \in [Tokens -> TokenType]
      /\ \A u \in Tokens : u # t => tokens'[u] = tokens[u]
      /\ tokens'[t] = new
  BY Zenon, <1>1, <1>5 DEF TypeOK
<1>7. /\ mint' \in [Mints -> MintType]
      /\ \A n \in Mints : n # m => mint'[n] = mint[n]
      /\ MintInv(m)'
  BY Zenon, <1>1 DEF TypeOK, MintType, MintInv, IdleMint
<1>8. TypeOK'
  BY Zenon, <1>1, <1>6, <1>7 DEF TypeOK, OtherThanMint, cacheVars
<1>9. Grow
  BY Zenon, <1>1, <1>6 DEF Grow, OtherThanMint, Dead
<1>10. TokenInv(t)'
  BY Zenon, <1>1, <1>3, <1>4, <1>5, <1>6 DEF TokenInv, DelegationOf, OtherThanMint
<1>11. \A u \in Tokens : tokens[u] # NoToken \/ tokens'[u] = NoToken \/ TokenInv(u)'
  BY Zenon, <1>6, <1>10
<1>12. UNCHANGED <<cache, applied, racers, read>>
  BY Zenon, <1>1 DEF OtherThanMint, cacheVars
<1> QED BY Zenon, <1>7, <1>8, <1>9, <1>11, <1>12, Combine

-----------------------------------------------------------------------------
(* Lookups.                                                                *)

\* The record of a lookup at rest.
LEMMA IdleReadFacts ==
    IdleRead \in ReadType /\ IdleRead.pc = "idle"
BY Zenon DEF ReadType, IdleRead

\* A step of one lookup before it fills the cache.
LEMMA ReadMoves ==
    ASSUME Inv, NEW q \in Reads, NEW x \in ReadType,
           read' = [read EXCEPT ![q] = x],
           UNCHANGED <<cache, racers, OtherThanRead>>,
           x.pc # "idle" =>
               /\ x.token \in Tokens /\ tokens[x.token] # NoToken
               /\ ~x.live => Dead(DelegationOf(x.token))
               /\ x.pc = "status" \/ x.val = "pos" => x.live
    PROVE  Inv'
<1>1. TypeOK /\ UNCHANGED dbVars
  BY Zenon DEF Inv, OtherThanRead
<1>2. /\ read' \in [Reads -> ReadType]
      /\ \A p \in Reads : p # q => read'[p] = read[p]
      /\ read'[q] = x
  BY Zenon, <1>1 DEF TypeOK
<1>3. TypeOK'
  BY Zenon, <1>1, <1>2 DEF TypeOK, OtherThanRead, dbVars
<1>4. ReadInv(q)'
  BY Zenon, <1>1, <1>2 DEF ReadInv, Dead, DelegationOf, dbVars
<1> QED BY Zenon, <1>1, <1>2, <1>3, <1>4, QuietCombine DEF OtherThanRead

\* What a lookup's move to its next call changes.
LEMMA SetReadEffect ==
    ASSUME TypeOK, NEW q \in Reads, read[q].pc # "idle",
           NEW pc \in {"row", "delegation", "status", "insert"}, NEW at \in Time,
           NEW val \in {"neg", "pos"}, SetRead(q, pc, at, val)
    PROVE  \E x \in ReadType :
              /\ read' = [read EXCEPT ![q] = x]
              /\ x.pc = pc /\ x.val = val
              /\ x.token = read[q].token /\ x.live = read[q].live
<1> DEFINE x == [pc |-> pc, replica |-> read[q].replica, token |-> read[q].token,
                 at |-> at, val |-> val, live |-> read[q].live]
<1>1. x \in ReadType
  BY Zenon, ReadActive DEF ReadType
<1>2. read' = [read EXCEPT ![q] = x]
  BY Zenon DEF SetRead
<1> QED BY Zenon, <1>1, <1>2

\* A miss in the token cache starts a lookup.
LEMMA ResolveMissStep ==
    ASSUME Inv, NEW q \in Reads, NEW r \in Replicas, NEW t \in Tokens, ResolveMiss(q, r, t)
    PROVE  Inv'
<1> DEFINE x == [pc |-> "row", replica |-> r, token |-> t, at |-> 0, val |-> "neg",
                 live |-> ~Dead(DelegationOf(t))]
<1>1. x \in ReadType
  BY TokensAssumption DEF ReadType, Time
<1>2. /\ read' = [read EXCEPT ![q] = x] /\ tokens[t] # NoToken
      /\ UNCHANGED <<cache, racers, OtherThanRead>>
  BY Zenon DEF ResolveMiss
<1>3. ~x.live => Dead(DelegationOf(t))
  BY Zenon
<1>4. x.token = t /\ x.pc = "row" /\ x.val = "neg"
  BY Zenon
<1> HIDE DEF x
<1> QED BY Zenon, <1>1, <1>2, <1>3, <1>4, ReadMoves

\* A step to `pc` with `val`: going positive, or on to the status check, needs
\* a lookup that began while the delegation was good.
LEMMA ResolveGoto ==
    ASSUME Inv, NEW q \in Reads, read[q].pc # "idle",
           NEW pc \in {"row", "delegation", "status", "insert"}, NEW at \in Time,
           NEW val \in {"neg", "pos"}, SetRead(q, pc, at, val),
           UNCHANGED <<cache, racers, OtherThanRead>>,
           pc = "status" \/ val = "pos" => read[q].live
    PROVE  Inv'
<1>1. TypeOK /\ ReadInv(q)
  BY Zenon DEF Inv
<1>2. PICK x \in ReadType :
          /\ read' = [read EXCEPT ![q] = x]
          /\ x.pc = pc /\ x.val = val
          /\ x.token = read[q].token /\ x.live = read[q].live
  BY <1>1, SetReadEffect
<1>3. x.token \in Tokens
  BY Zenon, <1>1, <1>2, ReadActive
<1> QED BY Zenon, <1>1, <1>2, <1>3, ReadMoves DEF ReadInv

\* The token row is read, or the lookup answers negatively.
LEMMA ResolveRowStep ==
    ASSUME Inv, NEW q \in Reads, ResolveRow(q)
    PROVE  Inv'
<1>1. now \in Time /\ read[q].pc = "row"
  BY Zenon DEF Inv, TypeOK, ResolveRow
<1>2. PICK pc \in {"delegation", "insert"} : SetRead(q, pc, now, "neg")
  BY Zenon DEF ResolveRow
<1> QED BY Zenon, <1>1, <1>2, ResolveGoto DEF ResolveRow

\* The delegation is read and judged.
LEMMA ResolveDelegationStep ==
    ASSUME Inv, NEW q \in Reads, ResolveDelegation(q)
    PROVE  Inv'
<1> DEFINE d == DelegationOf(read[q].token)
<1>1. /\ TypeOK /\ ReadInv(q) /\ read[q].pc = "delegation"
      /\ read[q].at \in Time /\ read[q].live \in BOOLEAN
      /\ UNCHANGED <<cache, racers, OtherThanRead>>
  BY Zenon, ReadActive DEF Inv, ResolveDelegation
<1>2. CASE SetRead(q, "insert", read[q].at, "neg")
  BY Zenon, <1>1, <1>2, ResolveGoto
<1>3. CASE SetRead(q, "status", read[q].at, "neg") /\ grants[d].state = "live"
  <2>1. ~Dead(d)
    BY Zenon, <1>3 DEF Dead
  <2>2. read[q].live
    BY Zenon, <1>1, <2>1 DEF ReadInv
  <2> QED BY Zenon, <1>1, <1>3, <2>2, ResolveGoto
<1> QED BY Zenon, <1>2, <1>3 DEF ResolveDelegation

\* The agent's status is judged.
LEMMA ResolveStatusStep ==
    ASSUME Inv, NEW q \in Reads, ResolveStatus(q)
    PROVE  Inv'
<1>1. /\ TypeOK /\ ReadInv(q) /\ read[q].pc = "status"
      /\ read[q].at \in Time
      /\ UNCHANGED <<cache, racers, OtherThanRead>>
  BY Zenon, ReadActive DEF Inv, ResolveStatus
<1>2. read[q].live
  BY Zenon, <1>1 DEF ReadInv
<1>3. PICK val \in {"neg", "pos"} : SetRead(q, "insert", read[q].at, val)
  BY Zenon DEF ResolveStatus
<1> QED BY Zenon, <1>1, <1>2, <1>3, ResolveGoto

\* The answer enters the cache, perhaps after it was overtaken: a racer.
LEMMA ResolveInsertStep ==
    ASSUME Inv, NEW q \in Reads, ResolveInsert(q)
    PROVE  Inv'
<1> DEFINE r == read[q].replica
           t == read[q].token
           v == read[q].val
<1>1. /\ TypeOK /\ ReadInv(q) /\ read[q].pc = "insert"
      /\ r \in Replicas /\ t \in Tokens /\ v \in {"neg", "pos"}
      /\ cache' = [cache EXCEPT ![r] = [cache[r] EXCEPT ![t] = v]]
      /\ read' = [read EXCEPT ![q] = IdleRead]
      /\ UNCHANGED OtherThanRead
  BY Zenon, ReadActive DEF Inv, ResolveInsert
<1>2. /\ v = "pos" /\ Dead(DelegationOf(t)) => racers' = racers \cup {<<r, t>>}
      /\ ~(v = "pos" /\ Dead(DelegationOf(t))) => racers' = racers \ {<<r, t>>}
  BY Zenon DEF ResolveInsert
<1>3. tokens[t] # NoToken /\ DelegationOf(t) \in Delegations
  BY Zenon, <1>1, TokenKnown DEF ReadInv
<1>4. /\ cache' \in [Replicas -> [Tokens -> {"miss", "neg", "pos"}]]
      /\ cache'[r][t] = v
      /\ \A s \in Replicas, u \in Tokens :
            s # r \/ u # t => cache'[s][u] = cache[s][u]
  BY Zenon, <1>1 DEF TypeOK
<1>5. /\ read' \in [Reads -> ReadType]
      /\ \A p \in Reads : p # q => read'[p] = read[p]
      /\ ReadInv(q)'
  BY Zenon, <1>1, IdleReadFacts DEF TypeOK, ReadInv
<1>6. /\ racers' \subseteq Replicas \X Tokens
      /\ \A s \in Replicas, u \in Tokens :
            (s # r \/ u # t) /\ <<s, u>> \in racers => <<s, u>> \in racers'
  BY <1>1, <1>2 DEF TypeOK
<1>7. TypeOK'
  BY Zenon, <1>1, <1>4, <1>5, <1>6 DEF TypeOK, OtherThanRead, dbVars
<1>8. UNCHANGED <<dbVars, applied, mint>> /\ UNCHANGED <<tokens, grants>>
  BY Zenon, <1>1 DEF OtherThanRead, dbVars
<1>9. ASSUME NEW s \in Replicas PROVE CacheInv(s)'
  <2>1. CacheInv(s)
    BY Zenon DEF Inv
  <2>2. \A u \in Tokens : cache'[s][u] = "pos" => tokens'[u] # NoToken
    BY Zenon, <1>3, <1>4, <1>8, <2>1 DEF CacheInv
  <2>3. \A d \in Delegations : <<s, d>> \in applied' => Dead(d)'
    BY Zenon, <1>8, <2>1 DEF CacheInv, Dead
  <2>4. ASSUME NEW u \in Tokens, cache'[s][u] = "pos", <<s, tokens[u].delegation>> \in applied
        PROVE  <<s, u>> \in racers'
    <3>1. CASE s = r /\ u = t
      <4>1. v = "pos" /\ Dead(DelegationOf(t))
        BY Zenon, <1>3, <1>4, <2>1, <2>4, <3>1 DEF CacheInv, DelegationOf
      <4> QED BY Zenon, <1>2, <3>1, <4>1
    <3>2. CASE s # r \/ u # t
      BY Zenon, <1>4, <1>6, <2>1, <2>4, <3>2 DEF CacheInv, DelegationOf
    <3> QED BY Zenon, <3>1, <3>2
  <2> QED BY Zenon, <1>8, <2>2, <2>3, <2>4 DEF CacheInv, DelegationOf
<1> QED BY Zenon, <1>5, <1>7, <1>8, <1>9, QuietCombine

\* Every step of a lookup keeps the invariant.
LEMMA ReadSteps ==
    ASSUME Inv, NEW q \in Reads, ReadStep(q)
    PROVE  Inv'
<1>1. CASE ResolveFails(q)
  BY Zenon, <1>1, IdleReadFacts, ReadMoves DEF ResolveFails
<1> QED BY Zenon, <1>1, ResolveMissStep, ResolveRowStep, ResolveDelegationStep, ResolveStatusStep,
           ResolveInsertStep DEF ReadStep

\* So does every step of a status lookup, which touches no token.
LEMMA PeekSteps ==
    ASSUME Inv, NEW q \in Peeks, PeekStep(q)
    PROVE  Inv'
<1>1. /\ TypeOK
      /\ UNCHANGED dbVars /\ UNCHANGED <<cache, applied, racers>>
      /\ UNCHANGED <<now, inbox, read, write, mint>>
  BY Zenon DEF Inv, PeekStep, StatusMiss, StatusInsert, cacheVars
<1>2. peek' \in [Peeks -> PeekType] /\ scache' \in [Replicas -> [Agents -> Statuses \cup {"miss"}]]
  <2>1. CASE \E r \in Replicas, a \in Agents : StatusMiss(q, r, a)
    BY <1>1, <2>1 DEF TypeOK, StatusMiss, PeekType, cacheVars
  <2>2. CASE StatusInsert(q)
    BY <1>1, <2>2 DEF TypeOK, StatusInsert, PeekType, IdlePeek
  <2> QED BY Zenon, <2>1, <2>2 DEF PeekStep
<1>3. TypeOK'
  BY Zenon, <1>1, <1>2 DEF TypeOK, dbVars
<1> QED BY Zenon, <1>1, <1>3, QuietCombine

-----------------------------------------------------------------------------
(* Revocations, status changes and deletions.                              *)

\* A well-formed call replaces the one in slot w.
LEMMA WriteMoves ==
    ASSUME TypeOK, NEW w \in Writes,
           NEW r \in Replicas, NEW x, NEW s, NEW pc \in WritePcs,
           (x \in Delegations /\ s = "revoked") \/ (x \in Agents /\ s \in Statuses),
           SetWrite(w, pc, r, x, s)
    PROVE  write' \in [Writes -> WriteType]
<1> DEFINE y == [pc |-> pc, replica |-> r, id |-> x, status |-> s]
<1>1. y \in WriteType
  BY Zenon DEF WriteType
<1>2. write' = [write EXCEPT ![w] = y]
  BY Zenon DEF SetWrite
<1> HIDE DEF y
<1> QED BY Zenon, <1>1, <1>2 DEF TypeOK

\* A write's move to its next call keeps its type.
LEMMA WriteGoes ==
    ASSUME TypeOK, NEW w \in Writes, write[w].pc # "idle", NEW pc \in WritePcs,
           GotoWrite(w, pc)
    PROVE  write' \in [Writes -> WriteType]
BY Zenon, WriteActive, WriteMoves DEF GotoWrite

\* The end of a write keeps its type.
LEMMA WriteEnds ==
    ASSUME TypeOK, NEW w \in Writes, write' = [write EXCEPT ![w] = IdleWrite]
    PROVE  write' \in [Writes -> WriteType]
BY Zenon DEF TypeOK, WriteType

\* Begin, publish and fail: neither tables nor caches change.
LEMMA WriteQuietStep ==
    ASSUME Inv, NEW w \in Writes,
           \/ \E r \in Replicas, d \in Delegations : RevokeBegin(w, r, d)
           \/ \E r \in Replicas, a \in Agents, s \in {"active", "disabled"} :
                 UpdateAgentBegin(w, r, a, s)
           \/ \E r \in Replicas, a \in Agents : DeleteAgentBegin(w, r, a)
           \/ Publish(w)
           \/ WriteFails(w)
    PROVE  Inv'
<1>1. TypeOK /\ UNCHANGED <<dbVars, cacheVars, OtherThanWrite>>
  BY Zenon DEF Inv, RevokeBegin, UpdateAgentBegin, DeleteAgentBegin, Publish, WriteFails
<1>2. write' \in [Writes -> WriteType] /\ inbox' \subseteq Replicas \X (Agents \cup Delegations)
  <2>1. CASE \E r \in Replicas, d \in Delegations : RevokeBegin(w, r, d)
    BY Zenon, <1>1, <2>1, WriteMoves DEF RevokeBegin, WritePcs, TypeOK
  <2>2. CASE \E r \in Replicas, a \in Agents, s \in {"active", "disabled"} :
                 UpdateAgentBegin(w, r, a, s)
    BY Zenon, <1>1, <2>2, WriteMoves DEF UpdateAgentBegin, WritePcs, Statuses, TypeOK
  <2>3. CASE \E r \in Replicas, a \in Agents : DeleteAgentBegin(w, r, a)
    BY Zenon, <1>1, <2>3, WriteMoves DEF DeleteAgentBegin, WritePcs, Statuses, TypeOK
  <2>4. CASE Publish(w)
    <3>1. write[w].id \in Agents \cup Delegations
      BY Zenon, <1>1, <2>4, WriteActive DEF Publish
    <3>2. write' \in [Writes -> WriteType]
      BY Zenon, <1>1, <2>4, WriteEnds DEF Publish
    <3> QED BY <1>1, <2>4, <3>1, <3>2 DEF Publish, TypeOK
  <2>5. CASE WriteFails(w)
    BY Zenon, <1>1, <2>5, WriteEnds DEF WriteFails, TypeOK
  <2> QED BY Zenon, <2>1, <2>2, <2>3, <2>4, <2>5
<1>3. TypeOK'
  BY Zenon, <1>1, <1>2 DEF TypeOK, dbVars, cacheVars, OtherThanWrite
<1> QED BY Zenon, <1>1, <1>3, QuietCombine DEF cacheVars, OtherThanWrite

\* The commit of a revocation: from here on the delegation is dead.
LEMMA CommitRevokeStep ==
    ASSUME Inv, NEW w \in Writes, CommitRevoke(w)
    PROVE  Inv'
<1> DEFINE d == write[w].id
<1>1. /\ TypeOK /\ write[w].pc = "commit" /\ write[w].status = "revoked"
      /\ UNCHANGED <<status, tokens, cacheVars, inbox, OtherThanWrite>>
  BY Zenon DEF Inv, CommitRevoke
<1>2. d \in Delegations
  BY Zenon, <1>1, WriteActive DEF Statuses
<1>3. /\ write' \in [Writes -> WriteType]
      /\ grants' \in [Delegations -> GrantType]
      /\ Grow
  <2>1. CASE grants[d].state \in {"live", "revoked"}
    <3> DEFINE new == [state |-> "revoked", agent |-> grants[d].agent, exp |-> grants[d].exp]
    <3>1. grants' = [grants EXCEPT ![d] = new] /\ GotoWrite(w, "evict")
      BY Zenon, <2>1 DEF CommitRevoke
    <3>2. grants[d] # NoGrant
      BY <2>1 DEF NoGrant
    <3>3. new \in GrantType /\ new # NoGrant /\ new.exp = grants[d].exp /\ new.state = "revoked"
      BY Zenon, <1>1, <1>2, <3>2, GrantKnown DEF GrantType, NoGrant
    <3> HIDE DEF new
    <3>4. /\ grants' \in [Delegations -> GrantType]
          /\ grants'[d] = new
          /\ \A e \in Delegations : e # d => grants'[e] = grants[e]
      BY Zenon, <1>1, <1>2, <3>1, <3>3 DEF TypeOK
    <3>5. \A e \in Delegations : Dead(e) => Dead(e)'
      BY Zenon, <3>3, <3>4 DEF Dead
    <3>6. Grow
      BY Zenon, <1>1, <3>3, <3>4, <3>5 DEF Grow
    <3> QED BY Zenon, <1>1, <3>1, <3>4, <3>6, WriteGoes DEF WritePcs
  <2>2. CASE ~(grants[d].state \in {"live", "revoked"})
    <3>1. write' = [write EXCEPT ![w] = IdleWrite] /\ UNCHANGED grants
      BY Zenon, <2>2 DEF CommitRevoke
    <3> QED BY Zenon, <1>1, <3>1, WriteEnds, QuietGrow DEF TypeOK, dbVars
  <2> QED BY Zenon, <2>1, <2>2
<1>4. TypeOK'
  BY Zenon, <1>1, <1>3 DEF TypeOK, cacheVars, OtherThanWrite
<1> QED BY Zenon, <1>1, <1>3, <1>4, Combine DEF cacheVars, OtherThanWrite

\* The commit of a status change.
LEMMA CommitStatusStep ==
    ASSUME Inv, NEW w \in Writes, CommitStatus(w)
    PROVE  Inv'
<1>1. /\ TypeOK /\ write[w].pc = "commit" /\ write[w].status \in {"active", "disabled"}
      /\ UNCHANGED <<grants, tokens, cacheVars, inbox, OtherThanWrite>>
  BY Zenon DEF Inv, CommitStatus
<1>2. write' \in [Writes -> WriteType] /\ status' \in [Agents -> Statuses]
  BY Zenon, <1>1, WriteGoes, WriteEnds DEF CommitStatus, WritePcs, TypeOK, Statuses
<1>3. TypeOK'
  BY Zenon, <1>1, <1>2 DEF TypeOK, cacheVars, OtherThanWrite
<1>4. Grow
  BY Zenon, <1>1 DEF Grow, Dead
<1> QED BY Zenon, <1>1, <1>3, <1>4, Combine DEF cacheVars, OtherThanWrite

\* What deleting an agent does to its delegations and their tokens.
LEMMA CascadeEffect ==
    ASSUME TypeOK, \A t \in Tokens : TokenInv(t), NEW a \in Agents, Cascade(a)
    PROVE  /\ grants' \in [Delegations -> GrantType]
           /\ tokens' \in [Tokens -> TokenType]
           /\ \A t \in Tokens : tokens[t] = NoToken => tokens'[t] = NoToken
           /\ Grow
<1>1. ASSUME NEW d \in Delegations
      PROVE  /\ grants'[d] \in GrantType
             /\ grants[d] # NoGrant => grants'[d] # NoGrant /\ grants'[d].exp = grants[d].exp
             /\ grants[d].state \in {"revoked", "gone"} => grants'[d].state \in {"revoked", "gone"}
  <2>1. CASE grants[d].agent = a
    <3>1. grants'[d] = [state |-> "gone", agent |-> a, exp |-> grants[d].exp]
      BY Zenon, <2>1 DEF Cascade
    <3>2. grants[d] # NoGrant
      BY <2>1, TokensAssumption DEF NoGrant
    <3> QED BY <3>1, <3>2, GrantKnown DEF GrantType, NoGrant
  <2>2. CASE grants[d].agent # a
    BY Zenon, <2>2 DEF Cascade, TypeOK
  <2> QED BY Zenon, <2>1, <2>2
<1>2. grants' \in [Delegations -> GrantType]
  BY Zenon, <1>1 DEF Cascade
<1>3. ASSUME NEW t \in Tokens
      PROVE  /\ tokens'[t] \in TokenType
             /\ tokens[t] = NoToken => tokens'[t] = NoToken
             /\ tokens[t] # NoToken =>
                  /\ tokens'[t] # NoToken
                  /\ tokens'[t].delegation = tokens[t].delegation
                  /\ tokens'[t].exp = tokens[t].exp
  <2>1. CASE tokens[t].state = "minted" /\ grants[DelegationOf(t)].agent = a
    <3>1. tokens'[t] = [state |-> "gone", delegation |-> tokens[t].delegation,
                        exp |-> tokens[t].exp]
      BY Zenon, <2>1 DEF Cascade
    <3>2. tokens[t] # NoToken
      BY <2>1 DEF NoToken
    <3>3. tokens[t].delegation \in Delegations /\ tokens[t].exp \in Time
      BY Zenon, <3>2, TokenKnown DEF DelegationOf
    <3>4. tokens'[t] \in TokenType
      BY <3>1, <3>3 DEF TokenType
    <3>5. tokens'[t].delegation = tokens[t].delegation /\ tokens'[t].exp = tokens[t].exp
      BY <3>1
    <3>6. tokens'[t] # NoToken
      BY <3>1 DEF NoToken
    <3> QED BY Zenon, <3>2, <3>4, <3>5, <3>6
  <2>2. CASE ~(tokens[t].state = "minted" /\ grants[DelegationOf(t)].agent = a)
    BY Zenon, <2>2 DEF Cascade, TypeOK
  <2> QED BY Zenon, <2>1, <2>2
<1>4. tokens' \in [Tokens -> TokenType]
  BY Zenon, <1>3 DEF Cascade
<1>5. Grow
  BY Zenon, <1>1, <1>3 DEF Grow, Dead
<1> QED BY Zenon, <1>2, <1>3, <1>4, <1>5

\* The commit of a deletion, with its cascade.
LEMMA CommitDeleteStep ==
    ASSUME Inv, NEW w \in Writes, CommitDelete(w)
    PROVE  Inv'
<1> DEFINE a == write[w].id
<1>1. /\ TypeOK /\ write[w].pc = "commit" /\ write[w].status = "none"
      /\ UNCHANGED <<cacheVars, inbox, OtherThanWrite>>
  BY Zenon DEF Inv, CommitDelete
<1>2. a \in Agents
  BY Zenon, <1>1, WriteActive
<1>3. CASE status[a] # "none"
  <2>1. /\ status' = [status EXCEPT ![a] = "none"] /\ Cascade(a) /\ GotoWrite(w, "evict")
    BY Zenon, <1>3 DEF CommitDelete
  <2>2. /\ grants' \in [Delegations -> GrantType] /\ tokens' \in [Tokens -> TokenType]
        /\ \A t \in Tokens : tokens[t] = NoToken => tokens'[t] = NoToken
        /\ Grow
    BY Zenon, <1>1, <1>2, <2>1, CascadeEffect DEF Inv
  <2>3. write' \in [Writes -> WriteType]
    BY Zenon, <1>1, <2>1, WriteGoes DEF WritePcs
  <2>4. status' \in [Agents -> Statuses]
    BY Zenon, <1>1, <2>1 DEF TypeOK, Statuses
  <2>5. TypeOK'
    BY Zenon, <1>1, <2>2, <2>3, <2>4 DEF TypeOK, cacheVars, OtherThanWrite
  <2> QED BY Zenon, <1>1, <2>2, <2>5, Combine DEF cacheVars, OtherThanWrite
<1>4. CASE status[a] = "none"
  <2>1. write' = [write EXCEPT ![w] = IdleWrite] /\ UNCHANGED dbVars
    BY Zenon, <1>4 DEF CommitDelete
  <2>2. write' \in [Writes -> WriteType]
    BY Zenon, <1>1, <2>1, WriteEnds
  <2>3. TypeOK'
    BY Zenon, <1>1, <2>1, <2>2 DEF TypeOK, cacheVars, OtherThanWrite, dbVars
  <2> QED BY Zenon, <1>1, <2>1, <2>3, QuietCombine DEF cacheVars, OtherThanWrite
<1> QED BY Zenon, <1>3, <1>4

-----------------------------------------------------------------------------
(* Eviction, the subscriber, the TTL, restarts and the clock.              *)

\* What one invalidation does to a replica's caches.
LEMMA EvictEffect ==
    ASSUME Inv, NEW r \in Replicas, NEW x \in Agents \cup Delegations,
           Evict(r, x), UNCHANGED dbVars
    PROVE  /\ cache' \in [Replicas -> [Tokens -> {"miss", "neg", "pos"}]]
           /\ scache' \in [Replicas -> [Agents -> Statuses \cup {"miss"}]]
           /\ applied' \subseteq Replicas \X Delegations
           /\ racers' \subseteq Replicas \X Tokens
           /\ \A s \in Replicas : CacheInv(s)'
<1>1. TypeOK
  BY Zenon DEF Inv
<1> DEFINE row == [t \in Tokens |-> IF Matches(r, t, x) THEN "miss" ELSE cache[r][t]]
<1>2. row \in [Tokens -> {"miss", "neg", "pos"}]
  BY <1>1 DEF TypeOK
<1>3. cache' = [cache EXCEPT ![r] = row]
  BY Zenon DEF Evict
<1>4. /\ cache' \in [Replicas -> [Tokens -> {"miss", "neg", "pos"}]]
      /\ cache'[r] = row
      /\ \A s \in Replicas : s # r => cache'[s] = cache[s]
  <2> HIDE DEF row
  <2> QED BY Zenon, <1>1, <1>2, <1>3 DEF TypeOK
<1>5. \A s \in Replicas, t \in Tokens :
          cache'[s][t] = "pos" =>
              cache[s][t] = "pos" /\ ~(s = r /\ Concerns(DelegationOf(t), x))
  BY <1>4 DEF Matches
<1>6. scache' \in [Replicas -> [Agents -> Statuses \cup {"miss"}]]
  <2> DEFINE sr == [a \in Agents |-> IF a = x THEN "miss" ELSE scache[r][a]]
  <2>1. sr \in [Agents -> Statuses \cup {"miss"}]
    BY <1>1 DEF TypeOK
  <2>2. scache' = [scache EXCEPT ![r] = sr]
    BY Zenon DEF Evict
  <2> HIDE DEF sr
  <2> QED BY Zenon, <1>1, <2>1, <2>2 DEF TypeOK
<1>7. \A s \in Replicas, d \in Delegations :
          <<s, d>> \in applied' <=> <<s, d>> \in applied \/ (s = r /\ Dead(d) /\ Concerns(d, x))
  BY Zenon DEF Evict
<1>8. applied' \subseteq Replicas \X Delegations
  BY <1>1 DEF Evict, TypeOK
<1>9. racers' \subseteq Replicas \X Tokens
  BY Zenon, <1>1 DEF Evict, TypeOK
<1>10. \A s \in Replicas, t \in Tokens :
          cache'[s][t] = "pos" /\ <<s, t>> \in racers => <<s, t>> \in racers'
  BY Zenon, <1>5 DEF Evict, Matches
<1>11. UNCHANGED <<tokens, grants>>
  BY Zenon DEF dbVars
<1>12. ASSUME NEW s \in Replicas PROVE CacheInv(s)'
  <2>1. CacheInv(s)
    BY Zenon DEF Inv
  <2>2. \A t \in Tokens : cache'[s][t] = "pos" => tokens'[t] # NoToken
    BY Zenon, <1>5, <1>11, <2>1 DEF CacheInv
  <2>3. \A d \in Delegations : <<s, d>> \in applied' => Dead(d)'
    BY Zenon, <1>7, <1>11, <2>1 DEF CacheInv, Dead
  <2>4. ASSUME NEW t \in Tokens, cache'[s][t] = "pos", <<s, DelegationOf(t)>> \in applied'
        PROVE  <<s, t>> \in racers'
    <3>1. DelegationOf(t) \in Delegations
      BY Zenon, <1>1, <2>1, <2>4, <1>5, TokenKnown DEF CacheInv
    <3>2. <<s, DelegationOf(t)>> \in applied
      BY Zenon, <1>5, <1>7, <2>4, <3>1
    <3> QED BY Zenon, <1>5, <1>10, <2>1, <2>4, <3>2 DEF CacheInv
  <2> QED BY Zenon, <1>11, <2>2, <2>3, <2>4 DEF CacheInv, DelegationOf
<1> QED BY Zenon, <1>4, <1>6, <1>8, <1>9, <1>12

\* The writer's own replica evicts before it publishes.
LEMMA InvalidateLocalStep ==
    ASSUME Inv, NEW w \in Writes, InvalidateLocal(w)
    PROVE  Inv'
<1>1. /\ TypeOK /\ write[w].pc = "evict" /\ GotoWrite(w, "publish")
      /\ Evict(write[w].replica, write[w].id)
      /\ UNCHANGED <<dbVars, inbox, OtherThanWrite>>
  BY Zenon DEF Inv, InvalidateLocal
<1>2. write[w].replica \in Replicas /\ write[w].id \in Agents \cup Delegations
  BY Zenon, <1>1, WriteActive
<1>3. write' \in [Writes -> WriteType]
  BY Zenon, <1>1, WriteGoes DEF WritePcs
<1>4. /\ cache' \in [Replicas -> [Tokens -> {"miss", "neg", "pos"}]]
      /\ scache' \in [Replicas -> [Agents -> Statuses \cup {"miss"}]]
      /\ applied' \subseteq Replicas \X Delegations
      /\ racers' \subseteq Replicas \X Tokens
      /\ \A s \in Replicas : CacheInv(s)'
  BY Zenon, <1>1, <1>2, EvictEffect
<1>5. TypeOK'
  BY Zenon, <1>1, <1>3, <1>4 DEF TypeOK, dbVars, OtherThanWrite
<1> QED BY Zenon, <1>1, <1>4, <1>5, QuietCombine DEF OtherThanWrite

\* Every step of a write keeps the invariant.
LEMMA WriteSteps ==
    ASSUME Inv, NEW w \in Writes, WriteStep(w)
    PROVE  Inv'
BY Zenon, WriteQuietStep, CommitRevokeStep, CommitStatusStep, CommitDeleteStep, InvalidateLocalStep
   DEF WriteStep

\* A replica handles a published invalidation.
LEMMA HandleInvalidationStep ==
    ASSUME Inv, NEW r \in Replicas, NEW x \in Agents \cup Delegations, HandleInvalidation(r, x)
    PROVE  Inv'
<1>1. /\ TypeOK /\ Evict(r, x) /\ inbox' = inbox \ {<<r, x>>}
      /\ UNCHANGED <<now, dbVars, read, peek, write, mint>>
  BY Zenon DEF Inv, HandleInvalidation
<1>2. /\ cache' \in [Replicas -> [Tokens -> {"miss", "neg", "pos"}]]
      /\ scache' \in [Replicas -> [Agents -> Statuses \cup {"miss"}]]
      /\ applied' \subseteq Replicas \X Delegations
      /\ racers' \subseteq Replicas \X Tokens
      /\ \A s \in Replicas : CacheInv(s)'
  BY Zenon, <1>1, EvictEffect
<1>3. TypeOK'
  BY Zenon, <1>1, <1>2 DEF TypeOK, dbVars
<1> QED BY Zenon, <1>1, <1>2, <1>3, QuietCombine

\* Positive entries only disappear and keep their mark: TTL and restart.
LEMMA CacheShrinks ==
    ASSUME Inv, UNCHANGED <<dbVars, applied>>,
           \A s \in Replicas, t \in Tokens :
              cache'[s][t] = "pos" =>
                  cache[s][t] = "pos" /\ (<<s, t>> \in racers => <<s, t>> \in racers')
    PROVE  \A s \in Replicas : CacheInv(s)'
<1> TAKE s \in Replicas
<1>1. CacheInv(s)
  BY Zenon DEF Inv
<1>2. UNCHANGED <<tokens, grants, applied>>
  BY Zenon DEF dbVars
<1>3. \A d \in Delegations : <<s, d>> \in applied' => Dead(d)'
  BY Zenon, <1>1, <1>2 DEF CacheInv, Dead
<1>4. \A t \in Tokens : cache'[s][t] = "pos" => tokens'[t] # NoToken
  BY Zenon, <1>1, <1>2 DEF CacheInv
<1>5. \A t \in Tokens :
          cache'[s][t] = "pos" /\ <<s, tokens'[t].delegation>> \in applied' => <<s, t>> \in racers'
  BY Zenon, <1>1, <1>2 DEF CacheInv, DelegationOf
<1> QED BY Zenon, <1>3, <1>4, <1>5 DEF CacheInv, DelegationOf

\* A cached answer reaches its time to live.
LEMMA ActEntryLapsesStep ==
    ASSUME Inv, NEW r \in Replicas, NEW t \in Tokens, ActEntryLapses(r, t)
    PROVE  Inv'
<1>1. /\ TypeOK
      /\ cache' = [cache EXCEPT ![r] = [cache[r] EXCEPT ![t] = "miss"]]
      /\ racers' = racers \ {<<r, t>>}
      /\ UNCHANGED <<now, dbVars, scache, applied, inbox, read, peek, write, mint>>
  BY Zenon DEF Inv, ActEntryLapses
<1>2. /\ cache' \in [Replicas -> [Tokens -> {"miss", "neg", "pos"}]]
      /\ cache'[r][t] = "miss"
      /\ \A s \in Replicas, u \in Tokens : s # r \/ u # t => cache'[s][u] = cache[s][u]
  BY Zenon, <1>1 DEF TypeOK
<1>3. TypeOK'
  BY Zenon, <1>1, <1>2 DEF TypeOK, dbVars
<1>4. \A s \in Replicas, u \in Tokens :
          cache'[s][u] = "pos" =>
              cache[s][u] = "pos" /\ (<<s, u>> \in racers => <<s, u>> \in racers')
  BY Zenon, <1>1, <1>2
<1>5. \A s \in Replicas : CacheInv(s)'
  BY Zenon, <1>1, <1>4, CacheShrinks
<1> QED BY Zenon, <1>1, <1>3, <1>5, QuietCombine

\* A replica restarts with empty caches and no request in flight.
LEMMA RestartStep ==
    ASSUME Inv, NEW r \in Replicas, Restart(r)
    PROVE  Inv'
<1>1. TypeOK /\ UNCHANGED <<now, dbVars, applied, mint>>
  BY Zenon DEF Inv, Restart
<1> DEFINE row == [t \in Tokens |-> "miss"]
           srow == [a \in Agents |-> "miss"]
<1>2. /\ row \in [Tokens -> {"miss", "neg", "pos"}]
      /\ \A t \in Tokens : row[t] = "miss"
      /\ srow \in [Agents -> Statuses \cup {"miss"}]
      /\ cache' = [cache EXCEPT ![r] = row]
      /\ scache' = [scache EXCEPT ![r] = srow]
  BY Zenon DEF Restart
<1> HIDE DEF row, srow
<1>3. /\ cache' \in [Replicas -> [Tokens -> {"miss", "neg", "pos"}]]
      /\ scache' \in [Replicas -> [Agents -> Statuses \cup {"miss"}]]
      /\ cache'[r] = row
      /\ \A s \in Replicas : s # r => cache'[s] = cache[s]
  BY Zenon, <1>1, <1>2 DEF TypeOK
<1>4. /\ racers' = {p \in racers : p[1] # r}
      /\ inbox' \subseteq Replicas \X (Agents \cup Delegations)
      /\ racers' \subseteq Replicas \X Tokens
  BY Zenon, <1>1 DEF Restart, TypeOK
<1>5. /\ read' \in [Reads -> ReadType]
      /\ \A q \in Reads : read'[q] = read[q] \/ read'[q] = IdleRead
  BY Zenon, <1>1, IdleReadFacts DEF Restart, TypeOK
<1>6. peek' \in [Peeks -> PeekType]
  BY Zenon, <1>1 DEF Restart, TypeOK, PeekType
<1>7. write' \in [Writes -> WriteType]
  BY Zenon, <1>1 DEF Restart, TypeOK, WriteType
<1>8. TypeOK'
  BY Zenon, <1>1, <1>3, <1>4, <1>5, <1>6, <1>7 DEF TypeOK, dbVars
<1>9. \A s \in Replicas, u \in Tokens :
          cache'[s][u] = "pos" =>
              cache[s][u] = "pos" /\ (<<s, u>> \in racers => <<s, u>> \in racers')
  BY Zenon, <1>2, <1>3, <1>4
<1>10. \A s \in Replicas : CacheInv(s)'
  BY Zenon, <1>1, <1>9, CacheShrinks
<1>11. \A q \in Reads : read'[q] = read[q] \/ ReadInv(q)'
  BY Zenon, <1>5, IdleReadFacts DEF ReadInv
<1> QED BY Zenon, <1>1, <1>8, <1>10, <1>11, QuietCombine

\* Every step of a replica keeps the invariant.
LEMMA ReplicaSteps ==
    ASSUME Inv, NEW r \in Replicas, ReplicaStep(r)
    PROVE  Inv'
<1>1. CASE \E x \in Agents \cup Delegations : LoseMessage(r, x)
  <2>1. /\ TypeOK /\ inbox' \subseteq inbox
        /\ UNCHANGED <<now, dbVars, cacheVars, read, peek, write, mint>>
    BY Zenon, <1>1 DEF Inv, LoseMessage
  <2>2. TypeOK'
    BY Zenon, <2>1 DEF TypeOK, dbVars, cacheVars
  <2> QED BY Zenon, <2>1, <2>2, QuietCombine DEF cacheVars
<1>2. CASE \E a \in Agents : StatusEntryLapses(r, a)
  <2>1. PICK a \in Agents : StatusEntryLapses(r, a)
    BY Zenon, <1>2
  <2>2. /\ TypeOK
        /\ UNCHANGED <<now, dbVars, cache, applied, racers, inbox, read, peek, write, mint>>
        /\ scache' = [scache EXCEPT ![r] = [scache[r] EXCEPT ![a] = "miss"]]
    BY Zenon, <2>1 DEF Inv, StatusEntryLapses
  <2>3. scache' \in [Replicas -> [Agents -> Statuses \cup {"miss"}]]
    BY Zenon, <2>2 DEF TypeOK
  <2>4. TypeOK'
    BY Zenon, <2>2, <2>3 DEF TypeOK, dbVars
  <2> QED BY Zenon, <2>2, <2>4, QuietCombine
<1> QED BY Zenon, <1>1, <1>2, HandleInvalidationStep, ActEntryLapsesStep, RestartStep
           DEF ReplicaStep

\* Time passes: rows expire, and no answer gets better.
LEMMA TickStep ==
    ASSUME Inv, Tick
    PROVE  Inv'
<1>1. /\ TypeOK /\ now < MaxTime /\ now' = now + 1
      /\ UNCHANGED <<dbVars, cacheVars, inbox, read, peek, write, mint>>
  BY Zenon DEF Inv, Tick
<1>2. now' \in Time
  BY <1>1, TokensAssumption DEF TypeOK, Time
<1>3. TypeOK'
  BY Zenon, <1>1, <1>2 DEF TypeOK, dbVars, cacheVars
<1> QED BY Zenon, <1>1, <1>3, QuietCombine DEF cacheVars

-----------------------------------------------------------------------------
\* Empty tables and empty caches meet the invariant.
LEMMA InitInv ==
    Init => Inv
<1> SUFFICES ASSUME Init PROVE Inv
  BY Zenon
<1>1. TypeOK
  BY TokensAssumption DEF Init, TypeOK, Time, Statuses, GrantType, TokenType, ReadType,
     PeekType, WriteType, MintType
<1>2. /\ \A t \in Tokens : TokenInv(t)
      /\ \A r \in Replicas : CacheInv(r)
  BY Zenon DEF Init, TokenInv, CacheInv
<1>3. /\ \A m \in Mints : MintInv(m)
      /\ \A q \in Reads : ReadInv(q)
  BY Zenon DEF Init, MintInv, ReadInv, IdleMint, IdleRead
<1> QED BY Zenon, <1>1, <1>2, <1>3 DEF Inv

\* The invariant is inductive.
LEMMA NextInv ==
    Inv /\ [Next]_vars => Inv'
<1> SUFFICES ASSUME Inv, [Next]_vars PROVE Inv'
  BY Zenon
<1>1. CASE UNCHANGED vars
  <2>1. TypeOK'
    BY Zenon, <1>1 DEF Inv, TypeOK, vars, dbVars, cacheVars
  <2> QED BY Zenon, <1>1, <2>1, QuietCombine DEF vars, cacheVars
<1>2. CASE GrantStep
  BY Zenon, <1>2, CreateDelegationStep, MintReadStep, MintInsertStep DEF GrantStep
<1> QED BY Zenon, <1>1, <1>2, ReadSteps, PeekSteps, WriteSteps, ReplicaSteps, TickStep DEF Next

\* Inv is inductive: calls, caches and tables stay consistent whatever the
\* interleaving of lookups, revocations, restarts and lost messages.
THEOREM TokenInvariance == Spec => []Inv
<1>1. Inv /\ [Next]_vars => Inv'
  BY Zenon, NextInv
<1> QED BY <1>1, InitInv, PTL DEF Spec

\* Every table, cache and call is well formed in every reachable state.
THEOREM TokenTypeCorrect == Spec => []TypeOK
<1>1. Inv => TypeOK
  BY Zenon DEF Inv
<1> QED BY <1>1, TokenInvariance, PTL

\* resolve_act_token never answers positively from a cache past the expiry of
\* the delegation, although only the token's expiry is looked at on a hit.
THEOREM WithinGrant == Spec => []ServedWithinGrant
<1>1. Inv => ServedWithinGrant
  <2> SUFFICES ASSUME Inv, NEW r \in Replicas, NEW t \in Tokens, Serves(r, t)
               PROVE  now < grants[DelegationOf(t)].exp
    BY Zenon DEF ServedWithinGrant
  <2>1. TypeOK /\ TokenInv(t) /\ CacheInv(r)
    BY Zenon DEF Inv
  <2>2. tokens[t] # NoToken /\ now < tokens[t].exp
    BY Zenon, <2>1, TokenKnown DEF Serves, CacheInv, TypeOK, Time
  <2>3. grants[DelegationOf(t)] # NoGrant /\ tokens[t].exp <= grants[DelegationOf(t)].exp
    BY Zenon, <2>1, <2>2 DEF TokenInv
  <2>4. tokens[t].exp \in Nat /\ now \in Nat /\ grants[DelegationOf(t)].exp \in Nat
    BY <2>1, <2>2, <2>3, TokenKnown, GrantKnown DEF TypeOK, Time
  <2> QED BY <2>2, <2>3, <2>4
<1> QED BY <1>1, TokenInvariance, PTL

\* evict_delegation and evict_agent leave behind only what a lookup that
\* overlapped the revocation wrote, on every replica.
THEOREM EvictionComplete == Spec => []OnlyRacersSurvive
<1>1. Inv => OnlyRacersSurvive
  <2> SUFFICES ASSUME Inv PROVE OnlyRacersSurvive
    BY Zenon
  <2>1. \A r \in Replicas, t \in Tokens :
            cache[r][t] = "pos" /\ <<r, DelegationOf(t)>> \in applied => <<r, t>> \in racers
    BY Zenon DEF Inv, CacheInv
  <2>2. \A q \in Reads : read[q].pc = "insert" /\ read[q].val = "pos" => read[q].live
    BY Zenon DEF Inv, ReadInv
  <2> QED BY Zenon, <2>1, <2>2 DEF OnlyRacersSurvive
<1> QED BY <1>1, TokenInvariance, PTL
=============================================================================
