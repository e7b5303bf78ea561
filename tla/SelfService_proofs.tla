------------------------ MODULE SelfService_proofs ------------------------
(***************************************************************************)
(* Proofs about SelfService, for any number of requests, tokens, tenants   *)
(* and ids.  A row is never taken from its token, so an id that an answer  *)
(* carried keeps standing for what it stood for; what a request resolved   *)
(* and what its answer holds so far is of the right kind.                  *)
(***************************************************************************)
EXTENDS SelfService, Integers, SequenceTheorems, FiniteSetTheorems, TLAPS

TokenRows == [tenant: Tenants, ory: Raw, expires: Nat]

\* Public ids, raw tokens and the blank are told apart; None is no row.
TokenNames ==
    /\ Publics \cap Raw = {} /\ Blank \notin Publics /\ None \notin TokenRows
    /\ System \in Tenants /\ Ops \subseteq AllOps
    /\ Lifetime \in Nat /\ MaxTime \in Nat

\* The ULID of an INSERT is new.
FreshUlids ==
    \A t \in Tenants, o \in Raw :
        RowsOf(t, o) = {} => NextPublic \in Publics /\ tok[NextPublic] = None

Tokens == Publics \cup Raw

TokenCalls ==
    [pc: {"idle", "resolve", "call", "owner", "end", "peek", "mint", "errid", "done"},
     op: AllOps \cup {"none"}, tenant: Tenants, args: Seq(Tokens), got: Seq(Tokens),
     todo: Seq(Raw), vals: SUBSET (Raw \X (Tokens \cup {Blank})), status: {"ok", "error"}]

\* Row p holds token o of tenant t.
HoldsRow(p, t, o) == p \in Publics /\ tok[p] # None /\ tok[p].tenant = t /\ tok[p].ory = o

\* The table: typed, and one row for a tenant's token.
TableInv ==
    /\ tok \in [Publics -> TokenRows \cup {None}]
    /\ \A p, q \in Publics :
           tok[p] # None /\ tok[q] # None /\ tok[p].tenant = tok[q].tenant /\ tok[p].ory = tok[q].ory
           => p = q
    /\ now \in 0 .. MaxTime /\ live \subseteq Raw

\* The arguments of a request and what they were resolved to.
GoodArgs(q) ==
    /\ Len(q.args) <= 2 /\ Len(q.got) <= Len(q.args) /\ Len(q.todo) <= 3
    /\ q.pc \notin {"idle", "done"} => Len(q.args) = Len(Takes(q.op))
    /\ q.pc = "resolve" => Len(q.got) < Len(q.args)
    /\ q.pc = "call" => Len(q.got) = Len(q.args)
    /\ \A n \in 1 .. Len(q.got) :
           /\ q.got[n] = q.args[n]
              \/ (q.got[n] \in Raw /\ TypeOf(q.got[n]) = Takes(q.op)[n])
           /\ How(q.op) \notin {"pass", "global"} => q.got[n] \in Raw
    /\ q.pc \in {"owner", "end"} =>
           Len(q.got) = 1 /\ q.got[1] \in Sessions /\ q.op \in {"get_session", "delete_session"}
    /\ q.pc = "end" => OwnedHere(q.tenant, q.got[1])

\* What the answer of a request holds so far.
GoodVals(q) ==
    /\ q.pc # "done" => \A v \in q.vals : v[2] \in Publics => HoldsRow(v[2], q.tenant, v[1])
    /\ q.status = "ok" => \A v \in q.vals : v[2] \in Publics
    /\ q.pc = "errid" => q.status = "error"
    /\ q.pc \in {"peek", "mint", "errid"} => q.todo # <<>>
    /\ q.pc = "resolve" => q.vals = {}

\* The ids that answers carried are those of rows, and the sessions that were
\* ended were of their tenant.
HistoryInv ==
    /\ issued \subseteq Tenants \X Raw \X Publics
    /\ \A i \in issued : HoldsRow(i[3], i[1], i[2])
    /\ ended \subseteq Tenants \X Sessions
    /\ SessionEndedAtHome

TokenInv ==
    /\ TableInv /\ HistoryInv
    /\ req \in [Procs -> TokenCalls]
    /\ \A r \in Procs : GoodArgs(req[r]) /\ GoodVals(req[r])

\* No row is taken away or given to another token.
RowsKept == \A p, t, o : HoldsRow(p, t, o) => HoldsRow(p, t, o)'

LEMMA ValsKept == ASSUME RowsKept, NEW q, GoodVals(q) PROVE GoodVals(q)'
    BY Zenon DEF RowsKept, GoodVals

\* A request moves on to q.
LEMMA TokenMove ==
    ASSUME TokenInv, NEW r \in Procs, NEW q \in TokenCalls, Go(r, q),
           GoodArgs(q), GoodVals(q)', TableInv', RowsKept, HistoryInv'
    PROVE  TokenInv'
<1>1. req' = [req EXCEPT ![r] = q] /\ req \in [Procs -> TokenCalls]
    BY Zenon DEF TokenInv, Go
<1>2. req' \in [Procs -> TokenCalls]
    BY Zenon, <1>1
<1>3. \A s \in Procs : req'[s] = IF s = r THEN q ELSE req[s]
    BY Zenon, <1>1
<1>4. ASSUME NEW s \in Procs PROVE GoodArgs(req[s])' /\ GoodVals(req[s])'
    <2>1. CASE s = r
        <3>1. req'[s] = q
            BY Zenon, <1>3, <2>1
        <3>2. GoodArgs(req[s])'
            BY Zenon, <3>1 DEF GoodArgs, OwnedHere
        <3>3. GoodVals(req[s])'
            BY Zenon, <3>1 DEF GoodVals
        <3> QED BY Zenon, <3>2, <3>3
    <2>2. CASE s # r
        <3>1. PICK x : x = req[s] /\ x = req'[s]
            BY Zenon, <1>3, <2>2
        <3>2. GoodArgs(x) /\ GoodVals(x)
            BY Zenon, <3>1 DEF TokenInv
        <3>3. GoodVals(x)'
            BY Zenon, <3>2, ValsKept
        <3>4. GoodArgs(req[s])'
            BY Zenon, <3>1, <3>2 DEF GoodArgs, OwnedHere
        <3>5. GoodVals(req[s])'
            BY Zenon, <3>1, <3>3 DEF GoodVals
        <3> QED BY Zenon, <3>4, <3>5
    <2> QED BY Zenon, <2>1, <2>2
<1> QED BY Zenon, <1>2, <1>4 DEF TokenInv

\* A request moves on to q, and no table or history changes.
LEMMA QuietMove ==
    ASSUME TokenInv, NEW r \in Procs, NEW q \in TokenCalls, Go(r, q),
           GoodArgs(q), GoodVals(q), UNCHANGED <<tok, now, issued, ended>>, live' \subseteq Raw
    PROVE  TokenInv'
<1>1. RowsKept
    BY Zenon DEF RowsKept, HoldsRow
<1>2. TableInv'
    BY Zenon DEF TokenInv, TableInv
<1>3. HistoryInv'
    BY Zenon, <1>1 DEF TokenInv, HistoryInv, RowsKept, SessionEndedAtHome
<1>4. GoodVals(q)'
    BY Zenon, <1>1, ValsKept
<1> QED BY Zenon, <1>1, <1>2, <1>3, <1>4, TokenMove

\* The resting request.
LEMMA IdleCall ==
    ASSUME TokenNames
    PROVE  Idle \in TokenCalls /\ GoodArgs(Idle) /\ GoodVals(Idle) /\ GoodVals(Idle)'
<1>1. Idle \in TokenCalls
    <2>1. <<>> \in Seq(Tokens) /\ <<>> \in Seq(Raw)
        BY Zenon, EmptySeq
    <2>2. {} \in SUBSET (Raw \X (Tokens \cup {Blank}))
        BY Zenon
    <2> QED BY Zenon, <2>1, <2>2 DEF Idle, TokenCalls, TokenNames
<1>2. GoodArgs(Idle)
    BY DEF Idle, GoodArgs
<1>3. GoodVals(Idle) /\ GoodVals(Idle)'
    BY Zenon DEF Idle, GoodVals
<1> QED BY Zenon, <1>1, <1>2, <1>3

\* A request fails.
LEMMA FailMove ==
    ASSUME TokenNames, TokenInv, NEW r \in Procs, Fail(r), TableInv', RowsKept, UNCHANGED ended
    PROVE  TokenInv'
<1>1. HistoryInv'
    BY Zenon DEF Fail, TokenInv, HistoryInv, RowsKept, SessionEndedAtHome
<1>2. Go(r, Idle)
    BY Zenon DEF Fail
<1>3. PICK q : q = Idle
    BY Zenon
<1>4. q \in TokenCalls /\ Go(r, q) /\ GoodArgs(q) /\ GoodVals(q)'
    <2>1. GoodVals(q)'
        BY Zenon, <1>3 DEF GoodVals, Idle
    <2> QED BY Zenon, <1>2, <1>3, <2>1, IdleCall
<1> QED BY Zenon, <1>1, <1>4, TokenMove

\* A request answers q.
LEMMA AnswerMove ==
    ASSUME TokenNames, TokenInv, NEW r \in Procs, NEW q \in TokenCalls, GoodVals(q)', q.pc # "done",
           Answer(r, q), TableInv', RowsKept,
           ended' \subseteq Tenants \X Sessions, SessionEndedAtHome'
    PROVE  TokenInv'
<1>1. PICK a : a = [Idle EXCEPT !.pc = "done", !.vals = q.vals, !.status = q.status]
    BY Zenon
<1>2. a \in TokenCalls /\ a.pc = "done" /\ a.vals = q.vals /\ a.status = q.status
      /\ a.args = <<>> /\ a.got = <<>> /\ a.todo = <<>>
    <2>1. Idle \in TokenCalls /\ Idle.args = <<>> /\ Idle.got = <<>> /\ Idle.todo = <<>>
        BY Zenon, IdleCall DEF Idle
    <2>2. q.vals \in SUBSET (Raw \X (Tokens \cup {Blank})) /\ q.status \in {"ok", "error"}
        BY Zenon DEF TokenCalls
    <2> QED BY Zenon, <1>1, <2>1, <2>2 DEF TokenCalls
<1>3. GoodArgs(a)
    BY <1>2 DEF GoodArgs
<1>4. GoodVals(a)'
    BY Zenon, <1>2 DEF GoodVals
<1>5. Go(r, a) /\ issued' = issued \cup IdsOf(q)
    BY Zenon, <1>1 DEF Answer
<1>6. \A i \in IdsOf(q) : i \in Tenants \X Raw \X Publics /\ HoldsRow(i[3], i[1], i[2])'
    <2> TAKE i \in IdsOf(q)
    <2>1. PICK v \in q.vals : v[2] \in Publics /\ i = <<q.tenant, v[1], v[2]>>
        BY Zenon DEF IdsOf
    <2>2. v[1] \in Raw /\ q.tenant \in Tenants
        BY Zenon DEF TokenCalls
    <2>3. HoldsRow(v[2], q.tenant, v[1])'
        BY Zenon, <2>1 DEF GoodVals
    <2>4. i[1] = q.tenant /\ i[2] = v[1] /\ i[3] = v[2]
        BY Zenon, <2>1
    <2>5. HoldsRow(i[3], i[1], i[2])'
        BY Zenon, <2>3, <2>4
    <2> QED BY Zenon, <2>1, <2>2, <2>5
<1>7. HistoryInv'
    BY Zenon, <1>5, <1>6 DEF TokenInv, HistoryInv, RowsKept
<1> QED BY Zenon, <1>2, <1>3, <1>4, <1>5, <1>7, TokenMove

\* The upsert: it extends the row of the tenant's token or takes a new one.
LEMMA CreateRow ==
    ASSUME TokenNames, TokenInv, FreshUlids, NEW t \in Tenants, NEW o \in Raw, Create(t, o),
           UNCHANGED <<now, live>>, NEW p, p = MintedId(t, o)
    PROVE  TableInv' /\ RowsKept /\ HoldsRow(p, t, o)'
<1>1. PICK b : b = [tenant |-> t, ory |-> o, expires |-> now + Lifetime]
    BY Zenon
<1>2. b \in TokenRows /\ b # None /\ b.tenant = t /\ b.ory = o
    <2>1. now + Lifetime \in Nat
        BY DEF TokenNames, TokenInv, TableInv
    <2>2. b \in TokenRows
        BY Zenon, <1>1, <2>1 DEF TokenRows
    <2> QED BY Zenon, <1>1, <2>2 DEF TokenNames
<1>3. /\ p \in Publics
      /\ tok[p] # None => tok[p].tenant = t /\ tok[p].ory = o
      /\ tok[p] = None => RowsOf(t, o) = {}
    <2>1. CASE RowsOf(t, o) = {}
        BY Zenon, <2>1 DEF MintedId, FreshUlids
    <2>2. CASE RowsOf(t, o) # {}
        <3>1. p \in RowsOf(t, o)
            BY Zenon, <2>2 DEF MintedId
        <3> QED BY Zenon, <3>1 DEF RowsOf
    <2> QED BY Zenon, <2>1, <2>2
<1>4. tok' = [tok EXCEPT ![p] = b] /\ tok \in [Publics -> TokenRows \cup {None}]
    BY Zenon, <1>1 DEF Create, TokenInv, TableInv
<1>5. tok' \in [Publics -> TokenRows \cup {None}]
    BY Zenon, <1>2, <1>4
<1>6. \A x \in Publics : tok'[x] = IF x = p THEN b ELSE tok[x]
    BY Zenon, <1>4
<1>7. \A x, y \in Publics :
          tok'[x] # None /\ tok'[y] # None /\ tok'[x].tenant = tok'[y].tenant
          /\ tok'[x].ory = tok'[y].ory => x = y
    <2>1. \A x \in Publics : tok[x] # None /\ tok[x].tenant = t /\ tok[x].ory = o => x = p
        <3> SUFFICES ASSUME NEW x \in Publics, tok[x] # None, tok[x].tenant = t, tok[x].ory = o
                     PROVE  x = p
            BY Zenon
        <3>1. x \in RowsOf(t, o)
            BY Zenon DEF RowsOf
        <3>2. tok[p] # None /\ tok[p].tenant = t /\ tok[p].ory = o
            BY Zenon, <1>3, <3>1
        <3> QED BY Zenon, <1>3, <3>2 DEF TokenInv, TableInv
    <2> SUFFICES ASSUME NEW x \in Publics, NEW y \in Publics, tok'[x] # None, tok'[y] # None,
                        tok'[x].tenant = tok'[y].tenant, tok'[x].ory = tok'[y].ory
                 PROVE  x = y
        BY Zenon
    <2>2. CASE x = p /\ y # p
        <3>1. tok'[x] = b /\ tok'[y] = tok[y]
            BY Zenon, <1>6, <2>2
        <3> QED BY Zenon, <1>2, <2>1, <2>2, <3>1
    <2>3. CASE x # p /\ y = p
        <3>1. tok'[y] = b /\ tok'[x] = tok[x]
            BY Zenon, <1>6, <2>3
        <3> QED BY Zenon, <1>2, <2>1, <2>3, <3>1
    <2>4. CASE x # p /\ y # p
        BY Zenon, <1>6, <2>4 DEF TokenInv, TableInv
    <2> QED BY Zenon, <2>2, <2>3, <2>4
<1>8. TableInv'
    BY Zenon, <1>5, <1>7 DEF TokenInv, TableInv
<1>9. RowsKept
    BY Zenon, <1>2, <1>3, <1>6 DEF RowsKept, HoldsRow
<1>10. HoldsRow(p, t, o)'
    BY Zenon, <1>2, <1>3, <1>6 DEF HoldsRow
<1> QED BY Zenon, <1>8, <1>9, <1>10

\* A request that goes on answering keeps its arguments.
LEMMA ArgsSame ==
    ASSUME NEW q, NEW x, GoodArgs(q), q.pc \notin {"idle", "done"},
           x.args = q.args, x.got = q.got, x.op = q.op, Len(x.todo) <= 3,
           x.pc \in {"peek", "mint", "errid"}
    PROVE  GoodArgs(x)
    BY Zenon DEF GoodArgs

\* The answer is built from the raw tokens s.
LEMMA BuildMove ==
    ASSUME TokenNames, TokenInv, NEW r \in Procs, req[r].pc \in {"call", "owner"},
           NEW s \in Seq(Raw), s # <<>>, Len(s) <= 3, Build(r, s),
           UNCHANGED <<tok, now, ended>>, live' \subseteq Raw
    PROVE  TokenInv'
<1>1. PICK q : q = req[r]
    BY Zenon
<1>2. q \in TokenCalls /\ GoodArgs(q) /\ GoodVals(q) /\ q.pc \in {"call", "owner"}
    BY Zenon, <1>1 DEF TokenInv
<1>3. PICK at : at = MintPc(q) /\ at \in {"peek", "mint"}
    BY Zenon DEF MintPc
<1>4. PICK x : x = [q EXCEPT !.todo = s, !.pc = at]
    BY Zenon
<1>5. /\ x \in TokenCalls /\ x.pc = at /\ x.todo = s /\ x.args = q.args /\ x.got = q.got
      /\ x.op = q.op /\ x.tenant = q.tenant /\ x.vals = q.vals /\ x.status = q.status
    BY Zenon, <1>2, <1>3, <1>4 DEF TokenCalls
<1>6. GoodArgs(x)
    BY Zenon, <1>2, <1>3, <1>5, ArgsSame
<1>7. GoodVals(x)
    BY Zenon, <1>2, <1>3, <1>5 DEF GoodVals
<1>8. Go(r, x) /\ UNCHANGED issued
    BY Zenon, <1>1, <1>3, <1>4 DEF Build
<1> QED BY Zenon, <1>5, <1>6, <1>7, <1>8, QuietMove

\* A field is done: the next one, or the answer.
LEMMA FieldMove ==
    ASSUME TokenNames, TokenInv, NEW r \in Procs, NEW q \in TokenCalls, q.pc \in {"peek", "mint"},
           GoodArgs(q), GoodVals(q)', Field(r, q), TableInv', RowsKept, UNCHANGED ended
    PROVE  TokenInv'
<1>1. CASE ~(Len(q.todo) > 1)
    <2>1. Answer(r, q)
        BY Zenon, <1>1 DEF Field
    <2>2. ended' \subseteq Tenants \X Sessions /\ SessionEndedAtHome'
        BY Zenon DEF TokenInv, HistoryInv, SessionEndedAtHome
    <2> QED BY Zenon, <2>1, <2>2, AnswerMove
<1>2. CASE Len(q.todo) > 1
    <2>1. PICK s : s = Tail(q.todo)
        BY Zenon
    <2>2. s \in Seq(Raw) /\ s # <<>> /\ Len(s) <= 3
        <3>1. q.todo \in Seq(Raw) /\ Len(q.todo) <= 3
            BY Zenon DEF TokenCalls, GoodArgs
        <3>2. q.todo # <<>> /\ Len(q.todo) \in Nat
            BY Zenon, <1>2, <3>1, LenProperties DEF GoodVals
        <3>3. s \in Seq(Raw) /\ Len(s) = Len(q.todo) - 1
            BY Zenon, <2>1, <3>1, <3>2, HeadTailProperties
        <3>4. Len(s) >= 1 /\ Len(s) <= 3
            BY <1>2, <3>1, <3>2, <3>3
        <3> QED BY <3>3, <3>4
    <2>3. PICK x : x = [q EXCEPT !.todo = s]
        BY Zenon
    <2>4. /\ x \in TokenCalls /\ x.pc = q.pc /\ x.todo = s /\ x.args = q.args /\ x.got = q.got
          /\ x.op = q.op /\ x.tenant = q.tenant /\ x.vals = q.vals /\ x.status = q.status
        BY Zenon, <2>2, <2>3 DEF TokenCalls
    <2>5. GoodArgs(x)
        BY Zenon, <2>2, <2>4, ArgsSame
    <2>6. GoodVals(x)'
        BY Zenon, <2>2, <2>4 DEF GoodVals
    <2>7. Go(r, x) /\ UNCHANGED issued
        BY Zenon, <1>2, <2>1, <2>3 DEF Field
    <2>8. HistoryInv'
        BY Zenon, <2>7 DEF TokenInv, HistoryInv, RowsKept, SessionEndedAtHome
    <2> QED BY Zenon, <2>4, <2>5, <2>6, <2>7, <2>8, TokenMove
<1> QED BY Zenon, <1>1, <1>2

-----------------------------------------------------------------------------
(* The steps of a request.                                                 *)

\* How many arguments the operations take.
LEMMA TakesFew ==
    /\ \A op \in AllOps : Len(Takes(op)) \in 0 .. 2
    /\ Len(Takes("create_flow")) = 0 /\ Len(Takes("create_login")) = 1
    /\ Len(Takes("submit_flow")) = 1 /\ Len(Takes("submit_token")) = 2
    BY DEF Takes, AllOps

LEMMA ShortSeqs ==
    ASSUME NEW a \in Raw, NEW b \in Raw
    PROVE  /\ <<a>> \in Seq(Raw) /\ <<a>> # <<>> /\ Len(<<a>>) = 1 /\ Len(<<a>>) <= 3
           /\ <<a, b>> \in Seq(Raw) /\ <<a, b>> # <<>> /\ Len(<<a, b>>) <= 3
    BY SMT

LEMMA SeqFrom ==
    ASSUME NEW S, NEW n \in Nat, NEW s \in [1 .. n -> S] PROVE s \in Seq(S)
<1>1. \E k \in Nat : [1 .. n -> S] = [1 .. k -> S]
    BY Zenon
<1>2. [1 .. n -> S] \in {[1 .. k -> S] : k \in Nat}
    BY Zenon, <1>1
<1> QED BY Zenon, <1>2, SeqDef

LEMMA RawSeq ==
    ASSUME NEW s \in Seq(Tokens), \A n \in 1 .. Len(s) : s[n] \in Raw
    PROVE  s \in Seq(Raw)
<1>1. Len(s) \in Nat /\ s \in [1 .. Len(s) -> Tokens]
    BY Zenon, LenProperties
<1>2. s \in [1 .. Len(s) -> Raw]
    BY Zenon, <1>1
<1> QED BY Zenon, <1>1, <1>2, SeqFrom

\* A request begins with what its caller has at hand.
LEMMA TokenBegin ==
    ASSUME TokenNames, TokenInv, NEW r \in Procs, Begin(r) PROVE TokenInv'
<1>1. PICK op \in Ops, t \in Tenants : \E a \in [1 .. Len(Takes(op)) -> Presentable(op)] :
          Go(r, [Idle EXCEPT !.op = op, !.args = a,
                    !.tenant = IF op = "proxy" THEN System ELSE t,
                    !.pc = IF a = <<>> THEN "call" ELSE "resolve"])
    BY Zenon DEF Begin
<1>2. PICK a \in [1 .. Len(Takes(op)) -> Presentable(op)] :
          Go(r, [Idle EXCEPT !.op = op, !.args = a,
                    !.tenant = IF op = "proxy" THEN System ELSE t,
                    !.pc = IF a = <<>> THEN "call" ELSE "resolve"])
    BY Zenon, <1>1
<1>3. op \in AllOps /\ Len(Takes(op)) \in 0 .. 2
    BY Zenon, TakesFew DEF TokenNames
<1>4. Presentable(op) \subseteq Tokens
    <2>1. KnownIds \subseteq Publics
        <3> SUFFICES ASSUME NEW i \in issued PROVE i[3] \in Publics
            BY Zenon DEF KnownIds
        <3> QED BY Zenon DEF TokenInv, HistoryInv
    <2>2. Challenges \subseteq Raw
        BY Zenon DEF Raw
    <2> QED BY Zenon, <2>1, <2>2 DEF Presentable, Tokens
<1>5. a \in Seq(Tokens) /\ Len(a) = Len(Takes(op)) /\ (a = <<>> <=> Len(a) = 0)
    <2>1. PICK n \in Nat : n = Len(Takes(op))
        BY <1>3
    <2>2. a \in [1 .. n -> Tokens]
        BY Zenon, <1>4, <2>1
    <2>3. a \in Seq(Tokens)
        BY Zenon, <2>2, SeqFrom
    <2>4. DOMAIN a = 1 .. Len(a) /\ Len(a) \in Nat /\ DOMAIN a = 1 .. n
        BY Zenon, <2>2, <2>3, LenProperties
    <2>5. Len(a) = n
        BY <2>1, <2>4
    <2>6. (a = <<>> <=> Len(a) = 0)
        BY <2>3, EmptySeq
    <2> QED BY Zenon, <2>1, <2>3, <2>5, <2>6
<1>6. PICK u \in Tenants : u = IF op = "proxy" THEN System ELSE t
    BY Zenon DEF TokenNames
<1>7. PICK at : at = (IF a = <<>> THEN "call" ELSE "resolve") /\ at \in {"call", "resolve"}
    BY Zenon
<1>8. PICK q : q = [Idle EXCEPT !.op = op, !.args = a, !.tenant = u, !.pc = at]
    BY Zenon
<1>9. /\ q \in TokenCalls /\ q.pc = at /\ q.op = op /\ q.args = a /\ q.got = <<>>
      /\ q.todo = <<>> /\ q.vals = {}
    <2>1. Idle \in TokenCalls /\ Idle.got = <<>> /\ Idle.todo = <<>> /\ Idle.vals = {}
        BY Zenon, IdleCall DEF Idle
    <2> QED BY Zenon, <1>3, <1>5, <1>7, <1>8, <2>1 DEF TokenCalls
<1>10. GoodArgs(q)
    <2>1. Len(<<>>) = 0
        BY Zenon, EmptySeq
    <2> QED BY <1>3, <1>5, <1>7, <1>9, <2>1 DEF GoodArgs
<1>11. GoodVals(q)
    BY Zenon, <1>7, <1>9 DEF GoodVals
<1>12. Go(r, q)
    BY Zenon, <1>2, <1>6, <1>7, <1>8
<1>13. UNCHANGED <<tok, now, live, issued, ended>> /\ live' \subseteq Raw
    BY Zenon DEF Begin, TokenInv, TableInv
<1> QED BY Zenon, <1>9, <1>10, <1>11, <1>12, <1>13, QuietMove

\* What a lookup answers.
LEMMA ResolvedRow ==
    ASSUME TokenInv, NEW q \in TokenCalls, NEW a \in Tokens, NEW type,
           NEW res, res = Resolved(q, a, type), res.ok
    PROVE  /\ res.tenant \in Tenants /\ res.ory \in Tokens
           /\ res.ory = a \/ (res.ory \in Raw /\ TypeOf(res.ory) = type)
           /\ How(q.op) \notin {"pass", "global"} => res.ory \in Raw
<1>1. q.tenant \in Tenants
    BY Zenon DEF TokenCalls
<1>2. MatchesGlobal(a, type) =>
          tok[a].ory \in Raw /\ tok[a].tenant \in Tenants /\ TypeOf(tok[a].ory) = type
    BY Zenon DEF MatchesGlobal, Live, TokenInv, TableInv, TokenRows
<1>3. CASE Matches(a, q.tenant, type) /\ How(q.op) # "global"
    <2>1. res = [ok |-> TRUE, ory |-> tok[a].ory, tenant |-> q.tenant]
        BY <1>3 DEF Resolved
    <2>2. res.ory = tok[a].ory /\ res.tenant = q.tenant
        BY <2>1
    <2> QED BY Zenon, <1>1, <1>2, <1>3, <2>2 DEF Matches, Tokens
<1>4. CASE ~(Matches(a, q.tenant, type) /\ How(q.op) # "global")
    <2>1. CASE How(q.op) = "fallback" /\ MatchesGlobal(a, type)
        <3>1. res = [ok |-> TRUE, ory |-> tok[a].ory, tenant |-> q.tenant]
            BY <1>4, <2>1 DEF Resolved
        <3>2. res.ory = tok[a].ory /\ res.tenant = q.tenant
            BY <3>1
        <3> QED BY Zenon, <1>1, <1>2, <2>1, <3>2 DEF Tokens
    <2>2. CASE How(q.op) = "global" /\ MatchesGlobal(a, type)
        <3>1. res = [ok |-> TRUE, ory |-> tok[a].ory, tenant |-> tok[a].tenant]
            BY <1>4, <2>2 DEF Resolved
        <3>2. res.ory = tok[a].ory /\ res.tenant = tok[a].tenant
            BY <3>1
        <3> QED BY Zenon, <1>2, <2>2, <3>2 DEF Tokens
    <2>3. CASE ~MatchesGlobal(a, type) \/ How(q.op) \notin {"fallback", "global"}
        <3>1. PICK known \in BOOLEAN : known <=> How(q.op) \in {"pass", "global"}
            BY Zenon
        <3>2. res = [ok |-> known, ory |-> a, tenant |-> q.tenant]
            <4>1. res = [ok |-> How(q.op) \in {"pass", "global"}, ory |-> a, tenant |-> q.tenant]
                BY <1>4, <2>3 DEF Resolved
            <4>2. known = (How(q.op) \in {"pass", "global"})
                BY <3>1
            <4> QED BY Zenon, <4>1, <4>2
        <3>3. res.ory = a /\ res.tenant = q.tenant /\ res.ok = known
            BY <3>2
        <3> QED BY Zenon, <1>1, <3>1, <3>3
    <2> QED BY Zenon, <2>1, <2>2, <2>3
<1> QED BY Zenon, <1>3, <1>4

\* One argument is resolved.
LEMMA TokenResolve ==
    ASSUME TokenNames, TokenInv, NEW r \in Procs, Resolve(r) PROVE TokenInv'
<1>1. PICK q : q = req[r]
    BY Zenon
<1>2. q \in TokenCalls /\ GoodArgs(q) /\ GoodVals(q) /\ q.pc = "resolve"
    BY Zenon, <1>1 DEF TokenInv, Resolve
<1>3. /\ q.args \in Seq(Tokens) /\ q.got \in Seq(Tokens) /\ q.todo \in Seq(Raw)
      /\ q.vals = {} /\ Len(q.args) \in Nat /\ Len(q.got) \in Nat
    BY Zenon, <1>2, LenProperties DEF TokenCalls, GoodVals
<1>4. PICK n \in 1 .. Len(q.args) : n = Len(q.got) + 1
    BY <1>2, <1>3 DEF GoodArgs
<1>5. PICK a \in Tokens : a = q.args[n]
    BY Zenon, <1>3, ElementOfSeq
<1>6. PICK type : type = Takes(q.op)[n]
    BY Zenon
<1>7. PICK res : res = Resolved(q, a, type)
    BY Zenon
<1>8. /\ UNCHANGED <<tok, now, live, ended>> /\ live' \subseteq Raw
      /\ IF res.ok
         THEN /\ Go(r, [q EXCEPT !.got = Append(q.got, res.ory), !.tenant = res.tenant,
                           !.pc = IF n = Len(q.args) THEN "call" ELSE "resolve"])
              /\ UNCHANGED issued
         ELSE Fail(r)
    BY Zenon, <1>1, <1>4, <1>5, <1>6, <1>7 DEF Resolve, TokenInv, TableInv
<1>9. CASE ~res.ok
    <2>1. RowsKept /\ TableInv'
        BY Zenon, <1>8 DEF RowsKept, HoldsRow, TokenInv, TableInv
    <2> QED BY Zenon, <1>8, <1>9, <2>1, FailMove
<1>10. CASE res.ok
    <2>1. PICK o, u : o = res.ory /\ u = res.tenant
        BY Zenon
    <2>2. /\ u \in Tenants /\ o \in Tokens
          /\ o = a \/ (o \in Raw /\ TypeOf(o) = type)
          /\ How(q.op) \notin {"pass", "global"} => o \in Raw
        <3>1. /\ res.tenant \in Tenants /\ res.ory \in Tokens
              /\ res.ory = a \/ (res.ory \in Raw /\ TypeOf(res.ory) = type)
              /\ How(q.op) \notin {"pass", "global"} => res.ory \in Raw
            BY <1>2, <1>7, <1>10, ResolvedRow
        <3> QED BY Zenon, <2>1, <3>1
    <2>3. PICK g : g = Append(q.got, o)
        BY Zenon
    <2>4. /\ g \in Seq(Tokens) /\ Len(g) = n
          /\ \A m \in 1 .. n : g[m] = IF m = n THEN o ELSE q.got[m]
          /\ \A m \in 1 .. n : m # n => m \in 1 .. Len(q.got)
        <3>1. g \in Seq(Tokens)
            BY Zenon, <1>3, <2>2, <2>3, AppendProperties
        <3>2. /\ Len(g) = Len(q.got) + 1
              /\ \A m \in 1 .. Len(q.got) : g[m] = q.got[m]
              /\ g[Len(q.got) + 1] = o
            <4>1. /\ Len(Append(q.got, o)) = Len(q.got) + 1
                  /\ \A m \in 1 .. Len(q.got) : Append(q.got, o)[m] = q.got[m]
                  /\ Append(q.got, o)[Len(q.got) + 1] = o
                BY <1>3, <2>2, AppendProperties
            <4> QED BY Zenon, <2>3, <4>1
        <3>3. \A m \in 1 .. n : m # n => m \in 1 .. Len(q.got)
            BY <1>3, <1>4
        <3> QED BY Zenon, <1>4, <3>1, <3>2, <3>3
    <2>5. PICK at : at = (IF n = Len(q.args) THEN "call" ELSE "resolve") /\ at \in {"call", "resolve"}
        BY Zenon
    <2>6. PICK x : x = [q EXCEPT !.got = g, !.tenant = u, !.pc = at]
        BY Zenon
    <2>7. /\ x \in TokenCalls /\ x.pc = at /\ x.got = g /\ x.op = q.op /\ x.args = q.args
          /\ x.todo = q.todo /\ x.vals = q.vals /\ x.status = q.status
        BY Zenon, <1>2, <2>2, <2>4, <2>5, <2>6 DEF TokenCalls
    <2>8. GoodArgs(x)
        <3>1. /\ Len(q.args) <= 2 /\ Len(q.todo) <= 3 /\ Len(q.args) = Len(Takes(q.op))
            BY Zenon, <1>2 DEF GoodArgs
        <3>2. n <= Len(q.args) /\ (at = "resolve" => n < Len(q.args))
            BY <1>3, <1>4, <2>5
        <3>3. at = "call" => n = Len(q.args)
            BY Zenon, <2>5
        <3>4. ASSUME NEW m \in 1 .. n
              PROVE  /\ g[m] = q.args[m] \/ (g[m] \in Raw /\ TypeOf(g[m]) = Takes(q.op)[m])
                     /\ How(q.op) \notin {"pass", "global"} => g[m] \in Raw
            <4>1. CASE m = n
                <5>1. g[m] = o
                    BY Zenon, <2>4, <4>1
                <5> QED BY Zenon, <1>5, <1>6, <2>2, <4>1, <5>1
            <4>2. CASE m # n
                <5>1. m \in 1 .. Len(q.got) /\ g[m] = q.got[m]
                    BY Zenon, <2>4, <4>2
                <5> QED BY Zenon, <1>2, <5>1 DEF GoodArgs
            <4> QED BY Zenon, <4>1, <4>2
        <3>5. /\ Len(x.args) <= 2 /\ Len(x.got) <= Len(x.args) /\ Len(x.todo) <= 3
              /\ Len(x.args) = Len(Takes(x.op))
              /\ x.pc = "resolve" => Len(x.got) < Len(x.args)
              /\ x.pc = "call" => Len(x.got) = Len(x.args)
            BY Zenon, <2>4, <2>7, <3>1, <3>2, <3>3
        <3>6. x.pc \notin {"owner", "end"}
            BY Zenon, <2>5, <2>7
        <3>7. \A m \in 1 .. Len(x.got) :
                  /\ x.got[m] = x.args[m] \/ (x.got[m] \in Raw /\ TypeOf(x.got[m]) = Takes(x.op)[m])
                  /\ How(x.op) \notin {"pass", "global"} => x.got[m] \in Raw
            BY Zenon, <2>4, <2>7, <3>4
        <3> QED BY Zenon, <3>5, <3>6, <3>7 DEF GoodArgs
    <2>9. GoodVals(x)
        BY Zenon, <1>3, <2>5, <2>7 DEF GoodVals
    <2>10. Go(r, x) /\ UNCHANGED issued
        BY Zenon, <1>8, <1>10, <2>1, <2>3, <2>5, <2>6
    <2> QED BY Zenon, <1>8, <2>7, <2>8, <2>9, <2>10, QuietMove
<1> QED BY Zenon, <1>9, <1>10

\* A flow is created for what was resolved.
LEMMA TokenCreateFlow ==
    ASSUME TokenNames, TokenInv, NEW r \in Procs, CreateFlow(r) PROVE TokenInv'
<1>1. PICK q : q = req[r]
    BY Zenon
<1>2. /\ q \in TokenCalls /\ GoodArgs(q) /\ q.pc = "call" /\ q.op \in {"create_flow", "create_login"}
      /\ \A n \in 1 .. Len(q.got) : q.got[n] \in Challenges \cap live
      /\ UNCHANGED <<tok, now, ended>>
    BY Zenon, <1>1 DEF TokenInv, CreateFlow
<1>3. PICK f \in Flows : NewFlow(f) /\ Build(r, <<f>> \o q.got \o <<f>>)
    BY Zenon, <1>1 DEF CreateFlow
<1>4. f \in Raw /\ live' \subseteq Raw
    BY Zenon, <1>3 DEF NewFlow, Raw, TokenInv, TableInv
<1>5. q.got \in Seq(Raw)
    <2>1. q.got \in Seq(Tokens)
        BY Zenon, <1>2 DEF TokenCalls
    <2>2. \A n \in 1 .. Len(q.got) : q.got[n] \in Raw
        BY Zenon, <1>2 DEF Raw
    <2> QED BY Zenon, <2>1, <2>2, RawSeq
<1>6. Len(q.got) \in Nat /\ Len(q.got) <= 1
    <2>1. Len(q.got) = Len(Takes(q.op)) /\ Len(q.got) \in Nat
        BY Zenon, <1>2, <1>5, LenProperties DEF GoodArgs
    <2> QED BY <1>2, <2>1, TakesFew
<1>7. PICK one : one = <<f>> /\ one \in Seq(Raw) /\ Len(one) = 1
    BY Zenon, <1>4, ShortSeqs
<1>8. PICK s : s = one \o q.got \o one
    BY Zenon
<1>9. s \in Seq(Raw) /\ Len(s) <= 3 /\ s # <<>>
    <2>1. PICK t : t = one \o q.got
        BY Zenon
    <2>2. t \in Seq(Raw) /\ Len(t) = 1 + Len(q.got)
        BY Zenon, <1>5, <1>7, <2>1, ConcatProperties
    <2>3. s \in Seq(Raw) /\ Len(s) = Len(t) + 1
        <3>1. s = t \o one
            BY Zenon, <1>8, <2>1
        <3> QED BY <1>7, <2>2, <3>1, ConcatProperties
    <2>4. Len(s) <= 3 /\ Len(s) # 0
        BY <1>6, <2>2, <2>3
    <2> QED BY Zenon, <2>3, <2>4, EmptySeq
<1>10. Build(r, s) /\ req[r].pc \in {"call", "owner"}
    BY Zenon, <1>1, <1>2, <1>3, <1>7, <1>8
<1> QED BY Zenon, <1>2, <1>4, <1>9, <1>10, BuildMove

\* The other answers that carry tokens of Ory.
LEMMA TokenFlows ==
    ASSUME TokenNames, TokenInv, NEW r \in Procs,
           FlowAnswered(r) \/ Redirected(r) \/ ChallengeRead(r)
    PROVE  TokenInv'
<1>1. CASE FlowAnswered(r)
    <2>1. PICK g : g = req[r].got[1]
        BY Zenon
    <2>2. /\ g \in Raw /\ Build(r, <<g, g>>) /\ req[r].pc = "call" /\ UNCHANGED <<tok, now, ended>>
          /\ live' \subseteq Raw
        BY Zenon, <1>1, <2>1 DEF FlowAnswered, TokenInv, TableInv
    <2>3. <<g, g>> \in Seq(Raw) /\ <<g, g>> # <<>> /\ Len(<<g, g>>) <= 3
        BY Zenon, <2>2, ShortSeqs
    <2> QED BY Zenon, <2>2, <2>3, BuildMove
<1>2. CASE Redirected(r)
    <2>1. PICK f \in Flows : /\ \/ f \in live /\ UNCHANGED live
                                \/ NewFlow(f)
                             /\ Build(r, <<f>>)
        BY Zenon, <1>2 DEF Redirected
    <2>2. /\ f \in Raw /\ live' \subseteq Raw /\ req[r].pc = "call" /\ UNCHANGED <<tok, now, ended>>
        BY Zenon, <1>2, <2>1 DEF Redirected, NewFlow, Raw, TokenInv, TableInv
    <2>3. <<f>> \in Seq(Raw) /\ <<f>> # <<>> /\ Len(<<f>>) <= 3
        BY Zenon, <2>2, ShortSeqs
    <2> QED BY Zenon, <2>1, <2>2, <2>3, BuildMove
<1>3. CASE ChallengeRead(r)
    <2>1. PICK g : g = req[r].got[1]
        BY Zenon
    <2>2. /\ g \in Raw /\ Build(r, <<g>>) /\ req[r].pc = "call" /\ UNCHANGED <<tok, now, ended>>
          /\ live' \subseteq Raw
        BY Zenon, <1>3, <2>1 DEF ChallengeRead, TokenInv, TableInv
    <2>3. <<g>> \in Seq(Raw) /\ <<g>> # <<>> /\ Len(<<g>>) <= 3
        BY Zenon, <2>2, ShortSeqs
    <2> QED BY Zenon, <2>2, <2>3, BuildMove
<1> QED BY Zenon, <1>1, <1>2, <1>3

\* Links, logout tokens and device challenges.
LEMMA TokenLinks ==
    ASSUME TokenNames, TokenInv, NEW r \in Procs,
           CreateLink(r) \/ CreateLogoutFlow(r) \/ GetDeviceVerification(r)
    PROVE  TokenInv'
<1>1. CASE CreateLink(r)
    <2>1. PICK l \in Links, f \in Flows : NewFlow(f) /\ Build(r, <<l, f>>)
        BY Zenon, <1>1 DEF CreateLink
    <2>2. /\ l \in Raw /\ f \in Raw /\ live' \subseteq Raw /\ req[r].pc = "call"
          /\ UNCHANGED <<tok, now, ended>>
        BY Zenon, <1>1, <2>1 DEF CreateLink, NewFlow, Raw, TokenInv, TableInv
    <2>3. <<l, f>> \in Seq(Raw) /\ <<l, f>> # <<>> /\ Len(<<l, f>>) <= 3
        BY Zenon, <2>2, ShortSeqs
    <2> QED BY Zenon, <2>1, <2>2, <2>3, BuildMove
<1>2. CASE CreateLogoutFlow(r) \/ GetDeviceVerification(r)
    <2>1. PICK o \in live : Build(r, <<o>>)
        BY Zenon, <1>2 DEF CreateLogoutFlow, GetDeviceVerification
    <2>2. /\ o \in Raw /\ live' \subseteq Raw /\ req[r].pc = "call" /\ UNCHANGED <<tok, now, ended>>
        BY Zenon, <1>2, <2>1 DEF CreateLogoutFlow, GetDeviceVerification, TokenInv, TableInv
    <2>3. <<o>> \in Seq(Raw) /\ <<o>> # <<>> /\ Len(<<o>>) <= 3
        BY Zenon, <2>2, ShortSeqs
    <2> QED BY Zenon, <2>1, <2>2, <2>3, BuildMove
<1> QED BY Zenon, <1>1, <1>2

\* A submit that Kratos rejects: the last argument is a flow it resolved.
LEMMA TokenRejected ==
    ASSUME TokenNames, TokenInv, NEW r \in Procs, SubmitRejected(r) PROVE TokenInv'
<1>1. PICK q : q = req[r]
    BY Zenon
<1>2. /\ q \in TokenCalls /\ GoodArgs(q) /\ GoodVals(q) /\ q.pc = "call"
      /\ q.op \in {"submit_flow", "submit_token"}
      /\ UNCHANGED <<tok, now, live, issued, ended>> /\ live' \subseteq Raw
    BY Zenon, <1>1 DEF TokenInv, TableInv, SubmitRejected
<1>3. PICK f : f = q.got[Len(q.got)]
    BY Zenon
<1>4. f \in Raw
    <2>1. Len(q.got) = Len(Takes(q.op))
        BY Zenon, <1>2 DEF GoodArgs
    <2>2. Len(q.got) \in 1 .. Len(q.got)
        <3>1. Len(q.got) = 1 \/ Len(q.got) = 2
            BY Zenon, <1>2, <2>1, TakesFew
        <3> QED BY <3>1
    <2>3. How(q.op) \notin {"pass", "global"}
        BY <1>2 DEF How
    <2> QED BY Zenon, <1>2, <1>3, <2>2, <2>3 DEF GoodArgs
<1>5. PICK s : s = <<f, f>> /\ s \in Seq(Raw) /\ s # <<>> /\ Len(s) <= 3
    BY Zenon, <1>4, ShortSeqs
<1>6. PICK x : x = [q EXCEPT !.pc = "errid", !.status = "error", !.todo = s]
    BY Zenon
<1>7. /\ x \in TokenCalls /\ x.pc = "errid" /\ x.todo = s /\ x.args = q.args /\ x.got = q.got
      /\ x.op = q.op /\ x.tenant = q.tenant /\ x.vals = q.vals /\ x.status = "error"
    BY Zenon, <1>2, <1>5, <1>6 DEF TokenCalls
<1>8. GoodArgs(x)
    BY Zenon, <1>2, <1>5, <1>7, ArgsSame
<1>9. GoodVals(x)
    BY Zenon, <1>2, <1>5, <1>7 DEF GoodVals
<1>10. Go(r, x)
    BY Zenon, <1>1, <1>3, <1>5, <1>6 DEF SubmitRejected
<1> QED BY Zenon, <1>2, <1>7, <1>8, <1>9, <1>10, QuietMove

\* Kratos or Hydra consumes the token, or the call fails.
LEMMA TokenConsumed ==
    ASSUME TokenNames, TokenInv, NEW r \in Procs,
           SettleChallenge(r) \/ SubmitLogoutFlow(r) \/ CallFails(r)
    PROVE  TokenInv'
<1>1. UNCHANGED <<tok, now, ended>> /\ live' \subseteq Raw
    BY Zenon DEF SettleChallenge, SubmitLogoutFlow, CallFails, Consume, TokenInv, TableInv
<1>2. RowsKept /\ TableInv'
    BY Zenon, <1>1 DEF RowsKept, HoldsRow, TokenInv, TableInv
<1>3. CASE CallFails(r)
    BY Zenon, <1>1, <1>2, <1>3, FailMove DEF CallFails
<1>4. CASE SettleChallenge(r) \/ SubmitLogoutFlow(r)
    <2>1. PICK q : q = req[r]
        BY Zenon
    <2>2. q \in TokenCalls /\ GoodVals(q) /\ q.pc # "done" /\ Answer(r, q)
        BY Zenon, <1>4, <2>1 DEF TokenInv, SettleChallenge, SubmitLogoutFlow, Consume
    <2>3. GoodVals(q)'
        BY Zenon, <1>2, <2>2, ValsKept
    <2>4. ended' \subseteq Tenants \X Sessions /\ SessionEndedAtHome'
        BY Zenon, <1>1 DEF TokenInv, HistoryInv, SessionEndedAtHome
    <2> QED BY Zenon, <1>2, <2>2, <2>3, <2>4, AnswerMove
<1> QED BY Zenon, <1>3, <1>4

\* A session is read.
LEMMA TokenSession ==
    ASSUME TokenNames, TokenInv, NEW r \in Procs, SessionRead(r) PROVE TokenInv'
<1>1. PICK q : q = req[r]
    BY Zenon
<1>2. /\ q \in TokenCalls /\ GoodArgs(q) /\ GoodVals(q) /\ q.pc = "call"
      /\ UNCHANGED <<tok, now, live, ended>> /\ live' \subseteq Raw
    BY Zenon, <1>1 DEF TokenInv, TableInv, SessionRead
<1>3. PICK s \in Sessions \cap live :
          \/ Build(r, <<s>>)
          \/ /\ q.op \in {"get_session", "delete_session"} /\ q.got = <<s>>
             /\ Go(r, [q EXCEPT !.pc = "owner"])
             /\ UNCHANGED issued
    BY Zenon, <1>1 DEF SessionRead
<1>4. s \in Raw
    BY Zenon DEF Raw
<1>5. <<s>> \in Seq(Raw) /\ <<s>> # <<>> /\ Len(<<s>>) = 1 /\ Len(<<s>>) <= 3 /\ <<s>>[1] = s
    BY Zenon, <1>4, ShortSeqs
<1>6. CASE Build(r, <<s>>)
    BY Zenon, <1>1, <1>2, <1>5, <1>6, BuildMove
<1>7. CASE /\ q.op \in {"get_session", "delete_session"} /\ q.got = <<s>>
           /\ Go(r, [q EXCEPT !.pc = "owner"])
           /\ UNCHANGED issued
    <2>1. PICK x : x = [q EXCEPT !.pc = "owner"]
        BY Zenon
    <2>2. /\ x \in TokenCalls /\ x.pc = "owner" /\ x.todo = q.todo /\ x.args = q.args
          /\ x.got = q.got /\ x.op = q.op /\ x.tenant = q.tenant /\ x.vals = q.vals
          /\ x.status = q.status
        BY Zenon, <1>2, <2>1 DEF TokenCalls
    <2>3. Len(x.got) = 1 /\ x.got[1] \in Sessions
        BY Zenon, <1>5, <1>7, <2>2
    <2>4. GoodArgs(x)
        BY Zenon, <1>2, <1>7, <2>2, <2>3 DEF GoodArgs
    <2>5. GoodVals(x)
        BY Zenon, <1>2, <2>2 DEF GoodVals
    <2> QED BY Zenon, <1>2, <1>7, <2>1, <2>2, <2>4, <2>5, QuietMove
<1> QED BY Zenon, <1>3, <1>6, <1>7

\* The owner of a session is looked up, and the session ended.
LEMMA TokenOwner ==
    ASSUME TokenNames, TokenInv, NEW r \in Procs, CheckOwner(r) \/ DeleteSession(r)
    PROVE  TokenInv'
<1>1. PICK q : q = req[r]
    BY Zenon
<1>2. q \in TokenCalls /\ GoodArgs(q) /\ GoodVals(q) /\ q.pc \in {"owner", "end"}
    BY Zenon, <1>1 DEF TokenInv, CheckOwner, DeleteSession
<1>3. /\ Len(q.got) = 1 /\ q.got[1] \in Sessions /\ q.got[1] \in Raw
      /\ q.op \in {"get_session", "delete_session"}
    BY Zenon, <1>2 DEF GoodArgs, Raw
<1>4. UNCHANGED <<tok, now>> /\ live' \subseteq Raw
    BY Zenon DEF CheckOwner, DeleteSession, TokenInv, TableInv
<1>5. RowsKept /\ TableInv'
    BY Zenon, <1>4 DEF RowsKept, HoldsRow, TokenInv, TableInv
<1>6. CASE CheckOwner(r)
    <2>1. q.pc = "owner" /\ UNCHANGED ended
        BY Zenon, <1>1, <1>6 DEF CheckOwner
    <2>2. CASE ~OwnedHere(q.tenant, q.got[1])
        <3>1. Fail(r)
            BY Zenon, <1>1, <1>6, <2>2 DEF CheckOwner
        <3> QED BY Zenon, <1>5, <2>1, <3>1, FailMove
    <2>3. CASE OwnedHere(q.tenant, q.got[1]) /\ q.op = "get_session"
        <3>1. Build(r, q.got)
            BY Zenon, <1>1, <1>6, <2>3 DEF CheckOwner
        <3>2. q.got \in Seq(Raw) /\ q.got # <<>> /\ Len(q.got) <= 3
            <4>1. q.got \in Seq(Tokens)
                BY Zenon, <1>2 DEF TokenCalls
            <4>2. \A n \in 1 .. Len(q.got) : q.got[n] \in Raw
                BY <1>3
            <4>3. q.got # <<>>
                BY <1>3, EmptySeq
            <4>4. Len(q.got) <= 3
                BY <1>3
            <4> QED BY Zenon, <4>1, <4>2, <4>3, <4>4, RawSeq
        <3> QED BY Zenon, <1>1, <1>2, <1>4, <2>1, <3>1, <3>2, BuildMove
    <2>4. CASE OwnedHere(q.tenant, q.got[1]) /\ q.op # "get_session"
        <3>1. PICK x : x = [q EXCEPT !.pc = "end"]
            BY Zenon
        <3>2. /\ x \in TokenCalls /\ x.pc = "end" /\ x.todo = q.todo /\ x.args = q.args
              /\ x.got = q.got /\ x.op = q.op /\ x.tenant = q.tenant /\ x.vals = q.vals
              /\ x.status = q.status
            BY Zenon, <1>2, <3>1 DEF TokenCalls
        <3>3. GoodArgs(x)
            BY Zenon, <1>2, <1>3, <2>4, <3>2 DEF GoodArgs
        <3>4. GoodVals(x)
            BY Zenon, <1>2, <3>2 DEF GoodVals
        <3>5. Go(r, x) /\ UNCHANGED issued
            BY Zenon, <1>1, <1>6, <2>4, <3>1 DEF CheckOwner
        <3> QED BY Zenon, <1>4, <2>1, <3>2, <3>3, <3>4, <3>5, QuietMove
    <2> QED BY Zenon, <2>2, <2>3, <2>4
<1>7. CASE DeleteSession(r)
    <2>1. /\ q.pc = "end" /\ Answer(r, q)
          /\ ended' = ended \cup {<<q.tenant, q.got[1]>>}
        BY Zenon, <1>1, <1>7 DEF DeleteSession
    <2>2. OwnedHere(q.tenant, q.got[1]) /\ q.tenant \in Tenants
        BY Zenon, <1>2, <2>1 DEF GoodArgs, TokenCalls
    <2>3. GoodVals(q)'
        BY Zenon, <1>2, <1>5, ValsKept
    <2>4. ended' \subseteq Tenants \X Sessions
        <3>1. <<q.tenant, q.got[1]>> \in Tenants \X Sessions
            BY Zenon, <1>3, <2>2
        <3>2. ended \subseteq Tenants \X Sessions
            BY Zenon DEF TokenInv, HistoryInv
        <3> QED BY Zenon, <2>1, <3>1, <3>2
    <2>5. SessionEndedAtHome'
        <3> SUFFICES ASSUME NEW e \in ended' PROVE <<e[1], IdentityOf[e[2]]>> \in Mapped
            BY Zenon DEF SessionEndedAtHome
        <3>1. CASE e \in ended
            BY Zenon, <3>1 DEF TokenInv, HistoryInv, SessionEndedAtHome
        <3>2. CASE e = <<q.tenant, q.got[1]>>
            <4>1. e[1] = q.tenant /\ e[2] = q.got[1]
                BY Zenon, <3>2
            <4> QED BY Zenon, <2>2, <4>1 DEF OwnedHere
        <3> QED BY Zenon, <2>1, <3>1, <3>2
    <2> QED BY Zenon, <1>2, <1>5, <2>1, <2>3, <2>4, <2>5, AnswerMove
<1> QED BY Zenon, <1>6, <1>7

\* Value p may stand for token o in the answer of q.
MayStand(q, o, p) ==
    /\ p \in Publics => HoldsRow(p, q.tenant, o)
    /\ q.status = "ok" => p \in Publics

\* A pair is added to what the answer holds.
Added(q, o, p) == [q EXCEPT !.vals = q.vals \cup {<<o, p>>}]

LEMMA ValAdded ==
    ASSUME NEW q \in TokenCalls, GoodArgs(q), q.pc \in {"peek", "mint"}, GoodVals(q)',
           NEW o \in Raw, NEW p \in Tokens,
           MayStand(q, o, p)',
           NEW x, x = Added(q, o, p)
    PROVE  x \in TokenCalls /\ x.pc = q.pc /\ GoodArgs(x) /\ GoodVals(x)'
<1>1. PICK vs : vs = q.vals \cup {<<o, p>>} /\ x = [q EXCEPT !.vals = vs]
    BY Zenon DEF Added
<1>2. vs \in SUBSET (Raw \X (Tokens \cup {Blank}))
    <2>1. q.vals \in SUBSET (Raw \X (Tokens \cup {Blank}))
        BY Zenon DEF TokenCalls
    <2>2. <<o, p>> \in Raw \X (Tokens \cup {Blank})
        BY Zenon
    <2> QED BY Zenon, <1>1, <2>1, <2>2
<1>3. /\ x \in TokenCalls /\ x.pc = q.pc /\ x.todo = q.todo /\ x.args = q.args
      /\ x.got = q.got /\ x.op = q.op /\ x.tenant = q.tenant /\ x.vals = vs
      /\ x.status = q.status
    BY Zenon, <1>1, <1>2 DEF TokenCalls
<1>4. GoodArgs(x)
    <2>1. Len(x.todo) <= 3
        BY Zenon, <1>3 DEF GoodArgs
    <2> QED BY Zenon, <1>3, <2>1, ArgsSame
<1>5. \A v \in vs : v \in q.vals \/ (v[1] = o /\ v[2] = p)
    <2> SUFFICES ASSUME NEW v \in vs, v \notin q.vals PROVE v[1] = o /\ v[2] = p
        BY Zenon
    <2>1. v = <<o, p>>
        BY Zenon, <1>1
    <2> QED BY Zenon, <2>1
<1>6. GoodVals(x)'
    <2>1. \A v \in vs : v[2] \in Publics => HoldsRow(v[2], q.tenant, v[1])'
        <3> SUFFICES ASSUME NEW v \in vs, v[2] \in Publics
                     PROVE  HoldsRow(v[2], q.tenant, v[1])'
            BY Zenon
        <3>1. CASE v \in q.vals
            BY Zenon, <3>1 DEF GoodVals
        <3>2. CASE v[1] = o /\ v[2] = p
            BY Zenon, <3>2 DEF MayStand
        <3> QED BY Zenon, <1>5, <3>1, <3>2
    <2>2. q.status = "ok" => \A v \in vs : v[2] \in Publics
        BY Zenon, <1>5 DEF GoodVals, MayStand
    <2>3. q.todo # <<>>
        BY Zenon DEF GoodVals
    <2> QED BY Zenon, <1>3, <2>1, <2>2, <2>3 DEF GoodVals
<1> QED BY Zenon, <1>3, <1>4, <1>6

\* public_challenge looks for a live id first.
LEMMA TokenPeek ==
    ASSUME TokenNames, TokenInv, NEW r \in Procs, Peek(r) PROVE TokenInv'
<1>1. PICK q : q = req[r]
    BY Zenon
<1>2. /\ q \in TokenCalls /\ GoodArgs(q) /\ GoodVals(q) /\ q.pc = "peek"
      /\ UNCHANGED <<tok, now, live, ended>> /\ live' \subseteq Raw
    BY Zenon, <1>1 DEF TokenInv, TableInv, Peek
<1>3. q.todo \in Seq(Raw) /\ q.todo # <<>>
    BY Zenon, <1>2 DEF TokenCalls, GoodVals
<1>4. PICK o \in Raw : o = Head(q.todo)
    BY Zenon, <1>3, HeadTailProperties
<1>5. RowsKept /\ TableInv'
    BY Zenon, <1>2 DEF RowsKept, HoldsRow, TokenInv, TableInv
<1>6. \/ Go(r, [q EXCEPT !.pc = "mint"]) /\ UNCHANGED issued
      \/ \E p \in RowsOf(q.tenant, o) : Field(r, [q EXCEPT !.vals = q.vals \cup {<<o, p>>}])
    BY Zenon, <1>1, <1>4 DEF Peek
<1>7. CASE Go(r, [q EXCEPT !.pc = "mint"]) /\ UNCHANGED issued
    <2>1. PICK x : x = [q EXCEPT !.pc = "mint"]
        BY Zenon
    <2>2. /\ x \in TokenCalls /\ x.pc = "mint" /\ x.todo = q.todo /\ x.args = q.args
          /\ x.got = q.got /\ x.op = q.op /\ x.tenant = q.tenant /\ x.vals = q.vals
          /\ x.status = q.status
        BY Zenon, <1>2, <2>1 DEF TokenCalls
    <2>3. GoodArgs(x)
        <3>1. Len(x.todo) <= 3
            BY Zenon, <1>2, <2>2 DEF GoodArgs
        <3> QED BY Zenon, <1>2, <2>2, <3>1, ArgsSame
    <2>4. GoodVals(x)
        BY Zenon, <1>2, <2>2 DEF GoodVals
    <2> QED BY Zenon, <1>2, <1>7, <2>1, <2>2, <2>3, <2>4, QuietMove
<1>8. CASE \E p \in RowsOf(q.tenant, o) : Field(r, [q EXCEPT !.vals = q.vals \cup {<<o, p>>}])
    <2>1. PICK p \in RowsOf(q.tenant, o) : Field(r, [q EXCEPT !.vals = q.vals \cup {<<o, p>>}])
        BY Zenon, <1>8
    <2>2. p \in Publics /\ p \in Tokens /\ HoldsRow(p, q.tenant, o)
        BY Zenon DEF RowsOf, HoldsRow, Tokens
    <2>3. HoldsRow(p, q.tenant, o)' /\ GoodVals(q)'
        BY Zenon, <1>2, <1>5, <2>2, ValsKept DEF RowsKept
    <2>4. PICK x : x = Added(q, o, p)
        BY Zenon
    <2>5. x \in TokenCalls /\ x.pc = q.pc /\ GoodArgs(x) /\ GoodVals(x)'
        <3>1. q.pc \in {"peek", "mint"}
            BY Zenon, <1>2
        <3>2. MayStand(q, o, p)'
            BY Zenon, <2>2, <2>3 DEF MayStand
        <3> QED BY Zenon, <1>2, <2>2, <2>3, <2>4, <3>1, <3>2, ValAdded
    <2>6. Field(r, x) /\ x.pc \in {"peek", "mint"}
        BY Zenon, <1>2, <2>1, <2>4, <2>5 DEF Added
    <2> QED BY Zenon, <1>2, <1>5, <2>5, <2>6, FieldMove
<1> QED BY Zenon, <1>6, <1>7, <1>8

\* An id is minted, or the INSERT fails.
LEMMA TokenMint ==
    ASSUME TokenNames, TokenInv, FreshUlids, NEW r \in Procs, Mint(r) \/ MintFails(r)
    PROVE  TokenInv'
<1>1. PICK q : q = req[r]
    BY Zenon
<1>2. /\ q \in TokenCalls /\ GoodArgs(q) /\ GoodVals(q) /\ q.pc = "mint"
      /\ UNCHANGED <<now, live, ended>>
    BY Zenon, <1>1 DEF TokenInv, Mint, MintFails
<1>3. q.todo \in Seq(Raw) /\ q.todo # <<>> /\ q.tenant \in Tenants
    BY Zenon, <1>2 DEF TokenCalls, GoodVals
<1>4. PICK o \in Raw : o = Head(q.todo)
    BY Zenon, <1>3, HeadTailProperties
<1>5. CASE Mint(r)
    <2>1. PICK p : p = MintedId(q.tenant, o)
        BY Zenon
    <2>2. Create(q.tenant, o)
        BY Zenon, <1>1, <1>4, <1>5 DEF Mint
    <2>3. TableInv' /\ RowsKept /\ HoldsRow(p, q.tenant, o)'
        BY Zenon, <1>2, <1>3, <2>1, <2>2, CreateRow
    <2>4. p \in Publics /\ p \in Tokens /\ GoodVals(q)'
        BY Zenon, <1>2, <2>3, ValsKept DEF HoldsRow, Tokens
    <2>5. PICK x : x = Added(q, o, p)
        BY Zenon
    <2>6. x \in TokenCalls /\ x.pc = q.pc /\ GoodArgs(x) /\ GoodVals(x)'
        <3>1. q.pc \in {"peek", "mint"}
            BY Zenon, <1>2
        <3>2. MayStand(q, o, p)'
            BY Zenon, <2>3, <2>4 DEF MayStand
        <3> QED BY Zenon, <1>2, <2>4, <2>5, <3>1, <3>2, ValAdded
    <2>7. Fail(r) \/ Field(r, x)
        BY Zenon, <1>1, <1>4, <1>5, <2>1, <2>5 DEF Mint, Added
    <2>8. CASE Fail(r)
        BY Zenon, <1>2, <2>3, <2>8, FailMove
    <2>9. CASE Field(r, x)
        <3>1. x.pc \in {"peek", "mint"}
            BY Zenon, <1>2, <2>6
        <3> QED BY Zenon, <1>2, <2>3, <2>6, <2>9, <3>1, FieldMove
    <2> QED BY Zenon, <2>7, <2>8, <2>9
<1>6. CASE MintFails(r)
    <2>1. UNCHANGED tok
        BY Zenon, <1>6 DEF MintFails
    <2>2. RowsKept /\ TableInv'
        BY Zenon, <1>2, <2>1 DEF RowsKept, HoldsRow, TokenInv, TableInv
    <2>3. CASE q.status # "error"
        <3>1. Fail(r)
            BY Zenon, <1>1, <1>6, <2>3 DEF MintFails
        <3> QED BY Zenon, <1>2, <2>2, <3>1, FailMove
    <2>4. CASE q.status = "error"
        <3>1. PICK p \in Tokens : p = o
            BY Zenon DEF Tokens
        <3>2. PICK x : x = Added(q, o, p)
            BY Zenon
        <3>3. x \in TokenCalls /\ x.pc = q.pc /\ GoodArgs(x) /\ GoodVals(x)'
            <4>1. q.pc \in {"peek", "mint"}
                BY Zenon, <1>2
            <4>2. MayStand(q, o, p)'
                BY Zenon, <2>4, <3>1 DEF MayStand, TokenNames
            <4>3. GoodVals(q)'
                BY Zenon, <1>2, <2>2, ValsKept
            <4> QED BY Zenon, <1>2, <3>2, <4>1, <4>2, <4>3, ValAdded
        <3>4. Field(r, x) /\ x.pc \in {"peek", "mint"}
            BY Zenon, <1>1, <1>2, <1>4, <1>6, <2>4, <3>1, <3>2, <3>3 DEF MintFails, Added
        <3> QED BY Zenon, <1>2, <2>2, <3>3, <3>4, FieldMove
    <2> QED BY Zenon, <2>3, <2>4
<1> QED BY Zenon, <1>5, <1>6

\* The id of an error body.
LEMMA TokenErrorId ==
    ASSUME TokenNames, TokenInv, NEW r \in Procs, ErrorId(r) PROVE TokenInv'
<1>1. PICK q : q = req[r]
    BY Zenon
<1>2. /\ q \in TokenCalls /\ GoodArgs(q) /\ GoodVals(q) /\ q.pc = "errid" /\ q.status = "error"
      /\ UNCHANGED <<tok, now, live, ended>> /\ live' \subseteq Raw
    BY Zenon, <1>1 DEF TokenInv, TableInv, ErrorId, GoodVals
<1>3. q.todo \in Seq(Raw) /\ q.todo # <<>> /\ Len(q.todo) <= 3
    BY Zenon, <1>2 DEF TokenCalls, GoodVals, GoodArgs
<1>4. PICK f \in Raw : f = Head(q.todo)
    BY Zenon, <1>3, HeadTailProperties
<1>5. RowsKept /\ TableInv'
    BY Zenon, <1>2 DEF RowsKept, HoldsRow, TokenInv, TableInv
<1>6. \/ \E p \in RowsOf(q.tenant, f) :
             Go(r, [q EXCEPT !.pc = "mint", !.vals = {<<f, p>>}]) /\ UNCHANGED issued
      \/ Answer(r, [q EXCEPT !.vals = {<<f, Blank>>}])
    BY Zenon, <1>1, <1>4 DEF ErrorId
<1>7. ASSUME NEW p \in RowsOf(q.tenant, f),
             Go(r, [q EXCEPT !.pc = "mint", !.vals = {<<f, p>>}]), UNCHANGED issued
      PROVE  TokenInv'
    <2>1. p \in Publics /\ HoldsRow(p, q.tenant, f)
        BY Zenon DEF RowsOf, HoldsRow
    <2>2. PICK vs : vs = {<<f, p>>}
        BY Zenon
    <2>3. /\ vs \in SUBSET (Raw \X (Tokens \cup {Blank}))
          /\ \A v \in vs : v[1] = f /\ v[2] = p
        <3>1. <<f, p>> \in Raw \X (Tokens \cup {Blank})
            BY Zenon, <2>1 DEF Tokens
        <3>2. vs \in SUBSET (Raw \X (Tokens \cup {Blank}))
            BY Zenon, <2>2, <3>1
        <3>3. ASSUME NEW v \in vs PROVE v[1] = f /\ v[2] = p
            <4>1. v = <<f, p>>
                BY Zenon, <2>2
            <4> QED BY Zenon, <4>1
        <3> QED BY Zenon, <3>2, <3>3
    <2>4. PICK x : x = [q EXCEPT !.pc = "mint", !.vals = vs]
        BY Zenon
    <2>5. /\ x \in TokenCalls /\ x.pc = "mint" /\ x.todo = q.todo /\ x.args = q.args
          /\ x.got = q.got /\ x.op = q.op /\ x.tenant = q.tenant /\ x.vals = vs
        BY Zenon, <1>2, <2>3, <2>4 DEF TokenCalls
    <2>6. GoodArgs(x)
        BY Zenon, <1>2, <1>3, <2>5, ArgsSame
    <2>7. GoodVals(x)
        BY Zenon, <1>3, <2>1, <2>3, <2>5 DEF GoodVals
    <2>8. Go(r, x)
        BY Zenon, <1>7, <2>2, <2>4
    <2> QED BY Zenon, <1>2, <1>7, <2>5, <2>6, <2>7, <2>8, QuietMove
<1>8. CASE Answer(r, [q EXCEPT !.vals = {<<f, Blank>>}])
    <2>1. PICK vs : vs = {<<f, Blank>>}
        BY Zenon
    <2>2. /\ vs \in SUBSET (Raw \X (Tokens \cup {Blank}))
          /\ \A v \in vs : v[2] \notin Publics
        <3>1. <<f, Blank>> \in Raw \X (Tokens \cup {Blank})
            BY Zenon
        <3>2. vs \in SUBSET (Raw \X (Tokens \cup {Blank}))
            BY Zenon, <2>1, <3>1
        <3>3. ASSUME NEW v \in vs PROVE v[2] \notin Publics
            <4>1. v = <<f, Blank>>
                BY Zenon, <2>1
            <4>2. v[2] = Blank
                BY Zenon, <4>1
            <4> QED BY Zenon, <4>2 DEF TokenNames
        <3> QED BY Zenon, <3>2, <3>3
    <2>3. PICK x : x = [q EXCEPT !.vals = vs]
        BY Zenon
    <2>4. /\ x \in TokenCalls /\ x.pc = "errid" /\ x.todo = q.todo /\ x.vals = vs
          /\ x.status = "error"
        BY Zenon, <1>2, <2>2, <2>3 DEF TokenCalls
    <2>5. GoodVals(x)'
        BY Zenon, <1>3, <2>2, <2>4 DEF GoodVals
    <2>6. Answer(r, x) /\ x.pc # "done"
        BY Zenon, <1>8, <2>1, <2>3, <2>4
    <2>7. ended' \subseteq Tenants \X Sessions /\ SessionEndedAtHome'
        BY Zenon, <1>2 DEF TokenInv, HistoryInv, SessionEndedAtHome
    <2> QED BY Zenon, <1>5, <2>4, <2>5, <2>6, <2>7, AnswerMove
<1> QED BY Zenon, <1>6, <1>7, <1>8

\* Nothing is in flight at first.
LEMMA TokenInit == TokenNames /\ Init => TokenInv
<1> SUFFICES ASSUME TokenNames, Init PROVE TokenInv
    BY Zenon
<1>1. TableInv
    <2>1. 0 \in 0 .. MaxTime
        BY DEF TokenNames
    <2> QED BY Zenon, <2>1 DEF Init, TableInv, Raw
<1>2. HistoryInv
    BY Zenon DEF Init, HistoryInv, SessionEndedAtHome
<1>3. \A r \in Procs : req[r] = Idle
    BY Zenon DEF Init
<1>4. req \in [Procs -> TokenCalls]
    BY Zenon, IdleCall DEF Init
<1>5. \A r \in Procs : GoodArgs(req[r]) /\ GoodVals(req[r])
    BY Zenon, <1>3, IdleCall
<1> QED BY Zenon, <1>1, <1>2, <1>4, <1>5 DEF TokenInv

\* Time passes, or nothing happens.
LEMMA TokenQuiet ==
    ASSUME TokenNames, TokenInv, Tick \/ UNCHANGED vars PROVE TokenInv'
<1>1. UNCHANGED <<tok, live, req, issued, ended>> /\ now' \in 0 .. MaxTime
    <2>1. CASE Tick
        BY <2>1 DEF Tick, TokenNames, TokenInv, TableInv
    <2>2. CASE UNCHANGED vars
        BY Zenon, <2>2 DEF vars, TokenInv, TableInv
    <2> QED BY Zenon, <2>1, <2>2
<1>2. RowsKept /\ TableInv'
    BY Zenon, <1>1 DEF RowsKept, HoldsRow, TokenInv, TableInv
<1>3. HistoryInv'
    BY Zenon, <1>1, <1>2 DEF TokenInv, HistoryInv, RowsKept, SessionEndedAtHome
<1>4. ASSUME NEW r \in Procs PROVE GoodArgs(req[r])' /\ GoodVals(req[r])'
    <2>1. PICK x : x = req[r] /\ x = req'[r]
        BY Zenon, <1>1
    <2>2. GoodArgs(x) /\ GoodVals(x)
        BY Zenon, <2>1 DEF TokenInv
    <2>3. GoodVals(x)'
        BY Zenon, <1>2, <2>2, ValsKept
    <2>4. GoodArgs(req[r])'
        BY Zenon, <2>1, <2>2 DEF GoodArgs, OwnedHere
    <2>5. GoodVals(req[r])'
        BY Zenon, <2>1, <2>3 DEF GoodVals
    <2> QED BY Zenon, <2>4, <2>5
<1> QED BY Zenon, <1>1, <1>2, <1>3, <1>4 DEF TokenInv

\* Every step keeps the invariant, as long as a ULID is new.
LEMMA TokenStep == TokenNames /\ TokenInv /\ FreshUlids /\ [Next]_vars => TokenInv'
<1> SUFFICES ASSUME TokenNames, TokenInv, FreshUlids, [Next]_vars PROVE TokenInv'
    BY Zenon
<1>1. ASSUME NEW r \in Procs, Steps(r) PROVE TokenInv'
    BY Zenon, <1>1, TokenBegin, TokenResolve, TokenCreateFlow, TokenFlows, TokenLinks,
       TokenRejected, TokenConsumed, TokenSession, TokenOwner, TokenPeek, TokenMint,
       TokenErrorId DEF Steps
<1> QED BY Zenon, <1>1, TokenQuiet DEF Next

\* What the invariant says of the ids in answers: the rows of two ids for one
\* tenant's token are one row.
LEMMA OneIdOneToken == TokenInv => SameTokenSameId
<1> SUFFICES ASSUME TokenInv, NEW i \in issued, NEW j \in issued
             PROVE  (i[1] = j[1] /\ i[2] = j[2]) <=> i[3] = j[3]
    BY Zenon DEF SameTokenSameId
<1>1. HoldsRow(i[3], i[1], i[2]) /\ HoldsRow(j[3], j[1], j[2])
    BY Zenon DEF TokenInv, HistoryInv
<1> QED BY Zenon, <1>1 DEF HoldsRow, TokenInv, TableInv

\* One tenant is answered one id for one token, however requests race to mint
\* it and long after its row expired, and one id stands for one token of one
\* tenant, as long as Ulid::new answers a new ULID (TransientTokenRepository).
THEOREM IdsStable ==
    ASSUME TokenNames
    PROVE  Spec /\ []FreshUlids => []SameTokenSameId
<1>1. Init => TokenInv
    BY Zenon, TokenInit
<1>2. TokenInv /\ FreshUlids /\ [Next]_vars => TokenInv'
    BY Zenon, TokenStep
<1> QED BY <1>1, <1>2, OneIdOneToken, PTL DEF Spec

\* Public ids face the callers and raw tokens face Kratos and Hydra: a
\* successful answer carries no raw token, and an id is only resolved for the
\* purpose it was minted for (IdentitySelfServiceMapper, resolve_flow).
THEOREM TokensBounded ==
    ASSUME TokenNames
    PROVE  Spec /\ []FreshUlids => [](NoRawInAnswers /\ RightKind)
<1>1. Init => TokenInv
    BY Zenon, TokenInit
<1>2. TokenInv /\ FreshUlids /\ [Next]_vars => TokenInv'
    BY Zenon, TokenStep
<1>3. TokenInv => NoRawInAnswers /\ RightKind
    BY Zenon DEF TokenInv, GoodArgs, GoodVals, NoRawInAnswers, RightKind
<1> QED BY <1>1, <1>2, <1>3, PTL DEF Spec

\* delete_session only ends sessions of identities mapped in the caller's
\* tenant, whatever tenants asked for the session before.
THEOREM SessionsEndAtHome ==
    ASSUME TokenNames
    PROVE  Spec /\ []FreshUlids => []SessionEndedAtHome
<1>1. Init => TokenInv
    BY Zenon, TokenInit
<1>2. TokenInv /\ FreshUlids /\ [Next]_vars => TokenInv'
    BY Zenon, TokenStep
<1>3. TokenInv => SessionEndedAtHome
    BY Zenon DEF TokenInv, HistoryInv
<1> QED BY <1>1, <1>2, <1>3, PTL DEF Spec

\* A short sequence is one of the functions that the module's types list.
LEMMA ShortSeqType ==
    ASSUME NEW S, NEW s \in Seq(S), NEW k \in Nat, Len(s) <= k
    PROVE  s \in UNION {[1 .. n -> S] : n \in 0 .. k}
<1>1. Len(s) \in Nat /\ s \in [1 .. Len(s) -> S]
    BY Zenon, LenProperties
<1>2. Len(s) \in 0 .. k
    BY <1>1
<1>3. \E n \in 0 .. k : [1 .. Len(s) -> S] = [1 .. n -> S]
    BY Zenon, <1>2
<1>4. [1 .. Len(s) -> S] \in {[1 .. n -> S] : n \in 0 .. k}
    BY Zenon, <1>3
<1> QED BY Zenon, <1>1, <1>4

\* The rows stay unique on their key, and a request holds only tokens.
THEOREM TransientTypeCorrect ==
    ASSUME TokenNames
    PROVE  Spec /\ []FreshUlids => []TypeOK
<1>1. Init => TokenInv
    BY Zenon, TokenInit
<1>2. TokenInv /\ FreshUlids /\ [Next]_vars => TokenInv'
    BY Zenon, TokenStep
<1>3. TokenInv => TypeOK
    <2> SUFFICES ASSUME TokenInv PROVE TypeOK
        BY Zenon
    <2>1. ASSUME NEW t \in Tenants, NEW o \in Raw PROVE Cardinality(RowsOf(t, o)) <= 1
        <3>1. CASE RowsOf(t, o) = {}
            <4>1. Cardinality(RowsOf(t, o)) = 0
                BY Zenon, <3>1, FS_EmptySet
            <4> QED BY <4>1
        <3>2. CASE RowsOf(t, o) # {}
            <4>1. PICK p : p \in RowsOf(t, o)
                BY Zenon, <3>2
            <4>2. \A q \in RowsOf(t, o) : q = p
                BY Zenon, <4>1 DEF RowsOf, TokenInv, TableInv
            <4>3. RowsOf(t, o) = {p}
                BY Zenon, <4>1, <4>2
            <4>4. Cardinality(RowsOf(t, o)) = 1
                BY Zenon, <4>3, FS_Singleton
            <4> QED BY <4>4
        <3> QED BY Zenon, <3>1, <3>2
    <2>2. ASSUME NEW r \in Procs PROVE req[r] \in Request
        <3>1. PICK q : q = req[r]
            BY Zenon
        <3>2. q \in TokenCalls /\ GoodArgs(q)
            BY Zenon, <3>1 DEF TokenInv
        <3>3. /\ q.args \in Seq(Tokens) /\ q.got \in Seq(Tokens) /\ q.todo \in Seq(Raw)
              /\ Len(q.args) \in Nat /\ Len(q.got) \in Nat
            BY Zenon, <3>2, LenProperties DEF TokenCalls
        <3>4. Len(q.args) <= 2 /\ Len(q.got) <= 2 /\ Len(q.todo) <= 3
            BY <3>2, <3>3 DEF GoodArgs
        <3>5. /\ q.args \in UNION {[1 .. n -> Tokens] : n \in 0 .. 2}
              /\ q.got \in UNION {[1 .. n -> Tokens] : n \in 0 .. 2}
              /\ q.todo \in UNION {[1 .. n -> Raw] : n \in 0 .. 3}
            <4>1. 2 \in Nat /\ 3 \in Nat
                OBVIOUS
            <4> QED BY Zenon, <3>3, <3>4, <4>1, ShortSeqType
        <3>6. q \in Request
            BY Zenon, <3>2, <3>5 DEF TokenCalls, Request, Tokens
        <3> QED BY Zenon, <3>1, <3>6
    <2>3. req \in [Procs -> Request]
        BY Zenon, <2>2 DEF TokenInv
    <2> QED BY Zenon, <2>1, <2>3 DEF TypeOK, TokenInv, TableInv, HistoryInv, TokenRows
<1> QED BY <1>1, <1>2, <1>3, PTL DEF Spec

\* The ids used so far are the first ones.
UlidsInOrder == \E m \in Nat : \A p \in Publics : tok[p] = None <=> p > m

\* The next ULID is the first unused id.
LEMMA NextUlid ==
    ASSUME Publics = Nat \ {0}, NEW m \in Nat, \A p \in Publics : tok[p] = None <=> p > m
    PROVE  NextPublic \in Publics /\ NextPublic = m + 1
<1>1. m + 1 \in Publics /\ tok[m + 1] = None /\ \A q \in Publics : tok[q] = None => m + 1 <= q
    <2>1. m + 1 \in Publics /\ m + 1 > m
        OBVIOUS
    <2>2. \A q \in Publics : q > m => m + 1 <= q
        OBVIOUS
    <2> QED BY Zenon, <2>1, <2>2
<1>2. /\ NextPublic \in Publics /\ tok[NextPublic] = None
      /\ \A q \in Publics : tok[q] = None => NextPublic <= q
    BY Zenon, <1>1 DEF NextPublic
<1>3. NextPublic > m /\ NextPublic <= m + 1
    BY Zenon, <1>1, <1>2
<1> QED BY <1>2, <1>3

\* Requests only ever upsert rows.
LEMMA TableMoves ==
    ASSUME TokenInv, [Next]_vars
    PROVE  tok' = tok \/ \E t \in Tenants, o \in Raw : Create(t, o)
<1>1. ASSUME NEW r \in Procs, Mint(r) PROVE \E t \in Tenants, o \in Raw : Create(t, o)
    <2>1. PICK q : q = req[r]
        BY Zenon
    <2>2. q \in TokenCalls /\ GoodVals(q) /\ q.pc = "mint" /\ Create(q.tenant, Head(q.todo))
        BY Zenon, <1>1, <2>1 DEF TokenInv, Mint
    <2>3. q.todo \in Seq(Raw) /\ q.todo # <<>> /\ q.tenant \in Tenants
        BY Zenon, <2>2 DEF TokenCalls, GoodVals
    <2>4. Head(q.todo) \in Raw
        BY Zenon, <2>3, HeadTailProperties
    <2> QED BY Zenon, <2>2, <2>3, <2>4
<1>2. ASSUME NEW r \in Procs, Steps(r), ~Mint(r) PROVE tok' = tok
    BY Zenon, <1>2 DEF Steps, Begin, Resolve, CreateFlow, FlowAnswered, Redirected,
       SubmitRejected, CreateLink, CreateLogoutFlow, GetDeviceVerification, ChallengeRead,
       SettleChallenge, SubmitLogoutFlow, Consume, SessionRead, CallFails, CheckOwner,
       DeleteSession, Peek, MintFails, ErrorId
<1> QED BY Zenon, <1>1, <1>2 DEF Next, Tick, vars

\* ULIDs that never run out are new whenever one is taken.
THEOREM UlidsStayFresh ==
    ASSUME TokenNames, Publics = Nat \ {0}
    PROVE  Spec => []FreshUlids
<1>1. Init => TokenInv /\ UlidsInOrder
    <2>1. Init => UlidsInOrder
        <3> SUFFICES ASSUME Init PROVE UlidsInOrder
            BY Zenon
        <3>1. \A p \in Publics : tok[p] = None
            BY Zenon DEF Init
        <3>2. 0 \in Nat /\ \A p \in Publics : p > 0
            OBVIOUS
        <3> QED BY Zenon, <3>1, <3>2 DEF UlidsInOrder
    <2> QED BY Zenon, <2>1, TokenInit
<1>2. UlidsInOrder => FreshUlids
    <2> SUFFICES ASSUME UlidsInOrder PROVE FreshUlids
        BY Zenon
    <2>1. PICK m \in Nat : \A p \in Publics : tok[p] = None <=> p > m
        BY Zenon DEF UlidsInOrder
    <2>2. NextPublic \in Publics /\ NextPublic = m + 1
        BY Zenon, <2>1, NextUlid
    <2>3. m + 1 > m
        OBVIOUS
    <2>4. tok[NextPublic] = None
        BY Zenon, <2>1, <2>2, <2>3
    <2> QED BY Zenon, <2>2, <2>4 DEF FreshUlids
<1>3. TokenInv /\ UlidsInOrder /\ [Next]_vars => (TokenInv /\ UlidsInOrder)'
    <2> SUFFICES ASSUME TokenInv, UlidsInOrder, [Next]_vars PROVE TokenInv' /\ UlidsInOrder'
        BY Zenon
    <2>1. TokenInv' /\ FreshUlids
        BY Zenon, <1>2, TokenStep
    <2>2. PICK m \in Nat : \A p \in Publics : tok[p] = None <=> p > m
        BY Zenon DEF UlidsInOrder
    <2>3. CASE tok' = tok
        <3>1. \A p \in Publics : tok'[p] = None <=> p > m
            BY Zenon, <2>2, <2>3
        <3> QED BY Zenon, <2>1, <3>1 DEF UlidsInOrder
    <2>4. ASSUME NEW t \in Tenants, NEW o \in Raw, Create(t, o) PROVE UlidsInOrder'
        <3>1. PICK n \in Publics, b \in TokenRows :
                  /\ tok' = [tok EXCEPT ![n] = b]
                  /\ tok[n] # None \/ n = m + 1
            <4>1. PICK b : b = [tenant |-> t, ory |-> o, expires |-> now + Lifetime]
                BY Zenon
            <4>2. b \in TokenRows
                <5>1. now + Lifetime \in Nat
                    BY DEF TokenNames, TokenInv, TableInv
                <5> QED BY Zenon, <4>1, <5>1 DEF TokenRows
            <4>3. PICK n : n = MintedId(t, o)
                BY Zenon
            <4>4. n \in Publics /\ (tok[n] # None \/ n = m + 1)
                <5>1. CASE RowsOf(t, o) = {}
                    BY Zenon, <2>2, <4>3, <5>1, NextUlid DEF MintedId
                <5>2. CASE RowsOf(t, o) # {}
                    <6>1. n \in RowsOf(t, o)
                        BY Zenon, <4>3, <5>2 DEF MintedId
                    <6> QED BY Zenon, <6>1 DEF RowsOf
                <5> QED BY Zenon, <5>1, <5>2
            <4>5. tok' = [tok EXCEPT ![n] = b]
                BY Zenon, <2>4, <4>1, <4>3 DEF Create
            <4> QED BY Zenon, <4>2, <4>4, <4>5
        <3>2. b # None /\ \A p \in Publics : tok'[p] = IF p = n THEN b ELSE tok[p]
            BY Zenon, <3>1 DEF TokenInv, TableInv, TokenNames
        <3>3. CASE tok[n] # None
            <4>1. \A p \in Publics : tok'[p] = None <=> tok[p] = None
                BY Zenon, <3>1, <3>2, <3>3
            <4>2. \A p \in Publics : tok'[p] = None <=> p > m
                BY Zenon, <2>2, <4>1
            <4> QED BY Zenon, <4>2 DEF UlidsInOrder
        <3>4. CASE n = m + 1
            <4>1. PICK k \in Nat : k = m + 1
                BY <2>2
            <4>2. \A p \in Publics : p > k <=> p > m /\ p # n
                BY <2>2, <3>4, <4>1
            <4>3. \A p \in Publics : tok'[p] = None <=> tok[p] = None /\ p # n
                BY Zenon, <3>1, <3>2
            <4>4. \A p \in Publics : tok'[p] = None <=> p > k
                BY Zenon, <2>2, <4>2, <4>3
            <4> QED BY Zenon, <4>4 DEF UlidsInOrder
        <3> QED BY Zenon, <3>1, <3>3, <3>4
    <2> QED BY Zenon, <2>1, <2>3, <2>4, TableMoves
<1> QED BY <1>1, <1>2, <1>3, PTL DEF Spec
=============================================================================
