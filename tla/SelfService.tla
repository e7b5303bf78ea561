---------------------------- MODULE SelfService ----------------------------
(***************************************************************************)
(* Transient tokens: the opaque public ids under which Kratos flows,       *)
(* sessions and tokens and Hydra challenges reach a caller, the table that *)
(* holds them, and the requests that mint and resolve them: the flows of   *)
(* the self-service API and its browser proxy, the sessions and recovery   *)
(* links of the identity API, and the challenges of consent, logout and    *)
(* device verification.                                                    *)
(*                                                                         *)
(* A request resolves its arguments one SELECT at a time, makes one call   *)
(* to Kratos or Hydra, and turns every raw token of the answer into a      *)
(* public id, one INSERT at a time; other requests, on any replica, run in *)
(* between.  The texts that carry a token (an id field, the flow parameter *)
(* of a URL) are abstracted to the token.                                  *)
(***************************************************************************)
EXTENDS Naturals, FiniteSets, Sequences

CONSTANTS
    Flows, Sessions, Challenges, Links,  \* raw tokens, by token_type
    Identities,   \* Kratos identities
    IdentityOf,   \* IdentityOf[s]: the identity of session s
    Mapped,       \* id_mappings: pairs <<tenant, identity>>
    Tenants, System,
    Publics,      \* ULIDs, minted in order: 1 .. n
    Procs,        \* requests in flight at a time
    Ops,          \* the operations a run exercises
    Lifetime,     \* one hour, in ticks
    MaxTime,      \* bound on the clock
    DbMayFail,    \* whether a statement on the table may fail
    None, Blank   \* no row; an id that was blanked

Raw == Flows \cup Sessions \cup Challenges \cup Links

VARIABLES
    tok,      \* transient_token_mappings, by public_token
    now,
    live,     \* the flows, sessions, challenges and links Ory holds
    req,      \* the requests in flight
    issued,   \* <<tenant, raw, id>>: every id an answer has carried
    ended     \* <<tenant, session>>: the sessions delete_session ended

vars == <<tok, now, live, req, issued, ended>>

\* The token_type of a row, which fixes its backend too.
TypeOf(o) == CASE o \in Flows -> "flow"
               [] o \in Sessions -> "session"
               [] o \in Challenges -> "challenge"
               [] OTHER -> "link"

-----------------------------------------------------------------------------
(* The table.                                                              *)

Live(p) == tok[p] # None /\ tok[p].expires > now

\* (mutant) the token_type is not compared.
MatchesGlobalAnyType(p, type) == p \in Publics /\ Live(p)

\* The WHERE clauses of get_ory_token_global and get_ory_token.
MatchesGlobal(p, type) ==
    p \in Publics /\ Live(p) /\ TypeOf(tok[p].ory) = type

Matches(p, t, type) == MatchesGlobal(p, type) /\ tok[p].tenant = t

\* The rows of the UNIQUE key (tenant_id, backend, token_type, ory_token).
RowsOf(t, o) == {p \in Publics : tok[p] # None /\ tok[p].tenant = t /\ tok[p].ory = o}

NextPublic == CHOOSE p \in Publics :
                 /\ tok[p] = None
                 /\ \A q \in Publics : tok[q] = None => p <= q

\* (mutant) the conflict clause names the token and not the tenant.
MintedIdShared(t, o) ==
    LET rows == {p \in Publics : tok[p] # None /\ tok[p].ory = o}
    IN  IF rows # {} THEN CHOOSE p \in rows : TRUE ELSE NextPublic

\* create: the id of the existing row, expired or not, or the new ULID.
MintedId(t, o) ==
    IF RowsOf(t, o) # {} THEN CHOOSE p \in RowsOf(t, o) : TRUE ELSE NextPublic

\* INSERT ... ON CONFLICT DO UPDATE SET expires_at.
Create(t, o) ==
    tok' = [tok EXCEPT ![MintedId(t, o)] =
               [tenant |-> t, ory |-> o, expires |-> now + Lifetime]]

-----------------------------------------------------------------------------
(* The operations: what each takes, how it resolves that, and whether it   *)
(* tries get_public_token before create.                                   *)

\* The token types of the arguments, in the order they are resolved.
Takes(op) ==
    CASE op \in {"get_flow", "submit_flow"} -> <<"flow">>
      [] op = "submit_token" -> <<"link", "flow">>
      [] op = "submit_logout" -> <<"link">>
      [] op \in {"get_session", "delete_session"} -> <<"session">>
      [] op \in {"create_login", "get_challenge", "settle_challenge",
                 "get_logout"} -> <<"challenge">>
      [] OTHER -> <<>>

\* resolve_flow falls back to any tenant; a challenge that is not in the table
\* is passed through; the others must be a row of the caller's tenant.
How(op) ==
    CASE op \in {"get_flow", "submit_flow"} -> "fallback"
      [] op \in {"create_login", "get_challenge", "settle_challenge"} -> "pass"
      [] op = "get_logout" -> "global"
      [] OTHER -> "strict"

AllOps == {"create_flow", "create_login", "get_flow", "submit_flow", "proxy",
           "submit_token", "recovery_link", "logout_flow", "submit_logout",
           "to_session", "get_session", "list_sessions", "delete_session",
           "get_challenge", "get_logout", "settle_challenge", "device"}

Idle == [pc |-> "idle", op |-> "none", tenant |-> System, args |-> <<>>,
         got |-> <<>>, todo |-> <<>>, vals |-> {}, status |-> "ok"]

Request == [pc: {"idle", "resolve", "call", "owner", "end", "peek", "mint",
                 "errid", "done"},
            op: AllOps \cup {"none"}, tenant: Tenants,
            args: UNION {[1..n -> Publics \cup Raw] : n \in 0..2},
            got: UNION {[1..n -> Publics \cup Raw] : n \in 0..2},
            todo: UNION {[1..n -> Raw] : n \in 0..3},
            vals: SUBSET (Raw \X (Publics \cup Raw \cup {Blank})),
            status: {"ok", "error"}]

\* The rows stay unique on their key, and a request holds only tokens.
TypeOK ==
    /\ tok \in [Publics -> [tenant: Tenants, ory: Raw, expires: Nat] \cup {None}]
    /\ \A t \in Tenants, o \in Raw : Cardinality(RowsOf(t, o)) <= 1
    /\ now \in 0..MaxTime
    /\ live \subseteq Raw
    /\ req \in [Procs -> Request]
    /\ issued \subseteq Tenants \X Raw \X Publics
    /\ ended \subseteq Tenants \X Sessions

Init ==
    /\ tok = [p \in Publics |-> None]
    /\ now = 0
    /\ live = Raw \ Flows
    /\ req = [r \in Procs |-> Idle]
    /\ issued = {}
    /\ ended = {}

-----------------------------------------------------------------------------
(* Answering.                                                              *)

Go(r, q) == req' = [req EXCEPT ![r] = q]

IdsOf(q) == {<<q.tenant, v[1], v[2]>> : v \in {w \in q.vals : w[2] \in Publics}}

\* The answer leaves the gateway with what it carries; the rest of the request
\* is forgotten.
Answer(r, q) ==
    /\ Go(r, [Idle EXCEPT !.pc = "done", !.vals = q.vals, !.status = q.status])
    /\ issued' = issued \cup IdsOf(q)

Fail(r) == Go(r, Idle) /\ UNCHANGED issued

\* Where the next raw token of the answer is turned into an id: a challenge
\* of public_challenge is looked up first.
MintPc(q) == IF q.op \in {"get_challenge", "get_logout"} THEN "peek" ELSE "mint"

\* A field is done: the next one, or the answer.
Field(r, q) ==
    IF Len(q.todo) > 1
    THEN /\ Go(r, [q EXCEPT !.todo = Tail(q.todo)])
         /\ UNCHANGED issued
    ELSE Answer(r, q)

-----------------------------------------------------------------------------
(* Steps of a request.                                                     *)

KnownIds == {i[3] : i \in issued}

\* What a caller has at hand: an id some answer carried, or the raw challenge
\* of Hydra's redirect.
Presentable(op) == KnownIds \cup (IF How(op) \in {"pass", "global"} THEN Challenges ELSE {})

\* The proxy serves browsers, not tenants: its ids ride on the system tenant.
Begin(r) ==
    /\ req[r].pc \in {"idle", "done"}
    /\ \E op \in Ops, t \in Tenants :
          \E a \in [1..Len(Takes(op)) -> Presentable(op)] :
             Go(r, [Idle EXCEPT !.op = op, !.args = a,
                       !.tenant = IF op = "proxy" THEN System ELSE t,
                       !.pc = IF a = <<>> THEN "call" ELSE "resolve"])
    /\ UNCHANGED <<tok, now, live, issued, ended>>

\* One lookup: [ok, the Ory token, the tenant the request goes on with].
Resolved(q, a, type) ==
    CASE Matches(a, q.tenant, type) /\ How(q.op) # "global" ->
            [ok |-> TRUE, ory |-> tok[a].ory, tenant |-> q.tenant]
      [] How(q.op) = "fallback" /\ MatchesGlobal(a, type) ->
            [ok |-> TRUE, ory |-> tok[a].ory, tenant |-> q.tenant]
      [] How(q.op) = "global" /\ MatchesGlobal(a, type) ->
            [ok |-> TRUE, ory |-> tok[a].ory, tenant |-> tok[a].tenant]
      [] OTHER -> [ok |-> How(q.op) \in {"pass", "global"}, ory |-> a, tenant |-> q.tenant]

Resolve(r) ==
    LET q == req[r]
        n == Len(q.got) + 1
        res == Resolved(q, q.args[n], Takes(q.op)[n])
    IN  /\ q.pc = "resolve"
        /\ IF res.ok
           THEN /\ Go(r, [q EXCEPT !.got = Append(q.got, res.ory), !.tenant = res.tenant,
                             !.pc = IF n = Len(q.args) THEN "call" ELSE "resolve"])
                /\ UNCHANGED issued
           ELSE Fail(r)
        /\ UNCHANGED <<tok, now, live, ended>>

\* A flow that Kratos creates in answer to a call.
NewFlow(f) == f \in Flows \ live /\ live' = live \cup {f}

\* The answer is built from the raw tokens s.
Build(r, s) ==
    /\ Go(r, [req[r] EXCEPT !.todo = s, !.pc = MintPc(req[r])])
    /\ UNCHANGED issued

\* create_*_flow: the flow as id and again in its URLs, with the login
\* challenge it was created for, which Kratos checks with Hydra.
CreateFlow(r) ==
    /\ req[r].pc = "call" /\ req[r].op \in {"create_flow", "create_login"}
    /\ \A n \in 1..Len(req[r].got) : req[r].got[n] \in Challenges \cap live
    /\ \E f \in Flows : NewFlow(f) /\ Build(r, <<f>> \o req[r].got \o <<f>>)
    /\ UNCHANGED <<tok, now, ended>>

\* get_*_flow, and a submit that Kratos answers with the flow.
FlowAnswered(r) ==
    /\ req[r].pc = "call" /\ req[r].op \in {"get_flow", "submit_flow"}
    /\ req[r].got[1] \in live
    /\ Build(r, <<req[r].got[1], req[r].got[1]>>)
    /\ UNCHANGED <<tok, now, live, ended>>

\* Kratos answers with a redirect to a flow, that of the request or a new one:
\* browser_location_change_required, a token submission, the proxied routes.
Redirected(r) ==
    /\ req[r].pc = "call" /\ req[r].op \in {"submit_flow", "submit_token", "proxy"}
    /\ \E f \in Flows :
          /\ \/ f \in live /\ UNCHANGED live
             \/ NewFlow(f)
          /\ Build(r, <<f>>)
    /\ UNCHANGED <<tok, now, ended>>

\* map_submit_error: Kratos answers a failed submit with the flow itself.
SubmitRejected(r) ==
    /\ req[r].pc = "call" /\ req[r].op \in {"submit_flow", "submit_token"}
    /\ LET f == req[r].got[Len(req[r].got)]
       IN  Go(r, [req[r] EXCEPT !.pc = "errid", !.status = "error", !.todo = <<f, f>>])
    /\ UNCHANGED <<tok, now, live, issued, ended>>

\* create_recovery_link, get_verification_message: the token and its flow.
CreateLink(r) ==
    /\ req[r].pc = "call" /\ req[r].op = "recovery_link"
    /\ \E l \in Links, f \in Flows : NewFlow(f) /\ Build(r, <<l, f>>)
    /\ UNCHANGED <<tok, now, ended>>

\* create_logout_flow: the logout token of Kratos' answer.
CreateLogoutFlow(r) ==
    /\ req[r].pc = "call" /\ req[r].op = "logout_flow"
    /\ \E o \in live \cap Links : Build(r, <<o>>)
    /\ UNCHANGED <<tok, now, live, ended>>

\* get_device_verification: the challenge in the redirect Hydra answers with.
GetDeviceVerification(r) ==
    /\ req[r].pc = "call" /\ req[r].op = "device"
    /\ \E o \in live \cap Challenges : Build(r, <<o>>)
    /\ UNCHANGED <<tok, now, live, ended>>

\* get_consent_request, get_logout_request: Hydra knows the challenge.
ChallengeRead(r) ==
    /\ req[r].pc = "call" /\ req[r].op \in {"get_challenge", "get_logout"}
    /\ req[r].got[1] \in live
    /\ Build(r, <<req[r].got[1]>>)
    /\ UNCHANGED <<tok, now, live, ended>>

\* Ory consumes the token, the answer carries none.
Consume(r) ==
    /\ req[r].got[1] \in live
    /\ live' = live \ {req[r].got[1]}
    /\ Answer(r, req[r])
    /\ UNCHANGED <<tok, now, ended>>

\* accept/reject of consent, logout and device verification.
SettleChallenge(r) == req[r].pc = "call" /\ req[r].op = "settle_challenge" /\ Consume(r)

SubmitLogoutFlow(r) == req[r].pc = "call" /\ req[r].op = "submit_logout" /\ Consume(r)

\* to_session, list_sessions_by_identity, admin_get_session.
SessionRead(r) ==
    /\ req[r].pc = "call"
    /\ \E s \in Sessions \cap live :
          \/ /\ req[r].op = "to_session"
             /\ Build(r, <<s>>)
          \/ /\ req[r].op = "list_sessions"
             /\ <<req[r].tenant, IdentityOf[s]>> \in Mapped
             /\ Build(r, <<s>>)
          \/ /\ req[r].op \in {"get_session", "delete_session"} /\ req[r].got = <<s>>
             /\ Go(r, [req[r] EXCEPT !.pc = "owner"])
             /\ UNCHANGED issued
    /\ UNCHANGED <<tok, now, live, ended>>

\* The call fails at Ory: map_ory_error, nothing to scrub.
CallFails(r) ==
    /\ req[r].pc = "call"
    /\ Fail(r)
    /\ UNCHANGED <<tok, now, live, ended>>

\* (mutant) any identity with a mapping will do.
OwnedHereAny(t, s) == \E u \in Tenants : <<u, IdentityOf[s]>> \in Mapped

\* get_public_id(tenant, identity of the session).
OwnedHere(t, s) == <<t, IdentityOf[s]>> \in Mapped

\* The mapping read of get_session and delete_session.
CheckOwner(r) ==
    /\ req[r].pc = "owner"
    /\ IF ~OwnedHere(req[r].tenant, req[r].got[1]) THEN Fail(r)
       ELSE IF req[r].op = "get_session" THEN Build(r, req[r].got)
       ELSE Go(r, [req[r] EXCEPT !.pc = "end"]) /\ UNCHANGED issued
    /\ UNCHANGED <<tok, now, live, ended>>

DeleteSession(r) ==
    /\ req[r].pc = "end"
    /\ live' = live \ {req[r].got[1]}
    /\ ended' = ended \cup {<<req[r].tenant, req[r].got[1]>>}
    /\ Answer(r, req[r])
    /\ UNCHANGED <<tok, now>>

\* public_challenge: an id that is still live is answered as it is.
Peek(r) ==
    LET q == req[r]
        found == {p \in RowsOf(q.tenant, Head(q.todo)) : Live(p)}
    IN  /\ q.pc = "peek"
        /\ IF found = {}
           THEN Go(r, [q EXCEPT !.pc = "mint"]) /\ UNCHANGED issued
           ELSE \E p \in found :
                   Field(r, [q EXCEPT !.vals = @ \cup {<<Head(q.todo), p>>}])
        /\ UNCHANGED <<tok, now, live, ended>>

\* After the id of its session, to_session reads the mapping of the identity
\* in the caller's tenant, and fails without one.
Mint(r) ==
    LET q == req[r]
        o == Head(q.todo)
    IN  /\ q.pc = "mint"
        /\ Create(q.tenant, o)
        /\ IF q.op = "to_session" /\ ~OwnedHere(q.tenant, o) THEN Fail(r)
           ELSE Field(r, [q EXCEPT !.vals = @ \cup {<<o, MintedId(q.tenant, o)>>}])
        /\ UNCHANGED <<now, live, ended>>

\* The INSERT fails.  An answer is given up; in an error body
\* (scrub_flow_id_in_error_body) the URL stays as Kratos wrote it.
MintFails(r) ==
    LET q == req[r]
    IN  /\ DbMayFail /\ q.pc = "mint"
        /\ IF q.status = "error"
           THEN Field(r, [q EXCEPT !.vals = @ \cup {<<Head(q.todo), Head(q.todo)>>}])
           ELSE Fail(r)
        /\ UNCHANGED <<tok, now, live, ended>>

\* get_public_token for the id of an error body: without a row of the caller's
\* tenant, or when the read fails, the id is blanked and the URLs are dropped.
ErrorId(r) ==
    LET q == req[r]
        f == Head(q.todo)
        found == {p \in RowsOf(q.tenant, f) : Live(p)}
    IN  /\ q.pc = "errid"
        /\ \/ \E p \in found : /\ Go(r, [q EXCEPT !.pc = "mint", !.vals = {<<f, p>>}])
                               /\ UNCHANGED issued
           \/ /\ found = {} \/ DbMayFail
              /\ Answer(r, [q EXCEPT !.vals = {<<f, Blank>>}])
        /\ UNCHANGED <<tok, now, live, ended>>

Tick ==
    /\ now < MaxTime
    /\ now' = now + 1
    /\ UNCHANGED <<tok, live, req, issued, ended>>

Steps(r) ==
    \/ Begin(r) \/ Resolve(r) \/ CreateFlow(r) \/ FlowAnswered(r) \/ Redirected(r)
    \/ SubmitRejected(r) \/ CreateLink(r) \/ CreateLogoutFlow(r)
    \/ GetDeviceVerification(r) \/ ChallengeRead(r) \/ SettleChallenge(r)
    \/ SubmitLogoutFlow(r) \/ SessionRead(r) \/ CallFails(r) \/ CheckOwner(r)
    \/ DeleteSession(r) \/ Peek(r) \/ Mint(r) \/ MintFails(r) \/ ErrorId(r)

Next == Tick \/ \E r \in Procs : Steps(r)

Spec == Init /\ [][Next]_vars

-----------------------------------------------------------------------------
(* Properties.                                                             *)

\* One tenant is answered one id for one token, whatever requests race to mint
\* it and however long after the row expired, and one id is never answered for
\* two tokens or two tenants: create is an upsert on (tenant, token) and
\* public_challenge's look-then-create falls back on it.
SameTokenSameId ==
    \A i, j \in issued : (i[1] = j[1] /\ i[2] = j[2]) <=> i[3] = j[3]

\* The token that a call to Kratos or Hydra receives for an argument is of the
\* type the call takes, unless it is what the caller itself sent: an id minted
\* for one purpose is never resolved for another.
RightKind ==
    \A r \in Procs : \A n \in 1..Len(req[r].got) :
        \/ req[r].got[n] = req[r].args[n]
        \/ req[r].got[n] \in Raw /\ TypeOf(req[r].got[n]) = Takes(req[r].op)[n]

\* A successful answer, or a redirect that the proxy relays, carries public
\* ids only: when one of several fields cannot be minted the whole answer is
\* given up.
NoRawInAnswers ==
    \A r \in Procs : req[r].pc = "done" /\ req[r].status = "ok" =>
        \A v \in req[r].vals : v[2] \in Publics

\* delete_session ends only sessions of identities mapped in the caller's
\* tenant, although to_session stores a row for the session under whatever
\* tenant asks before it reads the mapping.
SessionEndedAtHome ==
    \A e \in ended : <<e[1], IdentityOf[e[2]]>> \in Mapped
=============================================================================
