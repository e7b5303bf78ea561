--------------------------- MODULE FederatedLogin ---------------------------
(***************************************************************************)
(* Logins through an upstream identity provider: the OIDC and OAuth2       *)
(* callbacks over the login_state table, and the SAML assertion consumer   *)
(* service over saml_requests and the replay table, each of which runs the *)
(* identity provisioner (Identities) before it issues a gateway session.   *)
(*                                                                         *)
(* Browsers and upstreams may deliver a callback any number of times, with *)
(* any state, and several replicas may serve them at once.  A callback     *)
(* takes one step per awaited call; a replica may stop between two.        *)
(***************************************************************************)
EXTENDS Identities, Sequences

CONSTANTS
    States,         \* login_state tokens that may be minted (ULIDs)
    Connections,    \* tenant_connections rows
    ConnTenant,     \* ConnTenant[c]: the tenant of connection c
    ConnType,       \* ConnType[c]: "oidc" or "oauth2"
    UpstreamPkce,   \* the upstreams check the PKCE verifier at code exchange
    Requests,       \* SAML AuthnRequest ids that may be minted
    ReqTenant,      \* ReqTenant[r]: the tenant whose login r starts
    Assertions,     \* assertion ids the identity providers may issue
    MaxSessions,    \* bound: sessions ever issued
    CleanupRaces    \* the replay table may be cleaned during a validation

ASSUME LoginAssumption ==
    /\ ConnTenant \in [Connections -> Tenants]
    /\ ConnType \in [Connections -> {"oidc", "oauth2"}]
    /\ ReqTenant \in [Requests -> Tenants]
    /\ UpstreamPkce \in BOOLEAN /\ CleanupRaces \in BOOLEAN
    /\ MaxSessions \in Nat
    /\ None \notin States \cup Connections \cup Requests \cup Assertions
    /\ States \cap Assertions = {}

VARIABLES
    issued,     \* state -> the connection it was minted for, or None
    live,       \* login_state: tokens whose row is in the table
    lapsed,     \* tokens whose expires_at has passed
    codes,      \* authorization codes: <<state of the attempt, email>>
    pending,    \* saml_requests: request ids with a row
    tooOld,     \* requests older than request_ttl
    asserted,   \* assertion -> [req, name, email] as the IdP issued it, or NoAssertion
    stale,      \* assertions past the instant until which they are accepted
    replay,     \* saml_assertion_ids
    cb,         \* callbacks in flight
    gateway     \* gateway_sessions, in order of creation, with the ticket of each

loginVars == <<issued, live, lapsed, codes>>
samlVars == <<pending, tooOld, asserted, stale, replay>>
federatedVars == <<identityVars, loginVars, samlVars, cb, gateway>>

NoAssertion == [req |-> None, name |-> None, email |-> None]

\* A callback: its next awaited call, how it came, its ticket, and the login it
\* brought; "idle" at rest.
Callback(pc, path, ticket, code, email, rpc) ==
    [pc |-> pc, path |-> path, ticket |-> ticket, code |-> code, email |-> email, rpc |-> rpc]

NoCallback == Callback("idle", "none", None, None, None, FALSE)

OauthPcs == {"load", "delete", "connection", "exchange", "id_token", "userinfo"}
SamlPcs == {"request", "stamp", "replay", "forget"}
SharedPcs == {"provision", "session"}

\* A ticket is claimed from the statement that takes it off the table on.
ClaimedPcs == {"connection", "exchange", "id_token", "userinfo", "forget"} \cup SharedPcs

CallbackType ==
    [pc: OauthPcs \cup SamlPcs \cup SharedPcs \cup {"idle"},
     path: {"oidc", "oauth2", "saml", "none"}, ticket: States \cup Assertions \cup {None},
     code: States \cup {None}, email: Emails \cup {None}, rpc: BOOLEAN]

SessionType == [ticket: States \cup Assertions, tenant: Tenants, public: PublicIds,
                email: Emails, stored: BOOLEAN]

AssertionType == [req: Requests, name: NameIds, email: Emails]

TypeOK ==
    /\ IdentityTypeOK
    /\ issued \in [States -> Connections \cup {None}]
    /\ live \subseteq States /\ lapsed \subseteq States
    /\ codes \subseteq States \X Emails
    /\ pending \subseteq Requests /\ tooOld \subseteq Requests
    /\ asserted \in [Assertions -> AssertionType \cup {NoAssertion}]
    /\ stale \subseteq Assertions /\ replay \subseteq Assertions
    /\ cb \in [Procs -> CallbackType]
    /\ gateway \in Seq(SessionType)

Init ==
    /\ IdentityInit
    /\ issued = [s \in States |-> None]
    /\ live = {} /\ lapsed = {} /\ codes = {}
    /\ pending = {} /\ tooOld = {} /\ stale = {} /\ replay = {}
    /\ asserted = [a \in Assertions |-> NoAssertion]
    /\ cb = [p \in Procs |-> NoCallback]
    /\ gateway = <<>>

-----------------------------------------------------------------------------
(* initiate_oidc_login / initiate_o_auth2_login, and the upstream.         *)

\* The row is created before the URL is built, so it exists whether or not
\* the caller ever gets an answer; a disabled connection is not refused.
InitiateLogin(s, c) ==
    /\ issued[s] = None
    /\ issued' = [issued EXCEPT ![s] = c]
    /\ live' = live \cup {s}
    /\ UNCHANGED <<identityVars, lapsed, codes, samlVars, cb, gateway>>

StateLapses(s) ==
    /\ issued[s] # None /\ s \notin lapsed
    /\ lapsed' = lapsed \cup {s}
    /\ UNCHANGED <<identityVars, issued, live, codes, samlVars, cb, gateway>>

\* The upstream authenticates a user in the attempt s and issues a code.
Authenticate(s, e) ==
    /\ issued[s] # None /\ <<s, e>> \notin codes
    /\ codes' = codes \cup {<<s, e>>}
    /\ UNCHANGED <<identityVars, issued, live, lapsed, samlVars, cb, gateway>>

-----------------------------------------------------------------------------
(* handle_oauth_callback.                                                  *)

CbAt(c, pc) == Callback(pc, c.path, c.ticket, c.code, c.email, c.rpc)
CbStep(p, pc) == cb' = [cb EXCEPT ![p] = CbAt(cb[p], pc)]
CbEnd(p) == cb' = [cb EXCEPT ![p] = NoCallback]
CbOnly == UNCHANGED <<identityVars, loginVars, samlVars, gateway>>

\* GET /callbacks/<path>?state=..&code=..: any state with any code.
OauthCallback(p, path, s, c) ==
    /\ cb[p].pc = "idle"
    /\ cb' = [cb EXCEPT ![p] = Callback("load", path, s, c[1], c[2], FALSE)]
    /\ CbOnly

\* login_state.get (expires_at > NOW()), then the connection type must match;
\* a mismatch leaves the row alone.
LoadState(p) ==
    LET s == cb[p].ticket IN
    /\ cb[p].pc = "load"
    /\ IF s \in live \ lapsed /\ ConnType[issued[s]] = cb[p].path
       THEN CbStep(p, "delete") ELSE CbEnd(p)
    /\ CbOnly

\* (mutant) a delete that matched no row is taken for success.
DeleteStateAnyway(p) ==
    /\ cb[p].pc = "delete"
    /\ live' = live \ {cb[p].ticket}
    /\ CbStep(p, "connection")
    /\ UNCHANGED <<identityVars, issued, lapsed, codes, samlVars, gateway>>

\* login_state.delete: no row, no login.  validate_return_to comes right after
\* and may still refuse (the second disjunct).
DeleteState(p) ==
    /\ cb[p].pc = "delete"
    /\ live' = live \ {cb[p].ticket}
    /\ \/ cb[p].ticket \in live /\ CbStep(p, "connection")
       \/ CbEnd(p)
    /\ UNCHANGED <<identityVars, issued, lapsed, codes, samlVars, gateway>>

LoadConnection(p) ==
    /\ cb[p].pc = "connection"
    /\ CbStep(p, "exchange")
    /\ CbOnly

\* exchange_code with the verifier stored in the state; an OAuth2 connection
\* goes straight on to the userinfo endpoint.
ExchangeCode(p) ==
    /\ cb[p].pc = "exchange"
    /\ UpstreamPkce => cb[p].code = cb[p].ticket
    /\ CbStep(p, IF cb[p].path = "oidc" THEN "id_token" ELSE "userinfo")
    /\ CbOnly

\* (mutant) the nonce of the id token is not compared with the state's.
ValidateIdTokenNoNonce(p) ==
    /\ cb[p].pc = "id_token"
    /\ CbStep(p, "userinfo")
    /\ CbOnly

\* validate_id_token: signature, issuer, audience, times, and the nonce minted
\* with the state, which the upstream copied from the attempt of the code.
ValidateIdToken(p) ==
    /\ cb[p].pc = "id_token"
    /\ cb[p].code = cb[p].ticket
    /\ CbStep(p, "userinfo")
    /\ CbOnly

\* fetch_userinfo, and the call of provision_identity.
FetchUserinfo(p) ==
    /\ cb[p].pc = "userinfo"
    /\ CbStep(p, "provision")
    /\ BeginProvision(p, ConnTenant[issued[cb[p].ticket]], cb[p].email)
    /\ UNCHANGED <<loginVars, samlVars, gateway>>

-----------------------------------------------------------------------------
(* initiate_saml_login, the identity provider, and the assertion consumer. *)

InitiateSamlLogin(r) ==
    /\ r \notin pending /\ \A a \in Assertions : asserted[a].req # r
    /\ r \notin tooOld
    /\ pending' = pending \cup {r}
    /\ UNCHANGED <<identityVars, loginVars, tooOld, asserted, stale, replay, cb, gateway>>

RequestAges(r) ==
    /\ r \in pending \ tooOld
    /\ tooOld' = tooOld \cup {r}
    /\ UNCHANGED <<identityVars, loginVars, pending, asserted, stale, replay, cb, gateway>>

\* The provider answers a request, possibly more than once.
IssueAssertion(a, r, n, e) ==
    /\ asserted[a] = NoAssertion /\ r \in pending
    /\ asserted' = [asserted EXCEPT ![a] = [req |-> r, name |-> n, email |-> e]]
    /\ UNCHANGED <<identityVars, loginVars, pending, tooOld, stale, replay, cb, gateway>>

AssertionGoesStale(a) ==
    /\ asserted[a] # NoAssertion /\ a \notin stale
    /\ stale' = stale \cup {a}
    /\ UNCHANGED <<identityVars, loginVars, pending, tooOld, asserted, replay, cb, gateway>>

\* POST /saml/acs, or the AcceptSamlAssertion call of the same tenant.
SamlCallback(p, a, rpc) ==
    /\ cb[p].pc = "idle" /\ asserted[a] # NoAssertion
    /\ cb' = [cb EXCEPT ![p] = Callback("request", "saml", a, None, asserted[a].email, rpc)]
    /\ CbOnly

\* The request the assertion answers must be pending and young enough.
LoadRequest(p) ==
    LET r == asserted[cb[p].ticket].req IN
    /\ cb[p].pc = "request"
    /\ IF r \in pending \ tooOld THEN CbStep(p, "stamp") ELSE CbEnd(p)
    /\ CbOnly

\* `now` is taken before the validation is handed to the blocking pool; the
\* assertion's validity is judged at that instant.
StampNow(p) ==
    /\ cb[p].pc = "stamp"
    /\ IF cb[p].ticket \in stale THEN CbEnd(p) ELSE CbStep(p, "replay")
    /\ CbOnly

\* (mutant) the insert's conflict is ignored.
CheckAndInsertAlways(p) ==
    /\ cb[p].pc = "replay"
    /\ replay' = replay \cup {cb[p].ticket}
    /\ CbStep(p, "forget")
    /\ UNCHANGED <<identityVars, loginVars, pending, tooOld, asserted, stale, gateway>>

\* check_and_insert: INSERT .. ON CONFLICT DO NOTHING; a conflict is a replay.
CheckAndInsert(p) ==
    LET a == cb[p].ticket IN
    /\ cb[p].pc = "replay"
    /\ replay' = replay \cup {a}
    /\ IF a \in replay THEN CbEnd(p) ELSE CbStep(p, "forget")
    /\ UNCHANGED <<identityVars, loginVars, pending, tooOld, asserted, stale, gateway>>

\* cleanup_saml_replay_cache: DELETE .. WHERE expires_at < NOW().  Unless
\* CleanupRaces, a validation is over before the row of its assertion expires.
Cleanup ==
    LET busy == {cb[p].ticket : p \in {q \in Procs : cb[q].pc = "replay"}}
        gone == {a \in replay \cap stale : CleanupRaces \/ a \notin busy}
    IN
    /\ gone # {}
    /\ replay' = replay \ gone
    /\ UNCHANGED <<identityVars, loginVars, pending, tooOld, asserted, stale, cb, gateway>>

\* requests.delete(..).ok(): its failure is ignored.  Then the provisioner.
ForgetRequest(p) ==
    LET a == asserted[cb[p].ticket] IN
    /\ cb[p].pc = "forget"
    /\ pending' \in {pending, pending \ {a.req}}
    /\ CbStep(p, "provision")
    /\ BeginProvisionSaml(p, ReqTenant[a.req], a.name, a.email)
    /\ UNCHANGED <<loginVars, tooOld, asserted, stale, replay, gateway>>

-----------------------------------------------------------------------------
(* The provisioner's answer, and the session.                              *)

Provisioning(p) ==
    /\ cb[p].pc = "provision"
    /\ ProvisionerStep(p) \/ CallFails(p)
    /\ UNCHANGED <<loginVars, samlVars, cb, gateway>>

Provisioned(p) ==
    /\ cb[p].pc = "provision" /\ proc[p].pc = "ok"
    /\ CbStep(p, "session")
    /\ UNCHANGED <<identityVars, loginVars, samlVars, gateway>>

NotProvisioned(p) ==
    /\ cb[p].pc = "provision" /\ proc[p].pc = "err"
    /\ CbEnd(p)
    /\ proc' = [proc EXCEPT ![p] = Idle]
    /\ UNCHANGED <<storeVars, loginVars, samlVars, gateway>>

\* build_session_redirect: session_store.create, then the cookie.  The RPC
\* answers with a session id that it does not store.
IssueSession(p) ==
    /\ cb[p].pc = "session" /\ Len(gateway) < MaxSessions
    /\ gateway' = Append(gateway, [ticket |-> cb[p].ticket, tenant |-> proc[p].tenant,
                                   public |-> proc[p].public, email |-> cb[p].email,
                                   stored |-> ~cb[p].rpc])
    /\ CbEnd(p)
    /\ proc' = [proc EXCEPT ![p] = Idle]
    /\ UNCHANGED <<storeVars, loginVars, samlVars>>

\* Any awaited call of the callback itself may fail, and a replica may stop at
\* any of them (with the provisioning it was running).
CallbackFails(p) ==
    /\ cb[p].pc # "idle"
    /\ CbEnd(p)
    /\ proc' = [proc EXCEPT ![p] = Idle]
    /\ UNCHANGED <<storeVars, loginVars, samlVars, gateway>>

-----------------------------------------------------------------------------
Deliver(p) ==
    \/ \E s \in States, c \in codes, path \in {"oidc", "oauth2"} :
          issued[s] # None /\ OauthCallback(p, path, s, c)
    \/ \E a \in Assertions, rpc \in BOOLEAN : SamlCallback(p, a, rpc)

CallbackStep(p) ==
    \/ LoadState(p)
    \/ DeleteState(p)
    \/ LoadConnection(p)
    \/ ExchangeCode(p)
    \/ ValidateIdToken(p)
    \/ FetchUserinfo(p)
    \/ LoadRequest(p)
    \/ StampNow(p)
    \/ CheckAndInsert(p)
    \/ ForgetRequest(p)
    \/ Provisioning(p)
    \/ Provisioned(p)
    \/ NotProvisioned(p)
    \/ IssueSession(p)

Upstream ==
    \/ \E s \in States, c \in Connections : InitiateLogin(s, c)
    \/ \E s \in States : StateLapses(s)
    \/ \E s \in States, e \in Emails : Authenticate(s, e)
    \/ \E r \in Requests : InitiateSamlLogin(r) \/ RequestAges(r)
    \/ \E a \in Assertions, r \in Requests, n \in NameIds, e \in Emails :
          IssueAssertion(a, r, n, e)
    \/ \E a \in Assertions : AssertionGoesStale(a)

Next ==
    \/ Upstream
    \/ Cleanup
    \/ \E p \in Procs : Deliver(p) \/ CallbackStep(p) \/ CallbackFails(p)

Spec == Init /\ [][Next]_federatedVars

-----------------------------------------------------------------------------
(* Properties.                                                             *)

Claims(p, k) == cb[p].ticket = k /\ cb[p].pc \in ClaimedPcs
Judged(p, a) == cb[p].ticket = a /\ cb[p].pc = "replay"
SessionsOf(k) == Cardinality({i \in DOMAIN gateway : gateway[i].ticket = k})

\* login_state as a one-time ticket: open while its row is in the table.
StateStatus(s) ==
    IF issued[s] = None THEN "unissued"
    ELSE IF s \in live THEN "open"
    ELSE IF \E p \in Procs : Claims(p, s) THEN "claimed"
    ELSE "spent"

StateTicket == INSTANCE SingleUse WITH
    Tickets <- States,
    status <- [s \in States |-> StateStatus(s)],
    sessions <- [s \in States |-> SessionsOf(s)]

\* A SAML assertion as a one-time ticket: open until it is in the replay table,
\* or is accepted no longer and by no validation that judged it in time.
AssertionStatus(a) ==
    IF asserted[a] = NoAssertion THEN "unissued"
    ELSE IF \E p \in Procs : Claims(p, a) THEN "claimed"
    ELSE IF a \notin replay /\ (a \in stale => \E p \in Procs : Judged(p, a)) THEN "open"
    ELSE "spent"

AssertionTicket == INSTANCE SingleUse WITH
    Tickets <- Assertions,
    status <- [a \in Assertions |-> AssertionStatus(a)],
    sessions <- [a \in Assertions |-> SessionsOf(a)]

\* Every login_state token is claimed by at most one callback and gives at
\* most one session, however often and wherever the callback is delivered, and
\* whichever of its calls fails.
LoginStateOnce == StateTicket!TicketSpec

\* Every SAML assertion is accepted at most once and gives at most one session.
AssertionOnce == AssertionTicket!TicketSpec

\* A session is for the user the upstream authenticated in the very attempt
\* its ticket was issued for, in the tenant that started the attempt: a code
\* of another attempt never becomes a session (for OIDC by the nonce, for
\* OAuth2 by PKCE where the upstream checks it).
SessionMatchesAttempt ==
    \A i \in DOMAIN gateway :
        LET g == gateway[i] IN
        /\ g.ticket \in States /\ (ConnType[issued[g.ticket]] = "oidc" \/ UpstreamPkce)
              => <<g.ticket, g.email>> \in codes
        /\ g.ticket \in States => g.tenant = ConnTenant[issued[g.ticket]]
        /\ g.ticket \in Assertions => g.tenant = ReqTenant[asserted[g.ticket].req]

\* The subject of a session is an id of the session's tenant, mapped to an
\* identity that carries the address the upstream vouched for.
SessionSubjectLinked ==
    \A i \in DOMAIN gateway :
        LET g == gateway[i] IN
        /\ MappedIn(g.tenant, g.public)
        /\ g.ticket \in States => kratos[mapping[g.public].ory].email = g.email
-----------------------------------------------------------------------------
(* The inductive invariant behind them.  A callback is judged with the     *)
(* request c and the provisioning q it runs.                               *)

Oauth == {"oidc", "oauth2"}

\* Pcs behind the comparison of the code's attempt with the state's.
Exchanged(c) == c.pc \in {"id_token", "userinfo"} \cup SharedPcs
Validated(c) == c.path = "oidc" /\ c.pc \in {"userinfo"} \cup SharedPcs

OauthInv(c) ==
    c.path \in Oauth =>
        /\ c.pc \in OauthPcs \cup SharedPcs
        /\ c.ticket \in States /\ issued[c.ticket] # None
        /\ <<c.code, c.email>> \in codes
        /\ c.pc # "load" => ConnType[issued[c.ticket]] = c.path
        /\ c.pc \in ClaimedPcs => c.ticket \notin live
        /\ Validated(c) \/ (UpstreamPkce /\ Exchanged(c)) => c.code = c.ticket

SamlInv(c) ==
    c.path = "saml" =>
        /\ c.pc \in SamlPcs \cup SharedPcs
        /\ c.ticket \in Assertions /\ asserted[c.ticket] # NoAssertion
        /\ c.email = asserted[c.ticket].email

HomeOf(c) == IF c.path = "saml" THEN ReqTenant[asserted[c.ticket].req]
             ELSE ConnTenant[issued[c.ticket]]

\* The provisioner runs for this callback's user and for nothing else.
JoinInv(c, q) ==
    /\ c.pc \notin SharedPcs => q = Idle
    /\ c.pc \in SharedPcs =>
          /\ q.pc # "idle"
          /\ q.op = IF c.path = "saml" THEN "saml" ELSE "provision"
          /\ q.pc # "err" => q.tenant = HomeOf(c) /\ q.email = c.email
    /\ c.pc = "session" => q.pc = "ok"

CallbackInv(c, q) ==
    /\ c.path = "none" <=> c.pc = "idle"
    /\ OauthInv(c)
    /\ SamlInv(c)
    /\ JoinInv(c, q)

\* A ticket nobody can claim any more.
Used(k) ==
    /\ k \in States => issued[k] # None /\ k \notin live
    /\ k \in Assertions =>
          /\ asserted[k] # NoAssertion
          /\ k \in replay \/ (k \in stale /\ \A p \in Procs : ~Judged(p, k))

\* One claim or one session, not both, and nothing left to claim.
Once(k) ==
    /\ \A p, r \in Procs : Claims(p, k) /\ Claims(r, k) => p = r
    /\ \A i, j \in DOMAIN gateway : gateway[i].ticket = k /\ gateway[j].ticket = k => i = j
    /\ \A p \in Procs : Claims(p, k) =>
          Used(k) /\ \A i \in DOMAIN gateway : gateway[i].ticket # k
    /\ \A i \in DOMAIN gateway : gateway[i].ticket = k => Used(k)

\* Assertions are single-use while their replay rows outlive the validations.
TicketsInv ==
    /\ \A a \in replay \cup stale : asserted[a] # NoAssertion
    /\ \A s \in live : issued[s] # None
    /\ \A s \in States : Once(s)
    /\ ~CleanupRaces => \A a \in Assertions : Once(a)

SessionInv(g) ==
    /\ g.ticket \in States =>
          /\ issued[g.ticket] # None
          /\ g.tenant = ConnTenant[issued[g.ticket]]
          /\ ConnType[issued[g.ticket]] = "oidc" \/ UpstreamPkce =>
                <<g.ticket, g.email>> \in codes
    /\ g.ticket \in Assertions =>
          /\ asserted[g.ticket] # NoAssertion
          /\ g.tenant = ReqTenant[asserted[g.ticket].req]
    /\ MappedIn(g.tenant, g.public)
    /\ g.ticket \in States => kratos[mapping[g.public].ory].email = g.email

\* Logins only ever add identities.
NoneGone == \A k \in OryIds : k < nextOry => kratos[k] # Gone

FederatedInv ==
    /\ TypeOK
    /\ \A p \in Procs : CallbackInv(cb[p], proc[p])
    /\ TicketsInv
    /\ \A i \in DOMAIN gateway : SessionInv(gateway[i])
    /\ NoneGone
=============================================================================
