------------------------------ MODULE LoginGate ------------------------------
(***************************************************************************)
(* accept_skippable_login: the gateway accepts a Hydra login request with  *)
(* the caller's Kratos session, after the assurance level and the          *)
(* application entitlement were checked, each by its own read.  The login  *)
(* is composed with the whole life of the client it is about               *)
(* (DcrLifecycle): registrations, consents, grants, deletes and the reaper *)
(* run between any two of its reads.                                       *)
(***************************************************************************)
EXTENDS DcrLifecycle

CONSTANTS
    Logins,         \* login requests in flight
    LoginTenants,   \* tenants the login page's caller acts for
    MaxLevel        \* bound: the highest assurance level

ASSUME LoginAssumption ==
    /\ LoginTenants \subseteq Tenants
    /\ MaxLevel \in Nat

VARIABLES
    session,    \* Kratos: user -> assurance level of their session, 0 if none
    login       \* per login request: where it is, what it read, what it saw

loginVars == <<session, login>>
gateVars == <<vars, loginVars>>

Levels == 1 .. MaxLevel

\* `saw` is history: the facts that held at some instant of the request, and
\* whether its resolution failed ("unread").
Facts == {"session", "member", "foreign_member", "flagged", "eligible", "unmapped"}

IdleLogin == [pc |-> "idle", user |-> None, tenant |-> None, client |-> None,
              required |-> 0, state |-> "unresolved", owner |-> None, saw |-> {}]

LoginPcs == {"session", "resolve", "classify", "check", "accept", "accepted"}

LoginType == {IdleLogin} \cup
    [pc: LoginPcs, user: Users, tenant: LoginTenants, client: Clients,
     required: Levels, state: EntitlementStates, owner: Tenants \cup {None},
     saw: SUBSET (Facts \cup {"unread"})]

\* Every login is at one of its reads, with a tenant to classify against.
GateTypeOK ==
    /\ TypeOK
    /\ session \in [Users -> {0} \cup Levels]
    /\ login \in [Logins -> LoginType]
    /\ \A l \in Logins :
          login[l].pc \in {"classify", "check"} => login[l].owner \in Tenants

GateInit ==
    /\ Init
    /\ session = [u \in Users |-> 0]
    /\ login = [l \in Logins |-> IdleLogin]

-----------------------------------------------------------------------------
(* What is true of a login's user and client now.                          *)

OwnedElsewhere(c, t) == row[c] # NoRow /\ row[c].tenant # t

FactsNow(q) ==
    LET c == q.client IN
    {f \in Facts :
        /\ f = "session" => session[q.user] >= q.required
        /\ f = "member" => ~OwnedElsewhere(c, q.tenant) /\ IsMember(q.tenant, q.user, c)
        /\ f = "foreign_member" => /\ OwnedElsewhere(c, q.tenant)
                                   /\ IsMember(row[c].tenant, q.user, c)
        /\ f = "flagged" => OwnedElsewhere(c, q.tenant) /\ row[c].cross
        /\ f = "eligible" => /\ mapping[c] # None
                             /\ row[c] = NoRow \/ (RowIn(c, q.tenant) /\ row[c].source = "dcr")
        /\ f = "unmapped" => mapping[c] = None}

\* Every step of the system adds what it made true to what a login saw.
Witness(moved) ==
    [l \in Logins |->
        IF moved[l].pc = "idle" THEN IdleLogin
        ELSE [moved[l] EXCEPT !.saw = @ \cup UNION {FactsNow(q)' : q \in {moved[l]}}]]

-----------------------------------------------------------------------------
(* The login.                                                              *)

EndLogin(l) == [login EXCEPT ![l] = IdleLogin]
GotoLogin(l, pc) == [login EXCEPT ![l].pc = pc]
SetLogin(l, pc, state, owner, saw) ==
    [login EXCEPT ![l] =
        [pc |-> pc, user |-> login[l].user, tenant |-> login[l].tenant,
         client |-> login[l].client, required |-> login[l].required,
         state |-> state, owner |-> owner, saw |-> saw]]

\* hydra.get_login_request; when it fails, or the caller has no cookie, a
\* Kratos flow is created instead and nothing is accepted here.
LoginBegin(l, u, t, c, a) ==
    /\ login[l].pc = "idle"
    /\ Published(c) /\ c \in hydra \ AgentClients
    /\ UNCHANGED <<vars, session>>
    /\ login' = Witness([login EXCEPT ![l] =
                   [pc |-> "session", user |-> u, tenant |-> t, client |-> c,
                    required |-> a, state |-> "unresolved", owner |-> None, saw |-> {}]])

\* kratos.to_session and aal_level_from_login_request: a session below the
\* required level falls through to the step-up flow.
Sufficient(q) == session[q.user] >= q.required

LoginSession(l) ==
    /\ login[l].pc = "session"
    /\ UNCHANGED <<vars, session>>
    /\ login' = Witness(IF Sufficient(login[l])
                        THEN GotoLogin(l, "resolve") ELSE EndLogin(l))

\* (mutant) an unmapped client is classified like a mapped one.
LoginResolveAny(l) ==
    /\ login[l].pc = "resolve"
    /\ UNCHANGED <<vars, session>>
    /\ login' = Witness(SetLogin(l, "classify", login[l].state,
                                 mapping[login[l].client], login[l].saw))

\* The mapping reads of resolve_client_entitlement: Unmapped passes through.
LoginResolve(l) ==
    LET c == login[l].client IN
    /\ login[l].pc = "resolve"
    /\ UNCHANGED <<vars, session>>
    /\ login' = Witness(IF mapping[c] = None
                        THEN GotoLogin(l, "accept")
                        ELSE SetLogin(l, "classify", login[l].state, mapping[c], login[l].saw))

\* A failed resolution is logged and the login goes on.
LoginResolveFails(l) ==
    /\ login[l].pc \in {"resolve", "classify"}
    /\ UNCHANGED <<vars, session>>
    /\ login' = Witness(SetLogin(l, "accept", login[l].state, login[l].owner,
                                 login[l].saw \cup {"unread"}))

\* An unflagged application of another tenant fails closed.
Refused(c, res) == res.state = "cross" /\ ~row[c].cross

\* The applications read; a client provisional in another tenant is deferred
\* to the consent step without a check.
LoginClassify(l) ==
    LET q == login[l]
        res == ClassifyOwned(q.client, q.tenant, q.owner)
        deferred == res.state = "provisional" /\ res.owner # q.tenant
    IN
    /\ q.pc = "classify"
    /\ UNCHANGED <<vars, session>>
    /\ login' = Witness(
          IF Refused(q.client, res) THEN EndLogin(l)
          ELSE SetLogin(l, IF deferred THEN "accept" ELSE "check",
                        res.state, res.owner, q.saw))

\* (mutant) every unentitled user of a local client is deferred to consent.
AdmittedLocal(q, member) == member \/ IsFirstUseEligibleLocal(q.state)

\* deny_login unless the user is a member or first use decides at consent.
Admitted(q, member) == member \/ IsFirstUseEligible(q.state)

\* is_member in the owner's store.  The subject's public id is looked up in the
\* caller's tenant: unless it is mapped there the raw Kratos id is checked,
\* which no tuple names.  A failed check counts as "no".
LoginCheck(l) ==
    LET q == login[l]
        found == Home[q.user] = q.tenant /\ IsMember(q.owner, q.user, q.client)
    IN
    /\ q.pc = "check"
    /\ UNCHANGED <<vars, session>>
    /\ \E member \in {FALSE, found} :
          login' = Witness(IF Admitted(q, member)
                           THEN GotoLogin(l, "accept") ELSE EndLogin(l))

\* hydra.accept_login_request with the subject of the session read before.
LoginAccept(l) ==
    /\ login[l].pc = "accept"
    /\ UNCHANGED <<vars, session>>
    /\ login' = Witness(IF login[l].client \in hydra
                        THEN GotoLogin(l, "accepted") ELSE EndLogin(l))

\* The answer is delivered, or a call failed and the request is over.
LoginEnds(l) ==
    /\ login[l].pc # "idle"
    /\ UNCHANGED <<vars, session>>
    /\ login' = Witness(EndLogin(l))

LoginStep(l) ==
    \/ \E u \in Users, t \in LoginTenants, c \in Clients, a \in Levels :
          LoginBegin(l, u, t, c, a)
    \/ LoginSession(l)
    \/ LoginResolve(l)
    \/ LoginResolveFails(l)
    \/ LoginClassify(l)
    \/ LoginCheck(l)
    \/ LoginAccept(l)
    \/ LoginEnds(l)

\* Kratos: a user signs in, steps up or signs out.
SessionChanges(u, a) ==
    /\ session' = [session EXCEPT ![u] = a]
    /\ UNCHANGED vars
    /\ login' = Witness(login)

GateNext ==
    \/ \E l \in Logins : LoginStep(l)
    \/ \E u \in Users, a \in {0} \cup Levels : SessionChanges(u, a)
    \/ Next /\ UNCHANGED session /\ login' = Witness(login)

GateSpec == GateInit /\ [][GateNext]_gateVars

-----------------------------------------------------------------------------
(* Properties.                                                             *)

\* The gate's reasons for accepting, in terms of what a request saw.
Justified(saw) ==
    \/ saw \cap {"member", "eligible", "unmapped"} # {}
    \/ {"flagged", "foreign_member"} \subseteq saw
    \/ "unread" \in saw

\* Whatever ran between its reads, an accepted login has a reason: at some
\* instant of the request the user was a member of the tenant's own
\* application, or the client was eligible for first use there (the consent
\* step decides), or it was in nobody's mapping; a client of another tenant
\* had its cross_tenant flag set and a grant in its owner's store.  The one
\* way round the gate is a resolution that failed: the code logs it and
\* accepts.
GateSound == \A l \in Logins : login[l].pc = "accepted" => Justified(login[l].saw)

\* An accepted login had, at some instant of the request, a session of the
\* assurance level Hydra asked for.
AssuranceSound ==
    \A l \in Logins : login[l].pc = "accepted" => "session" \in login[l].saw

\* A skippable login that Hydra is told to accept passed both gates.
LoginSound == GateSound /\ AssuranceSound

-----------------------------------------------------------------------------
(* The inductive invariant behind them: what a login relies on at its next *)
(* read.  A client that left Hydra never returns, and while Hydra has it   *)
(* its row keeps tenant and source; hence what was classified still holds  *)
(* when the membership is read, or Hydra refuses the acceptance.           *)

LoginInv(q) ==
    LET c == q.client IN
    q.pc # "idle" =>
        /\ Published(c) /\ kind[c] # "agent"
        /\ q.pc # "session" => "session" \in q.saw
        /\ q.pc = "check" =>
              \/ Justified(q.saw)
              \/ /\ q.state = "local_admin" /\ q.owner = q.tenant
                 /\ c \in hydra => RowIn(c, q.owner)
              \/ /\ q.state = "cross" /\ q.owner # q.tenant /\ "flagged" \in q.saw
                 /\ c \in hydra => RowIn(c, q.owner)
        /\ q.pc = "accept" /\ c \in hydra => Justified(q.saw)
        /\ q.pc = "accepted" => Justified(q.saw)

GateIInv == IInv /\ GateTypeOK /\ \A l \in Logins : LoginInv(login[l])
=============================================================================
