----------------------- MODULE FederatedLogin_proofs -----------------------
(***************************************************************************)
(* Proofs about FederatedLogin, for every number of callbacks, states,     *)
(* assertions, connections and users.  The identity stores under the       *)
(* logins are those of IdentityLifecycle, whose invariant is used here     *)
(* (with the two operations a login runs); tickets are those of SingleUse. *)
(***************************************************************************)
EXTENDS FederatedLogin, IdentityLifecycle_proofs, SingleUse

-----------------------------------------------------------------------------
(* Callbacks.                                                              *)

\* What no step takes back: an attempt keeps its connection, a claimed state
\* stays off the table, a code stays issued, an assertion stays as it is.
Onward ==
    /\ \A s \in States : issued[s] # None =>
          issued'[s] = issued[s] /\ (s \notin live => s \notin live')
    /\ codes \subseteq codes'
    /\ \A a \in Assertions : asserted[a] # NoAssertion => asserted'[a] = asserted[a]

\* A callback at rest meets its invariant.
LEMMA RestInv == NoCallback \in CallbackType /\ CallbackInv(NoCallback, Idle)
BY Zenon DEF NoCallback, Callback, CallbackType, CallbackInv, OauthInv, SamlInv, JoinInv, Oauth,
       SharedPcs

\* A callback is not disturbed by the steps of others.
LEMMA CallbackStable ==
    ASSUME Onward, NEW c \in CallbackType, NEW q, CallbackInv(c, q)
    PROVE  CallbackInv(c, q)'
<1>1. OauthInv(c)'
  BY Zenon DEF Onward, CallbackInv, OauthInv, Exchanged, Validated
<1>2. SamlInv(c)'
  BY DEF Onward, CallbackInv, SamlInv
<1>3. c.pc \in SharedPcs => HomeOf(c)' = HomeOf(c)
  BY Zenon DEF Onward, CallbackInv, OauthInv, SamlInv, HomeOf, Oauth, CallbackType, SharedPcs
<1>4. JoinInv(c, q)'
  BY Zenon, <1>3 DEF CallbackInv, JoinInv
<1> QED BY Zenon, <1>1, <1>2, <1>4 DEF CallbackInv

\* A step of one callback, and of the provisioning it runs.
LEMMA CallbackMoves ==
    ASSUME TypeOK, \A r \in Procs : CallbackInv(cb[r], proc[r]), Onward,
           NEW p \in Procs, NEW n \in CallbackType, NEW m,
           cb' = [cb EXCEPT ![p] = n], proc' = [proc EXCEPT ![p] = m], CallbackInv(n, m)'
    PROVE  /\ cb' \in [Procs -> CallbackType]
           /\ \A r \in Procs : CallbackInv(cb[r], proc[r])'
<1>1. cb \in [Procs -> CallbackType] /\ proc \in [Procs -> RequestType]
  BY Zenon DEF TypeOK, IdentityTypeOK
<1>2. ASSUME NEW r \in Procs, NEW y, NEW z, y = cb'[r], z = proc'[r]
      PROVE  CallbackInv(y, z)'
  <2>1. CASE r = p
    <3>1. y = n /\ z = m
      BY Zenon, <1>1, <1>2, <2>1
    <3> QED BY Zenon, <3>1
  <2>2. CASE r # p
    <3>1. y = cb[r] /\ z = proc[r] /\ y \in CallbackType
      BY Zenon, <1>1, <1>2, <2>2
    <3>2. CallbackInv(y, z)
      BY Zenon, <3>1
    <3> QED BY Zenon, <3>1, <3>2, CallbackStable
  <2> QED BY Zenon, <2>1, <2>2
<1>3. \A r \in Procs : CallbackInv(cb[r], proc[r])'
  BY Zenon, <1>2
<1> QED BY Zenon, <1>1, <1>3

\* The callback n is c at its call pc.
Onto(n, c, pc) ==
    /\ n.pc = pc /\ n.path = c.path /\ n.ticket = c.ticket /\ n.code = c.code
    /\ n.email = c.email /\ n.rpc = c.rpc

\* A callback that goes on to its next call, with the provisioning m.
LEMMA CallbackGoesOn ==
    ASSUME TypeOK, \A r \in Procs : CallbackInv(cb[r], proc[r]), Onward,
           NEW p \in Procs, NEW pc \in OauthPcs \cup SamlPcs \cup SharedPcs, NEW m,
           CbStep(p, pc), proc' = [proc EXCEPT ![p] = m],
           \A n \in CallbackType : Onto(n, cb[p], pc) => CallbackInv(n, m)'
    PROVE  /\ cb' \in [Procs -> CallbackType]
           /\ \A r \in Procs : CallbackInv(cb[r], proc[r])'
<1>1. PICK c : c = cb[p]
  BY Zenon
<1>2. PICK n : n = CbAt(c, pc)
  BY Zenon
<1>3. c \in CallbackType
  BY Zenon, <1>1 DEF TypeOK
<1>4. n \in CallbackType /\ Onto(n, c, pc)
  BY Zenon, <1>2, <1>3 DEF CbAt, Callback, CallbackType, Onto
<1>5. cb' = [cb EXCEPT ![p] = n]
  BY Zenon, <1>1, <1>2 DEF CbStep
<1>6. CallbackInv(n, m)'
  BY Zenon, <1>1, <1>4
<1> QED BY Zenon, <1>4, <1>5, <1>6, CallbackMoves

\* A callback that is over, and its provisioning with it.
LEMMA CallbackEnds ==
    ASSUME TypeOK, \A r \in Procs : CallbackInv(cb[r], proc[r]), Onward,
           NEW p \in Procs, CbEnd(p), proc' = [proc EXCEPT ![p] = Idle]
    PROVE  /\ cb' \in [Procs -> CallbackType]
           /\ \A r \in Procs : CallbackInv(cb[r], proc[r])'
<1>1. PICK n : n = NoCallback
  BY Zenon
<1>2. PICK m : m = Idle
  BY Zenon
<1>3. n \in CallbackType /\ CallbackInv(n, m)
  BY Zenon, <1>1, <1>2, RestInv
<1>4. CallbackInv(n, m)'
  BY Zenon, <1>3, CallbackStable
<1>5. cb' = [cb EXCEPT ![p] = n] /\ proc' = [proc EXCEPT ![p] = m]
  BY Zenon, <1>1, <1>2 DEF CbEnd
<1> QED BY Zenon, <1>3, <1>4, <1>5, CallbackMoves

\* Before the provisioner runs, a callback has no provisioning.
LEMMA NotYetProvisioning ==
    ASSUME TypeOK, NEW p \in Procs, CallbackInv(cb[p], proc[p]), cb[p].pc \notin SharedPcs
    PROVE  proc[p] = Idle /\ proc = [proc EXCEPT ![p] = Idle] /\ proc = [proc EXCEPT ![p] = proc[p]]
<1>1. proc[p] = Idle
  BY Zenon DEF CallbackInv, JoinInv
<1> QED BY Zenon, <1>1 DEF TypeOK, IdentityTypeOK

CallbacksInv ==
    /\ cb \in [Procs -> CallbackType]
    /\ \A r \in Procs : CallbackInv(cb[r], proc[r])

\* The same, for a step that changes nothing the invariant of n speaks about.
LEMMA CallbackStepsOn ==
    ASSUME TypeOK, CallbacksInv, Onward,
           NEW p \in Procs, NEW pc \in OauthPcs \cup SamlPcs \cup SharedPcs, NEW m,
           CbStep(p, pc), proc' = [proc EXCEPT ![p] = m],
           \A n \in CallbackType : Onto(n, cb[p], pc) => CallbackInv(n, m)
    PROVE  CallbacksInv'
<1>1. ASSUME NEW n \in CallbackType, Onto(n, cb[p], pc) PROVE CallbackInv(n, m)'
  BY Zenon, <1>1, CallbackStable
<1> QED BY Zenon, <1>1, CallbackGoesOn DEF CallbacksInv

\* A step of a callback before its provisioning.
LEMMA EarlyStep ==
    ASSUME TypeOK, CallbacksInv, Onward,
           NEW p \in Procs, NEW pc \in OauthPcs \cup SamlPcs,
           CbStep(p, pc), UNCHANGED proc, cb[p].pc \notin SharedPcs,
           \A n \in CallbackType : Onto(n, cb[p], pc) => CallbackInv(n, Idle)
    PROVE  CallbacksInv'
<1>1. proc' = [proc EXCEPT ![p] = Idle]
  BY Zenon, NotYetProvisioning DEF CallbacksInv
<1> QED BY Zenon, <1>1, CallbackStepsOn

\* The end of a callback before its provisioning.
LEMMA EarlyEnd ==
    ASSUME TypeOK, CallbacksInv, Onward, NEW p \in Procs, CbEnd(p), UNCHANGED proc,
           cb[p].pc \notin SharedPcs
    PROVE  CallbacksInv'
<1>1. proc' = [proc EXCEPT ![p] = Idle]
  BY Zenon, NotYetProvisioning DEF CallbacksInv
<1> QED BY Zenon, <1>1, CallbackEnds DEF CallbacksInv

\* A callback's arrival.
LEMMA CallbackArrives ==
    ASSUME TypeOK, CallbacksInv, Onward, NEW p \in Procs, NEW n \in CallbackType,
           cb[p].pc = "idle", cb' = [cb EXCEPT ![p] = n], UNCHANGED proc, CallbackInv(n, Idle)
    PROVE  CallbacksInv'
<1>1. cb[p].pc \notin SharedPcs
  BY Zenon DEF SharedPcs
<1>2. proc' = [proc EXCEPT ![p] = Idle]
  BY Zenon, <1>1, NotYetProvisioning DEF CallbacksInv
<1>3. PICK m : m = Idle
  BY Zenon
<1>4. CallbackInv(n, m)'
  BY Zenon, <1>3, CallbackStable
<1> QED BY Zenon, <1>2, <1>3, <1>4, CallbackMoves DEF CallbacksInv

\* A callback is delivered.
LEMMA DeliverCallbacks ==
    ASSUME TypeOK, CallbacksInv, NEW p \in Procs, Deliver(p)
    PROVE  CallbacksInv' /\ Onward
<1>1. ASSUME NEW s \in States, NEW c \in codes, NEW path \in {"oidc", "oauth2"},
             issued[s] # None, OauthCallback(p, path, s, c)
      PROVE  CallbacksInv' /\ Onward
  <2>1. Onward
    BY Zenon, <1>1 DEF OauthCallback, CbOnly, loginVars, samlVars, Onward
  <2>2. PICK n : n = Callback("load", path, s, c[1], c[2], FALSE)
    BY Zenon
  <2>3. c \in States \X Emails
    BY Zenon DEF TypeOK
  <2>4. c = <<c[1], c[2]>> /\ c[1] \in States /\ c[2] \in Emails
    BY <2>3
  <2>5. n \in CallbackType
    BY Zenon, <2>2, <2>4 DEF Callback, CallbackType, OauthPcs
  <2>6. CallbackInv(n, Idle)
    BY Zenon, <1>1, <2>2, <2>4
       DEF Callback, CallbackInv, OauthInv, SamlInv, JoinInv, Oauth, OauthPcs, SharedPcs,
           ClaimedPcs, Validated, Exchanged
  <2>7. cb[p].pc = "idle" /\ cb' = [cb EXCEPT ![p] = n] /\ UNCHANGED proc
    BY Zenon, <1>1, <2>2 DEF OauthCallback, CbOnly, identityVars
  <2> QED BY Zenon, <2>1, <2>5, <2>6, <2>7, CallbackArrives
<1>2. ASSUME NEW a \in Assertions, NEW rpc \in BOOLEAN, SamlCallback(p, a, rpc)
      PROVE  CallbacksInv' /\ Onward
  <2>1. Onward
    BY Zenon, <1>2 DEF SamlCallback, CbOnly, loginVars, samlVars, Onward
  <2>2. PICK n : n = Callback("request", "saml", a, None, asserted[a].email, rpc)
    BY Zenon
  <2>3. asserted[a] # NoAssertion /\ asserted[a] \in AssertionType
    BY Zenon, <1>2 DEF SamlCallback, TypeOK
  <2>4. n \in CallbackType
    BY Zenon, <2>2, <2>3 DEF Callback, CallbackType, SamlPcs, AssertionType
  <2>5. CallbackInv(n, Idle)
    BY Zenon, <2>2, <2>3
       DEF Callback, CallbackInv, OauthInv, SamlInv, JoinInv, Oauth, SamlPcs, SharedPcs
  <2>6. cb[p].pc = "idle" /\ cb' = [cb EXCEPT ![p] = n] /\ UNCHANGED proc
    BY Zenon, <1>2, <2>2 DEF SamlCallback, CbOnly, identityVars
  <2> QED BY Zenon, <2>1, <2>4, <2>5, <2>6, CallbackArrives
<1> QED BY Zenon, <1>1, <1>2 DEF Deliver

\* The facts about one callback that the steps below start from.
LEMMA MyCallback ==
    ASSUME TypeOK, CallbacksInv, NEW p \in Procs
    PROVE  /\ cb[p] \in CallbackType /\ OauthInv(cb[p]) /\ SamlInv(cb[p])
           /\ JoinInv(cb[p], proc[p]) /\ (cb[p].path = "none" <=> cb[p].pc = "idle")
           /\ cb[p].pc \in OauthPcs => cb[p].path \in Oauth
           /\ cb[p].pc \in SamlPcs => cb[p].path = "saml"
<1>1. /\ cb[p] \in CallbackType /\ OauthInv(cb[p]) /\ SamlInv(cb[p])
      /\ JoinInv(cb[p], proc[p]) /\ (cb[p].path = "none" <=> cb[p].pc = "idle")
  BY Zenon DEF CallbacksInv, CallbackInv
<1> QED BY Zenon, <1>1 DEF CallbackType, OauthInv, SamlInv, OauthPcs, SamlPcs, SharedPcs, Oauth

\* The steps of an OIDC or OAuth2 callback that write nothing.
LEMMA EarlyOauth ==
    ASSUME TypeOK, CallbacksInv, NEW p \in Procs,
           LoadState(p) \/ LoadConnection(p) \/ ExchangeCode(p) \/ ValidateIdToken(p)
    PROVE  CallbacksInv' /\ Onward
<1> PICK c : c = cb[p]
  BY Zenon
<1>1. /\ OauthInv(c) /\ (c.path = "none" <=> c.pc = "idle")
      /\ c.pc \in OauthPcs => c.path \in Oauth
  BY Zenon, MyCallback
<1>2. c.pc \in {"load", "connection", "exchange", "id_token"} /\ UNCHANGED proc /\ Onward
  BY Zenon DEF LoadState, LoadConnection, ExchangeCode, ValidateIdToken, CbOnly, identityVars,
         loginVars, samlVars, Onward
<1>3. c.pc \notin SharedPcs /\ c.pc \in OauthPcs
  BY Zenon, <1>2 DEF SharedPcs, OauthPcs
<1>4. ASSUME NEW pc \in OauthPcs, pc # "load", CbStep(p, pc),
             ConnType[issued[c.ticket]] = c.path,
             pc \in ClaimedPcs => c.ticket \notin live,
             pc = "id_token" /\ UpstreamPkce => c.code = c.ticket,
             pc = "userinfo" /\ (c.path = "oidc" \/ UpstreamPkce) => c.code = c.ticket
      PROVE  CallbacksInv'
  <2>1. ASSUME NEW n \in CallbackType, Onto(n, c, pc) PROVE CallbackInv(n, Idle)
    <3>1. OauthInv(n)
      BY Zenon, <1>1, <1>2, <1>3, <1>4, <2>1
         DEF Onto, OauthInv, Oauth, OauthPcs, SharedPcs, Validated, Exchanged
    <3> QED BY Zenon, <1>1, <1>3, <1>4, <2>1, <3>1
            DEF Onto, CallbackInv, SamlInv, JoinInv, Oauth, OauthPcs, SharedPcs
  <2> QED BY Zenon, <1>2, <1>3, <1>4, <2>1, EarlyStep
<1>5. CASE LoadState(p)
  <2>1. CASE CbEnd(p)
    BY Zenon, <1>2, <1>3, <2>1, EarlyEnd
  <2>2. CASE CbStep(p, "delete") /\ ConnType[issued[c.ticket]] = c.path
    BY Zenon, <1>2, <1>4, <2>2 DEF OauthPcs, ClaimedPcs, SharedPcs
  <2> QED BY Zenon, <1>5, <2>1, <2>2 DEF LoadState
<1>6. CASE LoadConnection(p)
  <2>1. c.pc = "connection" /\ CbStep(p, "exchange")
    BY Zenon, <1>6 DEF LoadConnection
  <2> QED BY Zenon, <1>1, <1>2, <1>3, <1>4, <2>1 DEF OauthInv, OauthPcs, ClaimedPcs
<1>7. CASE ExchangeCode(p)
  <2>1. c.pc = "exchange" /\ (UpstreamPkce => c.code = c.ticket)
    BY Zenon, <1>7 DEF ExchangeCode
  <2>2. CASE CbStep(p, "id_token")
    BY Zenon, <1>1, <1>2, <1>3, <1>4, <2>1, <2>2 DEF OauthInv, OauthPcs, ClaimedPcs
  <2>3. CASE CbStep(p, "userinfo") /\ c.path # "oidc"
    BY Zenon, <1>1, <1>2, <1>3, <1>4, <2>1, <2>3 DEF OauthInv, OauthPcs, ClaimedPcs
  <2> QED BY Zenon, <1>7, <2>2, <2>3 DEF ExchangeCode
<1>8. CASE ValidateIdToken(p)
  <2>1. c.pc = "id_token" /\ c.code = c.ticket /\ CbStep(p, "userinfo")
    BY Zenon, <1>8 DEF ValidateIdToken
  <2> QED BY Zenon, <1>1, <1>2, <1>3, <1>4, <2>1 DEF OauthInv, OauthPcs, ClaimedPcs
<1> QED BY Zenon, <1>2, <1>5, <1>6, <1>7, <1>8

\* The steps of a SAML callback before its claim is settled.
LEMMA EarlySaml ==
    ASSUME TypeOK, CallbacksInv, NEW p \in Procs,
           LoadRequest(p) \/ StampNow(p) \/ CheckAndInsert(p)
    PROVE  CallbacksInv' /\ Onward
<1> PICK c : c = cb[p]
  BY Zenon
<1>1. /\ SamlInv(c) /\ (c.path = "none" <=> c.pc = "idle")
      /\ c.pc \in SamlPcs => c.path = "saml"
  BY Zenon, MyCallback
<1>2. c.pc \in SamlPcs /\ UNCHANGED proc /\ Onward
  BY Zenon DEF LoadRequest, StampNow, CheckAndInsert, CbOnly, identityVars, loginVars, samlVars,
         Onward, SamlPcs
<1>3. c.pc \notin SharedPcs
  BY Zenon, <1>2 DEF SharedPcs, SamlPcs
<1>4. ASSUME NEW pc \in SamlPcs, CbStep(p, pc) PROVE CallbacksInv'
  <2>1. ASSUME NEW n \in CallbackType, Onto(n, c, pc) PROVE CallbackInv(n, Idle)
    <3>1. SamlInv(n)
      BY Zenon, <1>1, <1>2, <1>4, <2>1 DEF Onto, SamlInv
    <3> QED BY Zenon, <1>1, <1>2, <1>4, <2>1, <3>1
            DEF Onto, CallbackInv, OauthInv, JoinInv, Oauth, SamlPcs, SharedPcs
  <2> QED BY Zenon, <1>2, <1>3, <1>4, <2>1, EarlyStep
<1>5. CbEnd(p) \/ CbStep(p, "stamp") \/ CbStep(p, "replay") \/ CbStep(p, "forget")
  BY Zenon DEF LoadRequest, StampNow, CheckAndInsert
<1> QED BY Zenon, <1>2, <1>3, <1>4, <1>5, EarlyEnd DEF SamlPcs

\* login_state.delete: the callback that goes on leaves no row behind.
LEMMA DeleteCallbacks ==
    ASSUME TypeOK, CallbacksInv, NEW p \in Procs, DeleteState(p)
    PROVE  CallbacksInv' /\ Onward
<1> PICK c : c = cb[p]
  BY Zenon
<1>1. c.pc = "delete" /\ UNCHANGED proc /\ Onward /\ c.ticket \notin live'
  BY Zenon DEF DeleteState, identityVars, samlVars, Onward
<1>2. /\ OauthInv(c) /\ c.path \in Oauth /\ c.pc \notin SharedPcs
  BY Zenon, <1>1, MyCallback DEF OauthPcs, SharedPcs
<1>3. CASE CbEnd(p)
  BY Zenon, <1>1, <1>2, <1>3, EarlyEnd
<1>4. CASE CbStep(p, "connection")
  <2>1. PICK m : m = Idle
    BY Zenon
  <2>2. proc' = [proc EXCEPT ![p] = m]
    BY Zenon, <1>1, <1>2, <2>1, NotYetProvisioning DEF CallbacksInv
  <2>3. ASSUME NEW n \in CallbackType, Onto(n, c, "connection") PROVE CallbackInv(n, m)'
    <3>1. OauthInv(n)'
      BY Zenon, <1>1, <1>2, <2>3
         DEF Onto, OauthInv, Oauth, OauthPcs, SharedPcs, Validated, Exchanged, Onward
    <3> QED BY Zenon, <1>2, <2>1, <2>3, <3>1
            DEF Onto, CallbackInv, SamlInv, JoinInv, Oauth, SharedPcs
  <2> QED BY Zenon, <1>1, <1>4, <2>2, <2>3, CallbackGoesOn DEF OauthPcs, CallbacksInv
<1> QED BY Zenon, <1>1, <1>3, <1>4 DEF DeleteState

\* The provisioner keeps to the user it was started for, until it fails.
SameUser(m, q) ==
    /\ m.op = q.op /\ m.pc # "idle"
    /\ m.pc # "err" => m.tenant = q.tenant /\ m.email = q.email

\* The provisioner keeps the operation and the user it was given.
LEMMA ProvisionerMoves ==
    ASSUME NEW p \in Procs, ProvisionerStep(p) \/ CallFails(p)
    PROVE  \E m : proc' = [proc EXCEPT ![p] = m] /\ SameUser(m, proc[p])
<1>1. ASSUME NEW pc, pc # "idle", NEW read, NEW k, NEW x, Goto(p, pc, read, k, x)
      PROVE  \E m : proc' = [proc EXCEPT ![p] = m] /\ SameUser(m, proc[p])
  <2>1. PICK m : m = Moved(proc[p], pc, read, k, x)
    BY Zenon
  <2>2. SameUser(m, proc[p])
    BY Zenon, <1>1, <2>1 DEF Moved, SameUser
  <2> QED BY Zenon, <1>1, <2>1, <2>2 DEF Goto
<1>2. ASSUME Fail(p)
      PROVE  \E m : proc' = [proc EXCEPT ![p] = m] /\ SameUser(m, proc[p])
  <2>1. PICK m : m = Request(proc[p].op, "err", None, None, None, 0, 0)
    BY Zenon
  <2>2. SameUser(m, proc[p])
    BY Zenon, <2>1 DEF Request, SameUser
  <2> QED BY Zenon, <1>2, <2>1, <2>2 DEF Fail
<1>3. ASSUME NEW pc, pc # "idle", NEW k,
             Step(p, pc) \/ StepOry(p, pc, k) \/ StepPublic(p, pc, k)
      PROVE  \E m : proc' = [proc EXCEPT ![p] = m] /\ SameUser(m, proc[p])
  BY Zenon, <1>1, <1>3 DEF Step, StepOry, StepPublic
<1>4. CASE ProvisionSchema(p) \/ SamlLookup(p)
  BY Zenon, <1>1, <1>3, <1>4 DEF ProvisionSchema, SamlLookup
<1>5. CASE FindByEmail(p)
  BY Zenon, <1>3, <1>5 DEF FindByEmail
<1>6. CASE FindPublicId(p)
  <2>1. PICK pc : pc = IF proc[p].op \in {"subject", "register"} THEN "ok" ELSE "member"
    BY Zenon
  <2>2. \/ Fail(p) \/ Step(p, "map")
        \/ \E x : StepPublic(p, pc, x)
    BY Zenon, <1>6, <2>1 DEF FindPublicId
  <2> QED BY Zenon, <1>2, <1>3, <2>1, <2>2
<1>7. CASE CreateIdentity(p)
  BY Zenon, <1>2, <1>3, <1>7 DEF CreateIdentity
<1>8. CASE CreateMapping(p)
  <2>1. PICK pc : pc = AfterMap(proc[p].op)
    BY Zenon
  <2>2. pc # "idle"
    BY Zenon, <2>1 DEF AfterMap
  <2>3. Fail(p) \/ \E x : StepPublic(p, pc, x)
    BY Zenon, <1>8, <2>1 DEF CreateMapping
  <2> QED BY Zenon, <1>2, <1>3, <2>2, <2>3
<1>9. CASE EnsureMembership(p) \/ SeedMembership(p) \/ RecordSamlMapping(p)
  <2>1. \E pc \in {"upsert", "saml_put", "ok"} : Step(p, pc)
    BY Zenon, <1>9 DEF EnsureMembership, SeedMembership, RecordSamlMapping
  <2> QED BY Zenon, <1>3, <2>1
<1>10. CASE CallFails(p)
  <2>1. PICK pc : pc = AfterError(proc[p].op, proc[p].pc)
    BY Zenon
  <2>2. pc # "idle"
    BY Zenon, <2>1 DEF AfterError
  <2>3. Fail(p) \/ Step(p, pc)
    BY Zenon, <1>10, <2>1 DEF CallFails
  <2> QED BY Zenon, <1>2, <1>3, <2>2, <2>3
<1> QED BY Zenon, <1>4, <1>5, <1>6, <1>7, <1>8, <1>9, <1>10 DEF ProvisionerStep

\* A step of the provisioner.
LEMMA ProvisionCallbacks ==
    ASSUME TypeOK, CallbacksInv, NEW p \in Procs, Provisioning(p)
    PROVE  CallbacksInv' /\ Onward
<1> PICK c : c = cb[p]
  BY Zenon
<1> PICK q : q = proc[p]
  BY Zenon
<1>1. c.pc = "provision" /\ cb' = cb /\ Onward
  BY Zenon DEF Provisioning, loginVars, samlVars, Onward
<1>2. PICK m : proc' = [proc EXCEPT ![p] = m] /\ SameUser(m, q)
  BY Zenon, ProvisionerMoves DEF Provisioning
<1>3. c \in CallbackType /\ CallbackInv(c, q)
  BY Zenon DEF CallbacksInv
<1>4. q.pc # "err"
  BY Zenon
     DEF Provisioning, ProvisionerStep, ProvisionSchema, SamlLookup, FindByEmail, FindPublicId,
         CreateIdentity, CreateMapping, EnsureMembership, SeedMembership, RecordSamlMapping,
         CallFails, CallPcs
<1>5. CallbackInv(c, m)
  BY Zenon, <1>1, <1>2, <1>3, <1>4 DEF CallbackInv, JoinInv, SameUser, SharedPcs
<1>6. CallbackInv(c, m)'
  BY Zenon, <1>1, <1>3, <1>5, CallbackStable
<1>7. cb' = [cb EXCEPT ![p] = c]
  BY Zenon, <1>1 DEF CallbacksInv
<1> QED BY Zenon, <1>1, <1>2, <1>3, <1>6, <1>7, CallbackMoves DEF CallbacksInv

\* The call of provision_identity.
LEMMA FetchCallbacks ==
    ASSUME TypeOK, CallbacksInv, NEW p \in Procs, FetchUserinfo(p)
    PROVE  CallbacksInv' /\ Onward
<1> PICK c : c = cb[p]
  BY Zenon
<1> PICK m : m = Request("provision", "schema", ConnTenant[issued[c.ticket]], c.email, None, 0, 0)
  BY Zenon
<1>1. /\ c.pc = "userinfo" /\ CbStep(p, "provision") /\ Onward
      /\ proc' = [proc EXCEPT ![p] = m]
  BY Zenon DEF FetchUserinfo, BeginProvision, Begin, loginVars, samlVars, Onward
<1>2. OauthInv(c) /\ c.path \in Oauth
  BY Zenon, <1>1, MyCallback DEF OauthPcs
<1>3. /\ m.pc = "schema" /\ m.op = "provision" /\ m.email = c.email
      /\ m.tenant = ConnTenant[issued[c.ticket]]
  BY Zenon DEF Request
<1>4. ASSUME NEW n \in CallbackType, Onto(n, c, "provision") PROVE CallbackInv(n, m)
  <2>1. OauthInv(n)
    BY Zenon, <1>1, <1>2, <1>4
       DEF Onto, OauthInv, Oauth, SharedPcs, ClaimedPcs, Validated, Exchanged
  <2>2. JoinInv(n, m)
    BY Zenon, <1>2, <1>3, <1>4 DEF Onto, JoinInv, SharedPcs, HomeOf, Oauth
  <2> QED BY Zenon, <1>2, <1>4, <2>1, <2>2 DEF Onto, CallbackInv, SamlInv, Oauth
<1> QED BY Zenon, <1>1, <1>4, CallbackStepsOn DEF SharedPcs

\* The call of provision_saml_identity.
LEMMA ForgetCallbacks ==
    ASSUME TypeOK, CallbacksInv, NEW p \in Procs, ForgetRequest(p)
    PROVE  CallbacksInv' /\ Onward
<1> PICK c : c = cb[p]
  BY Zenon
<1> PICK a : a = asserted[c.ticket]
  BY Zenon
<1> PICK m : m = Request("saml", "schema", ReqTenant[a.req], a.email, a.name, 0, 0)
  BY Zenon
<1>1. /\ c.pc = "forget" /\ CbStep(p, "provision") /\ Onward
      /\ proc' = [proc EXCEPT ![p] = m]
  BY Zenon DEF ForgetRequest, BeginProvisionSaml, Begin, loginVars, samlVars, Onward
<1>2. SamlInv(c) /\ c.path = "saml"
  BY Zenon, <1>1, MyCallback DEF SamlPcs
<1>3. /\ m.pc = "schema" /\ m.op = "saml" /\ m.email = a.email /\ m.tenant = ReqTenant[a.req]
  BY Zenon DEF Request
<1>4. ASSUME NEW n \in CallbackType, Onto(n, c, "provision") PROVE CallbackInv(n, m)
  <2>1. SamlInv(n)
    BY Zenon, <1>2, <1>4 DEF Onto, SamlInv, SharedPcs
  <2>2. JoinInv(n, m)
    BY Zenon, <1>2, <1>3, <1>4 DEF Onto, JoinInv, SharedPcs, HomeOf, SamlInv
  <2> QED BY Zenon, <1>2, <1>4, <2>1, <2>2 DEF Onto, CallbackInv, OauthInv, Oauth
<1> QED BY Zenon, <1>1, <1>4, CallbackStepsOn DEF SharedPcs

\* The provisioner answers.
LEMMA ProvisionedCallbacks ==
    ASSUME TypeOK, CallbacksInv, NEW p \in Procs, Provisioned(p)
    PROVE  CallbacksInv' /\ Onward
<1> PICK c : c = cb[p]
  BY Zenon
<1> PICK m : m = proc[p]
  BY Zenon
<1>1. /\ c.pc = "provision" /\ m.pc = "ok" /\ CbStep(p, "session") /\ Onward
      /\ proc' = [proc EXCEPT ![p] = m]
  BY Zenon DEF Provisioned, identityVars, loginVars, samlVars, Onward, TypeOK, IdentityTypeOK
<1>2. CallbackInv(c, m)
  BY Zenon DEF CallbacksInv
<1>3. ASSUME NEW n \in CallbackType, Onto(n, c, "session") PROVE CallbackInv(n, m)
  <2>1. OauthInv(n) /\ SamlInv(n)
    BY Zenon, <1>1, <1>2, <1>3
       DEF Onto, CallbackInv, OauthInv, SamlInv, SharedPcs, ClaimedPcs, Validated, Exchanged
  <2>2. JoinInv(n, m)
    BY Zenon, <1>1, <1>2, <1>3 DEF Onto, CallbackInv, JoinInv, SharedPcs, HomeOf
  <2> QED BY Zenon, <1>1, <1>2, <1>3, <2>1, <2>2 DEF Onto, CallbackInv
<1> QED BY Zenon, <1>1, <1>3, CallbackStepsOn DEF SharedPcs

\* A callback ends, with the provisioning it ran.
LEMMA EndCallbacks ==
    ASSUME TypeOK, CallbacksInv, NEW p \in Procs,
           NotProvisioned(p) \/ IssueSession(p) \/ CallbackFails(p)
    PROVE  CallbacksInv' /\ Onward
<1>1. CbEnd(p) /\ proc' = [proc EXCEPT ![p] = Idle] /\ Onward
  BY Zenon DEF NotProvisioned, IssueSession, CallbackFails, loginVars, samlVars, Onward
<1> QED BY Zenon, <1>1, CallbackEnds DEF CallbacksInv

\* The upstreams and the cleanup move no callback.
LEMMA UpstreamCallbacks ==
    ASSUME TypeOK, CallbacksInv, Upstream \/ Cleanup
    PROVE  CallbacksInv' /\ Onward /\ UNCHANGED <<identityVars, cb, gateway>>
<1>1. UNCHANGED <<identityVars, cb, gateway>>
  BY Zenon DEF Upstream, Cleanup, InitiateLogin, StateLapses, Authenticate, InitiateSamlLogin,
         RequestAges, IssueAssertion, AssertionGoesStale
<1>2. Onward
  <2>1. ASSUME NEW s \in States, NEW c \in Connections, InitiateLogin(s, c) PROVE Onward
    BY Zenon, <2>1 DEF InitiateLogin, Onward, samlVars, TypeOK
  <2>2. ASSUME NEW a \in Assertions, NEW r \in Requests, NEW n \in NameIds, NEW e \in Emails,
               IssueAssertion(a, r, n, e)
        PROVE  Onward
    BY Zenon, <2>2 DEF IssueAssertion, Onward, loginVars, TypeOK
  <2> QED BY Zenon, <2>1, <2>2
          DEF Upstream, Cleanup, StateLapses, Authenticate, InitiateSamlLogin, RequestAges,
              AssertionGoesStale, Onward, loginVars, samlVars
<1>3. ASSUME NEW r \in Procs, NEW y, NEW z, y = cb'[r], z = proc'[r] PROVE CallbackInv(y, z)'
  <2>1. y = cb[r] /\ z = proc[r] /\ y \in CallbackType /\ CallbackInv(y, z)
    BY Zenon, <1>1, <1>3 DEF CallbacksInv, identityVars
  <2> QED BY Zenon, <1>2, <2>1, CallbackStable
<1>4. \A r \in Procs : CallbackInv(cb[r], proc[r])'
  BY Zenon, <1>3
<1> QED BY Zenon, <1>1, <1>2, <1>4 DEF CallbacksInv

\* Every step keeps every callback to its attempt.
LEMMA CallbacksNext ==
    ASSUME TypeOK, CallbacksInv, Next
    PROVE  CallbacksInv' /\ Onward
<1>1. ASSUME NEW p \in Procs, CallbackStep(p) PROVE CallbacksInv' /\ Onward
  BY Zenon, <1>1, EarlyOauth, EarlySaml, DeleteCallbacks, FetchCallbacks, ForgetCallbacks,
     ProvisionCallbacks, ProvisionedCallbacks, EndCallbacks DEF CallbackStep
<1> QED BY Zenon, <1>1, DeliverCallbacks, EndCallbacks, UpstreamCallbacks DEF Next

-----------------------------------------------------------------------------
(* The identity stores under the logins.                                   *)

\* The user of a callback is a user.
LEMMA CallbackUser ==
    ASSUME TypeOK, CallbacksInv, NEW p \in Procs
    PROVE  /\ cb[p].path \in Oauth =>
                 ConnTenant[issued[cb[p].ticket]] \in Tenants /\ cb[p].email \in Emails
           /\ cb[p].path = "saml" =>
                 /\ asserted[cb[p].ticket] \in AssertionType
                 /\ ReqTenant[asserted[cb[p].ticket].req] \in Tenants
<1>1. OauthInv(cb[p]) /\ SamlInv(cb[p])
  BY Zenon, MyCallback
<1>2. ASSUME cb[p].path \in Oauth
      PROVE  ConnTenant[issued[cb[p].ticket]] \in Tenants /\ cb[p].email \in Emails
  <2>1. issued[cb[p].ticket] \in Connections
    BY Zenon, <1>1, <1>2 DEF OauthInv, TypeOK
  <2>2. <<cb[p].code, cb[p].email>> \in States \X Emails
    BY Zenon, <1>1, <1>2 DEF OauthInv, TypeOK
  <2> QED BY Zenon, <2>1, <2>2, LoginAssumption
<1>3. ASSUME cb[p].path = "saml"
      PROVE  /\ asserted[cb[p].ticket] \in AssertionType
             /\ ReqTenant[asserted[cb[p].ticket].req] \in Tenants
  <2>1. asserted[cb[p].ticket] \in AssertionType
    BY Zenon, <1>1, <1>3 DEF SamlInv, TypeOK
  <2> QED BY Zenon, <2>1, LoginAssumption DEF AssertionType
<1> QED BY Zenon, <1>2, <1>3

\* A step of a login is a step of the identity requests, or none.
LEMMA LoginIsIdentityStep ==
    ASSUME Ops = FederatedOps, TypeOK, CallbacksInv, Next
    PROVE  IdentityNext \/ UNCHANGED identityVars
<1>1. ASSUME NEW p \in Procs,
             \/ LoadState(p) \/ DeleteState(p) \/ LoadConnection(p) \/ ExchangeCode(p)
             \/ ValidateIdToken(p) \/ LoadRequest(p) \/ StampNow(p) \/ CheckAndInsert(p)
             \/ Provisioned(p) \/ Deliver(p)
      PROVE  UNCHANGED identityVars
  BY Zenon, <1>1
     DEF LoadState, DeleteState, LoadConnection, ExchangeCode, ValidateIdToken, LoadRequest,
              StampNow, CheckAndInsert, Provisioned, Deliver, OauthCallback, SamlCallback, CbOnly
<1>2. ASSUME NEW p \in Procs, FetchUserinfo(p) PROVE IdentityNext
  <2>1. cb[p].path \in Oauth
    BY Zenon, <1>2, MyCallback DEF FetchUserinfo, OauthPcs
  <2>2. \E t \in Tenants, e \in Emails : BeginProvision(p, t, e)
    BY Zenon, <1>2, <2>1, CallbackUser DEF FetchUserinfo
  <2>3. BeginFederated(p)
    BY Zenon, <2>2 DEF BeginFederated, FederatedOps
  <2> QED BY Zenon, <2>3 DEF IdentityNext, BeginStep
<1>3. ASSUME NEW p \in Procs, ForgetRequest(p) PROVE IdentityNext
  <2>1. cb[p].path = "saml"
    BY Zenon, <1>3, MyCallback DEF ForgetRequest, SamlPcs
  <2>2. PICK a \in AssertionType : a = asserted[cb[p].ticket] /\ ReqTenant[a.req] \in Tenants
    BY Zenon, <2>1, CallbackUser
  <2>3. BeginProvisionSaml(p, ReqTenant[a.req], a.name, a.email)
    BY Zenon, <1>3, <2>2 DEF ForgetRequest
  <2>4. a.name \in NameIds /\ a.email \in Emails
    BY Zenon DEF AssertionType
  <2>5. BeginFederated(p)
    BY Zenon, <2>2, <2>3, <2>4 DEF BeginFederated, FederatedOps
  <2> QED BY Zenon, <2>5 DEF IdentityNext, BeginStep
<1>4. ASSUME NEW p \in Procs, Provisioning(p) PROVE IdentityNext
  BY Zenon, <1>4 DEF Provisioning, IdentityNext
<1>5. ASSUME NEW p \in Procs, NotProvisioned(p) \/ IssueSession(p) \/ CallbackFails(p)
      PROVE  IdentityNext \/ UNCHANGED identityVars
  <2>1. proc' = [proc EXCEPT ![p] = Idle] /\ UNCHANGED storeVars
    BY Zenon, <1>5 DEF NotProvisioned, IssueSession, CallbackFails
  <2>2. CASE proc[p].pc \in {"ok", "err"}
    BY Zenon, <2>1, <2>2 DEF IdentityNext, ServiceStep, Return
  <2>3. CASE proc[p].pc \in CallPcs
    BY Zenon, <2>1, <2>3 DEF IdentityNext, Crash
  <2>4. CASE proc[p].pc = "idle"
    <3>1. proc[p] = Idle
      BY Zenon, <2>4, MyCallback DEF JoinInv
    <3>2. proc' = proc
      BY Zenon, <2>1, <3>1 DEF TypeOK, IdentityTypeOK
    <3> QED BY Zenon, <2>1, <3>2 DEF identityVars
  <2>5. proc[p].pc \in CallPcs \cup {"idle", "ok", "err"}
    BY Zenon DEF TypeOK, IdentityTypeOK, RequestType
  <2> QED BY Zenon, <2>2, <2>3, <2>4, <2>5
<1> QED BY Zenon, <1>1, <1>2, <1>3, <1>4, <1>5, UpstreamCallbacks DEF Next, CallbackStep

\* The types of everything else.
LEMMA TypeNext ==
    ASSUME TypeOK, CallbacksInv, Next, IdentityIInv, IdentityTypeOK', CallbacksInv'
    PROVE  TypeOK'
<1> DEFINE Tables ==
        /\ issued' \in [States -> Connections \cup {None}]
        /\ live' \subseteq States /\ lapsed' \subseteq States
        /\ codes' \subseteq States \X Emails
        /\ pending' \subseteq Requests /\ tooOld' \subseteq Requests
        /\ asserted' \in [Assertions -> AssertionType \cup {NoAssertion}]
        /\ stale' \subseteq Assertions /\ replay' \subseteq Assertions
<1>1. CASE Upstream
  <2>1. ASSUME NEW s \in States, NEW c \in Connections, InitiateLogin(s, c) PROVE Tables
    BY Zenon, <2>1 DEF InitiateLogin, TypeOK, samlVars
  <2>2. ASSUME NEW s \in States, StateLapses(s) PROVE Tables
    BY Zenon, <2>2 DEF StateLapses, TypeOK, samlVars
  <2>3. ASSUME NEW s \in States, NEW e \in Emails, Authenticate(s, e) PROVE Tables
    BY <2>3 DEF Authenticate, TypeOK, samlVars
  <2>4. ASSUME NEW r \in Requests, InitiateSamlLogin(r) \/ RequestAges(r) PROVE Tables
    BY Zenon, <2>4 DEF InitiateSamlLogin, RequestAges, TypeOK, loginVars
  <2>5. ASSUME NEW a \in Assertions, NEW r \in Requests, NEW n \in NameIds, NEW e \in Emails,
               IssueAssertion(a, r, n, e)
        PROVE  Tables
    <3>1. [req |-> r, name |-> n, email |-> e] \in AssertionType
      BY Zenon DEF AssertionType
    <3> QED BY Zenon, <2>5, <3>1 DEF IssueAssertion, TypeOK, loginVars
  <2>6. ASSUME NEW a \in Assertions, AssertionGoesStale(a) PROVE Tables
    BY Zenon, <2>6 DEF AssertionGoesStale, TypeOK, loginVars
  <2>7. Tables
    BY Zenon, <1>1, <2>1, <2>2, <2>3, <2>4, <2>5, <2>6 DEF Upstream
  <2> QED BY Zenon, <1>1, <2>7, UpstreamCallbacks DEF TypeOK, CallbacksInv
<1>2. CASE Cleanup
  <2>1. Tables /\ UNCHANGED gateway
    BY Zenon, <1>2 DEF Cleanup, TypeOK, loginVars
  <2> QED BY Zenon, <2>1 DEF TypeOK, CallbacksInv
<1>3. ASSUME NEW p \in Procs, IssueSession(p) PROVE TypeOK'
  <2>1. Tables
    BY Zenon, <1>3 DEF IssueSession, TypeOK, loginVars, samlVars
  <2>2. PICK g : g = [ticket |-> cb[p].ticket, tenant |-> proc[p].tenant,
                      public |-> proc[p].public, email |-> cb[p].email, stored |-> ~cb[p].rpc]
    BY Zenon
  <2>3. cb[p].pc = "session" /\ proc[p].pc = "ok"
    BY Zenon, <1>3, MyCallback DEF IssueSession, JoinInv
  <2>4. cb[p].path \in {"oidc", "oauth2", "saml"}
    BY Zenon, <2>3, MyCallback DEF CallbackType
  <2>5. proc[p].op \in FederatedOps /\ proc[p].tenant \in Tenants /\ proc[p].public \in PublicIds
    <3>1. proc[p].op \in FederatedOps
      BY Zenon, <2>3, MyCallback DEF JoinInv, SharedPcs, FederatedOps
    <3>2. proc[p].tenant \in Tenants /\ Backed(proc[p].tenant, proc[p].public, proc[p].ory)
      BY Zenon, <2>3, <3>1, Mine DEF RequestInv
    <3> QED BY Zenon, <3>1, <3>2, Mine, Records DEF Backed
  <2>6. cb[p].ticket \in States \cup Assertions /\ cb[p].email \in Emails /\ cb[p].rpc \in BOOLEAN
    <3>1. CASE cb[p].path = "saml"
      BY Zenon, <3>1, MyCallback, CallbackUser DEF SamlInv, AssertionType, CallbackType
    <3>2. CASE cb[p].path \in Oauth
      BY Zenon, <3>2, MyCallback, CallbackUser DEF OauthInv, CallbackType
    <3> QED BY Zenon, <2>4, <3>1, <3>2 DEF Oauth
  <2>7. g \in SessionType
    BY Zenon, <2>2, <2>5, <2>6 DEF SessionType
  <2>8. gateway' = Append(gateway, g)
    BY Zenon, <1>3, <2>2 DEF IssueSession
  <2>9. gateway' \in Seq(SessionType)
    BY <2>7, <2>8 DEF TypeOK
  <2> QED BY Zenon, <2>1, <2>9 DEF TypeOK, CallbacksInv
<1>4. ASSUME NEW p \in Procs, CheckAndInsert(p) PROVE Tables /\ UNCHANGED gateway
  <2>1. cb[p].ticket \in Assertions
    BY Zenon, <1>4, MyCallback DEF CheckAndInsert, SamlPcs, SamlInv
  <2> QED BY Zenon, <1>4, <2>1 DEF CheckAndInsert, TypeOK, loginVars
<1>5. ASSUME NEW p \in Procs,
             Deliver(p) \/ CallbackFails(p) \/ (CallbackStep(p) /\ ~IssueSession(p))
      PROVE  Tables /\ UNCHANGED gateway
  <2>1. CASE DeleteState(p)
    BY Zenon, <2>1 DEF DeleteState, TypeOK, samlVars
  <2>2. CASE ForgetRequest(p)
    BY Zenon, <2>2 DEF ForgetRequest, TypeOK, loginVars
  <2>3. CASE UNCHANGED <<loginVars, samlVars, gateway>>
    BY Zenon, <2>3 DEF loginVars, samlVars, TypeOK
  <2> QED BY Zenon, <1>4, <1>5, <2>1, <2>2, <2>3
          DEF Deliver, CallbackFails, CallbackStep, OauthCallback, SamlCallback, LoadState,
              LoadConnection, ExchangeCode, ValidateIdToken, FetchUserinfo, LoadRequest,
              StampNow, Provisioning, Provisioned, NotProvisioned, CbOnly
<1>6. ASSUME NEW p \in Procs,
             Deliver(p) \/ CallbackFails(p) \/ (CallbackStep(p) /\ ~IssueSession(p))
      PROVE  TypeOK'
  BY Zenon, <1>5, <1>6 DEF TypeOK, CallbacksInv
<1> QED BY Zenon, <1>1, <1>2, <1>3, <1>6 DEF Next, CallbackStep

-----------------------------------------------------------------------------
(* Sessions.                                                               *)

\* Logins add identities and mappings and change none.
StoresGrow ==
    /\ nextOry' >= nextOry
    /\ \A k \in OryIds : k < nextOry => kratos'[k] = kratos[k]
    /\ \A k \in OryIds : nextOry <= k /\ k < nextOry' => kratos'[k] # Gone
    /\ \A x \in PublicIds : Linked(x) => mapping'[x] = mapping[x]

\* kratos.create adds an identity.
LEMMA CreateGrows ==
    ASSUME IdentityIInv, NEW p \in Procs, CreateIdentity(p) PROVE StoresGrow
<1>1. StoreTypeOK /\ StoreInv /\ RequestInv(proc[p]) /\ nextOry \in Nat
  BY Zenon, Mine, Records
<1>2. proc[p].pc = "create" /\ proc[p].email \in Emails
  BY Zenon, <1>1 DEF CreateIdentity, RequestInv, CallTable, By, CallPcs, FederatedOps
<1>3. CASE UNCHANGED <<kratos, nextOry>>
  BY <1>1, <1>3 DEF StoresGrow, CreateIdentity, OryIds
<1>4. ASSUME NEW by, KratosInsert(proc[p].email, by) PROVE StoresGrow
  <2>1. PICK v : v = [email |-> proc[p].email, by |-> by]
    BY Zenon
  <2>2. v # Gone
    BY Zenon, <1>2, <2>1, IdentityAssumption DEF Gone
  <2>3. nextOry' = nextOry + 1 /\ kratos' = [kratos EXCEPT ![nextOry] = v]
    BY Zenon, <1>4, <2>1 DEF KratosInsert
  <2>4. \A k \in OryIds : kratos'[k] = IF k = nextOry THEN v ELSE kratos[k]
    BY Zenon, <1>1, <2>3 DEF StoreTypeOK
  <2>5. UNCHANGED mapping
    BY Zenon DEF CreateIdentity
  <2> QED BY <1>1, <2>2, <2>3, <2>4, <2>5 DEF StoresGrow, OryIds
<1> QED BY Zenon, <1>3, <1>4 DEF CreateIdentity

\* mappings.create adds a mapping.
LEMMA MapGrows ==
    ASSUME IdentityIInv, NEW p \in Procs, CreateMapping(p) PROVE StoresGrow
<1>1. StoreTypeOK /\ StoreInv /\ nextOry \in Nat /\ nextPublic \in Nat
  BY Zenon, Mine, Records
<1>2. UNCHANGED <<kratos, nextOry>>
  BY Zenon DEF CreateMapping
<1>3. \A x \in PublicIds : Linked(x) => x # nextPublic
  BY <1>1 DEF StoreInv, Linked, PublicIds
<1>4. \A x \in PublicIds : Linked(x) => mapping'[x] = mapping[x]
  BY Zenon, <1>1, <1>3 DEF CreateMapping, InsertMapping, StoreTypeOK
<1> QED BY <1>1, <1>2, <1>4 DEF StoresGrow, OryIds

\* No step of a login removes an identity or a mapping.
LEMMA LoginsGrow ==
    ASSUME TypeOK, CallbacksInv, IdentityIInv, Next PROVE StoresGrow
<1>1. nextOry \in Nat
  BY Zenon, Records DEF IdentityIInv, IdentityTypeOK
<1>2. ASSUME UNCHANGED <<kratos, mapping, nextOry>> PROVE StoresGrow
  BY <1>1, <1>2 DEF StoresGrow, OryIds
<1>3. ASSUME NEW p \in Procs, Provisioning(p) PROVE StoresGrow
  <2>1. CASE CreateIdentity(p) \/ CreateMapping(p)
    BY Zenon, <2>1, CreateGrows, MapGrows
  <2>2. CASE UNCHANGED <<kratos, mapping, nextOry>>
    BY Zenon, <1>2, <2>2
  <2> QED BY Zenon, <1>3, <2>1, <2>2
          DEF Provisioning, ProvisionerStep, ProvisionSchema, SamlLookup, FindByEmail,
              FindPublicId, EnsureMembership, SeedMembership, RecordSamlMapping, CallFails,
              storeVars
<1>4. ASSUME NEW p \in Procs,
             Deliver(p) \/ CallbackFails(p) \/ (CallbackStep(p) /\ ~Provisioning(p))
      PROVE  UNCHANGED storeVars
  BY Zenon, <1>4 DEF Deliver, CallbackFails, CallbackStep, OauthCallback, SamlCallback, LoadState,
      DeleteState, LoadConnection, ExchangeCode, ValidateIdToken, FetchUserinfo, LoadRequest,
      StampNow, CheckAndInsert, ForgetRequest, Provisioned, NotProvisioned, IssueSession, CbOnly,
      BeginProvision, BeginProvisionSaml, identityVars
<1>5. ASSUME Upstream \/ Cleanup PROVE UNCHANGED storeVars
  BY Zenon, <1>5, UpstreamCallbacks DEF identityVars
<1> QED BY Zenon, <1>2, <1>3, <1>4, <1>5 DEF Next, storeVars

\* So no identity that was created is ever gone.
LEMMA NoneGoneNext ==
    ASSUME StoresGrow, NoneGone, nextOry \in Nat, nextOry' \in Nat PROVE NoneGone'
BY DEF StoresGrow, NoneGone, OryIds

\* A session is as good as when it was issued.
LEMMA SessionStable ==
    ASSUME TypeOK, IdentityIInv, Onward, StoresGrow, NEW g \in SessionType, SessionInv(g)
    PROVE  SessionInv(g)'
<1>1. g.public \in PublicIds /\ Linked(g.public) /\ mapping'[g.public] = mapping[g.public]
  BY Zenon DEF SessionType, SessionInv, MappedIn, Linked, StoresGrow
<1>2. mapping[g.public].ory \in OryIds /\ mapping[g.public].ory < nextOry
  <2>1. nextOry \in Nat /\ mapping[g.public].ory \in Created /\ Created \subseteq OryIds
    BY Zenon, <1>1, Records DEF IdentityIInv, IdentityTypeOK, StoreInv
  <2> QED BY <2>1 DEF Created
<1>3. kratos'[mapping[g.public].ory] = kratos[mapping[g.public].ory]
  BY Zenon, <1>2 DEF StoresGrow
<1> QED BY Zenon, <1>1, <1>3 DEF SessionInv, MappedIn, Onward

\* A session that is issued is for the user of its attempt.
LEMMA SessionIssued ==
    ASSUME Ops = FederatedOps, TypeOK, CallbacksInv, IdentityIInv, NoneGone,
           NEW p \in Procs, IssueSession(p),
           NEW g, g = [ticket |-> cb[p].ticket, tenant |-> proc[p].tenant,
                       public |-> proc[p].public, email |-> cb[p].email, stored |-> ~cb[p].rpc]
    PROVE  SessionInv(g)
<1> PICK c : c = cb[p]
  BY Zenon
<1> PICK q : q = proc[p]
  BY Zenon
<1>1. c.pc = "session" /\ c \in CallbackType /\ OauthInv(c) /\ SamlInv(c) /\ JoinInv(c, q)
  BY Zenon, MyCallback DEF IssueSession
<1>2. /\ q.pc = "ok" /\ q.op = (IF c.path = "saml" THEN "saml" ELSE "provision")
      /\ q.tenant = HomeOf(c) /\ q.email = c.email
  BY Zenon, <1>1 DEF JoinInv, SharedPcs
<1>3. c.path = "saml" \/ c.path \in Oauth
  BY Zenon, <1>1, MyCallback DEF CallbackType, Oauth
<1>4. NoUndo /\ NoScimUpdate
  BY Zenon DEF NoUndo, NoScimUpdate, FederatedOps
<1>5. /\ q.tenant \in Tenants /\ Backed(q.tenant, q.public, q.ory) /\ Chained(q.public, q.ory)
      /\ q.op = "provision" => SameEmail(q.ory, q.email)
  <2>1. RequestInv(q) /\ q.op \in FederatedOps
    BY Zenon, <1>2, Mine DEF FederatedOps
  <2> QED BY Zenon, <1>2, <1>4, <2>1 DEF RequestInv, Vouched
<1>6. kratos[q.ory] # Gone
  <2>1. q.ory \in OryIds /\ q.ory < nextOry
    <3>1. nextOry \in Nat /\ Created \subseteq OryIds /\ q.ory \in Created
      BY Zenon, <1>5, Mine, Records DEF Backed
    <3> QED BY <3>1 DEF Created
  <2> QED BY Zenon, <2>1 DEF NoneGone
<1>7. /\ mapping[q.public] = [tenant |-> q.tenant, ory |-> q.ory]
      /\ mapping[q.public] # Unmapped
      /\ q.op = "provision" => kratos[q.ory].email = c.email
  BY Zenon, <1>2, <1>5, <1>6 DEF Backed, Chained, SameEmail, Linked
<1>8. /\ g.ticket = c.ticket /\ g.tenant = q.tenant /\ g.public = q.public /\ g.email = c.email
  BY Zenon
<1>9. MappedIn(g.tenant, g.public)
  BY <1>7, <1>8 DEF MappedIn
<1>10. ASSUME g.ticket \in States PROVE c.path \in Oauth
  BY Zenon, <1>1, <1>3, <1>8, <1>10, LoginAssumption DEF SamlInv
<1>11. ASSUME g.ticket \in Assertions PROVE c.path = "saml"
  BY Zenon, <1>1, <1>3, <1>8, <1>11, LoginAssumption DEF OauthInv
<1>12. ASSUME g.ticket \in States
       PROVE  /\ issued[g.ticket] # None /\ g.tenant = ConnTenant[issued[g.ticket]]
              /\ ConnType[issued[g.ticket]] = "oidc" \/ UpstreamPkce =>
                    <<g.ticket, g.email>> \in codes
              /\ kratos[mapping[g.public].ory].email = g.email
  <2>1. c.path \in Oauth /\ q.op = "provision"
    BY Zenon, <1>2, <1>10, <1>12 DEF Oauth
  <2>2. /\ issued[c.ticket] # None /\ <<c.code, c.email>> \in codes
        /\ ConnType[issued[c.ticket]] = c.path
        /\ c.path = "oidc" \/ UpstreamPkce => c.code = c.ticket
    BY Zenon, <1>1, <2>1 DEF OauthInv, Validated, Exchanged, SharedPcs
  <2>3. g.tenant = ConnTenant[issued[g.ticket]]
    BY Zenon, <1>2, <1>8, <2>1 DEF HomeOf, Oauth
  <2>4. kratos[mapping[g.public].ory].email = g.email
    BY <1>7, <1>8, <2>1
  <2> QED BY Zenon, <1>8, <2>2, <2>3, <2>4
<1>13. ASSUME g.ticket \in Assertions
       PROVE  asserted[g.ticket] # NoAssertion /\ g.tenant = ReqTenant[asserted[g.ticket].req]
  BY Zenon, <1>1, <1>2, <1>8, <1>11, <1>13 DEF SamlInv, HomeOf
<1> QED BY Zenon, <1>9, <1>12, <1>13 DEF SessionInv

\* Only IssueSession adds a session.
LEMMA GatewayStep ==
    ASSUME TypeOK, CallbacksInv, Next PROVE UNCHANGED gateway \/ \E p \in Procs : IssueSession(p)
<1>1. ASSUME NEW p \in Procs,
             Deliver(p) \/ CallbackFails(p) \/ (CallbackStep(p) /\ ~IssueSession(p))
      PROVE  UNCHANGED gateway
  BY Zenon, <1>1 DEF Deliver, CallbackFails, CallbackStep, OauthCallback, SamlCallback, LoadState,
      DeleteState, LoadConnection, ExchangeCode, ValidateIdToken, FetchUserinfo, LoadRequest,
      StampNow, CheckAndInsert, ForgetRequest, Provisioning, Provisioned, NotProvisioned, CbOnly
<1> QED BY Zenon, <1>1, UpstreamCallbacks DEF Next

\* What a session is appended to.
LEMMA Appended ==
    ASSUME TypeOK, NEW g, gateway' = Append(gateway, g)
    PROVE  /\ Len(gateway) \in Nat /\ DOMAIN gateway = 1 .. Len(gateway)
           /\ DOMAIN gateway' = DOMAIN gateway \cup {Len(gateway) + 1}
           /\ Len(gateway) + 1 \notin DOMAIN gateway
           /\ gateway'[Len(gateway) + 1] = g
           /\ \A i \in DOMAIN gateway : gateway'[i] = gateway[i] /\ gateway[i] \in SessionType
<1>1. gateway \in Seq(SessionType)
  BY Zenon DEF TypeOK
<1> QED BY <1>1

\* Old sessions stay good, and a new one is good.
LEMMA SessionsNext ==
    ASSUME Ops = FederatedOps, TypeOK, CallbacksInv, IdentityIInv, NoneGone, Next,
           \A i \in DOMAIN gateway : SessionInv(gateway[i])
    PROVE  \A i \in DOMAIN gateway' : SessionInv(gateway[i])'
<1>1. Onward /\ StoresGrow
  BY Zenon, CallbacksNext, LoginsGrow
<1>2. ASSUME NEW g \in SessionType, SessionInv(g) PROVE SessionInv(g)'
  BY Zenon, <1>1, <1>2, SessionStable
<1>3. ASSUME NEW i \in DOMAIN gateway PROVE gateway[i] \in SessionType
  BY DEF TypeOK
<1>4. CASE UNCHANGED gateway
  <2>1. ASSUME NEW i \in DOMAIN gateway', NEW g, g = gateway'[i] PROVE SessionInv(g)'
    <3>1. i \in DOMAIN gateway /\ g = gateway[i]
      BY Zenon, <1>4, <2>1
    <3> QED BY Zenon, <1>2, <1>3, <3>1
  <2> QED BY Zenon, <2>1
<1>5. ASSUME NEW p \in Procs, IssueSession(p)
      PROVE  \A i \in DOMAIN gateway' : SessionInv(gateway[i])'
  <2>1. PICK n : n = [ticket |-> cb[p].ticket, tenant |-> proc[p].tenant,
                      public |-> proc[p].public, email |-> cb[p].email, stored |-> ~cb[p].rpc]
    BY Zenon
  <2>2. gateway' = Append(gateway, n) /\ SessionInv(n)
    BY Zenon, <1>5, <2>1, SessionIssued DEF IssueSession
  <2>3. CallbacksInv' /\ UNCHANGED <<storeVars, loginVars, samlVars>>
    BY Zenon, <1>5, EndCallbacks DEF IssueSession
  <2>4. SessionInv(n)'
    BY Zenon, <2>2, <2>3 DEF SessionInv, MappedIn, storeVars, loginVars, samlVars
  <2>5. ASSUME NEW i \in DOMAIN gateway', NEW g, g = gateway'[i] PROVE SessionInv(g)'
    <3>1. g = n \/ (i \in DOMAIN gateway /\ g = gateway[i])
      BY Zenon, <2>2, <2>5, Appended
    <3> QED BY Zenon, <1>2, <1>3, <2>4, <3>1
  <2> QED BY Zenon, <2>5
<1> QED BY Zenon, <1>4, <1>5, GatewayStep

-----------------------------------------------------------------------------
(* Tickets.                                                                *)

Ticket == States \cup Assertions

\* What the end of a callback does to claims and judgements.
LEMMA EndMarks ==
    ASSUME TypeOK, NEW p \in Procs, CbEnd(p)
    PROVE  \A r \in Procs, k \in Ticket :
              /\ Claims(r, k)' <=> (r # p /\ Claims(r, k))
              /\ Judged(r, k)' <=> (r # p /\ Judged(r, k))
<1>1. \A r \in Procs : cb'[r] = IF r = p THEN NoCallback ELSE cb[r]
  BY Zenon DEF CbEnd, TypeOK
<1>2. NoCallback.pc = "idle"
  BY Zenon DEF NoCallback, Callback
<1> QED BY Zenon, <1>1, <1>2 DEF Claims, Judged, ClaimedPcs, SharedPcs

\* What a step of a callback does to claims and judgements.
LEMMA StepMarks ==
    ASSUME TypeOK, NEW p \in Procs, NEW pc, CbStep(p, pc)
    PROVE  \A r \in Procs, k \in Ticket :
              /\ Claims(r, k)' <=> IF r = p THEN cb[p].ticket = k /\ pc \in ClaimedPcs
                                   ELSE Claims(r, k)
              /\ Judged(r, k)' <=> IF r = p THEN cb[p].ticket = k /\ pc = "replay"
                                   ELSE Judged(r, k)
<1>1. PICK n : n = CbAt(cb[p], pc)
  BY Zenon
<1>2. n.pc = pc /\ n.ticket = cb[p].ticket
  BY Zenon, <1>1 DEF CbAt, Callback
<1>3. \A r \in Procs : cb'[r] = IF r = p THEN n ELSE cb[r]
  BY Zenon, <1>1 DEF CbStep, TypeOK
<1> QED BY Zenon, <1>2, <1>3 DEF Claims, Judged

\* A step that does not touch tickets.
Calm ==
    /\ UNCHANGED <<issued, live, asserted, stale, replay, gateway>>
    /\ \A r \in Procs, k \in Ticket :
          (Claims(r, k)' <=> Claims(r, k)) /\ (Judged(r, k)' <=> Judged(r, k))

\* A callback that keeps its claim.
LEMMA CalmStep ==
    ASSUME TypeOK, NEW p \in Procs, NEW pc, CbStep(p, pc),
           UNCHANGED <<issued, live, asserted, stale, replay, gateway>>,
           cb[p].pc \in ClaimedPcs <=> pc \in ClaimedPcs, cb[p].pc # "replay", pc # "replay"
    PROVE  Calm
BY StepMarks DEF Calm, Claims, Judged

\* A callback that ends without one.
LEMMA CalmEnd ==
    ASSUME TypeOK, NEW p \in Procs, CbEnd(p), cb[p].pc \notin ClaimedPcs, cb[p].pc # "replay",
           UNCHANGED <<issued, live, asserted, stale, replay, gateway>>
    PROVE  Calm
BY EndMarks DEF Calm, Claims, Judged

\* The callback steps that claim nothing and give nothing up.
LEMMA CalmActions ==
    ASSUME TypeOK, CallbacksInv, NEW p \in Procs,
           \/ LoadState(p) \/ LoadConnection(p) \/ ExchangeCode(p) \/ ValidateIdToken(p)
           \/ FetchUserinfo(p) \/ LoadRequest(p) \/ ForgetRequest(p) \/ Provisioning(p)
           \/ Provisioned(p) \/ Deliver(p) \/ (StampNow(p) /\ CbEnd(p))
    PROVE  Calm
<1> USE DEF loginVars, samlVars, CbOnly
<1>1. CASE LoadState(p)
  <2>1. /\ UNCHANGED <<issued, live, asserted, stale, replay, gateway>>
        /\ cb[p].pc = "load" /\ (CbStep(p, "delete") \/ CbEnd(p))
    BY Zenon, <1>1 DEF LoadState
  <2> QED BY Zenon, <2>1, CalmStep, CalmEnd DEF ClaimedPcs, SharedPcs
<1>2. CASE LoadConnection(p)
  BY Zenon, <1>2, CalmStep DEF LoadConnection, ClaimedPcs
<1>3. CASE ExchangeCode(p)
  <2>1. /\ UNCHANGED <<issued, live, asserted, stale, replay, gateway>>
        /\ cb[p].pc = "exchange" /\ (CbStep(p, "id_token") \/ CbStep(p, "userinfo"))
    BY Zenon, <1>3 DEF ExchangeCode
  <2> QED BY Zenon, <2>1, CalmStep DEF ClaimedPcs
<1>4. CASE ValidateIdToken(p)
  BY Zenon, <1>4, CalmStep DEF ValidateIdToken, ClaimedPcs
<1>5. CASE FetchUserinfo(p)
  BY Zenon, <1>5, CalmStep DEF FetchUserinfo, ClaimedPcs, SharedPcs
<1>6. CASE LoadRequest(p)
  <2>1. /\ UNCHANGED <<issued, live, asserted, stale, replay, gateway>>
        /\ cb[p].pc = "request" /\ (CbStep(p, "stamp") \/ CbEnd(p))
    BY Zenon, <1>6 DEF LoadRequest
  <2> QED BY Zenon, <2>1, CalmStep, CalmEnd DEF ClaimedPcs, SharedPcs
<1>7. CASE ForgetRequest(p)
  BY Zenon, <1>7, CalmStep DEF ForgetRequest, ClaimedPcs, SharedPcs
<1>8. CASE Provisioning(p)
  BY Zenon, <1>8 DEF Provisioning, Calm, Claims, Judged
<1>9. CASE Provisioned(p)
  BY Zenon, <1>9, CalmStep DEF Provisioned, ClaimedPcs, SharedPcs
<1>10. CASE Deliver(p)
  <2>1. PICK n : /\ cb' = [cb EXCEPT ![p] = n] /\ n.pc \in {"load", "request"}
                 /\ cb[p].pc = "idle"
                 /\ UNCHANGED <<issued, live, asserted, stale, replay, gateway>>
    BY Zenon, <1>10 DEF Deliver, OauthCallback, SamlCallback, Callback
  <2>2. \A r \in Procs : cb'[r] = IF r = p THEN n ELSE cb[r]
    BY Zenon, <2>1 DEF TypeOK
  <2> QED BY Zenon, <2>1, <2>2 DEF Calm, Claims, Judged, ClaimedPcs, SharedPcs
<1>11. CASE StampNow(p) /\ CbEnd(p)
  BY Zenon, <1>11, CalmEnd DEF StampNow, ClaimedPcs, SharedPcs
<1> QED BY Zenon, <1>1, <1>2, <1>3, <1>4, <1>5, <1>6, <1>7, <1>8, <1>9, <1>10, <1>11

\* The upstream steps that concern no ticket.
LEMMA CalmUpstream ==
    ASSUME \/ \E s \in States : StateLapses(s) \/ \E e \in Emails : Authenticate(s, e)
           \/ \E r \in Requests : InitiateSamlLogin(r) \/ RequestAges(r)
           \/ UNCHANGED federatedVars
    PROVE  Calm
BY Zenon DEF StateLapses, Authenticate, InitiateSamlLogin, RequestAges, federatedVars, loginVars,
       samlVars, Calm, Claims, Judged

\* No new claim, no new session: single use as before.
LEMMA OnceStable ==
    ASSUME NEW k, Once(k), UNCHANGED gateway, Used(k) => Used(k)',
           \A r \in Procs : Claims(r, k)' => Claims(r, k)
    PROVE  Once(k)'
BY Zenon DEF Once

\* The first claim.
LEMMA OnceClaimed ==
    ASSUME NEW k, Once(k), UNCHANGED gateway, ~Used(k), Used(k)', NEW p,
           \A r \in Procs : Claims(r, k)' => Claims(r, k) \/ r = p
    PROVE  Once(k)'
BY Zenon DEF Once

\* The session of the claim.
LEMMA OnceGranted ==
    ASSUME TypeOK, NEW k, Once(k), Used(k) => Used(k)', NEW p \in Procs,
           NEW g, gateway' = Append(gateway, g), g.ticket = k => Claims(p, k),
           \A r \in Procs : Claims(r, k)' => r # p /\ Claims(r, k)
    PROVE  Once(k)'
<1>1. CASE g.ticket = k
  <2>1. /\ Used(k)' /\ \A r \in Procs : ~Claims(r, k)'
        /\ \A i \in DOMAIN gateway : gateway[i].ticket # k
    BY Zenon, <1>1 DEF Once
  <2>2. \A i \in DOMAIN gateway' : gateway'[i].ticket = k => i = Len(gateway) + 1
    BY Zenon, <2>1, Appended
  <2> QED BY Zenon, <2>1, <2>2 DEF Once
<1>2. CASE g.ticket # k
  <2>1. \A i \in DOMAIN gateway' : gateway'[i].ticket = k =>
           i \in DOMAIN gateway /\ gateway[i].ticket = k
    BY Zenon, <1>2, Appended
  <2> QED BY Zenon, <2>1 DEF Once
<1> QED BY Zenon, <1>1, <1>2

\* A ticket that is used up stays so, unless its replay row goes early.
LEMMA UsedStable ==
    ASSUME TypeOK, Onward, NEW k \in Ticket, Used(k), stale \subseteq stale',
           replay \subseteq replay' \/ k \in States,
           \A r \in Procs : Judged(r, k)' => Judged(r, k) \/ k \notin stale \/ k \in States
    PROVE  Used(k)'
<1>1. CASE k \in States
  BY Zenon, <1>1, LoginAssumption DEF Used, Onward
<1>2. CASE k \in Assertions
  BY Zenon, <1>2, LoginAssumption DEF Used, Onward
<1> QED BY Zenon, <1>1, <1>2 DEF Ticket

\* Calm steps keep the tickets single-use.
LEMMA CalmTickets ==
    ASSUME TypeOK, Onward, TicketsInv, Calm PROVE TicketsInv'
<1>1. ASSUME NEW k \in Ticket, Once(k) PROVE Once(k)'
  <2>1. Used(k) => Used(k)'
    BY Zenon, UsedStable DEF Calm
  <2> QED BY Zenon, <1>1, <2>1, OnceStable DEF Calm
<1>2. (\A a \in replay \cup stale : asserted[a] # NoAssertion)' /\ (\A s \in live : issued[s] # None)'
  BY Zenon DEF Calm, TicketsInv
<1> QED BY Zenon, <1>1, <1>2 DEF TicketsInv, Ticket

\* Steps that add rows and move no callback.
LEMMA IssueTickets ==
    ASSUME TypeOK, Onward, TicketsInv,
           \/ \E s \in States, c \in Connections : InitiateLogin(s, c)
           \/ \E a \in Assertions, r \in Requests, n \in NameIds, e \in Emails :
                 IssueAssertion(a, r, n, e)
           \/ \E a \in Assertions : AssertionGoesStale(a)
    PROVE  TicketsInv'
<1>1. UNCHANGED <<cb, gateway, replay>> /\ stale \subseteq stale'
  BY Zenon DEF InitiateLogin, IssueAssertion, AssertionGoesStale, samlVars
<1>2. ASSUME NEW k \in Ticket, Once(k) PROVE Once(k)'
  <2>1. \A r \in Procs : (Claims(r, k)' => Claims(r, k)) /\ (Judged(r, k)' => Judged(r, k))
    BY Zenon, <1>1 DEF Claims, Judged
  <2>2. Used(k) => Used(k)'
    BY Zenon, <1>1, <2>1, UsedStable
  <2> QED BY Zenon, <1>1, <1>2, <2>1, <2>2, OnceStable
<1>3. /\ \A a \in replay' \cup stale' : asserted'[a] # NoAssertion
      /\ \A s \in live' : issued'[s] # None
  <2>1. ASSUME NEW s \in States, NEW c \in Connections, InitiateLogin(s, c)
        PROVE  /\ \A a \in replay' \cup stale' : asserted'[a] # NoAssertion
               /\ \A z \in live' : issued'[z] # None
    BY <2>1, LoginAssumption DEF InitiateLogin, TicketsInv, TypeOK, samlVars
  <2>2. ASSUME NEW a \in Assertions, NEW r \in Requests, NEW n \in NameIds, NEW e \in Emails,
               IssueAssertion(a, r, n, e)
        PROVE  /\ \A b \in replay' \cup stale' : asserted'[b] # NoAssertion
               /\ \A z \in live' : issued'[z] # None
    <3>1. \A b \in replay \cup stale : b \in Assertions /\ asserted'[b] = asserted[b]
      BY Zenon, <2>2 DEF IssueAssertion, TicketsInv, TypeOK
    <3> QED BY Zenon, <2>2, <3>1 DEF IssueAssertion, TicketsInv, loginVars
  <2>3. ASSUME NEW a \in Assertions, AssertionGoesStale(a)
        PROVE  /\ \A b \in replay' \cup stale' : asserted'[b] # NoAssertion
               /\ \A z \in live' : issued'[z] # None
    BY Zenon, <2>3 DEF AssertionGoesStale, TicketsInv, loginVars
  <2> QED BY Zenon, <2>1, <2>2, <2>3
<1> QED BY Zenon, <1>2, <1>3 DEF TicketsInv, Ticket

\* An assertion is judged before it is stale.
LEMMA StampTickets ==
    ASSUME TypeOK, Onward, TicketsInv, NEW p \in Procs, StampNow(p), CbStep(p, "replay"),
           cb[p].ticket \notin stale
    PROVE  TicketsInv'
<1>1. /\ UNCHANGED <<issued, live, asserted, stale, replay, gateway>> /\ cb[p].pc = "stamp"
  BY Zenon DEF StampNow, CbOnly, loginVars, samlVars
<1>2. ASSUME NEW k \in Ticket, Once(k) PROVE Once(k)'
  <2>1. \A r \in Procs : Claims(r, k)' => Claims(r, k)
    BY Zenon, <1>1, StepMarks DEF ClaimedPcs, SharedPcs
  <2>2. \A r \in Procs : Judged(r, k)' => Judged(r, k) \/ k \notin stale
    BY Zenon, StepMarks
  <2>3. Used(k) => Used(k)'
    BY Zenon, <1>1, <2>2, UsedStable
  <2> QED BY Zenon, <1>1, <1>2, <2>1, <2>3, OnceStable
<1> QED BY Zenon, <1>1, <1>2 DEF TicketsInv, Ticket

\* The delete that finds the row is the only one ever to find it.
LEMMA DeleteTickets ==
    ASSUME TypeOK, CallbacksInv, Onward, TicketsInv, NEW p \in Procs, DeleteState(p)
    PROVE  TicketsInv'
<1> PICK t : t = cb[p].ticket
  BY Zenon
<1>1. /\ UNCHANGED <<issued, asserted, stale, replay, gateway>> /\ cb[p].pc = "delete"
      /\ live' = live \ {t}
  BY Zenon DEF DeleteState, samlVars
<1>2. t \in States /\ issued[t] # None
  BY Zenon, <1>1, MyCallback DEF OauthPcs, OauthInv
<1>3. ASSUME NEW k \in Ticket, Once(k) PROVE Once(k)'
  <2>1. CASE CbEnd(p)
    <3>1. \A r \in Procs : (Claims(r, k)' => Claims(r, k)) /\ (Judged(r, k)' => Judged(r, k))
      BY Zenon, <2>1, EndMarks
    <3>2. Used(k) => Used(k)'
      BY Zenon, <1>1, <3>1, UsedStable
    <3> QED BY Zenon, <1>1, <1>3, <3>1, <3>2, OnceStable
  <2>2. CASE t \in live /\ CbStep(p, "connection")
    <3>1. \A r \in Procs : Judged(r, k)' => Judged(r, k)
      BY <2>2, StepMarks
    <3>2. Used(k) => Used(k)'
      BY Zenon, <1>1, <3>1, UsedStable
    <3>3. CASE k # t
      <4>1. \A r \in Procs : Claims(r, k)' => Claims(r, k)
        BY Zenon, <2>2, <3>3, StepMarks
      <4> QED BY Zenon, <1>1, <1>3, <3>2, <4>1, OnceStable
    <3>4. CASE k = t
      <4>1. ~Used(k) /\ Used(k)'
        BY Zenon, <1>1, <1>2, <2>2, <3>4, LoginAssumption DEF Used
      <4>2. \A r \in Procs : Claims(r, k)' => Claims(r, k) \/ r = p
        BY Zenon, <2>2, StepMarks
      <4> QED BY Zenon, <1>1, <1>3, <4>1, <4>2, OnceClaimed
    <3> QED BY Zenon, <3>3, <3>4
  <2> QED BY Zenon, <2>1, <2>2 DEF DeleteState
<1> QED BY Zenon, <1>1, <1>3 DEF TicketsInv, Ticket

\* The insert that meets no conflict is the only one before it is stale.
LEMMA InsertTickets ==
    ASSUME TypeOK, CallbacksInv, Onward, TicketsInv, NEW p \in Procs, CheckAndInsert(p)
    PROVE  TicketsInv'
<1> PICK a : a = cb[p].ticket
  BY Zenon
<1>1. /\ UNCHANGED <<issued, live, asserted, stale, gateway>> /\ cb[p].pc = "replay"
      /\ replay' = replay \cup {a}
  BY Zenon DEF CheckAndInsert, loginVars
<1>2. a \in Assertions /\ asserted[a] # NoAssertion
  BY Zenon, <1>1, MyCallback DEF SamlPcs, SamlInv
<1>3. ASSUME NEW k \in Ticket, Once(k) PROVE Once(k)'
  <2>1. CASE CbEnd(p)
    <3>1. \A r \in Procs : (Claims(r, k)' => Claims(r, k)) /\ (Judged(r, k)' => Judged(r, k))
      BY Zenon, <2>1, EndMarks
    <3>2. Used(k) => Used(k)'
      BY Zenon, <1>1, <3>1, UsedStable
    <3> QED BY Zenon, <1>1, <1>3, <3>1, <3>2, OnceStable
  <2>2. CASE a \notin replay /\ CbStep(p, "forget")
    <3>1. \A r \in Procs : Judged(r, k)' => Judged(r, k)
      BY <2>2, StepMarks
    <3>2. Used(k) => Used(k)'
      BY Zenon, <1>1, <3>1, UsedStable
    <3>3. CASE k # a
      <4>1. \A r \in Procs : Claims(r, k)' => Claims(r, k)
        BY Zenon, <2>2, <3>3, StepMarks
      <4> QED BY Zenon, <1>1, <1>3, <3>2, <4>1, OnceStable
    <3>4. CASE k = a
      <4>1. ~Used(k)
        BY Zenon, <1>1, <1>2, <2>2, <3>4 DEF Used, Judged
      <4>2. Used(k)'
        BY Zenon, <1>1, <1>2, <3>4, LoginAssumption DEF Used
      <4>3. \A r \in Procs : Claims(r, k)' => Claims(r, k) \/ r = p
        BY Zenon, <2>2, StepMarks
      <4> QED BY Zenon, <1>1, <1>3, <4>1, <4>2, <4>3, OnceClaimed
    <3> QED BY Zenon, <3>3, <3>4
  <2> QED BY Zenon, <2>1, <2>2 DEF CheckAndInsert
<1> QED BY Zenon, <1>1, <1>2, <1>3 DEF TicketsInv, Ticket

\* A row that is cleaned in time was of an assertion nobody can use.
LEMMA CleanupTickets ==
    ASSUME TypeOK, Onward, TicketsInv, Cleanup PROVE TicketsInv'
<1>1. /\ UNCHANGED <<issued, live, asserted, stale, cb, gateway>> /\ replay' \subseteq replay
      /\ ~CleanupRaces => \A a \in replay \ replay' : a \in stale /\ \A p \in Procs : ~Judged(p, a)
  BY Zenon DEF Cleanup, loginVars, Judged
<1>2. ASSUME NEW k \in Ticket, Once(k), k \in States \/ ~CleanupRaces PROVE Once(k)'
  <2>1. \A r \in Procs : (Claims(r, k)' <=> Claims(r, k)) /\ (Judged(r, k)' <=> Judged(r, k))
    BY Zenon, <1>1 DEF Claims, Judged
  <2>2. Used(k) => Used(k)'
    <3>1. CASE k \in States
      BY Zenon, <1>1, <3>1, LoginAssumption DEF Used
    <3>2. CASE k \notin States
      BY Zenon, <1>1, <1>2, <2>1, <3>2 DEF Used
    <3> QED BY Zenon, <3>1, <3>2
  <2> QED BY Zenon, <1>1, <1>2, <2>1, <2>2, OnceStable
<1> QED BY Zenon, <1>1, <1>2 DEF TicketsInv, Ticket

\* A callback that ends gives its claim up for good.
LEMMA EndTickets ==
    ASSUME TypeOK, Onward, TicketsInv, NEW p \in Procs, CbEnd(p),
           UNCHANGED <<issued, live, asserted, stale, replay, gateway>>
    PROVE  TicketsInv'
<1>1. ASSUME NEW k \in Ticket, Once(k) PROVE Once(k)'
  <2>1. \A r \in Procs : (Claims(r, k)' => Claims(r, k)) /\ (Judged(r, k)' => Judged(r, k))
    BY Zenon, EndMarks
  <2>2. Used(k) => Used(k)'
    BY Zenon, <2>1, UsedStable
  <2> QED BY Zenon, <1>1, <2>1, <2>2, OnceStable
<1> QED BY Zenon, <1>1 DEF TicketsInv, Ticket

\* The session takes the place of the claim.
LEMMA GrantTickets ==
    ASSUME TypeOK, CallbacksInv, Onward, TicketsInv, NEW p \in Procs, IssueSession(p)
    PROVE  TicketsInv'
<1>1. PICK g : /\ gateway' = Append(gateway, g) /\ g.ticket = cb[p].ticket
  BY DEF IssueSession
<1>2. /\ UNCHANGED <<issued, live, asserted, stale, replay>> /\ CbEnd(p) /\ cb[p].pc = "session"
  BY Zenon DEF IssueSession, loginVars, samlVars
<1>3. ASSUME NEW k \in Ticket, Once(k) PROVE Once(k)'
  <2>1. \A r \in Procs : /\ Claims(r, k)' => r # p /\ Claims(r, k)
                         /\ Judged(r, k)' => Judged(r, k)
    BY Zenon, <1>2, EndMarks
  <2>2. Used(k) => Used(k)'
    BY Zenon, <1>2, <2>1, UsedStable
  <2>3. g.ticket = k => Claims(p, k)
    BY Zenon, <1>1, <1>2 DEF Claims, ClaimedPcs, SharedPcs
  <2> QED BY Zenon, <1>1, <1>3, <2>1, <2>2, <2>3, OnceGranted
<1> QED BY Zenon, <1>2, <1>3 DEF TicketsInv, Ticket

\* Every step keeps the tickets single-use.
LEMMA TicketsNext ==
    ASSUME TypeOK, CallbacksInv, TicketsInv, Next PROVE TicketsInv'
<1>1. Onward
  BY Zenon, CallbacksNext
<1>2. ASSUME NEW p \in Procs, CallbackStep(p) PROVE TicketsInv'
  <2>1. CASE StampNow(p)
    <3>1. CASE CbEnd(p)
      BY Zenon, <1>1, <2>1, <3>1, CalmActions, CalmTickets
    <3>2. CASE cb[p].ticket \notin stale /\ CbStep(p, "replay")
      BY Zenon, <1>1, <2>1, <3>2, StampTickets
    <3> QED BY Zenon, <2>1, <3>1, <3>2 DEF StampNow
  <2>2. CASE NotProvisioned(p)
    BY Zenon, <1>1, <2>2, EndTickets DEF NotProvisioned, loginVars, samlVars
  <2> QED BY Zenon, <1>1, <1>2, <2>1, <2>2, CalmActions, CalmTickets, DeleteTickets, InsertTickets,
             GrantTickets DEF CallbackStep
<1>3. ASSUME NEW p \in Procs, CallbackFails(p) PROVE TicketsInv'
  BY Zenon, <1>1, <1>3, EndTickets DEF CallbackFails, loginVars, samlVars
<1>4. ASSUME NEW p \in Procs, Deliver(p) PROVE TicketsInv'
  BY Zenon, <1>1, <1>4, CalmActions, CalmTickets
<1>5. CASE Upstream
  BY Zenon, <1>1, <1>5, IssueTickets, CalmUpstream, CalmTickets DEF Upstream
<1> QED BY Zenon, <1>1, <1>2, <1>3, <1>4, <1>5, CleanupTickets DEF Next

-----------------------------------------------------------------------------
(* Both kinds of ticket implement SingleUse.                               *)

\* How many sessions a ticket has given, over one more session.
LEMMA SessionsKept ==
    ASSUME NEW k, UNCHANGED gateway PROVE SessionsOf(k)' = SessionsOf(k)
BY Zenon DEF SessionsOf

\* A session counts for its own ticket only.
LEMMA SessionsOfOthers ==
    ASSUME TypeOK, NEW g, gateway' = Append(gateway, g), NEW k, g.ticket # k
    PROVE  SessionsOf(k)' = SessionsOf(k)
<1>1. {i \in DOMAIN gateway' : gateway'[i].ticket = k} = {i \in DOMAIN gateway : gateway[i].ticket = k}
  BY Zenon, Appended
<1> QED BY Zenon, <1>1 DEF SessionsOf

\* The number of sessions of a ticket that has none.
LEMMA NoneCounted == Cardinality({}) = 0
<1> DEFINE body(f) == [T \in SUBSET {} |-> IF T = {} THEN 0 ELSE 1 + f[T \ {CHOOSE x : x \in T}]]
<1> DEFINE CS == CHOOSE f : f = body(f)
<1>1. Cardinality({}) = CS[{}]
  BY Zenon DEF Cardinality
<1>2. body([T \in SUBSET {} |-> 0]) = [T \in SUBSET {} |-> 0]
  BY Zenon
<1>3. CS = body(CS)
  <2> HIDE DEF body
  <2>1. \E f : f = body(f)
    BY Zenon, <1>2
  <2> QED BY Zenon, <2>1
<1>4. CS[{}] = 0
  <2> HIDE DEF CS
  <2> QED BY Zenon, <1>3
<1> QED BY Zenon, <1>1, <1>4

\* The number of sessions of a ticket that has one.
LEMMA OneCounted == ASSUME NEW y PROVE Cardinality({y}) = 1
<1> DEFINE body(f) == [T \in SUBSET {y} |-> IF T = {} THEN 0 ELSE 1 + f[T \ {CHOOSE x : x \in T}]]
<1> DEFINE CS == CHOOSE f : f = body(f)
<1> DEFINE g == [T \in SUBSET {y} |-> IF T = {} THEN 0 ELSE 1]
<1>1. Cardinality({y}) = CS[{y}]
  BY Zenon DEF Cardinality
<1>2. ASSUME NEW T \in SUBSET {y} PROVE T = {} \/ T \ {CHOOSE x : x \in T} = {}
  BY Zenon
<1>3. body(g) = g
  BY <1>2
<1>4. CS = body(CS)
  <2> HIDE DEF body, g
  <2>1. \E f : f = body(f)
    BY Zenon, <1>3
  <2> QED BY Zenon, <2>1
<1>5. CS[{y}] = 1
  <2> HIDE DEF CS
  <2>1. CS[{}] = 0
    BY Zenon, <1>4
  <2>2. {y} \ {CHOOSE x : x \in {y}} = {}
    BY Zenon, <1>2
  <2> QED BY <1>4, <2>1, <2>2
<1> QED BY Zenon, <1>1, <1>5

\* The first session of a ticket.
LEMMA SessionsOfClaim ==
    ASSUME TypeOK, NEW g, gateway' = Append(gateway, g),
           \A i \in DOMAIN gateway : gateway[i].ticket # g.ticket
    PROVE  SessionsOf(g.ticket)' = 1
<1> PICK k : k = g.ticket
  BY Zenon
<1>1. {i \in DOMAIN gateway' : gateway'[i].ticket = k} = {Len(gateway) + 1}
  BY Zenon, Appended
<1>2. Cardinality({Len(gateway) + 1}) = 1
  BY Zenon, OneCounted
<1>3. SessionsOf(k)' = 1
  BY Zenon, <1>1, <1>2 DEF SessionsOf
<1> QED BY Zenon, <1>3

\* The moves of a ticket that SingleUse allows without a session.
Allowed(from, to) ==
    \/ from = "unissued" /\ to = "open"
    \/ from = "open" /\ to \in {"claimed", "spent"}
    \/ from = "claimed" /\ to = "spent"

\* One token moves as SingleUse allows, the others rest.
LEMMA StateMoves ==
    ASSUME NEW k \in States, Allowed(StateStatus(k), StateStatus(k)'),
           \A j \in States : j # k => StateStatus(j)' = StateStatus(j),
           \A j \in States : SessionsOf(j)' = SessionsOf(j)
    PROVE  StateTicket!TicketNext
<1> PICK to : to = StateStatus(k)'
  BY Zenon
<1>1. [s \in States |-> StateStatus(s)]' = [[s \in States |-> StateStatus(s)] EXCEPT ![k] = to]
  BY Zenon
<1>2. [s \in States |-> SessionsOf(s)]' = [s \in States |-> SessionsOf(s)]
  BY Zenon
<1>3. [s \in States |-> StateStatus(s)][k] = StateStatus(k)
  BY Zenon
<1> QED BY Zenon, <1>1, <1>2, <1>3 DEF Allowed, StateTicket!TicketNext, StateTicket!Issue,
           StateTicket!Claim, StateTicket!Void, StateTicket!Lapse, StateTicket!Move

\* One token gives its session, the others rest.
LEMMA StateGrants ==
    ASSUME NEW k \in States, StateStatus(k) = "claimed", StateStatus(k)' = "spent",
           \A j \in States : j # k => StateStatus(j)' = StateStatus(j),
           SessionsOf(k)' = 1, \A j \in States : j # k => SessionsOf(j)' = SessionsOf(j)
    PROVE  StateTicket!TicketNext
<1>1. [s \in States |-> StateStatus(s)]' = [[s \in States |-> StateStatus(s)] EXCEPT ![k] = "spent"]
  BY Zenon
<1>2. [s \in States |-> SessionsOf(s)]' = [[s \in States |-> SessionsOf(s)] EXCEPT ![k] = 1]
  BY Zenon
<1>3. [s \in States |-> StateStatus(s)][k] = StateStatus(k)
  BY Zenon
<1> QED BY Zenon, <1>1, <1>2, <1>3 DEF StateTicket!TicketNext, StateTicket!Grant, StateTicket!Move

\* No token moves.
LEMMA StateStutters ==
    ASSUME \A j \in States : StateStatus(j)' = StateStatus(j) /\ SessionsOf(j)' = SessionsOf(j)
    PROVE  UNCHANGED StateTicket!ticketVars
<1>1. [s \in States |-> StateStatus(s)]' = [s \in States |-> StateStatus(s)]
  BY Zenon
<1>2. [s \in States |-> SessionsOf(s)]' = [s \in States |-> SessionsOf(s)]
  BY Zenon
<1> QED BY Zenon, <1>1, <1>2 DEF StateTicket!ticketVars

\* A token rests while its row and its claims do.
LEMMA StateKept ==
    ASSUME NEW s \in States, issued'[s] = issued[s], s \in live' <=> s \in live,
           \A r \in Procs : Claims(r, s)' <=> Claims(r, s)
    PROVE  StateStatus(s)' = StateStatus(s)
BY Zenon DEF StateStatus

\* The mirror images for assertions.
LEMMA AssertionMoves ==
    ASSUME NEW k \in Assertions, Allowed(AssertionStatus(k), AssertionStatus(k)'),
           \A j \in Assertions : j # k => AssertionStatus(j)' = AssertionStatus(j),
           \A j \in Assertions : SessionsOf(j)' = SessionsOf(j)
    PROVE  AssertionTicket!TicketNext
<1> PICK to : to = AssertionStatus(k)'
  BY Zenon
<1>1. [a \in Assertions |-> AssertionStatus(a)]' =
         [[a \in Assertions |-> AssertionStatus(a)] EXCEPT ![k] = to]
  BY Zenon
<1>2. [a \in Assertions |-> SessionsOf(a)]' = [a \in Assertions |-> SessionsOf(a)]
  BY Zenon
<1>3. [a \in Assertions |-> AssertionStatus(a)][k] = AssertionStatus(k)
  BY Zenon
<1> QED BY Zenon, <1>1, <1>2, <1>3 DEF Allowed, AssertionTicket!TicketNext, AssertionTicket!Issue,
           AssertionTicket!Claim, AssertionTicket!Void, AssertionTicket!Lapse, AssertionTicket!Move

\* One assertion gives its session, the others rest.
LEMMA AssertionGrants ==
    ASSUME NEW k \in Assertions, AssertionStatus(k) = "claimed", AssertionStatus(k)' = "spent",
           \A j \in Assertions : j # k => AssertionStatus(j)' = AssertionStatus(j),
           SessionsOf(k)' = 1, \A j \in Assertions : j # k => SessionsOf(j)' = SessionsOf(j)
    PROVE  AssertionTicket!TicketNext
<1>1. [a \in Assertions |-> AssertionStatus(a)]' =
         [[a \in Assertions |-> AssertionStatus(a)] EXCEPT ![k] = "spent"]
  BY Zenon
<1>2. [a \in Assertions |-> SessionsOf(a)]' = [[a \in Assertions |-> SessionsOf(a)] EXCEPT ![k] = 1]
  BY Zenon
<1>3. [a \in Assertions |-> AssertionStatus(a)][k] = AssertionStatus(k)
  BY Zenon
<1> QED BY Zenon, <1>1, <1>2, <1>3
           DEF AssertionTicket!TicketNext, AssertionTicket!Grant, AssertionTicket!Move

\* No assertion moves.
LEMMA AssertionStutters ==
    ASSUME \A j \in Assertions :
              AssertionStatus(j)' = AssertionStatus(j) /\ SessionsOf(j)' = SessionsOf(j)
    PROVE  UNCHANGED AssertionTicket!ticketVars
<1>1. [a \in Assertions |-> AssertionStatus(a)]' = [a \in Assertions |-> AssertionStatus(a)]
  BY Zenon
<1>2. [a \in Assertions |-> SessionsOf(a)]' = [a \in Assertions |-> SessionsOf(a)]
  BY Zenon
<1> QED BY Zenon, <1>1, <1>2 DEF AssertionTicket!ticketVars

\* An assertion rests while its rows, claims and judgements do.
LEMMA AssertionKept ==
    ASSUME NEW a \in Assertions, asserted'[a] = asserted[a],
           a \in replay' <=> a \in replay, a \in stale' <=> a \in stale,
           \A r \in Procs : Claims(r, a)' <=> Claims(r, a),
           \A r \in Procs : Judged(r, a)' <=> Judged(r, a)
    PROVE  AssertionStatus(a)' = AssertionStatus(a)
BY Zenon DEF AssertionStatus

\* What the login_state tickets do in a step: a move, a session, or nothing.
StateStep == StateTicket!TicketNext \/ UNCHANGED StateTicket!ticketVars

\* The row goes, and with it the token is claimed or given up.
LEMMA DeleteIsStateStep ==
    ASSUME TypeOK, CallbacksInv, TicketsInv, NEW p \in Procs, DeleteState(p)
    PROVE  StateStep
<1> PICK t : t = cb[p].ticket
  BY Zenon
<1>1. /\ UNCHANGED <<issued, gateway>> /\ cb[p].pc = "delete" /\ live' = live \ {t}
  BY Zenon DEF DeleteState
<1>2. t \in States /\ issued[t] # None
  BY Zenon, <1>1, MyCallback DEF OauthPcs, OauthInv
<1>3. \A j \in States : SessionsOf(j)' = SessionsOf(j)
  BY Zenon, <1>1, SessionsKept
<1>4. ~Claims(p, t)
  BY Zenon, <1>1 DEF Claims, ClaimedPcs, SharedPcs
<1>5. t \in live => \A r \in Procs : ~Claims(r, t)
  BY Zenon, <1>2 DEF TicketsInv, Once, Used
<1>6. CASE CbEnd(p)
  <2>1. \A r \in Procs, s \in States : Claims(r, s)' <=> Claims(r, s)
    BY Zenon, <1>1, <1>6, EndMarks DEF Ticket, Claims, ClaimedPcs, SharedPcs
  <2>2. \A s \in States : s # t => StateStatus(s)' = StateStatus(s)
    BY Zenon, <1>1, <2>1, StateKept
  <2>3. CASE t \in live
    <3>1. StateStatus(t) = "open" /\ StateStatus(t)' = "spent"
      BY Zenon, <1>1, <1>2, <1>5, <2>1, <2>3 DEF StateStatus
    <3> QED BY Zenon, <1>2, <1>3, <2>2, <3>1, StateMoves DEF Allowed, StateStep
  <2>4. CASE t \notin live
    <3>1. StateStatus(t)' = StateStatus(t)
      BY Zenon, <1>1, <1>2, <2>1, <2>4, StateKept
    <3> QED BY Zenon, <1>3, <2>2, <3>1, StateStutters DEF StateStep
  <2> QED BY Zenon, <2>3, <2>4
<1>7. CASE t \in live /\ CbStep(p, "connection")
  <2>1. \A r \in Procs, s \in States : s # t => (Claims(r, s)' <=> Claims(r, s))
    BY <1>1, <1>7, StepMarks DEF Ticket, Claims
  <2>2. \A s \in States : s # t => StateStatus(s)' = StateStatus(s)
    BY Zenon, <1>1, <2>1, StateKept
  <2>3. Claims(p, t)'
    BY Zenon, <1>2, <1>7, StepMarks DEF Ticket, ClaimedPcs
  <2>4. StateStatus(t) = "open" /\ StateStatus(t)' = "claimed"
    BY Zenon, <1>1, <1>2, <1>7, <2>3 DEF StateStatus
  <2> QED BY Zenon, <1>2, <1>3, <2>2, <2>4, StateMoves DEF Allowed, StateStep
<1> QED BY Zenon, <1>6, <1>7 DEF DeleteState

\* The end of a callback spends the token it had claimed.
LEMMA EndIsStateStep ==
    ASSUME TypeOK, TicketsInv, NEW p \in Procs, CbEnd(p), UNCHANGED <<issued, live, gateway>>
    PROVE  StateStep
<1> PICK t : t = cb[p].ticket
  BY Zenon
<1>1. \A j \in States : SessionsOf(j)' = SessionsOf(j)
  BY Zenon, SessionsKept
<1>2. \A s \in States, r \in Procs : Claims(r, s)' <=> (r # p /\ Claims(r, s))
  BY Zenon, EndMarks DEF Ticket
<1>3. \A s \in States : ~Claims(p, s) => StateStatus(s)' = StateStatus(s)
  BY Zenon, <1>2, StateKept
<1>4. CASE \E s \in States : Claims(p, s)
  <2>1. t \in States /\ Claims(p, t) /\ \A s \in States : s # t => ~Claims(p, s)
    BY Zenon, <1>4 DEF Claims
  <2>2. Used(t) /\ \A r \in Procs : ~Claims(r, t)'
    BY Zenon, <1>2, <2>1 DEF TicketsInv, Once
  <2>3. StateStatus(t) = "claimed" /\ StateStatus(t)' = "spent"
    BY Zenon, <2>1, <2>2 DEF StateStatus, Used
  <2> QED BY Zenon, <1>1, <1>3, <2>1, <2>3, StateMoves DEF Allowed, StateStep
<1>5. CASE \A s \in States : ~Claims(p, s)
  BY Zenon, <1>1, <1>3, <1>5, StateStutters DEF StateStep
<1> QED BY Zenon, <1>4, <1>5

\* The session of a claimed token.
LEMMA GrantIsStateStep ==
    ASSUME TypeOK, CallbacksInv, TicketsInv, NEW p \in Procs, IssueSession(p)
    PROVE  StateStep
<1> PICK t : t = cb[p].ticket
  BY Zenon
<1>1. PICK g : gateway' = Append(gateway, g) /\ g.ticket = t
  BY DEF IssueSession
<1>2. UNCHANGED <<issued, live>> /\ CbEnd(p) /\ cb[p].pc = "session"
  BY Zenon DEF IssueSession, loginVars
<1>3. \A s \in States, r \in Procs : Claims(r, s)' <=> (r # p /\ Claims(r, s))
  BY Zenon, <1>2, EndMarks DEF Ticket
<1>4. \A s \in States : s # t => StateStatus(s)' = StateStatus(s) /\ SessionsOf(s)' = SessionsOf(s)
  <2>1. \A s \in States : s # t => StateStatus(s)' = StateStatus(s)
    BY Zenon, <1>2, <1>3, StateKept DEF Claims
  <2>2. \A s \in States : s # t => SessionsOf(s)' = SessionsOf(s)
    BY Zenon, <1>1, SessionsOfOthers
  <2> QED BY Zenon, <2>1, <2>2
<1>5. CASE t \in States
  <2>1. Claims(p, t)
    BY Zenon, <1>2 DEF Claims, ClaimedPcs, SharedPcs
  <2>2. /\ Used(t) /\ \A r \in Procs : ~Claims(r, t)'
        /\ \A i \in DOMAIN gateway : gateway[i].ticket # t
    BY Zenon, <1>3, <1>5, <2>1 DEF TicketsInv, Once
  <2>3. StateStatus(t) = "claimed" /\ StateStatus(t)' = "spent"
    BY Zenon, <1>2, <1>5, <2>1, <2>2 DEF StateStatus, Used
  <2>4. SessionsOf(t)' = 1
    BY Zenon, <1>1, <2>2, SessionsOfClaim
  <2> QED BY Zenon, <1>4, <1>5, <2>3, <2>4, StateGrants DEF StateStep
<1>6. CASE t \notin States
  BY Zenon, <1>4, <1>6, StateStutters DEF StateStep
<1> QED BY Zenon, <1>5, <1>6

\* Steps that leave the login_state rows and claims alone.
LEMMA NoStateStep ==
    ASSUME UNCHANGED <<issued, live, gateway>>,
           \A s \in States, r \in Procs : Claims(r, s)' <=> Claims(r, s)
    PROVE  StateStep
BY Zenon, StateKept, SessionsKept, StateStutters DEF StateStep

\* initiate_login issues a token.
LEMMA InitiateIsStateStep ==
    ASSUME TypeOK, TicketsInv, NEW s \in States, NEW c \in Connections, InitiateLogin(s, c)
    PROVE  StateStep
<1>1. /\ UNCHANGED <<cb, gateway>> /\ live' = live \cup {s} /\ issued[s] = None
      /\ issued'[s] = c /\ \A j \in States : j # s => issued'[j] = issued[j]
  BY Zenon DEF InitiateLogin, TypeOK
<1>2. \A j \in States, r \in Procs : Claims(r, j)' <=> Claims(r, j)
  BY Zenon, <1>1 DEF Claims
<1>3. \A j \in States : j # s => StateStatus(j)' = StateStatus(j)
  BY Zenon, <1>1, <1>2, StateKept
<1>4. StateStatus(s) = "unissued" /\ StateStatus(s)' = "open"
  BY Zenon, <1>1, LoginAssumption DEF StateStatus
<1>5. \A j \in States : SessionsOf(j)' = SessionsOf(j)
  BY Zenon, <1>1, SessionsKept
<1> QED BY Zenon, <1>3, <1>4, <1>5, StateMoves DEF Allowed, StateStep

\* An insert into the replay table concerns an assertion.
LEMMA InsertIsNoStateStep ==
    ASSUME TypeOK, CallbacksInv, NEW p \in Procs, CheckAndInsert(p)
    PROVE  StateStep
<1>1. UNCHANGED <<issued, live, gateway>> /\ cb[p].pc = "replay"
  BY Zenon DEF CheckAndInsert, loginVars
<1>2. cb[p].ticket \notin States
  BY Zenon, <1>1, MyCallback, LoginAssumption DEF SamlPcs, SamlInv
<1>3. ASSUME NEW s \in States, NEW r \in Procs PROVE Claims(r, s)' <=> Claims(r, s)
  <2>1. CASE CbEnd(p)
    BY Zenon, <1>2, <2>1, EndMarks DEF Ticket, Claims
  <2>2. CASE CbStep(p, "forget")
    BY <1>2, <2>2, StepMarks DEF Ticket, Claims
  <2> QED BY Zenon, <2>1, <2>2 DEF CheckAndInsert
<1> QED BY Zenon, <1>1, <1>3, NoStateStep

\* Every step is one of SingleUse for the tokens of login_state.
LEMMA StatesNext ==
    ASSUME TypeOK, CallbacksInv, TicketsInv, Next PROVE StateStep
<1>1. ASSUME Calm PROVE StateStep
  BY Zenon, <1>1, NoStateStep DEF Calm, Ticket
<1>2. ASSUME UNCHANGED <<issued, live, cb, gateway>> PROVE StateStep
  BY Zenon, <1>2, NoStateStep DEF Claims
<1>3. ASSUME NEW p \in Procs, CallbackStep(p) PROVE StateStep
  <2>1. CASE StampNow(p)
    <3>1. UNCHANGED <<issued, live, gateway>> /\ cb[p].pc = "stamp"
      BY Zenon, <2>1 DEF StampNow, CbOnly, loginVars
    <3>2. CASE CbEnd(p)
      BY Zenon, <3>1, <3>2, EndIsStateStep
    <3>3. CASE CbStep(p, "replay")
      <4>1. \A s \in States, r \in Procs : Claims(r, s)' <=> Claims(r, s)
        BY <3>1, <3>3, StepMarks DEF Ticket, Claims, ClaimedPcs, SharedPcs
      <4> QED BY Zenon, <3>1, <4>1, NoStateStep
    <3> QED BY Zenon, <2>1, <3>2, <3>3 DEF StampNow
  <2>2. CASE NotProvisioned(p)
    BY Zenon, <2>2, EndIsStateStep DEF NotProvisioned, loginVars
  <2> QED BY Zenon, <1>1, <1>3, <2>1, <2>2, CalmActions, DeleteIsStateStep, InsertIsNoStateStep,
             GrantIsStateStep DEF CallbackStep
<1>4. ASSUME NEW p \in Procs, CallbackFails(p) PROVE StateStep
  BY Zenon, <1>4, EndIsStateStep DEF CallbackFails, loginVars
<1>5. ASSUME NEW p \in Procs, Deliver(p) PROVE StateStep
  BY Zenon, <1>1, <1>5, CalmActions
<1>6. ASSUME Upstream PROVE StateStep
  <2>1. ASSUME NEW a \in Assertions, NEW r \in Requests, NEW n \in NameIds, NEW e \in Emails,
               IssueAssertion(a, r, n, e) PROVE StateStep
    BY Zenon, <1>2, <2>1 DEF IssueAssertion, loginVars
  <2>2. ASSUME NEW a \in Assertions, AssertionGoesStale(a) PROVE StateStep
    BY Zenon, <1>2, <2>2 DEF AssertionGoesStale, loginVars
  <2> QED BY Zenon, <1>1, <1>6, <2>1, <2>2, InitiateIsStateStep, CalmUpstream DEF Upstream
<1>7. ASSUME Cleanup PROVE StateStep
  BY Zenon, <1>2, <1>7 DEF Cleanup, loginVars
<1> QED BY Zenon, <1>3, <1>4, <1>5, <1>6, <1>7 DEF Next

\* The same for assertions.
AssertionStep == AssertionTicket!TicketNext \/ UNCHANGED AssertionTicket!ticketVars

\* Steps that leave the assertions, the replay table and the claims alone.
LEMMA NoAssertionStep ==
    ASSUME UNCHANGED <<asserted, stale, replay, gateway>>,
           \A a \in Assertions, r \in Procs :
              (Claims(r, a)' <=> Claims(r, a)) /\ (Judged(r, a)' <=> Judged(r, a))
    PROVE  AssertionStep
BY Zenon, AssertionKept, SessionsKept, AssertionStutters DEF AssertionStep

\* The identity provider issues an assertion.
LEMMA IssueIsAssertionStep ==
    ASSUME TypeOK, TicketsInv, ~CleanupRaces, NEW a \in Assertions, NEW r \in Requests,
           NEW n \in NameIds, NEW e \in Emails, IssueAssertion(a, r, n, e)
    PROVE  AssertionStep
<1>1. /\ UNCHANGED <<stale, replay, cb, gateway>> /\ asserted[a] = NoAssertion
      /\ asserted'[a] = [req |-> r, name |-> n, email |-> e]
      /\ \A j \in Assertions : j # a => asserted'[j] = asserted[j]
  BY Zenon DEF IssueAssertion, TypeOK
<1>2. \A j \in Assertions, p \in Procs :
         (Claims(p, j)' <=> Claims(p, j)) /\ (Judged(p, j)' <=> Judged(p, j))
  BY Zenon, <1>1 DEF Claims, Judged
<1>3. \A j \in Assertions : j # a => AssertionStatus(j)' = AssertionStatus(j)
  BY Zenon, <1>1, <1>2, AssertionKept
<1>4. asserted'[a] # NoAssertion
  BY <1>1, LoginAssumption DEF NoAssertion
<1>5. a \notin replay \cup stale /\ \A p \in Procs : ~Claims(p, a)
  BY Zenon, <1>1 DEF TicketsInv, Once, Used
<1>6. AssertionStatus(a) = "unissued" /\ AssertionStatus(a)' = "open"
  BY Zenon, <1>1, <1>2, <1>4, <1>5 DEF AssertionStatus
<1>7. \A j \in Assertions : SessionsOf(j)' = SessionsOf(j)
  BY Zenon, <1>1, SessionsKept
<1> QED BY Zenon, <1>3, <1>6, <1>7, AssertionMoves DEF Allowed, AssertionStep

\* An assertion nobody judged in time is given up.
LEMMA StaleIsAssertionStep ==
    ASSUME TypeOK, NEW a \in Assertions, AssertionGoesStale(a) PROVE AssertionStep
<1>1. /\ UNCHANGED <<asserted, replay, cb, gateway>> /\ asserted[a] # NoAssertion
      /\ a \notin stale /\ stale' = stale \cup {a}
  BY Zenon DEF AssertionGoesStale
<1>2. \A j \in Assertions, p \in Procs :
         (Claims(p, j)' <=> Claims(p, j)) /\ (Judged(p, j)' <=> Judged(p, j))
  BY Zenon, <1>1 DEF Claims, Judged
<1>3. \A j \in Assertions : j # a => AssertionStatus(j)' = AssertionStatus(j)
  BY Zenon, <1>1, <1>2, AssertionKept
<1>4. \/ AssertionStatus(a) = "open" /\ AssertionStatus(a)' = "spent"
      \/ AssertionStatus(a)' = AssertionStatus(a)
  BY Zenon, <1>1, <1>2 DEF AssertionStatus
<1>5. \A j \in Assertions : SessionsOf(j)' = SessionsOf(j)
  BY Zenon, <1>1, SessionsKept
<1> QED BY Zenon, <1>3, <1>4, <1>5, AssertionMoves, AssertionStutters DEF Allowed, AssertionStep

\* An assertion that is not stale is as open as before once it was judged.
LEMMA StampIsAssertionStep ==
    ASSUME TypeOK, NEW p \in Procs, StampNow(p), CbStep(p, "replay"), cb[p].ticket \notin stale
    PROVE  AssertionStep
<1> PICK t : t = cb[p].ticket
  BY Zenon
<1>1. UNCHANGED <<asserted, stale, replay, gateway>> /\ cb[p].pc = "stamp"
  BY Zenon DEF StampNow, CbOnly, samlVars
<1>2. \A j \in Assertions, r \in Procs : Claims(r, j)' <=> Claims(r, j)
  BY <1>1, StepMarks DEF Ticket, Claims, ClaimedPcs, SharedPcs
<1>3. \A j \in Assertions, r \in Procs : j # t => (Judged(r, j)' <=> Judged(r, j))
  BY <1>1, StepMarks DEF Ticket, Judged
<1>4. \A j \in Assertions : j # t => AssertionStatus(j)' = AssertionStatus(j)
  BY Zenon, <1>1, <1>2, <1>3, AssertionKept
<1>5. t \in Assertions => AssertionStatus(t)' = AssertionStatus(t)
  BY Zenon, <1>1, <1>2 DEF AssertionStatus
<1> QED BY Zenon, <1>1, <1>4, <1>5, SessionsKept, AssertionStutters DEF AssertionStep

\* check_and_insert claims an open assertion, or refuses a replay.
LEMMA InsertIsAssertionStep ==
    ASSUME TypeOK, CallbacksInv, TicketsInv, ~CleanupRaces, NEW p \in Procs, CheckAndInsert(p)
    PROVE  AssertionStep
<1> PICK t : t = cb[p].ticket
  BY Zenon
<1>1. /\ UNCHANGED <<asserted, stale, gateway>> /\ cb[p].pc = "replay" /\ replay' = replay \cup {t}
  BY Zenon DEF CheckAndInsert
<1>2. t \in Assertions /\ asserted[t] # NoAssertion
  BY Zenon, <1>1, MyCallback DEF SamlPcs, SamlInv
<1>3. \A j \in Assertions : SessionsOf(j)' = SessionsOf(j)
  BY Zenon, <1>1, SessionsKept
<1>4. CASE t \in replay /\ CbEnd(p)
  <2>1. \A j \in Assertions, r \in Procs :
           /\ Claims(r, j)' <=> Claims(r, j)
           /\ j # t => (Judged(r, j)' <=> Judged(r, j))
    BY <1>1, <1>4, EndMarks DEF Ticket, Claims, Judged, ClaimedPcs, SharedPcs
  <2>2. \A j \in Assertions : j # t => AssertionStatus(j)' = AssertionStatus(j)
    BY Zenon, <1>1, <2>1, AssertionKept
  <2>3. AssertionStatus(t)' = AssertionStatus(t)
    BY Zenon, <1>1, <1>2, <1>4, <2>1 DEF AssertionStatus
  <2> QED BY Zenon, <1>3, <2>2, <2>3, AssertionStutters DEF AssertionStep
<1>5. CASE t \notin replay /\ CbStep(p, "forget")
  <2>1. \A j \in Assertions, r \in Procs :
           j # t => (Claims(r, j)' <=> Claims(r, j)) /\ (Judged(r, j)' <=> Judged(r, j))
    BY <1>1, <1>5, StepMarks DEF Ticket, Claims, Judged
  <2>2. \A j \in Assertions : j # t => AssertionStatus(j)' = AssertionStatus(j)
    BY Zenon, <1>1, <2>1, AssertionKept
  <2>3. Judged(p, t)
    BY Zenon, <1>1 DEF Judged
  <2>4. \A r \in Procs : ~Claims(r, t)
    BY Zenon, <1>2, <1>5, <2>3 DEF TicketsInv, Once, Used
  <2>5. Claims(p, t)'
    BY Zenon, <1>2, <1>5, StepMarks DEF Ticket, ClaimedPcs
  <2>6. AssertionStatus(t) = "open" /\ AssertionStatus(t)' = "claimed"
    BY Zenon, <1>1, <1>2, <1>5, <2>3, <2>4, <2>5 DEF AssertionStatus
  <2> QED BY Zenon, <1>2, <1>3, <2>2, <2>6, AssertionMoves DEF Allowed, AssertionStep
<1> QED BY Zenon, <1>4, <1>5 DEF CheckAndInsert

\* Rows that are cleaned in time were those of spent assertions.
LEMMA CleanupIsNoAssertionStep ==
    ASSUME TypeOK, ~CleanupRaces, Cleanup PROVE AssertionStep
<1>1. /\ UNCHANGED <<asserted, stale, cb, gateway>> /\ replay' \subseteq replay
      /\ \A a \in replay \ replay' : a \in stale /\ \A p \in Procs : ~Judged(p, a)
  BY Zenon DEF Cleanup, Judged
<1>2. \A j \in Assertions, p \in Procs :
         (Claims(p, j)' <=> Claims(p, j)) /\ (Judged(p, j)' <=> Judged(p, j))
  BY Zenon, <1>1 DEF Claims, Judged
<1>3. \A j \in Assertions : AssertionStatus(j)' = AssertionStatus(j)
  BY Zenon, <1>1, <1>2 DEF AssertionStatus
<1> QED BY Zenon, <1>1, <1>3, SessionsKept, AssertionStutters DEF AssertionStep

\* A callback that ends spends the assertion it had claimed, and gives up one
\* that nobody else had judged in time.
LEMMA EndIsAssertionStep ==
    ASSUME TypeOK, TicketsInv, ~CleanupRaces, NEW p \in Procs, CbEnd(p),
           UNCHANGED <<asserted, stale, replay, gateway>>
    PROVE  AssertionStep
<1> PICK t : t = cb[p].ticket
  BY Zenon
<1>1. \A j \in Assertions : SessionsOf(j)' = SessionsOf(j)
  BY Zenon, SessionsKept
<1>2. \A a \in Assertions, r \in Procs :
         /\ Claims(r, a)' <=> (r # p /\ Claims(r, a))
         /\ Judged(r, a)' <=> (r # p /\ Judged(r, a))
  BY Zenon, EndMarks DEF Ticket
<1>3. \A a \in Assertions : a # t => AssertionStatus(a)' = AssertionStatus(a)
  BY Zenon, <1>2, AssertionKept DEF Claims, Judged
<1>4. CASE t \in Assertions /\ Claims(p, t)
  <2>1. Used(t) /\ \A r \in Procs : ~Claims(r, t)'
    BY Zenon, <1>2, <1>4 DEF TicketsInv, Once
  <2>2. AssertionStatus(t) = "claimed" /\ AssertionStatus(t)' = "spent"
    BY Zenon, <1>2, <1>4, <2>1 DEF AssertionStatus, Used
  <2> QED BY Zenon, <1>1, <1>3, <1>4, <2>2, AssertionMoves DEF Allowed, AssertionStep
<1>5. CASE t \in Assertions /\ ~Claims(p, t)
  <2>1. \/ AssertionStatus(t) = "open" /\ AssertionStatus(t)' = "spent"
        \/ AssertionStatus(t)' = AssertionStatus(t)
    BY Zenon, <1>2, <1>5 DEF AssertionStatus
  <2> QED BY Zenon, <1>1, <1>3, <1>5, <2>1, AssertionMoves, AssertionStutters
             DEF Allowed, AssertionStep
<1>6. CASE t \notin Assertions
  BY Zenon, <1>1, <1>3, <1>6, AssertionStutters DEF AssertionStep
<1> QED BY Zenon, <1>4, <1>5, <1>6

\* The session of a claimed assertion.
LEMMA GrantIsAssertionStep ==
    ASSUME TypeOK, CallbacksInv, TicketsInv, ~CleanupRaces, NEW p \in Procs, IssueSession(p)
    PROVE  AssertionStep
<1> PICK t : t = cb[p].ticket
  BY Zenon
<1>1. PICK g : gateway' = Append(gateway, g) /\ g.ticket = t
  BY DEF IssueSession
<1>2. UNCHANGED <<asserted, stale, replay>> /\ CbEnd(p) /\ cb[p].pc = "session"
  BY Zenon DEF IssueSession, samlVars
<1>3. \A a \in Assertions, r \in Procs :
         /\ Claims(r, a)' <=> (r # p /\ Claims(r, a))
         /\ Judged(r, a)' <=> Judged(r, a)
  BY <1>2, EndMarks DEF Ticket, Judged
<1>4. \A a \in Assertions : a # t =>
         AssertionStatus(a)' = AssertionStatus(a) /\ SessionsOf(a)' = SessionsOf(a)
  <2>1. \A a \in Assertions : a # t => AssertionStatus(a)' = AssertionStatus(a)
    BY Zenon, <1>2, <1>3, AssertionKept DEF Claims
  <2>2. \A a \in Assertions : a # t => SessionsOf(a)' = SessionsOf(a)
    BY Zenon, <1>1, SessionsOfOthers
  <2> QED BY Zenon, <2>1, <2>2
<1>5. CASE t \in Assertions
  <2>1. Claims(p, t)
    BY Zenon, <1>2 DEF Claims, ClaimedPcs, SharedPcs
  <2>2. /\ Used(t) /\ \A r \in Procs : ~Claims(r, t)'
        /\ \A i \in DOMAIN gateway : gateway[i].ticket # t
    BY Zenon, <1>3, <1>5, <2>1 DEF TicketsInv, Once
  <2>3. AssertionStatus(t) = "claimed" /\ AssertionStatus(t)' = "spent"
    BY Zenon, <1>2, <1>3, <1>5, <2>1, <2>2 DEF AssertionStatus, Used
  <2>4. SessionsOf(t)' = 1
    BY Zenon, <1>1, <2>2, SessionsOfClaim
  <2> QED BY Zenon, <1>4, <1>5, <2>3, <2>4, AssertionGrants DEF AssertionStep
<1>6. CASE t \notin Assertions
  BY Zenon, <1>4, <1>6, AssertionStutters DEF AssertionStep
<1> QED BY Zenon, <1>5, <1>6

\* A delete from login_state concerns a state.
LEMMA DeleteIsNoAssertionStep ==
    ASSUME TypeOK, CallbacksInv, NEW p \in Procs, DeleteState(p)
    PROVE  AssertionStep
<1>1. UNCHANGED <<asserted, stale, replay, gateway>> /\ cb[p].pc = "delete"
  BY Zenon DEF DeleteState, samlVars
<1>2. cb[p].ticket \notin Assertions
  BY Zenon, <1>1, MyCallback, LoginAssumption DEF OauthPcs, OauthInv
<1>3. ASSUME NEW a \in Assertions, NEW r \in Procs
      PROVE  (Claims(r, a)' <=> Claims(r, a)) /\ (Judged(r, a)' <=> Judged(r, a))
  <2>1. CASE CbEnd(p)
    BY <1>2, <2>1, EndMarks DEF Ticket, Claims, Judged
  <2>2. CASE CbStep(p, "connection")
    BY <1>2, <2>2, StepMarks DEF Ticket, Claims, Judged
  <2> QED BY Zenon, <2>1, <2>2 DEF DeleteState
<1> QED BY Zenon, <1>1, <1>3, NoAssertionStep

\* Every step is one of SingleUse for the assertions.
LEMMA AssertionsNext ==
    ASSUME TypeOK, CallbacksInv, TicketsInv, ~CleanupRaces, Next PROVE AssertionStep
<1>1. ASSUME Calm PROVE AssertionStep
  BY Zenon, <1>1, NoAssertionStep DEF Calm, Ticket
<1>2. ASSUME NEW p \in Procs, CallbackStep(p) PROVE AssertionStep
  <2>1. CASE StampNow(p)
    <3>1. CASE CbEnd(p)
      BY Zenon, <1>1, <2>1, <3>1, CalmActions
    <3>2. CASE cb[p].ticket \notin stale /\ CbStep(p, "replay")
      BY Zenon, <2>1, <3>2, StampIsAssertionStep
    <3> QED BY Zenon, <2>1, <3>1, <3>2 DEF StampNow
  <2>2. CASE NotProvisioned(p)
    BY Zenon, <2>2, EndIsAssertionStep DEF NotProvisioned, samlVars
  <2> QED BY Zenon, <1>1, <1>2, <2>1, <2>2, CalmActions, DeleteIsNoAssertionStep,
             InsertIsAssertionStep,
             GrantIsAssertionStep DEF CallbackStep
<1>3. ASSUME NEW p \in Procs, CallbackFails(p) PROVE AssertionStep
  BY Zenon, <1>3, EndIsAssertionStep DEF CallbackFails, samlVars
<1>4. ASSUME NEW p \in Procs, Deliver(p) PROVE AssertionStep
  BY Zenon, <1>1, <1>4, CalmActions
<1>5. ASSUME Upstream PROVE AssertionStep
  <2>1. ASSUME NEW s \in States, NEW c \in Connections, InitiateLogin(s, c) PROVE AssertionStep
    BY Zenon, <2>1, NoAssertionStep DEF InitiateLogin, samlVars, Claims, Judged
  <2> QED BY Zenon, <1>1, <1>5, <2>1, IssueIsAssertionStep, StaleIsAssertionStep,
             CalmUpstream DEF Upstream
<1> QED BY Zenon, <1>2, <1>3, <1>4, <1>5, CleanupIsNoAssertionStep DEF Next

-----------------------------------------------------------------------------
(* The invariant, and what it gives.                                       *)

\* The empty tables meet the invariants.
LEMMA FederatedInitInv == Init => FederatedInv /\ IdentityIInv
<1> SUFFICES ASSUME Init PROVE FederatedInv /\ IdentityIInv
  BY Zenon
<1>1. IdentityIInv
  BY Zenon, IdentityInitInv DEF Init
<1>2. NoCallback \in CallbackType /\ CallbackInv(NoCallback, Idle) /\ NoCallback.pc = "idle"
  BY Zenon, RestInv DEF NoCallback, Callback
<1>3. TypeOK
  BY <1>1, <1>2 DEF Init, TypeOK, IdentityIInv
<1>4. \A p \in Procs : cb[p] = NoCallback /\ proc[p] = Idle
  BY Zenon DEF Init, IdentityInit
<1>5. \A p \in Procs : CallbackInv(cb[p], proc[p])
  BY Zenon, <1>2, <1>4
<1>6. \A p \in Procs, k \in Ticket : ~Claims(p, k)
  BY Zenon, <1>2, <1>4 DEF Claims, ClaimedPcs, SharedPcs
<1>7. DOMAIN gateway = {}
  BY DEF Init
<1>8. TicketsInv
  BY Zenon, <1>6, <1>7 DEF Init, TicketsInv, Once, Ticket
<1>9. NoneGone
  BY DEF Init, IdentityInit, NoneGone, OryIds
<1> QED BY Zenon, <1>1, <1>3, <1>5, <1>7, <1>8, <1>9 DEF FederatedInv

\* The invariants are inductive, and a login is an identity step or none.
LEMMA FederatedNextInv ==
    ASSUME Ops = FederatedOps, FederatedInv, IdentityIInv, [Next]_federatedVars
    PROVE  /\ FederatedInv' /\ IdentityIInv'
           /\ [IdentityNext]_identityVars
<1>1. CASE UNCHANGED federatedVars
  <2>1. UNCHANGED identityVars
    BY Zenon, <1>1 DEF federatedVars
  <2>2. IdentityIInv' /\ [IdentityNext]_identityVars
    BY Zenon, <2>1, IdentityNextInv
  <2>3. TypeOK'
    BY Zenon, <1>1, <2>2 DEF federatedVars, loginVars, samlVars, FederatedInv, TypeOK, IdentityIInv
  <2>4. UNCHANGED <<kratos, mapping, nextOry, proc>>
    BY Zenon, <2>1 DEF identityVars, storeVars
  <2>5. \A p \in Procs : CallbackInv(cb[p], proc[p])'
    BY Zenon, <1>1, <2>4
       DEF federatedVars, loginVars, samlVars, FederatedInv, CallbackInv, OauthInv,
                      SamlInv, JoinInv, HomeOf
  <2>6. TicketsInv'
    <3>1. Calm /\ Onward
      BY Zenon, <1>1, CalmUpstream DEF federatedVars, loginVars, samlVars, Onward
    <3> QED BY Zenon, <3>1, CalmTickets DEF FederatedInv
  <2>7. \A i \in DOMAIN gateway' : SessionInv(gateway[i])'
    BY Zenon, <1>1, <2>4 DEF federatedVars, loginVars, samlVars, FederatedInv, SessionInv, MappedIn
  <2>8. NoneGone'
    BY Zenon, <2>4 DEF FederatedInv, NoneGone
  <2> QED BY Zenon, <2>2, <2>3, <2>5, <2>6, <2>7, <2>8 DEF FederatedInv
<1>2. CASE Next
  <2>1. TypeOK /\ CallbacksInv /\ TicketsInv /\ NoneGone /\ nextOry \in Nat
    BY DEF FederatedInv, CallbacksInv, TypeOK, IdentityTypeOK, StoreTypeOK
  <2>2. [IdentityNext]_identityVars
    BY Zenon, <1>2, <2>1, LoginIsIdentityStep
  <2>3. IdentityIInv'
    BY Zenon, <2>2, IdentityNextInv
  <2>4. CallbacksInv'
    BY Zenon, <1>2, <2>1, CallbacksNext
  <2>5. TypeOK' /\ nextOry' \in Nat
    BY <1>2, <2>1, <2>3, <2>4, TypeNext DEF IdentityIInv, IdentityTypeOK, StoreTypeOK
  <2>6. TicketsInv'
    BY Zenon, <1>2, <2>1, TicketsNext
  <2>7. \A i \in DOMAIN gateway' : SessionInv(gateway[i])'
    BY Zenon, <1>2, <2>1, SessionsNext DEF FederatedInv
  <2>8. NoneGone'
    BY Zenon, <1>2, <2>1, <2>5, LoginsGrow, NoneGoneNext
  <2> QED BY Zenon, <2>2, <2>3, <2>4, <2>5, <2>6, <2>7, <2>8 DEF FederatedInv, CallbacksInv
<1> QED BY Zenon, <1>1, <1>2

\* Every reachable state of the callbacks, the tickets and the sessions meets
\* the invariant, together with that of the identity stores.
THEOREM FederatedInvariance ==
    ASSUME Ops = FederatedOps PROVE Spec => [](FederatedInv /\ IdentityIInv)
<1>1. (FederatedInv /\ IdentityIInv) /\ [Next]_federatedVars => (FederatedInv /\ IdentityIInv)'
  BY Zenon, FederatedNextInv
<1> QED BY <1>1, FederatedInitInv, PTL DEF Spec

\* A login is a client of the identity layer and of no more: what callbacks do
\* to Kratos, mappings and memberships is what IdentityLifecycle lets
\* provision_identity and provision_saml_identity do, so all that is proved
\* there holds under logins.
THEOREM LoginsUseIdentities ==
    ASSUME Ops = FederatedOps PROVE Spec => IdentitySpec
<1>1. Init => IdentityInit
  BY Zenon DEF Init
<1>2. FederatedInv /\ IdentityIInv /\ [Next]_federatedVars => [IdentityNext]_identityVars
  BY Zenon, FederatedNextInv
<1> QED BY <1>1, <1>2, FederatedInvariance, PTL DEF Spec, IdentitySpec

\* A session is for the user the upstream authenticated in the attempt of its
\* ticket, in the tenant that started it (the nonce check of validate_id_token,
\* the verifier of exchange_code, the request an assertion answers).
THEOREM SessionsMatch ==
    ASSUME Ops = FederatedOps PROVE Spec => []SessionMatchesAttempt
<1>1. FederatedInv => SessionMatchesAttempt
  BY Zenon DEF FederatedInv, SessionInv, SessionMatchesAttempt
<1> QED BY <1>1, FederatedInvariance, PTL

\* The subject of a session is mapped in the session's tenant, for an OIDC or
\* OAuth2 login to an identity with the address the upstream vouched for.
THEOREM SessionsLinked ==
    ASSUME Ops = FederatedOps PROVE Spec => []SessionSubjectLinked
<1>1. FederatedInv => SessionSubjectLinked
  BY Zenon DEF FederatedInv, SessionInv, SessionSubjectLinked
<1> QED BY <1>1, FederatedInvariance, PTL

\* The rows of login_state implement SingleUse: whatever callbacks are
\* delivered, repeated, raced or cut short, a state is claimed once and gives
\* one session at most (login_state.delete decides).
THEOREM StatesAreSingleUse ==
    ASSUME Ops = FederatedOps PROVE Spec => LoginStateOnce
<1>1. Init => StateTicket!TicketInit
  <2> SUFFICES ASSUME Init PROVE StateTicket!TicketInit
    BY Zenon
  <2>1. \A s \in States : StateStatus(s) = "unissued"
    BY Zenon DEF Init, StateStatus
  <2>2. ASSUME NEW s \in States PROVE SessionsOf(s) = 0
    <3>1. {i \in DOMAIN gateway : gateway[i].ticket = s} = {}
      BY DEF Init
    <3> QED BY Zenon, <3>1, NoneCounted DEF SessionsOf
  <2> QED BY Zenon, <2>1, <2>2 DEF StateTicket!TicketInit
<1>2. FederatedInv /\ [Next]_federatedVars => [StateTicket!TicketNext]_(StateTicket!ticketVars)
  <2>1. ASSUME FederatedInv, Next
        PROVE  [StateTicket!TicketNext]_(StateTicket!ticketVars)
    BY Zenon, <2>1, StatesNext DEF FederatedInv, CallbacksInv, TypeOK, StateStep
  <2>2. ASSUME UNCHANGED federatedVars PROVE UNCHANGED StateTicket!ticketVars
    <3>1. \A j \in States : StateStatus(j)' = StateStatus(j) /\ SessionsOf(j)' = SessionsOf(j)
      BY Zenon, <2>2 DEF federatedVars, loginVars, StateStatus, Claims, SessionsOf
    <3> QED BY Zenon, <3>1, StateStutters
  <2> QED BY Zenon, <2>1, <2>2
<1> QED BY <1>1, <1>2, FederatedInvariance, PTL DEF Spec, LoginStateOnce, StateTicket!TicketSpec

\* SAML assertions implement SingleUse too (check_and_insert decides), as long
\* as a replay row outlives the validations that judged its assertion in time.
THEOREM AssertionsAreSingleUse ==
    ASSUME Ops = FederatedOps, CleanupRaces = FALSE PROVE Spec => AssertionOnce
<1>1. Init => AssertionTicket!TicketInit
  <2> SUFFICES ASSUME Init PROVE AssertionTicket!TicketInit
    BY Zenon
  <2>1. \A a \in Assertions : AssertionStatus(a) = "unissued"
    BY Zenon DEF Init, AssertionStatus
  <2>2. ASSUME NEW a \in Assertions PROVE SessionsOf(a) = 0
    <3>1. {i \in DOMAIN gateway : gateway[i].ticket = a} = {}
      BY DEF Init
    <3> QED BY Zenon, <3>1, NoneCounted DEF SessionsOf
  <2> QED BY Zenon, <2>1, <2>2 DEF AssertionTicket!TicketInit
<1>2. FederatedInv /\ [Next]_federatedVars =>
         [AssertionTicket!TicketNext]_(AssertionTicket!ticketVars)
  <2>1. ASSUME FederatedInv, Next
        PROVE  [AssertionTicket!TicketNext]_(AssertionTicket!ticketVars)
    BY Zenon, <2>1, AssertionsNext DEF FederatedInv, CallbacksInv, TypeOK, AssertionStep
  <2>2. ASSUME UNCHANGED federatedVars PROVE UNCHANGED AssertionTicket!ticketVars
    <3>1. \A j \in Assertions :
             AssertionStatus(j)' = AssertionStatus(j) /\ SessionsOf(j)' = SessionsOf(j)
      BY Zenon, <2>2 DEF federatedVars, samlVars, AssertionStatus, Claims, Judged, SessionsOf
    <3> QED BY Zenon, <3>1, AssertionStutters
  <2> QED BY Zenon, <2>1, <2>2
<1> QED BY <1>1, <1>2, FederatedInvariance, PTL
        DEF Spec, AssertionOnce, AssertionTicket!TicketSpec

-----------------------------------------------------------------------------
(* The promise of a one-time login ticket, for every set of tickets.       *)

\* The invariant that is inductive: AtMostOneSession with the types.
TicketInv == TicketTypeOK /\ AtMostOneSession

\* One ticket, one session: the specification both federated login paths are
\* shown to implement allows no ticket to give two.
THEOREM OneSession == TicketSpec => []AtMostOneSession
<1>1. TicketInit => TicketInv
  BY DEF TicketInit, TicketInv, TicketTypeOK, AtMostOneSession
<1>2. TicketInv /\ [TicketNext]_ticketVars => TicketInv'
  <2> SUFFICES ASSUME TicketInv, [TicketNext]_ticketVars PROVE TicketInv'
    BY Zenon
  <2> USE DEF TicketInv, TicketTypeOK, AtMostOneSession, Move
  <2>1. ASSUME NEW k \in Tickets, Issue(k) PROVE TicketInv'
    BY Zenon, <2>1 DEF Issue
  <2>2. ASSUME NEW k \in Tickets, Claim(k) PROVE TicketInv'
    BY Zenon, <2>2 DEF Claim
  <2>3. ASSUME NEW k \in Tickets, Grant(k) PROVE TicketInv'
    BY Zenon, <2>3 DEF Grant
  <2>4. ASSUME NEW k \in Tickets, Void(k) PROVE TicketInv'
    BY Zenon, <2>4 DEF Void
  <2>5. ASSUME NEW k \in Tickets, Lapse(k) PROVE TicketInv'
    BY Zenon, <2>5 DEF Lapse
  <2>6. CASE UNCHANGED ticketVars
    BY Zenon, <2>6 DEF ticketVars
  <2> QED BY Zenon, <2>1, <2>2, <2>3, <2>4, <2>5, <2>6 DEF TicketNext
<1>3. TicketInv => AtMostOneSession
  BY Zenon DEF TicketInv
<1> QED BY <1>1, <1>2, <1>3, PTL DEF TicketSpec
=============================================================================
