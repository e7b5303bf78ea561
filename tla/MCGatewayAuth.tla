---------------------------- MODULE MCGatewayAuth ----------------------------
(***************************************************************************)
(* The front of the gateway: bearer authentication, the rate limiter, the  *)
(* JWKS cache and the SAML identity provider.  They share no state, so a   *)
(* behaviour runs one of them, chosen at the start, and the others rest:   *)
(* their product would add interleavings and no states of any of them.     *)
(* A part is the component with smaller sets or its own bounds.            *)
(***************************************************************************)
EXTENDS GatewayAuth, JwksCache, SamlIdp, TLC

CONSTANTS
    k1, k2, k3, k4, user, agent, client, other, t1, r1,    \* authentication
    q1, q2, q3, sp1, sp2, i1,                              \* SAML
    c1, c2, ip1, ip2                                       \* rate limiting

VARIABLES
    part,
    time, buckets, admitted, denied     \* RateLimiter's

-----------------------------------------------------------------------------
(* Authentication: a user's token, an agent's, and those of two clients.   *)

Holders == (k1 :> user) @@ (k2 :> agent) @@ (k3 :> client) @@ (k4 :> other)
SubjectKinds == [s \in Subjects |-> IF s \in {user, agent} THEN ToString(s) ELSE "client"]

Window == INSTANCE GatewayAuth
    WITH Tokens <- {k1}, Subjects <- {user}, Tenants <- {t1}
KillSwitch == INSTANCE GatewayAuth
    WITH Tokens <- {k2}, Subjects <- {agent}, Tenants <- {t1}, MaxTime <- 3
CrossTenants == INSTANCE GatewayAuth
    WITH Tokens <- {k3, k4}, Subjects <- {client, other}, Requests <- {r1}, MaxTime <- 1

-----------------------------------------------------------------------------
(* Rate limiting: one client by two carriers and an anonymous caller; and  *)
(* a client, registrations from two addresses and an anonymous class.      *)

Send(basic, query, form, class, ip) ==
    [basic |-> basic, query |-> query, form |-> form, class |-> class, ip |-> ip]

TwoKeys == {Send(c1, None, c2, "token", None), Send(None, c1, None, "auth", None),
            Send(None, None, None, "discovery", None)}
FourKeys == {Send(None, None, c1, "token", None), Send(None, None, None, "register", ip1),
             Send(None, None, None, "register", ip2), Send(None, None, None, "token", None)}

Refills == INSTANCE RateLimiter
    WITH Requests <- TwoKeys, Burst <- 2, Per <- 3, MaxKeys <- 2, MaxTime <- 3, MaxCalls <- 4,
         now <- time
Evicts == INSTANCE RateLimiter
    WITH Requests <- FourKeys, Burst <- 2, Per <- 3, MaxKeys <- 2, MaxTime <- 1, MaxCalls <- 2,
         now <- time

rateVars == <<time, buckets, admitted, denied>>

\* The limiter is fair both ways: over any stretch of time a key is let through
\* at most one full bucket plus what the stretch refills, and a request is
\* refused only for recent requests of its own party, whatever other clients,
\* endpoint classes or evictions do (RateLimiter::check).
LimiterFair ==
    /\ part = "refills" => Refills!RateBound
    /\ part = "evicts" => Evicts!DeniedForItsOwn

-----------------------------------------------------------------------------
(* SAML: requests q1 and q2 of sp1, q3 of sp2.                             *)

SpThree == (q1 :> sp1) @@ (q2 :> sp1) @@ (q3 :> sp2)

Answers == INSTANCE SamlIdp
    WITH Handlers <- Keyed, Keys <- {1}, ForceAuthn <- {}
KeyRing == INSTANCE SamlIdp
    WITH Identities <- {i1}, MaxFaults <- 0

-----------------------------------------------------------------------------
\* The type invariants of the four components; the limiter's caps its map at
\* MAX_RATE_LIMIT_KEYS.
FrontTypeOK ==
    /\ TypeOK /\ JwksTypeOK /\ IdpTypeOK
    /\ part = "refills" => Refills!TypeOK
    /\ part = "evicts" => Evicts!TypeOK

AuthParts == {"window", "kill", "cross"}
RateParts == {"refills", "evicts"}
OtherParts == {"jwks", "answers", "keyring"}

PartInit ==
    /\ part \in AuthParts \cup RateParts \cup OtherParts
    /\ Init /\ JwksInit /\ IdpInit
    /\ \A s \in Subjects : mapped[s] = t1 \/ (part = "cross" /\ KindOf[s] = "client")
    /\ IF part = "evicts" THEN Evicts!Init ELSE Refills!Init

\* The windows are about one token, without x-tenant-id and with its mapping
\* in place; where a request acts, about two clients' tokens issued early.
NoHeader == \A r \in Requests : req[r].header = None

AuthNext ==
    \/ part = "window" /\ Window!Next /\ NoHeader' /\ UNCHANGED mapped
    \/ part = "kill" /\ KillSwitch!Next /\ NoHeader' /\ UNCHANGED <<mapped, revoked>>
    \/ part = "cross" /\ CrossTenants!Next /\ UNCHANGED revoked /\ (now > 0 => UNCHANGED issued)

RateNext ==
    \/ part = "refills" /\ Refills!Next
    \/ part = "evicts" /\ Evicts!Next

SamlNext ==
    \/ part = "answers" /\ Answers!IdpNext
    \/ part = "keyring" /\ KeyRing!IdpNext

PartNext ==
    \/ AuthNext /\ UNCHANGED <<rateVars, jwksVars, idpVars>>
    \/ RateNext /\ UNCHANGED <<vars, jwksVars, idpVars>>
    \/ part = "jwks" /\ JwksNext /\ UNCHANGED <<vars, rateVars, idpVars>>
    \/ SamlNext /\ UNCHANGED <<vars, rateVars, jwksVars>>

MCSpec == PartInit /\ [][PartNext /\ part' = part]_<<part, vars, rateVars, jwksVars, idpVars>>

\* Requests, Lookups and Keyed are the same two values, in different parts.
Symmetry == Permutations(Requests)
=============================================================================
