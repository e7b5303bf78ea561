-------------------------- MODULE MCFederatedLogin --------------------------
(***************************************************************************)
(* The federated logins' instance: two callbacks in flight.  A behaviour   *)
(* keeps to one scene: OAuth callbacks of two users, one at a time, OAuth  *)
(* callbacks of one address in two tenants, SAML deliveries by POST of two *)
(* assertions, or by POST and RPC of one.  A scene is the specification    *)
(* with smaller sets, on the same stores.                                  *)
(***************************************************************************)
EXTENDS FederatedLogin, TLC

CONSTANTS t1, t2, e1, c1, c2, p1, s1, a1

VARIABLE scene

\* c1 speaks OIDC and c2 OAuth2.
Types == [c \in Connections |-> IF c = c1 THEN "oidc" ELSE "oauth2"]
Owners == [c \in Connections |-> IF c \in {c1, c2} THEN t1 ELSE t2]
AllOfT1 == [r \in Requests |-> t1]

Users == INSTANCE FederatedLogin
    WITH Tenants <- {t1}, Connections <- {c1, c2}, NameIds <- {}, Requests <- {},
         Assertions <- {}, Procs <- {p1}
TwoTenants == INSTANCE FederatedLogin
    WITH Emails <- {e1}, Connections <- Connections \ {c2}, NameIds <- {}, Requests <- {},
         Assertions <- {}
Saml == INSTANCE FederatedLogin
    WITH Tenants <- {t1}, Emails <- {e1}, States <- {}, Connections <- {}
SamlRpc == INSTANCE FederatedLogin
    WITH Tenants <- {t1}, Emails <- {e1}, States <- {}, Connections <- {}, Assertions <- {a1}

SceneNext ==
    \/ scene = "users" /\ Users!Next
    \/ scene = "tenants" /\ TwoTenants!Next
    \/ scene = "saml" /\ Saml!Next /\ \A p \in Procs : ~cb'[p].rpc
    \/ scene = "rpc" /\ SamlRpc!Next

SceneInit == Init /\ scene \in {"users", "tenants", "saml", "rpc"}

MCSpec == SceneInit /\ [][SceneNext /\ scene' = scene]_<<federatedVars, scene>>

\* A scene's sets are fixed: states that differ by a permutation reach states
\* that differ by it, or none of them names the permuted values.  No scene has
\* both login states and assertions, so the two are exchanged together.
Tickets == {f \in Permutations(States \cup Assertions) :
              (\A s \in States : f[s] \in States) /\ (f[s1] = s1 <=> f[a1] = a1)}
Symmetry == Permutations(Procs) \cup Tickets \cup Permutations(Emails)
=============================================================================
