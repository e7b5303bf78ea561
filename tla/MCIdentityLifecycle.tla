------------------------ MODULE MCIdentityLifecycle ------------------------
(***************************************************************************)
(* The identities' instance: two requests in flight on at most two Kratos  *)
(* identities and two public ids.  A behaviour keeps to one scene, chosen  *)
(* at the start: a few service calls in two tenants, or in one tenant with *)
(* two addresses; federated and SCIM logins; self-service beside the admin *)
(* API.  A scene is the specification with smaller sets of operations,     *)
(* tenants and addresses, on the same stores.                              *)
(***************************************************************************)
EXTENDS IdentityLifecycle, TLC

CONSTANTS t1, e1

VARIABLE scene

Services == INSTANCE IdentityLifecycle
    WITH Emails <- {e1}, NameIds <- {}, Ops <- {"provision", "create", "delete", "subject"}
Gets == INSTANCE IdentityLifecycle
    WITH Emails <- {e1}, NameIds <- {}, Ops <- {"create", "get", "delete"}
Lookups == INSTANCE IdentityLifecycle
    WITH Emails <- {e1}, NameIds <- {}, Ops <- {"provision", "get", "subject"}
Addresses == INSTANCE IdentityLifecycle
    WITH Tenants <- {t1}, NameIds <- {}, Ops <- {"create", "update", "delete"}
Moves == INSTANCE IdentityLifecycle
    WITH Tenants <- {t1}, NameIds <- {}, Ops <- {"provision", "create", "update"}
Federated == INSTANCE IdentityLifecycle
    WITH Emails <- {e1}, Ops <- {"saml", "update", "subject", "scim_create", "scim_update"}
Logins == INSTANCE IdentityLifecycle
    WITH Emails <- {e1}, Ops <- {"provision", "saml", "scim_create", "scim_update"}
SelfServed == INSTANCE IdentityLifecycle
    WITH Tenants <- {t1}, NameIds <- {}, Ops <- {"register", "settings"}
Reused == INSTANCE IdentityLifecycle
    WITH Tenants <- {t1}, Emails <- {e1}, NameIds <- {}, Ops <- {"register", "settings", "delete"}

SceneNext ==
    \/ scene = "services" /\ Services!IdentityNext
    \/ scene = "gets" /\ Gets!IdentityNext
    \/ scene = "lookups" /\ Lookups!IdentityNext
    \/ scene = "addresses" /\ Addresses!IdentityNext
    \/ scene = "moves" /\ Moves!IdentityNext
    \/ scene = "federated" /\ Federated!IdentityNext
    \/ scene = "logins" /\ Logins!IdentityNext
    \/ scene = "self" /\ SelfServed!IdentityNext
    \/ scene = "reused" /\ Reused!IdentityNext

SceneInit ==
    /\ IdentityInit
    /\ scene \in {"services", "gets", "lookups", "addresses", "moves", "federated", "logins",
                  "self", "reused"}

MCSpec == SceneInit /\ [][SceneNext /\ scene' = scene]_<<identityVars, scene>>

\* A scene's sets are fixed: states that differ by a permutation reach states
\* that differ by it, or none of them names the permuted values.
Symmetry == Permutations(Tenants) \cup Permutations(Emails) \cup Permutations(Procs)
=============================================================================
