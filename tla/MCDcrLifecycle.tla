--------------------------- MODULE MCDcrLifecycle ---------------------------
(* Small instances of DcrLifecycle: two customer tenants beside the system  *)
(* tenant, one user in each, and one or two clients.                        *)
EXTENDS DcrLifecycle, TLC

CONSTANTS ta, tb, ua, ub

FlowSymmetry == Permutations(Flows)

MCHome == [u \in Users |-> IF u = ua THEN ta ELSE tb]
=============================================================================
