----------------------------- MODULE MCLoginGate -----------------------------
(***************************************************************************)
(* The clients' instance: one client, two customer tenants beside the      *)
(* system tenant and one user in each.  All the endpoints at once are out  *)
(* of reach, so a behaviour keeps to one scene, chosen at the start: the   *)
(* two-tenant race for an anonymous registration, the life of              *)
(* registrations and admin applications under every maintenance job, the   *)
(* agents' clients, or a login in the middle of a client's life.  A scene  *)
(* only leaves steps out.                                                  *)
(***************************************************************************)
EXTENDS LoginGate, TLC

CONSTANTS sys, ta, tb, ua, ub

VARIABLE scene

MCHome == [u \in Users |-> IF u = ua THEN ta ELSE tb]

FlowSymmetry == Permutations(Flows)

\* Per scene: the endpoints in use, the tenants creations are made under, the
\* users, how many consents are in flight at once, whether the reaper runs, the
\* backfill visits, and the assurance levels of logins (0: no login).
Alone == [kinds |-> {"dcr"}, deletes |-> {}, under |-> {sys}, users |-> {ub},
          flows |-> 1, jobs |-> FALSE, boots |-> 0, level |-> 0]

Apps == [Alone EXCEPT !.kinds = {"admin"}, !.under = {sys, tb}]

Scenes ==
    [claim |-> [Alone EXCEPT !.users = {ua, ub}, !.flows = 2],
     reap |-> [Alone EXCEPT !.users = {ua, ub}, !.jobs = TRUE],
     backfill |-> [Alone EXCEPT !.deletes = {"self"}, !.jobs = TRUE, !.boots = 1],
     app_jobs |-> [Apps EXCEPT !.jobs = TRUE, !.boots = 1],
     app_reap |-> [Apps EXCEPT !.deletes = {"admin"}, !.jobs = TRUE],
     app_delete |-> [Apps EXCEPT !.deletes = {"admin"}, !.boots = 1],
     agent |-> [Alone EXCEPT !.kinds = {"agent"}, !.deletes = {"self", "admin", "agent"},
                             !.under = {sys, ta}, !.users = {ua, ub}, !.jobs = TRUE, !.boots = 1],
     gate |-> [Apps EXCEPT !.kinds = {"dcr", "admin"}, !.level = 1],
     gate_delete |-> [Alone EXCEPT !.deletes = {"admin"}, !.level = 1],
     stepup |-> [Apps EXCEPT !.deletes = {"admin"}, !.flows = 0, !.level = 2]]

Within(s) ==
    /\ \A c \in Clients :
          /\ kind[c] \in s.kinds \cup {"none"}
          /\ reg[c].pc # "idle" => reg[c].tenant \in s.under
          /\ del[c].pc # "idle" => del[c].kind \in s.deletes
    /\ \A f \in Flows : consent[f].pc # "idle" => consent[f].user \in s.users
    /\ Cardinality({f \in Flows : consent[f].pc # "idle"}) <= s.flows
    /\ \A m \in members : m[3] \in s.users
    /\ s.jobs \/ (old = {} /\ \A r \in Replicas : gc[r].pc = "idle")
    /\ boots <= s.boots
    /\ \A u \in Users : session[u] = 0 \/ (u \in s.users /\ session[u] <= s.level)
    /\ \A l \in Logins : login[l].pc # "idle" =>
          /\ login[l].user \in s.users /\ login[l].required <= s.level
          /\ s.level = 1 => session[login[l].user] = 1

\* Without a login the scene is DcrLifecycle alone.
SceneNext ==
    \/ Scenes[scene].level > 0 /\ GateNext
    \/ Scenes[scene].level = 0 /\ Next /\ UNCHANGED loginVars

SceneInit == GateInit /\ scene \in DOMAIN Scenes

MCSpec == SceneInit /\ [][SceneNext /\ scene' = scene /\ Within(Scenes[scene])']_<<gateVars, scene>>
=============================================================================
