----------------------------- MODULE ScimGroups ------------------------------
(***************************************************************************)
(* SCIM groups and what they entitle to.  A membership is recorded three   *)
(* times: a row of scim_group_members, a tuple of the `scim_group`         *)
(* namespace and the group's `member` tuple in the entitlement store.      *)
(* Nothing ties the three together but the order in which the handlers of  *)
(* ScimServiceImpl write them, one await each.                             *)
(*                                                                         *)
(* The lists a handler walks are sets here, walked in any order.  The      *)
(* Kratos side of create_user and delete_user is IdentityLifecycle's; a    *)
(* user is `mapped` from the insertion of the id_mappings row to its       *)
(* deletion.  set_group_membership reads before it writes and is taken as  *)
(* one idempotent step; PermissionStore takes it apart.                    *)
(***************************************************************************)
EXTENDS Naturals, FiniteSets

CONSTANTS
    Users,      \* public ids of users that may be created (never reused)
    Groups,     \* ids of groups that may be created (never reused)
    Procs,      \* requests in flight
    Ops,        \* which of the six operations clients send
    Strict,     \* the backend refuses to write a tuple it has (OpenFGA)
    MayFail     \* a request may fail or be cut off between two awaits

VARIABLES
    unborn,         \* ids not used yet
    mapped,         \* users with a row in id_mappings
    groups,         \* rows of scim_groups
    members,        \* rows of scim_group_members
    groupTuples,    \* tuples scim_group:<group>#member@<user>
    entitled,       \* tuples entitlements:<group>#member@<user>
    req,            \* the requests
    done            \* the last request that returned, with its answer

vars == <<unborn, mapped, groups, members, groupTuples, entitled, req, done>>

Pairs == Groups \X Users

Idle == [pc |-> "idle", op |-> "none", about |-> "none", set |-> {},
         rem |-> {}, add |-> {}, cur |-> <<>>]

Pcs == {"idle", "list", "clear_rows", "next_rem", "rem_row", "rem_entitled",
        "rem_tuple", "next_add", "add_check", "add_row", "add_tuple",
        "add_entitled", "finish", "unmap"}

TypeOK ==
    /\ unborn \subseteq Users \cup Groups
    /\ mapped \subseteq Users \ unborn
    /\ groups \subseteq Groups \ unborn
    /\ members \subseteq Pairs /\ groupTuples \subseteq Pairs /\ entitled \subseteq Pairs
    \* the foreign key of scim_group_members
    /\ \A m \in members : m[1] \in groups
    /\ \A p \in Procs : /\ req[p].pc \in Pcs
                        /\ req[p].op \in Ops \cup {"none"}
                        /\ req[p].set \subseteq Users \cup Groups
                        /\ req[p].rem \cup req[p].add \subseteq Pairs
                        /\ req[p].cur \in Pairs \cup {<<>>}
    /\ done.ok \in BOOLEAN

Init ==
    /\ unborn = Users \cup Groups
    /\ mapped = {} /\ groups = {}
    /\ members = {} /\ groupTuples = {} /\ entitled = {}
    /\ req = [p \in Procs |-> Idle]
    /\ done = [op |-> "none", about |-> "none", set |-> {}, ok |-> TRUE]

tables == <<unborn, mapped, groups, members, groupTuples, entitled>>

Go(p, rec) == req' = [req EXCEPT ![p] = rec] /\ UNCHANGED done

Return(p, ok) ==
    /\ req' = [req EXCEPT ![p] = Idle]
    /\ done' = [op |-> req[p].op, about |-> req[p].about, set |-> req[p].set, ok |-> ok]

Begin(p, op, about, set, pc, add) ==
    /\ req[p] = Idle /\ op \in Ops
    /\ Go(p, [Idle EXCEPT !.pc = pc, !.op = op, !.about = about, !.set = set, !.add = add])

-----------------------------------------------------------------------------
(* The handlers up to their first walk.                                    *)

\* create_user: the mapping is inserted, then the listed groups are joined.
CreateUser(p, u, gs) ==
    /\ u \in unborn
    /\ unborn' = unborn \ {u}
    /\ mapped' = mapped \cup {u}
    /\ Begin(p, "create_user", u, gs, "next_add", gs \X {u})
    /\ UNCHANGED <<groups, members, groupTuples, entitled>>

\* update_user: an empty `groups` leaves the memberships alone.
UpdateUser(p, u, gs) ==
    /\ u \in mapped /\ gs # {}
    /\ Begin(p, "update_user", u, gs, "list", gs \X {u})
    /\ UNCHANGED tables

DeleteUser(p, u) ==
    /\ u \in mapped
    /\ Begin(p, "delete_user", u, {}, "list", {})
    /\ UNCHANGED tables

CreateGroup(p, g, us) ==
    /\ g \in unborn
    /\ unborn' = unborn \ {g}
    /\ groups' = groups \cup {g}
    /\ Begin(p, "create_group", g, us, "next_add", {g} \X us)
    /\ UNCHANGED <<mapped, members, groupTuples, entitled>>

\* update_group: groups.update finds the row, then the members are replaced.
UpdateGroup(p, g, us) ==
    /\ g \in groups
    /\ Begin(p, "update_group", g, us, "list", {g} \X us)
    /\ UNCHANGED tables

DeleteGroup(p, g) ==
    /\ g \in groups
    /\ Begin(p, "delete_group", g, {}, "list", {})
    /\ UNCHANGED tables

-----------------------------------------------------------------------------
(* Leaving the memberships a request found.                                *)

\* (mutant) delete_user drops the rows first, as update_user does.
AfterListRowsFirst(op) ==
    IF op \in {"update_user", "delete_user"} THEN "clear_rows" ELSE "next_rem"

AfterList(op) == IF op = "update_user" THEN "clear_rows" ELSE "next_rem"

\* list_user_groups or list_members.
ListMemberships(p) ==
    LET r == req[p]
        found == {m \in members : r.about \in {m[1], m[2]}}
    IN  /\ r.pc = "list"
        /\ Go(p, [r EXCEPT !.pc = AfterList(r.op), !.rem = found])
        /\ UNCHANGED tables

\* remove_user_from_all_groups.
ClearRows(p) ==
    LET r == req[p] IN
    /\ r.pc = "clear_rows"
    /\ members' = {m \in members : m[2] # r.about}
    /\ Go(p, [r EXCEPT !.pc = "next_rem"])
    /\ UNCHANGED <<unborn, mapped, groups, groupTuples, entitled>>

\* Where the walk over the memberships leads: update_group takes the row away
\* first, the others start with the entitlement.
NextRemoval(p) ==
    LET r == req[p] IN
    /\ r.pc = "next_rem"
    /\ \/ \E m \in r.rem :
             Go(p, [r EXCEPT !.cur = m, !.rem = @ \ {m},
                             !.pc = IF r.op = "update_group" THEN "rem_row" ELSE "rem_entitled"])
       \/ /\ r.rem = {}
          /\ Go(p, [r EXCEPT !.pc = IF r.op \in {"delete_user", "delete_group"}
                                    THEN "finish" ELSE "next_add"])
    /\ UNCHANGED tables

\* remove_member
RemoveRow(p) ==
    LET r == req[p] IN
    /\ r.pc = "rem_row"
    /\ members' = members \ {r.cur}
    /\ Go(p, [r EXCEPT !.pc = "rem_entitled"])
    /\ UNCHANGED <<unborn, mapped, groups, groupTuples, entitled>>

\* set_group_membership(.., false)
RemoveEntitled(p) ==
    LET r == req[p] IN
    /\ r.pc = "rem_entitled"
    /\ entitled' = entitled \ {r.cur}
    /\ Go(p, [r EXCEPT !.pc = IF r.op \in {"update_group", "delete_group"}
                              THEN "rem_tuple" ELSE "next_rem"])
    /\ UNCHANGED <<unborn, mapped, groups, members, groupTuples>>

\* delete_relation_tuple, whose failure is ignored.
RemoveTuple(p) ==
    LET r == req[p] IN
    /\ r.pc = "rem_tuple"
    /\ \/ groupTuples' = groupTuples \ {r.cur}
       \/ MayFail /\ UNCHANGED groupTuples
    /\ Go(p, [r EXCEPT !.pc = "next_rem"])
    /\ UNCHANGED <<unborn, mapped, groups, members, entitled>>

\* After the walk: delete_user drops the rows and goes on to the identity;
\* delete_group drops the group, with its rows by ON DELETE CASCADE.
Finish(p) ==
    LET r == req[p] IN
    /\ r.pc = "finish"
    /\ members' = {m \in members : r.about \notin {m[1], m[2]}}
    /\ IF r.op = "delete_user"
       THEN Go(p, [r EXCEPT !.pc = "unmap"]) /\ UNCHANGED groups
       ELSE Return(p, r.about \in groups) /\ groups' = groups \ {r.about}
    /\ UNCHANGED <<unborn, mapped, groupTuples, entitled>>

\* The identity is deleted, then its mapping.
Unmap(p) ==
    LET r == req[p] IN
    /\ r.pc = "unmap"
    /\ mapped' = mapped \ {r.about}
    /\ Return(p, r.about \in mapped)
    /\ UNCHANGED <<unborn, groups, members, groupTuples, entitled>>

-----------------------------------------------------------------------------
(* add_user_to_group, for each requested membership.                       *)

NextAddition(p) ==
    LET r == req[p] IN
    /\ r.pc = "next_add"
    /\ \/ \E m \in r.add :
             Go(p, [r EXCEPT !.cur = m, !.add = @ \ {m}, !.pc = "add_check"])
       \/ r.add = {} /\ Return(p, TRUE)
    /\ UNCHANGED tables

\* the user must be mapped in the tenant
AddCheck(p) ==
    LET r == req[p] IN
    /\ r.pc = "add_check"
    /\ \/ r.cur[2] \in mapped /\ Go(p, [r EXCEPT !.pc = "add_row"])
       \/ r.cur[2] \notin mapped /\ Return(p, FALSE)
    /\ UNCHANGED tables

\* add_member: the group must exist.
AddRow(p) ==
    LET r == req[p] IN
    /\ r.pc = "add_row"
    /\ \/ /\ r.cur[1] \in groups
          /\ members' = members \cup {r.cur}
          /\ Go(p, [r EXCEPT !.pc = "add_tuple"])
       \/ r.cur[1] \notin groups /\ Return(p, FALSE) /\ UNCHANGED members
    /\ UNCHANGED <<unborn, mapped, groups, groupTuples, entitled>>

\* create_relation_tuple: a plain write, refused by OpenFGA if it is there.
AddTuple(p) ==
    LET r == req[p] IN
    /\ r.pc = "add_tuple"
    /\ \/ /\ ~(Strict /\ r.cur \in groupTuples)
          /\ groupTuples' = groupTuples \cup {r.cur}
          /\ Go(p, [r EXCEPT !.pc = "add_entitled"])
       \/ Strict /\ r.cur \in groupTuples /\ Return(p, FALSE) /\ UNCHANGED groupTuples
    /\ UNCHANGED <<unborn, mapped, groups, members, entitled>>

\* set_group_membership(.., true)
AddEntitled(p) ==
    LET r == req[p] IN
    /\ r.pc = "add_entitled"
    /\ entitled' = entitled \cup {r.cur}
    /\ Go(p, [r EXCEPT !.pc = "next_add"])
    /\ UNCHANGED <<unborn, mapped, groups, members, groupTuples>>

-----------------------------------------------------------------------------
\* A store is unreachable, or the process goes away, at any await.
RequestFails(p) ==
    /\ MayFail
    /\ req[p] # Idle
    /\ Return(p, FALSE)
    /\ UNCHANGED tables

Next ==
    \E p \in Procs :
        \/ \E u \in Users, gs \in SUBSET Groups : CreateUser(p, u, gs) \/ UpdateUser(p, u, gs)
        \/ \E u \in Users : DeleteUser(p, u)
        \/ \E g \in Groups, us \in SUBSET Users : CreateGroup(p, g, us) \/ UpdateGroup(p, g, us)
        \/ \E g \in Groups : DeleteGroup(p, g)
        \/ ListMemberships(p) \/ ClearRows(p) \/ NextRemoval(p) \/ RemoveRow(p)
        \/ RemoveEntitled(p) \/ RemoveTuple(p) \/ Finish(p) \/ Unmap(p)
        \/ NextAddition(p) \/ AddCheck(p) \/ AddRow(p) \/ AddTuple(p) \/ AddEntitled(p)
        \/ RequestFails(p)

Spec == Init /\ [][Next]_vars

-----------------------------------------------------------------------------
(* Properties.                                                             *)

Quiet == \A p \in Procs : req[p] = Idle

\* Creation adds the row before the entitlement and deletion takes the
\* entitlement before the row, so an entitled user is always a listed member
\* and a retried deletion still finds what it has to take away, wherever an
\* earlier request was cut off.
EntitledIsMember == entitled \subseteq members

\* A user or a group that is gone entitles to nothing.
GoneEntitlesNothing ==
    \A m \in entitled : m[1] \in groups /\ m[2] \in mapped

\* Whenever no request is under way, scim_group_members and the entitlement
\* store agree.
StoresAgree == Quiet => entitled = members

\* An update that returned success left exactly the entitlements it asked
\* for.  (When no request is cut off: an update computes what to add from the
\* rows, so it does not repair an entitlement that an earlier one left out.)
OkMeansAsAsked ==
    (Quiet /\ done.ok) =>
        /\ done.op = "update_group" =>
              {m[2] : m \in {e \in entitled : e[1] = done.about}} = done.set
        /\ done.op = "update_user" =>
              {m[1] : m \in {e \in entitled : e[2] = done.about}} = done.set
=============================================================================
