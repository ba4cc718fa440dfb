--------------------------- MODULE ProjectMembers ---------------------------
(***************************************************************************)
(* Membership of one project: services/projects.py behind the role check   *)
(* of core/authorization.py.  A request is cut at its awaits: the role     *)
(* check, the SELECT of the target's row, the count of other admins, and   *)
(* the COMMIT are separate statements under READ COMMITTED, so concurrent  *)
(* requests interleave between them.  Projects do not interact.            *)
(***************************************************************************)
EXTENDS Naturals

CONSTANTS
    Users,      \* registered users
    Requests,   \* concurrent requests about the project
    NoUser      \* "no user"

VARIABLES
    project,    \* the projects row: "absent", "live" or "deleted"
    owner,      \* projects.owner_id
    role,       \* project_members.role; "none" without a row
    req         \* the requests in flight

vars == <<project, owner, role, req>>

Roles == {"viewer", "editor", "admin"}
Ops   == {"invite", "update", "remove", "delete"}
Pc    == {"idle", "select", "count", "commit"}

(* seen: the role of the target in the session's identity map.             *)
Request == [pc : Pc, op : Ops, actor : Users, target : Users, new : Roles,
            seen : Roles \cup {"none"}]
IdleRequest == [pc |-> "idle", op |-> "none", actor |-> NoUser,
                target |-> NoUser, new |-> "none", seen |-> "none"]

ASSUME UsersOK == NoUser \notin Users

TypeOK ==
    /\ project \in {"absent", "live", "deleted"}
    /\ owner \in Users \cup {NoUser}
    /\ role \in [Users -> Roles \cup {"none"}]
    /\ req \in [Requests -> Request \cup {IdleRequest}]

Init ==
    /\ project = "absent"
    /\ owner = NoUser
    /\ role = [u \in Users |-> "none"]
    /\ req = [r \in Requests |-> IdleRequest]

ROLE_HIERARCHY == [viewer |-> 0, editor |-> 1, admin |-> 2]

IsAdmin(u) == role[u] = "admin"

-----------------------------------------------------------------------------
(* Project and owner's membership are inserted in one transaction.         *)
create_project(u) ==
    /\ project = "absent"
    /\ project' = "live"
    /\ owner' = u
    /\ role' = [role EXCEPT ![u] = "admin"]
    /\ UNCHANGED req

Goto(r, pc)  == req' = [req EXCEPT ![r].pc = pc]
Respond(r)   == req' = [req EXCEPT ![r] = IdleRequest]

(* require_role("admin"): the project exists and the caller is an admin.   *)
(* A caller who acts on itself has now its own row in the session.         *)
require_role(r, u) ==
    /\ req[r].pc = "idle"
    /\ project = "live"
    /\ role[u] # "none"
    /\ ROLE_HIERARCHY[role[u]] >= ROLE_HIERARCHY["admin"]
    /\ \E op \in Ops, t \in Users, new \in Roles :
          req' = [req EXCEPT ![r] =
                    [pc |-> "select", op |-> op, actor |-> u, target |-> t,
                     new |-> new,
                     seen |-> IF t = u THEN role[u] ELSE "none"]]
    /\ UNCHANGED <<project, owner, role>>

(* The role of the SELECTed row.  An object that is already in the session *)
(* keeps the attributes it was loaded with.                                *)
Loaded(r) == IF req[r].target = req[r].actor THEN req[r].seen
                                             ELSE role[req[r].target]

(* SELECT, and whether the count of the other admins must follow.          *)
Proceed(r, demotes) ==
    req' = [req EXCEPT ![r].seen = Loaded(r),
                       ![r].pc = IF Loaded(r) = "admin" /\ demotes
                                 THEN "count" ELSE "commit"]

(* Mutant: the owner may be removed like any other member.                 *)
select_no_owner(r) ==
    LET t == req[r].target IN
    /\ req[r].pc = "select"
    /\ IF (role[t] = "none") # (req[r].op = "invite")
       THEN Respond(r)
       ELSE Proceed(r, req[r].op = "remove" \/ req[r].new # "admin")
    /\ UNCHANGED <<project, owner, role>>

select_target(r) ==
    LET t == req[r].target IN
    /\ req[r].pc = "select"
    /\ \/ /\ req[r].op = "invite"           \* 409 if already a member
          /\ IF role[t] # "none" THEN Respond(r) ELSE Proceed(r, FALSE)
       \/ /\ req[r].op = "update"           \* 404 if not a member
          /\ IF role[t] = "none" THEN Respond(r)
                                 ELSE Proceed(r, req[r].new # "admin")
       \/ /\ req[r].op = "remove"           \* 409 for the owner
          /\ IF role[t] = "none" \/ owner = t THEN Respond(r)
                                              ELSE Proceed(r, TRUE)
       \/ /\ req[r].op = "delete"           \* 404 if the project is gone
          /\ IF project # "live" THEN Respond(r) ELSE Goto(r, "commit")
    /\ UNCHANGED <<project, owner, role>>

_ensure_not_last_admin(r) ==
    /\ req[r].pc = "count"
    /\ IF \E u \in Users \ {req[r].target} : IsAdmin(u)
       THEN Goto(r, "commit")
       ELSE Respond(r)
    /\ UNCHANGED <<project, owner, role>>

(* Mutant: an upsert instead of an INSERT under the unique constraint.     *)
invite_upserts(r) ==
    /\ req[r].pc = "commit" /\ req[r].op = "invite"
    /\ role' = IF project = "live"
               THEN [role EXCEPT ![req[r].target] = req[r].new] ELSE role
    /\ Respond(r)
    /\ UNCHANGED <<project, owner>>

(* INSERT: the unique constraint (or the foreign key, if the project is    *)
(* gone) turns a lost race into a conflict.                                *)
invite_project_member(r) ==
    /\ req[r].pc = "commit" /\ req[r].op = "invite"
    /\ role' = IF project = "live" /\ role[req[r].target] = "none"
               THEN [role EXCEPT ![req[r].target] = req[r].new] ELSE role
    /\ Respond(r)
    /\ UNCHANGED <<project, owner>>

(* The ORM emits an UPDATE only if the attribute changed, and raises if    *)
(* the row is gone by then.                                                *)
update_project_member_role(r) ==
    /\ req[r].pc = "commit" /\ req[r].op = "update"
    /\ role' = IF req[r].new # req[r].seen /\ role[req[r].target] # "none"
               THEN [role EXCEPT ![req[r].target] = req[r].new] ELSE role
    /\ Respond(r)
    /\ UNCHANGED <<project, owner>>

(* Mutant: the row is kept and marked.                                     *)
remove_marks(r) ==
    /\ req[r].pc = "commit" /\ req[r].op = "remove"
    /\ role' = [role EXCEPT ![req[r].target] = "removed"]
    /\ Respond(r)
    /\ UNCHANGED <<project, owner>>

remove_project_member(r) ==
    /\ req[r].pc = "commit" /\ req[r].op = "remove"
    /\ role' = [role EXCEPT ![req[r].target] = "none"]
    /\ Respond(r)
    /\ UNCHANGED <<project, owner>>

(* The members go with the project by ON DELETE CASCADE.                   *)
delete_project(r) ==
    /\ req[r].pc = "commit" /\ req[r].op = "delete"
    /\ project' = "deleted"
    /\ role' = [u \in Users |-> "none"]
    /\ Respond(r)
    /\ UNCHANGED owner

Step(r) ==
    \/ \E u \in Users : require_role(r, u)
    \/ select_target(r)
    \/ _ensure_not_last_admin(r)
    \/ invite_project_member(r)
    \/ update_project_member_role(r)
    \/ remove_project_member(r)
    \/ delete_project(r)

Next ==
    \/ \E u \in Users : create_project(u)
    \/ \E r \in Requests : Step(r)

Spec == Init /\ [][Next]_vars

-----------------------------------------------------------------------------
(* Properties.                                                             *)

(***************************************************************************)
(* "Every project must always retain at least one admin."  Otherwise       *)
(* nobody can invite, promote or delete any more.                          *)
(***************************************************************************)
AlwaysAnAdmin == project = "live" => \E u \in Users : IsAdmin(u)

(***************************************************************************)
(* Whatever requests race, the owner stays a member of its project:        *)
(* remove_project_member refuses the owner.                                *)
(***************************************************************************)
OwnerIsMember == project = "live" => role[owner] # "none"

(***************************************************************************)
(* An invitation that lost a race never changes the role of someone who is *)
(* a member by then: the loser gets a conflict.  And a role update never   *)
(* brings back a member who was removed meanwhile.                         *)
(***************************************************************************)
InviteOnlyAdds ==
    [][\A r \in Requests, u \in Users :
          /\ req[r].op = "invite" /\ req[r].target = u /\ role[u] # "none"
             /\ req'[r] # req[r]
                => role'[u] = role[u]
          /\ req[r].op = "update" /\ req[r].target = u /\ role[u] = "none"
             /\ req'[r] # req[r]
                => role'[u] = "none"]_vars

=============================================================================
