------------------------ MODULE ProjectMembersProofs ------------------------
(***************************************************************************)
(* Proofs about project membership, for any number of users and requests.  *)
(***************************************************************************)
EXTENDS ProjectMembers, TLAPS

(* A request in flight is a request record.                                *)
LEMMA BusyRequest ==
    ASSUME TypeOK, NEW r \in Requests, req[r].pc # "idle"
    PROVE  req[r] \in Request
  BY DEF TypeOK, IdleRequest

(* The updates of a request keep its type, and leave the others alone.     *)
LEMMA RequestUpdates ==
    ASSUME TypeOK, NEW r \in Requests, req[r].pc # "idle"
    PROVE  /\ \A pc \in Pc : Goto(r, pc) =>
                 /\ req' \in [Requests -> Request \cup {IdleRequest}]
                 /\ req'[r] = [req[r] EXCEPT !.pc = pc]
           /\ \A d \in BOOLEAN : Proceed(r, d) =>
                 /\ req' \in [Requests -> Request \cup {IdleRequest}]
                 /\ req'[r] = [[req[r] EXCEPT !.seen = Loaded(r)] EXCEPT
                          !.pc = IF Loaded(r) = "admin" /\ d THEN "count"
                                                             ELSE "commit"]
           /\ Respond(r) =>
                 /\ req' \in [Requests -> Request \cup {IdleRequest}]
                 /\ req'[r] = IdleRequest
<1>1. req[r] \in Request
  BY BusyRequest
<1>2. ASSUME NEW pc \in Pc, Goto(r, pc)
      PROVE  /\ req' \in [Requests -> Request \cup {IdleRequest}]
             /\ req'[r] = [req[r] EXCEPT !.pc = pc]
  <2>1. [req[r] EXCEPT !.pc = pc] \in Request
    BY <1>1 DEF Request
  <2>2. req' = [req EXCEPT ![r] = [req[r] EXCEPT !.pc = pc]]
    BY <1>2 DEF Goto
  <2> QED BY <2>1, <2>2 DEF TypeOK
<1>3. ASSUME NEW d \in BOOLEAN, Proceed(r, d)
      PROVE  /\ req' \in [Requests -> Request \cup {IdleRequest}]
             /\ req'[r] = [[req[r] EXCEPT !.seen = Loaded(r)] EXCEPT
                          !.pc = IF Loaded(r) = "admin" /\ d THEN "count"
                                                             ELSE "commit"]
  <2> DEFINE next == IF Loaded(r) = "admin" /\ d THEN "count" ELSE "commit"
             seen == [req[r] EXCEPT !.seen = Loaded(r)]
             rec  == [seen EXCEPT !.pc = next]
  <2>1. Loaded(r) \in Roles \cup {"none"}
    BY <1>1 DEF Loaded, TypeOK, Request
  <2>2. seen \in Request
    BY <1>1, <2>1 DEF Request
  <2>3. next \in Pc
    BY DEF Pc
  <2>4. req' = [req EXCEPT ![r] = rec]
    BY <1>3 DEF Proceed, TypeOK
  <2> HIDE DEF seen, next
  <2>5. rec \in Request
    BY <2>2, <2>3 DEF Request
  <2> HIDE DEF rec
  <2>6. req' \in [Requests -> Request \cup {IdleRequest}] /\ req'[r] = rec
    BY <2>4, <2>5 DEF TypeOK
  <2> QED BY <2>6 DEF rec, seen, next
<1>4. Respond(r) =>
         /\ req' \in [Requests -> Request \cup {IdleRequest}]
         /\ req'[r] = IdleRequest
  BY DEF TypeOK, Respond
<1> QED BY <1>2, <1>3, <1>4

(* Every step keeps the types.                                             *)
LEMMA NextTypes == TypeOK /\ [Next]_vars => TypeOK'
<1> SUFFICES ASSUME TypeOK, [Next]_vars  PROVE TypeOK'
  OBVIOUS
<1> DEFINE RR == [Requests -> Request \cup {IdleRequest}]
<1>1. CASE UNCHANGED vars
  BY <1>1 DEF TypeOK, vars
<1>2. ASSUME NEW u \in Users, create_project(u)  PROVE TypeOK'
  BY <1>2 DEF TypeOK, create_project, Roles
<1>3. ASSUME NEW r \in Requests, Step(r)  PROVE TypeOK'
  <2>0. ASSUME req[r].pc # "idle"
        PROVE  /\ \A pc \in Pc : Goto(r, pc) => req' \in RR
               /\ \A d \in BOOLEAN : Proceed(r, d) => req' \in RR
               /\ Respond(r) => req' \in RR
               /\ req[r] \in Request
    BY <2>0, RequestUpdates, BusyRequest
  <2>1. ASSUME NEW u \in Users, require_role(r, u)  PROVE TypeOK'
    <3>1. PICK op \in Ops, t \in Users, new \in Roles :
             req' = [req EXCEPT ![r] =
                       [pc |-> "select", op |-> op, actor |-> u, target |-> t,
                        new |-> new,
                        seen |-> IF t = u THEN role[u] ELSE "none"]]
      BY <2>1 DEF require_role
    <3>2. role[u] \in Roles \cup {"none"}
      BY DEF TypeOK
    <3>3. req' \in RR
      BY <3>1, <3>2 DEF TypeOK, Request, Pc
    <3> QED BY <2>1, <3>3 DEF TypeOK, require_role
  <2>2. CASE select_target(r)
    <3>1. req' \in RR
      BY <2>0, <2>2 DEF select_target, Pc
    <3> QED BY <2>2, <3>1 DEF TypeOK, select_target
  <2>3. CASE _ensure_not_last_admin(r)
    <3>1. req' \in RR
      BY <2>0, <2>3 DEF _ensure_not_last_admin, Pc
    <3> QED BY <2>3, <3>1 DEF TypeOK, _ensure_not_last_admin
  <2>4. CASE invite_project_member(r)
    BY <2>0, <2>4 DEF TypeOK, invite_project_member, Request
  <2>5. CASE update_project_member_role(r)
    BY <2>0, <2>5 DEF TypeOK, update_project_member_role, Request
  <2>6. CASE remove_project_member(r)
    BY <2>0, <2>6 DEF TypeOK, remove_project_member, Request
  <2>7. CASE delete_project(r)
    BY <2>0, <2>7 DEF TypeOK, delete_project
  <2> QED BY <1>3, <2>1, <2>2, <2>3, <2>4, <2>5, <2>6, <2>7 DEF Step
<1> QED BY <1>1, <1>2, <1>3 DEF Next

-----------------------------------------------------------------------------
(* The owner.  Carried by: a removal that passed its SELECT is not about   *)
(* the owner, and requests exist only once there is an owner.              *)
OwnerInv ==
    /\ project = "live" => owner \in Users /\ role[owner] # "none"
    /\ \A r \in Requests :
          req[r].pc # "idle" => project # "absent"
    /\ \A r \in Requests :
          req[r].pc = "commit" /\ req[r].op = "remove"
              => req[r].target # owner
    /\ \A r \in Requests :
          req[r].pc = "count" /\ req[r].op = "remove"
              => req[r].target # owner

(* Only the request that takes the step moves.                             *)
LEMMA OthersStay ==
    ASSUME TypeOK, NEW r \in Requests, Step(r)
    PROVE  \A q \in Requests : q # r => req'[q] = req[q]
  BY DEF TypeOK, Step, require_role, select_target, _ensure_not_last_admin,
     invite_project_member, update_project_member_role, remove_project_member,
     delete_project, Goto, Respond, Proceed

(* What a step does to the record of its own request.                      *)
LEMMA OwnStep ==
    ASSUME TypeOK, NEW r \in Requests, Step(r)
    PROVE  \/ \E u \in Users : require_role(r, u) /\ req'[r].pc = "select"
           \/ /\ req[r].pc = "select" /\ select_target(r)
              /\ req'[r].pc \in {"count", "commit"}
              /\ req'[r].op = req[r].op /\ req'[r].target = req[r].target
              /\ req'[r].new = req[r].new
              /\ req[r].op = "remove" => req[r].target # owner
              /\ req'[r].pc = "commit"
                    /\ req[r].op \in {"update", "remove"}
                    /\ ~(req[r].op = "update" /\ req[r].new = "admin")
                 => Loaded(r) # "admin"
           \/ /\ req[r].pc = "count" /\ _ensure_not_last_admin(r)
              /\ req'[r] = [req[r] EXCEPT !.pc = "commit"]
              /\ \E u \in Users \ {req[r].target} : IsAdmin(u)
           \/ /\ req'[r] = IdleRequest
              /\ \/ select_target(r) \/ _ensure_not_last_admin(r)
                 \/ invite_project_member(r) \/ update_project_member_role(r)
                 \/ remove_project_member(r) \/ delete_project(r)
<1>1. CASE req[r].pc = "idle"
  <2>1. \E u \in Users : require_role(r, u)
    BY <1>1 DEF Step, select_target, _ensure_not_last_admin,
       invite_project_member, update_project_member_role,
       remove_project_member, delete_project
  <2>2. PICK u \in Users : require_role(r, u)
    BY <2>1
  <2>3. PICK op \in Ops, t \in Users, new \in Roles :
           req' = [req EXCEPT ![r] =
                     [pc |-> "select", op |-> op, actor |-> u, target |-> t,
                      new |-> new,
                      seen |-> IF t = u THEN role[u] ELSE "none"]]
    BY <2>2 DEF require_role
  <2>4. req'[r].pc = "select"
    BY <2>3 DEF TypeOK
  <2> QED BY <2>2, <2>4
<1>2. CASE req[r].pc # "idle"
  <2>0. req[r] \in Request
    BY <1>2, BusyRequest
  <2>1. CASE select_target(r)
    <3>1. CASE Goto(r, "commit") /\ req[r].op = "delete"
      <4>1. req'[r] = [req[r] EXCEPT !.pc = "commit"]
        BY <1>2, <3>1, RequestUpdates DEF Pc
      <4> QED BY <2>0, <2>1, <3>1, <4>1 DEF Request, select_target
    <3>2. ASSUME NEW d \in BOOLEAN, Proceed(r, d),
                 req[r].op = "remove" => req[r].target # owner /\ d,
                 req[r].op = "update" /\ req[r].new # "admin" => d
          PROVE  /\ req'[r].pc \in {"count", "commit"}
                 /\ req'[r].op = req[r].op /\ req'[r].target = req[r].target
                 /\ req'[r].new = req[r].new
                 /\ req[r].op = "remove" => req[r].target # owner
                 /\ req'[r].pc = "commit"
                       /\ req[r].op \in {"update", "remove"}
                       /\ ~(req[r].op = "update" /\ req[r].new = "admin")
                    => Loaded(r) # "admin"
      <4> DEFINE next == IF Loaded(r) = "admin" /\ d THEN "count" ELSE "commit"
      <4>1. req'[r] = [[req[r] EXCEPT !.seen = Loaded(r)] EXCEPT !.pc = next]
        BY <1>2, <3>2, RequestUpdates
      <4>2. req'[r].pc = next
        BY <2>0, <4>1 DEF Request
      <4> HIDE DEF next
      <4>3. /\ req'[r].op = req[r].op /\ req'[r].target = req[r].target
            /\ req'[r].new = req[r].new
        BY <2>0, <4>1 DEF Request
      <4> QED BY <3>2, <4>2, <4>3 DEF next
    <3>3. Respond(r) => req'[r] = IdleRequest
      BY <1>2, RequestUpdates
    <3> QED BY <2>1, <3>1, <3>2, <3>3 DEF select_target
  <2>2. CASE _ensure_not_last_admin(r)
    BY <1>2, <2>2, RequestUpdates DEF _ensure_not_last_admin, Pc
  <2>3. CASE \/ invite_project_member(r) \/ update_project_member_role(r)
             \/ remove_project_member(r) \/ delete_project(r)
    BY <1>2, <2>3, RequestUpdates DEF invite_project_member,
       update_project_member_role, remove_project_member, delete_project
  <2>4. ASSUME NEW u \in Users, require_role(r, u)  PROVE FALSE
    BY <1>2, <2>4 DEF require_role
  <2> QED BY <2>1, <2>2, <2>3, <2>4 DEF Step
<1> QED BY <1>1, <1>2

(* Every step keeps the owner's invariant.                                 *)
LEMMA NextOwner ==
    ASSUME TypeOK, OwnerInv, [Next]_vars  PROVE OwnerInv'
<1>1. CASE UNCHANGED vars
  BY <1>1 DEF OwnerInv, vars
<1>2. ASSUME NEW u \in Users, create_project(u)  PROVE OwnerInv'
  BY <1>2 DEF TypeOK, OwnerInv, create_project
<1>3. ASSUME NEW r \in Requests, Step(r)  PROVE OwnerInv'
  <2>1. \A q \in Requests : q # r => req'[q] = req[q]
    BY <1>3, OthersStay
  <2>2. project # "absent" /\ project' # "absent" /\ owner' = owner
    BY <1>3 DEF OwnerInv, Step, require_role, select_target,
       _ensure_not_last_admin, invite_project_member,
       update_project_member_role, remove_project_member, delete_project
  <2>3. /\ req'[r].pc = "commit" /\ req'[r].op = "remove"
              => req'[r].target # owner
        /\ req'[r].pc = "count" /\ req'[r].op = "remove"
              => req'[r].target # owner
    <3>1. ASSUME req[r].pc = "count", req'[r] = [req[r] EXCEPT !.pc = "commit"]
          PROVE  req'[r].op = "remove" => req'[r].target # owner
      <4>1. req[r] \in Request
        BY <3>1, BusyRequest
      <4>2. req'[r].op = req[r].op /\ req'[r].target = req[r].target
        BY <3>1, <4>1 DEF Request
      <4> QED BY <3>1, <4>2 DEF OwnerInv
    <3> QED BY <1>3, <3>1, OwnStep DEF IdleRequest
  <2>4. project' = "live" => owner \in Users /\ role'[owner] # "none"
    <3>1. CASE UNCHANGED <<project, role>>
      BY <3>1 DEF OwnerInv
    <3>2. CASE invite_project_member(r)
      BY <3>2, BusyRequest DEF TypeOK, OwnerInv, invite_project_member, Request,
         Roles
    <3>3. CASE update_project_member_role(r)
      BY <3>3, BusyRequest DEF TypeOK, OwnerInv, update_project_member_role,
         Request, Roles
    <3>4. CASE remove_project_member(r)
      BY <3>4 DEF TypeOK, OwnerInv, remove_project_member
    <3>5. CASE delete_project(r)
      BY <3>5 DEF delete_project
    <3> QED BY <1>3, <3>1, <3>2, <3>3, <3>4, <3>5
        DEF Step, require_role, select_target, _ensure_not_last_admin
  <2> QED BY <2>1, <2>2, <2>3, <2>4 DEF OwnerInv
<1> QED BY <1>1, <1>2, <1>3 DEF Next

(***************************************************************************)
(* Every variable keeps its type.                                          *)
(***************************************************************************)
THEOREM TypeCorrect == Spec => []TypeOK
<1>1. Init => TypeOK
  BY DEF Init, TypeOK
<1>2. TypeOK /\ [Next]_vars => TypeOK'
  BY NextTypes
<1> QED BY <1>1, <1>2, PTL DEF Spec

(***************************************************************************)
(* The owner of a live project is always one of its members, whatever      *)
(* number of requests race.                                                *)
(***************************************************************************)
THEOREM OwnerStays == Spec => []OwnerIsMember
<1>1. Init => OwnerInv
  BY DEF Init, OwnerInv, IdleRequest
<1>2. TypeOK /\ OwnerInv /\ [Next]_vars => OwnerInv'
  BY NextOwner
<1>3. OwnerInv => OwnerIsMember
  BY DEF OwnerInv, OwnerIsMember
<1> QED BY <1>1, <1>2, <1>3, TypeCorrect, PTL DEF Spec

(***************************************************************************)
(* An invitation that lost its race changes nobody's role, and an update   *)
(* never brings a removed member back, however many requests overlap: the  *)
(* commit looks at the row as it is by then.                               *)
(***************************************************************************)
THEOREM LostRacesChangeNothing == Spec => InviteOnlyAdds
<1> DEFINE Harmless ==
      \A r \in Requests, u \in Users :
          /\ req[r].op = "invite" /\ req[r].target = u /\ role[u] # "none"
             /\ req'[r] # req[r]
                => role'[u] = role[u]
          /\ req[r].op = "update" /\ req[r].target = u /\ role[u] = "none"
             /\ req'[r] # req[r]
                => role'[u] = "none"
<1>1. TypeOK /\ [Next]_vars => [Harmless]_vars
  <2> SUFFICES ASSUME TypeOK, Next,
                      NEW r \in Requests, NEW u \in Users, req'[r] # req[r],
                      req[r].target = u,
                      \/ req[r].op = "invite" /\ role[u] # "none"
                      \/ req[r].op = "update" /\ role[u] = "none"
               PROVE  role'[u] = role[u]
    OBVIOUS
  <2>1. Step(r)
    <3>1. ASSUME NEW v \in Users, create_project(v)  PROVE FALSE
      BY <3>1 DEF create_project
    <3>2. ASSUME NEW q \in Requests, Step(q)  PROVE Step(r)
      BY <3>2, OthersStay
    <3> QED BY <3>1, <3>2 DEF Next
  <2>2. CASE role' = role
    BY <2>2
  <2>3. CASE invite_project_member(r) \/ update_project_member_role(r)
    BY <2>3 DEF invite_project_member, update_project_member_role
  <2>4. ~ (remove_project_member(r) \/ delete_project(r))
    BY DEF remove_project_member, delete_project
  <2> QED BY <2>1, <2>2, <2>3, <2>4
      DEF Step, require_role, select_target, _ensure_not_last_admin
<1>2. Spec => [][Harmless]_vars
  BY <1>1, TypeCorrect, PTL DEF Spec
<1> QED BY <1>2 DEF InviteOnlyAdds

-----------------------------------------------------------------------------
(* The last admin.  The check protects it as long as requests do not       *)
(* overlap: what the request saw is then still so when it commits.         *)

(* A committed change of r takes the admin role from its target.           *)
Demotes(r) == \/ req[r].op = "remove"
              \/ req[r].op = "update" /\ req[r].new # "admin"

AdminInv ==
    /\ AlwaysAnAdmin
    /\ \A r \in Requests :
          req[r].pc = "select" /\ req[r].target = req[r].actor
              => req[r].seen = role[req[r].target]
    /\ \A r \in Requests :
          req[r].pc = "commit" /\ Demotes(r) /\ IsAdmin(req[r].target)
              => \E u \in Users \ {req[r].target} : IsAdmin(u)

(* With one request at a time every step keeps an admin.                   *)
LEMMA NextAdmin ==
    ASSUME TypeOK, OwnerInv, AdminInv, \A q, r \in Requests : q = r, [Next]_vars
    PROVE  AdminInv'
<1>1. CASE UNCHANGED vars
  BY <1>1 DEF AdminInv, AlwaysAnAdmin, IsAdmin, Demotes, vars
<1>2. ASSUME NEW u \in Users, create_project(u)  PROVE AdminInv'
  <2>1. \A r \in Requests : req'[r].pc = "idle"
    BY <1>2 DEF OwnerInv, create_project
  <2>2. role'[u] = "admin"
    BY <1>2 DEF TypeOK, create_project
  <2> QED BY <2>1, <2>2 DEF AdminInv, AlwaysAnAdmin, IsAdmin
<1>3. ASSUME NEW r \in Requests, Step(r)  PROVE AdminInv'
  <2>0. \A q \in Requests : q = r
    OBVIOUS
  <2> DEFINE Kept == \E u \in Users \ {req[r].target} : IsAdmin(u)
  <2>1. ASSUME NEW u \in Users, require_role(r, u)  PROVE AdminInv'
    <3>1. PICK op \in Ops, t \in Users, new \in Roles :
             req' = [req EXCEPT ![r] =
                       [pc |-> "select", op |-> op, actor |-> u, target |-> t,
                        new |-> new,
                        seen |-> IF t = u THEN role[u] ELSE "none"]]
      BY <2>1 DEF require_role
    <3>2. req'[r] = [pc |-> "select", op |-> op, actor |-> u, target |-> t,
                     new |-> new,
                     seen |-> IF t = u THEN role[u] ELSE "none"]
      BY <3>1 DEF TypeOK
    <3>3. /\ req'[r].pc = "select" /\ req'[r].target = t
          /\ req'[r].actor = u /\ (t = u => req'[r].seen = role[u])
      BY <3>2
    <3>4. UNCHANGED <<project, role>>
      BY <2>1 DEF require_role
    <3> QED BY <2>0, <3>3, <3>4 DEF AdminInv, AlwaysAnAdmin, IsAdmin
  <2>2. CASE /\ req[r].pc = "select" /\ select_target(r)
             /\ req'[r].pc \in {"count", "commit"}
             /\ req'[r].op = req[r].op /\ req'[r].target = req[r].target
             /\ req'[r].new = req[r].new
             /\ req'[r].pc = "commit"
                   /\ req[r].op \in {"update", "remove"}
                   /\ ~(req[r].op = "update" /\ req[r].new = "admin")
                => Loaded(r) # "admin"
    <3>1. Loaded(r) = role[req[r].target]
      BY <2>2 DEF AdminInv, Loaded
    <3>2. UNCHANGED <<project, role>>
      BY <2>2 DEF select_target
    <3>3. req'[r].pc = "commit" /\ Demotes(r)' => ~IsAdmin(req'[r].target)
      BY <2>2, <3>1 DEF Demotes, IsAdmin
    <3> QED BY <2>0, <2>2, <3>2, <3>3 DEF AdminInv, AlwaysAnAdmin, IsAdmin
  <2>3. CASE /\ req[r].pc = "count" /\ _ensure_not_last_admin(r)
             /\ req'[r] = [req[r] EXCEPT !.pc = "commit"]
             /\ Kept
    <3>1. req[r] \in Request
      BY <2>3, BusyRequest
    <3>2. req'[r].pc = "commit" /\ req'[r].target = req[r].target
      BY <2>3, <3>1 DEF Request
    <3>3. UNCHANGED <<project, role>>
      BY <2>3 DEF _ensure_not_last_admin
    <3> QED BY <2>0, <2>3, <3>2, <3>3 DEF AdminInv, AlwaysAnAdmin, IsAdmin
  <2>4. CASE /\ req'[r] = IdleRequest
             /\ \/ select_target(r) \/ _ensure_not_last_admin(r)
                \/ invite_project_member(r) \/ update_project_member_role(r)
                \/ remove_project_member(r) \/ delete_project(r)
    <3> SUFFICES AlwaysAnAdmin'
      BY <2>0, <2>4 DEF AdminInv, IdleRequest
    <3> SUFFICES ASSUME project' = "live"  PROVE \E u \in Users : IsAdmin(u)'
      BY DEF AlwaysAnAdmin, IsAdmin
    <3>0. ASSUME project = "live"  PROVE \E u \in Users : IsAdmin(u)
      BY <3>0 DEF AdminInv, AlwaysAnAdmin
    <3>1. CASE select_target(r) \/ _ensure_not_last_admin(r)
      BY <3>0, <3>1 DEF select_target, _ensure_not_last_admin, IsAdmin
    <3>2. CASE invite_project_member(r)
      BY <3>0, <3>2 DEF TypeOK, invite_project_member, IsAdmin
    <3>3. CASE update_project_member_role(r)
      <4>1. req[r] \in Request /\ req[r].pc = "commit" /\ req[r].op = "update"
        BY <3>3, BusyRequest DEF update_project_member_role
      <4>2. CASE req[r].new = "admin"
        <5>1. PICK u \in Users : IsAdmin(u)
          BY <3>0, <3>3 DEF update_project_member_role
        <5>2. IsAdmin(u)'
          BY <3>3, <4>2, <5>1 DEF TypeOK, update_project_member_role, IsAdmin
        <5> QED BY <5>2
      <4>3. CASE req[r].new # "admin"
        <5>1. PICK u \in Users : u # req[r].target /\ IsAdmin(u)
          BY <3>0, <3>3, <4>1, <4>3
             DEF AdminInv, Demotes, update_project_member_role
        <5>2. IsAdmin(u)'
          BY <3>3, <5>1 DEF TypeOK, update_project_member_role, IsAdmin
        <5> QED BY <5>2
      <4> QED BY <4>2, <4>3
    <3>4. CASE remove_project_member(r)
      <4>1. PICK u \in Users : u # req[r].target /\ IsAdmin(u)
        BY <3>0, <3>4 DEF AdminInv, Demotes, remove_project_member
      <4>2. IsAdmin(u)'
        BY <3>4, <4>1 DEF TypeOK, remove_project_member, IsAdmin
      <4> QED BY <4>2
    <3>5. CASE delete_project(r)
      BY <3>5 DEF delete_project
    <3> QED BY <2>4, <3>1, <3>2, <3>3, <3>4, <3>5
  <2> QED BY <1>3, <2>1, <2>2, <2>3, <2>4, OwnStep
<1> QED BY <1>1, <1>2, <1>3 DEF Next

(***************************************************************************)
(* If the requests of a project are serialised, it always keeps an admin:  *)
(* _ensure_not_last_admin is right, and only its lack of a lock is not.    *)
(***************************************************************************)
THEOREM SerialKeepsAdmin ==
    ASSUME \A q, r \in Requests : q = r
    PROVE  Spec => []AlwaysAnAdmin
<1>1. Init => OwnerInv /\ AdminInv
  BY DEF Init, OwnerInv, AdminInv, AlwaysAnAdmin, IdleRequest
<1>2. TypeOK /\ OwnerInv /\ AdminInv /\ [Next]_vars => OwnerInv' /\ AdminInv'
  BY NextOwner, NextAdmin
<1>3. AdminInv => AlwaysAnAdmin
  BY DEF AdminInv
<1> QED BY <1>1, <1>2, <1>3, TypeCorrect, PTL DEF Spec

=============================================================================
