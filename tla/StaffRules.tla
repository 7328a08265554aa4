----------------------------- MODULE StaffRules -----------------------------
(***************************************************************************)
(* The vocabulary of staff administration and the pure rules its           *)
(* transactions evaluate: the role catalogue, what a command asks for,     *)
(* when the service refuses it and what it would write.                    *)
(*                                                                         *)
(* A command is decided from rows that were READ, so every rule takes the  *)
(* rows as arguments: a status st and a role set rs of the target.         *)
(***************************************************************************)

CONSTANTS
  Users,        \* identities (rows of users)
  Disabled,     \* the identities whose users.status is not active, or which do not exist
  Roles,        \* built-in role keys
  Permissions,  \* permission keys
  Grants,       \* role key -> its permission keys (role_permissions)
  Requests,     \* the administrative HTTP requests and bootstrap runs
  RoleChoices,  \* the role lists a request body may carry
  NoOne         \* null: no actor, no lock holder

Owner       == "owner"
AdminAccess == "admin.access"
CreateStaff == "staff.create"
AssignRoles == "staff.assign_roles"
AssignOwner == "staff.assign_owner"
SuspendStaff == "staff.suspend"

ASSUME CatalogueAssumption ==
  /\ Owner \in Roles
  /\ Grants \in [Roles -> SUBSET Permissions]
  /\ RoleChoices \subseteq SUBSET Roles

ASSUME IdentityAssumption ==
  /\ Disabled \subseteq Users
  /\ NoOne \notin Users
  /\ NoOne \notin Requests

Statuses   == {"none", "active", "suspended"}   \* "none": no staff_profiles row
StaffKinds == {"create", "replace", "suspend", "activate"}
Kinds      == StaffKinds \cup {"bootstrap"}

Commands == [kind : Kinds, actor : Users \cup {NoOne}, target : Users,
             wanted : SUBSET Roles, authority : SUBSET Permissions]

NoCommand == [kind |-> "none"]

Actions == {"staff.created", "staff.activated", "staff.suspended",
            "staff.roles_replaced", "owner.bootstrapped", "owner.assigned",
            "owner.removed"}

AuditEvents == [request : Requests, action : Actions,
                actor : Users \cup {NoOne}, target : Users]

(***************************************************************************)
(* The rows of all staff: status and roles are functions on Users.         *)
(***************************************************************************)
PermissionsOf(rs) == UNION {Grants[k] : k \in rs}

ActiveOwners(status, roles) ==
  {u \in Users \ Disabled : status[u] = "active" /\ Owner \in roles[u]}

\* What a user may do now, as the guard computes it from the committed rows.
EffectivePermissions(status, roles, u) ==
  IF status[u] = "active" THEN PermissionsOf(roles[u]) ELSE {}

RequiredPermissions(kind) ==
  {AdminAccess} \cup
  CASE kind = "create"  -> {CreateStaff, AssignRoles}
    [] kind = "replace" -> {AssignRoles}
    [] OTHER            -> {SuspendStaff}

\* The commands the two guards let through, with the actor's permissions as
\* the guard saw them: the service is handed that snapshot, not the rows.
Admitted(status, roles) ==
  {q \in [kind : StaffKinds, actor : Users \ Disabled, target : Users,
          wanted : RoleChoices,
          authority : {EffectivePermissions(status, roles, u) : u \in Users}] :
     /\ q.authority = EffectivePermissions(status, roles, q.actor)
     /\ RequiredPermissions(q.kind) \subseteq q.authority
     /\ q.kind = "create" => q.wanted # {}
     /\ q.kind \in {"suspend", "activate"} => q.wanted = {}}

\* An operator's bootstrap run: no actor and no permissions involved.
Bootstraps ==
  [kind : {"bootstrap"}, actor : {NoOne}, target : Users,
   wanted : {{Owner}}, authority : {{}}]

\* Mutation: one permission in common is taken for authority.
MayAssignSome(authority, rs) == PermissionsOf(rs) \cap authority # {}

\* assertActorMayAssign: the owner role needs its own permission, and no role
\* may hold a permission the actor lacks.
MayAssign(authority, rs) ==
  /\ Owner \in rs => AssignOwner \in authority
  /\ PermissionsOf(rs) \subseteq authority

OwnerChanged(q, rs) == (Owner \in rs) # (Owner \in q.wanted)

NextStatus(q) == IF q.kind = "suspend" THEN "suspended" ELSE "active"

\* The service rejects the command after reading the target's rows.
Refused(q, st, rs) ==
  \/ /\ q.kind = "create"
     /\ st # "none" \/ ~ MayAssign(q.authority, q.wanted)
  \/ /\ q.kind = "replace"
     /\ \/ st = "none"
        \/ ~ MayAssign(q.authority, q.wanted)
        \/ OwnerChanged(q, rs) /\ AssignOwner \notin q.authority
  \/ /\ q.kind \in {"suspend", "activate"}
     /\ \/ st \in {"none", NextStatus(q)}
        \/ Owner \in rs /\ AssignOwner \notin q.authority

\* Bootstrapping an active owner again changes nothing.
AlreadyOwner(q, st, rs) ==
  q.kind = "bootstrap" /\ st = "active" /\ Owner \in rs

\* The command takes the owner lock after it read the target (bootstrap took
\* it before).
ChangesOwners(q, rs) ==
  \/ q.kind = "create" /\ Owner \in q.wanted
  \/ q.kind = "replace" /\ OwnerChanged(q, rs)
  \/ q.kind \in {"suspend", "activate"} /\ Owner \in rs

\* The command takes an owner away, so the remaining owners are counted.
RemovesOwner(q, rs) ==
  /\ Owner \in rs
  /\ \/ q.kind = "replace" /\ Owner \notin q.wanted
     \/ q.kind = "suspend"

\* What the command writes for the target.
WrittenStatus(q, st) == IF q.kind = "replace" THEN st ELSE NextStatus(q)

WrittenRoles(q, rs) ==
  CASE q.kind \in {"create", "replace"} -> q.wanted
    [] q.kind = "bootstrap"             -> rs \cup q.wanted
    [] OTHER                            -> rs

AuditAction(q, rs) ==
  CASE q.kind = "create" ->
         IF Owner \in q.wanted THEN "owner.assigned" ELSE "staff.created"
    [] q.kind = "replace" ->
         IF ~ OwnerChanged(q, rs) THEN "staff.roles_replaced"
         ELSE IF Owner \in rs THEN "owner.removed" ELSE "owner.assigned"
    [] q.kind = "suspend"  -> "staff.suspended"
    [] q.kind = "activate" -> "staff.activated"
    [] OTHER               -> "owner.bootstrapped"

AuditEvent(r, q, rs) ==
  [request |-> r, action |-> AuditAction(q, rs),
   actor |-> q.actor, target |-> q.target]
=============================================================================
