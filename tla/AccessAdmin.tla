---------------------------- MODULE AccessAdmin ----------------------------
(***************************************************************************)
(* The administration of portal users and roles: the commands of           *)
(* core/auth/domain (create, update and deactivate a user, create and      *)
(* delete a role, replace a role's permissions), the policy that decides   *)
(* who may manage whom, and the rows they leave in users, roles and        *)
(* role_permissions.                                                       *)
(*                                                                         *)
(* A user request is three steps: the policy reads the actor, the handler  *)
(* reads the target, the role and the counts and decides, and the decision *)
(* is written.  Nothing holds a lock in between: several requests may be   *)
(* in flight (Request), and what one read may be stale when it is used.    *)
(*                                                                         *)
(* Of the permissions only the two that the policy asks for are kept:      *)
(* admin.users.manage (a hub manager) and admin.dfsp-users.manage (a       *)
(* manager within one FSP).  Role commands are admitted by the claims of   *)
(* an access token, which may be older than the rows, and their handlers   *)
(* read no actor: here they may come at any time.                          *)
(***************************************************************************)
EXTENDS Naturals, FiniteSets

CONSTANTS User,        \* user ids, free until a user is created
          CustomRole,  \* ids of the roles administrators create
          Fsp,         \* FSP ids
          Seeded,      \* the user of AdminUserSeeder
          Request,     \* requests that may be in flight at a time
          NoFsp        \* a null fsp_id

ASSUME SeededAssumption == Seeded \in User /\ NoFsp \notin Fsp

VARIABLES users,       \* [User -> NoUser or a row]
          roles,       \* [role id -> its scope, NoRole before, Gone after it is deleted]
          grants,      \* [role id -> set of permission keys]
          ctx,         \* [Request -> None or the actor as the policy read it]
          req,         \* [Request -> None or the write that was decided]
          lost         \* [Request -> the FSPs an administrator was taken from
                       \*             since the request decided]: history

vars == <<users, roles, grants, ctx, req, lost>>

Permission == {"admin.users.manage", "admin.dfsp-users.manage"}
SystemRole == {"ADMIN", "DFSP_ADMIN", "DFSP_USER"}
Role == SystemRole \cup CustomRole
Scope == {"HUB", "DFSP"}
Flag == {"yes", "no"}
NoRole == "unassigned"
Gone == "gone"
NoUser == [role |-> NoRole, fspId |-> NoFsp, isActive |-> "no"]
Row == [role : Role, fspId : Fsp \cup {NoFsp}, isActive : Flag]

(* UserManagementContext: the actor, the row it had, and whether its role lets it *)
(* manage every FSP.                                                              *)
Context == [actor : User, row : Row, global : BOOLEAN]

(* What a request writes: a user row (whole, or the columns of a patch to the row *)
(* it read), a role, its deletion, or a role's permissions. *)
None == [kind |-> "none"]
Keep == "keep"
Write ==
  [kind : {"insert"}, id : User, row : Row]
    \cup [kind : {"patch"}, id : User, old : Row, role : Role \cup {Keep},
          fspId : Fsp \cup {NoFsp, Keep}, isActive : Flag \cup {Keep}]
    \cup [kind : {"role"}, id : CustomRole, scope : Scope]
    \cup [kind : {"delete"}, id : CustomRole]
    \cup [kind : {"grants"}, id : Role, keys : SUBSET Permission]

(* Ids of roles and FSPs are UUIDs and codes: none is a system role's name, a null  *)
(* or the mark of a field left out.                                                *)
ASSUME IdsAssumption ==
  /\ CustomRole \cap (SystemRole \cup {NoRole, Keep}) = {}
  /\ Keep \notin Fsp \cup {NoFsp}

PermissionScope(p) == IF p = "admin.users.manage" THEN "HUB" ELSE "DFSP"

exists(u) == users[u] # NoUser
active(u) == users[u].isActive = "yes"
holds(u, p) == exists(u) /\ p \in grants[users[u].role]
isRole(r) == roles[r] \in Scope

-----------------------------------------------------------------------------
(* The policy: who manages whom. *)

globalManager(a) == holds(a, "admin.users.manage")

(* The first reads of a user request. *)
resolveManagementContext(q, a) ==
  /\ exists(a) /\ active(a)
  /\ globalManager(a) \/ (holds(a, "admin.dfsp-users.manage") /\ users[a].fspId # NoFsp)
  /\ ctx' = [ctx EXCEPT ![q] = [actor |-> a, row |-> users[a], global |-> globalManager(a)]]
  /\ UNCHANGED <<users, roles, grants, req, lost>>

managesWithinFsp(c, t) ==
  /\ users[t].fspId = c.row.fspId
  /\ roles[users[t].role] = "DFSP"
  /\ users[t].role # "DFSP_ADMIN" \/ c.row.role = "DFSP_ADMIN"

managesAnyTarget(c, t) == c.global \/ managesWithinFsp(c, t)

canManageTargetRole(c, t) ==
  IF c.global
  THEN users[t].role # "ADMIN" \/ c.row.role = "ADMIN"
  ELSE managesWithinFsp(c, t)

canAssignRole(c, r) ==
  IF c.global
  THEN r # "ADMIN" \/ c.row.role = "ADMIN"
  ELSE roles[r] = "DFSP" /\ r # "DFSP_ADMIN"

(* The FSP a request ends up with: a hub manager names it, a manager within an *)
(* FSP always gets their own. *)
resolveCreateFspId(c, requested) == IF c.global THEN requested ELSE c.row.fspId

scopeUnchecked(r, f) == roles[r] = "HUB" => f = NoFsp

scopeAllows(r, f) == (roles[r] = "HUB") <=> (f = NoFsp)

countActiveUsersGrantingPermission(p, except) ==
  Cardinality({u \in User \ {except} : holds(u, p) /\ active(u)})

countActiveUsersByRoleIdForFsp(r, f, except) ==
  Cardinality({u \in User \ {except} : exists(u) /\ users[u].role = r
                                       /\ users[u].fspId = f /\ active(u)})

assertNotLastAdmin(t, next, deactivating) ==
  \/ ~holds(t, "admin.users.manage")
  \/ ~deactivating /\ next # users[t].role /\ "admin.users.manage" \in grants[next]
  \/ countActiveUsersGrantingPermission("admin.users.manage", t) > 0

(* The last manager of an FSP, seen by role only: a move to another FSP passes. *)
keepsRole(t, next, nextFsp, deactivating) ==
  \/ users[t].fspId = NoFsp
  \/ users[t].role # "DFSP_ADMIN"
  \/ ~deactivating /\ next = "DFSP_ADMIN"
  \/ countActiveUsersByRoleIdForFsp("DFSP_ADMIN", users[t].fspId, t) > 0

assertNotLastDfspManager(t, next, nextFsp, deactivating) ==
  \/ users[t].fspId = NoFsp
  \/ users[t].role # "DFSP_ADMIN"
  \/ ~deactivating /\ users[t].fspId = nextFsp /\ next = "DFSP_ADMIN"
  \/ countActiveUsersByRoleIdForFsp("DFSP_ADMIN", users[t].fspId, t) > 0

-----------------------------------------------------------------------------
(* The commands: what each handler decides from the rows it reads. *)

Decide(q, w) ==
  /\ req' = [req EXCEPT ![q] = w]
  /\ lost' = [lost EXCEPT ![q] = {}]
  /\ UNCHANGED <<users, roles, grants, ctx>>

CreateUserHandler(q, u, r, requested) ==
  LET c == ctx[q]
      f == resolveCreateFspId(c, requested)
  IN  /\ isRole(r)
      /\ canAssignRole(c, r)
      /\ scopeAllows(r, f)
      /\ ~exists(u)
      /\ Decide(q, [kind |-> "insert", id |-> u,
                    row |-> [role |-> r, fspId |-> f, isActive |-> "yes"]])

(* A field left out of the request counts as the one the row has; a patch without *)
(* a column is not written.                                                       *)
UpdateUserHandler(q, t, roleId, fspId, isActive) ==
  LET c == ctx[q]
      target == users[t]
      roleChange == roleId # target.role
      deactivation == isActive = "no" /\ active(t)
      effective == resolveCreateFspId(c, fspId)
      Changed(old, new) == IF new = old THEN Keep ELSE new
  IN  /\ exists(t)
      /\ canManageTargetRole(c, t)
      /\ ~(t = c.actor /\ (roleChange \/ deactivation))
      /\ isRole(roleId)
      /\ canAssignRole(c, roleId)
      /\ scopeAllows(roleId, effective)
      /\ (deactivation \/ roleChange) => assertNotLastAdmin(t, roleId, deactivation)
      /\ assertNotLastDfspManager(t, roleId, effective, deactivation)
      /\ [role |-> roleId, fspId |-> effective, isActive |-> isActive] # target
      /\ Decide(q, [kind |-> "patch", id |-> t, old |-> target,
                    role |-> Changed(target.role, roleId),
                    fspId |-> Changed(target.fspId, effective),
                    isActive |-> Changed(target.isActive, isActive)])

DeactivateUserHandler(q, t) ==
  LET c == ctx[q]
  IN  /\ t # c.actor
      /\ exists(t)
      /\ canManageTargetRole(c, t)
      /\ active(t)
      /\ holds(t, "admin.users.manage")
           => countActiveUsersGrantingPermission("admin.users.manage", t) > 0
      /\ assertNotLastDfspManager(t, users[t].role, users[t].fspId, TRUE)
      /\ Decide(q, [kind |-> "patch", id |-> t, old |-> users[t],
                    role |-> Keep, fspId |-> Keep, isActive |-> "no"])

(* The commands on roles read no actor. *)
CreateRoleHandler(q, r, scope) ==
  /\ roles[r] = NoRole
  /\ Decide(q, [kind |-> "role", id |-> r, scope |-> scope])

DeleteRoleHandler(q, r) ==
  /\ isRole(r)
  /\ {u \in User : users[u].role = r} = {}
  /\ Decide(q, [kind |-> "delete", id |-> r])

(* The admin keys of the ADMIN and DFSP_ADMIN roles are locked. *)
lockedKeys(r) == IF r \in {"ADMIN", "DFSP_ADMIN"} THEN grants[r] ELSE {}

ReplaceRolePermissionsHandler(q, r, keys) ==
  /\ isRole(r)
  /\ \A p \in keys : PermissionScope(p) = roles[r]
  /\ lockedKeys(r) \subseteq keys
  /\ Decide(q, [kind |-> "grants", id |-> r, keys |-> keys])

-----------------------------------------------------------------------------
(* The write.  users.role_id references roles: the database refuses a user whose *)
(* role is gone and the deletion of a role in use, and an id taken meanwhile.    *)

Accepted(w) ==
  CASE w.kind = "insert" -> ~exists(w.id) /\ isRole(w.row.role)
    [] w.kind = "patch"  -> w.role \in {Keep} \cup {r \in Role : isRole(r)}
    [] w.kind = "role"   -> roles[w.id] = NoRole
    [] w.kind = "delete" -> {u \in User : users[u].role = w.id} = {}
    [] w.kind = "grants" -> isRole(w.id)

Merged(old, w) ==
  [role     |-> IF w.role = Keep THEN old.role ELSE w.role,
   fspId    |-> IF w.fspId = Keep THEN old.fspId ELSE w.fspId,
   isActive |-> IF w.isActive = Keep THEN old.isActive ELSE w.isActive]

SaveUser(w) ==
  /\ w.kind \in {"insert", "patch"}
  /\ users' = [users EXCEPT ![w.id] = IF w.kind = "insert" THEN w.row ELSE Merged(@, w)]
  /\ UNCHANGED <<roles, grants>>

(* The id of a deleted role is never used again. *)
SaveRole(w) ==
  /\ w.kind \in {"role", "delete"}
  /\ roles' = [roles EXCEPT ![w.id] = IF w.kind = "role" THEN w.scope ELSE Gone]
  /\ grants' = [grants EXCEPT ![w.id] = {}]
  /\ UNCHANGED users

SaveGrants(w) ==
  /\ w.kind = "grants"
  /\ grants' = [grants EXCEPT ![w.id] = w.keys]
  /\ UNCHANGED <<users, roles>>

Administrator(row) == row.role = "ADMIN" /\ row.isActive = "yes"
Administers(row, f) == row.role = "DFSP_ADMIN" /\ row.isActive = "yes" /\ row.fspId = f

(* The FSPs that the step takes an administrator from. *)
Taken == {f \in Fsp : \E u \in User : Administers(users[u], f) /\ ~Administers(users'[u], f)}

End(q) ==
  /\ req' = [req EXCEPT ![q] = None]
  /\ ctx' = [ctx EXCEPT ![q] = None]

Save(q) ==
  /\ req[q] # None /\ Accepted(req[q])
  /\ SaveUser(req[q]) \/ SaveRole(req[q]) \/ SaveGrants(req[q])
  /\ lost' = [p \in Request |-> IF p = q \/ req[p] = None THEN {} ELSE lost[p] \cup Taken]
  /\ End(q)

(* The request is refused, its write fails, or the process dies before it: the *)
(* request leaves nothing.                                                     *)
RequestFails(q) ==
  /\ ctx[q] # None \/ req[q] # None
  /\ End(q)
  /\ lost' = [lost EXCEPT ![q] = {}]
  /\ UNCHANGED <<users, roles, grants>>

-----------------------------------------------------------------------------
(* RbacSeeder and AdminUserSeeder: three system roles and one administrator.  The *)
(* ADMIN role gets every permission, the DFSP one included.                       *)
Init ==
  /\ users = [u \in User |-> IF u = Seeded
                             THEN [role |-> "ADMIN", fspId |-> NoFsp, isActive |-> "yes"]
                             ELSE NoUser]
  /\ roles = [r \in Role |-> CASE r = "ADMIN" -> "HUB"
                               [] r \in {"DFSP_ADMIN", "DFSP_USER"} -> "DFSP"
                               [] OTHER -> NoRole]
  /\ grants = [r \in Role |-> CASE r = "ADMIN" -> Permission
                                [] r = "DFSP_ADMIN" -> {"admin.dfsp-users.manage"}
                                [] OTHER -> {}]
  /\ ctx = [q \in Request |-> None]
  /\ req = [q \in Request |-> None]
  /\ lost = [q \in Request |-> {}]

UserCommand(q) ==
  /\ req[q] = None
  /\ \/ ctx[q] = None /\ \E a \in User : resolveManagementContext(q, a)
     \/ ctx[q] # None /\ \E u \in User :
          \/ \E r \in Role, f \in Fsp \cup {NoFsp} :
               \/ CreateUserHandler(q, u, r, f)
               \/ \E b \in Flag : UpdateUserHandler(q, u, r, f, b)
          \/ DeactivateUserHandler(q, u)

RoleCommand(q) ==
  /\ req[q] = None /\ ctx[q] = None
  /\ \/ \E r \in CustomRole, s \in Scope : CreateRoleHandler(q, r, s)
     \/ \E r \in CustomRole : DeleteRoleHandler(q, r)
     \/ \E r \in Role, keys \in SUBSET Permission : ReplaceRolePermissionsHandler(q, r, keys)

Next == \E q \in Request : UserCommand(q) \/ RoleCommand(q) \/ Save(q) \/ RequestFails(q)

Spec == Init /\ [][Next]_vars

-----------------------------------------------------------------------------
TypeOK ==
  /\ users \in [User -> Row \cup {NoUser}]
  /\ roles \in [Role -> Scope \cup {NoRole, Gone}]
  /\ grants \in [Role -> SUBSET Permission]
  /\ ctx \in [Request -> Context \cup {None}]
  /\ req \in [Request -> Write \cup {None}]
  /\ lost \in [Request -> SUBSET Fsp]

(* The request whose write the step saves. *)
Saves(q) == req[q] # None /\ req'[q] = None

(* Its decision is stale: the row of the target, or of the actor, is not the one *)
(* that the handler, or the policy, read.                                        *)
TargetMoved(q) == req[q].kind = "patch" /\ users[req[q].id] # req[q].old
ActorMoved(q) == ctx[q] # None /\ users[ctx[q].actor] # ctx[q].row

(* The portal never locks itself out: there is an active ADMIN, the one role whose *)
(* admin keys nobody can remove, and the only way to lose the last one is a save   *)
(* whose actor or target another request has rewritten since they were read.       *)
(* UpdateUserHandler and DeactivateUserHandler refuse to take away the last holder *)
(* of admin.users.manage (USER_LAST_ADMIN), but a custom role may hold that key    *)
(* too, and its permissions are replaced without counting anybody: what keeps an   *)
(* ADMIN is that only an ADMIN may touch an ADMIN, that nobody demotes themselves, *)
(* and that the keys of the ADMIN role are locked.                                 *)
Manager == \E u \in User : Administrator(users[u]) /\ "admin.users.manage" \in grants["ADMIN"]
ManagerRemains ==
  [][Manager => Manager' \/ \E q \in Request : Saves(q) /\ (ActorMoved(q) \/ TargetMoved(q))]_vars

(* An FSP that has an active DFSP administrator who can manage its users keeps one, *)
(* through deactivation, change of role, move to another FSP and edits of the       *)
(* role's permissions (USER_LAST_DFSP_ADMIN).  Only two requests that overlap can   *)
(* take the last one: the count of the others is a statement of its own before the  *)
(* update, and between the two another request took an administrator of the FSP     *)
(* away or rewrote the target.                                                      *)
FspManager(f) ==
  \E u \in User : Administers(users[u], f) /\ "admin.dfsp-users.manage" \in grants["DFSP_ADMIN"]
FspManagerRemains ==
  [][\A f \in Fsp : FspManager(f) =>
       \/ FspManager(f)'
       \/ \E q \in Request : Saves(q) /\ (f \in lost[q] \/ TargetMoved(q))]_vars

(* Every user's role exists, a role of HUB scope never comes with an FSP and one of *)
(* DFSP scope never without: the tenant filter of every audit query is the fspId    *)
(* claim, so a DFSP role without one would see all FSPs.  A patch writes only the   *)
(* columns that changed, so a user can get a role of one request and an FSP of      *)
(* another; nothing else, no deletion of a role either, tears the two apart.        *)
Fits(u) ==
  exists(u) => /\ isRole(users[u].role)
               /\ (roles[users[u].role] = "HUB") <=> (users[u].fspId = NoFsp)
ScopeMatches ==
  [][\A u \in User : Fits(u) =>
       Fits(u)' \/ \E q \in Request : Saves(q) /\ TargetMoved(q) /\ req[q].id = u]_vars

-----------------------------------------------------------------------------
(* What the properties rest on. *)

(* The system roles keep their scope and the keys that are locked. *)
SystemRoles ==
  /\ roles["ADMIN"] = "HUB" /\ grants["ADMIN"] = Permission
  /\ roles["DFSP_ADMIN"] = "DFSP" /\ "admin.dfsp-users.manage" \in grants["DFSP_ADMIN"]

(* Users refer to roles that exist; users are never deleted. *)
RolesExist == \A u \in User : exists(u) => isRole(users[u].role)

(* What a pending write is known to respect, however stale its decision is: it   *)
(* finds its user and leaves the locked keys alone.                              *)
Kept(w) ==
  /\ w.kind = "patch" => exists(w.id)
  /\ w.kind = "grants" => /\ w.id = "ADMIN" => w.keys = Permission
                          /\ w.id = "DFSP_ADMIN" => "admin.dfsp-users.manage" \in w.keys

(* Holds for any number of requests in flight. *)
Integrity ==
  /\ TypeOK /\ SystemRoles /\ RolesExist
  /\ \A q \in Request : req[q] # None => Kept(req[q])
  /\ \A q \in Request : ctx[q] # None => ctx[q].row.isActive = "yes"

(* It is sound on the row it was decided on, with the actor that was read (c) and *)
(* the FSPs that lost an administrator since (gone).                              *)
FitsWhenSaved(row) ==
  /\ roles[row.role] # NoRole
  /\ isRole(row.role) => scopeAllows(row.role, row.fspId)
Sound(w, c, gone) ==
  /\ w.kind = "insert" => FitsWhenSaved(w.row)
  /\ w.kind = "patch" =>
       LET new == Merged(w.old, w) IN
       /\ (w.role = Keep /\ w.fspId = Keep) \/ FitsWhenSaved(new)
       /\ Administrator(w.old) /\ ~Administrator(new) =>
            c # None /\ c.actor # w.id /\ Administrator(c.row)
       /\ \A f \in Fsp : Administers(w.old, f) /\ ~Administers(new, f) =>
            f \in gone \/ \E u \in User \ {w.id} : Administers(users[u], f)

OverlapInv ==
  /\ Integrity
  /\ \A q \in Request : req[q] # None => Sound(req[q], ctx[q], lost[q])
============================================================================
