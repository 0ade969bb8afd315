------------------------- MODULE AccessAdminProofs -------------------------
(***************************************************************************)
(* Proofs about AccessAdmin, for any number of requests in flight: the     *)
(* integrity of the rows, and that only a save which another request has   *)
(* overtaken can cost the portal or an FSP its last manager, or tear the   *)
(* FSP of a user from the role.                                            *)
(***************************************************************************)
EXTENDS AccessAdmin, FiniteSetTheorems, TLAPS

USE SeededAssumption, IdsAssumption

-----------------------------------------------------------------------------
(* Lemmas about rows, counts and writes. *)

(* A row with a role is a user's, and nobody has NoRole. *)
LEMMA ExistsIffRole ==
  ASSUME TypeOK, NEW u \in User
  PROVE  /\ exists(u) <=> users[u] \in Row
         /\ exists(u) <=> users[u].role # NoRole
         /\ exists(u) <=> users[u].role \in Role
<1>1. NoRole \notin Role
  BY DEF NoRole, Role, SystemRole
<1>2. users[u] \in Row \/ users[u] = NoUser
  BY DEF TypeOK
<1>3. NoUser.role = NoRole
  BY DEF NoUser
<1>4. \A row \in Row : row.role \in Role
  BY DEF Row
<1> QED
  BY <1>1, <1>2, <1>3, <1>4 DEF exists

(* A count of others that is not zero has one of them. *)
LEMMA CountedOther ==
  ASSUME NEW S, Cardinality(S) > 0
  PROVE  \E x \in S : TRUE
<1>1. CASE S = {}
  BY <1>1, FS_EmptySet
<1>2. CASE S # {}
  BY <1>2
<1> QED
  BY <1>1, <1>2

(* The kinds of writes, each with its fields. *)
LEMMA WriteKinds ==
  ASSUME NEW w \in Write
  PROVE  /\ w.kind \in {"insert", "patch", "role", "delete", "grants"}
         /\ w # None
         /\ w.kind = "insert" => w.id \in User /\ w.row \in Row
         /\ w.kind = "patch" => /\ w.id \in User /\ w.old \in Row
                                /\ w.role \in Role \cup {Keep}
                                /\ w.fspId \in Fsp \cup {NoFsp, Keep}
                                /\ w.isActive \in Flag \cup {Keep}
         /\ w.kind = "role" => w.id \in CustomRole /\ w.scope \in Scope
         /\ w.kind = "delete" => w.id \in CustomRole
         /\ w.kind = "grants" => w.id \in Role /\ w.keys \in SUBSET Permission
BY DEF Write, None

(* A patched row is a row. *)
LEMMA MergedRow ==
  ASSUME NEW old \in Row, NEW w \in Write, w.kind = "patch"
  PROVE  Merged(old, w) \in Row
BY WriteKinds DEF Merged, Row, Keep, Flag

(* Roles that exist are the ones with a scope. *)
LEMMA RoleStates ==
  ASSUME TypeOK, NEW r \in Role
  PROVE  /\ isRole(r) => roles[r] # NoRole /\ roles[r] # Gone
         /\ roles[r] \in Scope \cup {NoRole, Gone}
BY DEF TypeOK, isRole, Scope, NoRole, Gone

LEMMA InitTypes == Init => TypeOK
BY DEF Init, TypeOK, Row, NoUser, Role, SystemRole, Scope, Permission, Flag

-----------------------------------------------------------------------------
(* What each command decides is a write that stays harmless for as long as it is *)
(* pending (Kept), and that is sound on the rows it was decided on (Sound).      *)

(* What a command decides, and on what. *)
Decides(q) == \E w \in Write : Kept(w) /\ Sound(w, ctx[q], {}) /\ Decide(q, w)

(* Creating a user. *)
LEMMA CreateDecides ==
  ASSUME Integrity, NEW q \in Request, ctx[q] # None, NEW u \in User,
         NEW r \in Role, NEW f \in Fsp \cup {NoFsp}, CreateUserHandler(q, u, r, f)
  PROVE  Decides(q)
<1> DEFINE g == resolveCreateFspId(ctx[q], f)
           w == [kind |-> "insert", id |-> u,
                 row |-> [role |-> r, fspId |-> g, isActive |-> "yes"]]
<1>1. ctx[q] \in Context
  BY DEF Integrity, TypeOK
<1>2. g \in Fsp \cup {NoFsp}
  BY <1>1 DEF resolveCreateFspId, Context, Row
<1>3. w \in Write
  BY <1>2 DEF Write, Row, Flag
<1>4. isRole(r) /\ scopeAllows(r, g) /\ Decide(q, w)
  BY DEF CreateUserHandler
<1>5. Kept(w)
  BY DEF Kept
<1>6. Sound(w, ctx[q], {})
  BY <1>4, RoleStates DEF Sound, FitsWhenSaved, Integrity
<1> QED
  BY <1>3, <1>4, <1>5, <1>6 DEF Decides

(* Who may change the row of an administrator: an administrator. *)
LEMMA OnlyAdminTouchesAdmin ==
  ASSUME Integrity, NEW q \in Request, ctx[q] # None, NEW t \in User,
         canManageTargetRole(ctx[q], t), users[t].role = "ADMIN"
  PROVE  Administrator(ctx[q].row)
<1>1. ctx[q].row.isActive = "yes" /\ roles["ADMIN"] = "HUB"
  BY DEF Integrity, SystemRoles
<1>2. ctx[q].row.role = "ADMIN"
  BY <1>1 DEF canManageTargetRole, managesWithinFsp
<1> QED
  BY <1>1, <1>2 DEF Administrator

(* assertNotLastDfspManager() leaves an administrator to the FSP. *)
LEMMA AnotherDfspManager ==
  ASSUME NEW t \in User, NEW f \in Fsp, Administers(users[t], f),
         NEW next, NEW nextFsp, NEW d \in BOOLEAN,
         assertNotLastDfspManager(t, next, nextFsp, d)
  PROVE  \/ ~d /\ next = "DFSP_ADMIN" /\ nextFsp = f
         \/ \E u \in User \ {t} : Administers(users[u], f)
<1>1. users[t].fspId = f /\ users[t].role = "DFSP_ADMIN" /\ f # NoFsp
  BY DEF Administers
<1> DEFINE Others == {u \in User \ {t} : exists(u) /\ users[u].role = "DFSP_ADMIN"
                                        /\ users[u].fspId = f /\ active(u)}
<1>2. \/ ~d /\ next = "DFSP_ADMIN" /\ nextFsp = f
      \/ Cardinality(Others) > 0
  BY <1>1 DEF assertNotLastDfspManager, countActiveUsersByRoleIdForFsp
<1>3. ASSUME Cardinality(Others) > 0
      PROVE  \E u \in User \ {t} : Administers(users[u], f)
  <2>1. PICK u \in Others : TRUE
    BY <1>3, CountedOther
  <2> QED
    BY <2>1 DEF Administers, active
<1> QED
  BY <1>2, <1>3

(* Updating a user. *)
LEMMA UpdateDecides ==
  ASSUME Integrity, NEW q \in Request, ctx[q] # None, NEW t \in User,
         NEW r \in Role, NEW f \in Fsp \cup {NoFsp}, NEW b \in Flag,
         UpdateUserHandler(q, t, r, f, b)
  PROVE  Decides(q)
<1> DEFINE old == users[t]
           deactivation == b = "no" /\ active(t)
           effective == resolveCreateFspId(ctx[q], f)
           Changed(x, y) == IF y = x THEN Keep ELSE y
           w == [kind |-> "patch", id |-> t, old |-> old,
                 role |-> Changed(old.role, r),
                 fspId |-> Changed(old.fspId, effective),
                 isActive |-> Changed(old.isActive, b)]
           new == Merged(old, w)
<1>1. /\ exists(t) /\ canManageTargetRole(ctx[q], t)
      /\ ~(t = ctx[q].actor /\ (r # old.role \/ deactivation))
      /\ isRole(r) /\ scopeAllows(r, effective)
      /\ assertNotLastDfspManager(t, r, effective, deactivation)
      /\ Decide(q, w)
  BY DEF UpdateUserHandler
<1>2. old \in Row /\ ctx[q] \in Context
  BY <1>1, ExistsIffRole DEF Integrity, TypeOK
<1>3. effective \in Fsp \cup {NoFsp}
  BY <1>2 DEF resolveCreateFspId, Context, Row
<1>4. w \in Write
  BY <1>2, <1>3 DEF Write
<1>5. new = [role |-> r, fspId |-> effective, isActive |-> b]
  <2>1. r # Keep /\ effective # Keep /\ b # Keep
    BY <1>3 DEF Role, SystemRole, Keep, Flag
  <2> QED
    BY <2>1 DEF Merged
<1>6. Kept(w)
  BY <1>1 DEF Kept
<1>7. FitsWhenSaved(new)
  BY <1>1, <1>5, RoleStates DEF FitsWhenSaved, Integrity
<1>8. Administrator(old) /\ ~Administrator(new) =>
        ctx[q].actor # t /\ Administrator(ctx[q].row)
  <2> SUFFICES ASSUME Administrator(old), ~Administrator(new)
               PROVE  ctx[q].actor # t /\ Administrator(ctx[q].row)
    OBVIOUS
  <2>1. Administrator(ctx[q].row)
    BY <1>1, OnlyAdminTouchesAdmin DEF Administrator
  <2>2. r # old.role \/ deactivation
    BY <1>5 DEF Administrator, active, Flag
  <2> QED
    BY <1>1, <2>1, <2>2
<1>9. ASSUME NEW h \in Fsp, Administers(old, h)
      PROVE  Administers(new, h) \/ \E u \in User \ {t} : Administers(users[u], h)
  <2>1. deactivation \in BOOLEAN
    OBVIOUS
  <2>2. \/ ~deactivation /\ r = "DFSP_ADMIN" /\ effective = h
        \/ \E u \in User \ {t} : Administers(users[u], h)
    BY <1>1, <1>9, <2>1, AnotherDfspManager
  <2>3. ~deactivation => b = "yes"
    BY <1>9 DEF Administers, active, Flag
  <2> QED
    BY <1>5, <2>2, <2>3 DEF Administers
<1>10. Sound(w, ctx[q], {})
  BY <1>7, <1>8, <1>9 DEF Sound
<1> QED
  BY <1>1, <1>4, <1>6, <1>10 DEF Decides

(* Deactivating a user. *)
LEMMA DeactivateDecides ==
  ASSUME Integrity, NEW q \in Request, ctx[q] # None, NEW t \in User,
         DeactivateUserHandler(q, t)
  PROVE  Decides(q)
<1> DEFINE old == users[t]
           w == [kind |-> "patch", id |-> t, old |-> old,
                 role |-> Keep, fspId |-> Keep, isActive |-> "no"]
           new == Merged(old, w)
<1>1. /\ exists(t) /\ canManageTargetRole(ctx[q], t) /\ t # ctx[q].actor
      /\ assertNotLastDfspManager(t, old.role, old.fspId, TRUE)
      /\ Decide(q, w)
  BY DEF DeactivateUserHandler
<1>2. old \in Row
  BY <1>1, ExistsIffRole DEF Integrity
<1>3. w \in Write
  BY <1>2 DEF Write, Flag
<1>4. Kept(w)
  BY <1>1 DEF Kept
<1>5. Administrator(old) => Administrator(ctx[q].row)
  BY <1>1, OnlyAdminTouchesAdmin DEF Administrator
<1>6. ASSUME NEW h \in Fsp, Administers(old, h)
      PROVE  \E u \in User \ {t} : Administers(users[u], h)
  BY <1>1, <1>6, AnotherDfspManager
<1>7. Sound(w, ctx[q], {})
  BY <1>1, <1>5, <1>6 DEF Sound
<1> QED
  BY <1>1, <1>3, <1>4, <1>7 DEF Decides

(* The role commands. *)
LEMMA RoleDecides ==
  ASSUME Integrity, NEW q \in Request, RoleCommand(q)
  PROVE  Decides(q)
<1>1. CASE \E r \in CustomRole, s \in Scope : CreateRoleHandler(q, r, s)
  <2>1. PICK r \in CustomRole, s \in Scope : CreateRoleHandler(q, r, s)
    BY <1>1
  <2> DEFINE w == [kind |-> "role", id |-> r, scope |-> s]
  <2>2. w \in Write /\ Decide(q, w) /\ Kept(w) /\ Sound(w, ctx[q], {})
    BY <2>1 DEF CreateRoleHandler, Write, Kept, Sound
  <2> QED
    BY <2>2 DEF Decides
<1>2. CASE \E r \in CustomRole : DeleteRoleHandler(q, r)
  <2>1. PICK r \in CustomRole : DeleteRoleHandler(q, r)
    BY <1>2
  <2> DEFINE w == [kind |-> "delete", id |-> r]
  <2>2. w \in Write /\ Decide(q, w) /\ Kept(w) /\ Sound(w, ctx[q], {})
    BY <2>1 DEF DeleteRoleHandler, Write, Kept, Sound
  <2> QED
    BY <2>2 DEF Decides
<1>3. CASE \E r \in Role, keys \in SUBSET Permission : ReplaceRolePermissionsHandler(q, r, keys)
  <2>1. PICK r \in Role, keys \in SUBSET Permission : ReplaceRolePermissionsHandler(q, r, keys)
    BY <1>3
  <2> DEFINE w == [kind |-> "grants", id |-> r, keys |-> keys]
  <2>2. w \in Write /\ Decide(q, w) /\ Sound(w, ctx[q], {})
    BY <2>1 DEF ReplaceRolePermissionsHandler, Write, Sound
  <2>3. Kept(w)
    BY <2>1 DEF ReplaceRolePermissionsHandler, lockedKeys, Kept, Integrity, SystemRoles
  <2> QED
    BY <2>2, <2>3 DEF Decides
<1> QED
  BY <1>1, <1>2, <1>3 DEF RoleCommand

(* Every command: it reads the actor, or decides. *)
LEMMA CommandDecides ==
  ASSUME Integrity, NEW q \in Request, UserCommand(q) \/ RoleCommand(q)
  PROVE  /\ req[q] = None
         /\ Decides(q) \/ \E a \in User : resolveManagementContext(q, a)
<1>1. CASE RoleCommand(q)
  BY <1>1, RoleDecides DEF RoleCommand
<1>2. CASE UserCommand(q)
  <2>1. req[q] = None
    BY <1>2 DEF UserCommand
  <2>2. CASE ctx[q] = None
    BY <1>2, <2>1, <2>2 DEF UserCommand
  <2>3. CASE ctx[q] # None
    <3>1. PICK u \in User :
            \/ \E r \in Role, f \in Fsp \cup {NoFsp} :
                 \/ CreateUserHandler(q, u, r, f)
                 \/ \E b \in Flag : UpdateUserHandler(q, u, r, f, b)
            \/ DeactivateUserHandler(q, u)
      BY <1>2, <2>3 DEF UserCommand
    <3>2. CASE DeactivateUserHandler(q, u)
      BY <2>1, <2>3, <3>2, DeactivateDecides
    <3>3. CASE \E r \in Role, f \in Fsp \cup {NoFsp} :
                 \/ CreateUserHandler(q, u, r, f)
                 \/ \E b \in Flag : UpdateUserHandler(q, u, r, f, b)
      <4>1. PICK r \in Role, f \in Fsp \cup {NoFsp} :
                 \/ CreateUserHandler(q, u, r, f)
                 \/ \E b \in Flag : UpdateUserHandler(q, u, r, f, b)
        BY <3>3
      <4>2. CASE CreateUserHandler(q, u, r, f)
        BY <2>1, <2>3, <4>2, CreateDecides
      <4>3. CASE \E b \in Flag : UpdateUserHandler(q, u, r, f, b)
        BY <2>1, <2>3, <4>3, UpdateDecides
      <4> QED
        BY <4>1, <4>2, <4>3
    <3> QED
      BY <3>1, <3>2, <3>3
  <2> QED
    BY <2>2, <2>3
<1> QED
  BY <1>1, <1>2

(* A decision, and the policy's reading of the actor, write no row. *)
LEMMA DecideStep ==
  ASSUME TypeOK, NEW q \in Request, NEW w \in Write, Decide(q, w)
  PROVE  /\ TypeOK'
         /\ users' = users /\ roles' = roles /\ grants' = grants /\ ctx' = ctx
         /\ \A p \in Request : req'[p] = IF p = q THEN w ELSE req[p]
         /\ \A p \in Request : lost'[p] = IF p = q THEN {} ELSE lost[p]
BY DEF TypeOK, Decide

LEMMA ActorStep ==
  ASSUME TypeOK, NEW q \in Request, NEW a \in User, resolveManagementContext(q, a)
  PROVE  /\ TypeOK'
         /\ users' = users /\ roles' = roles /\ grants' = grants /\ req' = req /\ lost' = lost
         /\ \A p \in Request \ {q} : ctx'[p] = ctx[p]
         /\ ctx'[q].row.isActive = "yes"
<1> DEFINE c == [actor |-> a, row |-> users[a], global |-> globalManager(a)]
<1>1. exists(a) /\ users[a].isActive = "yes"
  BY DEF resolveManagementContext, active
<1>2. globalManager(a) \in BOOLEAN
  BY DEF globalManager, holds, exists
<1>3. c \in Context
  BY <1>1, <1>2, ExistsIffRole DEF Context
<1>4. ctx' = [ctx EXCEPT ![q] = c]
  BY DEF resolveManagementContext
<1> QED
  BY <1>1, <1>3, <1>4 DEF TypeOK, resolveManagementContext

-----------------------------------------------------------------------------
(* What a write changes. *)

(* Integrity survives every accepted write, however stale. *)
LEMMA SaveTypes ==
  ASSUME Integrity, NEW q \in Request, Save(q)
  PROVE  /\ req[q] \in Write /\ Kept(req[q])
         /\ TypeOK'
         /\ \A u \in User : exists(u) => exists(u)'
<1> DEFINE w == req[q]
<1>1. w \in Write /\ Kept(w)
  BY DEF Save, Integrity, TypeOK
<1>2. /\ req' \in [Request -> Write \cup {None}]
      /\ ctx' \in [Request -> Context \cup {None}]
      /\ lost' \in [Request -> SUBSET Fsp]
  BY DEF Save, End, Taken, Integrity, TypeOK
<1>3. CASE SaveUser(w)
  <2> DEFINE row == IF w.kind = "insert" THEN w.row ELSE Merged(users[w.id], w)
  <2>1. w.id \in User /\ users' = [users EXCEPT ![w.id] = row]
    BY <1>1, <1>3, WriteKinds DEF SaveUser
  <2>2. row \in Row
    <3>1. CASE w.kind = "insert"
      BY <1>1, <3>1, WriteKinds
    <3>2. CASE w.kind = "patch"
      <4>1. users[w.id] \in Row
        BY <1>1, <2>1, <3>2, ExistsIffRole DEF Kept, Integrity
      <4> QED
        BY <1>1, <3>2, <4>1, MergedRow
    <3> QED
      BY <1>3, <3>1, <3>2 DEF SaveUser
  <2>3. TypeOK'
    BY <1>2, <1>3, <2>1, <2>2 DEF TypeOK, SaveUser, Integrity
  <2>4. \A u \in User : users'[u] = IF u = w.id THEN row ELSE users[u]
    BY <2>1 DEF TypeOK, Integrity
  <2>5. NoUser \notin Row
    BY DEF NoUser, NoRole, Row, Role, SystemRole
  <2> QED
    BY <1>1, <2>2, <2>3, <2>4, <2>5 DEF exists
<1>4. CASE SaveRole(w)
  <2>1. w.id \in Role /\ (w.kind = "role" => w.scope \in Scope)
    BY <1>1, <1>4, WriteKinds DEF SaveRole, Role
  <2> QED
    BY <1>1, <1>2, <1>4, <2>1 DEF TypeOK, SaveRole, Integrity, exists
<1>5. CASE SaveGrants(w)
  <2>1. w.id \in Role /\ w.keys \in SUBSET Permission
    BY <1>1, <1>5, WriteKinds DEF SaveGrants
  <2> QED
    BY <1>1, <1>2, <1>5, <2>1 DEF TypeOK, SaveGrants, Integrity, exists
<1> QED
  BY <1>3, <1>4, <1>5 DEF Save

(* The row a write leaves in users, and that it leaves the others. *)
LEMMA SavedRow ==
  ASSUME Integrity, NEW q \in Request, Save(q), SaveUser(req[q])
  PROVE  LET w == req[q]
         IN /\ w.id \in User
            /\ roles' = roles /\ grants' = grants
            /\ \A u \in User : users'[u] = IF u # w.id THEN users[u]
                                          ELSE IF w.kind = "insert" THEN w.row
                                          ELSE Merged(users[w.id], w)
BY SaveTypes, WriteKinds DEF SaveUser, TypeOK, Integrity

(* The system roles are out of reach of every role command. *)
LEMMA SaveSystemRoles ==
  ASSUME Integrity, NEW q \in Request, Save(q)
  PROVE  SystemRoles'
<1> DEFINE w == req[q]
<1>1. w \in Write /\ Kept(w)
  BY SaveTypes
<1>2. CASE SaveUser(w)
  BY <1>2 DEF SaveUser, Integrity, SystemRoles
<1>3. CASE SaveRole(w)
  <2>1. w.id \in CustomRole /\ w.id # "ADMIN" /\ w.id # "DFSP_ADMIN"
    BY <1>1, <1>3, WriteKinds DEF SaveRole, SystemRole
  <2> QED
    BY <1>3, <2>1 DEF SaveRole, Integrity, SystemRoles, TypeOK
<1>4. CASE SaveGrants(w)
  BY <1>1, <1>4 DEF SaveGrants, Kept, Integrity, SystemRoles, TypeOK, Role, SystemRole
<1> QED
  BY <1>2, <1>3, <1>4 DEF Save

(* Roles come once and keep their scope until they go. *)
LEMMA RolesMove ==
  ASSUME Integrity, NEW q \in Request, Save(q), NEW r \in Role, roles[r] # NoRole
  PROVE  /\ roles'[r] # NoRole
         /\ isRole(r)' => isRole(r) /\ roles'[r] = roles[r]
         /\ isRole(r) /\ (\E u \in User : users[u].role = r) => isRole(r)'
<1> DEFINE w == req[q]
<1>1. w \in Write /\ Accepted(w)
  BY SaveTypes DEF Save
<1>2. CASE SaveUser(w)
  BY <1>2 DEF SaveUser, isRole
<1>3. CASE SaveGrants(w)
  BY <1>3 DEF SaveGrants, isRole
<1>4. CASE SaveRole(w)
  <2>1. w.id \in Role /\ roles \in [Role -> Scope \cup {NoRole, Gone}]
    BY <1>1, <1>4, WriteKinds DEF SaveRole, Role, Integrity, TypeOK
  <2>2. CASE w.kind = "role"
    <3>1. w.id # r
      BY <1>1, <2>2 DEF Accepted
    <3> QED
      BY <1>4, <2>1, <3>1 DEF SaveRole, isRole
  <2>3. CASE w.kind = "delete"
    <3>1. roles' = [roles EXCEPT ![w.id] = Gone]
      BY <1>4, <2>3 DEF SaveRole
    <3>2. w.id = r => ~\E u \in User : users[u].role = r
      BY <1>1, <2>3 DEF Accepted
    <3> QED
      BY <2>1, <3>1, <3>2 DEF isRole, Scope, Gone, NoRole
  <2> QED
    BY <1>4, <2>2, <2>3 DEF SaveRole
<1> QED
  BY <1>2, <1>3, <1>4 DEF Save

(* The foreign key of users.role_id. *)
LEMMA SaveRolesExist ==
  ASSUME Integrity, NEW q \in Request, Save(q)
  PROVE  RolesExist'
<1> DEFINE w == req[q]
<1>1. w \in Write /\ Kept(w) /\ Accepted(w)
  BY SaveTypes DEF Save
<1> SUFFICES ASSUME NEW u \in User, exists(u)'
             PROVE  roles'[users'[u].role] \in Scope
  BY DEF RolesExist, isRole
<1>2. exists(u) => users[u].role \in Role /\ isRole(users[u].role)
  BY ExistsIffRole DEF Integrity, RolesExist
<1>3. CASE SaveUser(w)
  <2>1. CASE u # w.id
    BY <1>2, <1>3, <2>1, SavedRow DEF exists, isRole
  <2>2. CASE u = w.id /\ w.kind = "insert"
    BY <1>1, <1>3, <2>2, SavedRow DEF Accepted, isRole
  <2>3. CASE u = w.id /\ w.kind = "patch"
    <3>1. isRole(users[u].role)
      BY <1>1, <1>2, <2>3 DEF Kept
    <3>2. w.role = Keep \/ isRole(w.role)
      BY <1>1, <2>3 DEF Accepted
    <3>3. users'[u].role = IF w.role = Keep THEN users[u].role ELSE w.role
      <4>1. users'[u] = Merged(users[u], w)
        BY <1>3, <2>3, SavedRow
      <4> QED
        BY <4>1 DEF Merged
    <3> QED
      BY <1>3, <3>1, <3>2, <3>3, SavedRow DEF isRole
  <2> QED
    BY <1>3, <2>1, <2>2, <2>3 DEF SaveUser
<1>4. CASE users' = users
  <2>1. exists(u)
    BY <1>4 DEF exists
  <2>2. users[u].role \in Role /\ roles[users[u].role] # NoRole
    BY <1>2, <2>1, RoleStates DEF Integrity
  <2>3. PICK r \in Role : r = users[u].role
    BY <2>2
  <2>4. isRole(r)'
    BY <1>2, <2>1, <2>2, <2>3, RolesMove
  <2> QED
    BY <1>4, <2>3, <2>4 DEF isRole
<1> QED
  BY <1>3, <1>4 DEF Save, SaveRole, SaveGrants

-----------------------------------------------------------------------------
(* Integrity, whatever the number of requests in flight. *)

LEMMA InitIntegrity == Init => Integrity
<1> SUFFICES ASSUME Init PROVE Integrity
  OBVIOUS
<1>1. TypeOK
  BY InitTypes
<1>2. SystemRoles
  BY DEF Init, SystemRoles, Role, SystemRole, Permission
<1>3. RolesExist
  BY DEF Init, RolesExist, exists, isRole, Scope, NoRole, Role, SystemRole
<1>4. \A q \in Request : req[q] = None /\ ctx[q] = None
  BY DEF Init
<1> QED
  BY <1>1, <1>2, <1>3, <1>4 DEF Integrity

(* What the end of a request leaves of the others. *)
LEMMA EndStep ==
  ASSUME TypeOK, NEW q \in Request, End(q), NEW p \in Request
  PROVE  /\ req'[p] # None => p # q /\ req'[p] = req[p] /\ ctx'[p] = ctx[p]
         /\ ctx'[p] # None => ctx'[p] = ctx[p]
         /\ req'[q] = None
BY DEF TypeOK, End

LEMMA NextIntegrity ==
  ASSUME Integrity, [Next]_vars
  PROVE  Integrity'
<1>1. ASSUME NEW q \in Request, Decides(q)
      PROVE  Integrity'
  <2>1. PICK w \in Write : Kept(w) /\ Decide(q, w)
    BY <1>1 DEF Decides
  <2>2. /\ TypeOK' /\ users' = users /\ roles' = roles /\ grants' = grants /\ ctx' = ctx
        /\ \A p \in Request : req'[p] = IF p = q THEN w ELSE req[p]
    BY <2>1, DecideStep DEF Integrity
  <2> QED
    BY <2>1, <2>2 DEF Integrity, SystemRoles, RolesExist, Kept, exists, isRole
<1>2. ASSUME NEW q \in Request, NEW a \in User, resolveManagementContext(q, a)
      PROVE  Integrity'
  <2>1. TypeOK'
    BY <1>2, ActorStep DEF Integrity
  <2>2. \A p \in Request : ctx'[p] # None => ctx'[p].row.isActive = "yes"
    BY <1>2, ActorStep DEF Integrity
  <2> QED
    BY <1>2, <2>1, <2>2, ActorStep DEF Integrity, SystemRoles, RolesExist, Kept, exists, isRole
<1>3. ASSUME NEW q \in Request, Save(q)
      PROVE  Integrity'
  <2>1. TypeOK' /\ SystemRoles' /\ RolesExist'
    BY <1>3, SaveTypes, SaveSystemRoles, SaveRolesExist
  <2>2. ASSUME NEW p \in Request, req'[p] # None
        PROVE  Kept(req[p])'
    <3>1. req'[p] = req[p] /\ req[p] # None
      BY <1>3, <2>2, EndStep DEF Save, Integrity
    <3>2. req[p] \in Write /\ Kept(req[p])
      BY <3>1 DEF Integrity, TypeOK
    <3>3. req[p].kind = "patch" => users'[req[p].id] # NoUser
      BY <1>3, <3>2, SaveTypes, WriteKinds DEF Kept, exists
    <3> QED
      BY <3>1, <3>2, <3>3 DEF Kept, exists
  <2>3. \A p \in Request : ctx'[p] # None => ctx'[p].row.isActive = "yes"
    BY <1>3, EndStep DEF Save, Integrity
  <2> QED
    BY <2>1, <2>2, <2>3 DEF Integrity
<1>4. ASSUME NEW q \in Request, RequestFails(q)
      PROVE  Integrity'
  <2>1. TypeOK'
    BY <1>4 DEF RequestFails, End, Integrity, TypeOK
  <2>2. /\ \A p \in Request : req'[p] # None => req'[p] = req[p]
        /\ \A p \in Request : ctx'[p] # None => ctx'[p] = ctx[p]
    BY <1>4, EndStep DEF RequestFails, Integrity
  <2> QED
    BY <1>4, <2>1, <2>2 DEF RequestFails, Integrity, SystemRoles, RolesExist, Kept, exists, isRole
<1>5. CASE UNCHANGED vars
  BY <1>5 DEF vars, Integrity, TypeOK, SystemRoles, RolesExist, Kept, exists, isRole
<1> QED
  BY <1>1, <1>2, <1>3, <1>4, <1>5, CommandDecides DEF Next

(* The state of users, roles, permissions and pending writes is well typed, and the *)
(* integrity of the rows survives every interleaving of requests: the ADMIN role    *)
(* keeps its scope and all its permissions and DFSP_ADMIN its scope and its key,    *)
(* nobody has a role that does not exist, and a pending change of a user never      *)
(* finds the user gone (CreateUser, UpdateUser, DeactivateUser and role handlers).  *)
THEOREM IntegrityHolds == Spec => []Integrity
<1>1. Init => Integrity
  BY InitIntegrity
<1>2. Integrity /\ [Next]_vars => Integrity'
  BY NextIntegrity
<1> QED
  BY <1>1, <1>2, PTL DEF Spec

-----------------------------------------------------------------------------
(* Pending writes stay sound while other requests save. *)

(* A row that fitted when it was decided on fits when it is saved. *)
LEMMA StaysFit ==
  ASSUME Integrity, NEW q \in Request, Save(q), NEW row \in Row, FitsWhenSaved(row)
  PROVE  /\ roles'[row.role] # NoRole
         /\ isRole(row.role)' => ((roles'[row.role] = "HUB") <=> (row.fspId = NoFsp))
<1>1. row.role \in Role /\ roles[row.role] # NoRole
  BY DEF Row, FitsWhenSaved
<1>2. isRole(row.role)' => isRole(row.role) /\ roles'[row.role] = roles[row.role]
  BY <1>1, RolesMove
<1> QED
  BY <1>1, <1>2, RolesMove DEF FitsWhenSaved, scopeAllows

LEMMA SaveKeepsSound ==
  ASSUME OverlapInv, NEW q \in Request, Save(q), NEW p \in Request, req'[p] # None
  PROVE  Sound(req[p], ctx[p], lost[p])'
<1> DEFINE w == req[p]
           new == Merged(w.old, w)
<1>1. /\ Integrity /\ Sound(w, ctx[p], lost[p]) /\ w \in Write
      /\ req'[p] = w /\ ctx'[p] = ctx[p] /\ lost'[p] = lost[p] \cup Taken
  <2>1. p # q /\ req'[p] = w /\ ctx'[p] = ctx[p] /\ w # None
    BY EndStep DEF Save, OverlapInv, Integrity
  <2> QED
    BY <2>1 DEF Save, OverlapInv, Integrity, TypeOK
<1>2. w.kind = "insert" => FitsWhenSaved(w.row)'
  <2> SUFFICES ASSUME w.kind = "insert" PROVE FitsWhenSaved(w.row)'
    OBVIOUS
  <2>1. w.row \in Row /\ FitsWhenSaved(w.row)
    BY <1>1, WriteKinds DEF Sound
  <2> QED
    BY <1>1, <2>1, StaysFit DEF FitsWhenSaved, scopeAllows, isRole
<1> SUFFICES ASSUME w.kind = "patch"
             PROVE  /\ (w.role = Keep /\ w.fspId = Keep) \/ FitsWhenSaved(new)'
                    /\ \A f \in Fsp : Administers(w.old, f) /\ ~Administers(new, f) =>
                         f \in lost'[p] \/ \E u \in User \ {w.id} : Administers(users'[u], f)
  BY <1>1, <1>2 DEF Sound, Merged, Administrator, Administers
<1>3. new \in Row
  BY <1>1, WriteKinds, MergedRow
<1>4. (w.role = Keep /\ w.fspId = Keep) \/ FitsWhenSaved(new)'
  <2> SUFFICES ASSUME FitsWhenSaved(new) PROVE FitsWhenSaved(new)'
    BY <1>1 DEF Sound
  <2>1. PICK row : row = new
    OBVIOUS
  <2> QED
    BY <1>1, <1>3, StaysFit DEF FitsWhenSaved, scopeAllows, isRole, Merged
<1>5. ASSUME NEW f \in Fsp, Administers(w.old, f), ~Administers(new, f)
      PROVE  f \in lost'[p] \/ \E u \in User \ {w.id} : Administers(users'[u], f)
  <2>1. f \in lost[p] \/ \E u \in User \ {w.id} : Administers(users[u], f)
    BY <1>1, <1>5 DEF Sound
  <2> QED
    BY <1>1, <2>1 DEF Taken
<1> QED
  BY <1>4, <1>5

LEMMA InitOverlap == Init => OverlapInv
BY InitIntegrity DEF Init, OverlapInv

LEMMA NextOverlap ==
  ASSUME OverlapInv, [Next]_vars
  PROVE  OverlapInv'
<1>1. Integrity /\ Integrity'
  BY NextIntegrity DEF OverlapInv
<1>2. ASSUME NEW q \in Request, Decides(q)
      PROVE  OverlapInv'
  <2>1. PICK w \in Write : Sound(w, ctx[q], {}) /\ Decide(q, w)
    BY <1>2 DEF Decides
  <2>2. /\ users' = users /\ roles' = roles /\ ctx' = ctx
        /\ \A p \in Request : req'[p] = IF p = q THEN w ELSE req[p]
        /\ \A p \in Request : lost'[p] = IF p = q THEN {} ELSE lost[p]
    BY <1>1, <2>1, DecideStep DEF Integrity
  <2>3. ASSUME NEW p \in Request, req'[p] # None
        PROVE  Sound(req[p], ctx[p], lost[p])'
    BY <2>1, <2>2, <2>3 DEF OverlapInv, Sound, FitsWhenSaved, scopeAllows, isRole
  <2> QED
    BY <1>1, <2>3 DEF OverlapInv
<1>3. ASSUME NEW q \in Request, req[q] = None, NEW a \in User, resolveManagementContext(q, a)
      PROVE  OverlapInv'
  <2>1. ASSUME NEW p \in Request, req'[p] # None
        PROVE  Sound(req[p], ctx[p], lost[p])'
    <3>1. p # q /\ Sound(req[p], ctx[p], lost[p]) /\ ctx'[p] = ctx[p]
      BY <1>1, <1>3, <2>1, ActorStep DEF OverlapInv, Integrity
    <3> QED
      BY <1>1, <1>3, <3>1, ActorStep DEF Integrity, Sound, FitsWhenSaved, scopeAllows, isRole
  <2> QED
    BY <1>1, <2>1 DEF OverlapInv
<1>4. ASSUME NEW q \in Request, Save(q)
      PROVE  OverlapInv'
  BY <1>1, <1>4, SaveKeepsSound DEF OverlapInv
<1>5. ASSUME NEW q \in Request, RequestFails(q)
      PROVE  OverlapInv'
  <2>1. ASSUME NEW p \in Request, req'[p] # None
        PROVE  Sound(req[p], ctx[p], lost[p])'
    <3>1. p # q /\ req'[p] = req[p] /\ ctx'[p] = ctx[p]
      BY <1>1, <1>5, <2>1, EndStep DEF RequestFails, Integrity
    <3>2. lost'[p] = lost[p] /\ users' = users /\ roles' = roles
      BY <1>1, <1>5, <3>1 DEF RequestFails, Integrity, TypeOK
    <3> QED
      BY <2>1, <3>1, <3>2 DEF OverlapInv, Sound, FitsWhenSaved, scopeAllows, isRole
  <2> QED
    BY <1>1, <2>1 DEF OverlapInv
<1>6. CASE UNCHANGED vars
  BY <1>1, <1>6 DEF vars, OverlapInv, Sound, FitsWhenSaved, scopeAllows, isRole
<1> QED
  BY <1>1, <1>2, <1>3, <1>4, <1>5, <1>6, CommandDecides DEF Next

LEMMA OverlapHolds == Spec => []OverlapInv
<1>1. Init => OverlapInv
  BY InitOverlap
<1>2. OverlapInv /\ [Next]_vars => OverlapInv'
  BY NextOverlap
<1> QED
  BY <1>1, <1>2, PTL DEF Spec

-----------------------------------------------------------------------------
(* What a save does to the row of its user, when the row is still the one that was *)
(* read.                                                                           *)
LEMMA SaveUnmoved ==
  ASSUME OverlapInv, NEW q \in Request, Save(q)
  PROVE  LET w == req[q]
         IN /\ Saves(q) /\ w \in Write /\ Sound(w, ctx[q], lost[q]) /\ Accepted(w)
            /\ Integrity /\ Integrity'
            /\ \/ users' = users
               \/ /\ w.kind = "insert" /\ SaveUser(w) /\ users[w.id] = NoUser
               \/ /\ w.kind = "patch" /\ SaveUser(w)
                  /\ ~TargetMoved(q) => /\ users[w.id] = w.old
                                        /\ users'[w.id] = Merged(w.old, w)
<1> DEFINE w == req[q]
<1>1. Integrity /\ w \in Write /\ Sound(w, ctx[q], lost[q]) /\ Accepted(w) /\ req[q] # None
  BY SaveTypes DEF Save, OverlapInv
<1>2. Saves(q)
  BY <1>1, EndStep DEF Save, Saves, Integrity
<1>3. Integrity'
  BY <1>1, NextIntegrity DEF Next
<1>4. CASE SaveUser(w) /\ w.kind = "insert"
  BY <1>1, <1>2, <1>3, <1>4 DEF Accepted, exists
<1>5. CASE SaveUser(w) /\ w.kind = "patch"
  <2>1. ~TargetMoved(q) => users[w.id] = w.old
    BY <1>5 DEF TargetMoved
  <2>2. users'[w.id] = Merged(users[w.id], w)
    BY <1>1, <1>5, SavedRow
  <2> QED
    BY <1>1, <1>2, <1>3, <1>5, <2>1, <2>2
<1>6. CASE SaveRole(w) \/ SaveGrants(w)
  BY <1>1, <1>2, <1>3, <1>6 DEF SaveRole, SaveGrants
<1> QED
  BY <1>4, <1>5, <1>6 DEF Save, SaveUser

(* Only a save writes the rows of users. *)
LEMMA OnlySaves ==
  ASSUME OverlapInv, [Next]_vars, NEW S, \A q \in Request : Save(q) => S,
         users' = users /\ roles' = roles => S
  PROVE  S
<1>1. Integrity
  BY DEF OverlapInv
<1>2. ASSUME NEW q \in Request, UserCommand(q) \/ RoleCommand(q)
      PROVE  S
  <2>1. CASE Decides(q)
    BY <1>1, <2>1, DecideStep DEF Decides, Integrity
  <2>2. CASE \E a \in User : resolveManagementContext(q, a)
    BY <1>1, <2>2, ActorStep DEF Integrity
  <2> QED
    BY <1>1, <1>2, <2>1, <2>2, CommandDecides
<1>3. ASSUME NEW q \in Request, RequestFails(q)
      PROVE  S
  BY <1>3 DEF RequestFails
<1>4. CASE UNCHANGED vars
  BY <1>4 DEF vars
<1> QED
  BY <1>2, <1>3, <1>4 DEF Next

(* ScopeMatches for any users, roles and FSPs and any number of requests in flight: *)
(* only a patch of a user that another request has rewritten since it was read can  *)
(* leave an FSP that does not fit the role, or a role that does not exist.          *)
THEOREM ScopesMatch == Spec => ScopeMatches
<1>1. ASSUME OverlapInv, NEW q \in Request, Save(q), NEW u \in User, Fits(u)
      PROVE  Fits(u)' \/ (Saves(q) /\ TargetMoved(q) /\ req[q].id = u)
  <2> DEFINE w == req[q]
  <2>1. /\ Saves(q) /\ Integrity /\ w \in Write /\ Sound(w, ctx[q], lost[q]) /\ Accepted(w)
        /\ RolesExist'
    BY <1>1, SaveUnmoved DEF Integrity
  <2> SUFFICES ASSUME exists(u)', ~(TargetMoved(q) /\ w.id = u)
               PROVE  (roles'[users'[u].role] = "HUB") <=> (users'[u].fspId = NoFsp)
    BY <2>1 DEF Fits, RolesExist, exists, isRole
  <2>2. CASE users'[u] = users[u]
    <3>1. exists(u) /\ isRole(users[u].role) /\ scopeAllows(users[u].role, users[u].fspId)
      BY <1>1, <2>2 DEF exists, Fits, scopeAllows
    <3>2. users[u].role \in Role /\ roles[users[u].role] # NoRole
      BY <2>1, <3>1, ExistsIffRole, RoleStates DEF Integrity
    <3>3. roles'[users[u].role] = roles[users[u].role]
      BY <1>1, <2>1, <3>1, <3>2, RolesMove
    <3> QED
      BY <2>2, <3>1, <3>3 DEF scopeAllows
  <2>3. CASE users'[u] # users[u]
    <3>1. SaveUser(w)
      BY <1>1, <2>3 DEF Save, SaveRole, SaveGrants
    <3>2. u = w.id /\ roles' = roles
      BY <1>1, <2>1, <2>3, <3>1, SavedRow
    <3>3. isRole(users'[u].role)
      BY <2>1, <3>2 DEF RolesExist, isRole
    <3>4. CASE w.kind = "insert"
      <4>1. users'[u] = w.row
        BY <1>1, <2>1, <3>1, <3>2, <3>4, SavedRow
      <4> QED
        BY <2>1, <3>2, <3>3, <3>4, <4>1 DEF Sound, FitsWhenSaved, scopeAllows
    <3>5. CASE w.kind = "patch"
      <4>1. users[u] = w.old /\ users'[u] = Merged(w.old, w)
        BY <1>1, <2>1, <3>1, <3>2, <3>5, SaveUnmoved, SavedRow DEF TargetMoved
      <4>2. CASE FitsWhenSaved(Merged(w.old, w))
        BY <3>2, <3>3, <4>1, <4>2 DEF FitsWhenSaved, scopeAllows
      <4>3. CASE w.role = Keep /\ w.fspId = Keep
        <5>1. users'[u].role = users[u].role /\ users'[u].fspId = users[u].fspId
          BY <4>1, <4>3 DEF Merged
        <5>2. exists(u)
          <6>1. users[u] \in Row
            BY <2>1, <3>5, <4>1, WriteKinds
          <6> QED
            BY <2>1, <6>1, ExistsIffRole DEF Integrity
        <5> QED
          BY <1>1, <3>2, <5>1, <5>2 DEF Fits, scopeAllows
      <4> QED
        BY <2>1, <3>5, <4>2, <4>3 DEF Sound
    <3> QED
      BY <3>1, <3>4, <3>5 DEF SaveUser
  <2> QED
    BY <2>2, <2>3
<1>2. ASSUME OverlapInv, [Next]_vars
      PROVE  [\A u \in User : Fits(u) =>
                Fits(u)' \/ \E q \in Request : Saves(q) /\ TargetMoved(q) /\ req[q].id = u]_vars
  <2> SUFFICES ASSUME NEW u \in User, Fits(u)
               PROVE  Fits(u)' \/ \E q \in Request : Saves(q) /\ TargetMoved(q) /\ req[q].id = u
    OBVIOUS
  <2> DEFINE S == Fits(u)' \/ \E q \in Request : Saves(q) /\ TargetMoved(q) /\ req[q].id = u
  <2>1. \A q \in Request : Save(q) => S
    BY <1>1, <1>2
  <2>2. users' = users /\ roles' = roles => S
    BY DEF Fits, exists, isRole, scopeAllows
  <2> HIDE DEF S
  <2>3. S
    BY <1>2, <2>1, <2>2, OnlySaves
  <2> QED
    BY <2>3 DEF S
<1> QED
  BY <1>2, OverlapHolds, PTL DEF Spec, ScopeMatches

(* ManagerRemains for any users, roles and FSPs and any number of requests in       *)
(* flight: the last active ADMIN is only lost to a save whose actor or target is no *)
(* longer what was read.                                                            *)
THEOREM ManagerStays == Spec => ManagerRemains
<1>1. ASSUME OverlapInv, NEW q \in Request, Save(q), Manager, ~ActorMoved(q), ~TargetMoved(q)
      PROVE  \E u \in User : Administrator(users'[u])
  <2> DEFINE w == req[q]
  <2>1. PICK v \in User : Administrator(users[v])
    BY <1>1 DEF Manager
  <2>2. w \in Write /\ Sound(w, ctx[q], lost[q]) /\ Integrity
    BY <1>1, SaveUnmoved
  <2>3. CASE users' = users
    BY <2>1, <2>3
  <2>4. CASE w.kind = "insert" /\ SaveUser(w) /\ users[w.id] = NoUser
    <3>1. v # w.id
      BY <2>1, <2>4 DEF Administrator, NoUser
    <3>2. users'[v] = users[v]
      BY <1>1, <2>2, <2>4, <3>1, SavedRow
    <3> QED
      BY <2>1, <3>2
  <2>5. CASE w.kind = "patch" /\ SaveUser(w)
    <3> DEFINE new == Merged(w.old, w)
    <3>1. w.id \in User /\ users[w.id] = w.old
      BY <1>1, <2>2, <2>5, WriteKinds DEF TargetMoved
    <3>2. users'[w.id] = new
      BY <1>1, <2>2, <2>5, <3>1, SavedRow
    <3>3. \A u \in User \ {w.id} : users'[u] = users[u]
      BY <1>1, <2>2, <2>5, SavedRow
    <3>4. CASE v # w.id
      BY <2>1, <3>3, <3>4
    <3>5. CASE v = w.id /\ Administrator(new)
      BY <3>1, <3>2, <3>5
    <3>6. CASE v = w.id /\ ~Administrator(new)
      <4>1. ctx[q] # None /\ ctx[q].actor # w.id /\ Administrator(ctx[q].row)
        BY <2>1, <2>2, <2>5, <3>1, <3>6 DEF Sound
      <4>2. ctx[q].actor \in User /\ users[ctx[q].actor] = ctx[q].row
        BY <1>1, <2>2, <4>1 DEF ActorMoved, Integrity, TypeOK, Context
      <4> QED
        BY <3>3, <4>1, <4>2
    <3> QED
      BY <3>4, <3>5, <3>6
  <2> QED
    BY <1>1, <2>3, <2>4, <2>5, SaveUnmoved
<1>2. ASSUME OverlapInv, [Next]_vars
      PROVE  [Manager => Manager' \/ \E q \in Request :
                Saves(q) /\ (ActorMoved(q) \/ TargetMoved(q))]_vars
  <2> SUFFICES ASSUME Manager
               PROVE  Manager' \/ \E q \in Request : Saves(q) /\ (ActorMoved(q) \/ TargetMoved(q))
    OBVIOUS
  <2> DEFINE S == Manager' \/ \E q \in Request : Saves(q) /\ (ActorMoved(q) \/ TargetMoved(q))
  <2>1. "admin.users.manage" \in grants'["ADMIN"]
    BY <1>2, NextIntegrity DEF OverlapInv, Integrity, SystemRoles, Permission
  <2>2. ASSUME NEW q \in Request, Save(q)
        PROVE  S
    <3>1. Saves(q)
      BY <1>2, <2>2, SaveUnmoved
    <3> QED
      BY <1>1, <1>2, <2>1, <2>2, <3>1 DEF Manager
  <2>3. users' = users /\ roles' = roles => S
    BY <2>1 DEF Manager
  <2> HIDE DEF S
  <2>4. S
    BY <1>2, <2>2, <2>3, OnlySaves
  <2> QED
    BY <2>4 DEF S
<1> QED
  BY <1>2, OverlapHolds, PTL DEF Spec, ManagerRemains

(* FspManagerRemains for any users, roles and FSPs and any number of requests in    *)
(* flight: an FSP loses its last active administrator only to a save that another   *)
(* one has overtaken, which took an administrator of the same FSP away after the    *)
(* others were counted, or rewrote the target.                                      *)
THEOREM FspManagerStays == Spec => FspManagerRemains
<1>1. ASSUME OverlapInv, NEW q \in Request, Save(q), ~TargetMoved(q),
             NEW f \in Fsp, FspManager(f), f \notin lost[q]
      PROVE  \E u \in User : Administers(users'[u], f)
  <2> DEFINE w == req[q]
  <2>1. PICK v \in User : Administers(users[v], f)
    BY <1>1 DEF FspManager
  <2>2. w \in Write /\ Sound(w, ctx[q], lost[q]) /\ Integrity
    BY <1>1, SaveUnmoved
  <2>3. CASE users' = users
    BY <2>1, <2>3
  <2>4. CASE w.kind = "insert" /\ SaveUser(w) /\ users[w.id] = NoUser
    <3>1. v # w.id
      BY <2>1, <2>4 DEF Administers, NoUser
    <3>2. users'[v] = users[v]
      BY <1>1, <2>2, <2>4, <3>1, SavedRow
    <3> QED
      BY <2>1, <3>2
  <2>5. CASE w.kind = "patch" /\ SaveUser(w)
    <3> DEFINE new == Merged(w.old, w)
    <3>1. w.id \in User /\ users[w.id] = w.old
      BY <1>1, <2>2, <2>5, WriteKinds DEF TargetMoved
    <3>2. users'[w.id] = new
      BY <1>1, <2>2, <2>5, <3>1, SavedRow
    <3>3. \A u \in User \ {w.id} : users'[u] = users[u]
      BY <1>1, <2>2, <2>5, SavedRow
    <3>4. CASE v # w.id
      BY <2>1, <3>3, <3>4
    <3>5. CASE v = w.id /\ Administers(new, f)
      BY <3>1, <3>2, <3>5
    <3>6. CASE v = w.id /\ ~Administers(new, f)
      <4>1. \E u \in User \ {w.id} : Administers(users[u], f)
        BY <1>1, <2>1, <2>2, <2>5, <3>1, <3>6 DEF Sound
      <4> QED
        BY <3>3, <4>1
    <3> QED
      BY <3>4, <3>5, <3>6
  <2> QED
    BY <1>1, <2>3, <2>4, <2>5, SaveUnmoved
<1>2. ASSUME OverlapInv, [Next]_vars
      PROVE  [\A f \in Fsp : FspManager(f) =>
                \/ FspManager(f)'
                \/ \E q \in Request : Saves(q) /\ (f \in lost[q] \/ TargetMoved(q))]_vars
  <2> SUFFICES ASSUME NEW f \in Fsp, FspManager(f)
               PROVE  \/ FspManager(f)'
                      \/ \E q \in Request : Saves(q) /\ (f \in lost[q] \/ TargetMoved(q))
    OBVIOUS
  <2> DEFINE S == \/ FspManager(f)'
                  \/ \E q \in Request : Saves(q) /\ (f \in lost[q] \/ TargetMoved(q))
  <2>1. "admin.dfsp-users.manage" \in grants'["DFSP_ADMIN"]
    BY <1>2, NextIntegrity DEF OverlapInv, Integrity, SystemRoles
  <2>2. ASSUME NEW q \in Request, Save(q)
        PROVE  S
    <3>1. Saves(q)
      BY <1>2, <2>2, SaveUnmoved
    <3> QED
      BY <1>1, <1>2, <2>1, <2>2, <3>1 DEF FspManager
  <2>3. users' = users /\ roles' = roles => S
    BY <2>1 DEF FspManager
  <2> HIDE DEF S
  <2>4. S
    BY <1>2, <2>2, <2>3, OnlySaves
  <2> QED
    BY <2>4 DEF S
<1> QED
  BY <1>2, OverlapHolds, PTL DEF Spec, FspManagerRemains
============================================================================
