------------------------------- MODULE Access -------------------------------
(***************************************************************************)
(* Who may do what: the tenants, their users and custom roles, the invites *)
(* that bring users in, and the requests that change them.  A request      *)
(* reads -- the caller's permissions, whether the identity is taken,       *)
(* whether a role may be handed out, whether an invite is still open -- in *)
(* transactions of their own and writes in a later one, so what it read    *)
(* may be stale by then.  Only a change of a user's roles takes a lock.    *)
(*                                                                         *)
(* Permissions are abstracted to four groups of the catalogue; a request   *)
(* that is refused leaves no trace and simply ends.                        *)
(***************************************************************************)
EXTENDS Naturals, FiniteSets

CONSTANTS
    Tenants, Users, Roles, Invites, \* ids the database may hand out
    Subjects,       \* identities of the identity provider
    Requests,       \* requests the servers work on at a time
    RoleLists,      \* the lists of roles requests ask for
    PermissionLists,\* the permissions custom roles are given
    None            \* none of the above

VARIABLES
    tenants,    \* the tenants that are there
    users,      \* the row of each user
    roles,      \* the row of each custom role
    invites,    \* the row of each invite
    lock,       \* the advisory lock user_roles:<tenant>, and who holds it
    request,    \* what each request is doing
    joined,     \* history: how many users came by each invite
    raced       \* history: invites accepted by overlapping or dead requests

vars == <<tenants, users, roles, invites, lock, request, joined, raced>>
histories == <<joined, raced>>

-----------------------------------------------------------------------------
(* The catalogue.                                                          *)

(* ADMIN_ONLY, the bookkeeping rights, the cashier's, and those to look. *)
Permissions == {"admin", "books", "till", "view"}

SystemRoles == {"OWNER", "ACCOUNTANT", "CASHIER", "VIEWER", "AGENT"}

SystemPermissions(key) ==
    CASE key = "OWNER" -> Permissions
      [] key = "ACCOUNTANT" -> Permissions \ {"admin"}
      [] key \in {"CASHIER", "AGENT"} -> {"till"}
      [] key = "VIEWER" -> {"view"}

-----------------------------------------------------------------------------
(* The tables.                                                             *)

Role == [tenant : Tenants, permissions : SUBSET Permissions, active : BOOLEAN]

(* Nothing in the code makes a user inactive. *)
User == [tenant : Tenants, subject : Subjects,
         roles : SUBSET (SystemRoles \cup Roles)]

Invite == [tenant : Tenants, role : SystemRoles \cup Roles,
           status : {"PENDING", "ACCEPTED"}, expired : BOOLEAN]

ASSUME AccessAssumption ==
    /\ None \notin Tenants \cup Users \cup Roles \cup Invites \cup Subjects \cup Requests
    /\ None \notin User /\ None \notin Role /\ None \notin Invite
    /\ Roles \cap SystemRoles = {}
    /\ RoleLists \subseteq SUBSET (SystemRoles \cup Roles)
    /\ PermissionLists \subseteq SUBSET Permissions

Known == {u \in Users : users[u] # None}
UsersOf(t) == {u \in Known : users[u].tenant = t}
RolesOf(t) == {r \in Roles : roles[r] # None /\ roles[r].tenant = t}

(* Requests: kind and step, the tenant of the caller and what it asks for. *)
Request ==
    [pc : {"idle", "existing", "assignable", "write", "lock", "count",
           "replace", "mark"},
     kind : {"onboard", "createUser", "setUserRoles", "createInvite", "acceptInvite", "role", "none"},
     tenant : Tenants \cup {None}, subject : Subjects \cup {None},
     user : Users \cup {None}, roles : SUBSET (SystemRoles \cup Roles),
     invite : Invites \cup {None}]

Idle == [pc |-> "idle", kind |-> "none", tenant |-> None, subject |-> None,
         user |-> None, roles |-> {}, invite |-> None]

At(q, kind, pc) == request[q].kind = kind /\ request[q].pc = pc
Goto(q, pc) == request' = [request EXCEPT ![q].pc = pc]
Return(q) == request' = [request EXCEPT ![q] = Idle]

-----------------------------------------------------------------------------
(* What the services read.                                                 *)

(* assignmentView: a role as it counts for its holder; inactive, it grants *)
(* nothing.                                                                *)
Granted(r) ==
    IF r \in SystemRoles THEN SystemPermissions(r)
    ELSE IF roles[r].active THEN roles[r].permissions ELSE {}

EffectivePermissions(u) == UNION {Granted(r) : r \in users[u].roles}

Admins == {u \in Known : "admin" \in EffectivePermissions(u)}

(* Mutant: every tenant's roles are looked up. *)
AssignableAnywhere(t, refs) == \A r \in refs \cap Roles : roles[r] # None /\ roles[r].active

(* assertAssignable: built in, or there and active. *)
Assignable(t, refs) == \A r \in refs \cap Roles : r \in RolesOf(t) /\ roles[r].active

(* insertAssignments: the custom roles are there, under the tenant's RLS. *)
Insertable(t, refs) == refs \cap Roles \subseteq RolesOf(t)

OwnersIn(table, t) == {u \in Users : table[u] # None /\ table[u].tenant = t /\ "OWNER" \in table[u].roles}
Owners(t) == OwnersIn(users, t)

(* findUserByExternalIdpSubject, across all tenants. *)
Taken(s) == \E u \in Known : users[u].subject = s

(* Mutant: users.external_idp_subject is indexed, but not unique. *)
NeverTaken(s) == FALSE

(* The unique index on users.external_idp_subject, inside the insert. *)
UniqueViolation(s) == \E u \in Known : users[u].subject = s

-----------------------------------------------------------------------------
(* requirePermission: the caller's permissions are loaded once, and still  *)
(* count when the request writes.                                          *)
Authorised(kind, pc, t, refs) ==
    [Idle EXCEPT !.kind = kind, !.pc = pc, !.tenant = t, !.roles = refs]

Authorise(q) ==
    \E a \in Admins, refs \in RoleLists :
        LET t == users[a].tenant
        IN  /\ request[q] = Idle
            /\ \/ \E s \in Subjects : request' = [request EXCEPT
                      ![q] = [Authorised("createUser", "existing", t, refs) EXCEPT !.subject = s]]
               \/ \E v \in UsersOf(t) : request' = [request EXCEPT
                      ![q] = [Authorised("setUserRoles", "assignable", t, refs) EXCEPT !.user = v]]
               \/ /\ Cardinality(refs) = 1
                  /\ request' = [request EXCEPT
                        ![q] = Authorised("createInvite", "assignable", t, refs)]
               \/ request' = [request EXCEPT ![q] = Authorised("role", "write", t, {})]
            /\ UNCHANGED <<tenants, users, roles, invites, lock>> /\ UNCHANGED histories

(* POST /onboarding: whoever signed in. *)
BeginOnboarding(q) ==
    \E s \in Subjects :
        /\ request[q] = Idle
        /\ request' = [request EXCEPT ![q] =
              [Idle EXCEPT !.kind = "onboard", !.pc = "existing", !.subject = s]]
        /\ UNCHANGED <<tenants, users, roles, invites, lock>> /\ UNCHANGED histories

(* Requests that are past the status check of acceptInvite. *)
Accepting(i) == {q \in Requests : request[q].kind = "acceptInvite" /\ request[q].invite = i}

(* Mutant: acceptInvite does not look at the status. *)
BeginAcceptingAny(q) ==
    \E i \in Invites, s \in Subjects :
        /\ request[q] = Idle
        /\ invites[i] # None
        /\ raced' = IF Accepting(i) = {} THEN raced ELSE raced \cup {i}
        /\ request' = [request EXCEPT ![q] =
              [Idle EXCEPT !.kind = "acceptInvite", !.pc = "existing", !.subject = s,
                           !.invite = i, !.tenant = invites[i].tenant, !.roles = {invites[i].role}]]
        /\ UNCHANGED <<tenants, users, roles, invites, lock, joined>>

(* acceptInvite reads the invite; it must be open and not expired. *)
BeginAccepting(q) ==
    \E i \in Invites, s \in Subjects :
        /\ request[q] = Idle
        /\ invites[i] # None /\ invites[i].status = "PENDING" /\ ~invites[i].expired
        /\ raced' = IF Accepting(i) = {} THEN raced ELSE raced \cup {i}
        /\ request' = [request EXCEPT ![q] =
              [Idle EXCEPT !.kind = "acceptInvite", !.pc = "existing", !.subject = s,
                           !.invite = i, !.tenant = invites[i].tenant, !.roles = {invites[i].role}]]
        /\ UNCHANGED <<tenants, users, roles, invites, lock, joined>>

(* findUserByExternalIdpSubject, for all three ways in. *)
FindExisting(q) ==
    /\ request[q].pc = "existing"
    /\ IF Taken(request[q].subject) THEN Return(q)
       ELSE Goto(q, IF request[q].kind = "createUser" THEN "assignable" ELSE "write")
    /\ UNCHANGED <<tenants, users, roles, invites, lock>> /\ UNCHANGED histories

CheckAssignable(q) ==
    /\ request[q].pc = "assignable"
    /\ IF Assignable(request[q].tenant, request[q].roles)
       THEN Goto(q, IF request[q].kind = "setUserRoles" THEN "lock" ELSE "write")
       ELSE Return(q)
    /\ UNCHANGED <<tenants, users, roles, invites, lock>> /\ UNCHANGED histories

-----------------------------------------------------------------------------
(* New users.                                                              *)

UserRow(q, t, refs) ==
    [tenant |-> t, subject |-> request[q].subject, roles |-> refs]

(* onboardTenant: tenant, founder and OWNER in one transaction. *)
OnboardTenant(q) ==
    /\ At(q, "onboard", "write")
    /\ IF UniqueViolation(request[q].subject)
       THEN Return(q) /\ UNCHANGED <<tenants, users>>
       ELSE \E t \in Tenants \ tenants, u \in Users \ Known :
               /\ tenants' = tenants \cup {t}
               /\ users' = [users EXCEPT ![u] = UserRow(q, t, {"OWNER"})]
               /\ Return(q)
    /\ UNCHANGED <<roles, invites, lock>> /\ UNCHANGED histories

(* createUser and createUserSelfAttributed: the row and its roles. *)
InsertUser(q) ==
    IF UniqueViolation(request[q].subject) \/ ~Insertable(request[q].tenant, request[q].roles)
    THEN UNCHANGED users
    ELSE \E u \in Users \ Known :
            users' = [users EXCEPT ![u] = UserRow(q, request[q].tenant, request[q].roles)]

CreateUser(q) ==
    /\ At(q, "createUser", "write")
    /\ InsertUser(q)
    /\ Return(q)
    /\ UNCHANGED <<tenants, roles, invites, lock>> /\ UNCHANGED histories

CreateUserFromInvite(q) ==
    /\ At(q, "acceptInvite", "write")
    /\ InsertUser(q)
    /\ IF users' = users
       THEN Return(q) /\ UNCHANGED joined
       ELSE Goto(q, "mark") /\ joined' = [joined EXCEPT ![request[q].invite] = @ + 1]
    /\ UNCHANGED <<tenants, roles, invites, lock, raced>>

(* markInviteAccepted: whatever became of the invite meanwhile. *)
MarkInviteAccepted(q) ==
    /\ At(q, "acceptInvite", "mark")
    /\ invites' = [invites EXCEPT ![request[q].invite].status = "ACCEPTED"]
    /\ Return(q)
    /\ UNCHANGED <<tenants, users, roles, lock>> /\ UNCHANGED histories

NewInvite(t, r) == [tenant |-> t, role |-> r, status |-> "PENDING", expired |-> FALSE]

CreateInvite(q) ==
    /\ At(q, "createInvite", "write")
    /\ \E i \in Invites, r \in request[q].roles :
          /\ invites[i] = None
          /\ invites' = [invites EXCEPT ![i] = NewInvite(request[q].tenant, r)]
    /\ Return(q)
    /\ UNCHANGED <<tenants, users, roles, lock>> /\ UNCHANGED histories

(* INVITE_EXPIRY_DAYS have passed. *)
Expire(i) ==
    /\ invites[i] # None /\ invites[i].status = "PENDING" /\ ~invites[i].expired
    /\ invites' = [invites EXCEPT ![i].expired = TRUE]
    /\ UNCHANGED <<tenants, users, roles, lock, request>> /\ UNCHANGED histories

-----------------------------------------------------------------------------
(* Custom roles.                                                           *)

CreateRole(q) ==
    /\ At(q, "role", "write")
    /\ \E r \in Roles, p \in PermissionLists :
          /\ roles[r] = None
          /\ roles' = [roles EXCEPT ![r] = [tenant |-> request[q].tenant, permissions |-> p,
                                            active |-> TRUE]]
    /\ Return(q)
    /\ UNCHANGED <<tenants, users, invites, lock>> /\ UNCHANGED histories

(* updateRole and setRoleActive, of a role of the caller's tenant. *)
UpdateRole(q) ==
    /\ At(q, "role", "write")
    /\ \E r \in RolesOf(request[q].tenant), p \in PermissionLists, active \in BOOLEAN :
          roles' = [roles EXCEPT ![r].permissions = p, ![r].active = active]
    /\ UNCHANGED <<tenants, users, invites, lock>> /\ UNCHANGED histories
    /\ Return(q)

-----------------------------------------------------------------------------
(* replaceAssignments: one transaction, whose statements see what others   *)
(* commit in between.                                                      *)

(* Mutant: no advisory lock. *)
LockRolesNever(q) ==
    /\ At(q, "setUserRoles", "lock")
    /\ Goto(q, "count")
    /\ UNCHANGED <<tenants, users, roles, invites, lock>> /\ UNCHANGED histories

LockRoles(q) ==
    /\ At(q, "setUserRoles", "lock")
    /\ lock[request[q].tenant] = None
    /\ lock' = [lock EXCEPT ![request[q].tenant] = q]
    /\ Goto(q, "count")
    /\ UNCHANGED <<tenants, users, roles, invites>> /\ UNCHANGED histories

(* The table as the transaction sees it after its DELETE and INSERTs. *)
Replaced(q) == [users EXCEPT ![request[q].user].roles = request[q].roles]

Unlocked(q) == [t \in Tenants |-> IF lock[t] = q THEN None ELSE lock[t]]

(* DELETE, INSERT and the count of owners; a refusal rolls back. *)
CountOwners(q) ==
    /\ At(q, "setUserRoles", "count")
    /\ IF /\ Insertable(request[q].tenant, request[q].roles)
          /\ OwnersIn(Replaced(q), request[q].tenant) # {}
       THEN Goto(q, "replace") /\ UNCHANGED lock
       ELSE Return(q) /\ lock' = Unlocked(q)
    /\ UNCHANGED <<tenants, users, roles, invites>> /\ UNCHANGED histories

(* COMMIT. *)
CommitRoles(q) ==
    /\ At(q, "setUserRoles", "replace")
    /\ users' = Replaced(q)
    /\ lock' = Unlocked(q)
    /\ UNCHANGED <<tenants, roles, invites>> /\ UNCHANGED histories
    /\ Return(q)

-----------------------------------------------------------------------------
(* A server dies: the transaction under way is rolled back. *)
Die(q) ==
    /\ request[q] # Idle
    /\ raced' = IF At(q, "acceptInvite", "mark") THEN raced \cup {request[q].invite} ELSE raced
    /\ lock' = Unlocked(q)
    /\ Return(q)
    /\ UNCHANGED <<tenants, users, roles, invites, joined>>

Init ==
    /\ tenants = {}
    /\ users = [u \in Users |-> None]
    /\ roles = [r \in Roles |-> None]
    /\ invites = [i \in Invites |-> None]
    /\ lock = [t \in Tenants |-> None]
    /\ request = [q \in Requests |-> Idle]
    /\ joined = [i \in Invites |-> 0]
    /\ raced = {}

Next ==
    \/ \E q \in Requests :
          \/ Authorise(q) \/ BeginOnboarding(q) \/ BeginAccepting(q)
          \/ FindExisting(q) \/ CheckAssignable(q)
          \/ OnboardTenant(q) \/ CreateUser(q) \/ CreateUserFromInvite(q) \/ MarkInviteAccepted(q)
          \/ CreateInvite(q) \/ CreateRole(q) \/ UpdateRole(q)
          \/ LockRoles(q) \/ CountOwners(q) \/ CommitRoles(q) \/ Die(q)
    \/ \E i \in Invites : Expire(i)

Spec == Init /\ [][Next]_vars

-----------------------------------------------------------------------------
(* The tables hold rows of their types and requests what their step needs. *)
TypeOK ==
    /\ tenants \subseteq Tenants
    /\ users \in [Users -> User \cup {None}]
    /\ roles \in [Roles -> Role \cup {None}]
    /\ invites \in [Invites -> Invite \cup {None}]
    /\ lock \in [Tenants -> Requests \cup {None}]
    /\ request \in [Requests -> Request]
    /\ joined \in [Invites -> Nat]
    /\ raced \subseteq Invites

(* A tenant has an owner from its first moment on, its onboarding finished *)
(* or not: whatever owners do to each other's roles at the same time,      *)
(* somebody is left who can repair it (LAST_OWNER in roles/repository.ts). *)
EveryTenantHasOwner == \A t \in tenants : Owners(t) # {}

(* One identity has one account, in one tenant, for ever -- onboarding,    *)
(* provisioning and invites racing for it or repeated after a crash        *)
(* (invites/service.ts:137).                                               *)
OneAccountPerIdentity ==
    \A u, v \in Known : users[u].subject = users[v].subject => u = v

(* Nobody holds, or is promised, a custom role of another tenant           *)
(* (roles/repository.ts:158: "a foreign key alone would accept another     *)
(* tenant's role id").                                                     *)
RolesStayInTenant ==
    /\ \A u \in Known : users[u].roles \cap Roles \subseteq RolesOf(users[u].tenant)
    /\ \A i \in Invites : invites[i] # None =>
          {invites[i].role} \cap Roles \subseteq RolesOf(invites[i].tenant)

(* An invite brings in one user, unless two acceptances overlapped or one  *)
(* died between its two transactions (invites/service.ts:147-155).         *)
InviteReusedOnlyInARace ==
    \A i \in Invites \ raced : joined[i] <= 1
=============================================================================
