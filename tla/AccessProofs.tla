---------------------------- MODULE AccessProofs ----------------------------
(***************************************************************************)
(* Proofs about Access, for any number of tenants, users, roles, invites   *)
(* and concurrent requests.  The inductive invariant is IInv: besides the  *)
(* properties it says what each request still knows at its step, above all *)
(* that the owner it counted cannot go away before it commits, because it  *)
(* holds the lock under which alone somebody stops being an owner.         *)
(***************************************************************************)
EXTENDS Access, TLAPS

(* What request q knows at its step of the rows it read before. *)
Knows(q) ==
    LET r == request[q]
    IN  /\ r.pc = "existing" => r.kind \in {"createUser", "onboard", "acceptInvite"}
        /\ r.pc = "assignable" => r.kind \in {"createUser", "setUserRoles", "createInvite"}
        /\ r.pc \in {"lock", "count", "replace"} => r.kind = "setUserRoles"
        /\ r.kind \in {"createUser", "onboard", "acceptInvite"} => r.subject \in Subjects
        /\ r.kind \in {"createUser", "setUserRoles", "createInvite", "role", "acceptInvite"}
              => r.tenant \in Tenants
        /\ r.kind = "setUserRoles" =>
              r.user \in Known /\ users[r.user].tenant = r.tenant
        /\ r.kind = "createInvite" /\ r.pc = "write" => Insertable(r.tenant, r.roles)
        /\ r.kind = "acceptInvite" => r.invite \in Invites /\ invites[r.invite] # None
        /\ r.pc \in {"count", "replace"} => lock[r.tenant] = q
        /\ r.pc = "replace" =>
              Insertable(r.tenant, r.roles) /\ OwnersIn(Replaced(q), r.tenant) # {}

RequestsKnow == \A q \in Requests : Knows(q)

(* Until acceptances of an invite overlap or die, there is one at a time,  *)
(* and the invite is marked once its user is there and it has returned.    *)
OneAcceptance(i) ==
    /\ \A p, q \in Accepting(i) : p = q
    /\ joined[i] = 0 \/ joined[i] = 1
    /\ joined[i] = 1 =>
          /\ invites[i] # None
          /\ invites[i].status = "PENDING" => Accepting(i) # {}
          /\ \A q \in Accepting(i) : request[q].pc = "mark"

Acceptances == \A i \in Invites \ raced : OneAcceptance(i)

IInv ==
    /\ TypeOK
    /\ RequestsKnow
    /\ EveryTenantHasOwner
    /\ OneAccountPerIdentity
    /\ RolesStayInTenant
    /\ Acceptances

USE AccessAssumption

-----------------------------------------------------------------------------
(* What a step of request p leaves to the others.                          *)

Kept(p) ==
    /\ \A u \in Known : /\ users'[u] # None
                        /\ users'[u].tenant = users[u].tenant
                        /\ users'[u] = users[u] \/ lock[users[u].tenant] = p
    /\ \A t \in Tenants : RolesOf(t) \subseteq RolesOf(t)'
    /\ \A i \in Invites : invites[i] # None => invites'[i] # None
    /\ \A t \in Tenants : lock[t] # None /\ lock[t] # p => lock'[t] = lock[t]

(* The owner a request counted is still one after a step of another.       *)
LEMMA OwnerKept ==
  ASSUME NEW p \in Requests, NEW q \in Requests, q # p, IInv, TypeOK', Kept(p),
         request'[q] = request[q], request[q].pc = "replace"
  PROVE  OwnersIn(Replaced(q), request[q].tenant)' # {}
<1> DEFINE r == request[q]
<1>1. /\ r.kind = "setUserRoles" /\ r.tenant \in Tenants /\ lock[r.tenant] = q
      /\ r.user \in Known /\ users[r.user].tenant = r.tenant
      /\ OwnersIn(Replaced(q), r.tenant) # {}
  BY DEF IInv, RequestsKnow, Knows
<1>2. PICK o \in Users : /\ Replaced(q)[o] # None /\ Replaced(q)[o].tenant = r.tenant
                         /\ "OWNER" \in Replaced(q)[o].roles
  BY <1>1 DEF OwnersIn
<1>3. o \in Known /\ users[o].tenant = r.tenant
  BY <1>1, <1>2 DEF Replaced, Known, IInv, TypeOK, User
<1>4. users'[o] = users[o] /\ users'[r.user] = users[r.user]
  BY <1>1, <1>3 DEF Kept
<1>5. Replaced(q)'[o] = Replaced(q)[o]
  BY <1>4, <1>1 DEF Replaced, IInv, TypeOK
<1> QED
  BY <1>2, <1>5 DEF OwnersIn

(* What a request knows it goes on knowing while another takes a step.     *)
LEMMA KnowsKept ==
  ASSUME NEW p \in Requests, NEW q \in Requests, q # p, IInv, TypeOK', Kept(p),
         request'[q] = request[q]
  PROVE  Knows(q)'
<1>1. Knows(q)
  BY DEF IInv, RequestsKnow
<1>2. request[q].pc = "replace" => OwnersIn(Replaced(q), request[q].tenant)' # {}
  BY OwnerKept
<1>3. request[q].tenant \in Tenants => RolesOf(request[q].tenant) \subseteq RolesOf(request[q].tenant)'
  BY DEF Kept
<1>4. request[q].kind = "setUserRoles" =>
         request[q].user \in Known' /\ users'[request[q].user].tenant = request[q].tenant
  BY <1>1 DEF Knows, Kept, Known
<1>5. request[q].pc \in {"count", "replace"} => lock'[request[q].tenant] = q
  BY <1>1 DEF Knows, Kept
<1> QED
  BY <1>1, <1>2, <1>3, <1>4, <1>5 DEF Knows, Insertable, Kept

LEMMA OthersKnow ==
  ASSUME NEW p \in Requests, IInv, TypeOK', Kept(p), Knows(p)',
         \A q \in Requests \ {p} : request'[q] = request[q]
  PROVE  RequestsKnow'
<1> SUFFICES ASSUME NEW q \in Requests PROVE Knows(q)'
  BY DEF RequestsKnow
<1> QED
  BY KnowsKept

(* An idle request knows nothing. *)
LEMMA IdleKnows ==
  ASSUME NEW q \in Requests, request'[q] = Idle
  PROVE  Knows(q)'
  BY DEF Knows, Idle

-----------------------------------------------------------------------------
THEOREM InitInv == Init => IInv
  BY DEF Init, IInv, TypeOK, RequestsKnow, Knows, EveryTenantHasOwner, OneAccountPerIdentity,
         RolesStayInTenant, Acceptances, OneAcceptance, Accepting, Known, Idle, Request

-----------------------------------------------------------------------------
(* The parts of the invariant that a step leaves alone.                    *)

LEMMA TablesKept ==
  ASSUME IInv, UNCHANGED <<tenants, users, roles, invites>>
  PROVE  EveryTenantHasOwner' /\ OneAccountPerIdentity' /\ RolesStayInTenant'
  BY DEF IInv, EveryTenantHasOwner, OneAccountPerIdentity, RolesStayInTenant,
         Owners, OwnersIn, Known, RolesOf

(* A step that neither begins an acceptance nor adds a user by one.        *)
LEMMA AcceptancesKept ==
  ASSUME IInv, joined' = joined, raced \subseteq raced',
         \A i \in Invites : invites[i] # None =>
            invites'[i] # None /\ (invites'[i].status = "PENDING" => invites[i].status = "PENDING"),
         \A q \in Requests : request'[q].kind = "acceptInvite" =>
            /\ request[q].kind = "acceptInvite" /\ request'[q].invite = request[q].invite
            /\ request[q].pc = "mark" => request'[q].pc = "mark",
         \A q \in Requests :
            request[q].kind = "acceptInvite" /\ request[q].pc = "mark" /\ request'[q].kind # "acceptInvite"
              => request[q].invite \in raced' \/ invites'[request[q].invite].status # "PENDING"
  PROVE  Acceptances'
<1> SUFFICES ASSUME NEW i \in Invites, i \notin raced' PROVE OneAcceptance(i)'
  BY DEF Acceptances
<1>1. OneAcceptance(i)
  BY DEF IInv, Acceptances
<1>2. Accepting(i)' \subseteq Accepting(i)
  BY DEF Accepting
<1>3. ASSUME joined[i] = 1, invites'[i].status = "PENDING" PROVE Accepting(i)' # {}
  <2>1. PICK q \in Accepting(i) : request[q].pc = "mark"
    BY <1>1, <1>3 DEF OneAcceptance
  <2>2. request'[q].kind = "acceptInvite"
    BY <2>1, <1>3 DEF Accepting
  <2> QED
    BY <2>2, <2>1 DEF Accepting
<1>4. ASSUME joined[i] = 1 PROVE \A q \in Accepting(i)' : request'[q].pc = "mark"
  BY <1>1, <1>2, <1>4 DEF OneAcceptance, Accepting
<1> QED
  BY <1>1, <1>2, <1>3, <1>4 DEF OneAcceptance

(* The invariant after a step of request p, from its parts.                *)
LEMMA Assemble ==
  ASSUME NEW p \in Requests, IInv, TypeOK', Kept(p), Knows(p)',
         \A q \in Requests \ {p} : request'[q] = request[q],
         EveryTenantHasOwner', OneAccountPerIdentity', RolesStayInTenant', Acceptances'
  PROVE  IInv'
  BY OthersKnow DEF IInv

-----------------------------------------------------------------------------
(* Steps that only read, and end or move on.                               *)

LEMMA ReadStep ==
  ASSUME NEW p \in Requests, IInv, NEW row \in Request,
         request' = [request EXCEPT ![p] = row],
         UNCHANGED <<tenants, users, roles, invites, lock, joined, raced>>,
         row.kind = "acceptInvite" => /\ request[p].kind = "acceptInvite" /\ row.invite = request[p].invite
                                      /\ request[p].pc # "mark",
         request[p].kind = "acceptInvite" => request[p].pc # "mark",
         Knows(p)'
  PROVE  IInv'
<1>1. TypeOK'
  BY DEF IInv, TypeOK
<1>2. Kept(p)
  BY DEF Kept, Known, RolesOf
<1>3. Acceptances'
  BY AcceptancesKept DEF IInv, TypeOK
<1>4. \A q \in Requests \ {p} : request'[q] = request[q]
  BY DEF IInv, TypeOK
<1> QED
  BY <1>1, <1>2, <1>3, <1>4, TablesKept, Assemble

LEMMA BeginStep ==
  ASSUME NEW p \in Requests, IInv, NEW row \in Request, request[p] = Idle,
         request' = [request EXCEPT ![p] = row],
         UNCHANGED <<tenants, users, roles, invites, lock, joined, raced>>,
         row.kind # "acceptInvite", Knows(p)'
  PROVE  IInv'
<1>1. request[p].kind # "acceptInvite"
  BY DEF Idle
<1> QED
  BY <1>1, ReadStep

LEMMA IdleTyped == Idle \in Request
  BY DEF Idle, Request

LEMMA AuthoriseInv ==
  ASSUME NEW q \in Requests, IInv, Authorise(q)
  PROVE  IInv'
<1>1. PICK a \in Admins, refs \in RoleLists : /\ request[q] = Idle
        /\ \/ \E s \in Subjects : request' = [request EXCEPT ![q] =
                 [Authorised("createUser", "existing", users[a].tenant, refs) EXCEPT !.subject = s]]
           \/ \E v \in UsersOf(users[a].tenant) : request' = [request EXCEPT ![q] =
                 [Authorised("setUserRoles", "assignable", users[a].tenant, refs) EXCEPT !.user = v]]
           \/ request' = [request EXCEPT ![q] =
                 Authorised("createInvite", "assignable", users[a].tenant, refs)]
           \/ request' = [request EXCEPT ![q] = Authorised("role", "write", users[a].tenant, {})]
        /\ UNCHANGED <<tenants, users, roles, invites, lock, joined, raced>>
  BY DEF Authorise, histories
<1> DEFINE t == users[a].tenant
<1>2. t \in Tenants /\ refs \subseteq SystemRoles \cup Roles
  BY <1>1 DEF Admins, Known, IInv, TypeOK, User
<1> HIDE DEF t
<1>3. request \in [Requests -> Request] /\ UsersOf(t) \subseteq Users
  BY DEF IInv, TypeOK, UsersOf, Known
<1> DEFINE New(row) == request' = [request EXCEPT ![q] = row]
<1>4. ASSUME NEW s \in Subjects,
             New([Authorised("createUser", "existing", t, refs) EXCEPT !.subject = s])
      PROVE  IInv'
  <2> DEFINE row == [Authorised("createUser", "existing", t, refs) EXCEPT !.subject = s]
  <2>1. row \in Request /\ row.kind = "createUser" /\ row.pc = "existing" /\ row.subject = s /\ row.tenant = t
    BY <1>2 DEF Authorised, Idle, Request
  <2> HIDE DEF row
  <2>2. request' = [request EXCEPT ![q] = row] /\ request'[q] = row
    BY <1>3, <1>4 DEF row
  <2>3. Knows(q)'
    BY <2>1, <2>2, <1>2 DEF Knows
  <2> QED
    BY <1>1, <2>1, <2>2, <2>3, BeginStep
<1>5. ASSUME NEW v \in UsersOf(t),
             New([Authorised("setUserRoles", "assignable", t, refs) EXCEPT !.user = v])
      PROVE  IInv'
  <2> DEFINE row == [Authorised("setUserRoles", "assignable", t, refs) EXCEPT !.user = v]
  <2>1. row \in Request /\ row.kind = "setUserRoles" /\ row.pc = "assignable" /\ row.user = v /\ row.tenant = t
    BY <1>2, <1>3 DEF Authorised, Idle, Request
  <2> HIDE DEF row
  <2>2. request' = [request EXCEPT ![q] = row] /\ request'[q] = row
    BY <1>3, <1>5 DEF row
  <2>3. Knows(q)'
    BY <1>1, <2>1, <2>2, <1>2 DEF Knows, UsersOf, Known
  <2> QED
    BY <1>1, <2>1, <2>2, <2>3, BeginStep
<1>6. ASSUME New(Authorised("createInvite", "assignable", t, refs)) PROVE IInv'
  <2> DEFINE row == Authorised("createInvite", "assignable", t, refs)
  <2>1. row \in Request /\ row.kind = "createInvite" /\ row.pc = "assignable" /\ row.tenant = t
    BY <1>2 DEF Authorised, Idle, Request
  <2> HIDE DEF row
  <2>2. request' = [request EXCEPT ![q] = row] /\ request'[q] = row
    BY <1>3, <1>6 DEF row
  <2>3. Knows(q)'
    BY <2>1, <2>2, <1>2 DEF Knows
  <2> QED
    BY <1>1, <2>1, <2>2, <2>3, BeginStep
<1>7. ASSUME New(Authorised("role", "write", t, {})) PROVE IInv'
  <2> DEFINE row == Authorised("role", "write", t, {})
  <2>1. row \in Request /\ row.kind = "role" /\ row.pc = "write" /\ row.tenant = t
    BY <1>2 DEF Authorised, Idle, Request
  <2> HIDE DEF row
  <2>2. request' = [request EXCEPT ![q] = row] /\ request'[q] = row
    BY <1>3, <1>7 DEF row
  <2>3. Knows(q)'
    BY <2>1, <2>2, <1>2 DEF Knows
  <2> QED
    BY <1>1, <2>1, <2>2, <2>3, BeginStep
<1> QED
  BY <1>1, <1>4, <1>5, <1>6, <1>7 DEF t

LEMMA BeginOnboardingInv ==
  ASSUME NEW q \in Requests, IInv, BeginOnboarding(q)
  PROVE  IInv'
<1>1. PICK s \in Subjects : request[q] = Idle /\ request' = [request EXCEPT ![q] =
              [Idle EXCEPT !.kind = "onboard", !.pc = "existing", !.subject = s]]
  BY DEF BeginOnboarding
<1> DEFINE row == [Idle EXCEPT !.kind = "onboard", !.pc = "existing", !.subject = s]
<1>2. row \in Request /\ row.kind = "onboard" /\ row.pc = "existing" /\ row.subject = s
  BY DEF Idle, Request
<1> HIDE DEF row
<1>3. request' = [request EXCEPT ![q] = row] /\ request'[q] = row
  BY <1>1 DEF row, IInv, TypeOK
<1>4. Knows(q)'
  BY <1>2, <1>3 DEF Knows
<1>5. UNCHANGED <<tenants, users, roles, invites, lock, joined, raced>>
  BY DEF BeginOnboarding, histories
<1> QED
  BY <1>1, <1>2, <1>3, <1>4, <1>5, BeginStep

(* A request ends, refused or dead, without a change of the tables.        *)
LEMMA ReturnStep ==
  ASSUME NEW p \in Requests, IInv, Return(p),
         UNCHANGED <<tenants, users, roles, invites, joined>>,
         lock' = lock \/ lock' = Unlocked(p),
         raced \subseteq raced', raced' \subseteq Invites,
         At(p, "acceptInvite", "mark") => request[p].invite \in raced'
  PROVE  IInv'
<1>1. request' \in [Requests -> Request] /\ request'[p] = Idle
      /\ \A q \in Requests \ {p} : request'[q] = request[q]
  BY IdleTyped DEF Return, IInv, TypeOK
<1>2. TypeOK'
  BY <1>1 DEF IInv, TypeOK, Unlocked
<1>3. Kept(p)
  BY DEF Kept, Known, RolesOf, Unlocked
<1>4. Acceptances'
  <2>1. \A q \in Requests : request'[q].kind = "acceptInvite" => request'[q] = request[q]
    BY <1>1 DEF Idle
  <2>2. \A q \in Requests : q # p => request'[q] = request[q]
    BY <1>1
  <2> QED
    BY <2>1, <2>2, AcceptancesKept DEF At
<1> QED
  BY <1>1, <1>2, <1>3, <1>4, IdleKnows, TablesKept, Assemble

LEMMA FindExistingInv ==
  ASSUME NEW q \in Requests, IInv, FindExisting(q)
  PROVE  IInv'
<1>1. request[q].pc = "existing" /\ UNCHANGED <<tenants, users, roles, invites, lock, joined, raced>>
  BY DEF FindExisting, histories
<1>2. CASE Return(q)
  BY <1>1, <1>2, ReturnStep DEF At, IInv, TypeOK
<1>3. ASSUME NEW pc \in {"assignable", "write"}, Goto(q, pc),
             pc = "assignable" <=> request[q].kind = "createUser"
      PROVE  IInv'
  <2> DEFINE row == [request[q] EXCEPT !.pc = pc]
  <2>1. request[q] \in Request
    BY DEF IInv, TypeOK
  <2>2. row \in Request /\ row.pc = pc /\ row.kind = request[q].kind /\ row.tenant = request[q].tenant
        /\ row.subject = request[q].subject /\ row.user = request[q].user /\ row.invite = request[q].invite
    BY <2>1 DEF Request
  <2>3. request' = [request EXCEPT ![q] = row]
    BY <1>3 DEF Goto
  <2> HIDE DEF row
  <2>4. request'[q] = row
    BY <2>3 DEF IInv, TypeOK
  <2>5. Knows(q)
    BY DEF IInv, RequestsKnow
  <2>6. Knows(q)'
    BY <1>1, <1>3, <2>2, <2>4, <2>5 DEF Knows, Known
  <2> QED
    BY <1>1, <2>2, <2>3, <2>6, ReadStep
<1> QED
  BY <1>2, <1>3 DEF FindExisting

LEMMA CheckAssignableInv ==
  ASSUME NEW q \in Requests, IInv, CheckAssignable(q)
  PROVE  IInv'
<1>1. request[q].pc = "assignable" /\ UNCHANGED <<tenants, users, roles, invites, lock, joined, raced>>
  BY DEF CheckAssignable, histories
<1>2. CASE Return(q)
  BY <1>1, <1>2, ReturnStep DEF At, IInv, TypeOK
<1>3. ASSUME NEW pc \in {"lock", "write"}, Goto(q, pc), Assignable(request[q].tenant, request[q].roles),
             pc = "lock" <=> request[q].kind = "setUserRoles"
      PROVE  IInv'
  <2> DEFINE row == [request[q] EXCEPT !.pc = pc]
  <2>1. request[q] \in Request
    BY DEF IInv, TypeOK
  <2>2. row \in Request /\ row.pc = pc /\ row.kind = request[q].kind /\ row.tenant = request[q].tenant
        /\ row.subject = request[q].subject /\ row.user = request[q].user /\ row.invite = request[q].invite
        /\ row.roles = request[q].roles
    BY <2>1 DEF Request
  <2>3. request' = [request EXCEPT ![q] = row]
    BY <1>3 DEF Goto
  <2> HIDE DEF row
  <2>4. request'[q] = row
    BY <2>3 DEF IInv, TypeOK
  <2>5. Knows(q)
    BY DEF IInv, RequestsKnow
  <2>6. Insertable(request[q].tenant, request[q].roles)'
    BY <1>1, <1>3, <2>2, <2>4 DEF Assignable, Insertable, RolesOf
  <2>7. Knows(q)'
    BY <1>1, <1>3, <2>2, <2>4, <2>5, <2>6 DEF Knows, Known
  <2> QED
    BY <1>1, <2>2, <2>3, <2>5, <2>7, ReadStep DEF Knows
<1> QED
  BY <1>2, <1>3 DEF CheckAssignable

(* acceptInvite: a second acceptance under way is a race. *)
LEMMA BeginAcceptingInv ==
  ASSUME NEW q \in Requests, IInv, BeginAccepting(q)
  PROVE  IInv'
<1>1. PICK i \in Invites, s \in Subjects :
        /\ request[q] = Idle
        /\ invites[i] # None /\ invites[i].status = "PENDING"
        /\ raced' = IF Accepting(i) = {} THEN raced ELSE raced \cup {i}
        /\ request' = [request EXCEPT ![q] =
              [Idle EXCEPT !.kind = "acceptInvite", !.pc = "existing", !.subject = s,
                           !.invite = i, !.tenant = invites[i].tenant, !.roles = {invites[i].role}]]
        /\ UNCHANGED <<tenants, users, roles, invites, lock, joined>>
  BY DEF BeginAccepting
<1>2. invites[i].tenant \in Tenants /\ invites[i].role \in SystemRoles \cup Roles
  BY <1>1 DEF IInv, TypeOK, Invite
<1> DEFINE row == [Idle EXCEPT !.kind = "acceptInvite", !.pc = "existing", !.subject = s,
                           !.invite = i, !.tenant = invites[i].tenant, !.roles = {invites[i].role}]
<1>3. row \in Request /\ row.kind = "acceptInvite" /\ row.pc = "existing" /\ row.subject = s
      /\ row.invite = i /\ row.tenant = invites[i].tenant
  BY <1>2 DEF Idle, Request
<1> HIDE DEF row
<1>4. request' = [request EXCEPT ![q] = row] /\ request'[q] = row
      /\ \A p \in Requests \ {q} : request'[p] = request[p]
  BY <1>1 DEF row, IInv, TypeOK
<1>5. TypeOK'
  BY <1>1, <1>3, <1>4 DEF IInv, TypeOK
<1>6. Kept(q)
  BY <1>1 DEF Kept, Known, RolesOf
<1>7. Knows(q)'
  BY <1>1, <1>2, <1>3, <1>4 DEF Knows
<1>8. ASSUME NEW j \in Invites, j \notin raced' PROVE OneAcceptance(j)'
  <2>1. j \notin raced /\ OneAcceptance(j)
    BY <1>1, <1>8 DEF IInv, Acceptances
  <2>2. CASE j # i
    <3>1. Accepting(j)' = Accepting(j)
      BY <1>1, <1>3, <1>4, <2>2 DEF Accepting, Idle
    <3>2. \A p \in Accepting(j) : request'[p] = request[p]
      BY <1>1, <1>4 DEF Accepting, Idle
    <3> QED
      BY <1>1, <2>1, <3>1, <3>2 DEF OneAcceptance
  <2>3. CASE j = i
    <3>1. Accepting(i) = {}
      BY <1>1, <1>8, <2>3
    <3>2. joined[i] = 0
      BY <1>1, <2>1, <2>3, <3>1 DEF OneAcceptance
    <3>3. Accepting(i)' = {q}
      BY <1>3, <1>4, <3>1 DEF Accepting
    <3> QED
      BY <1>1, <2>3, <3>2, <3>3 DEF OneAcceptance
  <2> QED
    BY <2>2, <2>3
<1>9. Acceptances'
  BY <1>8 DEF Acceptances
<1> QED
  BY <1>1, <1>4, <1>5, <1>6, <1>7, <1>9, TablesKept, Assemble

-----------------------------------------------------------------------------
(* New users.                                                              *)

LEMMA NewUser ==
  ASSUME IInv, NEW u \in Users \ Known, NEW row \in User,
         users' = [users EXCEPT ![u] = row], UNCHANGED <<roles, invites>>,
         ~UniqueViolation(row.subject), row.roles \cap Roles \subseteq RolesOf(row.tenant)
  PROVE  /\ users' \in [Users -> User \cup {None}]
         /\ Known' = Known \cup {u} /\ \A v \in Known : users'[v] = users[v]
         /\ \A t \in Tenants : Owners(t) \subseteq Owners(t)'
         /\ OneAccountPerIdentity' /\ RolesStayInTenant'
<1>1. users \in [Users -> User \cup {None}] /\ row # None
  BY DEF IInv, TypeOK
<1>2. Known' = Known \cup {u} /\ (\A v \in Known : users'[v] = users[v]) /\ users'[u] = row
  BY <1>1 DEF Known
<1>3. \A t \in Tenants : RolesOf(t)' = RolesOf(t)
  BY DEF RolesOf
<1>4. OneAccountPerIdentity'
  BY <1>2 DEF OneAccountPerIdentity, UniqueViolation, IInv
<1>5. RolesStayInTenant'
  <2>1. \A v \in Known : users[v].roles \cap Roles \subseteq RolesOf(users[v].tenant)
    BY DEF IInv, RolesStayInTenant
  <2>2. ASSUME NEW v \in Known' PROVE (users[v].roles \cap Roles \subseteq RolesOf(users[v].tenant))'
    <3>1. CASE v = u
      BY <1>2, <3>1 DEF RolesOf
    <3>2. CASE v \in Known
      BY <1>2, <2>1, <3>2 DEF RolesOf
    <3> QED
      BY <1>2, <3>1, <3>2
  <2>3. (\A i \in Invites : invites[i] # None =>
          {invites[i].role} \cap Roles \subseteq RolesOf(invites[i].tenant))'
    BY DEF IInv, RolesStayInTenant, RolesOf
  <2> QED
    BY <2>2, <2>3 DEF RolesStayInTenant
<1>6. \A t \in Tenants : Owners(t) \subseteq Owners(t)'
  BY <1>1, <1>2 DEF Owners, OwnersIn, Known
<1> QED
  BY <1>1, <1>2, <1>4, <1>5, <1>6

LEMMA NewUserKept ==
  ASSUME IInv, NEW q \in Requests, UNCHANGED <<roles, invites, lock>>,
         \A v \in Known : users'[v] = users[v]
  PROVE  Kept(q)
  BY DEF Kept, Known, RolesOf

LEMMA OnboardTenantInv ==
  ASSUME NEW q \in Requests, IInv, OnboardTenant(q)
  PROVE  IInv'
<1>1. At(q, "onboard", "write") /\ Return(q) /\ UNCHANGED <<roles, invites, lock, joined, raced>>
  BY DEF OnboardTenant, histories
<1>2. CASE UNCHANGED <<tenants, users>>
  BY <1>1, <1>2, ReturnStep DEF At, IInv, TypeOK
<1>3. ASSUME NEW t \in Tenants \ tenants, NEW u \in Users \ Known,
             ~UniqueViolation(request[q].subject), tenants' = tenants \cup {t},
             users' = [users EXCEPT ![u] = UserRow(q, t, {"OWNER"})]
      PROVE  IInv'
  <2> DEFINE row == UserRow(q, t, {"OWNER"})
  <2>1. request[q].subject \in Subjects
    BY <1>1 DEF At, IInv, RequestsKnow, Knows
  <2>2. row \in User /\ row.subject = request[q].subject /\ row.tenant = t /\ row.roles = {"OWNER"}
    BY <2>1 DEF UserRow, User, SystemRoles
  <2>3. row.roles \cap Roles \subseteq RolesOf(row.tenant)
    BY <2>2 DEF SystemRoles
  <2> HIDE DEF row
  <2>4. users' = [users EXCEPT ![u] = row] /\ ~UniqueViolation(row.subject)
    BY <1>3, <2>2 DEF row
  <2>5. /\ users' \in [Users -> User \cup {None}] /\ \A v \in Known : users'[v] = users[v]
        /\ \A x \in Tenants : Owners(x) \subseteq Owners(x)'
        /\ OneAccountPerIdentity' /\ RolesStayInTenant'
    BY <1>1, <2>2, <2>3, <2>4, NewUser
  <2>6. EveryTenantHasOwner'
    <3>1. u \in Owners(t)'
      BY <2>2, <2>4 DEF Owners, OwnersIn, IInv, TypeOK
    <3> QED
      BY <1>3, <2>5, <3>1 DEF EveryTenantHasOwner, IInv, TypeOK
  <2>7. request' \in [Requests -> Request] /\ request'[q] = Idle
        /\ \A p \in Requests \ {q} : request'[p] = request[p]
    BY <1>1, IdleTyped DEF Return, IInv, TypeOK
  <2>8. TypeOK'
    BY <1>1, <1>3, <2>5, <2>7 DEF IInv, TypeOK
  <2>9. Acceptances'
    <3>1. \A p \in Requests : p # q => request'[p] = request[p]
      BY <2>7
    <3>2. request'[q].kind # "acceptInvite" /\ request[q].kind # "acceptInvite"
      BY <1>1, <2>7 DEF Idle, At
    <3> QED
      BY <1>1, <3>1, <3>2, AcceptancesKept
  <2> QED
    BY <1>1, <2>5, <2>6, <2>7, <2>8, <2>9, IdleKnows, NewUserKept, Assemble
<1> QED
  BY <1>2, <1>3 DEF OnboardTenant

(* createUser and createUserFromInvite: the user is inserted, or nothing.  *)
LEMMA InsertUserParts ==
  ASSUME NEW q \in Requests, IInv, InsertUser(q), UNCHANGED <<tenants, roles, invites, lock>>,
         request[q].kind \in {"createUser", "acceptInvite"}
  PROVE  /\ users' \in [Users -> User \cup {None}] /\ Kept(q)
         /\ EveryTenantHasOwner' /\ OneAccountPerIdentity' /\ RolesStayInTenant'
<1>1. CASE UNCHANGED users
  BY <1>1, TablesKept, NewUserKept DEF IInv, TypeOK
<1>2. ASSUME NEW u \in Users \ Known, ~UniqueViolation(request[q].subject),
             Insertable(request[q].tenant, request[q].roles),
             users' = [users EXCEPT ![u] = UserRow(q, request[q].tenant, request[q].roles)]
      PROVE  /\ users' \in [Users -> User \cup {None}] /\ Kept(q)
             /\ EveryTenantHasOwner' /\ OneAccountPerIdentity' /\ RolesStayInTenant'
  <2> DEFINE row == UserRow(q, request[q].tenant, request[q].roles)
  <2>1. request[q].subject \in Subjects /\ request[q].tenant \in Tenants
        /\ request[q].roles \subseteq SystemRoles \cup Roles
    BY DEF IInv, RequestsKnow, Knows, TypeOK, Request
  <2>2. row \in User /\ row.subject = request[q].subject
        /\ row.tenant = request[q].tenant /\ row.roles = request[q].roles
    BY <2>1 DEF UserRow, User
  <2>3. row.roles \cap Roles \subseteq RolesOf(row.tenant)
    BY <1>2, <2>2 DEF Insertable
  <2> HIDE DEF row
  <2>4. users' = [users EXCEPT ![u] = row] /\ ~UniqueViolation(row.subject)
    BY <1>2, <2>2 DEF row
  <2>5. /\ users' \in [Users -> User \cup {None}] /\ \A v \in Known : users'[v] = users[v]
        /\ \A x \in Tenants : Owners(x) \subseteq Owners(x)'
        /\ OneAccountPerIdentity' /\ RolesStayInTenant'
    BY <2>2, <2>3, <2>4, NewUser
  <2>6. EveryTenantHasOwner'
    BY <2>5 DEF EveryTenantHasOwner, IInv, TypeOK
  <2> QED
    BY <2>5, <2>6, NewUserKept
<1> QED
  BY <1>1, <1>2 DEF InsertUser

LEMMA CreateUserInv ==
  ASSUME NEW q \in Requests, IInv, CreateUser(q)
  PROVE  IInv'
<1>1. /\ At(q, "createUser", "write") /\ InsertUser(q) /\ Return(q)
      /\ UNCHANGED <<tenants, roles, invites, lock, joined, raced>>
  BY DEF CreateUser, histories
<1>2. /\ users' \in [Users -> User \cup {None}] /\ Kept(q)
      /\ EveryTenantHasOwner' /\ OneAccountPerIdentity' /\ RolesStayInTenant'
  BY <1>1, InsertUserParts DEF At
<1>3. request' \in [Requests -> Request] /\ request'[q] = Idle
      /\ \A p \in Requests \ {q} : request'[p] = request[p]
  BY <1>1, IdleTyped DEF Return, IInv, TypeOK
<1>4. TypeOK'
  BY <1>1, <1>2, <1>3 DEF IInv, TypeOK
<1>5. \A p \in Requests : p # q => request'[p] = request[p]
  BY <1>3
<1>6. request'[q].kind # "acceptInvite" /\ request[q].kind # "acceptInvite"
  BY <1>1, <1>3 DEF Idle, At
<1>7. Acceptances'
  BY <1>1, <1>5, <1>6, AcceptancesKept
<1> QED
  BY <1>2, <1>3, <1>4, <1>7, IdleKnows, Assemble

(* The first user of an invite: its acceptance was the only one.           *)
LEMMA CreateUserFromInviteInv ==
  ASSUME NEW q \in Requests, IInv, CreateUserFromInvite(q)
  PROVE  IInv'
<1>1. /\ request[q].kind = "acceptInvite" /\ request[q].pc = "write" /\ InsertUser(q)
      /\ UNCHANGED <<tenants, roles, invites, lock, raced>>
  BY DEF CreateUserFromInvite, At
<1>2. /\ users' \in [Users -> User \cup {None}] /\ Kept(q)
      /\ EveryTenantHasOwner' /\ OneAccountPerIdentity' /\ RolesStayInTenant'
  BY <1>1, InsertUserParts
<1>3. CASE Return(q) /\ UNCHANGED joined /\ users' = users
  BY <1>1, <1>3, ReturnStep DEF At, IInv, TypeOK
<1>4. ASSUME Goto(q, "mark"), joined' = [joined EXCEPT ![request[q].invite] = @ + 1]
      PROVE  IInv'
  <2> DEFINE i == request[q].invite
             row == [request[q] EXCEPT !.pc = "mark"]
  <2>1. Knows(q) /\ request[q] \in Request /\ i \in Invites /\ invites[i] # None
    BY <1>1 DEF IInv, RequestsKnow, Knows, TypeOK
  <2>2. row \in Request /\ row.pc = "mark" /\ row.kind = "acceptInvite" /\ row.tenant = request[q].tenant
        /\ row.subject = request[q].subject /\ row.invite = i
    BY <1>1, <2>1 DEF Request
  <2>3. request' = [request EXCEPT ![q] = row]
    BY <1>4 DEF Goto
  <2> HIDE DEF row
  <2>4. request'[q] = row /\ request' \in [Requests -> Request]
        /\ \A p \in Requests \ {q} : request'[p] = request[p]
    BY <2>2, <2>3 DEF IInv, TypeOK
  <2>5. TypeOK'
    BY <1>1, <1>2, <1>4, <2>1, <2>4 DEF IInv, TypeOK
  <2>6. Knows(q)'
    BY <1>1, <2>1, <2>2, <2>4 DEF Knows
  <2>7. ASSUME NEW j \in Invites, j \notin raced PROVE OneAcceptance(j)'
    <3>1. OneAcceptance(j) /\ joined[j] \in Nat
      BY <2>7 DEF IInv, Acceptances, TypeOK
    <3>2. Accepting(j)' = Accepting(j)
      BY <1>1, <2>2, <2>4 DEF Accepting
    <3>3. CASE j # i
      <4>1. joined'[j] = joined[j] /\ \A p \in Accepting(j) : request'[p] = request[p]
        BY <1>4, <2>1, <2>4, <3>3 DEF Accepting, IInv, TypeOK
      <4> QED
        BY <1>1, <3>1, <3>2, <4>1 DEF OneAcceptance
    <3>4. CASE j = i
      <4>1. q \in Accepting(j)
        BY <1>1, <3>4 DEF Accepting
      <4>2. joined[j] = 0 /\ \A p \in Accepting(j) : p = q
        BY <1>1, <3>1, <4>1 DEF OneAcceptance
      <4>3. joined'[j] = 1
        BY <1>4, <2>1, <3>4, <4>2 DEF IInv, TypeOK
      <4> QED
        BY <1>1, <2>1, <2>2, <2>4, <3>2, <3>4, <4>1, <4>2, <4>3 DEF OneAcceptance
    <3> QED
      BY <3>3, <3>4
  <2>8. Acceptances'
    BY <1>1, <2>7 DEF Acceptances
  <2> QED
    BY <1>2, <2>4, <2>5, <2>6, <2>8, Assemble
<1> QED
  BY <1>3, <1>4 DEF CreateUserFromInvite

-----------------------------------------------------------------------------
(* Invites and custom roles.                                               *)

(* A request ends after a step that leaves users and lock alone.           *)
LEMMA WriteStep ==
  ASSUME NEW q \in Requests, IInv, Return(q), UNCHANGED <<tenants, users, lock, joined, raced>>,
         roles' \in [Roles -> Role \cup {None}], invites' \in [Invites -> Invite \cup {None}],
         \A t \in Tenants : RolesOf(t) \subseteq RolesOf(t)',
         \A i \in Invites : invites[i] # None =>
            invites'[i] # None /\ (invites'[i].status = "PENDING" => invites[i].status = "PENDING"),
         At(q, "acceptInvite", "mark") => invites'[request[q].invite].status # "PENDING",
         \A i \in Invites : invites'[i] # None => \/ invites[i] # None /\ invites'[i].role = invites[i].role
                                                       /\ invites'[i].tenant = invites[i].tenant
                                                  \/ /\ invites'[i].tenant \in Tenants
                                                     /\ {invites'[i].role} \cap Roles \subseteq RolesOf(invites'[i].tenant)
  PROVE  IInv'
<1>1. request' \in [Requests -> Request] /\ request'[q] = Idle
      /\ \A p \in Requests \ {q} : request'[p] = request[p]
  BY IdleTyped DEF Return, IInv, TypeOK
<1>2. TypeOK'
  BY <1>1 DEF IInv, TypeOK
<1>3. Kept(q)
  BY DEF Kept, Known
<1>4. EveryTenantHasOwner' /\ OneAccountPerIdentity'
  BY DEF IInv, EveryTenantHasOwner, OneAccountPerIdentity, Owners, OwnersIn, Known
<1>5. RolesStayInTenant'
  <2>1. ASSUME NEW v \in Known PROVE (users[v].roles \cap Roles \subseteq RolesOf(users[v].tenant))'
    BY <2>1 DEF IInv, RolesStayInTenant, Known, TypeOK, User
  <2>2. ASSUME NEW i \in Invites, invites'[i] # None
        PROVE ({invites[i].role} \cap Roles \subseteq RolesOf(invites[i].tenant))'
    <3> DEFINE t == invites'[i].tenant
               r == invites'[i].role
    <3>1. t \in Tenants
      BY <2>2 DEF Invite
    <3>2. {r} \cap Roles \subseteq RolesOf(t)
      BY <2>2 DEF IInv, RolesStayInTenant
    <3>3. \A x \in Tenants : RolesOf(x) = {y \in Roles : roles[y] # None /\ roles[y].tenant = x}
      BY DEF RolesOf
    <3>4. \A x \in Tenants : {y \in Roles : roles[y] # None /\ roles[y].tenant = x}
              \subseteq {y \in Roles : roles'[y] # None /\ roles'[y].tenant = x}
      BY DEF RolesOf
    <3>5. {r} \cap Roles \subseteq {y \in Roles : roles'[y] # None /\ roles'[y].tenant = t}
      BY <3>1, <3>2, <3>3, <3>4
    <3> QED
      BY <3>5 DEF RolesOf
  <2> QED
    BY <2>1, <2>2 DEF RolesStayInTenant, Known
<1>6. Acceptances'
  <2>1. \A p \in Requests : request'[p].kind = "acceptInvite" => request'[p] = request[p]
    BY <1>1 DEF Idle
  <2>2. \A p \in Requests : p # q => request'[p] = request[p]
    BY <1>1
  <2> QED
    BY <2>1, <2>2, AcceptancesKept DEF At
<1> QED
  BY <1>1, <1>2, <1>3, <1>4, <1>5, <1>6, IdleKnows, Assemble

LEMMA MarkInviteAcceptedInv ==
  ASSUME NEW q \in Requests, IInv, MarkInviteAccepted(q)
  PROVE  IInv'
<1> DEFINE i == request[q].invite
<1>1. /\ Return(q) /\ UNCHANGED <<tenants, users, roles, lock, joined, raced>>
      /\ At(q, "acceptInvite", "mark") /\ invites' = [invites EXCEPT ![i].status = "ACCEPTED"]
  BY DEF MarkInviteAccepted, histories
<1>2. i \in Invites /\ invites[i] # None /\ invites \in [Invites -> Invite \cup {None}]
  BY <1>1 DEF IInv, RequestsKnow, Knows, TypeOK, At
<1>3. invites[i] \in Invite
  BY <1>2
<1> DEFINE row == [invites[i] EXCEPT !.status = "ACCEPTED"]
<1>4. row \in Invite /\ row.status = "ACCEPTED" /\ row.role = invites[i].role /\ row.tenant = invites[i].tenant
  BY <1>3 DEF Invite
<1>5. invites' = [invites EXCEPT ![i] = row]
  BY <1>1
<1> HIDE DEF row, i
<1>6. invites' \in [Invites -> Invite \cup {None}] /\ invites'[i] = row
      /\ \A j \in Invites \ {i} : invites'[j] = invites[j]
  BY <1>2, <1>4, <1>5
<1>7. row # None
  BY <1>4
<1>8. \A j \in Invites : invites[j] # None =>
        invites'[j] # None /\ (invites'[j].status = "PENDING" => invites[j].status = "PENDING")
  BY <1>4, <1>6, <1>7
<1>9. \A j \in Invites : invites'[j] # None =>
        invites[j] # None /\ invites'[j].role = invites[j].role /\ invites'[j].tenant = invites[j].tenant
  BY <1>2, <1>4, <1>6
<1>10. invites'[request[q].invite].status # "PENDING"
  BY <1>4, <1>6 DEF i
<1>11. roles' \in [Roles -> Role \cup {None}] /\ \A t \in Tenants : RolesOf(t) \subseteq RolesOf(t)'
  BY <1>1 DEF IInv, TypeOK, RolesOf
<1> QED
  BY <1>1, <1>6, <1>8, <1>9, <1>10, <1>11, WriteStep

LEMMA CreateInviteInv ==
  ASSUME NEW q \in Requests, IInv, CreateInvite(q)
  PROVE  IInv'
<1> DEFINE t == request[q].tenant
<1>1. /\ Return(q) /\ UNCHANGED <<tenants, users, roles, lock, joined, raced>>
      /\ At(q, "createInvite", "write")
  BY DEF CreateInvite, histories
<1>2. PICK i \in Invites, r \in request[q].roles : invites[i] = None /\ invites' = [invites EXCEPT ![i] = NewInvite(t, r)]
  BY DEF CreateInvite
<1>3. t \in Tenants /\ r \in SystemRoles \cup Roles /\ {r} \cap Roles \subseteq RolesOf(t)
  BY <1>1 DEF IInv, RequestsKnow, Knows, TypeOK, Request, Insertable, At
<1> DEFINE row == NewInvite(t, r)
<1>4. row \in Invite /\ row.tenant = t /\ row.role = r
  BY <1>3 DEF NewInvite, Invite
<1>5. invites' = [invites EXCEPT ![i] = row] /\ invites \in [Invites -> Invite \cup {None}]
  BY <1>2 DEF IInv, TypeOK
<1> HIDE DEF row, t
<1>6. invites' \in [Invites -> Invite \cup {None}] /\ invites'[i] = row
      /\ \A j \in Invites \ {i} : invites'[j] = invites[j]
  BY <1>4, <1>5
<1>7. \A j \in Invites : invites[j] # None => invites'[j] = invites[j]
  BY <1>2, <1>6
<1>8. \A j \in Invites : invites'[j] # None => \/ invites[j] # None /\ invites'[j] = invites[j]
                                               \/ /\ invites'[j].tenant \in Tenants
                                                  /\ {invites'[j].role} \cap Roles \subseteq RolesOf(invites'[j].tenant)
  BY <1>3, <1>4, <1>6
<1>9. roles' \in [Roles -> Role \cup {None}] /\ (\A x \in Tenants : RolesOf(x) \subseteq RolesOf(x)')
      /\ ~At(q, "acceptInvite", "mark")
  BY <1>1 DEF IInv, TypeOK, RolesOf, At
<1> QED
  BY <1>1, <1>6, <1>7, <1>8, <1>9, WriteStep

LEMMA CreateRoleInv ==
  ASSUME NEW q \in Requests, IInv, CreateRole(q)
  PROVE  IInv'
<1> DEFINE t == request[q].tenant
<1>1. /\ Return(q) /\ UNCHANGED <<tenants, users, invites, lock, joined, raced>>
      /\ At(q, "role", "write")
  BY DEF CreateRole, histories
<1>2. PICK r \in Roles, p \in PermissionLists : roles[r] = None
         /\ roles' = [roles EXCEPT ![r] = [tenant |-> t, permissions |-> p, active |-> TRUE]]
  BY DEF CreateRole
<1>3. [tenant |-> t, permissions |-> p, active |-> TRUE] \in Role
  BY <1>1 DEF IInv, RequestsKnow, Knows, At, Role
<1> HIDE DEF t
<1>4. roles' \in [Roles -> Role \cup {None}] /\ \A x \in Tenants : RolesOf(x) \subseteq RolesOf(x)'
  BY <1>2, <1>3 DEF IInv, TypeOK, RolesOf
<1>5. invites' \in [Invites -> Invite \cup {None}] /\ ~At(q, "acceptInvite", "mark")
  BY <1>1 DEF IInv, TypeOK, At
<1> QED
  BY <1>1, <1>4, <1>5, WriteStep

LEMMA UpdateRoleInv ==
  ASSUME NEW q \in Requests, IInv, UpdateRole(q)
  PROVE  IInv'
<1>1. /\ Return(q) /\ UNCHANGED <<tenants, users, invites, lock, joined, raced>>
      /\ At(q, "role", "write")
  BY DEF UpdateRole, histories
<1>2. PICK r \in RolesOf(request[q].tenant), p \in PermissionLists, active \in BOOLEAN :
         roles' = [roles EXCEPT ![r].permissions = p, ![r].active = active]
  BY DEF UpdateRole
<1>3. roles \in [Roles -> Role \cup {None}] /\ r \in Roles /\ roles[r] # None
  BY DEF IInv, TypeOK, RolesOf
<1>4. roles[r] \in Role
  BY <1>3
<1> DEFINE row == [roles[r] EXCEPT !.permissions = p, !.active = active]
<1>5. row \in Role /\ row.tenant = roles[r].tenant
  BY <1>4 DEF Role
<1>6. roles' = [roles EXCEPT ![r] = row]
  BY <1>2, <1>3, <1>4 DEF Role
<1> HIDE DEF row
<1>7. roles' \in [Roles -> Role \cup {None}] /\ \A x \in Tenants : RolesOf(x) \subseteq RolesOf(x)'
  BY <1>3, <1>5, <1>6 DEF RolesOf
<1>8. invites' \in [Invites -> Invite \cup {None}] /\ ~At(q, "acceptInvite", "mark")
  BY <1>1 DEF IInv, TypeOK, At
<1> QED
  BY <1>1, <1>7, <1>8, WriteStep

LEMMA ExpireInv ==
  ASSUME NEW i \in Invites, IInv, Expire(i)
  PROVE  IInv'
<1>1. /\ invites[i] # None /\ invites' = [invites EXCEPT ![i].expired = TRUE]
      /\ UNCHANGED <<tenants, users, roles, lock, request, joined, raced>>
  BY DEF Expire, histories
<1>2. invites \in [Invites -> Invite \cup {None}] /\ invites[i] \in Invite
  BY <1>1 DEF IInv, TypeOK
<1> DEFINE row == [invites[i] EXCEPT !.expired = TRUE]
<1>2a. /\ row \in Invite /\ row.status = invites[i].status
      /\ row.role = invites[i].role /\ row.tenant = invites[i].tenant
  BY <1>2 DEF Invite
<1>2b. invites' = [invites EXCEPT ![i] = row]
  BY <1>1
<1> HIDE DEF row
<1>3. \A j \in Invites : invites[j] # None =>
        /\ invites'[j] # None /\ invites'[j] \in Invite /\ invites'[j].status = invites[j].status
        /\ invites'[j].role = invites[j].role /\ invites'[j].tenant = invites[j].tenant
  BY <1>2, <1>2a, <1>2b
<1>4. \A j \in Invites : invites[j] = None => invites'[j] = None
  BY <1>1, <1>2
<1>5. invites' \in [Invites -> Invite \cup {None}]
  BY <1>1, <1>2, <1>3, <1>4
<1>6. TypeOK'
  BY <1>1, <1>5 DEF IInv, TypeOK
<1>7. RequestsKnow'
  <2> SUFFICES ASSUME NEW q \in Requests PROVE Knows(q)'
    BY DEF RequestsKnow
  <2>1. Knows(q)
    BY DEF IInv, RequestsKnow
  <2>2. OwnersIn(Replaced(q), request[q].tenant)' = OwnersIn(Replaced(q), request[q].tenant)
    BY <1>1 DEF OwnersIn, Replaced
  <2> QED
    BY <1>1, <1>3, <2>1, <2>2 DEF Knows, Known, Insertable, RolesOf
<1>8. EveryTenantHasOwner' /\ OneAccountPerIdentity'
  BY <1>1 DEF IInv, EveryTenantHasOwner, OneAccountPerIdentity, Owners, OwnersIn, Known
<1>9. RolesStayInTenant'
  BY <1>1, <1>3, <1>4 DEF IInv, RolesStayInTenant, Known, RolesOf
<1>10. Acceptances'
  BY <1>1, <1>3, AcceptancesKept
<1> QED
  BY <1>6, <1>7, <1>8, <1>9, <1>10 DEF IInv

-----------------------------------------------------------------------------
(* replaceAssignments.                                                     *)

LEMMA LockRolesInv ==
  ASSUME NEW q \in Requests, IInv, LockRoles(q)
  PROVE  IInv'
<1> DEFINE t == request[q].tenant
           row == [request[q] EXCEPT !.pc = "count"]
<1>1. /\ request[q].kind = "setUserRoles" /\ request[q].pc = "lock" /\ lock[t] = None
      /\ lock' = [lock EXCEPT ![t] = q] /\ request' = [request EXCEPT ![q] = row]
      /\ UNCHANGED <<tenants, users, roles, invites, joined, raced>>
  BY DEF LockRoles, At, Goto, histories
<1>2. Knows(q) /\ request[q] \in Request /\ t \in Tenants
  BY <1>1 DEF IInv, RequestsKnow, Knows, TypeOK
<1>3. row \in Request /\ row.pc = "count" /\ row.kind = "setUserRoles" /\ row.tenant = t /\ row.user = request[q].user
  BY <1>1, <1>2 DEF Request
<1> HIDE DEF row
<1>4. request' \in [Requests -> Request] /\ request'[q] = row
      /\ \A p \in Requests \ {q} : request'[p] = request[p]
  BY <1>1, <1>3 DEF IInv, TypeOK
<1>5. TypeOK'
  BY <1>1, <1>2, <1>4 DEF IInv, TypeOK
<1>6. lock'[t] = q /\ Kept(q)
  BY <1>1, <1>2 DEF Kept, Known, RolesOf, IInv, TypeOK
<1>7. Knows(q)'
  BY <1>1, <1>2, <1>3, <1>4, <1>6 DEF Knows, Known
<1>8. Acceptances'
  BY <1>1, <1>3, <1>4, AcceptancesKept
<1> QED
  BY <1>1, <1>4, <1>5, <1>6, <1>7, <1>8, TablesKept, Assemble

LEMMA CountOwnersInv ==
  ASSUME NEW q \in Requests, IInv, CountOwners(q)
  PROVE  IInv'
<1>1. /\ request[q].kind = "setUserRoles" /\ request[q].pc = "count"
      /\ UNCHANGED <<tenants, users, roles, invites, joined, raced>>
  BY DEF CountOwners, At, histories
<1>2. CASE Return(q) /\ lock' = Unlocked(q)
  BY <1>1, <1>2, ReturnStep DEF At, IInv, TypeOK
<1>3. CASE /\ Insertable(request[q].tenant, request[q].roles)
           /\ OwnersIn(Replaced(q), request[q].tenant) # {}
           /\ Goto(q, "replace") /\ UNCHANGED lock
  <2> DEFINE row == [request[q] EXCEPT !.pc = "replace"]
  <2>1. Knows(q) /\ request[q] \in Request
    BY DEF IInv, RequestsKnow, TypeOK
  <2>2. row \in Request /\ row.pc = "replace" /\ row.kind = request[q].kind /\ row.tenant = request[q].tenant
        /\ row.user = request[q].user /\ row.roles = request[q].roles
    BY <2>1 DEF Request
  <2>3. request' = [request EXCEPT ![q] = row]
    BY <1>3 DEF Goto
  <2> HIDE DEF row
  <2>4. request'[q] = row
    BY <2>3 DEF IInv, TypeOK
  <2>5. Replaced(q)' = Replaced(q)
    BY <1>1, <2>2, <2>4 DEF Replaced
  <2>6. OwnersIn(Replaced(q), request[q].tenant)' # {}
    BY <1>3, <2>2, <2>4, <2>5 DEF OwnersIn
  <2>7. Knows(q)'
    BY <1>1, <1>3, <2>1, <2>2, <2>4, <2>6 DEF Knows, Known, Insertable, RolesOf
  <2> QED
    BY <1>1, <1>3, <2>2, <2>3, <2>7, ReadStep
<1> QED
  BY <1>2, <1>3 DEF CountOwners

(* The commit makes what was counted true. *)
LEMMA CommitRolesInv ==
  ASSUME NEW q \in Requests, IInv, CommitRoles(q)
  PROVE  IInv'
<1> DEFINE t == request[q].tenant
           u == request[q].user
           refs == request[q].roles
           row == [users[u] EXCEPT !.roles = refs]
<1>1. /\ request[q].kind = "setUserRoles" /\ request[q].pc = "replace" /\ Return(q)
      /\ users' = Replaced(q) /\ lock' = Unlocked(q)
      /\ UNCHANGED <<tenants, roles, invites, joined, raced>>
  BY DEF CommitRoles, At, histories
<1>2. /\ u \in Known /\ users[u].tenant = t /\ t \in Tenants /\ lock[t] = q
      /\ Insertable(t, refs) /\ OwnersIn(Replaced(q), t) # {} /\ refs \subseteq SystemRoles \cup Roles
  BY <1>1 DEF IInv, RequestsKnow, Knows, TypeOK, Request
<1>3. users \in [Users -> User \cup {None}] /\ u \in Users /\ users[u] \in User
  BY <1>2 DEF IInv, TypeOK, Known
<1>4. row \in User /\ row.tenant = t /\ row.subject = users[u].subject /\ row.roles = refs
  BY <1>2, <1>3 DEF User
<1>5. users' = [users EXCEPT ![u] = row]
  BY <1>1 DEF Replaced
<1> HIDE DEF row, u, refs
<1>6. /\ users' \in [Users -> User \cup {None}] /\ users'[u] = row /\ row # None
      /\ \A v \in Users \ {u} : users'[v] = users[v]
  BY <1>3, <1>4, <1>5
<1>7. Known' = Known
  BY <1>2, <1>6 DEF Known
<1>8. request' \in [Requests -> Request] /\ request'[q] = Idle
      /\ \A p \in Requests \ {q} : request'[p] = request[p]
  BY <1>1, IdleTyped DEF Return, IInv, TypeOK
<1>9. TypeOK'
  BY <1>1, <1>6, <1>8 DEF IInv, TypeOK, Unlocked
<1>10. Kept(q)
  BY <1>1, <1>2, <1>4, <1>6 DEF Kept, Known, RolesOf, Unlocked
<1>11. EveryTenantHasOwner'
  <2> SUFFICES ASSUME NEW x \in tenants PROVE Owners(x)' # {}
    BY <1>1 DEF EveryTenantHasOwner
  <2>1. CASE x = t
    <3>1. Owners(x)' = OwnersIn(Replaced(q), t)
      BY <1>1, <2>1 DEF Owners, OwnersIn
    <3> QED
      BY <1>2, <3>1
  <2>2. CASE x # t
    <3>1. PICK o \in Users : users[o] # None /\ users[o].tenant = x /\ "OWNER" \in users[o].roles
      BY DEF IInv, EveryTenantHasOwner, Owners, OwnersIn
    <3>2. o # u
      BY <1>2, <2>2, <3>1
    <3> QED
      BY <1>6, <3>1, <3>2 DEF Owners, OwnersIn
  <2> QED
    BY <2>1, <2>2
<1>12. OneAccountPerIdentity'
  BY <1>4, <1>6, <1>7 DEF OneAccountPerIdentity, IInv, Known
<1>13. RolesStayInTenant'
  <2>1. ASSUME NEW v \in Known' PROVE (users[v].roles \cap Roles \subseteq RolesOf(users[v].tenant))'
    <3>1. CASE v = u
      BY <1>1, <1>2, <1>4, <1>6, <3>1 DEF RolesOf, Insertable
    <3>2. CASE v # u
      BY <1>1, <1>6, <1>7, <2>1, <3>2 DEF RolesOf, IInv, RolesStayInTenant, Known
    <3> QED
      BY <3>1, <3>2
  <2>2. (\A i \in Invites : invites[i] # None =>
          {invites[i].role} \cap Roles \subseteq RolesOf(invites[i].tenant))'
    BY <1>1 DEF IInv, RolesStayInTenant, RolesOf
  <2> QED
    BY <2>1, <2>2 DEF RolesStayInTenant
<1>14. Acceptances'
  <2>1. \A p \in Requests : p # q => request'[p] = request[p]
    BY <1>8
  <2>2. request'[q].kind # "acceptInvite" /\ request[q].kind # "acceptInvite"
    BY <1>1, <1>8 DEF Idle
  <2> QED
    BY <1>1, <2>1, <2>2, AcceptancesKept
<1> QED
  BY <1>8, <1>9, <1>10, <1>11, <1>12, <1>13, <1>14, IdleKnows, Assemble

LEMMA DieInv ==
  ASSUME NEW q \in Requests, IInv, Die(q)
  PROVE  IInv'
<1>1. At(q, "acceptInvite", "mark") => request[q].invite \in Invites
  BY DEF At, IInv, RequestsKnow, Knows
<1> QED
  BY <1>1, ReturnStep DEF Die, IInv, TypeOK

-----------------------------------------------------------------------------
LEMMA StutterInv ==
  ASSUME IInv, UNCHANGED vars
  PROVE  IInv'
  BY DEF vars, IInv, TypeOK, RequestsKnow, Knows, EveryTenantHasOwner, OneAccountPerIdentity,
         RolesStayInTenant, Acceptances, OneAcceptance, Accepting, Known, Owners, OwnersIn,
         Replaced, RolesOf, Insertable

(* The invariant is inductive: every action of every request keeps it.     *)
THEOREM Inductive == Spec => []IInv
<1>1. IInv /\ [Next]_vars => IInv'
  <2> SUFFICES ASSUME IInv, [Next]_vars PROVE IInv'
    OBVIOUS
  <2>1. CASE UNCHANGED vars
    BY <2>1, StutterInv
  <2>2. ASSUME NEW i \in Invites, Expire(i) PROVE IInv'
    BY <2>2, ExpireInv
  <2>3. ASSUME NEW q \in Requests, Authorise(q) \/ BeginOnboarding(q) \/ BeginAccepting(q)
                                     \/ FindExisting(q) \/ CheckAssignable(q)
        PROVE  IInv'
    BY <2>3, AuthoriseInv, BeginOnboardingInv, BeginAcceptingInv, FindExistingInv, CheckAssignableInv
  <2>4. ASSUME NEW q \in Requests, OnboardTenant(q) \/ CreateUser(q) \/ CreateUserFromInvite(q)
                                     \/ MarkInviteAccepted(q) \/ CreateInvite(q)
        PROVE  IInv'
    BY <2>4, OnboardTenantInv, CreateUserInv, CreateUserFromInviteInv, MarkInviteAcceptedInv, CreateInviteInv
  <2>5. ASSUME NEW q \in Requests, CreateRole(q) \/ UpdateRole(q) \/ LockRoles(q) \/ CountOwners(q)
                                     \/ CommitRoles(q) \/ Die(q)
        PROVE  IInv'
    BY <2>5, CreateRoleInv, UpdateRoleInv, LockRolesInv, CountOwnersInv, CommitRolesInv, DieInv
  <2> QED
    BY <2>1, <2>2, <2>3, <2>4, <2>5 DEF Next
<1> QED
  BY <1>1, InitInv, PTL DEF Spec

(* The tables and the requests keep their types. *)
THEOREM TypeCorrect == Spec => []TypeOK
<1>1. IInv => TypeOK
  BY DEF IInv
<1> QED
  BY <1>1, Inductive, PTL

(* LAST_OWNER: whatever owners do to each other's roles at the same time,  *)
(* every tenant keeps an owner.                                            *)
THEOREM OwnersRemain == Spec => []EveryTenantHasOwner
<1>1. IInv => EveryTenantHasOwner
  BY DEF IInv
<1> QED
  BY <1>1, Inductive, PTL

(* One identity, one account, however many requests race for it. *)
THEOREM IdentitiesUnique == Spec => []OneAccountPerIdentity
<1>1. IInv => OneAccountPerIdentity
  BY DEF IInv
<1> QED
  BY <1>1, Inductive, PTL

(* A custom role is held and promised in its own tenant only. *)
THEOREM RolesStay == Spec => []RolesStayInTenant
<1>1. IInv => RolesStayInTenant
  BY DEF IInv
<1> QED
  BY <1>1, Inductive, PTL

(* An invite brings in one user, unless acceptances overlapped or died. *)
THEOREM InvitesSingleUse == Spec => []InviteReusedOnlyInARace
<1>1. IInv => InviteReusedOnlyInARace
  BY DEF IInv, Acceptances, OneAcceptance, InviteReusedOnlyInARace
<1> QED
  BY <1>1, Inductive, PTL
=============================================================================
