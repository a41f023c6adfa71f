------------------------------ MODULE Accounts ------------------------------
(***************************************************************************)
(* Accounts and roles of the dashboard: the tables users and roles, and    *)
(* the handlers that change them.  An account holds its role by NAME; a    *)
(* role row gives the name a rank and a set of permissions.  Everything    *)
(* rests on the hierarchy: an account may only touch accounts and roles    *)
(* that rank strictly lower than its own role.                             *)
(*                                                                         *)
(* A handler checks the permission, then reads the rows it decides on,     *)
(* hashes a password for some 250 ms, and writes with one or two           *)
(* statements; no transaction or lock holds these steps together.  So one  *)
(* handler is: Begin, a Check action, and the writes.  What it read is     *)
(* kept in its request until it writes.  The reads of one check are one    *)
(* step.  Usernames, colours and preferences are left out: no check        *)
(* depends on them (a request may carry a colour, which makes UpdateUser   *)
(* write its row).  A password is the account whose request has set it.    *)
(***************************************************************************)
EXTENDS Integers

CONSTANTS
  Names,       \* role names, those with no row among them
  MaxUsers,    \* bound: accounts ever created
  MaxRoles,    \* bound: role rows ever created
  Ranks,       \* ranks a request may carry, 0 when it carries none
  Grants,      \* permission sets a request may carry
  Handlers,    \* handlers that run at the same time
  MaxRequests, \* bound: requests that pass the permission check
  FirstUsers,  \* the accounts and the roles the process starts with
  FirstRoles

UserIds == 1..MaxUsers
RoleIds == 1..MaxRoles
Owner   == 1   \* the seeded account
OwnerRole == 1 \* and the row of its role

UserPerms == {"can_create_users", "can_edit_users", "can_delete_users"}
Perms     == UserPerms \cup {"can_manage_users", "can_manage_roles"}

\* No row yet, and a row that was deleted: a serial gives no id twice.
Nobody  == [role |-> "", pw |-> 0]
Deleted == [role |-> "", pw |-> 1]
NoRole  == [name |-> "", rank |-> 0, perms |-> {}]
Dropped == [name |-> "", rank |-> 1, perms |-> {}]

UserRows == [role : Names, pw : UserIds]
RoleRows == [name : Names, rank : 1..100, perms : SUBSET Perms]
Users == UserRows \cup {Nobody, Deleted}
Roles == RoleRows \cup {NoRole, Dropped}

ASSUME NamesAssumption ==
  "" \notin Names /\ {"owner", "admin", "client"} \subseteq Names
ASSUME BoundsAssumption ==
  /\ MaxUsers \in Nat \ {0} /\ MaxRoles \in Nat \ {0} /\ MaxRequests \in Nat
  /\ Ranks \subseteq Int /\ Grants \subseteq SUBSET Perms
ASSUME FirstAssumption ==
  /\ FirstUsers \in [UserIds -> Users] /\ FirstRoles \in [RoleIds -> Roles]
  /\ FirstUsers[Owner] = [role |-> "owner", pw |-> Owner]
  /\ \A u \in UserIds \ {Owner} : FirstUsers[u].role # "owner"
  /\ FirstRoles[OwnerRole].name = "owner" /\ FirstRoles[OwnerRole].rank = 100
  /\ \A i \in RoleIds \ {OwnerRole} : FirstRoles[i].rank < 100
  /\ \A i, j \in RoleIds : i # j /\ FirstRoles[i].name = FirstRoles[j].name
                              => FirstRoles[i].name = ""

VARIABLES
  users,    \* table users: id -> row
  roles,    \* table roles: id -> row
  request,  \* what each handler is doing
  count,    \* requests so far, at most MaxRequests
  ownerActed \* history: the owner has made a request

vars == <<users, roles, request, count, ownerActed>>

-----------------------------------------------------------------------------
(* Ranks and permissions. *)

\* domain.RoleRank: the rank of a name that has no row.
DomainRank(n) == CASE n = "owner"  -> 100
                   [] n = "admin"  -> 80
                   [] n = "viewer" -> 10
                   [] OTHER        -> 30

\* roleRank when the row is read: its rank, or the built-in one without a row.
RoleRank(n) ==
  IF \E i \in RoleIds : roles[i].name = n
    THEN roles[CHOOSE i \in RoleIds : roles[i].name = n].rank
    ELSE DomainRank(n)

RankOf(u) == RoleRank(users[u].role)

\* What a handler is told: after a read that fails the built-in rank, too.
RanksRead(n) == {RoleRank(n), DomainRank(n)}
ActorRanks(u) == RanksRead(users[u].role)

\* The hierarchy: u may give the role n, and touch the account t.
OutranksRole(u, n) == \E a \in ActorRanks(u), b \in RanksRead(n) : b < a
OutranksOrEquals(u, t) ==
  \E a \in ActorRanks(u), b \in ActorRanks(t) : b <= a
OutranksUnchecked(u, t) == TRUE
Outranks(u, t) == OutranksRole(u, users[t].role)

\* HasPermission: the coarse key grants the granular ones.
HasPermission(granted, p) ==
  p \in granted \/ (p \in UserPerms /\ "can_manage_users" \in granted)

\* enforcePermission; owner and admin are let through by the name of the role.
Enforce(u, p) ==
  \/ users[u].role \in {"owner", "admin"}
  \/ \E i \in RoleIds : /\ roles[i].name = users[u].role
                        /\ HasPermission(roles[i].perms, p)

\* rolePermissionsAllowed: nobody grants what he does not hold.
MayGrant(u, grants) == \A p \in grants : Enforce(u, p)

\* The rank a role request may give: below 100 and below the actor's.
RankGrantableUpTo(rank, actorRank) == rank <= actorRank
RankGrantable(rank, actorRank) == rank < 100 /\ rank < actorRank

Needs == [create_user |-> "can_create_users", update_user |-> "can_edit_users",
          reset_password |-> "can_edit_users", delete_user |-> "can_delete_users",
          create_role |-> "can_manage_roles", update_role |-> "can_manage_roles",
          delete_role |-> "can_manage_roles"]
Ops == {"create_user", "update_user", "reset_password", "delete_user",
        "create_role", "update_role", "delete_role", "own_password"}

\* A request: the step the handler is at, its account, what it is about, and
\* what it is going to write.  "then": the row is written after the password.
Requests == [pc : {"idle", "check", "password", "write"}, op : Ops,
             actor : UserIds, target : Nat, name : Names, rank : 0..100,
             perms : SUBSET Perms, then : BOOLEAN]
Idle == [pc |-> "idle", op |-> "own_password", actor |-> Owner, target |-> 0,
         name |-> "client", rank |-> 0, perms |-> {}, then |-> FALSE]

Init ==
  /\ users = FirstUsers /\ roles = FirstRoles
  /\ request = [h \in Handlers |-> Idle]
  /\ count = 0 /\ ownerActed = FALSE

At(h, pc, op) == request[h].pc = pc /\ request[h].op = op
Exists(u) == users[u].role # ""
Set(h, r) == request' = [request EXCEPT ![h] = r]
\* A check ends: the request goes on to its write, it changes no table.
Decide(h, r) == Set(h, r) /\ UNCHANGED <<users, roles, count, ownerActed>>

-----------------------------------------------------------------------------
(* Begin: the session's account holds the permission of the operation now. *)

\* The password reset is only routed for the owner; changing one's own
\* password needs a session only.
Begin(h) ==
  /\ request[h].pc = "idle" /\ count < MaxRequests
  /\ \E u \in UserIds, op \in Ops :
       /\ Exists(u)
       /\ op # "own_password" => Enforce(u, Needs[op])
       /\ op = "reset_password" => users[u].role = "owner"
       /\ Set(h, [Idle EXCEPT !.pc = "check", !.op = op, !.actor = u])
       /\ ownerActed' = (ownerActed \/ u = Owner)
  /\ count' = count + 1
  /\ UNCHANGED <<users, roles>>

\* A check refuses, the body is malformed, or a statement fails.
Fail(h) ==
  /\ request[h].pc # "idle"
  /\ Decide(h, Idle)

-----------------------------------------------------------------------------
(* Accounts. *)

\* The name need not have a row.
CheckCreateUser(h) ==
  /\ At(h, "check", "create_user") /\ Exists(request[h].actor)
  /\ \E n \in Names :
       /\ OutranksRole(request[h].actor, n) /\ n # "owner"
       /\ Decide(h, [request[h] EXCEPT !.pc = "write", !.name = n])

\* The account edits itself: any of password and colour, never the role.
CheckSelf(h) ==
  LET r == request[h] IN
  \E pw, colour \in BOOLEAN :
    /\ pw \/ colour
    /\ Decide(h, [r EXCEPT !.pc = IF pw THEN "password" ELSE "write",
                           !.target = r.actor, !.name = users[r.actor].role,
                           !.then = colour])

\* The account edits another one: password, colour, role (n) or all of them.
CheckOther(h) ==
  LET r == request[h] IN
  \E t \in UserIds \ {r.actor}, pw, row \in BOOLEAN, n \in Names :
    /\ Exists(t) /\ Outranks(r.actor, t)
    /\ n = users[t].role \/ (row /\ OutranksRole(r.actor, n))
    /\ n # "owner" /\ (pw \/ row)
    /\ Decide(h, [r EXCEPT !.pc = IF pw THEN "password" ELSE "write",
                           !.target = t, !.name = n, !.then = row])

CheckUpdateUser(h) ==
  /\ At(h, "check", "update_user") /\ Exists(request[h].actor)
  /\ CheckSelf(h) \/ CheckOther(h)

CheckResetPassword(h) ==
  LET r == request[h] IN
  /\ At(h, "check", "reset_password") /\ Exists(r.actor)
  /\ \E t \in UserIds \ {r.actor} :
       /\ Exists(t) /\ Outranks(r.actor, t)
       /\ Decide(h, [r EXCEPT !.pc = "password", !.target = t])

\* The current password is verified; the rank plays no part.
CheckOwnPassword(h) ==
  /\ At(h, "check", "own_password") /\ Exists(request[h].actor)
  /\ Decide(h, [request[h] EXCEPT !.pc = "password", !.target = request[h].actor])

\* The hierarchy is skipped when the actor's row is gone or its read fails.
DeletableOwner(u, t) ==
  \E found \in BOOLEAN :
    Exists(t) /\ (found => Exists(u) /\ Outranks(u, t))
Deletable(u, t) ==
  \E found \in BOOLEAN :
    /\ Exists(t) /\ (found => Exists(u) /\ Outranks(u, t))
    /\ users[t].role # "owner"
CheckDeleteUser(h) ==
  LET r == request[h] IN
  /\ At(h, "check", "delete_user")
  /\ \E t \in UserIds \ {r.actor} :
       /\ Deletable(r.actor, t)
       /\ Decide(h, [r EXCEPT !.pc = "write", !.target = t])

\* AddUser: a fresh id, since the serial never gives one twice.
CreateUser(h) ==
  /\ At(h, "write", "create_user")
  /\ \E u \in UserIds :
       /\ users[u] = Nobody
       /\ users' = [users EXCEPT ![u] =
                      [role |-> request[h].name, pw |-> request[h].actor]]
  /\ Set(h, Idle) /\ UNCHANGED <<roles, count, ownerActed>>

\* UpdateUserPassword: no effect on an account that is gone.
WritePassword(h) ==
  LET r == request[h] IN
  /\ r.pc = "password"
  /\ users' = IF Exists(r.target)
                THEN [users EXCEPT ![r.target].pw = r.actor] ELSE users
  /\ Set(h, IF r.then THEN [r EXCEPT !.pc = "write"] ELSE Idle)
  /\ UNCHANGED <<roles, count, ownerActed>>

\* UpdateUser writes the role the handler holds, read before the hash.
UpdateUser(h) ==
  LET r == request[h] IN
  /\ At(h, "write", "update_user")
  /\ users' = IF Exists(r.target)
                THEN [users EXCEPT ![r.target].role = r.name] ELSE users
  /\ Set(h, Idle) /\ UNCHANGED <<roles, count, ownerActed>>

DeleteUser(h) ==
  /\ At(h, "write", "delete_user")
  /\ users' = [users EXCEPT ![request[h].target] = Deleted]
  /\ Set(h, Idle) /\ UNCHANGED <<roles, count, ownerActed>>

-----------------------------------------------------------------------------
(* Roles. *)

\* A request without a rank creates a role of the viewer's.
DefaultRankMissing(k) == k
DefaultRank(k) == IF k < 1 THEN 10 ELSE k

CheckCreateRole(h) ==
  LET r == request[h] IN
  /\ At(h, "check", "create_role") /\ Exists(r.actor)
  /\ \E n \in Names, k \in Ranks, g \in Grants, a \in ActorRanks(r.actor) :
       LET rank == DefaultRank(k) IN
       /\ RankGrantable(rank, a) /\ MayGrant(r.actor, g)
       /\ Decide(h, [r EXCEPT !.pc = "write", !.name = n,
                              !.rank = rank, !.perms = g])

\* The role may be changed: it is not the owner's and ranks below the actor.
Modifiable(i, actorRank) ==
  /\ roles[i].name \notin {"", "owner"} /\ roles[i].rank < 100
  /\ roles[i].rank < actorRank

\* Fields the request leaves out keep the value that was read.
CheckUpdateRole(h) ==
  LET r == request[h] IN
  /\ At(h, "check", "update_role") /\ Exists(r.actor)
  /\ \E i \in RoleIds, n \in Names, k \in Ranks, g \in Grants,
        a \in ActorRanks(r.actor) :
       /\ Modifiable(i, a) /\ RankGrantable(k, a)
       /\ g = roles[i].perms \/ MayGrant(r.actor, g)
       /\ Decide(h, [r EXCEPT !.pc = "write", !.target = i, !.name = n,
                              !.rank = IF k < 1 THEN roles[i].rank ELSE k,
                              !.perms = g])

\* The users of the role are counted; a count that fails stops nothing.
CheckDeleteRole(h) ==
  LET r == request[h] IN
  /\ At(h, "check", "delete_role") /\ Exists(r.actor)
  /\ \E i \in RoleIds, a \in ActorRanks(r.actor), counted \in BOOLEAN :
       /\ Modifiable(i, a)
       /\ counted => \A u \in UserIds : users[u].role # roles[i].name
       /\ Decide(h, [r EXCEPT !.pc = "write", !.target = i])

\* The name of a role is unique in the table.
NameFree(n, i) == \A j \in RoleIds \ {i} : roles[j].name # n

CreateRole(h) ==
  LET r == request[h] IN
  /\ At(h, "write", "create_role")
  /\ \E i \in RoleIds :
       /\ roles[i] = NoRole /\ NameFree(r.name, i)
       /\ roles' = [roles EXCEPT ![i] =
                      [name |-> r.name, rank |-> r.rank, perms |-> r.perms]]
  /\ Set(h, Idle) /\ UNCHANGED <<users, count, ownerActed>>

\* The whole row is written back; the accounts that hold the old name keep it.
UpdateRole(h) ==
  LET r == request[h] IN
  /\ At(h, "write", "update_role") /\ NameFree(r.name, r.target)
  /\ roles' = IF roles[r.target].name = "" THEN roles
              ELSE [roles EXCEPT ![r.target] =
                      [name |-> r.name, rank |-> r.rank, perms |-> r.perms]]
  /\ Set(h, Idle) /\ UNCHANGED <<users, count, ownerActed>>

DeleteRole(h) ==
  /\ At(h, "write", "delete_role")
  /\ roles' = [roles EXCEPT ![request[h].target] = Dropped]
  /\ Set(h, Idle) /\ UNCHANGED <<users, count, ownerActed>>

-----------------------------------------------------------------------------
Next ==
  \E h \in Handlers :
    \/ Begin(h) \/ Fail(h)
    \/ CheckCreateUser(h) \/ CheckUpdateUser(h) \/ CheckResetPassword(h)
    \/ CheckOwnPassword(h) \/ CheckDeleteUser(h)
    \/ CreateUser(h) \/ WritePassword(h) \/ UpdateUser(h) \/ DeleteUser(h)
    \/ CheckCreateRole(h) \/ CheckUpdateRole(h) \/ CheckDeleteRole(h)
    \/ CreateRole(h) \/ UpdateRole(h) \/ DeleteRole(h)

Spec == Init /\ [][Next]_vars

-----------------------------------------------------------------------------
\* Types: the tables hold well-formed rows, a request is one of Requests.
TypeOK ==
  /\ users \in [UserIds -> Users]
  /\ roles \in [RoleIds -> Roles]
  /\ request \in [Handlers -> Requests]
  /\ count \in 0..MaxRequests /\ ownerActed \in BOOLEAN

\* The seeded account is the owner and stays the only one, whatever requests
\* are under way with rows that have changed since they read them.
SoleOwner == \A u \in UserIds : users[u].role = "owner" <=> u = Owner

\* The rank of the owner's role is out of reach: every other account ranks
\* strictly below 100, by its row or by the built-in rank of its name.
OwnerOutranksAll ==
  /\ RankOf(Owner) = 100
  /\ \A u \in UserIds \ {Owner} : Exists(u) => RankOf(u) < 100

\* Only the owner himself sets the owner's password, so no chain of edits and
\* promotions lets another account take it over.
OwnerKeepsPassword == users[Owner].pw = Owner

\* The accounts of the admin's rank or above.
Peers == {u \in UserIds : Exists(u) /\ RankOf(u) >= 80}

FirstPeers == {u \in UserIds : FirstUsers[u].role \in {"owner", "admin"}}

\* As long as the owner does nothing, no chain of requests raises an account to
\* the admins' rank, and nobody demotes an admin or sets his password.
PeersUntouched ==
  \/ ownerActed
  \/ /\ Peers \subseteq FirstPeers
     /\ \A u \in FirstPeers : Exists(u) => u \in Peers /\ users[u].pw = u
=============================================================================
