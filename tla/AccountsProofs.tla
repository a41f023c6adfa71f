--------------------------- MODULE AccountsProofs ---------------------------
(***************************************************************************)
(* The seeded account stays the only owner, keeps its password and         *)
(* outranks everybody, for any number of accounts, roles and handlers.     *)
(*                                                                         *)
(* The tables alone are not inductive: a handler writes what it read some  *)
(* steps ago.  The strengthening says what every pending write may hold,   *)
(* that names are unique in the table of roles, and that the owner's row   *)
(* is never the target of a role request.                                  *)
(* The admins need more, at the end: as long as the owner does nothing, no *)
(* request under way has the owner behind it, and what it may still write  *)
(* neither touches the two top roles nor changes an account that has one.  *)
(***************************************************************************)
EXTENDS Accounts, TLAPS

UniqueNames == \A i, j \in RoleIds :
                 i # j /\ roles[i].name = roles[j].name => roles[i].name = ""
OwnerRow    == roles[OwnerRole].name = "owner" /\ roles[OwnerRole].rank = 100
OthersBelow == \A i \in RoleIds \ {OwnerRole} : roles[i].rank < 100

\* What a request that has passed its check is going to write.
PendingOK(r) ==
  /\ r.then => r.op = "update_user"
  /\ r.pc = "password" => /\ r.target \in UserIds
                          /\ r.target = Owner => r.actor = Owner
  /\ r.op = "update_user" /\ r.pc \in {"password", "write"} =>
       r.target \in UserIds /\ (r.name = "owner" <=> r.target = Owner)
  /\ r.op = "delete_user" /\ r.pc = "write" => r.target \in UserIds \ {Owner}
  /\ r.op = "create_user" /\ r.pc = "write" => r.name # "owner"
  /\ r.op \in {"create_role", "update_role"} /\ r.pc = "write" => r.rank \in 1..99
  /\ r.op \in {"update_role", "delete_role"} /\ r.pc = "write" =>
       r.target \in RoleIds \ {OwnerRole}
Pending == \A h \in Handlers : PendingOK(request[h])

Tables == UniqueNames /\ OwnerRow /\ OthersBelow /\ SoleOwner /\ OwnerKeepsPassword
Inv    == TypeOK /\ Tables /\ Pending

USE DEF Owner, OwnerRole

LEMMA Ids == /\ UserIds \subseteq Nat /\ RoleIds \subseteq Nat
             /\ Owner \in UserIds /\ OwnerRole \in RoleIds
  BY BoundsAssumption DEF UserIds, RoleIds

\* A row that exists is a proper one.
LEMMA Rows ==
  ASSUME TypeOK
  PROVE  /\ \A u \in UserIds : Exists(u) => users[u] \in UserRows
         /\ \A i \in RoleIds : roles[i].name # "" => roles[i] \in RoleRows
<1>1. Nobody.role = "" /\ Deleted.role = "" /\ NoRole.name = "" /\ Dropped.name = ""
  BY DEF Nobody, Deleted, NoRole, Dropped
<1>2. users \in [UserIds -> Users] /\ roles \in [RoleIds -> Roles]
  BY DEF TypeOK
<1>3. ASSUME NEW u \in UserIds, Exists(u) PROVE users[u] \in UserRows
  BY <1>1, <1>2, <1>3 DEF Users, Exists
<1>4. ASSUME NEW i \in RoleIds, roles[i].name # "" PROVE roles[i] \in RoleRows
  BY <1>1, <1>2, <1>4 DEF Roles
<1> QED BY <1>3, <1>4

\* roleRank: 100 for the name "owner" only.
LEMMA RankBounds ==
  ASSUME TypeOK, UniqueNames, OwnerRow, OthersBelow, NEW n \in Names
  PROVE  RoleRank(n) \in 1..100 /\ (RoleRank(n) < 100 <=> n # "owner")
<1>1. OwnerRole \in RoleIds
  BY Ids
<1>2. CASE \E i \in RoleIds : roles[i].name = n
  <2> DEFINE k == CHOOSE i \in RoleIds : roles[i].name = n
  <2>1. k \in RoleIds /\ roles[k].name = n
    BY <1>2
  <2>2. RoleRank(n) = roles[k].rank
    BY <1>2 DEF RoleRank
  <2> HIDE DEF k
  <2>3. roles[k].rank \in 1..100
    BY <2>1, Rows, NamesAssumption DEF RoleRows
  <2>4. CASE n = "owner"
    <3>1. roles[k].name = roles[OwnerRole].name /\ roles[k].name # ""
      BY <2>1, <2>4, NamesAssumption DEF OwnerRow
    <3>2. k = OwnerRole
      BY <2>1, <3>1, <1>1 DEF UniqueNames
    <3> QED BY <3>2, <2>2, <2>4 DEF OwnerRow
  <2>5. CASE n # "owner"
    <3>1. k # OwnerRole
      BY <2>1, <2>5 DEF OwnerRow
    <3> QED BY <3>1, <2>1, <2>2, <2>3, <2>5 DEF OthersBelow
  <2> QED BY <2>4, <2>5
<1>3. CASE ~ \E i \in RoleIds : roles[i].name = n
  <2>1. n # "owner"
    BY <1>1, <1>3 DEF OwnerRow
  <2>2. RoleRank(n) = DomainRank(n)
    BY <1>3 DEF RoleRank
  <2> QED BY <2>1, <2>2 DEF DomainRank
<1> QED BY <1>2, <1>3

\* A read that fails says 100 for "owner" and no other name, too.
LEMMA ReadBounds ==
  ASSUME TypeOK, UniqueNames, OwnerRow, OthersBelow, NEW n \in Names,
         NEW a \in RanksRead(n)
  PROVE  a \in 1..100 /\ (a < 100 <=> n # "owner")
<1>1. DomainRank(n) \in 1..100 /\ (DomainRank(n) < 100 <=> n # "owner")
  BY DEF DomainRank
<1> QED BY <1>1, RankBounds DEF RanksRead

\* Whoever is outranked is not the owner.
LEMMA Outranked ==
  ASSUME TypeOK, Tables, NEW u \in UserIds, NEW v \in UserIds,
         Exists(u), Exists(v), Outranks(v, u)
  PROVE  u # Owner
<1>1. users[u].role \in Names /\ users[v].role \in Names
  BY Rows DEF UserRows
<1>2. PICK a \in RanksRead(users[v].role), b \in RanksRead(users[u].role) : b < a
  BY DEF Outranks, OutranksRole, ActorRanks
<1>3. users[u].role # "owner"
  <2>1. a \in 1..100 /\ b \in 1..100 /\ (b < 100 <=> users[u].role # "owner")
    BY <1>1, ReadBounds DEF Tables
  <2> QED BY <1>2, <2>1
<1> QED BY <1>3 DEF Tables, SoleOwner

\* A step that changes one request only keeps the invariant when the request it
\* leaves is well formed.
LEMMA SetKeeps ==
  ASSUME Inv, NEW h \in Handlers, NEW r \in Requests, PendingOK(r), Set(h, r),
         UNCHANGED <<users, roles>>, ownerActed' \in BOOLEAN, count' \in 0..MaxRequests
  PROVE  Inv'
<1>1. TypeOK'
  BY DEF Inv, TypeOK, Set
<1>2. Tables'
  BY ZenonT(60) DEF Inv, Tables, UniqueNames, OwnerRow, OthersBelow, SoleOwner, OwnerKeepsPassword
<1>3. Pending'
  BY DEF Inv, TypeOK, Pending, Set
<1> QED BY <1>1, <1>2, <1>3 DEF Inv

\* The record of a handler at rest.
LEMMA IdleOK == Idle \in Requests /\ PendingOK(Idle)
<1>1. Owner \in UserIds
  BY Ids
<1>2. "client" \in Names
  BY NamesAssumption
<1> QED BY <1>1, <1>2 DEF Idle, Requests, Ops, PendingOK

LEMMA InitInv == Init => Inv
<1> SUFFICES ASSUME Init PROVE Inv
  OBVIOUS
<1>1. TypeOK
  <2>1. Idle \in Requests
    BY IdleOK
  <2>2. users \in [UserIds -> Users] /\ roles \in [RoleIds -> Roles]
    BY FirstAssumption DEF Init
  <2>3. count \in 0..MaxRequests
    BY BoundsAssumption DEF Init
  <2>5. ownerActed \in BOOLEAN
    BY DEF Init
  <2>4. request \in [Handlers -> Requests]
    BY <2>1 DEF Init
  <2> QED BY <2>2, <2>3, <2>4, <2>5 DEF TypeOK
<1>2. Tables
  <2>1. UniqueNames /\ OwnerRow /\ OthersBelow
    BY ZenonT(60), FirstAssumption DEF Init, UniqueNames, OwnerRow, OthersBelow
  <2>2. users[Owner] = [role |-> "owner", pw |-> Owner]
    BY FirstAssumption DEF Init
  <2>3. \A u \in UserIds \ {Owner} : users[u].role # "owner"
    BY FirstAssumption DEF Init
  <2>4. SoleOwner
    BY <2>2, <2>3 DEF SoleOwner
  <2>5. OwnerKeepsPassword
    BY <2>2 DEF OwnerKeepsPassword
  <2> QED BY <2>1, <2>4, <2>5 DEF Tables
<1>3. Pending
  BY DEF Init, Pending, PendingOK, Idle
<1> QED BY <1>1, <1>2, <1>3 DEF Inv

-----------------------------------------------------------------------------
(* One lemma per kind of step. *)

\* A check moves its request on and changes no table.
LEMMA DecideKeeps ==
  ASSUME Inv, NEW h \in Handlers, NEW r \in Requests, PendingOK(r), Decide(h, r)
  PROVE  Inv'
<1>1. ownerActed' \in BOOLEAN /\ count' \in 0..MaxRequests
  BY DEF Inv, TypeOK, Decide
<1> QED BY <1>1, SetKeeps DEF Decide

LEMMA BeginKeeps ==
  ASSUME Inv, NEW h \in Handlers, Begin(h)
  PROVE  Inv'
<1>1. PICK u \in UserIds, op \in Ops :
        /\ Set(h, [Idle EXCEPT !.pc = "check", !.op = op, !.actor = u])
        /\ ownerActed' = (ownerActed \/ u = Owner)
  BY DEF Begin
<1> DEFINE r == [Idle EXCEPT !.pc = "check", !.op = op, !.actor = u]
<1>2. r \in Requests
  BY IdleOK DEF Requests
<1>3. PendingOK(r)
  BY DEF PendingOK, Idle
<1>4. count' \in 0..MaxRequests
  BY BoundsAssumption DEF Begin, Inv, TypeOK
<1>5. ownerActed' \in BOOLEAN
  BY <1>1 DEF Inv, TypeOK
<1> QED BY <1>1, <1>2, <1>3, <1>4, <1>5, SetKeeps DEF Begin

LEMMA CheckAccountKeeps ==
  ASSUME Inv, NEW h \in Handlers,
         \/ CheckCreateUser(h) \/ CheckUpdateUser(h) \/ CheckResetPassword(h)
         \/ CheckOwnPassword(h) \/ CheckDeleteUser(h)
  PROVE  Inv'
<1> DEFINE q == request[h]
<1>0. q \in Requests
  BY DEF Inv, TypeOK
<1>1. ASSUME CheckCreateUser(h) PROVE Inv'
  <2>1. PICK n \in Names : n # "owner"
                  /\ Decide(h, [q EXCEPT !.pc = "write", !.name = n])
    BY <1>1 DEF CheckCreateUser
  <2>2. q.then => q.op = "update_user"
    BY DEF Inv, Pending, PendingOK
  <2>3. [q EXCEPT !.pc = "write", !.name = n] \in Requests
    BY <1>0 DEF Requests
  <2>4. PendingOK([q EXCEPT !.pc = "write", !.name = n])
    BY <1>0, <1>1, <2>1, <2>2 DEF PendingOK, Requests, CheckCreateUser, At
  <2> QED BY <2>1, <2>3, <2>4, DecideKeeps
<1>2. ASSUME CheckSelf(h), CheckUpdateUser(h) PROVE Inv'
  <2>1. PICK pw \in BOOLEAN, colour \in BOOLEAN :
          Decide(h, [q EXCEPT !.pc = IF pw THEN "password" ELSE "write",
                       !.target = q.actor, !.name = users[q.actor].role,
                       !.then = colour])
    BY <1>2 DEF CheckSelf
  <2> DEFINE r == [q EXCEPT !.pc = IF pw THEN "password" ELSE "write",
                       !.target = q.actor, !.name = users[q.actor].role,
                       !.then = colour]
  <2>2. q.actor \in UserIds /\ q.actor \in Nat /\ users[q.actor].role \in Names
    <3>1. q.actor \in UserIds /\ Exists(q.actor)
      BY <1>0, <1>2 DEF Requests, CheckUpdateUser
    <3>2. users[q.actor] \in UserRows
      BY <3>1, Rows DEF Inv
    <3> QED BY <3>1, <3>2, Ids DEF UserRows
  <2>3. r \in Requests
    BY <1>0, <2>2 DEF Requests
  <2>4. users[q.actor].role = "owner" <=> q.actor = Owner
    BY <2>2 DEF Inv, Tables, SoleOwner
  <2>5. /\ r.pc \in {"password", "write"} /\ r.op = "update_user"
        /\ r.target = q.actor /\ r.actor = q.actor
        /\ r.name = users[q.actor].role
    BY <1>0, <1>2 DEF Requests, CheckUpdateUser, At
  <2>6. PendingOK(r)
    <3> HIDE DEF r
    <3> QED BY <2>2, <2>4, <2>5 DEF PendingOK
  <2> QED BY <2>1, <2>3, <2>6, DecideKeeps
<1>3. ASSUME CheckOther(h), CheckUpdateUser(h) PROVE Inv'
  <2>1. PICK t \in UserIds \ {q.actor}, pw \in BOOLEAN, row \in BOOLEAN, n \in Names :
          /\ Exists(t) /\ Outranks(q.actor, t) /\ n # "owner"
          /\ Decide(h, [q EXCEPT !.pc = IF pw THEN "password" ELSE "write",
                           !.target = t, !.name = n, !.then = row])
    BY <1>3 DEF CheckOther
  <2> DEFINE r == [q EXCEPT !.pc = IF pw THEN "password" ELSE "write",
                           !.target = t, !.name = n, !.then = row]
  <2>2. t # Owner
    BY <1>0, <1>3, <2>1, Outranked DEF Requests, CheckUpdateUser, Inv
  <2>3. r \in Requests
    BY <1>0, <2>1, Ids DEF Requests
  <2>4. /\ r.pc \in {"password", "write"} /\ r.op = "update_user"
        /\ r.target = t /\ r.name = n
    BY <1>0, <1>3 DEF Requests, CheckUpdateUser, At
  <2>5. PendingOK(r)
    <3> HIDE DEF r
    <3> QED BY <2>1, <2>2, <2>4 DEF PendingOK
  <2> QED BY <2>1, <2>3, <2>5, DecideKeeps
<1>4. ASSUME CheckResetPassword(h) PROVE Inv'
  <2>1. PICK t \in UserIds \ {q.actor} :
          /\ Exists(t) /\ Outranks(q.actor, t)
          /\ Decide(h, [q EXCEPT !.pc = "password", !.target = t])
    BY <1>4 DEF CheckResetPassword
  <2> DEFINE r == [q EXCEPT !.pc = "password", !.target = t]
  <2>2. t # Owner
    BY <1>0, <1>4, <2>1, Outranked DEF Requests, CheckResetPassword, Inv
  <2>3. r \in Requests
    BY <1>0, <2>1, Ids DEF Requests
  <2>4. q.then => q.op = "update_user"
    BY DEF Inv, Pending, PendingOK
  <2>5. /\ r.pc = "password" /\ r.op = "reset_password" /\ r.target = t
        /\ r.then = q.then /\ q.op = "reset_password"
    BY <1>0, <1>4 DEF Requests, CheckResetPassword, At
  <2>6. PendingOK(r)
    <3> HIDE DEF r
    <3> QED BY <2>1, <2>2, <2>4, <2>5 DEF PendingOK
  <2> QED BY <2>1, <2>3, <2>6, DecideKeeps
<1>5. ASSUME CheckOwnPassword(h) PROVE Inv'
  <2> DEFINE r == [q EXCEPT !.pc = "password", !.target = q.actor]
  <2>1. r \in Requests
    BY <1>0, Ids DEF Requests
  <2>2. q.then => q.op = "update_user"
    BY DEF Inv, Pending, PendingOK
  <2>3. /\ r.pc = "password" /\ r.op = "own_password" /\ r.target = q.actor
        /\ r.actor = q.actor /\ r.then = q.then /\ q.op = "own_password"
        /\ q.actor \in UserIds
    BY <1>0, <1>5 DEF Requests, CheckOwnPassword, At
  <2>4. PendingOK(r)
    <3> HIDE DEF r
    <3> QED BY <2>2, <2>3 DEF PendingOK
  <2> QED BY <1>5, <2>1, <2>4, DecideKeeps DEF CheckOwnPassword
<1>6. ASSUME CheckDeleteUser(h) PROVE Inv'
  <2>1. PICK t \in UserIds \ {q.actor} :
          /\ users[t].role # "owner"
          /\ Decide(h, [q EXCEPT !.pc = "write", !.target = t])
    BY <1>6 DEF CheckDeleteUser, Deletable
  <2> DEFINE r == [q EXCEPT !.pc = "write", !.target = t]
  <2>2. t # Owner
    BY <2>1 DEF Inv, Tables, SoleOwner
  <2>3. r \in Requests
    BY <1>0, <2>1, Ids DEF Requests
  <2>4. q.then => q.op = "update_user"
    BY DEF Inv, Pending, PendingOK
  <2>5. /\ r.pc = "write" /\ r.op = "delete_user" /\ r.target = t
        /\ r.then = q.then /\ q.op = "delete_user"
    BY <1>0, <1>6 DEF Requests, CheckDeleteUser, At
  <2>6. PendingOK(r)
    <3> HIDE DEF r
    <3> QED BY <2>1, <2>2, <2>4, <2>5 DEF PendingOK
  <2> QED BY <2>1, <2>3, <2>6, DecideKeeps
<1> QED BY <1>1, <1>2, <1>3, <1>4, <1>5, <1>6 DEF CheckUpdateUser

LEMMA CheckRoleKeeps ==
  ASSUME Inv, NEW h \in Handlers,
         CheckCreateRole(h) \/ CheckUpdateRole(h) \/ CheckDeleteRole(h)
  PROVE  Inv'
<1> DEFINE q == request[h]
<1>0. q \in Requests /\ (q.then => q.op = "update_user")
  BY DEF Inv, TypeOK, Pending, PendingOK
<1>1. ASSUME CheckCreateRole(h) PROVE Inv'
  <2>1. PICK n \in Names, k \in Ranks, g \in Grants, a \in ActorRanks(q.actor) :
          /\ RankGrantable(DefaultRank(k), a)
          /\ Decide(h, [q EXCEPT !.pc = "write", !.name = n,
                           !.rank = DefaultRank(k), !.perms = g])
    BY <1>1 DEF CheckCreateRole
  <2> DEFINE rank == DefaultRank(k)
             r == [q EXCEPT !.pc = "write", !.name = n, !.rank = rank, !.perms = g]
  <2>2. rank \in 1..99
    BY <2>1, BoundsAssumption DEF RankGrantable, DefaultRank
  <2>3. g \in SUBSET Perms
    BY BoundsAssumption
  <2>4. r \in Requests
    <3> HIDE DEF rank
    <3>1. rank \in 0..100
      BY <2>2
    <3> QED BY <1>0, <2>3, <3>1 DEF Requests
  <2>5. /\ r.pc = "write" /\ r.op = "create_role" /\ r.rank = rank
        /\ r.then = q.then /\ q.op = "create_role"
    <3> HIDE DEF rank
    <3> QED BY <1>0, <1>1 DEF Requests, CheckCreateRole, At
  <2>6. PendingOK(r)
    <3> HIDE DEF r, rank
    <3> QED BY <1>0, <2>2, <2>5 DEF PendingOK
  <2> QED BY <2>1, <2>4, <2>6, DecideKeeps
<1>2. ASSUME CheckUpdateRole(h) PROVE Inv'
  <2>1. PICK i \in RoleIds, n \in Names, k \in Ranks, g \in Grants,
             a \in ActorRanks(q.actor) :
          /\ Modifiable(i, a) /\ RankGrantable(k, a)
          /\ Decide(h, [q EXCEPT !.pc = "write", !.target = i, !.name = n,
                           !.rank = IF k < 1 THEN roles[i].rank ELSE k,
                           !.perms = g])
    BY <1>2 DEF CheckUpdateRole
  <2> DEFINE rank == IF k < 1 THEN roles[i].rank ELSE k
             r == [q EXCEPT !.pc = "write", !.target = i, !.name = n,
                            !.rank = rank, !.perms = g]
  <2>2. i # OwnerRole /\ roles[i] \in RoleRows /\ roles[i].rank < 100
    BY <2>1, Rows DEF Modifiable, Inv, Tables, OwnerRow
  <2>3. roles[i].rank \in 1..99
    BY <2>2 DEF RoleRows
  <2>4. rank \in 1..99
    BY <2>1, <2>3, BoundsAssumption DEF RankGrantable
  <2>5. g \in SUBSET Perms
    BY BoundsAssumption
  <2>6. r \in Requests
    <3> HIDE DEF rank
    <3>1. rank \in 0..100 /\ i \in Nat
      BY <2>4, Ids
    <3> QED BY <1>0, <2>5, <3>1 DEF Requests
  <2>7. /\ r.pc = "write" /\ r.op = "update_role" /\ r.rank = rank
        /\ r.target = i /\ r.then = q.then /\ q.op = "update_role"
    <3> HIDE DEF rank
    <3> QED BY <1>0, <1>2 DEF Requests, CheckUpdateRole, At
  <2>8. PendingOK(r)
    <3> HIDE DEF r, rank
    <3> QED BY <1>0, <2>1, <2>2, <2>4, <2>7 DEF PendingOK
  <2> QED BY <2>1, <2>6, <2>8, DecideKeeps
<1>3. ASSUME CheckDeleteRole(h) PROVE Inv'
  <2>1. PICK i \in RoleIds, a \in ActorRanks(q.actor) :
          /\ Modifiable(i, a)
          /\ Decide(h, [q EXCEPT !.pc = "write", !.target = i])
    BY <1>3 DEF CheckDeleteRole
  <2> DEFINE r == [q EXCEPT !.pc = "write", !.target = i]
  <2>2. i # OwnerRole
    BY <2>1 DEF Modifiable, Inv, Tables, OwnerRow
  <2>3. r \in Requests
    BY <1>0, <2>1, Ids DEF Requests
  <2>4. /\ r.pc = "write" /\ r.op = "delete_role" /\ r.target = i
        /\ r.then = q.then /\ q.op = "delete_role"
    BY <1>0, <1>3 DEF Requests, CheckDeleteRole, At
  <2>5. PendingOK(r)
    <3> HIDE DEF r
    <3> QED BY <1>0, <2>1, <2>2, <2>4 DEF PendingOK
  <2> QED BY <2>1, <2>3, <2>5, DecideKeeps
<1> QED BY <1>1, <1>2, <1>3

\* What a write to users must respect, given that its request is over.
LEMMA UsersKeep ==
  ASSUME Inv, NEW h \in Handlers, NEW u \in UserIds, NEW row \in Users,
         users' = [users EXCEPT ![u] = row],
         row.role = "owner" <=> u = Owner, u = Owner => row.pw = Owner,
         NEW r \in Requests, PendingOK(r), Set(h, r),
         UNCHANGED <<roles, count, ownerActed>>
  PROVE  Inv'
<1>1. TypeOK'
  BY DEF Inv, TypeOK, Set
<1>2. UniqueNames' /\ OwnerRow' /\ OthersBelow'
  BY DEF Inv, Tables, UniqueNames, OwnerRow, OthersBelow
<1>3. SoleOwner' /\ OwnerKeepsPassword'
  BY DEF Inv, TypeOK, Tables, SoleOwner, OwnerKeepsPassword
<1>4. Pending'
  BY DEF Inv, TypeOK, Pending, Set
<1> QED BY <1>1, <1>2, <1>3, <1>4 DEF Inv, Tables

\* What a write to roles must respect.
LEMMA RolesKeep ==
  ASSUME Inv, NEW h \in Handlers, NEW i \in RoleIds \ {OwnerRole}, NEW row \in Roles,
         roles' = [roles EXCEPT ![i] = row], row.rank < 100,
         row.name = "" \/ NameFree(row.name, i),
         Set(h, Idle), UNCHANGED <<users, count, ownerActed>>
  PROVE  Inv'
<1>1. TypeOK'
  BY IdleOK DEF Inv, TypeOK, Set
<1>2. UniqueNames'
  BY DEF Inv, TypeOK, Tables, UniqueNames, NameFree
<1>3. OwnerRow'
  <2>1. roles \in [RoleIds -> Roles] /\ OwnerRole \in RoleIds /\ i # OwnerRole
    BY Ids DEF Inv, TypeOK
  <2>2. roles'[OwnerRole] = roles[OwnerRole]
    BY <2>1
  <2> QED BY <2>2 DEF Inv, Tables, OwnerRow
<1>6. OthersBelow'
  BY DEF Inv, TypeOK, Tables, OthersBelow
<1>4. SoleOwner' /\ OwnerKeepsPassword'
  BY DEF Inv, Tables, SoleOwner, OwnerKeepsPassword
<1>5. Pending'
  BY IdleOK DEF Inv, TypeOK, Pending, Set
<1> QED BY <1>1, <1>2, <1>3, <1>4, <1>5, <1>6 DEF Inv, Tables

LEMMA WriteAccountKeeps ==
  ASSUME Inv, NEW h \in Handlers,
         CreateUser(h) \/ WritePassword(h) \/ UpdateUser(h) \/ DeleteUser(h)
  PROVE  Inv'
<1> DEFINE q == request[h]
<1>0. q \in Requests /\ PendingOK(q)
  BY DEF Inv, TypeOK, Pending
<1>1. ASSUME CreateUser(h) PROVE Inv'
  <2>1. PICK u \in UserIds :
          /\ users[u] = Nobody
          /\ users' = [users EXCEPT ![u] = [role |-> q.name, pw |-> q.actor]]
    BY <1>1 DEF CreateUser
  <2>2. q.name # "owner"
    BY <1>0, <1>1 DEF CreateUser, At, PendingOK
  <2>3. u # Owner
    <3>1. users[u].role # "owner"
      <4>1. Nobody.role = ""
        BY DEF Nobody
      <4>2. "" # "owner"
        BY NamesAssumption
      <4> QED BY <2>1, <4>1, <4>2
    <3> QED BY <3>1, Ids DEF Inv, Tables, SoleOwner
  <2>4. [role |-> q.name, pw |-> q.actor] \in Users
    BY <1>0 DEF Requests, Users, UserRows
  <2> QED BY <1>1, <2>1, <2>2, <2>3, <2>4, IdleOK, UsersKeep DEF CreateUser
<1>2. ASSUME WritePassword(h) PROVE Inv'
  <2> DEFINE r == IF q.then THEN [q EXCEPT !.pc = "write"] ELSE Idle
  <2>1. /\ Set(h, r) /\ UNCHANGED <<roles, count, ownerActed>>
        /\ q.pc = "password"
    BY <1>2 DEF WritePassword
  <2>2. r \in Requests
    BY <1>0, IdleOK DEF Requests
  <2>3. PendingOK(r)
    <3>1. CASE q.then
      <4>1. /\ r.pc = "write" /\ r.op = q.op /\ r.target = q.target
            /\ r.name = q.name /\ r.then = q.then /\ q.op = "update_user"
        BY <1>0, <3>1 DEF Requests, PendingOK
      <4> HIDE DEF r
      <4> QED BY <1>0, <2>1, <4>1 DEF PendingOK
    <3>2. CASE ~ q.then
      BY <3>2, IdleOK
    <3> QED BY <3>1, <3>2
  <2>4. q.target \in UserIds /\ (q.target = Owner => q.actor = Owner)
    BY <1>0, <2>1 DEF PendingOK
  <2> HIDE DEF r
  <2>5. CASE Exists(q.target)
    <3> DEFINE row == [users[q.target] EXCEPT !.pw = q.actor]
    <3>1. users' = [users EXCEPT ![q.target] = row]
      BY <1>2, <2>5 DEF WritePassword
    <3>2. users[q.target] \in UserRows
      BY <2>4, <2>5, Rows DEF Inv
    <3>3. /\ row \in Users /\ row.role = users[q.target].role /\ row.pw = q.actor
      BY <1>0, <3>2 DEF Requests, Users, UserRows
    <3>4. row.role = "owner" <=> q.target = Owner
      BY <2>4, <3>3 DEF Inv, Tables, SoleOwner
    <3> HIDE DEF row
    <3> QED BY <2>1, <2>2, <2>3, <2>4, <3>1, <3>3, <3>4, UsersKeep
  <2>6. CASE ~ Exists(q.target)
    <3>1. UNCHANGED <<users, roles>>
      BY <1>2, <2>6 DEF WritePassword
    <3>2. ownerActed' \in BOOLEAN /\ count' \in 0..MaxRequests
      BY <2>1 DEF Inv, TypeOK
    <3> QED BY <2>1, <2>2, <2>3, <3>1, <3>2, SetKeeps
  <2> QED BY <2>5, <2>6
<1>3. ASSUME UpdateUser(h) PROVE Inv'
  <2>1. /\ Set(h, Idle) /\ UNCHANGED <<roles, count, ownerActed>>
        /\ q.pc = "write" /\ q.op = "update_user"
    BY <1>3 DEF UpdateUser, At
  <2>2. q.target \in UserIds /\ (q.name = "owner" <=> q.target = Owner)
    BY <1>0, <2>1 DEF PendingOK
  <2>3. CASE Exists(q.target)
    <3> DEFINE row == [users[q.target] EXCEPT !.role = q.name]
    <3>1. users' = [users EXCEPT ![q.target] = row]
      BY <1>3, <2>3 DEF UpdateUser
    <3>2. users[q.target] \in UserRows
      BY <2>2, <2>3, Rows DEF Inv
    <3>3. /\ row \in Users /\ row.role = q.name /\ row.pw = users[q.target].pw
      BY <1>0, <3>2 DEF Requests, Users, UserRows
    <3>4. q.target = Owner => row.pw = Owner
      BY <3>3 DEF Inv, Tables, OwnerKeepsPassword
    <3> HIDE DEF row
    <3> QED BY <2>1, <2>2, <3>1, <3>3, <3>4, IdleOK, UsersKeep
  <2>4. CASE ~ Exists(q.target)
    <3>1. UNCHANGED <<users, roles>>
      BY <1>3, <2>4 DEF UpdateUser
    <3>2. ownerActed' \in BOOLEAN /\ count' \in 0..MaxRequests
      BY <2>1 DEF Inv, TypeOK
    <3> QED BY <2>1, <3>1, <3>2, IdleOK, SetKeeps
  <2> QED BY <2>3, <2>4
<1>4. ASSUME DeleteUser(h) PROVE Inv'
  <2>1. q.target \in UserIds \ {Owner}
    BY <1>0, <1>4 DEF DeleteUser, At, PendingOK
  <2>2. Deleted \in Users /\ Deleted.role # "owner"
    BY DEF Deleted, Users
  <2> QED BY <1>4, <2>1, <2>2, IdleOK, UsersKeep DEF DeleteUser
<1> QED BY <1>1, <1>2, <1>3, <1>4

LEMMA WriteRoleKeeps ==
  ASSUME Inv, NEW h \in Handlers,
         CreateRole(h) \/ UpdateRole(h) \/ DeleteRole(h)
  PROVE  Inv'
<1> DEFINE q == request[h]
           row == [name |-> q.name, rank |-> q.rank, perms |-> q.perms]
<1>0. q \in Requests /\ PendingOK(q)
  BY DEF Inv, TypeOK, Pending
<1>1. ASSUME q.rank \in 1..99 PROVE row \in Roles /\ row.rank < 100
  BY <1>0, <1>1 DEF Requests, Roles, RoleRows
<1>2. ASSUME CreateRole(h) PROVE Inv'
  <2>1. PICK i \in RoleIds :
          /\ roles[i] = NoRole /\ NameFree(q.name, i)
          /\ roles' = [roles EXCEPT ![i] = row]
    BY <1>2 DEF CreateRole
  <2>2. q.rank \in 1..99
    BY <1>0, <1>2 DEF CreateRole, At, PendingOK
  <2>3. i # OwnerRole
    <3>1. roles[i].name # "owner"
      <4>1. NoRole.name = ""
        BY DEF NoRole
      <4>2. "" # "owner"
        BY NamesAssumption
      <4> QED BY <2>1, <4>1, <4>2
    <3> QED BY <3>1 DEF Inv, Tables, OwnerRow
  <2> QED BY <1>1, <1>2, <2>1, <2>2, <2>3, RolesKeep DEF CreateRole
<1>3. ASSUME UpdateRole(h) PROVE Inv'
  <2>1. q.target \in RoleIds \ {OwnerRole} /\ q.rank \in 1..99
    BY <1>0, <1>3 DEF UpdateRole, At, PendingOK
  <2>2. CASE roles[q.target].name # ""
    <3>1. roles' = [roles EXCEPT ![q.target] = row] /\ NameFree(q.name, q.target)
      BY <1>3, <2>2 DEF UpdateRole
    <3> QED BY <1>1, <1>3, <2>1, <3>1, RolesKeep DEF UpdateRole
  <2>3. CASE roles[q.target].name = ""
    <3>1. Set(h, Idle) /\ UNCHANGED <<users, roles>>
      BY <1>3, <2>3 DEF UpdateRole
    <3>2. ownerActed' \in BOOLEAN /\ count' \in 0..MaxRequests
      BY <1>3 DEF UpdateRole, Inv, TypeOK
    <3> QED BY <3>1, <3>2, IdleOK, SetKeeps
  <2> QED BY <2>2, <2>3
<1>4. ASSUME DeleteRole(h) PROVE Inv'
  <2>1. q.target \in RoleIds \ {OwnerRole}
    BY <1>0, <1>4 DEF DeleteRole, At, PendingOK
  <2>2. Dropped \in Roles /\ Dropped.rank < 100 /\ Dropped.name = ""
    BY DEF Dropped, Roles
  <2> QED BY <1>4, <2>1, <2>2, RolesKeep DEF DeleteRole
<1> QED BY <1>2, <1>3, <1>4

LEMMA NextInv == Inv /\ [Next]_vars => Inv'
<1> SUFFICES ASSUME Inv, [Next]_vars PROVE Inv'
  OBVIOUS
<1>1. CASE UNCHANGED vars
  BY ZenonT(60), <1>1 DEF vars, Inv, TypeOK, Tables, UniqueNames, OwnerRow, OthersBelow,
              SoleOwner, OwnerKeepsPassword, Pending
<1>2. ASSUME NEW h \in Handlers, Fail(h) PROVE Inv'
  BY <1>2, IdleOK, DecideKeeps DEF Fail
<1> QED BY <1>1, <1>2, BeginKeeps, CheckAccountKeeps, CheckRoleKeeps,
          WriteAccountKeeps, WriteRoleKeeps DEF Next

-----------------------------------------------------------------------------
LEMMA AlwaysInv == Spec => []Inv
  BY InitInv, NextInv, PTL DEF Spec

\* The tables and the requests keep their shape: ids, names, ranks within 1..100.
THEOREM AccountsTypes == Spec => []TypeOK
<1>1. Inv => TypeOK
  BY DEF Inv
<1> QED BY <1>1, AlwaysInv, PTL

\* No interleaving of handlers makes a second owner or takes the role from the
\* first: UpdateUser, CreateUser and DeleteUser with rows read long before.
THEOREM OneOwner == Spec => []SoleOwner
<1>1. Inv => SoleOwner
  BY DEF Inv, Tables
<1> QED BY <1>1, AlwaysInv, PTL

\* Nobody but the owner ever sets the owner's password.
THEOREM OwnersPassword == Spec => []OwnerKeepsPassword
<1>1. Inv => OwnerKeepsPassword
  BY DEF Inv, Tables
<1> QED BY <1>1, AlwaysInv, PTL

\* Whatever ranks are created, raised or renamed, every other account ranks
\* below the owner.
THEOREM OwnerOnTop == Spec => []OwnerOutranksAll
<1>1. Inv => OwnerOutranksAll
  <2> SUFFICES ASSUME Inv PROVE OwnerOutranksAll
    OBVIOUS
  <2>1. users[Owner].role = "owner" /\ "owner" \in Names
    BY Ids, NamesAssumption DEF Inv, Tables, SoleOwner
  <2>2. RankOf(Owner) \in 1..100 /\ ~ RankOf(Owner) < 100
    BY <2>1, RankBounds DEF Inv, Tables, RankOf
  <2>3. ASSUME NEW u \in UserIds \ {Owner}, Exists(u) PROVE RankOf(u) < 100
    <3>1. users[u].role # "owner" /\ users[u].role \in Names
      BY <2>3, Rows DEF Inv, Tables, SoleOwner, UserRows
    <3> QED BY <3>1, RankBounds DEF Inv, Tables, RankOf
  <2> QED BY <2>2, <2>3 DEF OwnerOutranksAll
<1> QED BY <1>1, AlwaysInv, PTL
-----------------------------------------------------------------------------
(* The admins, as long as the owner does nothing.  The rows of the two top   *)
(* roles are out of everybody's reach, nobody gets a role that ranks with    *)
(* them, and what is written about an account of theirs is what it had.      *)

Top      == {"owner", "admin"}
Built(i) == FirstRoles[i].name \in Top

\* The tables at the start: a row of rank 80 for the admins, as seeded, none
\* but the owner's and theirs at 80 or above, and each peer with the password
\* it has set itself.
Seeded ==
  /\ \E i \in RoleIds : FirstRoles[i].name = "admin" /\ FirstRoles[i].rank = 80
  /\ \A i \in RoleIds : FirstRoles[i].rank >= 80 => Built(i)
  /\ \A u \in FirstPeers : FirstUsers[u].pw = u

TopRoles == \A i \in RoleIds :
  IF Built(i) THEN roles[i] = FirstRoles[i]
              ELSE roles[i].name \notin Top /\ roles[i].rank < 80
TopUsers == \A u \in UserIds :
  IF u \in FirstPeers THEN users[u] \in {FirstUsers[u], Deleted}
                      ELSE users[u].role \notin Top
\* What a request that is under way may still write.
Harmless(r) ==
  /\ r.actor # Owner
  /\ r.pc = "password" /\ r.target \in FirstPeers => r.actor = r.target
  /\ r.op = "update_user" /\ r.pc \in {"password", "write"} =>
       IF r.target \in FirstPeers THEN r.name = FirstUsers[r.target].role
                                  ELSE r.name \notin Top
  /\ r.op = "create_user" /\ r.pc = "write" => r.name \notin Top
  /\ r.op \in {"create_role", "update_role"} /\ r.pc = "write" => r.rank < 80
  /\ r.op \in {"update_role", "delete_role"} /\ r.pc = "write" => ~ Built(r.target)
AllHarmless == \A h \in Handlers : request[h].pc # "idle" => Harmless(request[h])

Standing == TopRoles /\ TopUsers /\ AllHarmless
PeersInv == ownerActed \/ Standing

LEMMA TopRanks ==
  ASSUME Inv, Seeded, TopRoles, NEW n \in Names
  PROVE  /\ RoleRank(n) \in Nat
         /\ n = "admin" => RoleRank(n) = 80
         /\ n = "owner" => RoleRank(n) = 100
         /\ n \notin Top => RoleRank(n) < 80
<1>1. RoleRank(n) \in 1..100 /\ (RoleRank(n) < 100 <=> n # "owner")
  BY RankBounds DEF Inv, Tables
<1>2. PICK a \in RoleIds : FirstRoles[a].name = "admin" /\ FirstRoles[a].rank = 80
  BY DEF Seeded
<1>3. CASE \E i \in RoleIds : roles[i].name = n
  <2> DEFINE k == CHOOSE i \in RoleIds : roles[i].name = n
  <2>1. k \in RoleIds /\ roles[k].name = n
    BY <1>3
  <2>2. RoleRank(n) = roles[k].rank
    BY <1>3 DEF RoleRank
  <2> HIDE DEF k
  <2>3. ASSUME n = "admin" PROVE roles[k].rank = 80
    <3>1. roles[k] = FirstRoles[k]
      BY <2>1, <2>3 DEF TopRoles, Top
    <3>2. k = a
      <4>1. FirstRoles[k].name = FirstRoles[a].name /\ FirstRoles[a].name # ""
        BY <1>2, <2>1, <2>3, <3>1, NamesAssumption
      <4> QED BY ZenonT(60), <1>2, <2>1, <4>1, FirstAssumption
    <3> QED BY <1>2, <3>1, <3>2
  <2>4. ASSUME n \notin Top PROVE roles[k].rank < 80
    BY <2>1, <2>4 DEF TopRoles, Built
  <2> QED BY <1>1, <2>2, <2>3, <2>4
<1>4. CASE ~ \E i \in RoleIds : roles[i].name = n
  <2>1. roles[a] = FirstRoles[a]
    BY <1>2 DEF TopRoles, Built, Top
  <2>2. n # "admin"
    BY <1>2, <1>4, <2>1
  <2>3. RoleRank(n) = DomainRank(n)
    BY <1>4 DEF RoleRank
  <2> QED BY <1>1, <2>2, <2>3 DEF DomainRank, Top
<1> QED BY <1>3, <1>4

\* Without the owner nobody ranks above the admins, who outrank neither each
\* other nor the owner.
LEMMA Reach ==
  ASSUME Inv, Seeded, Standing, NEW v \in UserIds \ {Owner}, Exists(v)
  PROVE  /\ \A a \in ActorRanks(v) : a \in Nat /\ a <= 80
         /\ \A u \in UserIds : Exists(u) /\ Outranks(v, u) => u \notin FirstPeers
         /\ \A n \in Names : OutranksRole(v, n) => n \notin Top
<1>1. users[v].role \in Names /\ users[v].role # "owner"
  BY Rows DEF Inv, Tables, SoleOwner, UserRows
<1>2. ASSUME NEW a \in ActorRanks(v) PROVE a \in Nat /\ a <= 80
  <2>1. \/ a = RoleRank(users[v].role) \/ a = DomainRank(users[v].role)
    BY <1>2 DEF ActorRanks, RanksRead
  <2>2. RoleRank(users[v].role) \in Nat /\ RoleRank(users[v].role) <= 80
    BY <1>1, TopRanks DEF Standing, Top
  <2>3. DomainRank(users[v].role) \in Nat /\ DomainRank(users[v].role) <= 80
    BY <1>1 DEF DomainRank
  <2> QED BY <2>1, <2>2, <2>3
<1>3. ASSUME NEW n \in Names, OutranksRole(v, n) PROVE n \notin Top
  <2>1. PICK a \in ActorRanks(v), b \in RanksRead(n) : b < a
    BY <1>3 DEF OutranksRole
  <2>2. a \in Nat /\ a <= 80
    BY <1>2
  <2>3. ASSUME n \in Top PROVE b \in {80, 100}
    <3>1. RoleRank(n) \in {80, 100}
      BY <2>3, TopRanks DEF Standing, Top
    <3>2. DomainRank(n) \in {80, 100}
      BY <2>3 DEF DomainRank, Top
    <3> QED BY <3>1, <3>2 DEF RanksRead
  <2> QED BY <2>1, <2>2, <2>3
<1>4. ASSUME NEW u \in UserIds, Exists(u), u \in FirstPeers PROVE ~ Outranks(v, u)
  <2>1. users[u] = FirstUsers[u]
    <3>1. Deleted.role = ""
      BY DEF Deleted
    <3>2. users[u] \in {FirstUsers[u], Deleted}
      BY <1>4 DEF Standing, TopUsers
    <3> QED BY <1>4, <3>1, <3>2 DEF Exists
  <2>2. users[u].role \in Top
    BY <1>4, <2>1 DEF FirstPeers, Top
  <2>3. users[u].role \in Names
    BY <2>2, NamesAssumption DEF Top
  <2> QED BY <1>3, <2>2, <2>3 DEF Outranks
<1> QED BY <1>2, <1>3, <1>4

\* A step that changes one request only.
LEMMA RequestStands ==
  ASSUME Inv, Standing, NEW h \in Handlers, NEW r, Set(h, r),
         r.pc # "idle" => Harmless(r), UNCHANGED <<users, roles>>
  PROVE  Standing'
BY DEF Inv, TypeOK, Standing, TopRoles, TopUsers, AllHarmless, Set

LEMMA IdleStands == Idle.pc = "idle"
  BY DEF Idle

\* A write to users.
LEMMA UsersStand ==
  ASSUME Inv, Standing, NEW h \in Handlers, NEW u \in UserIds, NEW row,
         users' = [users EXCEPT ![u] = row],
         IF u \in FirstPeers THEN row \in {FirstUsers[u], Deleted}
                             ELSE row.role \notin Top,
         NEW r, Set(h, r), r.pc # "idle" => Harmless(r), UNCHANGED roles
  PROVE  Standing'
<1>1. TopRoles' /\ AllHarmless'
  BY DEF Inv, TypeOK, Standing, TopRoles, AllHarmless, Set
<1>2. TopUsers'
  BY DEF Inv, TypeOK, Standing, TopUsers
<1> QED BY <1>1, <1>2 DEF Standing

\* A write to roles.
LEMMA RolesStand ==
  ASSUME Inv, Standing, NEW h \in Handlers, NEW i \in RoleIds, NEW row,
         ~ Built(i), roles' = [roles EXCEPT ![i] = row],
         row.name \notin Top, row.rank < 80,
         Set(h, Idle), UNCHANGED users
  PROVE  Standing'
<1>1. TopUsers' /\ AllHarmless'
  BY IdleStands DEF Inv, TypeOK, Standing, TopUsers, AllHarmless, Set
<1>2. TopRoles'
  BY DEF Inv, TypeOK, Standing, TopRoles
<1> QED BY <1>1, <1>2 DEF Standing

-----------------------------------------------------------------------------
(* One lemma per kind of step, as before. *)

LEMMA BeginStands ==
  ASSUME Inv, Standing, NEW h \in Handlers, Begin(h), ~ ownerActed'
  PROVE  Standing'
<1>1. PICK u \in UserIds, op \in Ops :
        /\ Set(h, [Idle EXCEPT !.pc = "check", !.op = op, !.actor = u])
        /\ ownerActed' = (ownerActed \/ u = Owner)
  BY DEF Begin
<1> DEFINE r == [Idle EXCEPT !.pc = "check", !.op = op, !.actor = u]
<1>2. r.pc = "check" /\ r.actor = u
  BY DEF Idle
<1>3. u # Owner
  BY <1>1
<1>4. Harmless(r)
  <2> HIDE DEF r
  <2> QED BY <1>2, <1>3 DEF Harmless
<1> HIDE DEF r
<1> QED BY <1>1, <1>4, RequestStands DEF Begin, r

LEMMA CheckAccountStands ==
  ASSUME Inv, Seeded, Standing, NEW h \in Handlers,
         \/ CheckCreateUser(h) \/ CheckUpdateUser(h) \/ CheckResetPassword(h)
         \/ CheckOwnPassword(h) \/ CheckDeleteUser(h)
  PROVE  Standing'
<1> DEFINE q == request[h]
<1>1. q \in Requests /\ q.pc = "check"
  BY DEF Inv, TypeOK, At, CheckCreateUser, CheckUpdateUser, CheckResetPassword,
         CheckOwnPassword, CheckDeleteUser
<1>2. q.actor \in UserIds \ {Owner}
  BY <1>1 DEF Standing, AllHarmless, Harmless, Requests
<1>3. CASE CheckCreateUser(h)
  <2>1. PICK n \in Names :
          /\ OutranksRole(q.actor, n)
          /\ Decide(h, [q EXCEPT !.pc = "write", !.name = n])
    BY <1>3 DEF CheckCreateUser
  <2> DEFINE r == [q EXCEPT !.pc = "write", !.name = n]
  <2>2. n \notin Top
    BY <1>2, <1>3, <2>1, Reach DEF CheckCreateUser
  <2>3. /\ r.pc = "write" /\ r.op = "create_user" /\ r.name = n
        /\ r.actor = q.actor
    BY <1>1, <1>3 DEF Requests, CheckCreateUser, At
  <2>4. Harmless(r)
    <3> HIDE DEF r
    <3> QED BY <1>2, <2>2, <2>3 DEF Harmless
  <2> QED BY <2>1, <2>4, RequestStands DEF Decide
<1>4. CASE CheckSelf(h) /\ CheckUpdateUser(h)
  <2>1. PICK pw \in BOOLEAN, colour \in BOOLEAN :
          Decide(h, [q EXCEPT !.pc = IF pw THEN "password" ELSE "write",
                       !.target = q.actor, !.name = users[q.actor].role,
                       !.then = colour])
    BY <1>4 DEF CheckSelf
  <2> DEFINE r == [q EXCEPT !.pc = IF pw THEN "password" ELSE "write",
                       !.target = q.actor, !.name = users[q.actor].role,
                       !.then = colour]
  <2>2. /\ r.pc \in {"password", "write"} /\ r.op = "update_user"
        /\ r.target = q.actor /\ r.actor = q.actor
        /\ r.name = users[q.actor].role
    BY <1>1, <1>4 DEF Requests, CheckUpdateUser, At
  <2>3. IF q.actor \in FirstPeers
          THEN users[q.actor].role = FirstUsers[q.actor].role
          ELSE users[q.actor].role \notin Top
    <3>1. Deleted.role = ""
      BY DEF Deleted
    <3> QED BY <1>2, <1>4, <3>1 DEF Standing, TopUsers, Exists, CheckUpdateUser
  <2>4. Harmless(r)
    <3> HIDE DEF r
    <3> QED BY <1>2, <2>2, <2>3 DEF Harmless
  <2> QED BY <2>1, <2>4, RequestStands DEF Decide
<1>5. CASE CheckOther(h) /\ CheckUpdateUser(h)
  <2>1. PICK t \in UserIds \ {q.actor}, pw \in BOOLEAN, row \in BOOLEAN, n \in Names :
          /\ Exists(t) /\ Outranks(q.actor, t)
          /\ n = users[t].role \/ OutranksRole(q.actor, n)
          /\ Decide(h, [q EXCEPT !.pc = IF pw THEN "password" ELSE "write",
                           !.target = t, !.name = n, !.then = row])
    BY <1>5 DEF CheckOther
  <2> DEFINE r == [q EXCEPT !.pc = IF pw THEN "password" ELSE "write",
                           !.target = t, !.name = n, !.then = row]
  <2>2. t \notin FirstPeers /\ n \notin Top
    <3>1. Exists(q.actor)
      BY <1>5 DEF CheckUpdateUser
    <3>2. t \notin FirstPeers
      BY <1>2, <2>1, <3>1, Reach
    <3>3. users[t].role \notin Top
      BY <3>2 DEF Standing, TopUsers
    <3> QED BY <1>2, <2>1, <3>1, <3>2, <3>3, Reach
  <2>3. /\ r.pc \in {"password", "write"} /\ r.op = "update_user"
        /\ r.target = t /\ r.name = n /\ r.actor = q.actor
    BY <1>1, <1>5 DEF Requests, CheckUpdateUser, At
  <2>4. Harmless(r)
    <3> HIDE DEF r
    <3> QED BY <1>2, <2>2, <2>3 DEF Harmless
  <2> QED BY <2>1, <2>4, RequestStands DEF Decide
<1>6. CASE CheckResetPassword(h)
  <2>1. PICK t \in UserIds \ {q.actor} :
          /\ Exists(t) /\ Outranks(q.actor, t)
          /\ Decide(h, [q EXCEPT !.pc = "password", !.target = t])
    BY <1>6 DEF CheckResetPassword
  <2> DEFINE r == [q EXCEPT !.pc = "password", !.target = t]
  <2>2. t \notin FirstPeers
    BY <1>2, <1>6, <2>1, Reach DEF CheckResetPassword
  <2>3. /\ r.pc = "password" /\ r.op = "reset_password" /\ r.target = t
        /\ r.actor = q.actor
    BY <1>1, <1>6 DEF Requests, CheckResetPassword, At
  <2>4. Harmless(r)
    <3> HIDE DEF r
    <3> QED BY <1>2, <2>2, <2>3 DEF Harmless
  <2> QED BY <2>1, <2>4, RequestStands DEF Decide
<1>7. CASE CheckOwnPassword(h)
  <2> DEFINE r == [q EXCEPT !.pc = "password", !.target = q.actor]
  <2>1. /\ r.pc = "password" /\ r.op = "own_password" /\ r.target = q.actor
        /\ r.actor = q.actor
    BY <1>1, <1>7 DEF Requests, CheckOwnPassword, At
  <2>2. Harmless(r)
    <3> HIDE DEF r
    <3> QED BY <1>2, <2>1 DEF Harmless
  <2> QED BY <1>7, <2>2, RequestStands DEF CheckOwnPassword, Decide
<1>8. CASE CheckDeleteUser(h)
  <2>1. PICK t \in UserIds : Decide(h, [q EXCEPT !.pc = "write", !.target = t])
    BY <1>8 DEF CheckDeleteUser
  <2> DEFINE r == [q EXCEPT !.pc = "write", !.target = t]
  <2>2. r.pc = "write" /\ r.op = "delete_user" /\ r.actor = q.actor
    BY <1>1, <1>8 DEF Requests, CheckDeleteUser, At
  <2>3. Harmless(r)
    <3> HIDE DEF r
    <3> QED BY <1>2, <2>2 DEF Harmless
  <2> QED BY <2>1, <2>3, RequestStands DEF Decide
<1> QED BY <1>3, <1>4, <1>5, <1>6, <1>7, <1>8 DEF CheckUpdateUser

LEMMA CheckRoleStands ==
  ASSUME Inv, Seeded, Standing, NEW h \in Handlers,
         CheckCreateRole(h) \/ CheckUpdateRole(h) \/ CheckDeleteRole(h)
  PROVE  Standing'
<1> DEFINE q == request[h]
<1>1. q \in Requests /\ q.pc = "check"
  BY DEF Inv, TypeOK, At, CheckCreateRole, CheckUpdateRole, CheckDeleteRole
<1>2. q.actor \in UserIds \ {Owner} /\ Exists(q.actor)
  BY <1>1 DEF Standing, AllHarmless, Harmless, Requests,
              CheckCreateRole, CheckUpdateRole, CheckDeleteRole
<1>3. \A a \in ActorRanks(q.actor) : a \in Nat /\ a <= 80
  BY <1>2, Reach
\* A row that may be changed is none of the two.
<1>4. ASSUME NEW i \in RoleIds, NEW a \in ActorRanks(q.actor), Modifiable(i, a)
      PROVE  ~ Built(i) /\ roles[i].rank \in Nat /\ roles[i].rank < 80
  <2>1. roles[i] \in RoleRows
    BY <1>4, Rows DEF Inv, Modifiable
  <2>2. roles[i].rank \in Nat /\ roles[i].rank < 80
    <3>1. roles[i].rank \in 1..100
      BY <2>1 DEF RoleRows
    <3>2. roles[i].rank < a
      BY <1>4 DEF Modifiable
    <3> QED BY <1>3, <3>1, <3>2
  <2>3. roles[i].name # "admin"
    <3>1. CASE roles[i].name = "admin"
      <4>1. PICK k \in RoleIds : FirstRoles[k].name = "admin" /\ FirstRoles[k].rank = 80
        BY DEF Seeded
      <4>2. roles[k] = FirstRoles[k]
        BY <4>1 DEF Standing, TopRoles, Built, Top
      <4>3. i = k
        <5>1. roles[i].name = roles[k].name /\ roles[i].name # ""
          BY <3>1, <4>1, <4>2, NamesAssumption
        <5> QED BY <5>1 DEF Inv, Tables, UniqueNames
      <4> QED BY <2>2, <4>1, <4>2, <4>3
    <3> QED BY <3>1
  <2>4. ~ Built(i)
    BY <1>4, <2>3 DEF Standing, TopRoles, Built, Top, Modifiable
  <2> QED BY <2>2, <2>4
<1>5. CASE CheckCreateRole(h)
  <2>1. PICK n \in Names, k \in Ranks, g \in Grants, a \in ActorRanks(q.actor) :
          /\ RankGrantable(DefaultRank(k), a)
          /\ Decide(h, [q EXCEPT !.pc = "write", !.name = n,
                           !.rank = DefaultRank(k), !.perms = g])
    BY <1>5 DEF CheckCreateRole
  <2> DEFINE rank == DefaultRank(k)
             r == [q EXCEPT !.pc = "write", !.name = n, !.rank = rank, !.perms = g]
  <2>2. rank < 80
    BY <1>3, <2>1, BoundsAssumption DEF RankGrantable, DefaultRank
  <2>3. /\ r.pc = "write" /\ r.op = "create_role" /\ r.rank = rank
        /\ r.actor = q.actor
    <3> HIDE DEF rank
    <3> QED BY <1>1, <1>5 DEF Requests, CheckCreateRole, At
  <2>4. Harmless(r)
    <3> HIDE DEF r, rank
    <3> QED BY <1>2, <2>2, <2>3 DEF Harmless
  <2> QED BY <2>1, <2>4, RequestStands DEF Decide
<1>6. CASE CheckUpdateRole(h)
  <2>1. PICK i \in RoleIds, n \in Names, k \in Ranks, g \in Grants,
             a \in ActorRanks(q.actor) :
          /\ Modifiable(i, a) /\ RankGrantable(k, a)
          /\ Decide(h, [q EXCEPT !.pc = "write", !.target = i, !.name = n,
                           !.rank = IF k < 1 THEN roles[i].rank ELSE k,
                           !.perms = g])
    BY <1>6 DEF CheckUpdateRole
  <2> DEFINE rank == IF k < 1 THEN roles[i].rank ELSE k
             r == [q EXCEPT !.pc = "write", !.target = i, !.name = n,
                            !.rank = rank, !.perms = g]
  <2>2. ~ Built(i) /\ rank < 80
    BY <1>3, <1>4, <2>1, BoundsAssumption DEF RankGrantable
  <2>3. /\ r.pc = "write" /\ r.op = "update_role" /\ r.rank = rank
        /\ r.target = i /\ r.actor = q.actor
    <3> HIDE DEF rank
    <3> QED BY <1>1, <1>6 DEF Requests, CheckUpdateRole, At
  <2>4. Harmless(r)
    <3> HIDE DEF r, rank
    <3> QED BY <1>2, <2>2, <2>3 DEF Harmless
  <2> QED BY <2>1, <2>4, RequestStands DEF Decide
<1>7. CASE CheckDeleteRole(h)
  <2>1. PICK i \in RoleIds, a \in ActorRanks(q.actor) :
          /\ Modifiable(i, a)
          /\ Decide(h, [q EXCEPT !.pc = "write", !.target = i])
    BY <1>7 DEF CheckDeleteRole
  <2> DEFINE r == [q EXCEPT !.pc = "write", !.target = i]
  <2>2. /\ r.pc = "write" /\ r.op = "delete_role" /\ r.target = i
        /\ r.actor = q.actor
    BY <1>1, <1>7 DEF Requests, CheckDeleteRole, At
  <2>3. Harmless(r)
    <3>1. ~ Built(i)
      BY <1>4, <2>1
    <3> HIDE DEF r
    <3> QED BY <1>2, <2>2, <3>1 DEF Harmless
  <2> QED BY <2>1, <2>3, RequestStands DEF Decide
<1> QED BY <1>5, <1>6, <1>7

LEMMA WriteAccountStands ==
  ASSUME Inv, Seeded, Standing, NEW h \in Handlers,
         CreateUser(h) \/ WritePassword(h) \/ UpdateUser(h) \/ DeleteUser(h)
  PROVE  Standing'
<1> DEFINE q == request[h]
<1>1. q \in Requests /\ PendingOK(q) /\ Harmless(q)
  BY DEF Inv, TypeOK, Pending, Standing, AllHarmless, At,
         CreateUser, WritePassword, UpdateUser, DeleteUser
<1>2. Deleted.role = "" /\ Nobody.role = "" /\ "" \notin Top
  BY NamesAssumption DEF Deleted, Nobody, Top
<1>3. CASE CreateUser(h)
  <2>1. PICK u \in UserIds :
          /\ users[u] = Nobody
          /\ users' = [users EXCEPT ![u] = [role |-> q.name, pw |-> q.actor]]
    BY <1>3 DEF CreateUser
  <2>2. q.name \notin Top
    BY <1>1, <1>3 DEF CreateUser, At, Harmless
  <2>3. u \notin FirstPeers
    <3>1. Nobody # Deleted
      <4>1. Nobody.pw = 0 /\ Deleted.pw = 1
        BY DEF Nobody, Deleted
      <4> QED BY <4>1
    <3>2. ASSUME u \in FirstPeers PROVE FALSE
      <4>1. FirstUsers[u] = Nobody
        BY <2>1, <3>1, <3>2 DEF Standing, TopUsers
      <4> QED BY <1>2, <3>2, <4>1 DEF FirstPeers, Top
    <3> QED BY <3>2
  <2> QED BY <1>3, <2>1, <2>2, <2>3, IdleStands, UsersStand DEF CreateUser
<1>4. CASE WritePassword(h)
  <2> DEFINE r == IF q.then THEN [q EXCEPT !.pc = "write"] ELSE Idle
  <2>1. Set(h, r) /\ UNCHANGED roles /\ q.pc = "password"
    BY <1>4 DEF WritePassword
  <2>2. r.pc # "idle" => Harmless(r)
    <3>1. CASE q.then
      <4>1. /\ r.pc = "write" /\ r.op = q.op /\ r.target = q.target
            /\ r.name = q.name /\ r.actor = q.actor /\ q.op = "update_user"
        BY <1>1, <3>1 DEF Requests, PendingOK
      <4> HIDE DEF r
      <4> QED BY <1>1, <2>1, <4>1 DEF Harmless
    <3>2. CASE ~ q.then
      BY <3>2, IdleStands
    <3> QED BY <3>1, <3>2
  <2>3. /\ q.target \in UserIds
        /\ q.target \in FirstPeers => q.actor = q.target
    BY <1>1, <2>1 DEF PendingOK, Harmless
  <2> HIDE DEF r
  <2>4. CASE Exists(q.target)
    <3> DEFINE row == [users[q.target] EXCEPT !.pw = q.actor]
    <3>1. users' = [users EXCEPT ![q.target] = row]
      BY <1>4, <2>4 DEF WritePassword
    <3>2. users[q.target] \in UserRows
      BY <2>3, <2>4, Rows DEF Inv
    <3>3. row.role = users[q.target].role
      BY <3>2 DEF UserRows
    <3>4. ASSUME q.target \in FirstPeers PROVE row = FirstUsers[q.target]
      <4>1. users[q.target] = FirstUsers[q.target]
        BY <1>2, <2>3, <2>4, <3>4 DEF Standing, TopUsers, Exists
      <4>2. users[q.target].pw = q.actor
        BY <2>3, <3>4, <4>1 DEF Seeded
      <4> QED BY <3>2, <4>1, <4>2 DEF UserRows
    <3>5. q.target \notin FirstPeers => row.role \notin Top
      BY <2>3, <3>3 DEF Standing, TopUsers
    <3> HIDE DEF row
    <3> QED BY <2>1, <2>2, <2>3, <3>1, <3>4, <3>5, UsersStand
  <2>5. CASE ~ Exists(q.target)
    <3>1. UNCHANGED <<users, roles>>
      BY <1>4, <2>5 DEF WritePassword
    <3> QED BY <2>1, <2>2, <3>1, RequestStands
  <2> QED BY <2>4, <2>5
<1>5. CASE UpdateUser(h)
  <2>1. /\ Set(h, Idle) /\ UNCHANGED roles
        /\ q.pc = "write" /\ q.op = "update_user"
    BY <1>5 DEF UpdateUser, At
  <2>2. /\ q.target \in UserIds
        /\ IF q.target \in FirstPeers THEN q.name = FirstUsers[q.target].role
                                      ELSE q.name \notin Top
    BY <1>1, <2>1 DEF PendingOK, Harmless
  <2>3. CASE Exists(q.target)
    <3> DEFINE row == [users[q.target] EXCEPT !.role = q.name]
    <3>1. users' = [users EXCEPT ![q.target] = row]
      BY <1>5, <2>3 DEF UpdateUser
    <3>2. users[q.target] \in UserRows
      BY <2>2, <2>3, Rows DEF Inv
    <3>3. row.role = q.name
      BY <3>2 DEF UserRows
    <3>4. ASSUME q.target \in FirstPeers PROVE row = FirstUsers[q.target]
      <4>1. users[q.target] = FirstUsers[q.target]
        BY <1>2, <2>2, <2>3, <3>4 DEF Standing, TopUsers, Exists
      <4> QED BY <2>2, <3>2, <3>4, <4>1 DEF UserRows
    <3> HIDE DEF row
    <3> QED BY <2>1, <2>2, <3>1, <3>3, <3>4, IdleStands, UsersStand
  <2>4. CASE ~ Exists(q.target)
    <3>1. UNCHANGED <<users, roles>>
      BY <1>5, <2>4 DEF UpdateUser
    <3> QED BY <2>1, <3>1, IdleStands, RequestStands
  <2> QED BY <2>3, <2>4
<1>6. CASE DeleteUser(h)
  <2>1. q.target \in UserIds
    BY <1>1, <1>6 DEF DeleteUser, At, PendingOK
  <2> QED BY <1>2, <1>6, <2>1, IdleStands, UsersStand DEF DeleteUser
<1> QED BY <1>3, <1>4, <1>5, <1>6

LEMMA WriteRoleStands ==
  ASSUME Inv, Seeded, Standing, NEW h \in Handlers,
         CreateRole(h) \/ UpdateRole(h) \/ DeleteRole(h)
  PROVE  Standing'
<1> DEFINE q == request[h]
           row == [name |-> q.name, rank |-> q.rank, perms |-> q.perms]
<1>1. q \in Requests /\ PendingOK(q) /\ Harmless(q)
  BY DEF Inv, TypeOK, Pending, Standing, AllHarmless, At,
         CreateRole, UpdateRole, DeleteRole
<1>2. \A n \in Top : \E j \in RoleIds : Built(j) /\ roles[j].name = n
  <2>1. FirstRoles[OwnerRole].name = "owner" /\ OwnerRole \in RoleIds
    BY FirstAssumption, Ids
  <2>2. \A n \in Top : \E j \in RoleIds : FirstRoles[j].name = n
    BY <2>1 DEF Seeded, Top
  <2> QED BY <2>2 DEF Standing, TopRoles, Built
<1>3. ASSUME NEW i \in RoleIds, ~ Built(i), NameFree(q.name, i)
      PROVE  q.name \notin Top
  BY <1>2, <1>3 DEF NameFree
<1>4. Dropped.name = "" /\ Dropped.rank = 1 /\ NoRole.name = ""
      /\ "" \notin Top
  BY NamesAssumption DEF Dropped, NoRole, Top
<1>5. CASE CreateRole(h)
  <2>1. PICK i \in RoleIds :
          /\ roles[i] = NoRole /\ NameFree(q.name, i)
          /\ roles' = [roles EXCEPT ![i] = row]
    BY <1>5 DEF CreateRole
  <2>2. ~ Built(i)
    BY <1>4, <2>1 DEF Standing, TopRoles, Built
  <2>3. row.rank < 80 /\ row.name = q.name
    BY <1>1, <1>5 DEF CreateRole, At, Harmless
  <2> HIDE DEF row
  <2> QED BY <1>3, <1>5, <2>1, <2>2, <2>3, RolesStand DEF CreateRole
<1>6. CASE UpdateRole(h)
  <2>1. /\ q.target \in RoleIds /\ ~ Built(q.target)
        /\ row.rank < 80 /\ row.name = q.name /\ q.name \notin Top
    BY <1>1, <1>3, <1>6 DEF UpdateRole, At, PendingOK, Harmless
  <2>2. CASE roles[q.target].name # ""
    <3>1. /\ roles' = [roles EXCEPT ![q.target] = row]
          /\ Set(h, Idle) /\ UNCHANGED users
      BY <1>6, <2>2 DEF UpdateRole
    <3> HIDE DEF row
    <3> QED BY <2>1, <3>1, RolesStand
  <2>3. CASE roles[q.target].name = ""
    BY <1>6, <2>3, IdleStands, RequestStands DEF UpdateRole
  <2> QED BY <2>2, <2>3
<1>7. CASE DeleteRole(h)
  <2>1. q.target \in RoleIds /\ ~ Built(q.target)
    BY <1>1, <1>7 DEF DeleteRole, At, PendingOK, Harmless
  <2>2. Dropped.name \notin Top /\ Dropped.rank < 80
    <3>1. Dropped.name \notin Top
      BY <1>4, Zenon
    <3>2. Dropped.rank < 80
      BY DEF Dropped
    <3> QED BY <3>1, <3>2
  <2>3. /\ roles' = [roles EXCEPT ![q.target] = Dropped]
        /\ Set(h, Idle) /\ UNCHANGED users
    BY <1>7 DEF DeleteRole
  <2> QED BY <2>1, <2>2, <2>3, RolesStand
<1> QED BY <1>5, <1>6, <1>7

LEMMA NextPeers ==
  ASSUME Seeded
  PROVE  Inv /\ PeersInv /\ [Next]_vars => PeersInv'
<1> SUFFICES ASSUME Inv, PeersInv, [Next]_vars, ~ ownerActed' PROVE Standing'
  BY DEF PeersInv
<1>1. Standing
  <2>1. ASSUME NEW h \in Handlers, Begin(h) PROVE ownerActed => ownerActed'
    BY <2>1, Zenon DEF Begin
  <2>2. ASSUME NEW h \in Handlers,
               \/ CheckCreateUser(h) \/ CheckSelf(h) \/ CheckOther(h)
               \/ CheckResetPassword(h) \/ CheckOwnPassword(h)
               \/ CheckDeleteUser(h) \/ CheckCreateRole(h)
               \/ CheckUpdateRole(h) \/ CheckDeleteRole(h) \/ Fail(h)
        PROVE  ownerActed' = ownerActed
    BY <2>2, Zenon
       DEF Fail, CheckCreateUser, CheckSelf, CheckOther, CheckResetPassword,
           CheckOwnPassword, CheckDeleteUser, CheckCreateRole, CheckUpdateRole,
           CheckDeleteRole, Decide
  <2>3. ASSUME NEW h \in Handlers,
               \/ CreateUser(h) \/ WritePassword(h) \/ UpdateUser(h)
               \/ DeleteUser(h) \/ CreateRole(h) \/ UpdateRole(h)
               \/ DeleteRole(h)
        PROVE  ownerActed' = ownerActed
    BY <2>3, Zenon
       DEF CreateUser, WritePassword, UpdateUser, DeleteUser, CreateRole,
           UpdateRole, DeleteRole
  <2>4. ownerActed => ownerActed'
    BY <2>1, <2>2, <2>3, Zenon DEF Next, vars, CheckUpdateUser
  <2> QED BY <2>4, Zenon DEF PeersInv
<1>2. CASE UNCHANGED vars
  BY <1>1, <1>2 DEF vars, Standing, TopRoles, TopUsers, AllHarmless
<1>3. ASSUME NEW h \in Handlers, Fail(h) PROVE Standing'
  BY <1>1, <1>3, IdleStands, RequestStands DEF Fail, Decide
<1> QED BY <1>1, <1>2, <1>3, BeginStands, CheckAccountStands, CheckRoleStands,
          WriteAccountStands, WriteRoleStands DEF Next

LEMMA InitPeers ==
  ASSUME Seeded
  PROVE  Init => PeersInv
<1> SUFFICES ASSUME Init PROVE Standing
  BY DEF PeersInv
<1>1. TopRoles
  <2> SUFFICES ASSUME NEW i \in RoleIds, ~ Built(i)
               PROVE  FirstRoles[i].name \notin Top /\ FirstRoles[i].rank < 80
    BY DEF Init, TopRoles
  <2>1. FirstRoles[i].rank \in Nat
    <3>1. FirstRoles[i] \in Roles
      BY FirstAssumption
    <3>2. CASE FirstRoles[i] \in RoleRows
      BY <3>2 DEF RoleRows
    <3>3. CASE FirstRoles[i] \in {NoRole, Dropped}
      <4>1. NoRole.rank \in Nat /\ Dropped.rank \in Nat
        BY DEF NoRole, Dropped
      <4> QED BY <3>3, <4>1
    <3> QED BY <3>1, <3>2, <3>3 DEF Roles
  <2> QED BY <2>1 DEF Seeded, Built
<1>2. TopUsers
  BY DEF Init, TopUsers, FirstPeers, Top
<1>3. AllHarmless
  BY IdleStands DEF Init, AllHarmless
<1> QED BY <1>1, <1>2, <1>3 DEF Standing

\* From tables as they are seeded, and as long as the owner does nothing, no
\* interleaving of requests raises an account to the admins' rank, demotes an
\* admin or sets an admin's password: every handler that decided on rows read
\* long before included.
THEOREM AdminsAmongThemselves == ASSUME Seeded PROVE Spec => []PeersUntouched
<1>1. Inv /\ PeersInv /\ [Next]_vars => (Inv /\ PeersInv)'
  BY NextInv, NextPeers
<1>2. Inv /\ PeersInv => PeersUntouched
  <2> SUFFICES ASSUME Inv, Standing PROVE PeersUntouched
    BY DEF PeersInv, PeersUntouched
  <2>1. ASSUME NEW u \in Peers PROVE u \in FirstPeers
    <3>1. /\ u \in UserIds /\ users[u].role \in Names
          /\ RoleRank(users[u].role) >= 80
      BY <2>1, Rows DEF Inv, Peers, RankOf, UserRows
    <3>2. users[u].role \in Top
      BY <3>1, TopRanks DEF Standing
    <3> QED BY <3>1, <3>2 DEF Standing, TopUsers
  <2>2. ASSUME NEW u \in FirstPeers, Exists(u)
        PROVE  u \in Peers /\ users[u].pw = u
    <3>1. u \in UserIds /\ users[u] = FirstUsers[u] /\ users[u].role \in Top
      <4>1. Deleted.role = ""
        BY DEF Deleted
      <4> QED BY <2>2, <4>1 DEF FirstPeers, Standing, TopUsers, Exists, Top
    <3>2. RankOf(u) >= 80
      <4>1. users[u].role \in Names
        BY <3>1, NamesAssumption DEF Top
      <4> QED BY <3>1, <4>1, TopRanks DEF Standing, RankOf, Top
    <3> QED BY <2>2, <3>1, <3>2 DEF Peers, Seeded
  <2> QED BY <2>1, <2>2 DEF PeersUntouched
<1> QED BY InitInv, InitPeers, <1>1, <1>2, PTL DEF Spec
=============================================================================
