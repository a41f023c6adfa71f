----------------------------- MODULE MCAccounts -----------------------------
(* An instance of Accounts: the owner, two admins, a lead who manages        *)
(* accounts and roles, and room for one more account and one more role.      *)
EXTENDS Accounts, TLC

MCSymmetry == Permutations(Handlers)
MCGrants == {{}, {"can_manage_users", "can_manage_roles"}}

MCUsers == (1 :> [role |-> "owner", pw |-> 1]) @@ (2 :> [role |-> "admin", pw |-> 2])
             @@ (3 :> [role |-> "lead", pw |-> 3]) @@ (4 :> [role |-> "admin", pw |-> 4])
             @@ [u \in 1..MaxUsers |-> Nobody]

MCRoles == (1 :> [name |-> "owner", rank |-> 100, perms |-> {}])
             @@ (2 :> [name |-> "admin", rank |-> 80, perms |-> {}])
             @@ (3 :> [name |-> "lead", rank |-> 50,
                       perms |-> {"can_manage_users", "can_manage_roles"}])
             @@ [i \in 1..MaxRoles |-> NoRole]
=============================================================================
