------------------------- MODULE MCBotConversation -------------------------
(* Instances of BotConversation: the owner and the built-in roles at first, *)
(* and the buttons of the fleet, or of accounts, roles and providers.       *)
EXTENDS BotConversation, TLC

Bare == [here |-> TRUE, subs |-> FALSE, command |-> ""]
MCNodes == [n \in NodeIds |-> IF n = 1 THEN Bare ELSE NoNode]
MCRoles == [r \in 1..MaxRoles |->
  CASE r = 1 -> [name |-> "owner", rank |-> 100, system |-> TRUE]
    [] r = 2 -> [name |-> "admin", rank |-> 80, system |-> TRUE]
    [] OTHER -> NoRole]
MCOwner == [u \in 1..MaxUsers |-> IF u = 1 THEN [role |-> "owner", pw |-> FALSE]
                                           ELSE Nobody]

MCFleet == {"state:cancel", "menu:main", "nodes:list", "task:refresh_subs",
  "purge:go", "backup:download", "node:detail",
  "node:vpn", "node:switch", "node:sub", "node:set_sub", "node:refresh_sub", "node:logs",
  "node:logs_show", "node:queue", "node:queue_cancel", "node:rename", "node:delete",
  "node:softdelete", "node:terminate", "node:approve", "node:reject"}
MCTables == {"state:cancel", "menu:main", "panel", "users:menu", "users:add",
  "user:detail", "user:role", "user:setrole", "user:pw", "user:del", "user:delconfirm",
  "user:create", "roles:menu", "roles:add", "role:detail", "role:rename",
  "role:rank", "role:del", "role:delconfirm", "providers:menu", "providers:add",
  "provider:detail", "provider:rename", "provider:del", "provider:delconfirm"}
=============================================================================
