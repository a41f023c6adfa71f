-------------------------- MODULE BotConversation --------------------------
(***************************************************************************)
(* The Telegram bot's menus, as the admin's chat sees them.  One goroutine *)
(* (pollUpdates) handles texts, slash commands and button presses one at a *)
(* time; another one rewrites the menu every five minutes, the web layer   *)
(* posts a notification for each new device, and the dashboard changes the *)
(* tables meanwhile.  The bot remembers which message is its menu          *)
(* (mainMenuID) and which text it waits for (userStates).                  *)
(*                                                                         *)
(* A message keeps the buttons it was rendered with, so a press may carry  *)
(* ids of rows that have changed since; "late" is a press that was under   *)
(* way while its message was edited or deleted.  A call to Telegram may    *)
(* fail, and the bot ignores it; the program may restart, and the chat     *)
(* keeps the old menus.  The tables hold what the menus depend on; texts,  *)
(* labels, languages and the bot's picture are left out, and so are the    *)
(* messages that carry no button (help, backup documents).  A handler's    *)
(* statements are one step: Accounts and CommandQueue interleave them.     *)
(*                                                                         *)
(* One poller at a time is what the program starts with.  A reboot by the  *)
(* settings form waits half a second for nobody (BotLifecycle): the poller *)
(* of before may be in the middle of a handler, or go on for good, beside  *)
(* the new one, on the same memory.  Of what two pollers then mix up the   *)
(* model has the call to Telegram that ends a handler, which may come      *)
(* after handlers of the other one; an update that both of them get is a   *)
(* button pressed twice.  It is enough to break the prompts (claim), and   *)
(* nothing about them is claimed after a reboot.                           *)
(***************************************************************************)
EXTENDS Integers, FiniteSets

CONSTANTS
  NodeIds, Domains,  \* ids of nodes and of subscription providers, numbers
  MaxUsers, MaxRoles, Ranks,
  Names,             \* role names, those with no row among them
  FirstNodes, FirstUsers, FirstRoles,  \* the tables at first
  Pressable,         \* bound: the kinds of buttons the admin presses
  MaxMessages,       \* bound: messages with buttons the bot ever sends
  MaxIncidents       \* bound: calls to Telegram that fail, presses and
                     \* refreshes handled late, restarts, reboots and changes
                     \* of the dashboard, in all

UserIds  == 1..MaxUsers
RoleIds  == 1..MaxRoles
Messages == 1..MaxMessages
Owner    == 1

ASSUME NamesAssumption ==
  "" \notin Names /\ {"owner", "admin"} \subseteq Names
ASSUME BoundsAssumption ==
  /\ MaxUsers \in Nat \ {0} /\ MaxRoles \in Nat /\ MaxMessages \in Nat
  /\ MaxIncidents \in Nat
  /\ Ranks \subseteq 1..99 /\ NodeIds \subseteq Nat /\ Domains \subseteq Nat

\* Rows that do not exist yet, and rows that are gone: ids are not reused.
Nobody == [role |-> "", pw |-> FALSE]
Deleted == [role |-> "", pw |-> TRUE]
NoRole == [name |-> "", rank |-> 0, system |-> FALSE]
Dropped == [name |-> "", rank |-> 1, system |-> FALSE]
NoNode == [here |-> FALSE, subs |-> FALSE, command |-> ""]

\* "pw": the password was set by the bot.  Of a pending command only the
\* terminate is told apart.  Usernames are left out: the bot also spares an
\* account named admin, as it does the owner's.
Users == [role : Names, pw : BOOLEAN] \cup {Nobody, Deleted}
Roles == [name : Names, rank : 1..100, system : BOOLEAN] \cup {NoRole, Dropped}
Nodes == {NoNode} \cup [here : {TRUE}, subs : BOOLEAN,
                        command : {"", "terminate", "other"}]

ASSUME FirstAssumption ==
  /\ FirstUsers \in [UserIds -> Users] /\ FirstRoles \in [RoleIds -> Roles]
  /\ FirstNodes \in [NodeIds -> Nodes]
  /\ FirstUsers[Owner] = [role |-> "owner", pw |-> FALSE]
  /\ \A u \in UserIds \ {Owner} : FirstUsers[u].role # "owner"

VARIABLES
  nodes, users, roles, providers,  \* the tables; providers is a set of domains
  conv,      \* userStates: the text the bot waits for, and about which row
  tracked,   \* mainMenuID: 0 when the bot knows of no menu
  msgs,      \* what the chat shows, per message
  late,      \* presses under way, or a refresh: <<message, button>>
  front,     \* the message that a handler has edited or sent last, 0 when that
             \* send failed; a history that only AnsweredAsAsked reads
  rebooted,  \* the bot was rebooted since the program started
  slow,      \* an edit that its poller has not finished: <<message, screen>>
  incidents  \* how many so far

tables == <<nodes, users, roles, providers>>
menu   == <<tracked, front>>
polls  == <<rebooted, slow>>
vars   == <<tables, conv, menu, msgs, late, polls, incidents>>

-----------------------------------------------------------------------------
(* Messages. *)

Steps == {"rename_node", "set_sub", "set_sub_url", "terminate_confirm",
          "add_user_creds", "add_user_role", "add_role_name", "add_role_rank",
          "user_pw", "role_rename", "role_rank", "add_provider_domain",
          "add_provider_name", "provider_rename"}
\* The steps whose handler forgets the conversation before it reads the text.
ClearsFirst == {"rename_node", "set_sub", "set_sub_url", "user_pw",
                "role_rename", "role_rank", "provider_rename"}
NoConv == [step |-> "", target |-> 0]
Expects(step, t) == [step |-> step, target |-> t]

\* A button carries the handler it calls and up to two ids.
Button(data, t) == [data |-> data, id |-> t, role |-> 0]
Plain(data) == Button(data, 0)
Buttons(data, ids) == {Button(data, t) : t \in ids}

\* What a message shows: the text it asks for, if any, and its buttons.
AskScreen(asks, buttons) ==
  [asks |-> asks, buttons |-> {b \in buttons : b.data \in Pressable}]
Screen(buttons) == AskScreen(NoConv, buttons)
Ask(step, t) == AskScreen(Expects(step, t), {Plain("state:cancel")})
\* An error under a cancel button.
Notice == Screen({Plain("state:cancel")})

\* "live": it is in the chat; "ok": the last edit of it reached the chat.
Unsent == [screen |-> Notice, live |-> FALSE, ok |-> FALSE]
Shown(screen) == [screen |-> screen, live |-> TRUE, ok |-> TRUE]
\* A message that was deleted; a late press carries its own button.
Gone == [Unsent EXCEPT !.ok = TRUE]
Incident == incidents < MaxIncidents /\ incidents' = incidents + 1

\* editMessage: the message becomes the menu even when the edit fails; a
\* message that was deleted cannot be edited.
Write(m, screen) ==
  \/ /\ msgs' = IF msgs[m].live THEN [msgs EXCEPT ![m] = Shown(screen)] ELSE msgs
     /\ UNCHANGED incidents
  \/ Incident /\ msgs' = [msgs EXCEPT ![m].ok = FALSE]

\* (Mutant: the message does not become the menu.)
EditUntracked(m, screen) ==
  IF m = 0 THEN UNCHANGED <<menu, msgs, polls, incidents>>
  ELSE front' = m /\ Write(m, screen) /\ UNCHANGED <<tracked, polls>>
\* Beside another poller the edit may take longer than what that one does.
Edit(m, screen) ==
  /\ UNCHANGED rebooted
  /\ IF m = 0 THEN UNCHANGED <<menu, msgs, slow, incidents>>
     ELSE \/ tracked' = m /\ front' = m /\ Write(m, screen) /\ UNCHANGED slow
          \/ /\ rebooted /\ slow = {} /\ slow' = {<<m, screen>>}
             /\ UNCHANGED <<menu, msgs, incidents>>

Free(m) == msgs[m] = Unsent /\ \A k \in 1..(m - 1) : msgs[k] # Unsent

\* A message is sent and becomes the menu, or the call fails.
Send(screen, chat) ==
  /\ UNCHANGED polls
  /\ \/ /\ \E m \in Messages : /\ Free(m) /\ tracked' = m /\ front' = m
                               /\ msgs' = [chat EXCEPT ![m] = Shown(screen)]
        /\ UNCHANGED incidents
     \/ Incident /\ tracked' = 0 /\ front' = 0 /\ msgs' = chat

\* sendFreshMenu: the menu is deleted, unless that call fails, and a new one
\* sent.
SendFreshMenu(screen) ==
  \/ Send(screen, IF tracked = 0 THEN msgs ELSE [msgs EXCEPT ![tracked] = Gone])
  \/ /\ tracked # 0 /\ Incident /\ UNCHANGED polls
     /\ \E m \in Messages : /\ Free(m) /\ tracked' = m /\ front' = m
                            /\ msgs' = [msgs EXCEPT ![m] = Shown(screen)]

-----------------------------------------------------------------------------
(* Screens, from the tables as they are when the screen is rendered. *)

Known(u) == users[u].role # ""
ExistsAlways(r) == TRUE
Exists(r) == roles[r].name # ""
People == {u \in UserIds : Known(u)}
RoleRows == {r \in RoleIds : Exists(r)}
Fleet == {n \in NodeIds : nodes[n].here}
Assignable == {r \in RoleRows : roles[r].name # "owner"}

\* domain.RoleRank: the rank of a name that has no row.
DomainRank(name) == CASE name = "owner" -> 100 [] name = "admin" -> 80
                      [] name = "viewer" -> 10 [] OTHER -> 30
RoleRankOf(name) ==
  IF \E r \in RoleRows : roles[r].name = name
    THEN roles[CHOOSE r \in RoleRows : roles[r].name = name].rank
    ELSE DomainRank(name)

MainMenu == Screen({Plain("panel"), Plain("nodes:list"), Plain("providers:menu"),
                    Plain("task:refresh_subs"), Plain("purge:go"), Plain("backup:download"),
                    Plain("users:menu"), Plain("roles:menu"), Plain("menu:main")})
BackMenu == Screen({Plain("menu:main")})
NodeList == Screen(Buttons("node:detail", Fleet) \cup {Plain("menu:main")})
ProvidersMenu == Screen(Buttons("provider:detail", providers)
                          \cup {Plain("providers:add"), Plain("menu:main")})
UsersMenu == Screen(Buttons("user:detail", People)
                      \cup {Plain("users:add"), Plain("menu:main")})
RolesMenu == Screen(Buttons("role:detail", RoleRows)
                      \cup {Plain("roles:add"), Plain("menu:main")})

NodeMenu(n) == Screen({Button(data, n) : data \in
  {"node:vpn", "node:sub", "node:refresh_sub", "node:logs", "node:queue",
   "node:rename", "node:delete"}} \cup {Plain("nodes:list")})
NodeDetail(n) == IF nodes[n].here THEN NodeMenu(n) ELSE NodeList

ProviderDetail(d) ==
  IF d \in providers THEN Screen({Button("provider:rename", d),
                                  Button("provider:del", d), Plain("providers:menu")})
  ELSE Notice

\* The actions are hidden for the owner and for the admin's rank and above.  (A
\* failed read of the roles, which is left out, hides them or offers them by
\* the built-in rank; never for the owner.)
ManageableAll(u) == TRUE
Manageable(u) == users[u].role # "owner" /\ RoleRankOf(users[u].role) < 80
UserDetail(u) ==
  IF ~ Known(u) THEN Notice
  ELSE Screen({Plain("users:menu")} \cup
    IF Manageable(u)
      THEN {Button(data, u) : data \in {"user:role", "user:pw", "user:del"}}
      ELSE {})
RolePicker(u) ==
  Screen({[data |-> "user:setrole", id |-> u, role |-> r] : r \in Assignable}
           \cup {Button("user:detail", u)})
RoleSelection ==
  AskScreen(Expects("add_user_role", 0),
            Buttons("user:create", Assignable) \cup {Plain("state:cancel")})

RoleDetail(r) ==
  IF ~ Exists(r) THEN Notice
  ELSE Screen({Button(data, r) : data \in {"role:rename", "role:rank", "role:del"}}
                \cup {Plain("roles:menu")})

Confirm(yes, no, t) == Screen({Button(yes, t), Button(no, t)})

-----------------------------------------------------------------------------
(* Buttons.  m is the message, b the button; the tables come first. *)

Render(m, screen) == Edit(m, screen) /\ UNCHANGED <<tables, conv>>

ShowMainMenu ==
  IF tracked # 0 THEN Edit(tracked, MainMenu) ELSE Send(MainMenu, msgs)

\* The cancel button forgets the conversation, the other way back does not.
\* The switches of language and emoji lead to the main menu as well.
Cancel(b) ==
  /\ b.data \in {"state:cancel", "menu:main"} /\ ShowMainMenu
  /\ conv' = IF b.data = "state:cancel" THEN NoConv ELSE conv
  /\ UNCHANGED tables

\* A role that bot may change or delete, and one nobody holds.
CustomRoleAny(r) == Exists(r)
CustomRole(r) == Exists(r) /\ ~ roles[r].system
Unused(r) == \A u \in UserIds : users[u].role # roles[r].name

\* The buttons that only open another screen.
MenuOf(b) ==
  CASE b.data = "panel"           -> BackMenu
    [] b.data = "backup:download" -> MainMenu
    [] b.data = "nodes:list"      -> NodeList
    [] b.data = "providers:menu"  -> ProvidersMenu
    [] b.data = "users:menu"      -> UsersMenu
    [] b.data = "roles:menu"      -> RolesMenu
    [] b.data = "node:detail"     -> NodeDetail(b.id)
    [] b.data = "provider:detail" -> ProviderDetail(b.id)
    [] b.data = "user:detail"     -> UserDetail(b.id)
    [] b.data = "role:detail"     -> RoleDetail(b.id)
    [] b.data = "user:role" -> IF Known(b.id) THEN RolePicker(b.id) ELSE Notice
    [] b.data = "node:vpn"  -> IF nodes[b.id].here
         THEN Confirm("node:switch", "node:detail", b.id) ELSE Screen({})
    [] b.data = "node:logs" -> Confirm("node:logs_show", "node:detail", b.id)
    [] b.data = "node:queue" -> IF nodes[b.id].command # ""
         THEN Confirm("node:queue_cancel", "node:detail", b.id)
         ELSE IF nodes[b.id].here THEN Screen({Button("node:detail", b.id)})
              ELSE NodeList
    [] b.data = "node:delete" ->
         Screen({Button(data, b.id) : data \in
                   {"node:softdelete", "node:terminate", "node:detail"}})
    [] b.data = "provider:del" -> Confirm("provider:delconfirm", "provider:detail", b.id)
    [] b.data = "user:del" -> IF Known(b.id) /\ users[b.id].role # "owner"
         THEN Confirm("user:delconfirm", "user:detail", b.id) ELSE Notice
    [] b.data = "role:del" -> IF CustomRole(b.id) /\ Unused(b.id)
         THEN Confirm("role:delconfirm", "role:detail", b.id) ELSE Notice
Opening == {"panel", "backup:download",
  "nodes:list", "providers:menu", "users:menu", "roles:menu",
  "node:detail", "provider:detail", "user:detail", "role:detail", "user:role",
  "node:vpn", "node:logs", "node:queue", "node:delete", "provider:del",
  "user:del", "role:del"}
OpenMenu(m, b) == b.data \in Opening /\ Render(m, MenuOf(b))

\* The buttons that ask for a text: the conversation is set, then the screen.
StepOf(b) ==
  CASE b.data = "node:rename"    -> "rename_node"
    [] b.data = "node:sub"       -> "set_sub"
    [] b.data = "node:set_sub"   -> "set_sub_url"
    [] b.data = "node:terminate" -> "terminate_confirm"
    [] b.data = "users:add"      -> "add_user_creds"
    [] b.data = "roles:add"      -> "add_role_name"
    [] b.data = "providers:add"  -> "add_provider_domain"
    [] b.data = "user:pw" /\ Known(b.id)          -> "user_pw"
    [] b.data = "role:rename" /\ CustomRole(b.id) -> "role_rename"
    [] b.data = "role:rank" /\ CustomRole(b.id)   -> "role_rank"
    [] b.data = "provider:rename" /\ b.id \in providers -> "provider_rename"
    [] OTHER -> ""
\* (Mutant: a conversation under way is not given up.)
AskForOnce(m, b) ==
  /\ StepOf(b) # "" /\ conv' = IF conv = NoConv THEN Expects(StepOf(b), b.id) ELSE conv
  /\ Edit(m, Ask(StepOf(b), b.id)) /\ UNCHANGED tables
AskFor(m, b) ==
  /\ StepOf(b) # "" /\ conv' = Expects(StepOf(b), b.id)
  /\ Edit(m, Ask(StepOf(b), b.id)) /\ UNCHANGED tables

\* The row is gone, it may not be changed, or a statement fails.
Refusing == {"user:detail", "user:role", "user:setrole", "user:pw", "user:del",
  "user:delconfirm", "role:detail", "role:rename", "role:rank", "role:del",
  "role:delconfirm", "provider:detail", "provider:rename", "provider:delconfirm",
  "node:approve", "node:reject", "purge:go", "task:refresh_subs"}
Refuse(m, b) == b.data \in Refusing /\ Render(m, Notice)

\* SetPendingCommand has no effect on a node that is gone.
Pending(n, c) == nodes' = IF nodes[n].here
                            THEN [nodes EXCEPT ![n].command = c] ELSE nodes
OnlyNodes == UNCHANGED <<users, roles, providers, conv>>

\* handleSwitch, handleRefreshSub, handleApproveNode; the last one needs the
\* URLs the device has reported.
QueueCommand(m, b) ==
  /\ b.data \in {"node:switch", "node:refresh_sub", "node:approve"}
  /\ b.data = "node:approve" => nodes[b.id].subs
  /\ Pending(b.id, "other") /\ Edit(m, NodeDetail(b.id)') /\ OnlyNodes

\* Logs are asked for when nothing else is pending; the screen is the same
\* when a statement fails.
ShowLogs(m, b) ==
  /\ b.data = "node:logs_show"
  /\ \/ nodes[b.id].command = "" /\ Pending(b.id, "other")
     \/ UNCHANGED nodes
  /\ Edit(m, Confirm("node:logs_show", "node:detail", b.id)) /\ OnlyNodes

QueueCancel(m, b) ==
  /\ b.data = "node:queue_cancel" /\ Pending(b.id, "")
  /\ Edit(m, Screen({Button("node:detail", b.id)})) /\ OnlyNodes

RejectNode(m, b) ==
  /\ b.data = "node:reject" /\ nodes[b.id].here /\ Pending(b.id, "terminate")
  /\ Edit(m, Screen({Plain("nodes:list")})) /\ OnlyNodes

SoftDelete(m, b) ==
  /\ b.data = "node:softdelete" /\ nodes' = [nodes EXCEPT ![b.id] = NoNode]
  /\ Edit(m, Screen({Plain("nodes:list")})) /\ OnlyNodes

\* A statement fails, and the detail says so.
NodeStatementFails(m, b) ==
  /\ b.data \in {"node:switch", "node:refresh_sub", "node:queue",
                  "node:queue_cancel", "node:softdelete"}
  /\ Render(m, NodeDetail(b.id))

\* handleRefreshAllSubs and handleOtaAll.
RefreshAllSubs(m, b) ==
  /\ b.data = "task:refresh_subs"
  /\ nodes' = [n \in NodeIds |-> IF nodes[n].here
                 THEN [nodes[n] EXCEPT !.command = "other"] ELSE nodes[n]]
  /\ Edit(m, MainMenu) /\ OnlyNodes

Purge(m, b) ==
  /\ b.data = "purge:go"
  /\ \E offline \in SUBSET Fleet :
       nodes' = [n \in NodeIds |-> IF n \in offline THEN NoNode ELSE nodes[n]]
  /\ Edit(m, MainMenu) /\ OnlyNodes

ProviderDeleteConfirm(m, b) ==
  /\ b.data = "provider:delconfirm" /\ providers' = providers \ {b.id}
  /\ Edit(m, ProvidersMenu') /\ UNCHANGED <<nodes, users, roles, conv>>

\* The owner's role is never given, the owner never given another.
Reassignable(u, r) == /\ Known(u) /\ users[u].role # "owner"
                      /\ Exists(r) /\ roles[r].name # "owner"
UserChangeRole(m, b) ==
  /\ b.data = "user:setrole" /\ Reassignable(b.id, b.role)
  /\ users[b.id].role # roles[b.role].name
  /\ users' = [users EXCEPT ![b.id].role = roles[b.role].name]
  /\ UNCHANGED <<nodes, roles, providers, conv>> /\ Edit(m, UserDetail(b.id)')

UserDeleteConfirm(m, b) ==
  /\ b.data = "user:delconfirm" /\ Known(b.id) /\ users[b.id].role # "owner"
  /\ users' = [users EXCEPT ![b.id] = Deleted]
  /\ UNCHANGED <<nodes, roles, providers, conv>> /\ Edit(m, UsersMenu')

\* The role is pressed; the name and the password are those of the
\* conversation.  Without one the flow has expired; when the row cannot be
\* written (the name is taken) the conversation stays.
UserCreate(m, b) ==
  /\ b.data = "user:create" /\ UNCHANGED <<nodes, roles, providers>>
  /\ IF conv.step # "add_user_role"
       THEN conv' = NoConv /\ UNCHANGED users /\ Edit(m, Notice)
       ELSE \/ UNCHANGED <<users, conv>> /\ Edit(m, Notice)
            \/ /\ b.id \in Assignable /\ conv' = NoConv
               /\ \E u \in UserIds : /\ users[u] = Nobody
                    /\ users' = [users EXCEPT ![u] =
                                   [role |-> roles[b.id].name, pw |-> TRUE]]
               /\ Edit(m, MainMenu)

RoleDeleteConfirm(m, b) ==
  /\ b.data = "role:delconfirm" /\ CustomRole(b.id) /\ Unused(b.id)
  /\ roles' = [roles EXCEPT ![b.id] = Dropped]
  /\ UNCHANGED <<nodes, users, providers, conv>> /\ Edit(m, RolesMenu')

-----------------------------------------------------------------------------
(* Texts: what the admin writes, taken as the answer the bot waits for. *)

Answer(screen) == Edit(tracked, screen)
Forget == conv' = NoConv

IdleText == conv = NoConv /\ ShowMainMenu /\ UNCHANGED <<tables, conv>>

\* The text is not acceptable: the screen asks again, but the handlers that
\* clear first do not wait for it any more.
AskAgain ==
  /\ conv.step \notin {"", "add_user_role"}
  /\ Answer(Ask(conv.step, conv.target))
  /\ conv' = IF conv.step \in ClearsFirst THEN NoConv ELSE conv
  /\ UNCHANGED tables

\* The row is gone or may not be changed, or a statement fails.
TextFails ==
  /\ conv.step \in ClearsFirst \cup {"add_role_rank", "add_provider_name"}
  /\ conv' = IF conv.step \in ClearsFirst THEN NoConv ELSE conv
  /\ Answer(Notice) /\ UNCHANGED tables

RenameText ==
  /\ conv.step = "rename_node" /\ Forget
  /\ Answer(NodeDetail(conv.target)) /\ UNCHANGED tables

SetSubText ==
  LET n == conv.target IN
  /\ conv.step \in {"set_sub", "set_sub_url"} /\ Forget
  /\ nodes' = IF nodes[n].here
       THEN [nodes EXCEPT ![n].subs = TRUE, ![n].command = "other"] ELSE nodes
  /\ Answer(IF nodes[n].here THEN Screen({Button("node:detail", n)}) ELSE NodeList)
  /\ UNCHANGED <<users, roles, providers>>

TerminateText ==
  \E n \in NodeIds :
    /\ conv = Expects("terminate_confirm", n) /\ Forget
    /\ Pending(n, "terminate") \/ UNCHANGED nodes
    /\ Answer(NodeDetail(n)')
    /\ UNCHANGED <<users, roles, providers>>

AddUserCredsText ==
  /\ conv.step \in {"add_user_creds", "add_user_role"}
  /\ conv' = Expects("add_user_role", 0)
  /\ Answer(RoleSelection) /\ UNCHANGED tables

AddRoleNameText ==
  /\ conv.step = "add_role_name" /\ conv' = Expects("add_role_rank", 0)
  /\ Answer(Ask("add_role_rank", 0)) /\ UNCHANGED tables

\* Names that no role may be given.
Reserved == {"owner", "admin", "client", "viewer"}
NameFree(name) == \A r \in RoleIds : roles[r].name # name

\* The name was checked a text earlier; the table holds it once.
AddRoleRankText ==
  /\ conv.step = "add_role_rank" /\ Forget
  /\ \E r \in RoleIds, name \in Names \ Reserved, k \in Ranks :
       /\ roles[r] = NoRole /\ NameFree(name)
       /\ roles' = [roles EXCEPT ![r] = [name |-> name, rank |-> k, system |-> FALSE]]
  /\ UNCHANGED <<nodes, users, providers>> /\ Answer(RolesMenu')

UserPwText ==
  \E u \in People :
    /\ conv = Expects("user_pw", u) /\ Forget
    /\ users' = [users EXCEPT ![u].pw = TRUE]
    /\ UNCHANGED <<nodes, roles, providers>> /\ Answer(UserDetail(u)')

\* The accounts that hold the old name keep it.
RoleRenameText ==
  \E r \in RoleIds, name \in Names \ Reserved :
    /\ conv = Expects("role_rename", r) /\ CustomRole(r) /\ Forget
    /\ NameFree(name) /\ roles' = [roles EXCEPT ![r].name = name]
    /\ UNCHANGED <<nodes, users, providers>> /\ Answer(RoleDetail(r)')

RoleRankText ==
  \E r \in RoleIds, k \in Ranks :
    /\ conv = Expects("role_rank", r) /\ CustomRole(r) /\ Forget
    /\ roles' = [roles EXCEPT ![r].rank = k]
    /\ UNCHANGED <<nodes, users, providers>> /\ Answer(RoleDetail(r)')

AddProviderDomainText ==
  /\ conv.step = "add_provider_domain"
  /\ \E d \in Domains \ providers :
       conv' = Expects("add_provider_name", d) /\ Answer(Ask("add_provider_name", d))
  /\ UNCHANGED tables

\* UpsertSubscriptionProvider: a provider deleted meanwhile comes back.
ProviderNameText ==
  \E d \in Domains :
    /\ conv \in {Expects("add_provider_name", d), Expects("provider_rename", d)}
    /\ Forget /\ providers' = providers \cup {d}
    /\ UNCHANGED <<nodes, users, roles>> /\ Answer(ProviderDetail(d)')

-----------------------------------------------------------------------------
(* The others. *)

\* /start, /nodes, /users, /roles, /providers, /status: none of them forgets
\* the conversation, nor does any other.
Command ==
  /\ \/ \E screen \in {MainMenu, NodeList, UsersMenu, RolesMenu, ProvidersMenu, BackMenu} :
          SendFreshMenu(screen)
     \/ ShowMainMenu
  /\ UNCHANGED <<tables, conv>>

\* refreshMainMenus, when the counters have changed.  It reads which message
\* is the menu, edits that message later and still later notes that it is the
\* menu, with the poller at work in between.
ReadMenuID ==
  /\ tracked # 0 /\ late = {} /\ Incident /\ late' = {<<tracked, Plain("refresh")>>}
  /\ UNCHANGED <<tables, conv, menu, msgs, polls>>
Refreshed(m) ==
  /\ \/ Incident /\ UNCHANGED msgs
     \/ /\ msgs' = IF msgs[m].live THEN [msgs EXCEPT ![m] = Shown(MainMenu)] ELSE msgs
        /\ UNCHANGED incidents
  /\ UNCHANGED <<tables, conv, menu, polls>>
RefreshMainMenus(m) ==
  /\ <<m, Plain("refresh")>> \in late /\ Refreshed(m)
  /\ late' = {<<m, Plain("noted")>>}
NoteMenu(m) ==
  /\ <<m, Plain("noted")>> \in late /\ tracked' = m /\ late' = {}
  /\ UNCHANGED <<tables, conv, msgs, front, polls, incidents>>
Refresh == tracked # 0 /\ Refreshed(tracked) /\ UNCHANGED late
Refresher == Refresh \/ ReadMenuID
               \/ \E m \in Messages : RefreshMainMenus(m) \/ NoteMenu(m)

\* The program starts anew: what it kept in memory is gone, the chat is not,
\* nor are the presses that Telegram holds.
NewBot ==
  /\ Incident /\ conv' = NoConv /\ tracked' = 0
  /\ late' = {p \in late : p[2].data \notin {"refresh", "noted"}}
  /\ rebooted' = FALSE /\ slow' = {} /\ UNCHANGED <<tables, msgs, front>>

\* The settings form reboots the bot, which keeps what it has in memory.
Reboot ==
  /\ Incident /\ ~ rebooted /\ rebooted' = TRUE
  /\ UNCHANGED <<tables, conv, menu, msgs, late, slow>>

\* The call that ends a handler of the other poller is answered.
FinishEdit ==
  /\ \E e \in slow : tracked' = e[1] /\ front' = e[1] /\ Write(e[1], e[2])
  /\ slow' = {} /\ UNCHANGED <<tables, conv, late, rebooted>>

\* A device registers; the notification is not the menu.
NotifyNewNode(n) ==
  /\ ~ nodes[n].here
  /\ \E subs \in BOOLEAN :
       /\ nodes' = [nodes EXCEPT ![n] = [here |-> TRUE, subs |-> subs, command |-> ""]]
       /\ \/ Incident /\ UNCHANGED msgs
          \/ \E m \in Messages :
               /\ Free(m) /\ UNCHANGED incidents
               /\ msgs' = [msgs EXCEPT ![m] = Shown(Screen(
                    {Button("node:set_sub", n), Button("node:reject", n)} \cup
                    IF subs THEN {Button("node:approve", n)} ELSE {}))]
  /\ UNCHANGED <<menu, late, polls>> /\ OnlyNodes

\* The dashboard gives an account another role or deletes it.
DashboardUsers ==
  /\ \E u \in People \ {Owner} :
       \/ \E name \in Names \ {"owner"} : users' = [users EXCEPT ![u].role = name]
       \/ users' = [users EXCEPT ![u] = Deleted]
  /\ UNCHANGED roles

\* It creates a role, or renames, re-ranks or deletes any but the owner's, the
\* built-in ones among them; who has a role that is deleted is counted before,
\* but not when that fails, and may change meanwhile.
Lower(r) == Exists(r) /\ roles[r].name # "owner" /\ roles[r].rank < 100
DashboardRoles ==
  /\ \E r \in RoleIds :
       \/ Lower(r) /\ roles' = [roles EXCEPT ![r] = Dropped]
       \/ \E name \in Names, k \in Ranks :
            /\ NameFree(name) \/ (Lower(r) /\ name = roles[r].name)
            /\ \/ Lower(r) /\ roles' = [roles EXCEPT ![r].name = name, ![r].rank = k]
               \/ /\ roles[r] = NoRole
                  /\ roles' = [roles EXCEPT ![r] =
                                  [name |-> name, rank |-> k, system |-> FALSE]]
  /\ UNCHANGED users

Dashboard ==
  /\ Incident
  /\ DashboardUsers \/ DashboardRoles
  /\ UNCHANGED <<nodes, providers, conv, menu, msgs, late, polls>>

\* A button is pressed; the message may change before the press is handled.
Tap ==
  /\ Incident /\ late = {}
  /\ \E m \in Messages : msgs[m].live /\ \E b \in msgs[m].screen.buttons :
       late' = {<<m, b>>}
  /\ UNCHANGED <<tables, conv, menu, msgs, polls>>

Pressed(m) == {b \in msgs[m].screen.buttons : msgs[m].live}
                \cup {p[2] : p \in {p \in late : p[1] = m}}
Press ==
  /\ \E m \in Messages : \E b \in Pressed(m) :
       /\ late' = late \ {<<m, b>>}
       /\ \/ Cancel(b) \/ OpenMenu(m, b) \/ AskFor(m, b) \/ Refuse(m, b)
          \/ QueueCommand(m, b) \/ ShowLogs(m, b) \/ QueueCancel(m, b)
          \/ RejectNode(m, b) \/ SoftDelete(m, b) \/ RefreshAllSubs(m, b)
          \/ Purge(m, b) \/ ProviderDeleteConfirm(m, b)
          \/ UserChangeRole(m, b) \/ UserDeleteConfirm(m, b)
          \/ UserCreate(m, b) \/ RoleDeleteConfirm(m, b)
          \/ NodeStatementFails(m, b)

Text ==
  /\ \/ IdleText \/ AskAgain \/ TextFails
     \/ RenameText \/ SetSubText \/ TerminateText \/ AddUserCredsText
     \/ AddRoleNameText \/ AddRoleRankText \/ UserPwText \/ RoleRenameText
     \/ RoleRankText \/ AddProviderDomainText \/ ProviderNameText
  /\ UNCHANGED late

Init ==
  /\ nodes = FirstNodes /\ users = FirstUsers /\ roles = FirstRoles
  /\ providers = {} /\ conv = NoConv /\ tracked = 0
  /\ msgs = [m \in Messages |-> Unsent] /\ late = {} /\ front = 0
  /\ rebooted = FALSE /\ slow = {} /\ incidents = 0

Next ==
  \/ Press \/ Text
  \/ Command /\ UNCHANGED late
  \/ \E n \in NodeIds : NotifyNewNode(n)
  \/ Dashboard \/ Tap \/ Refresher \/ NewBot \/ Reboot \/ FinishEdit

Spec == Init /\ [][Next]_vars

-----------------------------------------------------------------------------
\* Types: tables of rows, a conversation of a known step, messages of screens.
TypeOK ==
  /\ nodes \in [NodeIds -> Nodes] /\ providers \subseteq Domains
  /\ users \in [UserIds -> Users] /\ roles \in [RoleIds -> Roles]
  /\ conv.step \in Steps \cup {""} /\ conv.target \in Nat
  /\ tracked \in 0..MaxMessages
  /\ \A m \in Messages : msgs[m].live \in BOOLEAN /\ msgs[m].ok \in BOOLEAN
  /\ front \in 0..MaxMessages /\ rebooted \in BOOLEAN
  /\ Cardinality(late) <= 1 /\ Cardinality(slow) <= 1
  /\ incidents \in 0..MaxIncidents

\* When the screen that the admin has last been shown asks for a text, the bot
\* never takes the answer for anything else than what it says: a name for a
\* password, or for another row.
Prompted ==
  front # 0 =>
    LET shown == msgs[front] IN
    shown.live /\ shown.ok /\ shown.screen.asks # NoConv
      => conv \in {NoConv, shown.screen.asks}
\* That is so as long as the bot has one poller: until the settings form reboots
\* it, and again when the program starts anew.
AnsweredAsAsked == ~ rebooted => Prompted

\* Whatever stale button is pressed, the bot leaves the owner's account alone
\* (no handler that sets a password checks whose it is) and makes no other owner.
OwnerUntouched ==
  /\ users[Owner] = FirstUsers[Owner]
  /\ \A u \in UserIds \ {Owner} : users[u].role # "owner"

\* The built-in roles are the dashboard's alone: whatever it renames, re-ranks,
\* deletes or creates between a question and its answer, no button and no text
\* changes a role that is built in, or gives a new one a built-in name.
SparesBuiltIns ==
  \A r \in RoleIds : /\ roles[r].system => roles'[r] = roles[r]
                     /\ roles[r] = NoRole => roles'[r].name \notin Reserved
BuiltInRolesKept == [][~ SparesBuiltIns => ~ (Press \/ Text)]_vars
=============================================================================
