----------------------- MODULE BotConversationProofs -----------------------
(***************************************************************************)
(* Whatever is pressed, sent, lost, restarted or changed meanwhile, the    *)
(* bot never touches the owner's account, leaves the built-in roles to the *)
(* dashboard and, until the settings form reboots it, takes a text only as *)
(* what its menu asks for, for any number of rows, messages and incidents. *)
(*                                                                         *)
(* That no handler sets the owner's password is not in the handlers but in *)
(* the buttons: the invariant says of every message and of every press     *)
(* under way that its buttons do not lead there, and of the conversation   *)
(* that it does not ask for that password.                                 *)
(***************************************************************************)
EXTENDS BotConversation, FiniteSetTheorems, TLAPS

\* The buttons that neither set a password nor give a role.
Harmless ==
  {"backup:download", "menu:main", "node:approve", "node:delete",
    "node:detail", "node:logs", "node:logs_show", "node:queue",
    "node:queue_cancel", "node:refresh_sub", "node:reject", "node:rename",
    "node:set_sub", "node:softdelete", "node:sub", "node:switch",
    "node:terminate", "node:vpn", "nodes:list", "noted", "panel", "provider:del",
    "provider:delconfirm", "provider:detail", "provider:rename",
    "providers:add", "providers:menu", "purge:go", "refresh", "role:del",
    "role:delconfirm", "role:detail", "role:rank", "role:rename", "roles:add",
    "roles:menu", "state:cancel", "task:refresh_subs", "user:create",
    "user:del", "user:delconfirm", "user:detail", "user:role", "users:add",
    "users:menu"}
Kinds == Harmless \cup {"user:pw", "user:setrole"}
Btns == {b \in [data : Kinds, id : Nat, role : Nat] :
           /\ b.data = "user:pw" => b.id # Owner
           /\ b.data = "user:setrole" => b.role \in RoleIds}
Screens == [asks : [step : Steps \cup {""}, target : Nat], buttons : SUBSET Btns]
Silent  == {s \in Screens : s.asks = NoConv}
Chat    == [Messages -> [screen : Screens, live : BOOLEAN, ok : BOOLEAN]]

Tables ==
  /\ nodes \in [NodeIds -> Nodes] /\ providers \subseteq Domains
  /\ users \in [UserIds -> Users] /\ roles \in [RoleIds -> Roles]
  /\ OwnerUntouched
Talk ==
  /\ conv \in [step : Steps \cup {""}, target : Nat]
  /\ conv # Expects("user_pw", Owner)
View == /\ tracked \in 0..MaxMessages /\ front \in 0..MaxMessages
        /\ msgs \in Chat /\ incidents \in 0..MaxIncidents
Late == late \subseteq Messages \X Btns /\ IsFiniteSet(late) /\ Cardinality(late) <= 1
\* With one poller, no edit is outstanding, and a text whose answer would edit
\* no message finds no prompt that it could contradict.
Polls == /\ rebooted \in BOOLEAN /\ slow \subseteq Messages \X Screens
         /\ IsFiniteSet(slow) /\ Cardinality(slow) <= 1
Alone == /\ slow = {} /\ Prompted
         /\ tracked = 0 => front = 0 \/ conv = NoConv
Ready == Polls /\ (~ rebooted => Alone)
Inv  == Tables /\ Talk /\ View /\ Late /\ Ready

-----------------------------------------------------------------------------
(* Screens. *)

\* What the screens need of the tables.
Fit == providers \subseteq Domains /\ OwnerUntouched

LEMMA Numbers == /\ UserIds \subseteq Nat /\ RoleIds \subseteq Nat /\ Messages \subseteq Nat
                 /\ NodeIds \subseteq Nat /\ Domains \subseteq Nat
                 /\ Messages \subseteq 0..MaxMessages /\ 0 \notin Messages
                 /\ Owner \in UserIds
  BY BoundsAssumption DEF UserIds, RoleIds, Messages, Owner

LEMMA AskScreenOK ==
  ASSUME NEW B, B \subseteq Btns, NEW asks \in [step : Steps \cup {""}, target : Nat]
  PROVE  AskScreen(asks, B) \in Screens /\ AskScreen(asks, B).asks = asks
<1>1. {b \in B : b.data \in Pressable} \in SUBSET Btns
  OBVIOUS
<1> QED BY <1>1 DEF AskScreen, Screens

LEMMA ScreenOK ==
  ASSUME NEW B, B \subseteq Btns
  PROVE  Screen(B) \in Silent
<1>1. NoConv \in [step : Steps \cup {""}, target : Nat]
  BY DEF NoConv
<1> QED BY <1>1, AskScreenOK DEF Screen, Silent

\* Buttons that are neither for a password nor for a role.
LEMMA ButtonOK ==
  ASSUME NEW data \in Harmless, NEW t \in Nat
  PROVE  Button(data, t) \in Btns /\ Plain(data) \in Btns
<1>1. data \in Kinds /\ data # "user:pw" /\ data # "user:setrole"
  BY DEF Harmless, Kinds
<1> QED BY <1>1 DEF Button, Plain, Btns

LEMMA AskOK ==
  ASSUME NEW step \in Steps \cup {""}, NEW t \in Nat
  PROVE  Ask(step, t) \in Screens /\ Ask(step, t).asks = Expects(step, t)
<1>1. {Plain("state:cancel")} \subseteq Btns
  BY ButtonOK DEF Harmless
<1>2. Expects(step, t) \in [step : Steps \cup {""}, target : Nat]
  BY DEF Expects
<1> QED BY <1>1, <1>2, AskScreenOK DEF Ask

LEMMA MenusOK ==
  Fit => /\ MainMenu \in Silent /\ BackMenu \in Silent /\ Notice \in Silent
         /\ NodeList \in Silent /\ ProvidersMenu \in Silent
         /\ UsersMenu \in Silent /\ RolesMenu \in Silent
<1> SUFFICES ASSUME Fit
             PROVE  /\ MainMenu \in Silent /\ BackMenu \in Silent /\ Notice \in Silent
                    /\ NodeList \in Silent /\ ProvidersMenu \in Silent
                    /\ UsersMenu \in Silent /\ RolesMenu \in Silent
  OBVIOUS
<1>1. MainMenu \in Silent
  BY ButtonOK, ScreenOK DEF Harmless, MainMenu
<1>2. BackMenu \in Silent /\ Notice \in Silent
  BY ButtonOK, ScreenOK DEF Harmless, BackMenu, Notice
<1>3. Fleet \subseteq Nat /\ providers \subseteq Nat /\ People \subseteq Nat
        /\ RoleRows \subseteq Nat
  BY Numbers DEF Fit, Fleet, People, RoleRows
<1>4. ASSUME NEW ids, ids \subseteq Nat, NEW data \in Harmless
      PROVE  Buttons(data, ids) \subseteq Btns
  BY <1>4, ButtonOK DEF Harmless, Buttons
<1>5. NodeList \in Silent
  <2>1. Buttons("node:detail", Fleet) \cup {Plain("menu:main")} \subseteq Btns
    BY <1>3, <1>4, ButtonOK DEF Harmless
  <2> QED BY <2>1, ScreenOK DEF NodeList
<1>6. ProvidersMenu \in Silent
  <2>1. Buttons("provider:detail", providers)
          \cup {Plain("providers:add"), Plain("menu:main")} \subseteq Btns
    BY <1>3, <1>4, ButtonOK DEF Harmless
  <2> QED BY <2>1, ScreenOK DEF ProvidersMenu
<1>7. UsersMenu \in Silent
  <2>1. Buttons("user:detail", People)
          \cup {Plain("users:add"), Plain("menu:main")} \subseteq Btns
    BY <1>3, <1>4, ButtonOK DEF Harmless
  <2> QED BY <2>1, ScreenOK DEF UsersMenu
<1>8. RolesMenu \in Silent
  <2>1. Buttons("role:detail", RoleRows)
          \cup {Plain("roles:add"), Plain("menu:main")} \subseteq Btns
    BY <1>3, <1>4, ButtonOK DEF Harmless
  <2> QED BY <2>1, ScreenOK DEF RolesMenu
<1> QED BY <1>1, <1>2, <1>5, <1>6, <1>7, <1>8

\* The owner's detail has no button for the password.
LEMMA DetailsOK ==
  \A t \in Nat : Fit => /\ NodeDetail(t) \in Silent /\ ProviderDetail(t) \in Silent
                        /\ UserDetail(t) \in Silent /\ RoleDetail(t) \in Silent
<1> SUFFICES ASSUME NEW t \in Nat, Fit
             PROVE  /\ NodeDetail(t) \in Silent /\ ProviderDetail(t) \in Silent
                    /\ UserDetail(t) \in Silent /\ RoleDetail(t) \in Silent
  OBVIOUS
<1>1. NodeDetail(t) \in Silent
  <2>1. {Button(data, t) : data \in
           {"node:vpn", "node:sub", "node:refresh_sub", "node:logs", "node:queue",
            "node:rename", "node:delete"}} \cup {Plain("nodes:list")} \subseteq Btns
    BY ButtonOK DEF Harmless
  <2> QED BY <2>1, ScreenOK, MenusOK DEF NodeDetail, NodeMenu
<1>2. ProviderDetail(t) \in Silent
  <2>1. {Button("provider:rename", t), Button("provider:del", t),
         Plain("providers:menu")} \subseteq Btns
    BY ButtonOK DEF Harmless
  <2> QED BY <2>1, ScreenOK, MenusOK DEF ProviderDetail
<1>3. UserDetail(t) \in Silent
  <2>1. Manageable(t) => t # Owner
    BY FirstAssumption DEF Manageable, Fit, OwnerUntouched
  <2>2. Manageable(t) => {Button(data, t) : data \in {"user:role", "user:pw", "user:del"}}
                           \subseteq Btns
    BY <2>1 DEF Harmless, Kinds, Btns, Button
  <2>3. Plain("users:menu") \in Btns
    BY ButtonOK DEF Harmless
  <2>4. {Plain("users:menu")} \cup
          (IF Manageable(t)
             THEN {Button(data, t) : data \in {"user:role", "user:pw", "user:del"}}
             ELSE {}) \subseteq Btns
    BY <2>2, <2>3
  <2> QED BY <2>4, ScreenOK, MenusOK DEF UserDetail
<1>4. RoleDetail(t) \in Silent
  <2>1. {Button(data, t) : data \in {"role:rename", "role:rank", "role:del"}}
          \cup {Plain("roles:menu")} \subseteq Btns
    BY ButtonOK DEF Harmless
  <2> QED BY <2>1, ScreenOK, MenusOK DEF RoleDetail
<1> QED BY <1>1, <1>2, <1>3, <1>4

LEMMA ConfirmOK ==
  ASSUME NEW yes \in Harmless, NEW no \in Harmless, NEW t \in Nat
  PROVE  Confirm(yes, no, t) \in Silent
  BY ButtonOK, ScreenOK DEF Confirm

LEMMA RolePickerOK == \A t \in Nat : RolePicker(t) \in Silent
<1> SUFFICES ASSUME NEW t \in Nat PROVE RolePicker(t) \in Silent
  OBVIOUS
<1>1. {[data |-> "user:setrole", id |-> t, role |-> r] : r \in Assignable} \subseteq Btns
  BY Numbers DEF Btns, Kinds, Assignable, RoleRows
<1>2. Button("user:detail", t) \in Btns
  BY ButtonOK DEF Harmless
<1> QED BY <1>1, <1>2, ScreenOK DEF RolePicker

LEMMA RoleSelectionOK ==
  RoleSelection \in Screens /\ RoleSelection.asks = Expects("add_user_role", 0)
<1>1. Buttons("user:create", Assignable) \subseteq Btns
  BY Numbers, ButtonOK DEF Buttons, Harmless, Assignable, RoleRows
<1>2. Plain("state:cancel") \in Btns
  BY ButtonOK DEF Harmless
<1>3. Expects("add_user_role", 0) \in [step : Steps \cup {""}, target : Nat]
  BY DEF Expects, Steps
<1>4. Buttons("user:create", Assignable) \cup {Plain("state:cancel")} \subseteq Btns
  BY <1>1, <1>2
<1> QED BY <1>3, <1>4, AskScreenOK DEF RoleSelection

LEMMA MenuOfOK ==
  ASSUME Fit, NEW b \in Btns, b.data \in Opening
  PROVE  MenuOf(b) \in Silent
<1>1. b.id \in Nat
  BY DEF Btns
<1>2. \A yes, no \in Harmless : Confirm(yes, no, b.id) \in Silent
  BY <1>1, ConfirmOK
<1>3. /\ NodeDetail(b.id) \in Silent /\ ProviderDetail(b.id) \in Silent
      /\ UserDetail(b.id) \in Silent /\ RoleDetail(b.id) \in Silent
      /\ RolePicker(b.id) \in Silent
  BY <1>1, DetailsOK, RolePickerOK
<1>4. /\ MainMenu \in Silent /\ BackMenu \in Silent /\ Notice \in Silent
      /\ NodeList \in Silent /\ ProvidersMenu \in Silent
      /\ UsersMenu \in Silent /\ RolesMenu \in Silent
  BY MenusOK
<1>5. Screen({}) \in Silent
  BY ScreenOK
<1>6. Screen({Button("node:detail", b.id)}) \in Silent
  BY <1>1, ButtonOK, ScreenOK DEF Harmless
<1>7. Screen({Button(data, b.id) : data \in
                {"node:softdelete", "node:terminate", "node:detail"}}) \in Silent
  BY <1>1, ButtonOK, ScreenOK DEF Harmless
<1>8. CASE b.data \in {"panel", "backup:download", "nodes:list", "providers:menu",
                       "users:menu", "roles:menu"}
  BY <1>4, <1>8 DEF MenuOf
<1>9. CASE b.data \in {"node:detail", "provider:detail", "user:detail", "role:detail",
                       "user:role"}
  BY <1>3, <1>4, <1>9 DEF MenuOf
<1>10. CASE b.data \in {"node:vpn", "node:logs", "node:queue", "node:delete"}
  <2>1. /\ Confirm("node:switch", "node:detail", b.id) \in Silent
        /\ Confirm("node:logs_show", "node:detail", b.id) \in Silent
        /\ Confirm("node:queue_cancel", "node:detail", b.id) \in Silent
    BY ZenonT(60), <1>2 DEF Harmless
  <2> QED BY <2>1, <1>4, <1>5, <1>6, <1>7, <1>10 DEF MenuOf
<1>11. CASE b.data \in {"provider:del", "user:del", "role:del"}
  <2>1. /\ Confirm("provider:delconfirm", "provider:detail", b.id) \in Silent
        /\ Confirm("user:delconfirm", "user:detail", b.id) \in Silent
        /\ Confirm("role:delconfirm", "role:detail", b.id) \in Silent
    BY ZenonT(60), <1>2 DEF Harmless
  <2> QED BY <2>1, <1>4, <1>11 DEF MenuOf
<1> QED BY <1>8, <1>9, <1>10, <1>11 DEF Opening

-----------------------------------------------------------------------------
(* Messages. *)

LEMMA WriteKeeps ==
  ASSUME View, NEW m \in Messages, NEW s \in Screens, Write(m, s), tracked' = m, front' = m,
         s.asks = NoConv \/ conv' \in {NoConv, s.asks}
  PROVE  View' /\ Prompted'
<1>1. CASE /\ msgs' = IF msgs[m].live THEN [msgs EXCEPT ![m] = Shown(s)] ELSE msgs
           /\ UNCHANGED incidents
  <2>1. CASE msgs[m].live
    <3>1. msgs' = [msgs EXCEPT ![m] = Shown(s)]
      BY <1>1, <2>1
    <3>2. Shown(s) \in [screen : Screens, live : BOOLEAN, ok : BOOLEAN]
      BY DEF Shown
    <3>3. View'
      BY <1>1, <3>1, <3>2, Numbers DEF View, Chat
    <3>4. msgs'[m].screen = s
      BY <3>1 DEF View, Chat, Shown
    <3> QED BY <3>3, <3>4 DEF Prompted
  <2>2. CASE ~ msgs[m].live
    <3>1. msgs' = msgs
      BY <1>1, <2>2
    <3>2. View'
      BY <1>1, <3>1, Numbers DEF View
    <3>3. ~ msgs'[front'].live
      BY <2>2, <3>1, Zenon
    <3>4. Prompted'
      BY <3>3, Zenon DEF Prompted
    <3> QED BY <3>2, <3>4
  <2> QED BY <2>1, <2>2
<1>2. CASE Incident /\ msgs' = [msgs EXCEPT ![m].ok = FALSE]
  <2>1. msgs' \in Chat
    BY <1>2 DEF View, Chat
  <2>2. View'
    BY <1>2, <2>1, Numbers, BoundsAssumption DEF View, Incident
  <2>3. msgs'[front'].ok = FALSE
    BY <1>2 DEF View, Chat
  <2>4. Prompted'
    BY <2>3, Zenon DEF Prompted
  <2> QED BY <2>2, <2>4
<1> QED BY <1>1, <1>2 DEF Write

LEMMA PollsSame == ASSUME Polls, UNCHANGED polls PROVE Polls'
  BY DEF Polls, polls
LEMMA PollsEmpty == ASSUME slow' = {}, rebooted' \in BOOLEAN PROVE Polls'
<1>1. IsFiniteSet(slow') /\ Cardinality(slow') = 0
  BY FS_EmptySet
<1> QED BY <1>1 DEF Polls
LEMMA ReadySame ==
  ASSUME Ready, UNCHANGED <<tracked, front, msgs, conv, rebooted, slow>>
  PROVE  Ready'
<1>1. Polls'
  BY PollsSame DEF Ready, polls
<1>2. Alone => Alone'
  BY DEF Alone, Prompted
<1> QED BY <1>1, <1>2 DEF Ready

\* What the bot edits or sends is what it waits for, or asks for nothing.
LEMMA StaysReady ==
  ASSUME Ready, UNCHANGED polls, Prompted', tracked' # 0 \/ front' = 0 \/ conv' = NoConv
  PROVE  Ready'
  BY DEF Ready, Polls, Alone, polls

LEMMA EditKeeps ==
  ASSUME View, Ready, NEW m \in 0..MaxMessages, NEW s \in Screens, Edit(m, s),
         m # 0 \/ (tracked = 0 /\ conv # NoConv),
         s.asks = NoConv \/ conv' \in {NoConv, s.asks}
  PROVE  View' /\ Ready'
<1>1. CASE m = 0
  <2>1. UNCHANGED <<tracked, front, msgs, slow, rebooted, incidents>>
    BY <1>1 DEF Edit, menu
  <2>2. View'
    BY <2>1 DEF View
  <2>3. ~ rebooted => front = 0
    BY <1>1 DEF Ready, Alone
  <2> QED BY <1>1, <2>1, <2>2, <2>3 DEF Ready, Polls, Alone, Prompted
<1>2. CASE m # 0
  <2>1. m \in Messages
    BY <1>2, BoundsAssumption DEF Messages
  <2>2. CASE tracked' = m /\ front' = m /\ Write(m, s) /\ UNCHANGED slow
    <3>1. View' /\ Prompted'
      BY <2>1, <2>2, WriteKeeps
    <3>2. UNCHANGED polls
      BY <2>2 DEF Edit, polls
    <3> QED BY <1>2, <2>2, <3>1, <3>2, StaysReady
  <2>3. CASE rebooted /\ slow' = {<<m, s>>} /\ UNCHANGED <<menu, msgs, incidents>>
    <3>1. View'
      BY <2>3 DEF View, menu
    <3>2. IsFiniteSet(slow') /\ Cardinality(slow') = 1
      BY <2>3, FS_Singleton
    <3>3. rebooted'
      BY <2>3 DEF Edit
    <3> QED BY <2>1, <2>3, <3>1, <3>2, <3>3 DEF Ready, Polls
  <2> QED BY <1>2, <2>2, <2>3 DEF Edit
<1> QED BY <1>1, <1>2

LEMMA SendKeeps ==
  ASSUME View, Ready, NEW s \in Silent, NEW chat \in Chat, Send(s, chat)
  PROVE  View' /\ Ready'
<1>1. ASSUME NEW m \in Messages, tracked' = m, front' = m,
             msgs' = [chat EXCEPT ![m] = Shown(s)], UNCHANGED incidents
      PROVE  View' /\ Prompted' /\ tracked' # 0
  BY <1>1, Numbers DEF View, Chat, Shown, Silent, Prompted
<1>2. CASE Incident /\ tracked' = 0 /\ front' = 0 /\ msgs' = chat
  <2>1. View' /\ Prompted'
    BY <1>2, BoundsAssumption DEF View, Incident, Prompted
  <2> QED BY <1>2, <2>1, StaysReady DEF Send
<1> QED BY <1>1, <1>2, StaysReady DEF Send

LEMMA UnsentOK == Unsent \in [screen : Screens, live : BOOLEAN, ok : BOOLEAN]
                  /\ Gone \in [screen : Screens, live : BOOLEAN, ok : BOOLEAN]
<1>1. Notice \in Silent
  BY ButtonOK, ScreenOK DEF Notice, Harmless
<1> QED BY <1>1 DEF Unsent, Gone, Silent

LEMMA FreshKeeps ==
  ASSUME View, Ready, NEW s \in Silent, SendFreshMenu(s)
  PROVE  View' /\ Ready'
<1>1. CASE Send(s, IF tracked = 0 THEN msgs ELSE [msgs EXCEPT ![tracked] = Gone])
  <2>1. (IF tracked = 0 THEN msgs ELSE [msgs EXCEPT ![tracked] = Gone]) \in Chat
    BY UnsentOK DEF View, Chat
  <2> QED BY <1>1, <2>1, SendKeeps
<1>2. ASSUME Incident, NEW m \in Messages, tracked' = m, front' = m,
             msgs' = [msgs EXCEPT ![m] = Shown(s)]
      PROVE  View' /\ Prompted' /\ tracked' # 0
  BY <1>2, Numbers, BoundsAssumption DEF Incident, View, Chat, Shown, Silent, Prompted
<1> QED BY <1>1, <1>2, StaysReady DEF SendFreshMenu

LEMMA MainMenuKeeps ==
  ASSUME View, Ready, Fit, ShowMainMenu
  PROVE  View' /\ Ready'
<1>1. MainMenu \in Silent
  BY MenusOK
<1>2. CASE tracked # 0 /\ Edit(tracked, MainMenu)
  <2>1. tracked \in 0..MaxMessages
    BY DEF View
  <2>2. MainMenu \in Screens /\ MainMenu.asks = NoConv
    BY <1>1 DEF Silent
  <2> QED BY <1>2, <2>1, <2>2, EditKeeps
<1>3. CASE Send(MainMenu, msgs)
  BY <1>1, <1>3, SendKeeps DEF View
<1> QED BY <1>2, <1>3 DEF ShowMainMenu

-----------------------------------------------------------------------------
(* The tables. *)

LEMMA TablesFit == Tables => Fit
  BY DEF Tables, Fit

LEMMA TablesSame ==
  ASSUME Tables, UNCHANGED tables
  PROVE  Tables'
  BY DEF Tables, tables, OwnerUntouched

LEMMA NodesChange ==
  ASSUME Tables, nodes' \in [NodeIds -> Nodes], UNCHANGED <<users, roles, providers>>
  PROVE  Tables'
  BY DEF Tables, OwnerUntouched

LEMMA ProvidersChange ==
  ASSUME Tables, providers' \subseteq Domains, UNCHANGED <<nodes, users, roles>>
  PROVE  Tables'
  BY DEF Tables, OwnerUntouched

\* A row other than the owner's becomes one that is not an owner's.
LEMMA UsersChange ==
  ASSUME Tables, NEW u, NEW row,
         u \in UserIds => u # Owner /\ row \in Users /\ row.role # "owner",
         users' = [users EXCEPT ![u] = row], UNCHANGED <<nodes, roles, providers>>
  PROVE  Tables'
<1>1. users' \in [UserIds -> Users]
  BY DEF Tables
<1>2. OwnerUntouched'
  BY DEF Tables, OwnerUntouched
<1> QED BY <1>1, <1>2 DEF Tables

LEMMA RolesChange ==
  ASSUME Tables, NEW r, NEW row, r \in RoleIds => row \in Roles,
         roles' = [roles EXCEPT ![r] = row], UNCHANGED <<nodes, users, providers>>
  PROVE  Tables'
<1>1. roles' \in [RoleIds -> Roles]
  BY DEF Tables
<1> QED BY <1>1 DEF Tables, OwnerUntouched

\* What the guards of the handlers tell apart.
LEMMA Rows ==
  ASSUME Tables
  PROVE  /\ \A u \in UserIds : users[u].role \notin {"", "owner"} => u # Owner
         /\ \A u \in UserIds : Known(u) => users[u] \in [role : Names, pw : BOOLEAN]
         /\ \A r \in RoleIds : Exists(r) =>
              roles[r] \in [name : Names, rank : 1..100, system : BOOLEAN]
         /\ Nobody \in Users /\ Deleted \in Users /\ Dropped \in Roles
<1>1. users[Owner].role = "owner"
  BY FirstAssumption DEF Tables, OwnerUntouched
<1>2. /\ Nobody.role = "" /\ Deleted.role = "" /\ NoRole.name = ""
      /\ Dropped.name = ""
  BY DEF Nobody, Deleted, NoRole, Dropped
<1>3. ASSUME NEW u \in UserIds, Known(u) PROVE users[u] \in [role : Names, pw : BOOLEAN]
  BY <1>2, <1>3 DEF Tables, Users, Known
<1>4. ASSUME NEW r \in RoleIds, Exists(r)
      PROVE  roles[r] \in [name : Names, rank : 1..100, system : BOOLEAN]
  BY <1>2, <1>4 DEF Tables, Roles, Exists
<1>5. Nobody \in Users /\ Deleted \in Users /\ Dropped \in Roles
  BY DEF Users, Roles
<1> QED BY <1>1, <1>2, <1>3, <1>4, <1>5

-----------------------------------------------------------------------------
(* Buttons: one lemma per handler, or per group of handlers that write the  *)
(* same table. *)

Kept == Tables' /\ Talk' /\ View' /\ Ready'

LEMMA TalkSame == ASSUME Talk, UNCHANGED conv PROVE Talk'
  BY DEF Talk
LEMMA TalkForgotten == ASSUME conv' = NoConv PROVE Talk'
  BY DEF Talk, NoConv, Expects

\* What is pressed shows a screen that asks for nothing.
LEMMA ShowKeeps ==
  ASSUME Inv, NEW m \in Messages, NEW s \in Silent, Edit(m, s)
  PROVE  View' /\ Ready'
<1>1. m \in 0..MaxMessages /\ m # 0
  BY Numbers
<1>2. s \in Screens /\ s.asks = NoConv
  BY DEF Silent
<1> QED BY <1>1, <1>2, EditKeeps DEF Inv

LEMMA RenderKeeps ==
  ASSUME Inv, NEW m \in Messages, NEW s \in Silent, Render(m, s)
  PROVE  Kept
<1>1. View' /\ Ready'
  BY ShowKeeps DEF Render
<1>2. Tables'
  BY TablesSame DEF Render, Inv
<1>3. Talk'
  BY TalkSame DEF Render, Inv
<1> QED BY <1>1, <1>2, <1>3 DEF Kept

LEMMA CancelKeeps ==
  ASSUME Inv, NEW b \in Btns, Cancel(b)
  PROVE  Kept
<1>1. View' /\ Ready'
  BY MainMenuKeeps, TablesFit DEF Inv, Cancel
<1>2. Tables'
  BY TablesSame DEF Cancel, Inv
<1>3. Talk'
  BY TalkSame, TalkForgotten DEF Cancel, Inv
<1> QED BY <1>1, <1>2, <1>3 DEF Kept

LEMMA ScreensKeep ==
  ASSUME Inv, NEW m \in Messages, NEW b \in Btns,
         OpenMenu(m, b) \/ Refuse(m, b) \/ NodeStatementFails(m, b)
  PROVE  Kept
<1>1. Fit /\ b.id \in Nat
  BY TablesFit DEF Inv, Btns
<1>2. CASE OpenMenu(m, b)
  BY <1>1, <1>2, MenuOfOK, RenderKeeps DEF OpenMenu
<1>3. CASE Refuse(m, b)
  BY <1>1, <1>3, MenusOK, RenderKeeps DEF Refuse
<1>4. CASE NodeStatementFails(m, b)
  BY <1>1, <1>4, DetailsOK, RenderKeeps DEF NodeStatementFails
<1> QED BY <1>2, <1>3, <1>4

\* Only the owner's button would ask for the owner's password.
LEMMA AskForKeeps ==
  ASSUME Inv, NEW m \in Messages, NEW b \in Btns, AskFor(m, b)
  PROVE  Kept
<1> DEFINE step == StepOf(b)
<1>1. step \in Steps
  BY DEF AskFor, StepOf, Steps
<1>2. step = "user_pw" => b.data = "user:pw"
  BY DEF AskFor, StepOf
<1>3. b.id \in Nat /\ (b.data = "user:pw" => b.id # Owner)
  BY DEF Btns
<1>4. conv' = Expects(step, b.id) /\ Edit(m, Ask(step, b.id)) /\ UNCHANGED tables
  BY DEF AskFor
<1> HIDE DEF step
<1>5. Talk'
  BY <1>1, <1>2, <1>3, <1>4 DEF Talk, Expects
<1>6. Ask(step, b.id) \in Screens /\ Ask(step, b.id).asks = Expects(step, b.id)
  BY <1>1, <1>3, AskOK
<1>7. m \in 0..MaxMessages /\ m # 0
  BY Numbers
<1>8. View' /\ Ready'
  BY <1>4, <1>6, <1>7, EditKeeps DEF Inv
<1>9. Tables'
  BY <1>4, TablesSame DEF Inv
<1> QED BY <1>5, <1>8, <1>9 DEF Kept

LEMMA NodeRow ==
  ASSUME Tables, NEW n \in NodeIds, nodes[n].here
  PROVE  nodes[n] \in [here : {TRUE}, subs : BOOLEAN, command : {"", "terminate", "other"}]
<1>1. NoNode.here = FALSE
  BY DEF NoNode
<1>2. nodes[n] # NoNode
  BY <1>1, Zenon
<1>3. nodes[n] \in Nodes
  BY DEF Tables
<1> QED BY <1>2, <1>3 DEF Nodes

\* The handlers of nodes leave the other tables and the conversation alone.
LEMMA PendingOK ==
  ASSUME Tables, NEW n \in Nat, NEW c \in {"", "terminate", "other"}, Pending(n, c)
  PROVE  nodes' \in [NodeIds -> Nodes]
<1>1. CASE n \in NodeIds /\ nodes[n].here
  <2>1. nodes[n] \in [here : {TRUE}, subs : BOOLEAN, command : {"", "terminate", "other"}]
    BY <1>1, NodeRow
  <2>2. nodes' = [nodes EXCEPT ![n].command = c]
    BY <1>1 DEF Pending
  <2>3. [nodes[n] EXCEPT !.command = c] \in Nodes
    BY <2>1 DEF Nodes
  <2> QED BY <1>1, <2>2, <2>3 DEF Tables
<1>2. CASE n \in NodeIds /\ ~ nodes[n].here
  <2>1. nodes' = nodes
    BY <1>2 DEF Pending
  <2> QED BY <2>1 DEF Tables
<1>3. CASE n \notin NodeIds
  <2>1. [nodes EXCEPT ![n].command = c] = nodes
    BY <1>3 DEF Tables
  <2>2. nodes' = nodes
    BY <2>1 DEF Pending
  <2> QED BY <2>2 DEF Tables
<1> QED BY <1>1, <1>2, <1>3

LEMMA NodesKeep ==
  ASSUME Inv, NEW m \in Messages, NEW s \in Silent, Edit(m, s),
         nodes' \in [NodeIds -> Nodes], OnlyNodes
  PROVE  Kept
<1>1. View' /\ Ready'
  BY ShowKeeps
<1>2. Tables'
  BY NodesChange DEF OnlyNodes, Inv
<1>3. Talk'
  BY TalkSame DEF OnlyNodes, Inv
<1> QED BY <1>1, <1>2, <1>3 DEF Kept

\* Screens that are rendered after the tables have changed.
LEMMA MenusAfter ==
  Fit' => /\ NodeList' \in Silent /\ ProvidersMenu' \in Silent
          /\ UsersMenu' \in Silent /\ RolesMenu' \in Silent
<1>1. Fit => /\ NodeList \in Silent /\ ProvidersMenu \in Silent
             /\ UsersMenu \in Silent /\ RolesMenu \in Silent
  BY MenusOK
<1>2. (Fit => /\ NodeList \in Silent /\ ProvidersMenu \in Silent
              /\ UsersMenu \in Silent /\ RolesMenu \in Silent)'
  BY <1>1, PTL
<1> QED BY <1>2

LEMMA DetailsAfter ==
  \A t \in Nat : Fit' => /\ NodeDetail(t)' \in Silent /\ ProviderDetail(t)' \in Silent
                         /\ UserDetail(t)' \in Silent /\ RoleDetail(t)' \in Silent
<1> SUFFICES ASSUME NEW t \in Nat
             PROVE  (Fit => /\ NodeDetail(t) \in Silent /\ ProviderDetail(t) \in Silent
                            /\ UserDetail(t) \in Silent /\ RoleDetail(t) \in Silent)'
  OBVIOUS
<1>1. Fit => /\ NodeDetail(t) \in Silent /\ ProviderDetail(t) \in Silent
             /\ UserDetail(t) \in Silent /\ RoleDetail(t) \in Silent
  BY DetailsOK
<1> QED BY <1>1, PTL

LEMMA FitAfter == Tables' => Fit'
  BY TablesFit, PTL

LEMMA NodeButtonsKeep ==
  ASSUME Inv, NEW m \in Messages, NEW b \in Btns,
         \/ QueueCommand(m, b) \/ ShowLogs(m, b) \/ QueueCancel(m, b)
         \/ RejectNode(m, b) \/ SoftDelete(m, b) \/ RefreshAllSubs(m, b) \/ Purge(m, b)
  PROVE  Kept
<1>1. b.id \in Nat /\ Tables /\ Fit
  BY TablesFit DEF Inv, Btns
<1>2. Screen({Plain("nodes:list")}) \in Silent
        /\ Screen({Button("node:detail", b.id)}) \in Silent
        /\ Confirm("node:logs_show", "node:detail", b.id) \in Silent
        /\ MainMenu \in Silent
  BY <1>1, ButtonOK, ScreenOK, ConfirmOK, MenusOK DEF Harmless
<1>3. CASE QueueCommand(m, b)
  <2>1. nodes' \in [NodeIds -> Nodes] /\ OnlyNodes /\ Edit(m, NodeDetail(b.id)')
    BY <1>1, <1>3, PendingOK DEF QueueCommand
  <2>2. Tables'
    BY <1>1, <2>1, NodesChange DEF OnlyNodes
  <2>3. NodeDetail(b.id)' \in Silent
    BY <1>1, <2>2, FitAfter, DetailsAfter
  <2> QED BY <2>1, <2>3, NodesKeep
<1>4. CASE ShowLogs(m, b)
  <2>1. nodes' \in [NodeIds -> Nodes]
    BY <1>1, <1>4, PendingOK DEF ShowLogs, Tables
  <2> QED BY <1>2, <1>4, <2>1, NodesKeep DEF ShowLogs
<1>5. CASE QueueCancel(m, b)
  <2>1. nodes' \in [NodeIds -> Nodes]
    BY <1>1, <1>5, PendingOK DEF QueueCancel
  <2> QED BY <1>2, <1>5, <2>1, NodesKeep DEF QueueCancel
<1>6. CASE RejectNode(m, b)
  <2>1. nodes' \in [NodeIds -> Nodes]
    BY <1>1, <1>6, PendingOK DEF RejectNode
  <2> QED BY <1>2, <1>6, <2>1, NodesKeep DEF RejectNode
<1>7. CASE SoftDelete(m, b)
  <2>1. nodes' \in [NodeIds -> Nodes]
    BY <1>1, <1>7 DEF SoftDelete, Tables, Nodes
  <2> QED BY <1>2, <1>7, <2>1, NodesKeep DEF SoftDelete
<1>8. CASE RefreshAllSubs(m, b)
  <2>1. ASSUME NEW n \in NodeIds, nodes[n].here
        PROVE  [nodes[n] EXCEPT !.command = "other"] \in Nodes
    <3>1. nodes[n] \in [here : {TRUE}, subs : BOOLEAN, command : {"", "terminate", "other"}]
      BY <1>1, <2>1, NodeRow
    <3> QED BY <3>1 DEF Nodes
  <2>2. nodes' \in [NodeIds -> Nodes]
    BY <1>1, <1>8, <2>1 DEF RefreshAllSubs, Tables
  <2> QED BY <1>2, <1>8, <2>2, NodesKeep DEF RefreshAllSubs
<1>9. CASE Purge(m, b)
  <2>1. nodes' \in [NodeIds -> Nodes]
    BY <1>1, <1>9 DEF Purge, Tables, Nodes
  <2> QED BY <1>2, <1>9, <2>1, NodesKeep DEF Purge
<1> QED BY <1>3, <1>4, <1>5, <1>6, <1>7, <1>8, <1>9

LEMMA ProviderButtonKeeps ==
  ASSUME Inv, NEW m \in Messages, NEW b \in Btns, ProviderDeleteConfirm(m, b)
  PROVE  Kept
<1>1. Tables'
  BY ProvidersChange DEF ProviderDeleteConfirm, Inv, Tables
<1>2. ProvidersMenu' \in Silent
  BY <1>1, FitAfter, MenusAfter
<1>3. View' /\ Ready'
  BY <1>2, ShowKeeps DEF ProviderDeleteConfirm
<1>4. Talk'
  BY TalkSame DEF ProviderDeleteConfirm, Inv
<1> QED BY <1>1, <1>3, <1>4 DEF Kept

LEMMA UserButtonsKeep ==
  ASSUME Inv, NEW m \in Messages, NEW b \in Btns,
         UserChangeRole(m, b) \/ UserDeleteConfirm(m, b)
  PROVE  Kept
<1>1. Tables /\ b.id \in Nat
  BY DEF Inv, Btns
<1>2. UNCHANGED conv
  BY DEF UserChangeRole, UserDeleteConfirm
<1>3. Talk'
  BY <1>2, TalkSame DEF Inv
<1>4. CASE UserChangeRole(m, b)
  <2> DEFINE row == [users[b.id] EXCEPT !.role = roles[b.role].name]
  <2>1. /\ b.role \in RoleIds /\ Known(b.id) /\ users[b.id].role # "owner"
        /\ Exists(b.role) /\ roles[b.role].name # "owner"
    BY <1>4 DEF UserChangeRole, Reassignable, Btns
  <2>2. roles[b.role].name \in Names
    BY <1>1, <2>1, Rows
  <2>3. b.id \in UserIds => b.id # Owner /\ row \in Users /\ row.role # "owner"
    BY <1>1, <2>1, <2>2, Rows DEF Users, Known
  <2>4. users' = [users EXCEPT ![b.id] = row] /\ UNCHANGED <<nodes, roles, providers>>
    BY <1>4 DEF UserChangeRole
  <2> HIDE DEF row
  <2>5. Tables'
    BY <1>1, <2>3, <2>4, UsersChange
  <2>6. UserDetail(b.id)' \in Silent
    BY <1>1, <2>5, FitAfter, DetailsAfter
  <2>7. View' /\ Ready'
    BY <1>4, <2>6, ShowKeeps DEF UserChangeRole
  <2> QED BY <1>3, <2>5, <2>7 DEF Kept
<1>5. CASE UserDeleteConfirm(m, b)
  <2>1. b.id \in UserIds => b.id # Owner
    BY <1>1, <1>5, Rows DEF UserDeleteConfirm, Known
  <2>2. Deleted \in Users /\ Deleted.role # "owner"
    BY <1>1, Rows DEF Deleted
  <2>3. Tables'
    BY <1>1, <1>5, <2>1, <2>2, UsersChange DEF UserDeleteConfirm
  <2>4. UsersMenu' \in Silent
    BY <2>3, FitAfter, MenusAfter
  <2>5. View' /\ Ready'
    BY <1>5, <2>4, ShowKeeps DEF UserDeleteConfirm
  <2> QED BY <1>3, <2>3, <2>5 DEF Kept
<1> QED BY <1>4, <1>5

LEMMA UserCreateKeeps ==
  ASSUME Inv, NEW m \in Messages, NEW b \in Btns, UserCreate(m, b)
  PROVE  Kept
<1>1. Tables /\ Fit /\ Talk
  BY TablesFit DEF Inv
<1>2. Notice \in Silent /\ MainMenu \in Silent
  BY <1>1, MenusOK
<1>3. CASE (conv' = NoConv \/ UNCHANGED conv) /\ UNCHANGED users /\ Edit(m, Notice)
  <2>1. Tables'
    BY <1>1, <1>3, TablesSame DEF UserCreate, tables
  <2>2. Talk'
    BY <1>1, <1>3, TalkSame, TalkForgotten
  <2>3. View' /\ Ready'
    BY <1>2, <1>3, ShowKeeps
  <2> QED BY <2>1, <2>2, <2>3 DEF Kept
<1>4. ASSUME b.id \in Assignable, conv' = NoConv, Edit(m, MainMenu),
             NEW u \in UserIds, users[u] = Nobody,
             users' = [users EXCEPT ![u] = [role |-> roles[b.id].name, pw |-> TRUE]]
      PROVE  Kept
  <2> DEFINE row == [role |-> roles[b.id].name, pw |-> TRUE]
  <2>1. b.id \in RoleIds /\ Exists(b.id) /\ roles[b.id].name # "owner"
    BY <1>4 DEF Assignable, RoleRows
  <2>2. roles[b.id].name \in Names
    BY <1>1, <2>1, Rows
  <2>3. row \in Users /\ row.role # "owner"
    BY <2>1, <2>2 DEF Users
  <2>4. users[Owner].role = "owner" /\ Nobody.role = ""
    BY <1>1, FirstAssumption DEF Tables, OwnerUntouched, Nobody
  <2>5. u # Owner
    BY <1>4, <2>4
  <2>6. UNCHANGED <<nodes, roles, providers>>
    BY DEF UserCreate
  <2>7. users' = [users EXCEPT ![u] = row]
    BY <1>4
  <2> HIDE DEF row
  <2>8. Tables'
    BY <1>1, <2>3, <2>5, <2>6, <2>7, UsersChange
  <2>9. Talk'
    BY <1>4, TalkForgotten
  <2>10. View' /\ Ready'
    BY <1>2, <1>4, ShowKeeps
  <2> QED BY <2>8, <2>9, <2>10 DEF Kept
<1> QED BY <1>3, <1>4 DEF UserCreate

LEMMA RoleButtonKeeps ==
  ASSUME Inv, NEW m \in Messages, NEW b \in Btns, RoleDeleteConfirm(m, b)
  PROVE  Kept
<1>1. Tables
  BY DEF Inv
<1>2. Dropped \in Roles
  BY <1>1, Rows
<1>3. Tables'
  BY <1>1, <1>2, RolesChange DEF RoleDeleteConfirm
<1>4. RolesMenu' \in Silent
  BY <1>3, FitAfter, MenusAfter
<1>5. View' /\ Ready'
  BY <1>4, ShowKeeps DEF RoleDeleteConfirm
<1>6. Talk'
  BY TalkSame DEF RoleDeleteConfirm, Inv
<1> QED BY <1>3, <1>5, <1>6 DEF Kept

-----------------------------------------------------------------------------
(* Texts. *)

\* A text is an answer only when the bot waits for one.
LEMMA Waits ==
  ASSUME \/ AskAgain \/ TextFails \/ RenameText \/ SetSubText \/ TerminateText
         \/ AddUserCredsText \/ AddRoleNameText \/ AddRoleRankText \/ UserPwText
         \/ RoleRenameText \/ RoleRankText \/ AddProviderDomainText \/ ProviderNameText
  PROVE  conv # NoConv
<1>0. NoConv.step = ""
  BY DEF NoConv
<1>1. conv.step # "" => conv # NoConv
  BY <1>0, Zenon
<1>2. CASE AskAgain \/ TextFails
  <2>1. AskAgain => conv.step # ""
    BY DEF AskAgain
  <2>2. TextFails => conv.step \in ClearsFirst \cup {"add_role_rank", "add_provider_name"}
    BY DEF TextFails
  <2>3. "" \notin ClearsFirst \cup {"add_role_rank", "add_provider_name"}
    BY DEF ClearsFirst
  <2> QED BY <1>1, <1>2, <2>1, <2>2, <2>3, Zenon
<1>3. ASSUME NEW step, NEW t, step # "", conv = Expects(step, t) PROVE conv.step # ""
  BY <1>3 DEF Expects
<1>4. CASE TerminateText \/ UserPwText \/ RoleRenameText \/ RoleRankText \/ ProviderNameText
  BY <1>1, <1>3, <1>4 DEF TerminateText, UserPwText, RoleRenameText, RoleRankText,
     ProviderNameText
<1>5. CASE RenameText \/ SetSubText
  BY <1>1, <1>5 DEF RenameText, SetSubText
<1>6. CASE AddUserCredsText \/ AddRoleNameText \/ AddRoleRankText \/ AddProviderDomainText
  BY <1>1, <1>6 DEF AddUserCredsText, AddRoleNameText, AddRoleRankText,
     AddProviderDomainText
<1> QED BY <1>2, <1>4, <1>5, <1>6

LEMMA AnswerKeeps ==
  ASSUME Inv, conv # NoConv, NEW s \in Screens, Answer(s), s.asks = NoConv \/ conv' \in {NoConv, s.asks}
  PROVE  View' /\ Ready'
<1>1. tracked \in 0..MaxMessages /\ (tracked # 0 \/ tracked = 0)
  BY DEF Inv, View
<1> QED BY <1>1, EditKeeps DEF Answer, Inv

\* The answer to the question is a screen that asks for nothing.
LEMMA ForgetKeeps ==
  ASSUME Inv, conv # NoConv, NEW s \in Silent, Answer(s), Tables', conv' = NoConv \/ UNCHANGED conv
  PROVE  Kept
<1>1. s \in Screens /\ s.asks = NoConv
  BY DEF Silent
<1>2. View' /\ Ready'
  BY <1>1, AnswerKeeps
<1>3. Talk'
  BY TalkSame, TalkForgotten DEF Inv
<1> QED BY <1>2, <1>3 DEF Kept

LEMMA IdleKeeps == ASSUME Inv, IdleText PROVE Kept
<1>1. View' /\ Ready'
  BY MainMenuKeeps, TablesFit DEF Inv, IdleText
<1>2. Tables' /\ Talk'
  BY TablesSame, TalkSame DEF IdleText, Inv
<1> QED BY <1>1, <1>2 DEF Kept

\* The question is asked again, of the same row.
LEMMA AskAgainKeeps == ASSUME Inv, AskAgain PROVE Kept
<1>1. conv \in [step : Steps \cup {""}, target : Nat]
  BY DEF Inv, Talk
<1>2. conv = Expects(conv.step, conv.target)
  BY <1>1 DEF Expects
<1>3. /\ Ask(conv.step, conv.target) \in Screens
      /\ Ask(conv.step, conv.target).asks = Expects(conv.step, conv.target)
  BY <1>1, AskOK
<1>4. conv' \in {NoConv, conv}
  BY DEF AskAgain
<1>5. View' /\ Ready'
  BY <1>2, <1>3, <1>4, AnswerKeeps, Waits DEF AskAgain
<1>6. Tables' /\ Talk'
  BY <1>4, TablesSame, TalkSame, TalkForgotten DEF AskAgain, Inv
<1> QED BY <1>5, <1>6 DEF Kept

LEMMA FailsKeeps == ASSUME Inv, TextFails PROVE Kept
<1>1. Notice \in Silent /\ Tables'
  BY MenusOK, TablesFit, TablesSame DEF Inv, TextFails
<1> QED BY <1>1, ForgetKeeps, Waits DEF TextFails

LEMMA NodeTextsKeep ==
  ASSUME Inv, RenameText \/ SetSubText \/ TerminateText
  PROVE  Kept
<1>1. Tables /\ Fit /\ conv.target \in Nat
  BY TablesFit DEF Inv, Talk
<1>2. CASE RenameText
  <2>1. NodeDetail(conv.target) \in Silent
    BY <1>1, DetailsOK
  <2>2. Tables'
    BY <1>1, <1>2, TablesSame DEF RenameText
  <2> QED BY <1>2, <2>1, <2>2, ForgetKeeps, Waits DEF RenameText, Forget
<1>3. CASE SetSubText
  <2> DEFINE n == conv.target
             row == [nodes[n] EXCEPT !.subs = TRUE, !.command = "other"]
  <2>1. n \in NodeIds /\ nodes[n].here => row \in Nodes
    BY <1>1, NodeRow DEF Nodes
  <2>2. nodes' = IF nodes[n].here THEN [nodes EXCEPT ![n] = row] ELSE nodes
    BY <1>3 DEF SetSubText
  <2>3. UNCHANGED <<users, roles, providers>> /\ conv' = NoConv
    BY <1>3 DEF SetSubText, Forget
  <2>4. Answer(IF nodes[n].here THEN Screen({Button("node:detail", n)}) ELSE NodeList)
    BY <1>3 DEF SetSubText
  <2>5. NodeList \in Silent /\ Screen({Button("node:detail", n)}) \in Silent
    BY <1>1, MenusOK, ButtonOK, ScreenOK DEF Harmless
  <2> HIDE DEF n, row
  <2>6. nodes' \in [NodeIds -> Nodes]
    BY <1>1, <2>1, <2>2 DEF Tables
  <2>7. Tables'
    BY <1>1, <2>3, <2>6, NodesChange
  <2> QED BY <1>3, <2>3, <2>4, <2>5, <2>7, ForgetKeeps, Waits
<1>4. CASE TerminateText
  <2>1. PICK n \in NodeIds : /\ Pending(n, "terminate") \/ UNCHANGED nodes
                             /\ Answer(NodeDetail(n)')
    BY <1>4 DEF TerminateText
  <2>2. nodes' \in [NodeIds -> Nodes]
    BY <1>1, <2>1, Numbers, PendingOK DEF Tables
  <2>3. Tables'
    BY <1>1, <1>4, <2>2, NodesChange DEF TerminateText
  <2>4. NodeDetail(n)' \in Silent
    BY <2>3, FitAfter, DetailsAfter, Numbers
  <2> QED BY <1>4, <2>1, <2>3, <2>4, ForgetKeeps, Waits DEF TerminateText, Forget
<1> QED BY <1>2, <1>3, <1>4

\* A text that leads to the next question.
LEMMA NextQuestionKeeps ==
  ASSUME Inv, conv # NoConv, NEW step \in Steps \ {"user_pw"}, NEW t \in Nat, NEW s \in Screens,
         s.asks = Expects(step, t), conv' = Expects(step, t), Answer(s), UNCHANGED tables
  PROVE  Kept
<1>1. View' /\ Ready'
  BY AnswerKeeps
<1>2. Tables' /\ Talk'
  BY TablesSame DEF Inv, Talk, Expects
<1> QED BY <1>1, <1>2 DEF Kept

LEMMA QuestionTextsKeep ==
  ASSUME Inv, AddUserCredsText \/ AddRoleNameText \/ AddProviderDomainText
  PROVE  Kept
<1>1. {"add_user_role", "add_role_rank", "add_provider_name"} \subseteq Steps \ {"user_pw"}
  BY DEF Steps
<1>2. CASE AddUserCredsText
  BY <1>1, <1>2, RoleSelectionOK, NextQuestionKeeps, Waits DEF AddUserCredsText
<1>3. CASE AddRoleNameText
  BY <1>1, <1>3, AskOK, NextQuestionKeeps, Waits DEF AddRoleNameText
<1>4. CASE AddProviderDomainText
  <2>1. PICK d \in Domains : /\ conv' = Expects("add_provider_name", d)
                             /\ Answer(Ask("add_provider_name", d))
    BY <1>4 DEF AddProviderDomainText
  <2>2. d \in Nat
    BY Numbers
  <2> QED BY <1>1, <1>4, <2>1, <2>2, AskOK, NextQuestionKeeps, Waits DEF AddProviderDomainText
<1> QED BY <1>2, <1>3, <1>4

LEMMA UserPwKeeps == ASSUME Inv, UserPwText PROVE Kept
<1>1. Tables /\ conv # Expects("user_pw", Owner)
  BY DEF Inv, Talk
<1>2. PICK u \in People : /\ conv = Expects("user_pw", u)
                          /\ users' = [users EXCEPT ![u].pw = TRUE]
                          /\ Answer(UserDetail(u)')
  BY DEF UserPwText
<1> DEFINE row == [users[u] EXCEPT !.pw = TRUE]
<1>3. u \in UserIds /\ Known(u) /\ u # Owner
  BY <1>1, <1>2 DEF People
<1>4. row \in Users /\ row.role # "owner"
  <2>1. users[u] \in [role : Names, pw : BOOLEAN] /\ users[u].role # "owner"
    BY <1>1, <1>3, Rows DEF Tables, OwnerUntouched
  <2> QED BY <2>1 DEF Users
<1>5. users' = [users EXCEPT ![u] = row] /\ UNCHANGED <<nodes, roles, providers>>
  BY <1>2 DEF UserPwText
<1> HIDE DEF row
<1>6. Tables'
  BY <1>1, <1>3, <1>4, <1>5, UsersChange
<1>7. UserDetail(u)' \in Silent
  BY <1>3, <1>6, FitAfter, DetailsAfter, Numbers
<1> QED BY <1>2, <1>6, <1>7, ForgetKeeps, Waits DEF UserPwText, Forget

LEMMA RoleTextsKeep ==
  ASSUME Inv, AddRoleRankText \/ RoleRenameText \/ RoleRankText
  PROVE  Kept
<1>1. Tables /\ Ranks \subseteq 1..100
  BY BoundsAssumption DEF Inv
<1>2. CASE AddRoleRankText
  <2>1. PICK r \in RoleIds, name \in Names \ Reserved, k \in Ranks :
          /\ roles[r] = NoRole
          /\ roles' = [roles EXCEPT ![r] = [name |-> name, rank |-> k, system |-> FALSE]]
    BY <1>2 DEF AddRoleRankText
  <2>2. [name |-> name, rank |-> k, system |-> FALSE] \in Roles
    BY <1>1, <2>1 DEF Roles
  <2>3. Tables'
    BY <1>1, <1>2, <2>1, <2>2, RolesChange DEF AddRoleRankText
  <2>4. RolesMenu' \in Silent
    BY <2>3, FitAfter, MenusAfter
  <2> QED BY <1>2, <2>3, <2>4, ForgetKeeps, Waits DEF AddRoleRankText, Forget
<1>3. CASE RoleRenameText
  <2>1. PICK r \in RoleIds, name \in Names \ Reserved :
          /\ CustomRole(r) /\ roles' = [roles EXCEPT ![r].name = name]
          /\ Answer(RoleDetail(r)')
    BY <1>3 DEF RoleRenameText
  <2> DEFINE row == [roles[r] EXCEPT !.name = name]
  <2>2. r \in RoleIds /\ roles[r] \in [name : Names, rank : 1..100, system : BOOLEAN]
    BY <1>1, <2>1, Rows DEF CustomRole
  <2>3. row \in Roles
    BY <2>1, <2>2 DEF Roles
  <2>4. roles' = [roles EXCEPT ![r] = row] /\ UNCHANGED <<nodes, users, providers>>
    BY <1>3, <2>1 DEF RoleRenameText
  <2> HIDE DEF row
  <2>5. Tables'
    BY <1>1, <2>3, <2>4, RolesChange
  <2>6. RoleDetail(r)' \in Silent
    BY <2>5, FitAfter, DetailsAfter, Numbers
  <2> QED BY <1>3, <2>1, <2>5, <2>6, ForgetKeeps, Waits DEF RoleRenameText, Forget
<1>4. CASE RoleRankText
  <2>1. PICK r \in RoleIds, k \in Ranks :
          /\ CustomRole(r) /\ roles' = [roles EXCEPT ![r].rank = k]
          /\ Answer(RoleDetail(r)')
    BY <1>4 DEF RoleRankText
  <2> DEFINE row == [roles[r] EXCEPT !.rank = k]
  <2>2. r \in RoleIds /\ roles[r] \in [name : Names, rank : 1..100, system : BOOLEAN]
    BY <1>1, <2>1, Rows DEF CustomRole
  <2>3. row \in Roles
    BY <1>1, <2>1, <2>2 DEF Roles
  <2>4. roles' = [roles EXCEPT ![r] = row] /\ UNCHANGED <<nodes, users, providers>>
    BY <1>4, <2>1 DEF RoleRankText
  <2> HIDE DEF row
  <2>5. Tables'
    BY <1>1, <2>3, <2>4, RolesChange
  <2>6. RoleDetail(r)' \in Silent
    BY <2>5, FitAfter, DetailsAfter, Numbers
  <2> QED BY <1>4, <2>1, <2>5, <2>6, ForgetKeeps, Waits DEF RoleRankText, Forget
<1> QED BY <1>2, <1>3, <1>4

LEMMA ProviderNameKeeps == ASSUME Inv, ProviderNameText PROVE Kept
<1>1. PICK d \in Domains : providers' = providers \cup {d} /\ Answer(ProviderDetail(d)')
  BY DEF ProviderNameText
<1>2. Tables'
  BY <1>1, ProvidersChange DEF ProviderNameText, Inv, Tables
<1>3. ProviderDetail(d)' \in Silent
  BY <1>2, FitAfter, DetailsAfter, Numbers
<1> QED BY <1>1, <1>2, <1>3, ForgetKeeps, Waits DEF ProviderNameText, Forget

-----------------------------------------------------------------------------
(* The others, and the steps of the specification. *)

\* A press or a refresh comes under way.
LEMMA UnderWay ==
  ASSUME Inv, NEW m \in Messages, NEW b \in Btns, late' = {<<m, b>>}, Incident,
         UNCHANGED <<tables, conv, menu, msgs, polls>>
  PROVE  Inv'
<1>1. Tables' /\ Talk'
  BY TablesSame, TalkSame DEF Inv
<1>2. View' /\ Ready'
  BY BoundsAssumption
  DEF menu, polls, Inv, View, Incident, Ready, Polls, Alone, Prompted
<1>3. IsFiniteSet(late') /\ Cardinality(late') = 1
  BY FS_Singleton
<1>4. Late'
  BY <1>3 DEF Late
<1> QED BY <1>1, <1>2, <1>4 DEF Inv

LEMMA FewerLate == ASSUME Inv, late' \subseteq late PROVE Late'
<1>1. IsFiniteSet(late') /\ Cardinality(late') <= Cardinality(late)
  BY FS_Subset DEF Inv, Late
<1>2. Cardinality(late) \in Nat /\ Cardinality(late') \in Nat
  BY <1>1, FS_CardinalityType DEF Inv, Late
<1> QED BY <1>1, <1>2 DEF Inv, Late

LEMMA CommandKeeps == ASSUME Inv, Command PROVE Kept
<1>1. Fit /\ View /\ Ready
  BY TablesFit DEF Inv
<1>2. /\ MainMenu \in Silent /\ BackMenu \in Silent /\ NodeList \in Silent
      /\ ProvidersMenu \in Silent /\ UsersMenu \in Silent /\ RolesMenu \in Silent
  BY <1>1, MenusOK
<1>3. View' /\ Ready'
  BY <1>1, <1>2, FreshKeeps, MainMenuKeeps DEF Command
<1>4. Tables' /\ Talk'
  BY TablesSame, TalkSame DEF Command, Inv
<1> QED BY <1>3, <1>4 DEF Kept

\* The refresher writes the menu, which asks for nothing, over any message.
LEMMA RefreshedKeeps ==
  ASSUME Inv, NEW m \in Messages, Refreshed(m)
  PROVE  Kept
<1>1. MainMenu \in Silent
  BY TablesFit, MenusOK DEF Inv
<1>2. Tables' /\ Talk'
  BY TablesSame, TalkSame DEF Refreshed, Inv
<1>3. UNCHANGED <<tracked, front, rebooted, slow, conv>>
  BY DEF Refreshed, menu, polls
<1>4. CASE Incident /\ UNCHANGED msgs
  BY <1>2, <1>3, <1>4, BoundsAssumption, ReadySame DEF Inv, View, Incident, Kept
<1>5. CASE ~ msgs[m].live /\ msgs' = msgs /\ UNCHANGED incidents
  BY <1>2, <1>3, <1>5, ReadySame DEF Inv, View, Kept
<1>6. CASE msgs' = [msgs EXCEPT ![m] = Shown(MainMenu)] /\ UNCHANGED incidents
  <2>1. View'
    BY <1>1, <1>3, <1>6 DEF Inv, View, Chat, Shown, Silent
  <2>2. ~ rebooted => Prompted'
    <3>1. CASE front = m
      BY <1>1, <1>3, <1>6, <3>1 DEF Inv, View, Chat, Shown, Silent, Prompted
    <3>2. CASE front # m
      <4>1. msgs'[front] = msgs[front] \/ front = 0
        BY <1>6, <3>2, BoundsAssumption DEF Inv, View, Chat, Messages
      <4> QED BY <1>3, <4>1 DEF Inv, Ready, Alone, Prompted
    <3> QED BY <3>1, <3>2
  <2> QED BY <1>2, <1>3, <2>1, <2>2 DEF Kept, Inv, Ready, Polls, Alone
<1> QED BY <1>2, <1>4, <1>5, <1>6 DEF Kept, Refreshed

LEMMA RefresherKeeps == ASSUME Inv, Refresher PROVE Inv'
<1>1. CASE Refresh
  <2>1. tracked \in Messages
    BY <1>1, BoundsAssumption DEF Inv, View, Refresh, Messages
  <2> QED BY <1>1, <2>1, RefreshedKeeps DEF Refresh, Inv, Kept, Late
<1>2. CASE ReadMenuID
  <2>1. tracked \in Messages
    BY <1>2, BoundsAssumption DEF ReadMenuID, Inv, View, Messages
  <2>2. Plain("refresh") \in Btns
    BY ButtonOK DEF Harmless
  <2> QED BY <1>2, <2>1, <2>2, UnderWay DEF ReadMenuID
<1>3. ASSUME NEW m \in Messages, RefreshMainMenus(m) PROVE Inv'
  <2>1. Kept
    BY <1>3, RefreshedKeeps DEF RefreshMainMenus
  <2>2. Plain("noted") \in Btns
    BY ButtonOK DEF Harmless
  <2>3. IsFiniteSet(late') /\ Cardinality(late') = 1
    BY <1>3, FS_Singleton DEF RefreshMainMenus
  <2> QED BY <1>3, <2>1, <2>2, <2>3 DEF RefreshMainMenus, Inv, Kept, Late
<1>4. ASSUME NEW m \in Messages, NoteMenu(m) PROVE Inv'
  <2>1. Tables' /\ Talk'
    BY <1>4, TablesSame, TalkSame DEF NoteMenu, Inv
  <2>2. View'
    BY <1>4, Numbers DEF NoteMenu, Inv, View
  <2>3. Ready'
    BY <1>4, Numbers DEF NoteMenu, Inv, Ready, Polls, Alone, Prompted, polls
  <2>4. Late'
    BY <1>4, FS_EmptySet DEF NoteMenu, Late
  <2> QED BY <2>1, <2>2, <2>3, <2>4 DEF Inv
<1> QED BY <1>1, <1>2, <1>3, <1>4 DEF Refresher

LEMMA NewBotKeeps == ASSUME Inv, NewBot PROVE Inv'
<1>1. Tables' /\ Talk'
  BY TablesSame, TalkForgotten DEF NewBot, Inv
<1>2. View'
  BY BoundsAssumption DEF NewBot, Inv, View, Incident
<1>3. Ready'
  BY PollsEmpty DEF NewBot, Ready, Alone, Prompted
<1>4. Late'
  <2>1. late' \subseteq late
    BY DEF NewBot
  <2> QED BY <2>1, FewerLate
<1> QED BY <1>1, <1>2, <1>3, <1>4 DEF Inv

\* Nothing is claimed of the prompts after a reboot.
LEMMA RebootKeeps == ASSUME Inv, Reboot PROVE Inv'
<1>1. Tables' /\ Talk'
  BY TablesSame, TalkSame DEF Reboot, Inv
<1>2. View' /\ Ready' /\ Late'
  BY BoundsAssumption DEF Reboot, menu, Inv, View, Incident, Ready, Polls, Late
<1> QED BY <1>1, <1>2 DEF Inv

LEMMA FinishEditKeeps == ASSUME Inv, FinishEdit PROVE Inv'
<1>1. PICK e \in slow : tracked' = e[1] /\ front' = e[1] /\ Write(e[1], e[2])
  BY DEF FinishEdit
<1>2. e[1] \in Messages /\ e[2] \in Screens /\ rebooted
  BY <1>1 DEF Inv, Ready, Polls, Alone
<1>3. View'
  <2> DEFINE m == e[1]
             s == e[2]
  <2>0. m \in Messages /\ s \in Screens /\ Write(m, s)
    BY <1>1, <1>2
  <2> HIDE DEF m, s
  <2>1. msgs' \in Chat /\ incidents' \in 0..MaxIncidents
    <3>1. View /\ Shown(s) \in [screen : Screens, live : BOOLEAN, ok : BOOLEAN]
      BY <2>0 DEF Shown, Inv
    <3>2. ASSUME Incident, msgs' = [msgs EXCEPT ![m].ok = FALSE]
          PROVE  msgs' \in Chat /\ incidents' \in 0..MaxIncidents
      <4>1. msgs' \in Chat
        BY <2>0, <3>1, <3>2 DEF View, Chat
      <4>2. incidents' \in 0..MaxIncidents
        BY <3>1, <3>2, BoundsAssumption DEF Incident, View
      <4> QED BY <4>1, <4>2
    <3>3. ASSUME UNCHANGED incidents,
                 msgs' = IF msgs[m].live THEN [msgs EXCEPT ![m] = Shown(s)] ELSE msgs
          PROVE  msgs' \in Chat /\ incidents' \in 0..MaxIncidents
      BY <2>0, <3>1, <3>3 DEF View, Chat
    <3> QED BY <2>0, <3>2, <3>3 DEF Write
  <2> QED BY <1>1, <1>2, <2>1, Numbers DEF View
<1>4. Ready'
  BY <1>2, PollsEmpty DEF FinishEdit, Inv, Ready, Polls
<1>5. Tables' /\ Talk' /\ Late'
  BY TablesSame, TalkSame DEF FinishEdit, Inv, Late
<1> QED BY <1>3, <1>4, <1>5 DEF Inv

\* The notification is a new message; the menu stays what it was.
LEMMA NotifyKeeps ==
  ASSUME Inv, NEW n \in NodeIds, NotifyNewNode(n)
  PROVE  Kept
<1>1. PICK subs \in BOOLEAN :
        /\ nodes' = [nodes EXCEPT ![n] = [here |-> TRUE, subs |-> subs, command |-> ""]]
        /\ \/ Incident /\ UNCHANGED msgs
           \/ \E m \in Messages :
                /\ Free(m) /\ UNCHANGED incidents
                /\ msgs' = [msgs EXCEPT ![m] = Shown(Screen(
                     {Button("node:set_sub", n), Button("node:reject", n)} \cup
                     IF subs THEN {Button("node:approve", n)} ELSE {}))]
  BY DEF NotifyNewNode
<1>2. Tables'
  <2>1. nodes' \in [NodeIds -> Nodes]
    BY <1>1 DEF Inv, Tables, Nodes
  <2> QED BY <2>1, NodesChange DEF NotifyNewNode, OnlyNodes, Inv
<1>3. Talk'
  BY TalkSame DEF NotifyNewNode, OnlyNodes, Inv
<1>4. UNCHANGED <<tracked, front, rebooted, slow, conv>>
  BY DEF NotifyNewNode, OnlyNodes, menu, polls
<1>5. ASSUME Incident, UNCHANGED msgs
      PROVE  View' /\ Ready'
  BY <1>4, <1>5, BoundsAssumption
  DEF Inv, View, Incident, Ready, Polls, Alone, Prompted
<1>6. ASSUME NEW m \in Messages, Free(m), UNCHANGED incidents, NEW s \in Silent,
             msgs' = [msgs EXCEPT ![m] = Shown(s)]
      PROVE  View' /\ Ready'
  <2>1. View'
    BY <1>4, <1>6 DEF Inv, View, Chat, Shown, Silent
  <2>2. ~ rebooted => Prompted'
    <3>1. CASE front = m
      BY <1>4, <1>6, <3>1 DEF Inv, View, Chat, Shown, Silent, Prompted
    <3>2. CASE front # m
      <4>1. msgs'[front] = msgs[front] \/ front = 0
        BY <1>6, <3>2, BoundsAssumption DEF Inv, View, Chat, Messages
      <4> QED BY <1>4, <4>1 DEF Inv, Ready, Alone, Prompted
    <3> QED BY <3>1, <3>2
  <2> QED BY <1>4, <2>1, <2>2 DEF Inv, Ready, Polls, Alone
<1>7. Screen({Button("node:set_sub", n), Button("node:reject", n)} \cup
             IF subs THEN {Button("node:approve", n)} ELSE {}) \in Silent
  <2>1. {Button("node:set_sub", n), Button("node:reject", n)} \cup
          (IF subs THEN {Button("node:approve", n)} ELSE {}) \subseteq Btns
    BY Numbers, ButtonOK DEF Harmless
  <2> QED BY <2>1, ScreenOK
<1>8. View' /\ Ready'
  BY <1>1, <1>5, <1>6, <1>7
<1> QED BY <1>2, <1>3, <1>8 DEF Kept

LEMMA DashboardKeeps == ASSUME Inv, Dashboard PROVE Kept
<1>1. Tables /\ UNCHANGED <<nodes, providers>>
  BY DEF Inv, Dashboard
<1>2. ASSUME NEW u \in People \ {Owner}, NEW name \in Names \ {"owner"},
             users' = [users EXCEPT ![u].role = name], UNCHANGED roles
      PROVE  Tables'
  <2> DEFINE row == [users[u] EXCEPT !.role = name]
  <2>1. u \in UserIds /\ users[u] \in [role : Names, pw : BOOLEAN]
    BY <1>1, <1>2, Rows DEF People
  <2>2. row \in Users /\ row.role # "owner"
    BY <2>1 DEF Users
  <2>3. users' = [users EXCEPT ![u] = row]
    BY <1>2
  <2> HIDE DEF row
  <2> QED BY <1>1, <1>2, <2>2, <2>3, UsersChange
<1>3. ASSUME NEW u \in People \ {Owner}, users' = [users EXCEPT ![u] = Deleted],
             UNCHANGED roles
      PROVE  Tables'
  <2>1. Deleted \in Users /\ Deleted.role # "owner"
    BY <1>1, Rows DEF Deleted
  <2> QED BY <1>1, <1>3, <2>1, UsersChange
<1>4. ASSUME DashboardRoles PROVE Tables'
  <2>1. PICK r \in RoleIds :
          \/ Lower(r) /\ roles' = [roles EXCEPT ![r] = Dropped]
          \/ \E name \in Names, k \in Ranks :
               \/ Lower(r) /\ roles' = [roles EXCEPT ![r].name = name, ![r].rank = k]
               \/ roles' = [roles EXCEPT ![r] =
                              [name |-> name, rank |-> k, system |-> FALSE]]
    BY <1>4 DEF DashboardRoles
  <2>2. UNCHANGED users /\ Ranks \subseteq 1..100
    BY <1>4, BoundsAssumption DEF DashboardRoles
  <2>3. CASE roles' = [roles EXCEPT ![r] = Dropped]
    <3>1. Dropped \in Roles
      BY <1>1, Rows
    <3> QED BY <1>1, <2>2, <2>3, <3>1, RolesChange
  <2>4. ASSUME NEW name \in Names, NEW k \in Ranks, Lower(r),
               roles' = [roles EXCEPT ![r].name = name, ![r].rank = k]
        PROVE  Tables'
    <3> DEFINE row == [roles[r] EXCEPT !.name = name, !.rank = k]
    <3>1. roles[r] \in [name : Names, rank : 1..100, system : BOOLEAN]
      BY <1>1, <2>4, Rows DEF Lower
    <3>2. row \in Roles
      BY <2>2, <3>1 DEF Roles
    <3>3. roles' = [roles EXCEPT ![r] = row]
      BY <2>4, <1>1 DEF Tables
    <3> HIDE DEF row
    <3> QED BY <1>1, <2>2, <3>2, <3>3, RolesChange
  <2>5. ASSUME NEW name \in Names, NEW k \in Ranks,
               roles' = [roles EXCEPT ![r] = [name |-> name, rank |-> k, system |-> FALSE]]
        PROVE  Tables'
    <3>1. [name |-> name, rank |-> k, system |-> FALSE] \in Roles
      BY <2>2 DEF Roles
    <3> QED BY <1>1, <2>2, <2>5, <3>1, RolesChange
  <2> QED BY <2>1, <2>3, <2>4, <2>5
<1>5. Tables'
  BY <1>2, <1>3, <1>4 DEF Dashboard, DashboardUsers
<1>6. Talk'
  BY TalkSame DEF Dashboard, Inv
<1>7. View' /\ Ready'
  BY BoundsAssumption
  DEF Dashboard, menu, polls, Inv, View, Incident, Ready, Polls, Alone, Prompted
<1> QED BY <1>5, <1>6, <1>7 DEF Kept

LEMMA TapKeeps == ASSUME Inv, Tap PROVE Inv'
<1>1. PICK m \in Messages : \E b \in msgs[m].screen.buttons : late' = {<<m, b>>}
  BY DEF Tap
<1>2. msgs[m].screen.buttons \subseteq Btns
  BY DEF Inv, View, Chat, Screens
<1> QED BY <1>1, <1>2, UnderWay DEF Tap

LEMMA PressKeeps == ASSUME Inv, Press PROVE Inv'
<1> DEFINE Handled(m, b) ==
        /\ late' = late \ {<<m, b>>}
        /\ \/ Cancel(b) \/ OpenMenu(m, b) \/ AskFor(m, b) \/ Refuse(m, b)
           \/ QueueCommand(m, b) \/ ShowLogs(m, b) \/ QueueCancel(m, b)
           \/ RejectNode(m, b) \/ SoftDelete(m, b) \/ RefreshAllSubs(m, b)
           \/ Purge(m, b) \/ ProviderDeleteConfirm(m, b)
           \/ UserChangeRole(m, b) \/ UserDeleteConfirm(m, b)
           \/ UserCreate(m, b) \/ RoleDeleteConfirm(m, b)
           \/ NodeStatementFails(m, b)
<1>0. PICK m \in Messages : \E b \in Pressed(m) : Handled(m, b)
  BY DEF Press
<1>1. PICK b \in Pressed(m) : Handled(m, b)
  BY <1>0
<1>2. b \in Btns
  <2>1. msgs[m].screen.buttons \subseteq Btns
    BY DEF Inv, View, Chat, Screens
  <2>2. \A p \in late : p[2] \in Btns
    BY DEF Inv, Late
  <2> QED BY <1>1, <2>1, <2>2 DEF Pressed
<1>3. Kept
  BY <1>1, <1>2, CancelKeeps, ScreensKeep, AskForKeeps, NodeButtonsKeep,
     ProviderButtonKeeps, UserButtonsKeep, UserCreateKeeps, RoleButtonKeeps
<1>4. Late'
  BY <1>1, FewerLate
<1> QED BY <1>3, <1>4 DEF Inv, Kept

LEMMA TextKeeps == ASSUME Inv, Text PROVE Inv'
<1>1. Kept
  BY IdleKeeps, AskAgainKeeps, FailsKeeps, NodeTextsKeep, QuestionTextsKeep,
     UserPwKeeps, RoleTextsKeep, ProviderNameKeeps DEF Text
<1>2. Late'
  BY DEF Text, Inv, Late
<1> QED BY <1>1, <1>2 DEF Inv, Kept

LEMMA InitInv == Init => Inv
<1> SUFFICES ASSUME Init PROVE Inv
  OBVIOUS
<1>1. Tables
  BY FirstAssumption DEF Init, Tables, OwnerUntouched
<1>2. Talk
  BY DEF Init, Talk, NoConv, Expects
<1>3. View
  BY UnsentOK, BoundsAssumption DEF Init, View, Chat
<1>4. Late
  BY FS_EmptySet DEF Init, Late
<1>5. Ready
  <2>1. IsFiniteSet(slow) /\ Cardinality(slow) = 0
    BY FS_EmptySet DEF Init
  <2>2. slow = {} /\ rebooted = FALSE
    BY DEF Init
  <2>3. Polls
    <3>1. rebooted \in BOOLEAN /\ slow \subseteq Messages \X Screens
      BY <2>2, Zenon
    <3>2. Cardinality(slow) <= 1
      BY <2>1
    <3> QED BY <2>1, <3>1, <3>2, Zenon DEF Polls
  <2>4. Alone
    BY DEF Init, Alone, Prompted
  <2> QED BY <2>3, <2>4 DEF Ready
<1> QED BY <1>1, <1>2, <1>3, <1>4, <1>5 DEF Inv

LEMMA StepInv == Inv /\ [Next]_vars => Inv'
<1> SUFFICES ASSUME Inv, [Next]_vars PROVE Inv'
  OBVIOUS
<1>1. CASE Press
  BY <1>1, PressKeeps
<1>2. CASE Text
  BY <1>2, TextKeeps
<1>3. CASE Tap
  BY <1>3, TapKeeps
<1>4. CASE Command /\ UNCHANGED late
  BY <1>4, CommandKeeps DEF Inv, Kept, Late
<1>5. ASSUME NEW n \in NodeIds, NotifyNewNode(n) PROVE Inv'
  BY <1>5, NotifyKeeps DEF NotifyNewNode, Inv, Kept, Late
<1>6. CASE Dashboard
  BY <1>6, DashboardKeeps DEF Dashboard, Inv, Kept, Late
<1>7. CASE Refresher
  BY <1>7, RefresherKeeps
<1>8. CASE NewBot \/ Reboot \/ FinishEdit
  BY <1>8, NewBotKeeps, RebootKeeps, FinishEditKeeps
<1>9. CASE UNCHANGED vars
  BY <1>9 DEF vars, tables, menu, polls, Inv, Tables, Talk, View, Late, Ready, Polls,
              Alone, Prompted, OwnerUntouched
<1> QED BY <1>1, <1>2, <1>3, <1>4, <1>5, <1>6, <1>7, <1>8, <1>9 DEF Next

LEMMA Invariance == Spec => []Inv
  BY InitInv, StepInv, PTL DEF Spec

-----------------------------------------------------------------------------
LEMMA InvTypes == Inv => TypeOK
<1> SUFFICES ASSUME Inv PROVE TypeOK
  OBVIOUS
<1>1. \A m \in Messages : msgs[m].live \in BOOLEAN /\ msgs[m].ok \in BOOLEAN
  BY DEF Inv, View, Chat
<1> QED BY <1>1 DEF Inv, Tables, Talk, View, Late, Ready, Polls, TypeOK

\* The tables, the conversation, the chat and the counters keep their types.
THEOREM TypesKept == Spec => []TypeOK
  BY Invariance, InvTypes, PTL

\* From the start of the program to its first reboot by the settings form, a text
\* is taken for what the menu asks for, whichever messages were lost, pressed late
\* or rewritten by the refresher (processTextInput, editMessage).
THEOREM TextsAnswerMenus == Spec => []AnsweredAsAsked
<1>1. Inv => AnsweredAsAsked
  BY DEF Inv, Ready, Alone, AnsweredAsAsked
<1> QED BY Invariance, <1>1, PTL

\* No button that the bot has ever sent, pressed at any later time, changes the
\* owner's row or makes an owner, though handleUserPwStart and
\* handleUserPwExecute never look at the role (bot_users.go).
THEOREM OwnerSafe == Spec => []OwnerUntouched
<1>1. Inv => OwnerUntouched
  BY DEF Inv, Tables
<1> QED BY Invariance, <1>1, PTL

-----------------------------------------------------------------------------
(* Who writes the roles. *)

RoleTexts == AddRoleRankText \/ RoleRenameText \/ RoleRankText

LEMMA RolesLeftAlone ==
  ASSUME Press \/ Text
  PROVE  \/ UNCHANGED roles
         \/ RoleTexts
         \/ \E m \in Messages : \E b \in Pressed(m) : RoleDeleteConfirm(m, b)
<1>1. CASE Press
  <2>1. PICK m \in Messages : \E b \in Pressed(m) :
          \/ Cancel(b) \/ OpenMenu(m, b) \/ AskFor(m, b) \/ Refuse(m, b)
          \/ QueueCommand(m, b) \/ ShowLogs(m, b) \/ QueueCancel(m, b)
          \/ RejectNode(m, b) \/ SoftDelete(m, b) \/ RefreshAllSubs(m, b)
          \/ Purge(m, b) \/ ProviderDeleteConfirm(m, b)
          \/ UserChangeRole(m, b) \/ UserDeleteConfirm(m, b)
          \/ UserCreate(m, b) \/ RoleDeleteConfirm(m, b)
          \/ NodeStatementFails(m, b)
    BY <1>1 DEF Press
  <2>2. ASSUME NEW b, \/ Cancel(b) \/ OpenMenu(m, b) \/ AskFor(m, b) \/ Refuse(m, b)
                      \/ NodeStatementFails(m, b)
        PROVE  UNCHANGED roles
    BY <2>2 DEF Cancel, OpenMenu, Render, AskFor, Refuse, NodeStatementFails, tables
  <2>3. ASSUME NEW b, \/ QueueCommand(m, b) \/ ShowLogs(m, b) \/ QueueCancel(m, b)
                      \/ RejectNode(m, b) \/ SoftDelete(m, b) \/ RefreshAllSubs(m, b)
                      \/ Purge(m, b)
        PROVE  UNCHANGED roles
    BY <2>3 DEF QueueCommand, ShowLogs, QueueCancel, RejectNode, SoftDelete,
       RefreshAllSubs, Purge, OnlyNodes
  <2>4. ASSUME NEW b, \/ ProviderDeleteConfirm(m, b) \/ UserChangeRole(m, b)
                      \/ UserDeleteConfirm(m, b) \/ UserCreate(m, b)
        PROVE  UNCHANGED roles
    BY <2>4 DEF ProviderDeleteConfirm, UserChangeRole, UserDeleteConfirm, UserCreate
  <2> QED BY <2>1, <2>2, <2>3, <2>4
<1>2. CASE Text
  BY <1>2 DEF Text, RoleTexts, IdleText, AskAgain, TextFails, RenameText, SetSubText,
     TerminateText, AddUserCredsText, AddRoleNameText, UserPwText,
     AddProviderDomainText, ProviderNameText, tables
<1> QED BY <1>1, <1>2

\* A row that the bot changes is a custom role's or a new one's.
LEMMA OneRow ==
  ASSUME Inv, NEW r, NEW row, roles' = [roles EXCEPT ![r] = row],
         \/ r \in RoleIds => CustomRole(r)
         \/ roles[r] = NoRole /\ row.name \notin Reserved
  PROVE  SparesBuiltIns
<1>1. roles \in [RoleIds -> Roles] /\ ~ NoRole.system /\ NoRole.name = ""
  BY DEF Inv, Tables, NoRole
<1>2. ASSUME NEW i \in RoleIds
      PROVE  /\ roles[i].system => roles'[i] = roles[i]
             /\ roles[i] = NoRole => roles'[i].name \notin Reserved
  <2>1. CASE i = r
    BY <1>1, <2>1 DEF CustomRole, Exists
  <2>2. CASE i # r
    BY <1>1, <2>2 DEF Reserved
  <2> QED BY <2>1, <2>2
<1> QED BY <1>2 DEF SparesBuiltIns

LEMMA BotSparesBuiltIns == Inv /\ (Press \/ Text) => SparesBuiltIns
<1> SUFFICES ASSUME Inv, Press \/ Text PROVE SparesBuiltIns
  OBVIOUS
<1>1. CASE UNCHANGED roles
  <2>1. roles \in [RoleIds -> Roles] /\ NoRole.name \notin Reserved
    BY DEF Inv, Tables, NoRole, Reserved
  <2> QED BY <1>1, <2>1 DEF SparesBuiltIns
<1>2. CASE \E m \in Messages : \E b \in Pressed(m) : RoleDeleteConfirm(m, b)
  <2>1. PICK m \in Messages : \E b \in Pressed(m) : RoleDeleteConfirm(m, b)
    BY <1>2
  <2>2. PICK b \in Pressed(m) : RoleDeleteConfirm(m, b)
    BY <2>1
  <2> QED BY <2>2, OneRow DEF RoleDeleteConfirm
<1>3. CASE AddRoleRankText
  <2>1. PICK r \in RoleIds, name \in Names \ Reserved, k \in Ranks :
          /\ roles[r] = NoRole
          /\ roles' = [roles EXCEPT ![r] = [name |-> name, rank |-> k, system |-> FALSE]]
    BY <1>3 DEF AddRoleRankText
  <2> QED BY <2>1, OneRow
<1>4. CASE RoleRenameText \/ RoleRankText
  <2>1. PICK r \in RoleIds : CustomRole(r) /\ \E row : roles' = [roles EXCEPT ![r] = row]
    BY <1>4 DEF RoleRenameText, RoleRankText
  <2>2. PICK row : roles' = [roles EXCEPT ![r] = row]
    BY <2>1
  <2> QED BY <2>1, <2>2, OneRow
<1> QED BY <1>1, <1>2, <1>3, <1>4, RolesLeftAlone DEF RoleTexts

\* A role is looked at again when the text about it arrives: whatever the
\* dashboard does between a question and its answer, the built-in roles are its
\* own to change (processRenameRoleText, processChangeRoleRankText,
\* handleRoleDeleteConfirm).
THEOREM BuiltInRolesSafe == Spec => BuiltInRolesKept
<1>1. Inv /\ [Next]_vars => [~ SparesBuiltIns => ~ (Press \/ Text)]_vars
  BY BotSparesBuiltIns
<1> QED BY Invariance, <1>1, PTL DEF Spec, BuiltInRolesKept
=============================================================================
