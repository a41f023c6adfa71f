# Malaxis Fleet: specifications, model checking and proofs

Malaxis Fleet is a *master* (Go, PostgreSQL, a Telegram bot and a web dashboard)
that manages proxy *nodes*. Each node runs a Python *agent* beside two engine
containers (xray, sing-box). Agents poll the master every 30 s and report to it;
the master never calls an agent. Everything an operator wants of a node passes
through one column of one row, `nodes.pending_command`.

This directory holds TLA+ modules of the parts where the order of steps decides
what happens, the TLC configurations that check them on small instances, and
theorems checked by TLAPS. `PROJECT.json` maps every definition to the lines it
models, lists the hazards at their lines, and names a plausible bug ("mutant")
for every property of a passing run that makes TLC find that property violated.

    tlc -workers 2 -config queue.cfg MCCommandQueue.tla     # and likewise
    tlapm CommandQueueProofs.tla

In this text `main.py`, `network.py`, `engine.py`, `agent.py` are the files of
`src/internal/api/deploy/agent_src/`; `postgres.go` is
`src/internal/repository/postgres.go`; `handlers_*.go` are in `src/internal/api/`.

## The system

| Component | State | Operations | Talks to |
|---|---|---|---|
| Command pipeline (`handlers_auth.go`, `handlers_nodes.go`, `postgres.go`, `main.py`, `network.py`) | `pending_command`, `pipeline_status` of a row; in the agent `_last_command`, the file `.last_command`, `_ACTION_QUEUE`, three threads | queue, cancel, poll, report, duplicate check, run, restart, terminate | dashboard, bot, auto-sync write the row; the agent polls and reports over HTTP |
| Node registry (`UpsertNode`, `registerOrUpdateNode`, `agent.py`) | rows of `nodes` (id, hardware hash, hostname, address, age, the mark Terminated); `NODE_ID` and `node_id.txt` | register, adopt an id, ghost cleanup, delete, purge, terminate | is the first half of every poll |
| Engine control (`engine.py`, `docker_utils.py`) | agent state file, configurations, `last_known_good.json`, the engine lock, a file lock shared with the fleet-cli, two containers | apply with rollback, subscription update, switch, benchmark, boot, watchdog | worker and health threads, the fleet-cli process |
| OTA update (`update_client_files`, `_graceful_restart`) | staged and installed files, the marker | download, verify, swap, clean up, restart | worker thread; static files of the master |
| Accounts (`handlers_users.go`, `auth.go`) | users, roles with ranks and permissions, session versions | create, change, delete users and roles, log in and out, change a password | every handler asks it for a permission |
| Subscription URLs and providers (`UpdateNodeReport`, `network.poll`, `SyncProviders`, `handlers_providers.go`) | `sub_urls` of a row and of the agent's state, table of provider domains | change, hand out, report back; discover, rename, prune | rides on polls, reports and the pending command |
| Auto-sync (`service/autosync.go`) | ticker, interval | sync | writes `pending_command` |
| Telegram bot, menus (`bot_main.go`, `bot_nodes.go`, `bot_users.go`, `bot_providers.go`) | the text it waits for, which message is the menu; the chat's messages with their buttons | buttons, texts, slash commands, refresh, notification | writes users, roles, providers, `pending_command` |
| Telegram bot, lifecycle (`bot_main.go`, `handlers_settings.go`) | running flag, connection, stop channel, goroutines and their channels | start, stop, reboot, fetch, handle | rebooted by the settings form; polls Telegram |
| Backup, settings, signing, audit, installers, subscription parsing, dashboard | files, single settings, append-only log, none | | |

What is hard, and what makes each part correct:

* **Command pipeline.** A command is *not* removed from the row when it is handed
  out, so each poll delivers it again until some report clears the row. The agent
  recognises a redelivery by comparing its text with the one last text it
  remembers, in memory and on disk. Every report clears the row whatever it is
  about, requests time out after 10 s and may be handled later, each handler is
  several SQL statements outside a transaction, and the agent may crash between
  any two steps. Correct means: nothing runs twice, nothing runs out of order, a
  redelivery is recognised after any crash, polling never wedges, and an OTA,
  which deliberately forgets its own marker, does not restart the agent for ever.
* **Node registry.** `UpsertNode` finds the row of a device by id, fingerprint, or
  hostname and address, in separate statements, while other devices with the same
  hostname, reports and operators change the same table, and reinstallations,
  lost answers and terminations change what the device presents. Correct means:
  no two devices under one id, one row per device, and an id that settles.
* **Engine control.** Two locks of different reach; a state file without a lock, which
  worker, watchdog and poll thread read, keep (for minutes, an update) and write back;
  docker commands whose results nobody looks at; rollback after partial failure; and two
  containers that share ports and a network namespace, started and stopped one command
  at a time. Correct means: only one engine listens once everybody is done, only what was
  serving becomes the last known good configuration, and every operation ends. The first
  two hold only as long as docker does what it is told (below).
* **Accounts.** Checks and updates are separate statements with 250 ms of hashing
  between them, and users refer to roles by name. Correct means: the owner stays
  alone and on top, keeps the password, and nobody climbs to the admins' rank or
  overrides an admin.
* **Bot menus.** Messages keep buttons with ids of rows that change, calls to
  Telegram fail and are ignored, the refresher edits the menu beside the handlers,
  a restart forgets what the chat still shows, and a reboot may leave a second poller on
  the same memory. Correct means: a text is taken only as what the menu asks for (which
  ends with the second poller), and no stale button leads to the owner or to a built-in
  role.
* **Bot lifecycle.** Nobody waits for goroutines to end, one message stops at most
  one of them, reboots overlap, and a setting that cannot be read counts as one that was
  never saved. Correct means: a bot that runs is not deaf, it
  runs as it was last told to, reboots end, and a bot switched off stops polling.
* **OTA.** Several files are swapped one after the other; engines, caches and locks
  are cleaned; the agent restarts. Correct means: it comes back with one engine.
* **Subscription URLs and providers.** The row is the source of truth, yet each
  report writes the agent's URLs back into it; the providers in use are computed in
  one statement and pruned in later ones.

## Modules

| Module | What it is |
|---|---|
| `CommandLifecycle` | abstract: what the pipeline promises of each command |
| `CommandQueue` | the command pipeline of one node |
| `CommandQueueClaims` | a statement of a comment in the code, checked against `CommandQueue` |
| `MCCommandQueue` | model-checking instance of both |
| `CommandQueueProofs`, `CommandLifecycleProofs` | theorems about `CommandQueue`, and that it implements `CommandLifecycle` |
| `NodeRegistry`, `MCNodeRegistry`, `NodeRegistryProofs` | rows, ids and fingerprints of devices; its instance; theorems |
| `Accounts`, `MCAccounts`, `AccountsProofs` | accounts and roles under concurrent handlers; instance; theorems |
| `BotConversation`, `MCBotConversation`, `BotConversationProofs` | the bot's menus and conversation; instances; theorems |
| `BotLifecycle`, `MCBotLifecycle`, `BotLifecycleProofs` | start, stop and reboot of the bot; instance; theorems |
| `EngineControl`, `MCEngineControl` | the agent's two engines; instance and two statements of comments |
| `EngineControlProofs`, `EngineSafetyProofs` | types and lists of steps of `EngineControl`; its safety |

The modules meet in shared state rather than in calls: `CommandQueue` and
`NodeRegistry` both see the row of a node, `Accounts` interleaves the statements that
`BotConversation` takes as one step, the worker's actions in `CommandQueue` are the
operations of `EngineControl`, and `Reboot` of `BotConversation` stands for what
`BotLifecycle` says of two pollers. Each module keeps the others' writes as an
environment action (`QueueOnly`, `Dashboard`, `NotifyNewNode`, `Begin`, `PollLoad`).

### CommandQueue

One row is the whole story, as rows of different nodes share nothing in these
handlers. Commands are numbered in the order they are written, and `posted[i]` is
the text of the i-th. The agent sees texts only: `SameText(i, j)` is its
comparison, and two commands of one text are the same to it. `get_logs` carries a
fresh `req_id` and so is never equal to another.

* *Master.* `QueueCommand`, `ClearCommand` and `FinishOp` are the handlers of the
  dashboard and the bot, whose second statement writes the status again;
  `QueueOnly` is auto-sync and the update of subscription URLs, with one
  statement; `CheckBeforeLogs` and `QueueLogs` are the two statements of
  `GetNodeLogsHandler`. `Report` is `ReportHandler` up to `ClearPendingCommand`,
  `ReportStatus` its second statement and the answer; either may fail and is then
  only logged. A request whose sender has given up is kept in `late` and is
  handled by `LateClear` and `LateStatus` at any later time.
* *Poll thread.* `PollRead`, `PollAnswered` (or `PollFailed`), then
  `execute_command`: `SkipDuplicate`, or `RememberInMemory`, `EmptyMarker`,
  `SaveLastCommand` (opening a file for writing empties it) and `Enqueue` or
  `AnswerLogs`.
* *Worker thread.* `WorkerTake`; for an OTA `ForgetInMemory` and `RemoveMarker`;
  any number of `ReportProgress`; `ReportOutcome`; after an exception
  `ReportError`; `SignalRestart` after an OTA, `SelfDestruct` after `terminate`.
  `network.report` catches `URLError` but lets a timeout of the answer through
  (`Raised`): the exception handler of the worker then reports, and when *that*
  report raises the thread ends (`worker.pc = "dead"`) while polling goes on.
* *Main thread.* `Register` (with the three threads already running),
  `EnqueueBoot`, `Sigterm`, `ReportStopped`, `Restart`; `Crash` at any time. A new
  process has what `.last_command` holds.

What is abstracted: the content of commands and reports (status texts are one
value, apart from those the handlers write themselves) and how an action does its
work. The actions `exec`, `apply_config`, `install_*` and `restart` are on no list of
what a handler may queue. `SendCommandHandler` (`handlers_auth.go:491-507`) lets a request
with one of them through all the same when its field `command` begins with `switch:`, as
the check then looks at `switch` and the whole request is queued. A `restart` that gets
through is a worker action like a switch here, and `RestartAsked` in `EngineControl`; the
other three, which the poll thread carries out itself, are left out. Polling is on (`auto_update` is not "false"). A write of
`.last_command` that fails is swallowed by the code and not modelled: without a
disk the marker promises nothing.

### NodeRegistry

`rows` maps ids to rows; a row keeps its fingerprint, the device it was last
written for (which stands for hostname and LAN address; `HostOf` gives the
hostname), the mark Terminated and an age class (under 10 minutes, under 30 days,
older), which is what the queries tell apart. Each statement of `UpsertNode` is an
action (`Guard`, `AdoptByHash`, `AdoptByHost`, `Cleanup`, `Insert`), then `Fetch`
and `Answer` end the poll. The device can start, be reinstalled (`Wipe`), report,
and self-destruct in three steps with its other threads running. `QueueCommand`,
`DeleteNode`, `Purge` and `Age` are operators and time. The mark Terminated is a
status like any other, so `QueueCommand`, `Fetch` and a later report erase it.

Left open: whether a command is pending at a poll (`Fetch` allows both). Not
modelled: a LAN address that changes or passes to another device, a copied
`node_id.txt`, a fingerprint that could not be computed (it is then empty and the
first lookup is skipped), overlapping polls of one device, a restart of the agent
in the middle of a poll.

### Accounts

A handler is `Begin` (the permission check of the route), a `Check...` action (its
reads and decisions), and its writes. What it read is kept in `request[h]` until it
writes, so every write may use rows that have changed. `UpdateUserHandler` writes
twice: `WritePassword`, then `UpdateUser` with the row read before. `Fail` is a
statement that fails and ends the request. Some failures end nothing: a rank that cannot
be read is the built-in one of the role's name (`RanksRead`), a failed read of the actor's
row skips the hierarchy of a deletion (`Deletable`), and a failed count of a role's users
lets the role be deleted (`CheckDeleteRole`). Deleted rows are kept apart from rows never made, as a serial
gives no id twice. A password is the account whose request set it.
Usernames, colours and preferences are left out; so are log-in and sessions.

### BotConversation

`msgs` is the chat: per message the screen it shows (buttons, and which text it asks
for), whether it is still there and whether the last edit of it arrived. `tracked` is
`mainMenuID`, `conv` is `userStates`. A press takes a button of a message that is in
the chat, or one in `late`, a press that was under way while its message changed;
`late` is also how the refresher's edit of a menu id read before is modelled. The
handlers are grouped by what they do: `OpenMenu` (render another screen), `AskFor`
(wait for a text), `Refuse`, and one action for each button or text that changes a
table. `editMessage` (`Edit`) makes a message the menu even when the edit fails, and
`sendFreshMenu` deletes and sends. The `Dashboard` changes accounts and roles meanwhile:
it creates, renames, re-ranks and deletes any role but the owner's, the built-in ones
(`system`) included. `NewBot` is a restart of the program. `Reboot` is one by the settings
form, which keeps the memory and may leave the old poller beside the new one: from then on
the edit that ends a handler may come after handlers of the other poller (`slow`,
`FinishEdit`), and the update that both of them get is a button pressed twice. Calls that
fail, late presses and refreshes, restarts, reboots and changes by the dashboard are
incidents, of which a run allows `MaxIncidents`. Apart from that last call, a handler's
statements are one step here. `front` is a history: the message that was edited or sent
last, which is what the admin looks at. A rank that cannot be read hides or offers the
actions on an account by the built-in rank, never on the owner's; this is left out.

### BotLifecycle

A *start* is the program's (0) or that of a request of the settings form. `pc[r]` walks
through the form (`SaveToken`, `SaveEnabled`), `Stop`, `Replace` (a new `b.stop`) and
`Start` (`Load`, `Check`, `Connect`, `Spawn`). `Load` and `Check` drop the error of a read
(`bot_main.go:95-105`, `125-131`): a token that cannot be read leaves the one before, a bot
of which it cannot be read whether it is enabled is started (`Reads`). Each start has a fetcher, a poller and
the channel between them. A fetcher looks at `running` at the top of its loop only
and waits for `b.stop` while it backs off or while the channel is full; it waits on
the channel that was in the field when it began to wait (`on`). `Stop` offers its
message without waiting, so `Told` is a fetcher that waits on it now and `Unheard`
everything else, a timer that gets it included. The unsynchronised write of the field
`b.stop` is taken as one step.

### EngineControl

The program of a thread is data: a list of steps, each one docker command, one write of
a file, or one decision that puts the steps of its branch in front. So `apply_configs`
is `ApplyConfigs(e, s)`, `select_server` is `SelectServer(s, save)`, and so on, and every
step may be followed by a step of another thread, a crash of a container or of the
agent. A configuration is the server it was built for.

* *Docker.* `Up` and `Down` say what docker does: a container with the wrong file
  crashes, stopping xray-node tears singbox-node down as it lends it its network.
  `RunContainer` succeeds or leaves a crashed container, `FailDocker` is a command that
  fails or times out: the container is as it was, or a restart has got no further than
  the stop, or the second attempt (`docker_utils.py:213-215`) does it. The code looks at no
  result (`engine.py:112, 117, 119, 264, 270, 272`), so the steps after it go on. The history
  `failed` says that a command has failed since the agent started.
* *Locks.* `_engine_lock` is taken by worker and watchdog (which only tries), the file lock
  by whoever applies; `LockFile` may fail, and the caller goes on without it. The OTA
  removes the file lock with the other files (`Clean`). The restart of both engines on
  request (`RestartBoth`) takes none.
* *The state file.* Who changes it loads it (`LoadState`, `PollLoad`, `FallBack`, `Choose`)
  into `seen`, and saves that copy with what it changes in a later step (`SaveEngine`,
  `Load`, `PollSave`, `SeeFallBack`, `KeepServer`); `update_subscription` keeps its copy
  until its end (`loaded`). `save_json` truncates the file before it writes it: while
  somebody is about to save, a reader may find nothing, which counts as the state of a
  new installation (`Blank`), a writer may leave that, and so may a restart of the agent.
  The poll thread saves when the master sends subscriptions or names that are new. The
  history `lost` says that since the agent started a save has undone another thread's, or
  that somebody has read the file while it was empty.
* *Probes* (`Healthy`) see the container that the state names and whether anybody answers.
* *Modes.* In fastest and balanced (`Choose`, `KeepServer`) a benchmark may prefer any
  server; what is kept of it is how many servers it measured (`bench`), because its results
  go by position and are used again while they are fresh: after an update to a shorter list
  `servers[best]` may not exist, and the exception ends the operation (`Raise`), that of
  the boot before its offline fallback.

Left out: links, ports of servers and downloads (which servers a list yields is a choice,
and a server chosen that turns out to be refused or out of reach, `engine.py:590-607`,
changes nothing); the URLs in the state file; a configuration that is written in part; what
a docker command that has timed out still does later. `restore_active_vpn`,
`rollback_engine` and `fetch_subscription_now` have no caller.

## Runs

| Run | Instance | Shows |
|---|---|---|
| `queue` | texts switch, get_logs, terminate (no refresh, OTA or probe); 1 operator; fleet-cli as bystander; 2 commands; 1 fault | type, `AtMostOnce`, `RedeliveryRecognised`, `Delivery`, `InOrder` hold; `KeepsPromises`: the pipeline implements `CommandLifecycle` |
| `queue_live` | OTA; 1 operator; 1 command; 2 faults | `EveryCommandPolled`, `ComesToRest` |
| `registry` | 2 devices with one hostname, 2 ids, one device with 2 fingerprints, 1 loss | type, `NoSharedId`, `OneRowPerDevice`, `Settles` |
| `accounts` | owner, two admins, a lead who manages accounts and roles, room for one more account and role; 3 requests, 2 at a time | type, `SoleOwner`, `OwnerOutranksAll`, `OwnerKeepsPassword`, `PeersUntouched` |
| `conversation` | buttons of accounts, roles, providers; 2 accounts, 3 roles, two of them built in, 1 provider; 2 messages, 1 incident | type, `AnsweredAsAsked`, `OwnerUntouched`, `BuiltInRolesKept` |
| `conversation_fleet` | buttons of nodes; a node that registers; 2 messages, 1 incident | `AnsweredAsAsked` |
| `lifecycle` | program start and 2 requests; 2 tokens; a bot that is set up or not; 2 updates, channels of 1 | type, `NeverDeaf`, `RunsAsSaved`, `RebootEnds`, `FallsSilent` |
| `engine` | 1 server per engine; boot and 1 operation of the worker, the restart on request among them; watchdog, poll thread; 1 incident | type, `OneListener`, `VerifiedOnly`, `OperationsEnd` |
| `claim_*` | the smallest instance that decides | a statement of the code's comments that the code does not keep |

**Bounds.** `MaxCmds` bounds the commands written in a behaviour. Two are enough
for every hazard listed: one to be in the agent's hands and one in the row, with
equal or different texts. `MaxFaults` bounds lost requests, failed statements,
SIGTERMs and crashes together; one puts a fault at every step, two (in
`queue_live`) let a second fault meet the recovery from the first, which is what
the death of the worker thread takes. In `registry` two ids suffice for adoption, a
copied hostname and a fresh id after a termination; a second fingerprint on one
device lets adoption by fingerprint fail and adoption by address take over; the loss
is an answer or a last report. In `accounts` three requests are a chain (make or raise
a role, give it, use it), two at a time are a stale check. In `conversation` two
messages are a menu and one that is no longer the menu, and `Pressable` splits the
buttons by table into two runs, as the others cannot touch those rows; one incident
meets every step. In `lifecycle` two reboots overlap with the start and with each
other, and a channel of one (100 in the code) fills with one update and blocks with
the second. In `engine` one server per engine makes every change of server a change
of engine, which is the hard case; the operation starts from what the boot and an
incident have left, and may lead to another boot. An incident there is a container or the
agent that crashes, a docker command or a lock that fails, or a save of the poll thread.
For the modules with theorems the safety properties are proved
for all bounds, which is the better answer to whether these are enough.

The operators of `queue` and the bystander stand for any number of them between two
steps of the agent: they act again and again. Model values are not permuted, save the
handlers of `accounts`, which are alike.

**Deadlock** is not checked: behaviours of bounded length end, and so does a
terminated node.

**Fairness.** Threads of a process and goroutines of a handler keep running: each
request has a timeout of 10 s, each sleep is finite, `poll_loop` and
`_worker_loop` are endless loops. That is weak fairness of the poll thread, the
worker, the main thread and each report in progress. An action sends finitely many
progress reports before its outcome, and progress is always possible, hence strong
fairness of `ReportOutcome`. Nothing is assumed of operators, bystanders, late
requests or faults. In `NodeRegistry` an installed agent polls and the master
answers: weak fairness of the steps of a poll, per device.
In `EngineControl` threads go on: `_docker` and the probes have timeouts. The `os.system`
calls of `ensure_default_configs` (`engine.py:35-39`) have none, and fairness there is the
assumption that docker returns. The worker gets the lock it waits for although the watchdog takes it again and again, since the
watchdog sleeps for a minute without it after each cycle: strong fairness of
`LockEngine("worker")`. In `BotLifecycle` goroutines are scheduled and calls to
Telegram time out. Nothing is assumed of requests, of Telegram's answers, or of crashes.

**Properties.** `AtMostOnce` and `RedeliveryRecognised` are about the marker;
`InOrder` about the queue and what the poll thread is about to put into it;
`EveryCommandPolled` says that a queued command is read unless it is removed or
the node is gone; `ComesToRest` that the agent stops working when operators do.
`ComesToRest` allows for a dead worker, as the code does. `NoSharedId` and
`OneRowPerDevice` relate several devices and rows over many polls; `Settles` says
that a device that is not terminated changes its id finitely often. `PeersUntouched`
holds as long as the owner does nothing: the owner may of course promote anybody.
`AnsweredAsAsked` relates what the chat shows to what the bot waits for: they may differ
in that the bot waits for nothing, never in that it waits for something else. It speaks of
one poller, that is, of the time from a start of the program to the first reboot by the
settings form. After it one poller may set what the bot waits for while the prompt of the
other stays in the chat, and nothing keeps them apart. `BuiltInRolesKept` is about every
press and text, with the dashboard changing any role between a question and its answer.
`NeverDeaf` relates the running flag to the goroutines of all starts. `RunsAsSaved` is
restricted to requests that do not overlap, and of which no write and no read of a setting
fails (`tidy`), as the code promises nothing else: after a failed read a disabled bot runs.
`OneListener` is about the moments when nobody works on the engines, and a crashed
container counts as silent until it is revived. It holds as long as, since the agent
started, no docker command has failed and no save of the state was undone or missed: one
failed stop, or worker and watchdog that go by different engines, and both may listen.
What went wrong before the start is set right by the start. `VerifiedOnly` says that the
configuration that enters the offline cache is the one its container runs then, as long as
no docker command has failed since the agent started; what the poll thread does to the
state file does not matter to it.

## Where the code and its comments differ

Each is a run that TLC must find violated; `PROJECT.json` quotes the lines.

* `claim_crash`: after a crash between the marker and the end of a command the
  redelivery is skipped and the command is never executed. The pipeline is
  at-most-once, not resilient to a crash.
* `claim_resurrect`: a terminated row comes back to life when its mark is
  overwritten and its device is reinstalled.
* `claim_engine_state`: `update_subscription` saves at its end the state it loaded at
  its start; when the server in use has moved to the other engine, the state then names
  the engine that no longer serves, and the watchdog and the next boot start that one.
* `claim_engine_cli`: rollback, watchdog and defaults run outside the file lock, so that
  with a fleet-cli beside the agent both engines can end up listening.

Noticed while modelling, and not run:

* The pipeline: any report removes a queued command, also one about something else; a
  second "refresh subscription" has the text of the first and is skipped as its
  redelivery; `get_logs` can overwrite a command queued between check and update; an OTA
  clears the single marker when it *starts*, which may by then be that of a later
  command, so that a switch is executed twice in spite of `main.py:219`; the marker of
  the OTA itself is cleared only once the worker starts, so a retry after a crash before
  that is skipped in spite of `main.py:815`; a poll cannot be undone by cancelling,
  although `handlers_nodes.go:893` speaks of a command not yet fetched.
* The registry: `DeleteOfflineNodes` does not select terminated rows, although
  `postgres.go:587` says so; when the report of `terminate` raises, nothing is torn down
  and the same command again is skipped.
* Accounts: `DeleteUserHandler` compares ranks only if the actor's own row is found, so an
  account whose row cannot be read, or was deleted in the middle of its request, can delete
  an admin; a role is deleted from under its users when they cannot be counted.
* Menus: after a text that is refused the screen asks again, and the handlers that forget
  the conversation first do not listen to the second text; slash commands and the way back to the
  main menu keep the conversation; after a reboot by the settings form the poller of before
  may go on beside the new one and edit the menu after the other has asked for something
  else, so that the next text is taken for another question than the one that is shown,
  although `bot_main.go:45` describes prompt and capture as one flow.
* Lifecycle: after a reboot the old fetcher may go on beside the new one with the same
  token, so that they meet Telegram's conflict of two pollers, which the comment at
  `bot_main.go:337` ascribes to another process; a failed read of `tg_bot_enabled` starts a
  bot that is disabled; of two overlapping saves the one that
  enables the bot may connect after the other has disabled it, and the bot runs although
  the settings say no; timers that miss the message of a Stop stay until another one
  comes their way, so that backups are made twice.
* Engine: a docker command that fails is ignored, so that a failed stop leaves both engines
  listening although `main.py:943` guarantees that only one does, and a failed restart
  leaves the old container to be probed, after which a configuration that never ran becomes
  the last known good one in spite of `engine.py:300` (without `~ failed` TLC finds both at
  once: `OneListener` and `VerifiedOnly` are claimed up to such a failure); the last known good configuration may belong to the other engine than the one
  the state names; `select_server` records the server whether or not it was healthy; the
  poll thread can undo the engine that a switch has saved, and `save_json` can make a
  reader take a truncated state file for that of a new installation;
  main stops the engines at boot without the lock that `engine.py:50` asks of every
  mutation; a crash in the middle of a switch may leave xray on its dummy configuration;
  the agent package is swapped in before the other files of an OTA are downloaded.

## Proofs

`CommandQueueProofs` proves, for all texts, operators, bystanders and bounds:

* `TypeCorrect`: `Spec => []TypeOK`.
* `AtMostOnceCorrect`, `RedeliveryCorrect`: with `Updates = {}` a command is handed
  over at most once, and memory and disk name each handed-over command for as long
  as it can be delivered again. The assumption is needed: an OTA clears the marker
  on purpose, which may be that of a later command.
* `InOrderCorrect`: commands are worked on in order, with or without OTA.
* `DeliveryCorrect`: the invariant the first two rest on, which the run `queue`
  checks too.

The properties are not inductive. The invariant `Delivery` says why they hold:
*Ahead*, neither the row nor the poll thread has a command older than one that was
handed over; *Carried*, the poll thread has an existing command that is not newer
than the row's; *Remembered*, before it dispatches a command, which was not
dispatched before, the poll thread has put it into memory and then onto disk. From
these, a command met again is the newest handed over and is in the marker, so it
is skipped. Each action that touches the row, the poll thread or the marker has a
step of its own; the rest leave the invariant's variables alone. For the order,
*Queued* (what the agent holds was handed over) with *Ahead* gives that what the
poll thread is about to append is not older than anything in the queue, and
*Lined* says the queue is sorted behind the worker's job. `TypeOK` is used
throughout. The assumptions are that the bounds are natural numbers and that
"boot", the name of the internal action, is not the text of a command.

`CommandLifecycleProofs` proves `Promises`: with `Updates = {}` the pipeline implements
`CommandLifecycle`. Each step of `CommandQueue` is a step of the abstract
command (written, offered, run, answered, finished or lost) or changes nothing the
abstraction sees. That needs `Known`: the invariants of `CommandQueueProofs`, and *Traced*: only
queued commands are read, the poll thread holds one that was read, and only one that was
handed over comes to its end.

`NodeRegistryProofs` proves `RegistryTypes`, `IdsAreApart` and `RowsAreSingle` for any
number of devices, ids and fingerprints. An id belongs to a device by its row, by what
the device presents and by what a poll under way has adopted; *Owned* says that these
claims never meet: ids are minted once, and a row is adopted only by the device that wrote
it. Between two statements of a poll a row may only age, go or be marked (*Later*), so a
poll that has found no other row (*Alone*) still leaves none when it inserts, as only polls
of the device itself write its rows. Rows marked Terminated are on record (*Marked*).
Assumed: the value for "no id" is no id.

`AccountsProofs` proves for any number of accounts, roles and handlers `AccountsTypes`,
`OneOwner`, `OwnersPassword`, `OwnerOnTop` and `AdminsAmongThemselves`. The tables alone
are not inductive, as a handler writes what it read some steps ago: `PendingOK` says what
each pending write may hold (no request but on the owner's own account carries the name
"owner", a rank to be written is in 1..99, the owner's row and role are no target). With
unique role names, an owner's row of rank 100 and every other row below, each write keeps
the tables. Assumed of the constants: the seeded owner and roles.
`AdminsAmongThemselves` assumes more of them (`Seeded`): a built-in role "admin" of rank
80, no role of that rank that is not built in, which is what the program seeds, and a
password of its own for each of the first admins. Its invariant says that an admin's row
is as it was or deleted, that nobody else has a role of that rank, and that no request
under way can change either.

`BotConversationProofs` proves `TypesKept`, `TextsAnswerMenus`, `OwnerSafe` and
`BuiltInRolesSafe`, for any rows, messages and incidents, the second up to the first reboot
by the settings form, the others with two pollers as well. That no handler sets the
owner's password is not in the handlers but in the buttons, so the invariant speaks of
all of them: `Btns` are the buttons that do not lead there; every message, shown or
not, and every press under way has only such buttons (`View`, `Late`), and the
conversation does not ask for the owner's password (`Talk`). Each handler renders such
screens from tables that keep `Tables`. A screen that asks for a text is only ever
rendered together with the conversation it asks for; that no edit of another poller is
outstanding then (`Alone`) is what a reboot ends. For the built-in roles it is enough that a
handler looks at the role's row again when the text or the confirmation comes.

`BotLifecycleProofs` proves `LifecycleTypes`, `BotHears` and `SettingsTakeEffect` for any
number of reboots. `NeverDeaf` is inductive once a running bot is known to be connected:
the flag is set by a start that is about to make its goroutines, and goroutines end only
while it is not set. For `RunsAsSaved` the invariant follows the one request under way:
between two requests the bot is as the settings say, and each step of a request that is
alone brings the settings, the memory and the connection one further. A failed read or
write ends what is known, and the next request that comes alone establishes it again.

`EngineControlProofs` proves `EngineTypes`. The program of a thread is a list, so the
invariant is about lists: *Listed*, every list holds steps of the right kind (the
watchdog's only those that restart a container), and *Orderly*, what an update does with
the servers it has fetched comes after the fetch, at most four steps behind it. From
these an update never takes the first of no servers, and a decision puts a list of
typed steps in front of one.

`EngineSafetyProofs` proves `OnlyVerified`: with `Outsiders = {}`, `VerifiedOnly`, whatever
becomes of the state file. The inductive invariant is `Typed /\ (failed \/ Sound)`: a start
of the agent clears `failed` and establishes *Sound* again, because the lists of all threads
are new then. *Sound* says that a decision is taken only when the hands have nothing left to
do (*Fronted*); that the list up to a verification is the rest of the list by which
its server is applied (*Played*), so that its position says what has been done; that the
watchdog holds the lock while it works and the worker unlocks what it has locked; and
that what the steps that are done have established is in force (*Backs*): the worker has
the lock, the file is the server's, and the container runs it if it runs.

It also proves `PortsAreApart`: with `Outsiders = {}`, `OneListener`. The property looks at
moments when nobody works; the inductive invariant is `Typed /\ (failed \/ Sound) /\
(failed \/ lost \/ Stands)`, and *Stands* is about the moments in between: nothing is claimed
once a docker command has failed or a save of the state has been undone, until a start of
the agent clears both histories and establishes *Stands* again. *Stands* reads the
worker's list as what is left of the branch it has taken, before what is left of its
program (the boot, an update, a choice, or one that ends in a restart of the agent, of
which nothing need be known as the boot stops both engines). Every branch is a *Turn*: it
brings up one engine, stops the other before, and sends xray to its dummy in the four steps
before sing-box is started (*Muted*); so does the list of the watchdog. *Live* says what
holds at each place of branch and program. After the first step of a boot sing-box is
stopped or xray is without a listening configuration (*Safe*), wherever worker and watchdog
are. Where sing-box is about to be started, in either list, xray already has the dummy
(*Ready*). Xray is given a listening configuration only after sing-box has been stopped and
while the watchdog is not about to start it, which follows either from the engine lock or
from the state that the watchdog goes by (*Agree*, which must hold where a boot may still
fall back to the last known good configuration). From the moment the engine is saved, the
state names the engine of the branch. The hypotheses are needed: a fleet-cli beside the agent breaks the property
(`claim_engine_cli`), and so does a failed docker command.

Checked by TLC only: the liveness properties, for which TLAPS has no proof rules here.

## Plan

Done: `CommandQueue` with `CommandLifecycle`, `NodeRegistry`, `Accounts`,
`BotConversation`, `BotLifecycle`, `EngineControl`, each with its instance, runs, mutants
and theorems. Left, in this order:

1. Log-in and sessions beside `Accounts`.
2. Staging and swapping of files in an OTA, with failures between.

## Not modelled

The subscription URLs that agents report back and the pruning of providers: they are
single statements whose races the code does not guard against, so that no property
holds of them. The ticker of auto-sync and the timers of the bot, which do one thing
again and again. The dashboard (a client of the handlers: an operator of the models);
parsing of subscriptions and generation of engine configurations (format conversion
without state); request signing (every modelled request is a signed one), the rate
limiter, the audit log (append-only, read by nobody), single settings, archives of
backups, installers and static files.
