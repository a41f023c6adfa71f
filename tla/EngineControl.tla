---------------------------- MODULE EngineControl ----------------------------
(***************************************************************************)
(* How an agent controls its two engines.  xray-node and singbox-node      *)
(* share a network namespace and the ports 6357 and 6358, so only one of   *)
(* them may listen; when sing-box serves, xray runs a dummy configuration  *)
(* that listens elsewhere.  The worker thread applies configurations, the  *)
(* health thread is the watchdog, and a fleet-cli process may do what the  *)
(* worker does at the same time.  The threads of the agent share           *)
(* _engine_lock; agent and fleet-cli share the file lock (apply.lock).     *)
(*                                                                         *)
(* The state file has no lock: it is loaded, changed and saved, and the    *)
(* poll thread does so too when the master has sent new subscriptions.     *)
(*                                                                         *)
(* The code of an operation is a list of steps, each of them one docker    *)
(* command, one write of a file or one decision; a thread executes the     *)
(* head of its list, and a decision puts the steps of its branch in front. *)
(* A configuration is the server it was built for.  Docker is external: a  *)
(* command may fail, which the code does not look at, a container whose    *)
(* configuration is not its own crashes, a crashed one is tried again      *)
(* ("unless-stopped"), and stopping xray-node tears singbox-node down.  A  *)
(* benchmark may prefer any server; what counts is that its results go by  *)
(* the numbers the servers had when it was made.  Left out: provider tags, *)
(* downloads, the URLs in the state file, and what a docker command that   *)
(* has timed out still does later.                                         *)
(***************************************************************************)
EXTENDS Integers, Sequences

CONSTANTS
  XrayServers, SingboxServers, \* the servers of the subscriptions
  Lists,        \* what the subscriptions may yield: sequences of servers,
                \* the empty one when nothing could be fetched
  Outsiders,    \* {"cli"} when somebody uses the fleet-cli, or {}
  RestartAsked, \* whether requests to restart both engines get through
  MaxOps,       \* bound: operations of worker and fleet-cli
  MaxIncidents  \* bound: containers that crash, docker commands and locks
                \* that fail, new subscriptions and restarts of the agent

Servers  == XrayServers \cup SingboxServers
Engines  == {"xray", "singbox"}
Threads  == {"worker", "health"} \cup Outsiders
Savers   == Threads \cup {"poll"}
\* "default" listens and proxies nothing, "dummy" (of xray) does not listen.
Configs  == Servers \cup {"default", "dummy"}
Files    == Configs \cup {"none"}
Boxes    == Configs \cup {"stopped", "crashed"}
\* "smart" are the modes fastest and balanced.
States   == [engine : Engines, server : Servers \cup {"none"},
             mode : {"manual", "smart"}]
\* What an empty state file is taken for, and the copy of who has not loaded it.
Blank    == [engine |-> "xray", server |-> "none", mode |-> "manual"]
Unread   == [engine |-> "none", server |-> "none", mode |-> "none"]

EngineOf(s) == IF s \in XrayServers THEN "xray" ELSE "singbox"
Other(e)    == IF e = "xray" THEN "singbox" ELSE "xray"

ASSUME ServersAssumption ==
  /\ XrayServers \cap SingboxServers = {}
  /\ Servers \cap {"default", "dummy", "none", "stopped", "crashed"} = {}
  /\ Lists \subseteq Seq(Servers) /\ <<>> \in Lists
ASSUME BoundsAssumption ==
  /\ Outsiders \subseteq {"cli"} /\ RestartAsked \in BOOLEAN
  /\ MaxOps \in Nat /\ MaxIncidents \in Nat

VARIABLES
  state,     \* agent_state.json: the engine and the server in use
  disk,      \* the configuration file of each engine
  rollback,  \* the copy of it under .rollback
  lkg,       \* last_known_good.json
  cache,     \* subscription_cache.json
  bench,     \* the benchmark file: of how many servers, 0 if there is none
  box,       \* each container: what it runs, or why it does not
  lock,      \* the thread that holds _engine_lock
  flock,     \* the thread that holds the file lock
  todo,      \* the steps each thread has still to do
  seen,      \* the copy of the state each thread is about to save
  fetched,   \* update_subscription: the servers it has fetched,
  loaded,    \* the state it has loaded,
  applied,   \* whether it has applied a configuration
  failed,    \* history: since the agent started a docker command has failed
  lost,      \* history: since then a save of the state has undone another
             \* thread's, or the file was read while it was truncated
  ops, incidents  \* counters

others == <<disk, rollback, lkg, cache, bench>>
files  == <<state, others>>
locks  == <<lock, flock>>
update == <<fetched, loaded, applied>>
local  == <<seen, update>>
count  == <<ops, incidents>>
past   == <<failed, lost, count>>
vars   == <<files, box, locks, todo, local, past>>

-----------------------------------------------------------------------------
(* Containers. *)

Running(e)  == box[e] \in Configs
Listens(e)  == box[e] \in Configs \ {"dummy"}
Runnable(e, c) == \/ c = "default" \/ (c = "dummy" /\ e = "xray")
                  \/ c \in Servers /\ EngineOf(c) = e

\* xray-node goes down, and with it singbox-node if it runs.
Down(e, how) ==
  IF e = "singbox" THEN [box EXCEPT !.singbox = how]
  ELSE [xray |-> how, singbox |-> IF Running("singbox") THEN "crashed" ELSE box.singbox]
\* (Mutant: a container whose file is missing or another's comes up.)
UpAnyhow(e) == [Down(e, "stopped") EXCEPT ![e] = disk[e]]
\* It comes up again with the file on disk.
Up(e) == IF Runnable(e, disk[e]) /\ (e = "singbox" => Running("xray"))
           THEN [Down(e, "stopped") EXCEPT ![e] = disk[e]]
           ELSE Down(e, "crashed")

\* test_proxy: the container the state names runs, and somebody answers.
Healthy(found) == /\ Running(found.engine) /\ Running("xray")
                  /\ \E e \in Engines : Listens(e)

-----------------------------------------------------------------------------
(* Lists of steps. *)

Step(do, e, c) == [do |-> do, engine |-> e, config |-> c]
Simply(do)     == Step(do, "xray", "none")
On(do, e)      == Step(do, e, "none")

\* _ensure_xray_running: xray runs the dummy.
EnsureDummy == <<Step("write", "xray", "dummy"), On("stop", "singbox"),
                 On("stop", "xray"), On("start", "xray")>>
DockerRestart(e) ==
  (IF e = "singbox" THEN EnsureDummy ELSE <<>>) \o <<On("restart", e)>>

\* (Mutant: the other engine is left running.)
WriteBesideOther(e, s) ==
  <<Simply("lock"), Simply("flock"), Step("write", e, s)>> \o DockerRestart(e)
\* The part that both ways to apply a configuration share.
WriteAndRestart(e, s) ==
  <<Simply("lock"), Simply("flock"), On("stop", Other(e)), Step("write", e, s)>>
    \o DockerRestart(e)
\* _apply_outbound_cfg: what is not healthy stays.
ApplyOutbound(e, s) ==
  WriteAndRestart(e, s) \o <<On("save_engine", e), Step("verify", e, s),
                             Simply("funlock"), Simply("unlock")>>
\* apply_configs: what is not healthy is rolled back; the file lock is
\* released before.
ApplyConfigs(e, s) ==
  WriteAndRestart(e, s) \o <<Simply("funlock"), On("save_engine", e),
                             Step("verify_or_roll_back", e, s), Simply("unlock")>>

\* "save" tells the mode: save_manual or save_smart.
SelectServer(s, save) ==
  <<On("save_rollback", EngineOf(s))>> \o ApplyOutbound(EngineOf(s), s)
    \o <<Step(save, EngineOf(s), s)>>
UpdateSubscription ==
  <<Simply("fetch"), Simply("load"), Simply("apply_new"), Simply("apply_current"),
    Simply("save_loaded")>>
EnsureDefaults(e) ==
  IF e = "singbox" THEN EnsureDummy \o <<On("start", "singbox")>>
                   ELSE <<On("stop", "singbox"), On("start_once", "xray")>>
\* The worker's restart of the engines on request, which takes no lock.
RestartBoth == DockerRestart("xray") \o DockerRestart("singbox")
\* main, and the first action of its worker.
StartAgent ==
  <<On("stop", "singbox"), On("stop", "xray"), Simply("ensure_defaults"),
    Simply("threads")>>
Boot == UpdateSubscription
          \o <<Simply("reselect"), Simply("fall_back"), Simply("defaults_if_failed")>>
\* What an OTA does to the engines, before the agent restarts.
Refresh == <<Simply("clean")>> \o UpdateSubscription
             \o <<Simply("defaults_if_failed"), Simply("reselect_if_applied"),
                  Simply("restart_agent")>>

-----------------------------------------------------------------------------
(* One step of a thread t. *)

Does(t, do) == todo[t] # <<>> /\ todo[t][1].do = do
Now(t)      == todo[t][1]
\* The step is done; others may come before the rest.
Then(t, steps) == todo' = [todo EXCEPT ![t] = steps \o Tail(@)]
Done(t)        == Then(t, <<>>)
Incident == incidents < MaxIncidents /\ incidents' = incidents + 1

\* save_json truncates the state file before it writes it.  Whoever may be
\* doing so, what others read may be nothing, and what they save may be spoilt.
Loads == {"load", "save_engine"}
Saves == Loads \cup {"apply_current", "save_loaded", "save_manual", "save_smart",
                    "keep", "see"}
Saving(u) == IF u = "poll" THEN seen[u] # Unread
             ELSE /\ todo[u] # <<>> /\ Now(u).do \in Saves
                  /\ Now(u).do \in Loads => seen[u] # Unread
OrBlank(t, s)   == {s} \cup {Blank : u \in {u \in Savers \ {t} : Saving(u)}}
\* What t may find in the file; and what it may leave there, having gone by a
\* copy that was stale or not.
Views(t)        == OrBlank(t, state)
View(found)     == lost' = (lost \/ found # state)
Save(t, new, stale) == /\ state' \in OrBlank(t, new)
                       /\ lost' = (lost \/ stale \/ state' # new)
Forget(t)       == seen' = [seen EXCEPT ![t] = Unread]

LockEngine(t) ==
  /\ Does(t, "lock") /\ Done(t)
  /\ IF t \in Outsiders THEN UNCHANGED lock ELSE lock = "free" /\ lock' = t
  /\ UNCHANGED <<files, box, flock, local, past>>

\* A thread that fails to get the file lock goes on without it.
LockFile(t) ==
  /\ Does(t, "flock") /\ Done(t)
  /\ \/ flock = "free" /\ flock' = t /\ UNCHANGED incidents
     \/ Incident /\ UNCHANGED flock
  /\ UNCHANGED <<files, box, lock, local, failed, lost, ops>>

UnlockFile(t) ==
  /\ Does(t, "funlock") /\ flock' = (IF flock = t THEN "free" ELSE flock) /\ Done(t)
  /\ UNCHANGED <<files, box, lock, local, past>>

\* (Mutant: an early return that keeps the lock.)
KeepEngineLocked(t) ==
  /\ Does(t, "unlock") /\ Done(t) /\ UNCHANGED <<files, box, locks, local, past>>

UnlockEngine(t) ==
  /\ Does(t, "unlock") /\ Done(t)
  /\ lock' = IF t \in Outsiders THEN lock ELSE "free"
  /\ UNCHANGED <<files, box, flock, local, past>>

StopContainer(t) ==
  /\ Does(t, "stop") /\ box' = Down(Now(t).engine, "stopped") /\ Done(t)
  /\ UNCHANGED <<files, locks, local, past>>

\* docker start leaves a container alone that runs, docker restart does not.
RunContainer(t) ==
  /\ Does(t, "start") \/ Does(t, "start_once") \/ Does(t, "restart")
  /\ LET e == Now(t).engine IN
       \/ /\ box' = IF ~ Does(t, "restart") /\ Running(e) THEN box ELSE Up(e)
          /\ UNCHANGED incidents
       \/ Incident /\ box' = Down(e, "crashed")
  /\ Done(t) /\ UNCHANGED <<files, locks, local, failed, lost, ops>>

\* A docker command fails or times out: the container is left as it was, or a
\* restart has got no further than the stop, or the restart that is tried
\* after a failed start does it.
FailDocker(t) ==
  LET e == Now(t).engine IN
  /\ Does(t, "stop") \/ Does(t, "start") \/ Does(t, "start_once") \/ Does(t, "restart")
  /\ Incident /\ failed' = TRUE /\ Done(t)
  /\ \/ UNCHANGED box
     \/ ~ Does(t, "stop") /\ box' = Down(e, "stopped")
     \/ Does(t, "start") /\ box' = Up(e)
  /\ UNCHANGED <<files, locks, local, lost, ops>>

WriteConfig(t) ==
  /\ Does(t, "write") /\ Done(t)
  /\ disk' = [disk EXCEPT ![Now(t).engine] = Now(t).config]
  /\ UNCHANGED <<state, rollback, lkg, cache, bench, box, locks, local, past>>

\* The state is loaded to be changed and saved.
LoadState(t) ==
  /\ \E do \in Loads : Does(t, do)
  /\ seen[t] = Unread
  /\ \E found \in Views(t) : seen' = [seen EXCEPT ![t] = found] /\ View(found)
  /\ UNCHANGED <<files, box, locks, todo, update, failed, count>>

SaveEngine(t) ==
  /\ Does(t, "save_engine") /\ seen[t] # Unread /\ Forget(t) /\ Done(t)
  /\ Save(t, [seen[t] EXCEPT !.engine = Now(t).engine], seen[t] # state)
  /\ UNCHANGED <<others, box, locks, update, failed, count>>

\* Whatever was loaded, engine, server and mode are set.
SaveServer(t) ==
  /\ Does(t, "save_manual") \/ Does(t, "save_smart")
  /\ Save(t, [engine |-> Now(t).engine, server |-> Now(t).config,
              mode |-> IF Does(t, "save_smart") THEN "smart" ELSE "manual"], FALSE)
  /\ Done(t)
  /\ UNCHANGED <<others, box, locks, local, failed, count>>

SaveRollback(t) ==
  LET e == Now(t).engine IN
  /\ Does(t, "save_rollback") /\ Done(t)
  /\ rollback' = IF disk[e] = "none" THEN rollback
                                     ELSE [rollback EXCEPT ![e] = disk[e]]
  /\ UNCHANGED <<state, disk, lkg, cache, bench, box, locks, local, past>>

\* (Mutant: what was applied is kept as good, healthy or not.)
VerifyNothing(t) ==
  /\ Does(t, "verify") /\ Done(t) /\ lkg' = Now(t).config
  /\ UNCHANGED <<state, disk, rollback, cache, bench, box, locks, local, past>>

\* _apply_outbound_cfg: only a configuration that is healthy is kept as good.
Verify(t) ==
  /\ Does(t, "verify") /\ Done(t)
  /\ \E found \in Views(t) :
       lkg' = (IF Healthy(found) THEN Now(t).config ELSE lkg) /\ View(found)
  /\ UNCHANGED <<state, disk, rollback, cache, bench, box, locks, local, failed, count>>

VerifyOrRollBack(t) ==
  LET e == Now(t).engine IN
  /\ Does(t, "verify_or_roll_back")
  /\ \E found \in Views(t) :
       /\ applied' = [applied EXCEPT ![t] = Healthy(found)]
       /\ lkg' = IF Healthy(found) THEN Now(t).config ELSE lkg
       /\ Then(t, IF Healthy(found) \/ rollback[e] = "none" THEN <<>>
                  ELSE <<Step("write", e, rollback[e])>> \o DockerRestart(e))
       /\ View(found)
  /\ UNCHANGED <<state, disk, rollback, cache, bench, box, locks, seen, fetched,
                 loaded, failed, count>>

-----------------------------------------------------------------------------
(* update_subscription, whose state is loaded once and saved at the end. *)

First(t, e) ==
  LET own == {i \in 1..Len(fetched[t]) : EngineOf(fetched[t][i]) = e} IN
  IF own = {} THEN "none" ELSE fetched[t][CHOOSE i \in own : \A j \in own : i <= j]
Fetched(t, s) == \E i \in 1..Len(fetched[t]) : fetched[t][i] = s
ApplyEngine(e, s) == <<On("save_rollback", e)>> \o ApplyConfigs(e, s)

\* Nothing could be fetched: the update ends, the cache is empty, or is left
\* alone when there is no URL to fetch from.
Fetch(t) ==
  /\ Does(t, "fetch") /\ applied' = [applied EXCEPT ![t] = FALSE]
  /\ \E list \in Lists :
       /\ cache' = list \/ (list = <<>> /\ UNCHANGED cache)
       /\ fetched' = [fetched EXCEPT ![t] = list]
       /\ todo' = [todo EXCEPT ![t] =
            IF list = <<>> THEN SubSeq(@, Len(UpdateSubscription) + 1, Len(@))
                           ELSE Tail(@)]
  /\ UNCHANGED <<state, disk, rollback, lkg, bench, box, locks, seen, loaded, past>>

\* The server in use is kept, or else the first one takes its place.
Load(t) ==
  LET old == seen[t]
      s   == IF old.server = "none" \/ Fetched(t, old.server)
               THEN old.server ELSE fetched[t][1] IN
  /\ Does(t, "load") /\ old # Unread /\ Forget(t) /\ Done(t)
  /\ loaded' = [loaded EXCEPT ![t] = [old EXCEPT !.server = s]]
  /\ IF s = old.server THEN View(old) /\ UNCHANGED state
                       ELSE Save(t, [old EXCEPT !.server = s], old # state)
  /\ UNCHANGED <<others, box, locks, fetched, applied, failed, count>>

\* The server in use belongs to the other engine.
ApplyNew(t) ==
  LET s == loaded[t].server IN
  /\ Does(t, "apply_new")
  /\ Then(t, IF s = "none" \/ EngineOf(s) = loaded[t].engine THEN <<>>
             ELSE ApplyEngine(EngineOf(s), s))
  /\ UNCHANGED <<files, box, locks, local, past>>

\* The servers of the engine in use: the one in use, or else the first.
Own(t, e) == LET s == loaded[t].server IN
             IF s # "none" /\ EngineOf(s) = e THEN s ELSE First(t, e)
ApplyCurrent(t) ==
  LET e == loaded[t].engine
      new == [loaded[t] EXCEPT !.server =
                IF @ = "none" THEN @ ELSE Own(t, e)] IN
  /\ Does(t, "apply_current") /\ ~ applied[t] /\ First(t, e) # "none"
  /\ loaded' = [loaded EXCEPT ![t] = new]
  /\ IF new = loaded[t] THEN UNCHANGED <<state, lost>> ELSE Save(t, new, FALSE)
  /\ Then(t, ApplyEngine(e, Own(t, e)))
  /\ UNCHANGED <<others, box, locks, seen, fetched, applied, failed, count>>

\* It has none any more: the other engine's first one, healthy or not.
ChangeEngine(t) ==
  LET e == Other(loaded[t].engine) IN
  /\ Does(t, "apply_current") /\ ~ applied[t] /\ First(t, Other(e)) = "none"
  /\ loaded' = [loaded EXCEPT ![t].engine = e]
  /\ Then(t, ApplyEngine(e, First(t, e)) \o <<Simply("applied_anyway")>>)
  /\ UNCHANGED <<files, box, locks, seen, fetched, applied, past>>

AppliedAnyway(t) ==
  /\ Does(t, "applied_anyway") /\ applied' = [applied EXCEPT ![t] = TRUE] /\ Done(t)
  /\ UNCHANGED <<files, box, locks, seen, fetched, loaded, past>>

AlreadyApplied(t) ==
  /\ Does(t, "apply_current") /\ applied[t] /\ Done(t)
  /\ UNCHANGED <<files, box, locks, local, past>>

SaveLoaded(t) ==
  /\ Does(t, "save_loaded") /\ Done(t)
  /\ Save(t, [loaded[t] EXCEPT !.server = IF @ = "none" THEN fetched[t][1] ELSE @],
          FALSE)
  /\ UNCHANGED <<others, box, locks, local, failed, count>>

-----------------------------------------------------------------------------
(* Modes: the benchmark chooses the server. *)

\* There is nothing to choose from, or an update leaves the choice alone.
Unasked(t, found) ==
  \/ cache = <<>>
  \/ ~ Does(t, "choose") /\ found.mode = "manual"
  \/ Does(t, "reselect_if_applied") /\ ~ applied[t]

\* An exception ends the operation, but not that of an OTA.
Raise(t) ==
  todo' = [todo EXCEPT ![t] =
    IF Tail(@) = <<Simply("restart_agent")>>
      THEN <<Simply("ensure_defaults"), Simply("restart_agent")>> ELSE <<>>]

\* _smart_switch and _reselect_after_update: the server in use is kept, or the
\* best one takes its place, unless it turns out to be out of reach.  A
\* benchmark that is still fresh is not repeated, and it may be of more servers
\* than there are now.
Choose(t) ==
  /\ Does(t, "choose") \/ Does(t, "reselect") \/ Does(t, "reselect_if_applied")
  /\ \E found \in Views(t) :
       /\ View(found)
       /\ \/ Unasked(t, found) /\ Done(t) /\ UNCHANGED <<bench, seen>>
          \/ /\ ~ Unasked(t, found) /\ bench' \in {bench, Len(cache)} \ {0}
             /\ \/ /\ \E i \in 1..Len(cache) : i <= bench' /\ cache[i] = found.server
                   /\ seen' = [seen EXCEPT ![t] = found] /\ Then(t, <<Simply("keep")>>)
                \/ /\ UNCHANGED seen
                   /\ \E i \in 1..bench' :
                        IF i <= Len(cache)
                          THEN Done(t) \/ Then(t, SelectServer(cache[i], "save_smart"))
                          ELSE Raise(t)
  /\ UNCHANGED <<state, disk, rollback, lkg, cache, box, locks, update, failed, count>>

\* The server in use is good enough.
KeepServer(t) ==
  /\ Does(t, "keep") /\ Forget(t) /\ Done(t)
  /\ Save(t, [seen[t] EXCEPT !.mode = "smart"], seen[t] # state)
  /\ UNCHANGED <<others, box, locks, update, failed, count>>

-----------------------------------------------------------------------------
(* The worker: boot, the OTA, and what they fall back to. *)

\* restore_last_known_good: the good configuration becomes that of the engine
\* the state names.
FallBack(t) ==
  /\ Does(t, "fall_back")
  /\ IF applied[t] \/ lkg = "none" THEN Done(t) /\ UNCHANGED <<seen, lost>>
     ELSE \E found \in Views(t) :
            /\ seen' = [seen EXCEPT ![t] = found] /\ View(found)
            /\ Then(t, <<Step("write", found.engine, lkg)>> \o DockerRestart(found.engine)
                        \o <<On("see", found.engine)>>)
  /\ UNCHANGED <<files, box, locks, update, failed, count>>

\* The state it saves is the one it has loaded before.
SeeFallBack(t) ==
  /\ Does(t, "see") /\ Forget(t) /\ Done(t)
  /\ \E found \in Views(t) :
       /\ applied' = [applied EXCEPT ![t] = Healthy(found)]
       /\ IF Healthy(found)
            THEN Save(t, [seen[t] EXCEPT !.engine = Now(t).engine],
                      found # state \/ seen[t] # state)
            ELSE View(found) /\ UNCHANGED state
  /\ UNCHANGED <<others, box, locks, fetched, loaded, failed, count>>

\* ensure_default_configs writes the files that are missing and starts the
\* engine the state names.
StartDefaults(t) ==
  LET needed == Does(t, "ensure_defaults") \/ ~ applied[t] IN
  /\ Does(t, "ensure_defaults") \/ Does(t, "defaults_if_failed")
  /\ disk' = [e \in Engines |-> IF needed /\ disk[e] = "none" THEN "default"
                                                              ELSE disk[e]]
  /\ \E found \in Views(t) :
       Then(t, IF needed THEN EnsureDefaults(found.engine) ELSE <<>>) /\ View(found)
  /\ UNCHANGED <<state, rollback, lkg, cache, bench, box, locks, local, failed, count>>

\* The OTA removes caches, rollbacks, configurations and the lock's file, and
\* whoever holds that lock excludes nobody any more.
Clean(t) ==
  /\ Does(t, "clean") /\ Done(t) /\ cache' = <<>> /\ bench' = 0 /\ flock' = "free"
  /\ disk' = [e \in Engines |-> "none"] /\ rollback' = [e \in Engines |-> "none"]
  /\ UNCHANGED <<state, lkg, box, lock, local, past>>

\* The container of the agent restarts: its threads, and a fleet-cli that runs
\* in it, are gone and with them their locks; the engines go on.
RestartAgent(incident) ==
  /\ todo' = [t \in Threads |-> IF t = "worker" THEN StartAgent \o Boot ELSE <<>>]
  /\ lock' = "free" /\ flock' = "free"
  /\ state' \in {state} \cup {Blank : u \in {u \in Savers : Saving(u)}}
  /\ seen' = [u \in Savers |-> Unread] /\ failed' = FALSE /\ lost' = FALSE
  /\ IF incident THEN Incident ELSE UNCHANGED incidents
  /\ UNCHANGED <<others, box, update, ops>>

RestartAfterUpdate(t) == Does(t, "restart_agent") /\ RestartAgent(FALSE)

StartThreads(t) ==
  /\ Does(t, "threads") /\ Done(t)
  /\ UNCHANGED <<files, box, locks, local, past>>

\* The worker takes its next action, or somebody uses the fleet-cli.  (A choice
\* that is refused, of no server or of one out of reach, changes nothing.)
Begin(t) ==
  /\ t # "health" /\ todo[t] = <<>> /\ ops < MaxOps
  /\ \E plan \in {UpdateSubscription \o <<Simply(IF t = "worker" THEN "reselect"
                                                ELSE "reselect_if_applied")>>,
                   <<Simply("choose")>>}
                   \cup {SelectServer(cache[i], "save_manual") : i \in 1..Len(cache)}
                   \cup (IF t = "worker" THEN {Refresh} ELSE {})
                   \cup (IF t = "worker" /\ RestartAsked THEN {RestartBoth} ELSE {}) :
       todo' = [todo EXCEPT ![t] = plan]
  /\ ops' = ops + 1
  /\ UNCHANGED <<files, box, locks, local, failed, lost, incidents>>

-----------------------------------------------------------------------------
(* The watchdog. *)

Started == \A i \in 1..Len(todo["worker"]) : todo["worker"][i].do # "threads"

\* The cycle is skipped when the lock is taken.
HealthTryLock ==
  /\ todo["health"] = <<>> /\ Started /\ lock = "free" /\ lock' = "health"
  /\ todo' = [todo EXCEPT !["health"] = <<Simply("check")>>]
  /\ UNCHANGED <<files, box, flock, local, past>>

\* A container that has exited is restarted at once, one that is silent or
\* crashes again and again when it has been so for several cycles.
HealthCheck ==
  /\ Does("health", "check")
  /\ \E restart \in BOOLEAN, found \in Views("health") :
       /\ Healthy(found) => ~ restart
       /\ box[found.engine] = "stopped" => restart
       /\ Then("health", (IF restart THEN DockerRestart(found.engine) ELSE <<>>)
                           \o <<Simply("unlock")>>)
       /\ View(found)
  /\ UNCHANGED <<files, box, locks, local, failed, count>>

-----------------------------------------------------------------------------
(* The poll thread, when the master has sent subscriptions or names that are *)
(* new: the rest of the state is saved as it was loaded.                     *)

PollLoad ==
  /\ Started /\ seen["poll"] = Unread /\ Incident
  /\ \E found \in Views("poll") : seen' = [seen EXCEPT !["poll"] = found] /\ View(found)
  /\ UNCHANGED <<files, box, locks, todo, update, failed, ops>>

PollSave ==
  /\ seen["poll"] # Unread /\ Forget("poll")
  /\ Save("poll", seen["poll"], seen["poll"] # state)
  /\ UNCHANGED <<others, box, locks, todo, update, failed, count>>

-----------------------------------------------------------------------------
(* Docker by itself. *)

CrashContainer(e) ==
  /\ Running(e) /\ Incident /\ box' = Down(e, "crashed")
  /\ UNCHANGED <<files, locks, todo, local, failed, lost, ops>>

\* The restart policy, once a container could run.
Revive(e) ==
  /\ box[e] = "crashed" /\ Runnable(e, disk[e]) /\ (e = "singbox" => Running("xray"))
  /\ box' = Up(e) /\ UNCHANGED <<files, locks, todo, local, past>>

-----------------------------------------------------------------------------
\* A fresh installation that has a first list of servers to ask for.
Init ==
  /\ state = Blank
  /\ disk = [e \in Engines |-> "default"] /\ rollback = [e \in Engines |-> "none"]
  /\ lkg = "none" /\ cache = <<>> /\ bench = 0
  /\ box = [e \in Engines |-> IF e = "xray" THEN "default" ELSE "stopped"]
  /\ lock = "free" /\ flock = "free"
  /\ todo = [t \in Threads |-> IF t = "worker" THEN StartAgent \o Boot ELSE <<>>]
  /\ seen = [u \in Savers |-> Unread] /\ failed = FALSE /\ lost = FALSE
  /\ fetched = [t \in Threads |-> <<>>]
  /\ loaded = [t \in Threads |-> state] /\ applied = [t \in Threads |-> FALSE]
  /\ ops = 0 /\ incidents = 0

Run(t) ==
  \/ LockEngine(t) \/ LockFile(t) \/ UnlockFile(t) \/ UnlockEngine(t)
  \/ StopContainer(t) \/ RunContainer(t) \/ FailDocker(t) \/ WriteConfig(t)
  \/ LoadState(t) \/ SaveEngine(t) \/ SaveServer(t) \/ SaveRollback(t)
  \/ Verify(t) \/ VerifyOrRollBack(t)
  \/ Fetch(t) \/ Load(t) \/ ApplyNew(t) \/ ApplyCurrent(t) \/ ChangeEngine(t)
  \/ AppliedAnyway(t) \/ AlreadyApplied(t) \/ SaveLoaded(t)
  \/ Choose(t) \/ KeepServer(t)
  \/ FallBack(t) \/ SeeFallBack(t) \/ StartDefaults(t) \/ Clean(t)
  \/ RestartAfterUpdate(t) \/ StartThreads(t)

Next ==
  \/ \E t \in Threads : Run(t) \/ Begin(t)
  \/ HealthTryLock \/ HealthCheck \/ PollLoad \/ PollSave
  \/ \E e \in Engines : CrashContainer(e) \/ Revive(e)
  \/ RestartAgent(TRUE)

\* Threads go on, as docker commands and probes time out (those of
\* ensure_default_configs do not, and are taken to return); and the worker gets
\* the lock it waits for, as the watchdog sleeps for a minute after each cycle.
Fairness == /\ \A t \in Threads : WF_vars(Run(t))
            /\ SF_vars(LockEngine("worker")) /\ WF_vars(HealthCheck)

Spec == Init /\ [][Next]_vars /\ Fairness

-----------------------------------------------------------------------------
\* A container runs only a configuration there is, and a lock has a holder or
\* is free (_ensure_xray_running, the OTA's removal of files and of the lock).
TypeOK ==
  /\ state \in States /\ \A t \in Threads : loaded[t] \in States
  /\ seen \in [Savers -> States \cup {Unread}]
  /\ failed \in BOOLEAN /\ lost \in BOOLEAN
  /\ disk \in [Engines -> Files] /\ rollback \in [Engines -> Files]
  /\ lkg \in Servers \cup {"none"} /\ cache \in Lists
  /\ bench \in {Len(list) : list \in Lists} /\ fetched \in [Threads -> Lists]
  /\ box \in [Engines -> Boxes]
  /\ lock \in {"free", "worker", "health"} /\ flock \in {"free", "worker"} \cup Outsiders
  /\ applied \in [Threads -> BOOLEAN]
  /\ ops \in 0..MaxOps /\ incidents \in 0..MaxIncidents

\* Nobody is in the middle of an operation.
Quiet == \A t \in Threads : todo[t] = <<>>

\* Whatever worker and watchdog did, in whatever order, and wherever the agent
\* or a container crashed: once they are done, xray and sing-box do not both
\* listen on 6357 and 6358, as long as, since the agent started, no docker
\* command has failed and no thread has undone or missed another's save of the
\* state.  What went wrong before, the start sets right (_stop_both_engines,
\* _ensure_xray_running, the order in which apply_configs and
\* _apply_outbound_cfg stop and start).
OneListener == Quiet /\ ~ failed /\ ~ lost => ~ (Listens("xray") /\ Listens("singbox"))

\* "Only a verified-healthy config enters the offline cache": as long as no
\* docker command has failed since the agent started, what becomes the last
\* known good configuration is what its container runs at that moment, and not
\* one that the watchdog or a rollback has replaced in between, whichever
\* engine the probe finds named in the state.
VerifiedOnly == [][lkg' # lkg /\ ~ failed => box[EngineOf(lkg')] = lkg']_vars

\* Every switch, update, boot and watchdog cycle ends: nobody waits for ever
\* for a lock, and no fallback leads back to itself.
OperationsEnd == \A t \in Threads : todo[t] # <<>> ~> todo[t] = <<>>
=============================================================================
