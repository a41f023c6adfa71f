---------------------------- MODULE CommandQueue ----------------------------
(***************************************************************************)
(* The command pipeline of one fleet node: the node's row in PostgreSQL    *)
(* holds at most one pending command; operators (dashboard, Telegram bot,  *)
(* auto-sync) write it, the agent's poll thread reads it, a worker thread  *)
(* runs it, and every report of the agent clears it.                       *)
(*                                                                         *)
(* The SQL statements of a handler are separate steps, so handlers of the  *)
(* same node interleave; so do the threads of the agent.  Rows of          *)
(* different nodes share nothing here, so one row is the whole story.      *)
(* A request and its first statement are one step: what the sender holds   *)
(* does not change in between, and a request that reaches the master after *)
(* its sender has given up is kept in "late".                              *)
(*                                                                         *)
(* Commands are numbered in the order they are written to the row;         *)
(* posted[i] is the JSON text of the i-th one.  The agent never sees the   *)
(* number: it compares texts (SameText), and a number that the agent holds *)
(* stands for the text with that number.                                   *)
(***************************************************************************)
EXTENDS Integers, Sequences

CONSTANTS
  Switches,     \* texts of "switch" commands
  Refreshes,    \* texts of "update_sub" commands
  Updates,      \* texts of "update_client_files" (OTA) commands
  Probes,       \* texts of "test_connection" commands
  LogFetches,   \* "get_logs", each one carries a fresh req_id
  Terminations, \* texts of "terminate" commands
  Operators,    \* concurrent handlers of the dashboard and the bot
  Bystanders,   \* senders of reports about no command: "health", "cli"
  MaxCmds,      \* bound: commands written in a behaviour
  MaxFaults     \* bound: lost requests, failed statements, agent crashes

Texts     == Switches \cup Refreshes \cup Updates \cup Probes
               \cup LogFetches \cup Terminations
Reporters == {"poll", "worker", "main"} \cup Bystanders
Instances == 1..MaxCmds

ASSUME BoundsAssumption == MaxCmds \in Nat /\ MaxFaults \in Nat
ASSUME TextsAssumption == "boot" \notin Texts

VARIABLES
  pending,   \* nodes.pending_command: number of the command, 0 for NULL
  pipeline,  \* nodes.pipeline_status
  ops,       \* what an operator's handler still has to do
  writing,   \* status a sender's report handler has still to write, or "none"
  late,      \* a request at the master whose sender has timed out
  last,      \* _last_command of the agent process
  marker,    \* the file .last_command
  poller,    \* the poll thread
  queue,     \* _ACTION_QUEUE, 0 is the "boot" action
  worker,    \* the worker thread and its action
  main,      \* the main thread
  faults,    \* faults so far, at most MaxFaults
  posted,    \* history: texts of the commands written so far
  fetched,   \* history: commands some poll has read from the row
  accepted,  \* history: how often execute_command has dispatched a command
  finished   \* history: commands whose execution has come to its end

master  == <<pending, pipeline, ops>>
process == <<poller, queue, worker, main>>
agent   == <<last, marker, process>>
history == <<posted, fetched, accepted, finished>>
vars    == <<master, writing, late, agent, faults, history>>

-----------------------------------------------------------------------------
Nothing    == [todo |-> "none", status |-> "none"]
IdlePoller == [pc |-> "idle", cmd |-> 0]
IdleWorker == [pc |-> "idle", job |-> 0]
Rescued    == [pc |-> "rescued", job |-> 0]
DeadWorker == [pc |-> "dead", job |-> 0]
Starting   == [pc |-> "starting", stop |-> FALSE]
Gone       == [pc |-> "gone", stop |-> FALSE]

Text(i) == IF i = 0 THEN "boot" ELSE posted[i]

\* Two deliveries the agent cannot tell apart: same JSON text.  The req_id
\* makes every get_logs text different.
SameText(i, j) == i = j \/ (Text(i) = Text(j) /\ Text(i) \notin LogFetches)

\* What the status line may show.  The texts that reports carry ("Registered",
\* "Switching", "Verified & Active", "Update failed", ...) are one value here;
\* a report without a status is "none".
Statuses == {"none", "Idle", "Queued", "Fetched", "Reported"}

\* Actions that report before they are done, and what their last report says.
\* Job 0 is the "boot" action, which refreshes the subscription.
Progressing == Switches \cup Refreshes \cup Updates \cup {"boot"}
Outcomes(i) == IF Text(i) \in Refreshes \cup {"boot"} THEN {"none", "Reported"}
                                                ELSE {"Reported"}

Init ==
  /\ pending = 0 /\ pipeline = "Idle"
  /\ ops = [o \in Operators |-> "idle"]
  /\ writing = [r \in Reporters |-> "none"] /\ late = Nothing
  /\ last = 0 /\ marker = 0
  /\ poller = IdlePoller /\ queue = <<>> /\ worker = IdleWorker
  /\ main = Starting /\ faults = 0
  /\ posted = <<>> /\ fetched = {}
  /\ accepted = [i \in Instances |-> 0] /\ finished = {}

Fault == faults < MaxFaults /\ faults' = faults + 1
Alive == main.pc # "gone"

-----------------------------------------------------------------------------
(* The master: handlers of the dashboard, the bot and auto-sync. *)

\* SetPendingCommand: one UPDATE overwrites whatever was pending.
SetPendingCommand(t) ==
  /\ Len(posted) < MaxCmds
  /\ posted' = Append(posted, t)
  /\ pending' = Len(posted) + 1
  /\ pipeline' = "Queued"

\* A handler queues a command and has still to write the status again.
QueueCommand(o) ==
  /\ ops[o] = "idle"
  /\ \E t \in Texts \ LogFetches : SetPendingCommand(t)
  /\ ops' = [ops EXCEPT ![o] = "queued"]
  /\ UNCHANGED <<writing, late, agent, faults, fetched, accepted, finished>>

\* A switch from AutoSync, an update_sub with new subscription URLs
\* (UpdateNodeSubURLsAndQueue): the status of this UPDATE is all they write.
QueueOnly ==
  /\ \E t \in Switches \cup Refreshes : SetPendingCommand(t)
  /\ UNCHANGED <<ops, writing, late, agent, faults,
                 fetched, accepted, finished>>

\* Cancel: ClearPendingCommand, then the status.
ClearCommand(o) ==
  /\ ops[o] = "idle"
  /\ pending' = 0
  /\ ops' = [ops EXCEPT ![o] = "cleared"]
  /\ UNCHANGED <<pipeline, writing, late, agent, faults, history>>

\* The second statement of both; its failure is only logged.
FinishOp(o) ==
  /\ ops[o] \in {"queued", "cleared"}
  /\ \/ /\ pipeline' = IF ops[o] = "queued" THEN "Queued" ELSE "Idle"
        /\ UNCHANGED faults
     \/ Fault /\ UNCHANGED pipeline
  /\ ops' = [ops EXCEPT ![o] = "idle"]
  /\ UNCHANGED <<pending, writing, late, agent, history>>

\* GetNodeLogs looks at the row first ...
CheckBeforeLogs(o) ==
  /\ LogFetches # {}
  /\ ops[o] = "idle" /\ pending = 0
  /\ ops' = [ops EXCEPT ![o] = "logs"]
  /\ UNCHANGED <<pending, pipeline, writing, late, agent, faults, history>>

\* ... and queues get_logs in a second statement.
QueueLogs(o) ==
  /\ ops[o] = "logs"
  /\ \E t \in LogFetches : SetPendingCommand(t)
  /\ ops' = [ops EXCEPT ![o] = "idle"]
  /\ UNCHANGED <<writing, late, agent, faults, fetched, accepted, finished>>

OperatorStep ==
  \/ \E o \in Operators : \/ QueueCommand(o) \/ ClearCommand(o) \/ FinishOp(o)
                          \/ CheckBeforeLogs(o) \/ QueueLogs(o)
  \/ QueueOnly

-----------------------------------------------------------------------------
(* The master: ReportHandler. *)

\* Bug: ReportHandler does not clear the row.
ReportKeepsCommand(t, status) ==
  /\ writing[t] = "none"
  /\ writing' = [writing EXCEPT ![t] = status]
  /\ UNCHANGED <<pending, pipeline, ops, late, faults>>

\* Thread t sends a report and ReportHandler runs up to and including
\* ClearPendingCommand, which it does for every report, whatever it is about.
\* That statement may fail (it is only logged); the request may be lost, or
\* time out and be handled later.
Report(t, status) ==
  /\ writing[t] = "none"
  /\ \/ /\ pending' = 0
        /\ writing' = [writing EXCEPT ![t] = status]
        /\ UNCHANGED <<late, faults>>
     \/ /\ Fault
        /\ writing' = [writing EXCEPT ![t] = status]
        /\ UNCHANGED <<pending, late>>
     \/ /\ Fault
        /\ \/ UNCHANGED late
           \/ late = Nothing /\ late' = [todo |-> "clear", status |-> status]
        /\ UNCHANGED <<pending, writing>>
  /\ UNCHANGED <<pipeline, ops>>

\* The request failed.  Unless there was no connection at all, network.report
\* raises (_request catches URLError, no timeout of the answer).
Raised == UNCHANGED writing /\ faults' > faults

\* What that does to the sender when it waits for the answer: the handler of
\* _worker_loop reports "Error", and the thread ends when this report raises
\* as well; an OTA goes on after a failed refresh; main does not get up.
\* The poll thread and the bystanders catch it and have nothing left to do.
GivesUp(t) ==
  /\ worker' = IF \/ t # "worker"
                  \/ worker.pc = "run" /\ Text(worker.job) \in Updates
               THEN worker
               ELSE IF worker.pc = "rescued" THEN DeadWorker
               ELSE [worker EXCEPT !.pc = "error"]
  /\ main' = IF t = "main" /\ main.pc = "registering"
             THEN [main EXCEPT !.pc = "leaving"] ELSE main

\* UpdateNodePipelineStatus and the response; the sender may not wait for it.
ReportStatus(t) ==
  /\ writing[t] # "none"
  /\ \/ pipeline' = writing[t] /\ UNCHANGED <<late, faults, worker, main>>
     \/ Fault /\ UNCHANGED <<pipeline, late, worker, main>>
     \/ /\ Fault /\ late = Nothing
        /\ late' = [todo |-> "status", status |-> writing[t]]
        /\ GivesUp(t)
        /\ UNCHANGED pipeline
  /\ writing' = [writing EXCEPT ![t] = "none"]
  /\ UNCHANGED <<pending, ops, last, marker, poller, queue, history>>

\* Bug: the status is written even when the report has none.
LateClearUnguarded ==
  /\ late.todo = "clear"
  /\ pending' = 0
  /\ late' = [late EXCEPT !.todo = "status"]
  /\ UNCHANGED <<pipeline, ops, writing, agent, faults, history>>

\* The same two statements of a request nobody waits for.
LateClear ==
  /\ late.todo = "clear"
  /\ pending' = 0
  /\ late' = IF late.status = "none" THEN Nothing ELSE [late EXCEPT !.todo = "status"]
  /\ UNCHANGED <<pipeline, ops, writing, agent, faults, history>>

LateStatus ==
  /\ late.todo = "status"
  /\ pipeline' = late.status
  /\ late' = Nothing
  /\ UNCHANGED <<pending, ops, writing, agent, faults, history>>

\* The health watchdog ("Proxy dead") or a command of the local fleet-cli.
BystanderReport(b) ==
  /\ Alive
  /\ Report(b, IF b = "health" THEN "Reported" ELSE "none")
  /\ UNCHANGED <<agent, history>>

-----------------------------------------------------------------------------
(* The agent: the poll thread (poll_loop, network.poll, execute_command). *)

\* Bug: only a command whose status is still Queued is handed out.
PollReadQueued ==
  /\ Alive /\ poller.pc = "idle" /\ pending # 0 /\ pipeline = "Queued"
  /\ poller' = [pc |-> "asking", cmd |-> pending]
  /\ fetched' = fetched \cup {pending}
  /\ UNCHANGED <<master, writing, late, last, marker, queue, worker, main,
                 faults, posted, accepted, finished>>

\* PollHandler reads the row.  (A poll that finds no command changes nothing.)
PollRead ==
  /\ Alive /\ poller.pc = "idle" /\ pending # 0
  /\ poller' = [pc |-> "asking", cmd |-> pending]
  /\ fetched' = fetched \cup {pending}
  /\ UNCHANGED <<master, writing, late, last, marker, queue, worker, main,
                 faults, posted, accepted, finished>>

\* PollHandler writes the status and answers; the command stays in the row.
PollAnswered ==
  /\ poller.pc = "asking"
  /\ \/ pipeline' = "Fetched" /\ UNCHANGED faults
     \/ Fault /\ UNCHANGED pipeline
  /\ poller' = [poller EXCEPT !.pc = "compare"]
  /\ UNCHANGED <<pending, ops, writing, late, last, marker, queue, worker, main,
                 history>>

\* The answer is lost, or comes after the agent's timeout.
PollFailed ==
  /\ poller.pc = "asking" /\ Fault
  /\ \/ UNCHANGED late
     \/ late = Nothing /\ late' = [todo |-> "status", status |-> "Fetched"]
  /\ poller' = IdlePoller
  /\ UNCHANGED <<master, writing, last, marker, queue, worker, main, history>>

\* "Command already processed, skipping duplicate delivery": no report.
SkipDuplicate ==
  /\ poller.pc = "compare" /\ last # 0 /\ SameText(poller.cmd, last)
  /\ poller' = IdlePoller
  /\ UNCHANGED <<master, writing, late, last, marker, queue, worker, main,
                 faults, history>>

\* Bug: the comparison key is not kept.
RememberNothing ==
  /\ poller.pc = "compare" /\ ~(last # 0 /\ SameText(poller.cmd, last))
  /\ poller' = [poller EXCEPT !.pc = "save"]
  /\ UNCHANGED <<master, writing, late, last, marker, queue, worker, main, faults,
                 history>>

RememberInMemory ==
  /\ poller.pc = "compare" /\ ~(last # 0 /\ SameText(poller.cmd, last))
  /\ last' = poller.cmd
  /\ poller' = [poller EXCEPT !.pc = "save"]
  /\ UNCHANGED <<master, writing, late, marker, queue, worker, main, faults,
                 history>>

\* _save_last_command: open(..., "w") empties the file, then it is written.
EmptyMarker ==
  /\ poller.pc = "save"
  /\ marker' = 0
  /\ poller' = [poller EXCEPT !.pc = "write"]
  /\ UNCHANGED <<master, writing, late, last, queue, worker, main, faults,
                 history>>

\* Bug: the key does not reach the disk.
SaveNothing ==
  /\ poller.pc = "write"
  /\ poller' = [poller EXCEPT !.pc = "dispatch"]
  /\ UNCHANGED <<master, writing, late, last, marker, queue, worker, main, faults,
                 history>>

SaveLastCommand ==
  /\ poller.pc = "write"
  /\ marker' = poller.cmd
  /\ poller' = [poller EXCEPT !.pc = "dispatch"]
  /\ UNCHANGED <<master, writing, late, last, queue, worker, main, faults,
                 history>>

\* get_logs is answered in the poll thread, the rest goes to the worker.
\* The count saturates at 2: "more than once" is all that matters.
Accept == accepted' = [accepted EXCEPT ![poller.cmd] = IF @ < 2 THEN @ + 1 ELSE 2]

AnswerLogs ==
  /\ poller.pc = "dispatch" /\ Text(poller.cmd) \in LogFetches
  /\ Accept /\ finished' = finished \cup {poller.cmd}
  /\ Report("poll", "none")
  /\ poller' = IdlePoller
  /\ UNCHANGED <<last, marker, queue, worker, main, posted, fetched>>

\* Bug: the newest command goes first.
EnqueueInFront ==
  /\ poller.pc = "dispatch" /\ Text(poller.cmd) \notin LogFetches
  /\ Accept
  /\ queue' = <<poller.cmd>> \o queue
  /\ poller' = IdlePoller
  /\ UNCHANGED <<master, writing, late, last, marker, worker, main, faults,
                 posted, fetched, finished>>

Enqueue ==
  /\ poller.pc = "dispatch" /\ Text(poller.cmd) \notin LogFetches
  /\ Accept
  /\ queue' = Append(queue, poller.cmd)
  /\ poller' = IdlePoller
  /\ UNCHANGED <<master, writing, late, last, marker, worker, main, faults,
                 posted, fetched, finished>>

PollThread == \/ PollRead \/ PollAnswered \/ SkipDuplicate \/ RememberInMemory
              \/ EmptyMarker \/ SaveLastCommand \/ AnswerLogs \/ Enqueue

-----------------------------------------------------------------------------
(* The agent: the worker thread (_worker_loop). *)

\* Bug: a stack instead of a queue.
WorkerTakesLast ==
  /\ worker.pc \in {"idle", "rescued"} /\ writing["worker"] = "none"
  /\ queue # <<>>
  /\ worker' = [pc |-> "run", job |-> queue[Len(queue)]]
  /\ queue' = SubSeq(queue, 1, Len(queue) - 1)
  /\ UNCHANGED <<master, writing, late, last, marker, poller, main, faults,
                 history>>

WorkerTake ==
  /\ worker.pc \in {"idle", "rescued"} /\ writing["worker"] = "none"
  /\ queue # <<>>
  /\ worker' = [pc |-> IF Text(Head(queue)) \in Updates THEN "forget" ELSE "run",
                job |-> Head(queue)]
  /\ queue' = Tail(queue)
  /\ UNCHANGED <<master, writing, late, last, marker, poller, main, faults,
                 history>>

\* OTA: "Clear the last-command marker BEFORE the update", memory then disk.
ForgetInMemory ==
  /\ worker.pc = "forget"
  /\ last' = 0
  /\ worker' = [worker EXCEPT !.pc = "remove"]
  /\ UNCHANGED <<master, writing, late, marker, poller, queue, main, faults,
                 history>>

RemoveMarker ==
  /\ worker.pc = "remove"
  /\ marker' = 0
  /\ worker' = [worker EXCEPT !.pc = "run"]
  /\ UNCHANGED <<master, writing, late, last, poller, queue, main, faults,
                 history>>

\* A report in the middle of an action; how many there are is left open.
ReportProgress ==
  /\ worker.pc = "run" /\ Text(worker.job) \in Progressing
  /\ \E status \in {"Fetched", "Reported"} : Report("worker", status)
  /\ \/ UNCHANGED worker
     \/ /\ Raised /\ Text(worker.job) \notin Updates
        /\ worker' = [worker EXCEPT !.pc = "error"]
  /\ UNCHANGED <<last, marker, poller, queue, main, history>>

\* The last report: the work is over.  Only an OTA that succeeded restarts the
\* process, only "terminate" ends it.
ReportOutcome ==
  /\ worker.pc = "run"
  /\ \E status \in Outcomes(worker.job) : Report("worker", status)
  /\ \/ Text(worker.job) \notin Terminations /\ worker' = IdleWorker
     \/ Text(worker.job) \in Updates /\ worker' = [worker EXCEPT !.pc = "restart"]
     \/ Text(worker.job) \in Terminations /\ worker' = [worker EXCEPT !.pc = "wipe"]
     \/ Raised /\ worker' = [worker EXCEPT !.pc = "error"]
  /\ finished' = finished \cup ({worker.job} \ {0})
  /\ UNCHANGED <<last, marker, poller, queue, main, posted, fetched, accepted>>

\* The exception handler of _worker_loop.
ReportError ==
  /\ worker.pc = "error"
  /\ Report("worker", "Reported")
  /\ \/ worker' = Rescued
     \/ Raised /\ worker' = DeadWorker
  /\ finished' = finished \cup ({worker.job} \ {0})
  /\ UNCHANGED <<last, marker, poller, queue, main, posted, fetched, accepted>>

\* _graceful_restart: SIGTERM to the own process; the thread does no more.
SignalRestart ==
  /\ worker.pc = "restart" /\ writing["worker"] = "none" /\ ~main.stop
  /\ main' = [main EXCEPT !.stop = TRUE]
  /\ UNCHANGED <<master, writing, late, last, marker, poller, queue, worker,
                 faults, history>>

Worker == \/ WorkerTake \/ ForgetInMemory \/ RemoveMarker
          \/ ReportProgress \/ ReportOutcome \/ ReportError \/ SignalRestart

-----------------------------------------------------------------------------
(* The agent: the main thread, the end of the process and its restart. *)

\* The threads are started first, then main reports and queues "boot".  When
\* the report raises the process ends, and is restarted.
Register ==
  /\ main.pc = "starting"
  /\ Report("main", "Reported")
  /\ \/ main' = [main EXCEPT !.pc = "registering"]
     \/ Raised /\ main' = [main EXCEPT !.pc = "leaving"]
  /\ UNCHANGED <<last, marker, poller, queue, worker, history>>

EnqueueBoot ==
  /\ main.pc = "registering" /\ writing["main"] = "none"
  /\ queue' = Append(queue, 0)
  /\ main' = [main EXCEPT !.pc = "running"]
  /\ UNCHANGED <<master, writing, late, last, marker, poller, worker, faults,
                 history>>

\* docker stop / docker restart of the agent's container.
Sigterm ==
  /\ Alive /\ ~main.stop /\ Fault
  /\ main' = [main EXCEPT !.stop = TRUE]
  /\ UNCHANGED <<master, writing, late, last, marker, poller, queue, worker,
                 history>>

ReportStopped ==
  /\ main.pc = "running" /\ main.stop
  /\ Report("main", "Reported")
  /\ main' = [main EXCEPT !.pc = "leaving"]
  /\ UNCHANGED <<last, marker, poller, queue, worker, history>>

\* The requests of a process that ends: lost, or one of them goes on.
AbandonRequests ==
  /\ writing' = [r \in Reporters |-> "none"]
  /\ \/ UNCHANGED late
     \/ late = Nothing
        /\ \/ \E r \in Reporters :
                /\ writing[r] # "none"
                /\ late' = [todo |-> "status", status |-> writing[r]]
           \/ /\ poller.pc = "asking"
              /\ late' = [todo |-> "status", status |-> "Fetched"]

\* Bug: _last_command starts as None in every process.
NewProcessForgets ==
  /\ last' = 0
  /\ poller' = IdlePoller /\ queue' = <<>> /\ worker' = IdleWorker
  /\ main' = Starting
  /\ AbandonRequests
  /\ UNCHANGED <<master, marker, history>>

\* A new process: memory is lost, _last_command comes from the file.
NewProcess ==
  /\ last' = marker
  /\ poller' = IdlePoller /\ queue' = <<>> /\ worker' = IdleWorker
  /\ main' = Starting
  /\ AbandonRequests
  /\ UNCHANGED <<master, marker, history>>

\* Docker starts the container again after an exit or a crash.
Restart ==
  /\ main.pc = "leaving" /\ writing["main"] = "none"
  /\ NewProcess /\ UNCHANGED faults

Crash == Alive /\ Fault /\ NewProcess

\* _terminate: after its report the configuration directory is wiped and the
\* agent's own container removed.
SelfDestruct ==
  /\ worker.pc = "wipe" /\ writing["worker"] = "none"
  /\ last' = 0 /\ marker' = 0
  /\ poller' = IdlePoller /\ queue' = <<>> /\ worker' = IdleWorker
  /\ main' = Gone
  /\ AbandonRequests
  /\ UNCHANGED <<master, faults, history>>

MainThread == Register \/ EnqueueBoot \/ ReportStopped \/ Restart

-----------------------------------------------------------------------------
Next ==
  \/ OperatorStep
  \/ \E r \in Reporters : ReportStatus(r)
  \/ LateClear \/ LateStatus
  \/ \E b \in Bystanders : BystanderReport(b)
  \/ PollThread \/ PollFailed
  \/ Worker \/ SelfDestruct
  \/ MainThread \/ Sigterm \/ Crash

Spec == Init /\ [][Next]_vars

\* Threads and handlers keep running: every wait in the code has a timeout
\* (10 s per request), every sleep is finite, goroutines and threads are
\* scheduled, polling is on (auto_update).  An action sends finitely many
\* reports, so its last one is not put off forever by the ones before.
\* Nothing is assumed of operators, bystanders, late requests and faults.
Fairness ==
  /\ \A r \in Reporters : WF_vars(ReportStatus(r))
  /\ WF_vars(PollThread)
  /\ WF_vars(WorkerTake \/ ForgetInMemory \/ RemoveMarker \/ ReportError
              \/ SignalRestart \/ SelfDestruct)
  /\ SF_vars(ReportOutcome)
  /\ WF_vars(MainThread)

FairSpec == Spec /\ Fairness

-----------------------------------------------------------------------------
(* Properties. *)

\* Type invariant: what every variable may hold.
Numbers == 0..MaxCmds
TypeOK ==
  /\ posted \in Seq(Texts) /\ Len(posted) <= MaxCmds
  /\ pending \in Numbers
  /\ pipeline \in Statuses \ {"none"}
  /\ ops \in [Operators -> {"idle", "queued", "cleared", "logs"}]
  /\ writing \in [Reporters -> Statuses]
  /\ late \in [todo : {"none", "clear", "status"}, status : Statuses]
  /\ late.todo = "status" => late.status # "none"
  /\ last \in Numbers /\ marker \in Numbers
  /\ poller \in [pc : {"idle", "asking", "compare", "save", "write",
                       "dispatch"}, cmd : Numbers]
  /\ queue \in Seq(Numbers)
  /\ worker \in [pc : {"idle", "forget", "remove", "run", "restart", "wipe",
                        "error", "rescued", "dead"},
                 job : Numbers]
  /\ main \in [pc : {"starting", "registering", "running", "leaving", "gone"},
               stop : BOOLEAN]
  /\ faults \in 0..MaxFaults
  /\ fetched \subseteq Instances /\ finished \subseteq Instances
  /\ accepted \in [Instances -> 0..2]

\* A command is handed over for execution at most once, however often the
\* master delivers it and wherever the agent crashes (main.py, on the file
\* .last_command).  Holds as long as no OTA command is queued.
AtMostOnce == \A i \in Instances : accepted[i] <= 1

\* A command that may be delivered again after it was handed over is
\* recognised, by the running process and by the one after a restart.
Deliverable(i) == pending = i \/ (poller.pc \in {"asking", "compare"} /\ poller.cmd = i)
RedeliveryRecognised ==
  \A i \in Instances :
    Alive /\ accepted[i] > 0 /\ Deliverable(i) => last = i /\ marker = i

\* Why: the row and the poll thread never hold an older command than one that
\* was handed over, and a command is remembered, in memory and on disk, before
\* it is handed over.  Inductive, for the proofs.
Ahead ==
  \A i \in Instances : accepted[i] > 0 =>
    /\ i <= Len(posted)
    /\ pending = 0 \/ i <= pending
    /\ poller.pc = "idle" \/ i <= poller.cmd
Carried ==
  /\ pending <= Len(posted)
  /\ poller.pc # "idle" => /\ Alive /\ poller.cmd \in 1..Len(posted)
                           /\ pending = 0 \/ poller.cmd <= pending
Remembered ==
  /\ poller.pc \in {"save", "write", "dispatch"} =>
       last = poller.cmd /\ accepted[poller.cmd] = 0
  /\ poller.pc = "dispatch" => marker = poller.cmd
Delivery ==
  /\ Ahead /\ Carried /\ Remembered
  /\ worker.pc \notin {"forget", "remove"}
  /\ AtMostOnce /\ RedeliveryRecognised

\* The agent works on commands in the order the operators queued them: an
\* older command never comes after a newer one, not even with timeouts,
\* restarts and redeliveries.  (The boot action, 0, is not a command.)
Before(i, j) == i = 0 \/ j = 0 \/ i <= j
Lined ==
  /\ \A j, k \in 1..Len(queue) : j < k => Before(queue[j], queue[k])
  /\ \A k \in 1..Len(queue) : Before(worker.job, queue[k])
Newest ==
  poller.pc = "dispatch" => /\ \A k \in 1..Len(queue) : queue[k] <= poller.cmd
                            /\ worker.job <= poller.cmd
InOrder == Lined /\ Newest

\* Why: whatever the agent holds was handed over.  Inductive with Ahead and
\* Carried, with or without OTA commands.
HandedOver(i) == i = 0 \/ accepted[i] > 0
Queued ==
  /\ \A k \in 1..Len(queue) : HandedOver(queue[k])
  /\ HandedOver(worker.job)

\* How far command i is, in the words of CommandLifecycle.
Held(i) == \/ worker.job = i
           \/ \E k \in 1..Len(queue) : queue[k] = i
Phase(i) ==
  CASE i > Len(posted)                                        -> "new"
    [] i \in finished                                         -> "done"
    [] i <= Len(posted) /\ i \notin finished /\ accepted[i] > 0 ->
         IF Held(i) THEN "running" ELSE "lost"
    [] OTHER ->
         IF i \in fetched
         THEN IF pending = i \/ (poller.pc # "idle" /\ poller.cmd = i)
              THEN "offered" ELSE "lost"
         ELSE IF pending = i THEN "queued" ELSE "lost"

Lifecycle == INSTANCE CommandLifecycle
               WITH phase <- [i \in Instances |-> Phase(i)]

\* Without OTA commands the pipeline keeps the promises of CommandLifecycle:
\* nothing runs twice, nothing runs out of order, nothing comes back.
KeepsPromises == Lifecycle!Spec

\* A queued command is read by a poll unless an operator or a report removes
\* it first or the node is terminated: the agent's polling never wedges,
\* whatever requests are lost and however often it is restarted.
EveryCommandPolled ==
  \A i \in Instances :
    (pending = i) ~> (i \in fetched \/ pending # i \/ ~Alive)

\* The agent comes to rest: an OTA command, whose marker is removed before it
\* runs, does not restart the agent for ever, because the reports clear the
\* row (ReportHandler: "prevents infinite restart loop").
\* Or the worker thread ended: nobody takes from the queue any more.
ComesToRest ==
  <>[] \/ queue = <<>> /\ worker.pc \in {"idle", "rescued"}
       \/ worker.pc = "dead"
=============================================================================
