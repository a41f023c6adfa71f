------------------------- MODULE CommandQueueProofs -------------------------
(***************************************************************************)
(* Theorems about CommandQueue, for every value of its constants: its type *)
(* invariant, the order in which commands are worked on, and, when no OTA  *)
(* commands are queued, that a command is handed over at most once and its *)
(* redeliveries are recognised.                                            *)
(***************************************************************************)
EXTENDS CommandQueue, TLAPS

-----------------------------------------------------------------------------
(* Type correctness. *)

LEMMA TypeInit == Init => TypeOK
BY BoundsAssumption
   DEF BoundsAssumption, Init, TypeOK, Numbers, Instances, Statuses, Nothing,
       IdlePoller, IdleWorker, Starting

\* The handlers of operators and auto-sync.
LEMMA TypeOperator ==
  ASSUME TypeOK, OperatorStep
  PROVE  TypeOK'
<1> USE BoundsAssumption
    DEF BoundsAssumption, TypeOK, Numbers, Instances, Statuses, Texts,
        master, process, agent, history
<1>1. ASSUME NEW o \in Operators, QueueCommand(o) PROVE TypeOK'
  BY <1>1 DEF QueueCommand, SetPendingCommand
<1>2. CASE QueueOnly
  BY <1>2 DEF QueueOnly, SetPendingCommand
<1>3. ASSUME NEW o \in Operators, ClearCommand(o) PROVE TypeOK'
  BY <1>3 DEF ClearCommand
<1>4. ASSUME NEW o \in Operators, FinishOp(o) PROVE TypeOK'
  BY <1>4 DEF FinishOp, Fault
<1>5. ASSUME NEW o \in Operators, CheckBeforeLogs(o) PROVE TypeOK'
  BY <1>5 DEF CheckBeforeLogs
<1>6. ASSUME NEW o \in Operators, QueueLogs(o) PROVE TypeOK'
  BY <1>6 DEF QueueLogs, SetPendingCommand
<1> QED
  BY <1>1, <1>2, <1>3, <1>4, <1>5, <1>6 DEF OperatorStep

\* What a report may change of the variables that its sender leaves alone.
LEMMA TypeReport ==
  ASSUME TypeOK, NEW t \in Reporters, NEW status \in Statuses, Report(t, status)
  PROVE  /\ pending' \in Numbers /\ (pending' = 0 \/ pending' = pending)
         /\ pipeline' = pipeline /\ ops' = ops
         /\ writing' \in [Reporters -> Statuses]
         /\ late' \in [todo : {"none", "clear", "status"}, status : Statuses]
         /\ late'.todo = "status" => late'.status # "none"
         /\ faults' \in 0..MaxFaults
<1>1. /\ pending' \in Numbers /\ (pending' = 0 \/ pending' = pending)
      /\ pipeline' = pipeline /\ ops' = ops
  BY BoundsAssumption DEF BoundsAssumption, TypeOK, Numbers, Report
<1>2. faults' \in 0..MaxFaults
  BY BoundsAssumption DEF BoundsAssumption, TypeOK, Report, Fault
<1>3. writing' \in [Reporters -> Statuses]
  BY DEF TypeOK, Report
<1>4. CASE late' = late
  BY <1>1, <1>2, <1>3, <1>4 DEF TypeOK
<1>5. CASE late' = [todo |-> "clear", status |-> status]
  BY <1>1, <1>2, <1>3, <1>5
<1> QED
  BY <1>4, <1>5 DEF Report

\* ReportHandler's remaining statements and the watchdog.
LEMMA TypeReports ==
  ASSUME TypeOK,
         \/ \E r \in Reporters : ReportStatus(r)
         \/ LateClear \/ LateStatus
         \/ \E b \in Bystanders : BystanderReport(b)
  PROVE  TypeOK'
<1> USE BoundsAssumption
    DEF BoundsAssumption, TypeOK, Numbers, Instances,
        master, process, agent, history
<1>1. ASSUME NEW r \in Reporters, ReportStatus(r) PROVE TypeOK'
  <2>1. CASE GivesUp(r)
    <3>1. worker' \in [pc : {"idle", "forget", "remove", "run", "restart", "wipe",
                           "error", "rescued", "dead"}, job : Numbers]
      BY SMTT(30), <2>1 DEF GivesUp, DeadWorker
    <3>2. main' \in [pc : {"starting", "registering", "running", "leaving",
                         "gone"}, stop : BOOLEAN]
      BY <2>1 DEF GivesUp
    <3> QED
      BY <1>1, <3>1, <3>2 DEF ReportStatus, Fault, Statuses
  <2>2. CASE UNCHANGED <<worker, main>>
    BY <1>1, <2>2 DEF ReportStatus, Fault, Statuses
  <2> QED
    BY <1>1, <2>1, <2>2 DEF ReportStatus
<1>2. CASE LateClear
  BY <1>2 DEF LateClear, Nothing, Statuses
<1>3. CASE LateStatus
  BY <1>3 DEF LateStatus, Nothing, Statuses
<1>4. ASSUME NEW b \in Bystanders, BystanderReport(b) PROVE TypeOK'
  <2>1. PICK status \in Statuses : Report(b, status)
    BY <1>4 DEF BystanderReport, Statuses
  <2>2. b \in Reporters
    BY DEF Reporters
  <2> QED
    BY <1>4, <2>1, <2>2, TypeReport DEF BystanderReport
<1> QED
  BY <1>1, <1>2, <1>3, <1>4

\* The poll thread.
LEMMA TypePoll ==
  ASSUME TypeOK, PollThread \/ PollFailed
  PROVE  TypeOK'
<1> USE BoundsAssumption
    DEF BoundsAssumption, TypeOK, Numbers, Instances,
        master, process, agent, history
<1>1. CASE PollRead
  BY <1>1 DEF PollRead
<1>2. CASE PollAnswered
  <2>1. poller' \in [pc : {"idle", "asking", "compare", "save", "write",
                             "dispatch"}, cmd : Numbers]
    BY <1>2 DEF PollAnswered
  <2> QED
    BY SMTT(30), <1>2, <2>1 DEF PollAnswered, Fault, Statuses
<1>3. CASE PollFailed
  BY <1>3 DEF PollFailed, Fault, Statuses, IdlePoller
<1>4. CASE SkipDuplicate
  BY <1>4 DEF SkipDuplicate, IdlePoller
<1>5. CASE RememberInMemory
  BY <1>5 DEF RememberInMemory
<1>6. CASE EmptyMarker
  <2>1. poller' \in [pc : {"idle", "asking", "compare", "save", "write",
                             "dispatch"}, cmd : Numbers]
    BY <1>6 DEF EmptyMarker
  <2> QED
    BY <1>6, <2>1 DEF EmptyMarker
<1>7. CASE SaveLastCommand
  BY <1>7 DEF SaveLastCommand
<1>8. ASSUME Accept PROVE accepted' \in [Instances -> 0..2]
  <2>1. CASE poller.cmd \in Instances
    <3>1. accepted[poller.cmd] \in 0..2
      BY <2>1
    <3> QED
      BY <1>8, <2>1, <3>1 DEF Accept
  <2>2. CASE poller.cmd \notin Instances
    BY <1>8, <2>2 DEF Accept
  <2> QED
    BY <2>1, <2>2
<1>9. CASE AnswerLogs
  <2>1. Report("poll", "none") /\ "poll" \in Reporters /\ "none" \in Statuses
    BY <1>9 DEF AnswerLogs, Reporters, Statuses
  <2>2. accepted' \in [Instances -> 0..2]
    BY <1>8, <1>9 DEF AnswerLogs
  <2>3. poller' \in [pc : {"idle", "asking", "compare", "save", "write",
                          "dispatch"}, cmd : Numbers]
    BY <1>9 DEF AnswerLogs, IdlePoller
  <2>4. finished' \subseteq Instances
    <3>1. poller.cmd # 0
      BY <1>9, TextsAssumption DEF AnswerLogs, Text, Texts, TextsAssumption
    <3>2. poller.cmd \in Instances
      BY <3>1
    <3> QED
      BY <1>9, <3>2 DEF AnswerLogs
  <2> QED
    BY <1>9, <2>1, <2>2, <2>3, <2>4, TypeReport DEF AnswerLogs
<1>10. CASE Enqueue
  BY <1>10, <1>8 DEF Enqueue, IdlePoller
<1> QED
  BY <1>1, <1>2, <1>3, <1>4, <1>5, <1>6, <1>7, <1>9, <1>10 DEF PollThread

\* The worker thread.
LEMMA TypeWorker ==
  ASSUME TypeOK, Worker
  PROVE  TypeOK'
<1> USE BoundsAssumption
    DEF BoundsAssumption, TypeOK, Numbers, Instances,
        master, process, agent, history
<1>1. CASE WorkerTake
  <2>1. Head(queue) \in Numbers /\ queue' \in Seq(Numbers)
    BY <1>1 DEF WorkerTake
  <2>2. worker' \in [pc : {"idle", "forget", "remove", "run", "restart", "wipe",
                           "error", "rescued", "dead"}, job : Numbers]
    BY <1>1, <2>1 DEF WorkerTake
  <2> QED
    BY <1>1, <2>1, <2>2 DEF WorkerTake
<1>2. CASE ForgetInMemory
  <2>1. worker' \in [pc : {"idle", "forget", "remove", "run", "restart", "wipe",
                           "error", "rescued", "dead"}, job : Numbers]
    BY <1>2 DEF ForgetInMemory
  <2> QED
    BY <1>2, <2>1 DEF ForgetInMemory
<1>3. CASE RemoveMarker
  <2>1. worker' \in [pc : {"idle", "forget", "remove", "run", "restart", "wipe",
                           "error", "rescued", "dead"}, job : Numbers]
    BY <1>3 DEF RemoveMarker
  <2> QED
    BY <1>3, <2>1 DEF RemoveMarker
<1>4. CASE ReportProgress
  <2>1. PICK status \in Statuses : Report("worker", status)
    BY <1>4 DEF ReportProgress, Statuses
  <2>2. "worker" \in Reporters
    BY DEF Reporters
  <2>3. worker' \in [pc : {"idle", "forget", "remove", "run", "restart", "wipe",
                           "error", "rescued", "dead"}, job : Numbers]
    BY <1>4 DEF ReportProgress
  <2> QED
    BY <1>4, <2>1, <2>2, <2>3, TypeReport DEF ReportProgress
<1>5. CASE ReportOutcome
  <2>1. PICK status \in Statuses : Report("worker", status)
    BY <1>5 DEF ReportOutcome, Outcomes, Statuses
  <2>2. "worker" \in Reporters
    BY DEF Reporters
  <2>3. worker' \in [pc : {"idle", "forget", "remove", "run", "restart", "wipe",
                           "error", "rescued", "dead"}, job : Numbers]
    BY <1>5 DEF ReportOutcome, IdleWorker
  <2> QED
    BY SMTT(30), <1>5, <2>1, <2>2, <2>3, TypeReport DEF ReportOutcome
<1>6. CASE SignalRestart
  BY <1>6 DEF SignalRestart
<1>7. CASE ReportError
  <2>1. Report("worker", "Reported") /\ "worker" \in Reporters /\ "Reported" \in Statuses
    BY <1>7 DEF ReportError, Reporters, Statuses
  <2>2. worker' \in [pc : {"idle", "forget", "remove", "run", "restart", "wipe",
                           "error", "rescued", "dead"}, job : Numbers]
    BY <1>7 DEF ReportError, Rescued, DeadWorker
  <2>3. finished' \subseteq Instances
    <3>1. finished' = finished \cup ({worker.job} \ {0})
      BY <1>7 DEF ReportError
    <3>2. worker.job \in 0..MaxCmds /\ finished \subseteq 1..MaxCmds
      OBVIOUS
    <3>3. worker.job # 0 => worker.job \in 1..MaxCmds
      BY <3>2
    <3> QED
      BY <3>1, <3>2, <3>3
  <2>4. /\ pending' \in Numbers /\ pipeline' = pipeline /\ ops' = ops
        /\ writing' \in [Reporters -> Statuses]
        /\ late' \in [todo : {"none", "clear", "status"}, status : Statuses]
        /\ late'.todo = "status" => late'.status # "none"
        /\ faults' \in 0..MaxFaults
    BY <2>1, TypeReport
  <2>5. UNCHANGED <<last, marker, poller, queue, main, posted, fetched, accepted>>
    BY <1>7 DEF ReportError
  <2> QED
    BY <2>2, <2>3, <2>4, <2>5
<1> QED
  BY <1>1, <1>2, <1>3, <1>4, <1>5, <1>6, <1>7 DEF Worker

\* The main thread, the end of the process and its restart.
LEMMA TypeProcess ==
  ASSUME TypeOK, MainThread \/ Sigterm \/ Crash \/ SelfDestruct
  PROVE  TypeOK'
<1> USE BoundsAssumption
    DEF BoundsAssumption, TypeOK, Numbers, Instances,
        master, process, agent, history
<1>1. ASSUME AbandonRequests
      PROVE  /\ writing' \in [Reporters -> Statuses]
             /\ late' \in [todo : {"none", "clear", "status"}, status : Statuses]
             /\ late'.todo = "status" => late'.status # "none"
  BY <1>1 DEF AbandonRequests, Statuses
<1>2. "main" \in Reporters /\ "Reported" \in Statuses
  BY DEF Reporters, Statuses
<1>3. CASE Register
  <2>1. main' \in [pc : {"starting", "registering", "running", "leaving",
                           "gone"}, stop : BOOLEAN]
    BY <1>3 DEF Register
  <2> QED
    BY <1>2, <1>3, <2>1, TypeReport DEF Register
<1>4. CASE EnqueueBoot
  <2>1. main' \in [pc : {"starting", "registering", "running", "leaving",
                           "gone"}, stop : BOOLEAN]
    BY <1>4 DEF EnqueueBoot
  <2>2. queue' \in Seq(Numbers)
    BY <1>4 DEF EnqueueBoot
  <2> QED
    BY <1>4, <2>1, <2>2 DEF EnqueueBoot
<1>5. CASE ReportStopped
  BY <1>2, <1>5, TypeReport DEF ReportStopped
<1>6. CASE Restart
  BY <1>1, <1>6 DEF Restart, NewProcess, IdlePoller, IdleWorker, Starting
<1>7. CASE Sigterm
  <2>1. main' \in [pc : {"starting", "registering", "running", "leaving",
                           "gone"}, stop : BOOLEAN]
    BY <1>7 DEF Sigterm
  <2> QED
    BY <1>7, <2>1 DEF Sigterm, Fault
<1>8. CASE Crash
  BY <1>1, <1>8 DEF Crash, Fault, NewProcess, IdlePoller, IdleWorker, Starting
<1>9. CASE SelfDestruct
  BY <1>1, <1>9 DEF SelfDestruct, IdlePoller, IdleWorker, Gone
<1> QED
  BY <1>3, <1>4, <1>5, <1>6, <1>7, <1>8, <1>9 DEF MainThread

\* A sender that gives up is not gone.
LEMMA StatusKeepsAlive ==
  ASSUME TypeOK, NEW r \in Reporters, ReportStatus(r)
  PROVE  Alive' = Alive
BY DEF TypeOK, ReportStatus, GivesUp, Alive

LEMMA TypeStep == TypeOK /\ [Next]_vars => TypeOK'
<1> SUFFICES ASSUME TypeOK, [Next]_vars PROVE TypeOK'
  OBVIOUS
<1>1. CASE UNCHANGED vars
  BY <1>1 DEF TypeOK, vars, master, process, agent, history
<1>2. CASE Next
  BY <1>2, TypeOperator, TypeReports, TypePoll, TypeWorker, TypeProcess DEF Next
<1> QED
  BY <1>1, <1>2

\* Every variable keeps to its type, whatever the texts, the number of
\* operators and the bounds.
THEOREM TypeCorrect == Spec => []TypeOK
<1> QED
  BY TypeInit, TypeStep, PTL DEF Spec

-----------------------------------------------------------------------------
(* Delivery: at most once, and redeliveries recognised. *)

LEMMA DeliveryInit == Init => Delivery
BY BoundsAssumption
   DEF BoundsAssumption, Init, Delivery, Ahead, Carried, Remembered, AtMostOnce,
       RedeliveryRecognised, Deliverable, Instances, IdlePoller, IdleWorker

\* Steps that leave the agent's memory, its poll thread and the list of
\* commands alone, and at most clear the row.
LEMMA DeliveryRow ==
  ASSUME TypeOK, Delivery, pending' = pending \/ pending' = 0,
         UNCHANGED <<posted, accepted, last, marker, poller>>,
         worker'.pc \notin {"forget", "remove"}, Alive' = Alive
  PROVE  Delivery'
BY DEF TypeOK, Delivery, Ahead, Carried, Remembered, AtMostOnce, Numbers,
       RedeliveryRecognised, Deliverable, Instances

\* A new command is newer than all that were handed over.
LEMMA DeliveryPost ==
  ASSUME TypeOK, Delivery, NEW t \in Texts, SetPendingCommand(t),
         UNCHANGED <<accepted, agent>>
  PROVE  Delivery'
<1>1. posted' = Append(posted, t) /\ Len(posted') = Len(posted) + 1
      /\ Len(posted) \in Nat /\ pending' = Len(posted) + 1
  BY DEF SetPendingCommand, TypeOK
<1>2. UNCHANGED <<accepted, last, marker, poller, worker, main>>
  BY DEF agent, process
<1>3. Ahead' /\ Carried'
  BY <1>1, <1>2 DEF TypeOK, Delivery, Ahead, Carried, Numbers, Instances, Alive
<1>4. Remembered' /\ AtMostOnce' /\ worker'.pc \notin {"forget", "remove"}
  BY <1>2 DEF Delivery, Remembered, AtMostOnce
<1>5. RedeliveryRecognised'
  BY <1>1, <1>2 DEF TypeOK, Delivery, Ahead, RedeliveryRecognised, Deliverable,
                    Numbers, Instances, Alive
<1> QED
  BY <1>3, <1>4, <1>5 DEF Delivery

\* A process that starts reads the marker, which is what it has to remember.
LEMMA DeliveryNewProcess ==
  ASSUME TypeOK, Delivery, Alive, NewProcess
  PROVE  Delivery'
<1>1. /\ last' = marker /\ marker' = marker /\ poller' = IdlePoller
      /\ worker' = IdleWorker /\ UNCHANGED <<pending, posted, accepted>>
  BY DEF NewProcess, master, history
<1>2. Ahead' /\ Carried' /\ Remembered' /\ AtMostOnce'
      /\ worker'.pc \notin {"forget", "remove"}
  BY <1>1 DEF Delivery, Ahead, Carried, Remembered, AtMostOnce, IdlePoller, IdleWorker
<1>3. RedeliveryRecognised'
  BY <1>1 DEF Delivery, RedeliveryRecognised, Deliverable, IdlePoller, Alive
<1> QED
  BY <1>2, <1>3 DEF Delivery

\* The poll thread.  A redelivery never gets past "compare", and what gets
\* past it is remembered before it is handed over.
LEMMA DeliveryPoll ==
  ASSUME TypeOK, Delivery, PollThread \/ PollFailed
  PROVE  Delivery'
<1> USE DEF Delivery, Ahead, Carried, Remembered, AtMostOnce,
            RedeliveryRecognised, Deliverable, Instances, Numbers,
            master, process, agent, history, Alive
<1>1. CASE PollRead
  BY <1>1 DEF PollRead, TypeOK
<1>2. CASE PollAnswered
  BY <1>2 DEF PollAnswered, TypeOK
<1>3. CASE PollFailed
  BY <1>3 DEF PollFailed, TypeOK, IdlePoller
<1>4. CASE SkipDuplicate
  BY <1>4 DEF SkipDuplicate, TypeOK, IdlePoller
<1>5. CASE RememberInMemory
  <2>1. poller.cmd \in 1..Len(posted) /\ poller.cmd \in Instances /\ main.pc # "gone"
    BY <1>5 DEF RememberInMemory, TypeOK
  <2>2. accepted[poller.cmd] = 0
    <3>1. SUFFICES ASSUME accepted[poller.cmd] # 0 PROVE FALSE
      OBVIOUS
    <3>2. accepted[poller.cmd] > 0
      BY <2>1, <3>1 DEF TypeOK
    <3>3. last = poller.cmd
      BY <1>5, <2>1, <3>2 DEF RememberInMemory
    <3> QED
      BY <1>5, <2>1, <3>3 DEF RememberInMemory, SameText
  <2>3. poller' = [poller EXCEPT !.pc = "save"] /\ last' = poller.cmd
        /\ UNCHANGED <<pending, posted, accepted, marker, worker, main>>
    BY <1>5 DEF RememberInMemory
  <2>4. poller'.pc = "save" /\ poller'.cmd = poller.cmd /\ poller.pc = "compare"
    BY <1>5, <2>3 DEF RememberInMemory, TypeOK
  <2>5. Ahead' /\ Carried' /\ Remembered' /\ AtMostOnce'
    BY <2>1, <2>2, <2>3, <2>4
  <2>6. RedeliveryRecognised'
    BY <2>1, <2>2, <2>3, <2>4 DEF TypeOK
  <2> QED
    BY <2>3, <2>5, <2>6
<1>6. CASE EmptyMarker
  BY <1>6 DEF EmptyMarker, TypeOK
<1>7. CASE SaveLastCommand
  BY <1>7 DEF SaveLastCommand, TypeOK
<1>8. CASE AnswerLogs
  BY <1>8 DEF AnswerLogs, Accept, Report, TypeOK, IdlePoller
<1>9. CASE Enqueue
  BY <1>9 DEF Enqueue, Accept, TypeOK, IdlePoller
<1> QED
  BY <1>1, <1>2, <1>3, <1>4, <1>5, <1>6, <1>7, <1>8, <1>9 DEF PollThread

\* The worker thread.  Without OTA commands it never removes the marker.
LEMMA DeliveryWorker ==
  ASSUME TypeOK, Delivery, Updates = {}, Worker
  PROVE  Delivery'
<1> USE DEF master, process, agent, history, Alive
<1>1. CASE WorkerTake
  BY <1>1, DeliveryRow DEF WorkerTake
<1>2. ~ForgetInMemory /\ ~RemoveMarker
  BY DEF Delivery, ForgetInMemory, RemoveMarker
<1>3. CASE ReportProgress
  <2>1. worker'.pc \notin {"forget", "remove"}
    BY <1>3 DEF ReportProgress, Delivery, TypeOK
  <2> QED
    BY <1>3, <2>1, DeliveryRow DEF ReportProgress, Report
<1>4. CASE ReportOutcome
  <2>1. worker'.pc \notin {"forget", "remove"}
    BY <1>4 DEF ReportOutcome, IdleWorker, TypeOK
  <2> QED
    BY <1>4, <2>1, DeliveryRow DEF ReportOutcome, Report
<1>5. CASE ReportError
  BY <1>5, DeliveryRow DEF ReportError, Report, Rescued, DeadWorker
<1>6. CASE SignalRestart
  BY <1>6, DeliveryRow DEF SignalRestart, Delivery
<1> QED
  BY <1>1, <1>2, <1>3, <1>4, <1>5, <1>6 DEF Worker

\* The main thread, the end of the process and its restart.
LEMMA DeliveryProcess ==
  ASSUME TypeOK, Delivery, MainThread \/ Sigterm \/ Crash \/ SelfDestruct
  PROVE  Delivery'
<1> USE DEF master, process, agent, history, Alive
<1>1. CASE Register
  BY <1>1, DeliveryRow DEF Register, Report, Delivery, TypeOK
<1>2. CASE EnqueueBoot
  BY <1>2, DeliveryRow DEF EnqueueBoot, Delivery, TypeOK
<1>3. CASE ReportStopped
  BY <1>3, DeliveryRow DEF ReportStopped, Report, Delivery, TypeOK
<1>4. CASE Restart
  BY <1>4, DeliveryNewProcess DEF Restart
<1>5. CASE Sigterm
  BY <1>5, DeliveryRow DEF Sigterm, Delivery, TypeOK
<1>6. CASE Crash
  BY <1>6, DeliveryNewProcess DEF Crash
<1>7. CASE SelfDestruct
  BY <1>7 DEF SelfDestruct, Delivery, Ahead, Carried, Remembered, AtMostOnce,
              RedeliveryRecognised, IdlePoller, IdleWorker, Gone
<1> QED
  BY <1>1, <1>2, <1>3, <1>4, <1>5, <1>6, <1>7 DEF MainThread

LEMMA DeliveryStep ==
  ASSUME Updates = {}
  PROVE  TypeOK /\ Delivery /\ [Next]_vars => Delivery'
<1> SUFFICES ASSUME TypeOK, Delivery, [Next]_vars PROVE Delivery'
  OBVIOUS
<1> USE DEF master, process, agent, history, Alive
<1>1. CASE UNCHANGED vars
  BY <1>1, DeliveryRow DEF vars, Delivery
<1>2. CASE OperatorStep
  <2>1. CASE \E t \in Texts : SetPendingCommand(t) /\ UNCHANGED <<accepted, agent>>
    BY <2>1, DeliveryPost
  <2>2. CASE /\ pending' = pending \/ pending' = 0
             /\ UNCHANGED <<agent, history>>
    BY <2>2, DeliveryRow DEF Delivery
  <2> QED
    BY <1>2, <2>1, <2>2
       DEF OperatorStep, QueueCommand, QueueOnly, QueueLogs, ClearCommand,
           FinishOp, CheckBeforeLogs, Texts
<1>3. CASE \/ LateClear \/ LateStatus
           \/ \E b \in Bystanders : BystanderReport(b)
  <2>1. (pending' = pending \/ pending' = 0) /\ UNCHANGED <<agent, history>>
    BY <1>3 DEF LateClear, LateStatus, BystanderReport, Report
  <2> QED
    BY <2>1, DeliveryRow DEF Delivery
<1>4. ASSUME NEW r \in Reporters, ReportStatus(r) PROVE Delivery'
  <2>1. worker'.pc \notin {"forget", "remove"}
    BY <1>4 DEF ReportStatus, GivesUp, Delivery, TypeOK, DeadWorker
  <2>2. Alive' = Alive
    BY <1>4, StatusKeepsAlive
  <2> QED
    BY <1>4, <2>1, <2>2, DeliveryRow DEF ReportStatus
<1> QED
  BY <1>1, <1>2, <1>3, <1>4, DeliveryPoll, DeliveryWorker, DeliveryProcess DEF Next

\* Without OTA commands the row and the poll thread never hold a command older
\* than one that was handed over, and what is handed over is in memory and on
\* disk before: the invariant behind the two theorems that follow.
THEOREM DeliveryCorrect == ASSUME Updates = {} PROVE Spec => []Delivery
<1>1. Init => TypeOK /\ Delivery
  BY TypeInit, DeliveryInit
<1>2. TypeOK /\ Delivery /\ [Next]_vars => (TypeOK /\ Delivery)'
  BY TypeStep, DeliveryStep
<1> QED
  BY <1>1, <1>2, PTL DEF Spec

\* Without OTA commands the agent hands a command over for execution at most
\* once, however often it is delivered, whichever requests and reports are
\* lost or late, and wherever the process crashes and restarts.
THEOREM AtMostOnceCorrect == ASSUME Updates = {} PROVE Spec => []AtMostOnce
<1>1. Delivery => AtMostOnce
  BY DEF Delivery
<1> QED
  BY <1>1, DeliveryCorrect, PTL

\* Without OTA commands memory and the marker on disk both hold a command that
\* was handed over for as long as the master may deliver it again.
THEOREM RedeliveryCorrect ==
  ASSUME Updates = {} PROVE Spec => []RedeliveryRecognised
<1>1. Delivery => RedeliveryRecognised
  BY DEF Delivery
<1> QED
  BY <1>1, DeliveryCorrect, PTL

-----------------------------------------------------------------------------
(* Order: commands are worked on in the order they were queued.  No         *)
(* assumption on Updates here.                                             *)

LEMMA OrderInit == Init => Ahead /\ Carried /\ Queued /\ Lined
BY BoundsAssumption
   DEF BoundsAssumption, Init, Ahead, Carried, Queued, Lined, HandedOver, Before,
       Instances,
       IdlePoller, IdleWorker

\* Steps that leave the row's command, the poll thread and the history of
\* hand-overs alone, or make the row or the poll thread empty.
LEMMA AheadKept ==
  ASSUME TypeOK, Ahead, Carried,
         pending' = pending \/ pending' = 0, UNCHANGED <<posted, accepted>>,
         \/ poller' = poller /\ Alive' = Alive
         \/ poller' = IdlePoller
  PROVE  Ahead' /\ Carried'
BY DEF TypeOK, Ahead, Carried, Numbers, Instances, IdlePoller

LEMMA AheadPost ==
  ASSUME TypeOK, Ahead, Carried, NEW t \in Texts, SetPendingCommand(t),
         UNCHANGED <<accepted, agent>>
  PROVE  Ahead' /\ Carried'
<1>1. /\ Len(posted) \in Nat /\ Len(posted') = Len(posted) + 1
      /\ pending' = Len(posted) + 1
  BY DEF SetPendingCommand, TypeOK
<1> QED
  BY <1>1 DEF TypeOK, Ahead, Carried, Numbers, Instances, Alive, agent, process

LEMMA AheadPoll ==
  ASSUME TypeOK, Ahead, Carried, PollThread \/ PollFailed
  PROVE  Ahead' /\ Carried'
<1> USE DEF master, process, agent, history, Alive
<1>1. CASE PollRead
  BY <1>1 DEF PollRead, TypeOK, Ahead, Carried, Numbers, Instances
<1>2. CASE PollFailed \/ SkipDuplicate
  BY <1>2, AheadKept DEF PollFailed, SkipDuplicate
<1>3. ASSUME NEW pc, poller' = [poller EXCEPT !.pc = pc], poller.pc # "idle",
             UNCHANGED <<pending, posted, accepted, main>>
      PROVE  Ahead' /\ Carried'
  BY <1>3 DEF TypeOK, Ahead, Carried, Numbers, Instances
<1>4. CASE PollAnswered \/ RememberInMemory \/ EmptyMarker \/ SaveLastCommand
  BY <1>4, <1>3
     DEF PollAnswered, RememberInMemory, EmptyMarker, SaveLastCommand
<1>5. CASE AnswerLogs \/ Enqueue
  <2>1. /\ poller' = IdlePoller /\ poller.pc = "dispatch" /\ Accept
        /\ (pending' = pending \/ pending' = 0) /\ UNCHANGED posted
    BY <1>5 DEF AnswerLogs, Enqueue, Report
  <2> QED
    BY <2>1 DEF TypeOK, Ahead, Carried, Accept, Numbers, Instances, IdlePoller
<1> QED
  BY <1>1, <1>2, <1>4, <1>5 DEF PollThread

LEMMA AheadStep == TypeOK /\ Ahead /\ Carried /\ [Next]_vars => (Ahead /\ Carried)'
<1> SUFFICES ASSUME TypeOK, Ahead, Carried, [Next]_vars PROVE Ahead' /\ Carried'
  OBVIOUS
<1> USE DEF master, process, agent, history
<1>1. CASE UNCHANGED vars
  BY <1>1, AheadKept DEF vars, Alive
<1>2. CASE OperatorStep
  <2>1. CASE \E t \in Texts : SetPendingCommand(t) /\ UNCHANGED <<accepted, agent>>
    BY <2>1, AheadPost
  <2>2. CASE /\ pending' = pending \/ pending' = 0
             /\ UNCHANGED <<agent, history>>
    BY <2>2, AheadKept DEF Alive
  <2> QED
    BY <1>2, <2>1, <2>2
       DEF OperatorStep, QueueCommand, QueueOnly, QueueLogs, ClearCommand,
           FinishOp, CheckBeforeLogs, Texts
<1>3. CASE \/ LateClear \/ LateStatus
           \/ \E b \in Bystanders : BystanderReport(b)
  <2>1. (pending' = pending \/ pending' = 0) /\ UNCHANGED <<agent, history>>
    BY <1>3 DEF LateClear, LateStatus, BystanderReport, Report
  <2> QED
    BY <2>1, AheadKept DEF Alive
<1>8. ASSUME NEW r \in Reporters, ReportStatus(r) PROVE Ahead' /\ Carried'
  <2>1. UNCHANGED <<pending, posted, accepted, poller>>
    BY <1>8 DEF ReportStatus
  <2> QED
    BY <1>8, <2>1, StatusKeepsAlive, AheadKept
<1>4. CASE PollThread \/ PollFailed
  BY <1>4, AheadPoll
<1>5. CASE Worker
  <2>1. /\ pending' = pending \/ pending' = 0
        /\ UNCHANGED <<poller, posted, accepted>> /\ Alive' = Alive
    BY <1>5 DEF Worker, WorkerTake, ForgetInMemory, RemoveMarker, ReportProgress,
                ReportOutcome, ReportError, SignalRestart, Report, Alive, TypeOK
  <2> QED
    BY <2>1, AheadKept
<1>6. CASE MainThread \/ Sigterm
  <2>1. /\ (pending' = pending \/ pending' = 0) /\ UNCHANGED <<posted, accepted>>
        /\ (poller' = poller /\ Alive' = Alive) \/ poller' = IdlePoller
    BY <1>6 DEF MainThread, Register, EnqueueBoot, ReportStopped, Restart, Sigterm,
                NewProcess, Report, Alive, TypeOK
  <2> QED
    BY <2>1, AheadKept
<1>7. CASE Crash \/ SelfDestruct
  BY <1>7, AheadKept DEF Crash, NewProcess, SelfDestruct
<1> QED
  BY <1>1, <1>2, <1>3, <1>4, <1>5, <1>6, <1>7, <1>8 DEF Next

\* The agent's list of commands: only Enqueue, EnqueueBoot and WorkerTake touch
\* it, a new process starts with an empty one.
LEMMA LinedStep ==
  TypeOK /\ Ahead /\ Queued /\ Lined /\ [Next]_vars => (Queued /\ Lined)'
<1> SUFFICES ASSUME TypeOK, Ahead, Queued, Lined, [Next]_vars
             PROVE  Queued' /\ Lined'
  OBVIOUS
<1> USE DEF master, process, agent, history
<1>1. ASSUME UNCHANGED <<queue, accepted>>, worker'.job \in {0, worker.job}
      PROVE  Queued' /\ Lined'
  BY <1>1 DEF Queued, Lined, HandedOver, Before
<1>2. ASSUME queue' = <<>>, worker' = IdleWorker
      PROVE  Queued' /\ Lined'
  BY <1>2 DEF Queued, Lined, HandedOver, IdleWorker
<1>3. CASE UNCHANGED vars
  BY <1>1, <1>3 DEF vars
<1>4. CASE OperatorStep
  BY <1>1, <1>4
     DEF OperatorStep, QueueCommand, QueueOnly, QueueLogs, ClearCommand,
         FinishOp, CheckBeforeLogs
<1>5. CASE \/ \E r \in Reporters : ReportStatus(r)
           \/ LateClear \/ LateStatus
           \/ \E b \in Bystanders : BystanderReport(b)
  <2>1. worker'.job \in {0, worker.job} /\ UNCHANGED <<queue, accepted>>
    BY <1>5 DEF ReportStatus, GivesUp, DeadWorker, LateClear, LateStatus,
                BystanderReport, TypeOK
  <2> QED
    BY <1>1, <2>1
<1>6. ASSUME Accept, NEW i \in Instances, accepted[i] > 0
      PROVE  accepted'[i] > 0
  BY <1>6 DEF Accept, TypeOK
<1>7. CASE AnswerLogs
  <2>1. UNCHANGED <<queue, worker>> /\ Accept
    BY <1>7 DEF AnswerLogs
  <2>2. \A i \in Numbers : HandedOver(i) => HandedOver(i)'
    BY <1>6, <2>1 DEF HandedOver, Numbers, Instances
  <2>3. /\ \A k \in 1..Len(queue) : queue[k] \in Numbers
        /\ worker.job \in Numbers
    BY DEF TypeOK
  <2> QED
    BY <2>1, <2>2, <2>3 DEF Queued, Lined
<1>8. CASE Enqueue
  <2>1. /\ queue' = Append(queue, poller.cmd) /\ UNCHANGED worker
        /\ Accept /\ poller.pc = "dispatch"
    BY <1>8 DEF Enqueue
  <2>2. /\ Len(queue') = Len(queue) + 1 /\ Len(queue) \in Nat
        /\ \A k \in 1..Len(queue) : queue'[k] = queue[k] /\ queue[k] \in Numbers
        /\ queue'[Len(queue) + 1] = poller.cmd
    BY <2>1 DEF TypeOK
  <2>3. \A i \in Numbers : HandedOver(i) => HandedOver(i)'
    BY <1>6, <2>1 DEF HandedOver, Numbers, Instances
  <2>4. poller.cmd = 0 \/ accepted'[poller.cmd] > 0
    <3>1. CASE poller.cmd \in Instances
      <4>1. accepted[poller.cmd] \in 0..2
        BY <3>1 DEF TypeOK
      <4> QED
        BY <2>1, <3>1, <4>1 DEF Accept, TypeOK
    <3> QED
      BY <3>1 DEF TypeOK, Numbers, Instances
  <2>5. \A i \in Numbers : HandedOver(i) => Before(i, poller.cmd)
    BY <2>1 DEF HandedOver, Before, Ahead, Numbers, Instances
  <2>6. Queued'
    <3>1. ASSUME NEW k \in 1..Len(queue')
          PROVE  queue'[k] = 0 \/ accepted'[queue'[k]] > 0
      <4>1. CASE k \in 1..Len(queue)
        BY <2>2, <2>3, <4>1 DEF Queued, HandedOver
      <4>2. CASE k = Len(queue) + 1
        BY <2>2, <2>4, <4>2
      <4> QED
        BY <2>2, <4>1, <4>2
    <3>2. HandedOver(worker.job)'
      BY <2>1, <2>3 DEF Queued, HandedOver, TypeOK
    <3> QED
      BY <2>1, <3>1, <3>2 DEF Queued, HandedOver
  <2>7. Lined'
    <3>1. \A k \in 1..Len(queue) : Before(queue[k], poller.cmd)
      BY <2>2, <2>5 DEF Queued
    <3>2. Before(worker.job, poller.cmd)
      BY <2>5 DEF Queued, TypeOK
    <3>3. ASSUME NEW j \in 1..Len(queue'), NEW k \in 1..Len(queue'), j < k
          PROVE  Before(queue'[j], queue'[k])
      BY <2>2, <3>1, <3>3 DEF Lined
    <3>4. ASSUME NEW k \in 1..Len(queue') PROVE Before(worker.job, queue'[k])
      BY <2>2, <3>2 DEF Lined
    <3> QED
      BY <2>1, <3>3, <3>4 DEF Lined, Before
  <2> QED
    BY <2>6, <2>7
<1>9. CASE PollRead \/ PollAnswered \/ PollFailed \/ SkipDuplicate
           \/ RememberInMemory \/ EmptyMarker \/ SaveLastCommand
  BY <1>1, <1>9
     DEF PollRead, PollAnswered, PollFailed, SkipDuplicate, RememberInMemory,
         EmptyMarker, SaveLastCommand
<1>10. CASE WorkerTake
  <2>1. /\ worker'.job = Head(queue) /\ queue' = Tail(queue) /\ queue # <<>>
        /\ UNCHANGED accepted
    BY <1>10 DEF WorkerTake
  <2>2. /\ Len(queue') = Len(queue) - 1 /\ Len(queue) \in Nat \ {0}
        /\ \A k \in 1..Len(queue') : queue'[k] = queue[k + 1]
        /\ worker'.job = queue[1]
    BY <2>1 DEF TypeOK
  <2> QED
    BY <2>1, <2>2 DEF Queued, Lined, HandedOver, Before
<1>11. CASE ForgetInMemory \/ RemoveMarker \/ ReportProgress \/ ReportOutcome
            \/ ReportError \/ SignalRestart
  <2>1. worker'.job \in {0, worker.job} /\ UNCHANGED <<queue, accepted>>
    BY <1>11 DEF ForgetInMemory, RemoveMarker, ReportProgress, ReportOutcome,
                 ReportError, SignalRestart, IdleWorker, Rescued, DeadWorker, TypeOK
  <2> QED
    BY <1>1, <2>1
<1>12. CASE EnqueueBoot
  <2>1. queue' = Append(queue, 0) /\ UNCHANGED <<worker, accepted>>
    BY <1>12 DEF EnqueueBoot
  <2>2. /\ Len(queue') = Len(queue) + 1 /\ Len(queue) \in Nat
        /\ \A k \in 1..Len(queue) : queue'[k] = queue[k]
        /\ queue'[Len(queue) + 1] = 0
    BY <2>1 DEF TypeOK
  <2> QED
    BY <2>1, <2>2 DEF Queued, Lined, HandedOver, Before
<1>13. CASE Register \/ ReportStopped \/ Sigterm
  BY <1>1, <1>13 DEF Register, ReportStopped, Sigterm
<1>14. CASE Restart \/ Crash \/ SelfDestruct
  BY <1>2, <1>14 DEF Restart, Crash, NewProcess, SelfDestruct
<1> QED
  BY <1>3, <1>4, <1>5, <1>7, <1>8, <1>9, <1>10, <1>11, <1>12, <1>13, <1>14
     DEF Next, PollThread, Worker, MainThread

\* What the agent holds was handed over, so the command it is about to hand
\* over is not older.
LEMMA NewestHolds == TypeOK /\ Ahead /\ Queued => Newest
<1> SUFFICES ASSUME TypeOK, Ahead, Queued, poller.pc = "dispatch"
             PROVE  /\ \A k \in 1..Len(queue) : queue[k] <= poller.cmd
                    /\ worker.job <= poller.cmd
  BY DEF Newest
<1>1. poller.cmd \in Nat
  BY BoundsAssumption DEF BoundsAssumption, TypeOK, Numbers
<1>2. \A i \in Numbers : HandedOver(i) => i <= poller.cmd
  BY <1>1 DEF HandedOver, Ahead, Numbers, Instances
<1>3. worker.job \in Numbers /\ \A k \in 1..Len(queue) : queue[k] \in Numbers
  BY DEF TypeOK
<1> QED
  BY <1>2, <1>3 DEF Queued

\* The agent works on commands in the order the operators queued them, with or
\* without OTA commands, redeliveries, lost requests and restarts.
THEOREM InOrderCorrect == Spec => []InOrder
<1> DEFINE I == TypeOK /\ Ahead /\ Carried /\ Queued /\ Lined
<1>1. Init => I
  BY TypeInit, OrderInit
<1>2. I /\ [Next]_vars => I'
  BY TypeStep, AheadStep, LinedStep
<1>3. I => InOrder
  BY NewestHolds DEF InOrder
<1> QED
  BY <1>1, <1>2, <1>3, PTL DEF Spec
=============================================================================
