----------------------- MODULE CommandLifecycleProofs -----------------------
(***************************************************************************)
(* The command pipeline implements CommandLifecycle: every step of         *)
(* CommandQueue is a step of the life of one command, or loses some, or    *)
(* shows nothing.                                                          *)
(***************************************************************************)
EXTENDS CommandQueueProofs

\* What the history variables say of each other: only commands that were
\* queued are read, the poll thread holds one that was, and only a command
\* that was handed over comes to its end.
Traced ==
  /\ fetched \subseteq 1..Len(posted)
  /\ \A i \in finished : accepted[i] > 0
  /\ poller.pc # "idle" => poller.cmd \in fetched

\* The inductive invariant of the refinement.
Known == TypeOK /\ Delivery /\ Queued /\ Lined /\ Traced

\* What the phases are, without the order of the cases.
Past(i)    == i <= Len(posted)
Waiting(i) == Past(i) /\ i \notin finished /\ accepted[i] = 0
Offers(i)  == pending = i \/ (poller.pc # "idle" /\ poller.cmd = i)

LEMMA PhaseIs ==
  ASSUME TypeOK, Ahead, Traced, NEW i \in Instances
  PROVE  /\ Phase(i) = "new" <=> ~Past(i)
         /\ Phase(i) = "done" <=> i \in finished
         /\ Phase(i) = "running" <=> accepted[i] > 0 /\ i \notin finished /\ Held(i)
         /\ Phase(i) = "offered" <=> Waiting(i) /\ i \in fetched /\ Offers(i)
         /\ Phase(i) = "queued" <=> Waiting(i) /\ i \notin fetched /\ pending = i
         /\ Phase(i) \in Lifecycle!Phases
<1>1. /\ Len(posted) \in Nat /\ i \in Nat /\ accepted[i] \in 0..2
      /\ i \in finished => accepted[i] > 0
      /\ accepted[i] > 0 => i <= Len(posted)
  BY BoundsAssumption DEF BoundsAssumption, TypeOK, Instances, Ahead, Traced
<1> QED
  BY <1>1 DEF Phase, Past, Waiting, Offers, Lifecycle!Phases

LEMMA PhaseIsNext ==
  ASSUME TypeOK', Ahead', Traced', NEW i \in Instances
  PROVE  /\ Phase(i)' = "new" <=> ~Past(i)'
         /\ Phase(i)' = "done" <=> i \in finished'
         /\ Phase(i)' = "running" <=> accepted'[i] > 0 /\ i \notin finished' /\ Held(i)'
         /\ Phase(i)' = "offered" <=> Waiting(i)' /\ i \in fetched' /\ Offers(i)'
         /\ Phase(i)' = "queued" <=> Waiting(i)' /\ i \notin fetched' /\ pending' = i
         /\ Phase(i)' \in Lifecycle!Phases
<1>1. /\ Len(posted)' \in Nat /\ i \in Nat /\ accepted'[i] \in 0..2
      /\ i \in finished' => accepted'[i] > 0
      /\ accepted'[i] > 0 => i <= Len(posted)'
  BY BoundsAssumption DEF BoundsAssumption, TypeOK, Instances, Ahead, Traced
<1> QED
  BY <1>1 DEF Phase, Past, Waiting, Offers, Lifecycle!Phases

\* A command stays in its phase or is lost, told by the phases alone.
Drops(i) == Phase(i) \in {"queued", "offered", "running"} /\ Phase(i)' = "lost"
Keeps(i) == Phase(i)' = Phase(i) \/ Drops(i)

LEMMA StaysIs ==
  ASSUME NEW i \in Instances
  PROVE  /\ Keeps(i) => Lifecycle!Stays(i)
         /\ Drops(i) => Lifecycle!Loses(i)
BY DEF Keeps, Drops, Lifecycle!Stays, Lifecycle!Loses

\* Nothing happens to any command but that some are lost.
LEMMA LosesOnly ==
  ASSUME TypeOK', Ahead', Traced', \A i \in Instances : Keeps(i)
  PROVE  Lifecycle!Lose
BY PhaseIsNext, StaysIs DEF Lifecycle!Lose, Lifecycle!Instances, Instances

\* One command moves, and others may be lost with it.
LEMMA MovesOne ==
  ASSUME TypeOK', Ahead', Traced', NEW i \in Instances, NEW from, NEW to,
         Phase(i) = from, Phase(i)' = to,
         \A j \in Instances \ {i} : Keeps(j)
  PROVE  Lifecycle!Move(i, from, to)
BY PhaseIsNext, StaysIs DEF Lifecycle!Move, Lifecycle!Instances, Instances

\* A command whose history does not change: no step makes the row or the poll
\* thread offer it again, and none puts it back into the agent's list.
LEMMA KeptBy ==
  ASSUME TypeOK, Ahead, Traced, TypeOK', Ahead', Traced', NEW i \in Instances,
         Past(i)' <=> Past(i), i \in fetched' <=> i \in fetched,
         accepted'[i] = accepted[i], i \in finished' <=> i \in finished,
         Held(i)' => Held(i), Offers(i)' => Offers(i),
         pending' = i => pending = i
  PROVE  Keeps(i)
BY PhaseIs, PhaseIsNext DEF Keeps, Drops, Waiting, Lifecycle!Phases
-----------------------------------------------------------------------------
(* The history variables belong together. *)

LEMMA TracedInit == Init => Traced
BY DEF Init, Traced, IdlePoller

\* Steps that add nothing to the history, and let the poll thread go on with
\* its command or give it up.
LEMMA TracedKept ==
  ASSUME Traced, UNCHANGED history,
         poller'.pc # "idle" => poller.pc # "idle" /\ poller'.cmd = poller.cmd
  PROVE  Traced'
BY DEF Traced, history

\* A step of the worker thread that ends its command.
LEMMA TracedEnd ==
  ASSUME TypeOK, Queued, Traced, UNCHANGED <<posted, fetched, accepted, poller>>,
         finished' = finished \cup ({worker.job} \ {0})
  PROVE  Traced'
BY DEF Traced, Queued, HandedOver

LEMMA TracedStep ==
  ASSUME TypeOK, Delivery, Queued, Traced, [Next]_vars
  PROVE  Traced'
<1> USE DEF master, process, agent
<1>1. ASSUME UNCHANGED <<history, poller>> PROVE Traced'
  BY <1>1, TracedKept
<1>2. ASSUME UNCHANGED history, poller' = IdlePoller PROVE Traced'
  BY <1>2, TracedKept DEF IdlePoller
<1>3. ASSUME NEW t \in Texts, SetPendingCommand(t),
             UNCHANGED <<fetched, accepted, finished, poller>>
      PROVE  Traced'
  BY <1>3 DEF SetPendingCommand, Traced, TypeOK
<1>4. CASE OperatorStep
  BY <1>1, <1>3, <1>4
     DEF OperatorStep, QueueCommand, QueueOnly, QueueLogs, ClearCommand,
         FinishOp, CheckBeforeLogs, Texts
<1>5. CASE \/ \E r \in Reporters : ReportStatus(r)
           \/ \E b \in Bystanders : BystanderReport(b)
           \/ LateClear \/ LateStatus \/ UNCHANGED vars
  BY <1>1, <1>5 DEF ReportStatus, BystanderReport, LateClear, LateStatus, vars
<1>6. CASE PollRead
  <2>1. /\ pending \in 1..Len(posted) /\ poller' = [pc |-> "asking", cmd |-> pending]
        /\ fetched' = fetched \cup {pending} /\ UNCHANGED <<posted, accepted, finished>>
    BY <1>6 DEF PollRead, TypeOK, Delivery, Carried, Numbers
  <2> QED
    BY <2>1 DEF Traced
<1>7. CASE PollAnswered \/ RememberInMemory \/ EmptyMarker \/ SaveLastCommand
  <2>1. UNCHANGED history /\ poller.pc # "idle" /\ poller'.cmd = poller.cmd
    BY <1>7 DEF PollAnswered, RememberInMemory, EmptyMarker, SaveLastCommand, TypeOK
  <2> QED
    BY <2>1, TracedKept
<1>8. CASE PollFailed \/ SkipDuplicate
  BY <1>2, <1>8 DEF PollFailed, SkipDuplicate
<1>9. CASE AnswerLogs \/ Enqueue
  <2>1. /\ Accept /\ poller' = IdlePoller /\ UNCHANGED <<posted, fetched>>
        /\ finished' \subseteq finished \cup {poller.cmd}
        /\ poller.pc = "dispatch"
    BY <1>9 DEF AnswerLogs, Enqueue
  <2>2. poller.cmd \in Instances
    BY <2>1, BoundsAssumption
       DEF TypeOK, Delivery, Carried, Instances, BoundsAssumption
  <2>3. \A i \in Instances : accepted[i] > 0 \/ i = poller.cmd => accepted'[i] > 0
    BY SMTT(30), <2>1, <2>2 DEF Accept, TypeOK
  <2> QED
    BY <2>1, <2>2, <2>3 DEF Traced, IdlePoller, TypeOK
<1>10. CASE WorkerTake \/ ForgetInMemory \/ RemoveMarker \/ ReportProgress
            \/ SignalRestart
  BY <1>1, <1>10
     DEF WorkerTake, ForgetInMemory, RemoveMarker, ReportProgress, SignalRestart
<1>11. CASE ReportOutcome \/ ReportError
  BY <1>11, TracedEnd DEF ReportOutcome, ReportError
<1>12. CASE Register \/ EnqueueBoot \/ ReportStopped \/ Sigterm
  BY <1>1, <1>12 DEF Register, EnqueueBoot, ReportStopped, Sigterm
<1>13. CASE Restart \/ Crash \/ SelfDestruct
  BY <1>2, <1>13 DEF Restart, Crash, NewProcess, SelfDestruct
<1> QED
  BY <1>4, <1>5, <1>6, <1>7, <1>8, <1>9, <1>10, <1>11, <1>12, <1>13
     DEF Next, PollThread, Worker, MainThread

LEMMA KnownHolds == ASSUME Updates = {} PROVE Spec => []Known
<1>1. Init => Known
  BY TypeInit, DeliveryInit, OrderInit, TracedInit DEF Known
<1>2. Known /\ [Next]_vars => Known'
  BY TypeStep, DeliveryStep, LinedStep, TracedStep DEF Known, Delivery
<1> QED
  BY <1>1, <1>2, PTL DEF Spec
-----------------------------------------------------------------------------
(* Every step is a step of CommandLifecycle. *)

LEMMA MapsInit == Init => Lifecycle!Init
BY BoundsAssumption
   DEF BoundsAssumption, Init, Phase, Lifecycle!Init, Lifecycle!Instances, Instances

\* Steps that add nothing to the history, to the row, to what the poll thread
\* holds or to the agent's list: at most they lose commands.
LEMMA MapsQuiet ==
  ASSUME Known, Known', UNCHANGED history,
         pending' = pending \/ pending' = 0,
         poller'.pc # "idle" => poller.pc # "idle" /\ poller'.cmd = poller.cmd,
         \A i \in Instances : Held(i)' => Held(i)
  PROVE  Lifecycle!Next
<1>1. \A i \in Instances : Keeps(i)
  BY KeptBy DEF Known, Delivery, history, Past, Offers, Instances
<1> QED
  BY <1>1, LosesOnly DEF Known, Delivery, Lifecycle!Next

\* The new command takes the place of the one nobody has read.
LEMMA MapsPost ==
  ASSUME Known, Known', NEW t \in Texts, SetPendingCommand(t),
         UNCHANGED <<poller, queue, worker, fetched, accepted, finished>>
  PROVE  Lifecycle!Next
<1>1. PICK n \in Instances :
         n = Len(posted) + 1 /\ Len(posted) \in Nat /\ Len(posted') = n /\ pending' = n
  BY BoundsAssumption
     DEF BoundsAssumption, SetPendingCommand, Known, TypeOK, Instances
<1>2. Phase(n) = "new" /\ Phase(n)' = "queued"
  <2>1. n \notin fetched
    BY <1>1 DEF Known, Traced
  <2>2. accepted[n] = 0
    <3>1. accepted[n] \in 0..2
      BY <1>1 DEF Known, TypeOK
    <3> QED
      BY <1>1, <3>1 DEF Known, Delivery, Ahead
  <2>3. n \notin finished
    BY <2>2 DEF Known, Traced
  <2>4. ~Past(n) /\ Past(n)'
    BY <1>1 DEF Past
  <2>5. Waiting(n)'
    BY <2>2, <2>3, <2>4 DEF Waiting
  <2>6. Phase(n) = "new"
    BY <1>1, <2>4, PhaseIs DEF Known, Delivery
  <2>7. Phase(n)' = "queued"
    BY <1>1, <2>1, <2>5, PhaseIsNext DEF Known, Delivery
  <2> QED
    BY <2>6, <2>7
<1>3. \A i \in Instances \ {n} : Keeps(i)
  <2> SUFFICES ASSUME NEW i \in Instances \ {n} PROVE Keeps(i)
    OBVIOUS
  <2>1. Past(i)' <=> Past(i)
    BY <1>1 DEF Past, Instances
  <2> QED
    BY <1>1, <2>1, KeptBy DEF Known, Delivery, Held, Offers
<1>4. \A i \in Instances : Phase(i) = "queued" => Drops(i)
  BY <1>1, <1>2, <1>3, PhaseIs, PhaseIsNext
     DEF Known, Delivery, Drops, Keeps, Waiting
<1>5. \A i \in 1..(n - 1) : i \in Instances /\ Phase(i) # "new"
  <2> SUFFICES ASSUME NEW i \in 1..(n - 1)
               PROVE  i \in Instances /\ Phase(i) # "new"
    OBVIOUS
  <2>1. i \in Instances /\ Past(i)
    BY <1>1, BoundsAssumption DEF BoundsAssumption, Past, Instances
  <2> QED
    BY <2>1, PhaseIs DEF Known, Delivery
<1>6. Lifecycle!Post(n)
  <2>1. Lifecycle!Move(n, "new", "queued")
    BY <1>1, <1>2, <1>3, MovesOne DEF Known, Delivery
  <2> QED
    BY <2>1, <1>4, <1>5, StaysIs DEF Lifecycle!Post, Lifecycle!Instances, Instances
<1> QED
  BY <1>1, <1>6 DEF Lifecycle!Next, Lifecycle!Instances, Instances

\* A poll reads the row: for the first time, or once more.
LEMMA MapsOffer ==
  ASSUME Known, Known', PollRead
  PROVE  Lifecycle!Next
<1>1. /\ pending \in Instances /\ pending \in 1..Len(posted)
      /\ poller.pc = "idle" /\ poller' = [pc |-> "asking", cmd |-> pending]
      /\ fetched' = fetched \cup {pending}
      /\ UNCHANGED <<pending, queue, worker, posted, accepted, finished>>
  BY DEF PollRead, Known, TypeOK, Delivery, Carried, Numbers, Instances, master
<1>2. \A i \in Instances : Past(i)' = Past(i) /\ Waiting(i)' = Waiting(i)
                           /\ Held(i)' = Held(i) /\ Offers(i)' = Offers(i)
  BY <1>1 DEF Past, Waiting, Held, Offers
<1>3. \A i \in Instances \ {pending} : Phase(i)' = Phase(i)
  BY <1>1, <1>2, PhaseIs, PhaseIsNext DEF Known, Delivery, Lifecycle!Phases
<1>4. CASE Phase(pending) = "queued"
  <2>1. Phase(pending)' = "offered"
    BY <1>1, <1>2, <1>4, PhaseIs, PhaseIsNext DEF Known, Delivery, Offers
  <2>2. Lifecycle!Offer(pending)
    BY <1>1, <1>3, <1>4, <2>1, MovesOne
       DEF Known, Delivery, Keeps, Lifecycle!Offer, Lifecycle!Instances, Instances
  <2> QED
    BY <1>1, <2>2 DEF Lifecycle!Next, Lifecycle!Instances, Instances
<1>5. CASE Phase(pending) # "queued"
  <2>1. Phase(pending)' = Phase(pending)
    BY <1>1, <1>2, <1>5, PhaseIs, PhaseIsNext
       DEF Known, Delivery, Lifecycle!Phases, Waiting
  <2> QED
    BY <1>1, <1>3, <2>1, LosesOnly DEF Known, Delivery, Keeps, Lifecycle!Next
<1> QED
  BY <1>4, <1>5
\* The poll thread hands its command over: it was offered, and no later one
\* was handed over before it.
LEMMA HandsOver ==
  ASSUME Known, Known', poller.pc = "dispatch", Accept, poller' = IdlePoller,
         pending' = pending \/ pending' = 0, UNCHANGED <<posted, fetched, worker>>,
         NEW i \in Instances, i = poller.cmd,
         finished' = finished \/ finished' = finished \cup {i},
         queue' = queue \/ queue' = Append(queue, i)
  PROVE  /\ Phase(i) = "offered" /\ Lifecycle!NoneLater(i)
         /\ accepted'[i] > 0
         /\ \A j \in Instances \ {i} : Keeps(j)
<1>1. accepted[i] = 0 /\ i \notin finished /\ i \in fetched /\ i <= Len(posted)
      /\ accepted'[i] = 1 /\ \A j \in Instances \ {i} : accepted'[j] = accepted[j]
  BY DEF Known, TypeOK, Delivery, Remembered, Traced, Carried, Accept
<1>2. Phase(i) = "offered"
  BY <1>1, PhaseIs DEF Known, Delivery, Waiting, Past, Offers
<1>3. ASSUME NEW j \in Instances, j > i
      PROVE  Phase(j) \notin {"running", "done"}
  <2>1. accepted[j] = 0
    <3>1. accepted[j] \in 0..2
      BY DEF Known, TypeOK
    <3>2. ~(j <= poller.cmd)
      BY <1>3 DEF Instances
    <3> QED
      BY <3>1, <3>2 DEF Known, Delivery, Ahead
  <2> QED
    BY <2>1, PhaseIs DEF Known, Delivery, Traced
<1>4. ASSUME NEW j \in Instances \ {i} PROVE Keeps(j)
  <2>1. Held(j)' => Held(j)
    <3>1. CASE queue' = queue
      BY <3>1 DEF Held
    <3>2. CASE queue' = Append(queue, i)
      <4>1. /\ Len(queue) \in Nat /\ Len(queue') = Len(queue) + 1
            /\ \A k \in 1..Len(queue) : queue'[k] = queue[k]
            /\ queue'[Len(queue) + 1] = i
        BY <3>2 DEF Known, TypeOK
      <4> QED
        BY <4>1 DEF Held
    <3> QED
      BY <3>1, <3>2
  <2>2. (Offers(j)' => Offers(j)) /\ (pending' = j => pending = j)
    BY DEF Offers, IdlePoller, Instances
  <2> QED
    BY <1>1, <2>1, <2>2, KeptBy DEF Known, Delivery, Past
<1> QED
  BY <1>1, <1>2, <1>3, <1>4 DEF Lifecycle!NoneLater, Lifecycle!Instances, Instances

LEMMA MapsRun ==
  ASSUME Known, Known', Enqueue
  PROVE  Lifecycle!Next
<1>1. PICK i \in Instances : i = poller.cmd
  BY BoundsAssumption
     DEF BoundsAssumption, Enqueue, Known, TypeOK, Delivery, Carried, Instances
<1>2. /\ queue' = Append(queue, i) /\ finished' = finished
      /\ Phase(i) = "offered" /\ Lifecycle!NoneLater(i) /\ accepted'[i] > 0
      /\ \A j \in Instances \ {i} : Keeps(j)
  BY <1>1, HandsOver DEF Enqueue, master
<1>3. Held(i)'
  <2>1. Len(queue) \in Nat /\ Len(queue') = Len(queue) + 1
        /\ queue'[Len(queue) + 1] = i
    BY <1>2 DEF Known, TypeOK
  <2> QED
    BY <2>1 DEF Held
<1>4. Phase(i)' = "running"
  <2>1. i \notin finished'
    BY <1>2, PhaseIs DEF Known, Delivery
  <2> QED
    BY <1>2, <1>3, <2>1, PhaseIsNext DEF Known, Delivery
<1>5. Lifecycle!Run(i)
  BY <1>2, <1>4, MovesOne DEF Known, Delivery, Lifecycle!Run
<1> QED
  BY <1>5 DEF Lifecycle!Next, Lifecycle!Instances, Instances

LEMMA MapsAnswer ==
  ASSUME Known, Known', AnswerLogs
  PROVE  Lifecycle!Next
<1>1. PICK i \in Instances : i = poller.cmd
  BY BoundsAssumption
     DEF BoundsAssumption, AnswerLogs, Known, TypeOK, Delivery, Carried, Instances
<1>2. /\ finished' = finished \cup {i}
      /\ Phase(i) = "offered" /\ Lifecycle!NoneLater(i)
      /\ \A j \in Instances \ {i} : Keeps(j)
  BY <1>1, HandsOver DEF AnswerLogs, Report
<1>3. Phase(i)' = "done"
  BY <1>2, PhaseIsNext DEF Known, Delivery
<1>4. Lifecycle!Answer(i)
  BY <1>2, <1>3, MovesOne DEF Known, Delivery, Lifecycle!Answer
<1> QED
  BY <1>4 DEF Lifecycle!Next, Lifecycle!Instances, Instances

\* The worker thread reports the end of its command, perhaps for the second
\* time.  Older commands are not behind it in the list.
LEMMA MapsEnd ==
  ASSUME Known, Known', worker'.job \in {0, worker.job},
         pending' = pending \/ pending' = 0,
         UNCHANGED <<posted, fetched, accepted, poller, queue>>,
         finished' = finished \cup ({worker.job} \ {0})
  PROVE  Lifecycle!Next
<1>1. ASSUME NEW j \in Instances, j \in finished' <=> j \in finished
      PROVE  Keeps(j)
  <2>1. (Held(j)' => Held(j)) /\ (Offers(j)' => Offers(j))
        /\ (pending' = j => pending = j) /\ (Past(j)' <=> Past(j))
    BY DEF Held, Offers, Past, Instances
  <2> QED
    BY <1>1, <2>1, KeptBy DEF Known, Delivery
<1>2. CASE worker.job = 0 \/ worker.job \in finished
  BY <1>1, <1>2, LosesOnly DEF Known, Delivery, Lifecycle!Next
<1>3. CASE worker.job # 0 /\ worker.job \notin finished
  <2>1. PICK i \in Instances : i = worker.job
    BY <1>3, BoundsAssumption
       DEF BoundsAssumption, Known, TypeOK, Numbers, Instances
  <2>2. finished' = finished \cup {i} /\ i \notin finished
    BY <1>3, <2>1 DEF Instances
  <2>3. Phase(i) = "running"
    <3>1. accepted[i] > 0 /\ Held(i)
      BY <1>3, <2>1 DEF Known, Queued, HandedOver, Held
    <3> QED
      BY <2>2, <3>1, PhaseIs DEF Known, Delivery
  <2>4. Phase(i)' = "done"
    BY <2>2, PhaseIsNext DEF Known, Delivery
  <2>5. ASSUME NEW j \in 1..(i - 1)
        PROVE  j \in Instances /\ Phase(j) # "running"
    <3>1. j \in Instances /\ j < i /\ j # 0
      BY <2>1, BoundsAssumption DEF BoundsAssumption, Instances
    <3>2. ~Held(j)
      <4>1. \A k \in 1..Len(queue) : Before(i, queue[k])
        BY <2>1 DEF Known, Lined
      <4> QED
        BY <2>1, <3>1, <4>1 DEF Held, Before, Instances
    <3> QED
      BY <3>1, <3>2, PhaseIs DEF Known, Delivery
  <2>6. \A j \in Instances \ {i} : Keeps(j)
    BY <1>1, <2>2
  <2>7. Lifecycle!Move(i, "running", "done")
    BY <2>3, <2>4, <2>6, MovesOne DEF Known, Delivery
  <2>8. Lifecycle!Finish(i)
    BY <2>5, <2>7 DEF Lifecycle!Finish, Lifecycle!Instances, Instances
  <2> QED
    BY <2>8 DEF Lifecycle!Next, Lifecycle!Instances, Instances
<1> QED
  BY <1>2, <1>3
\* A step that leaves the agent's list and its command alone, or empties them.
LEMMA HeldKept ==
  ASSUME \/ queue' = queue /\ worker'.job \in {0, worker.job}
         \/ queue' = <<>> /\ worker' = IdleWorker
  PROVE  \A i \in Instances : Held(i)' => Held(i)
BY DEF Held, Instances, IdleWorker

\* The worker thread takes the oldest command, which the list held.
LEMMA HeldTaken ==
  ASSUME Known, WorkerTake
  PROVE  \A i \in Instances : Held(i)' => Held(i)
<1>1. /\ worker'.job = Head(queue) /\ queue' = Tail(queue) /\ queue # <<>>
  BY DEF WorkerTake
<1>2. /\ Len(queue') = Len(queue) - 1 /\ Len(queue) \in Nat \ {0}
      /\ \A k \in 1..Len(queue') : queue'[k] = queue[k + 1]
      /\ worker'.job = queue[1]
  BY <1>1 DEF Known, TypeOK
<1> QED
  BY <1>2 DEF Held

\* The boot action is no command.
LEMMA HeldBoot ==
  ASSUME Known, EnqueueBoot
  PROVE  \A i \in Instances : Held(i)' => Held(i)
<1>1. /\ queue' = Append(queue, 0) /\ worker' = worker
  BY DEF EnqueueBoot
<1>2. /\ Len(queue) \in Nat /\ Len(queue') = Len(queue) + 1
      /\ \A k \in 1..Len(queue) : queue'[k] = queue[k]
      /\ queue'[Len(queue) + 1] = 0
  BY <1>1 DEF Known, TypeOK
<1> QED
  BY <1>1, <1>2 DEF Held, Instances

LEMMA MapsStep ==
  ASSUME Known, Known', [Next]_vars
  PROVE  Lifecycle!Next
<1> USE DEF master, process, agent
<1>1. ASSUME pending' = pending \/ pending' = 0,
             UNCHANGED <<history, poller, queue, worker>>
      PROVE  Lifecycle!Next
  BY <1>1, MapsQuiet, HeldKept
<1>2. CASE OperatorStep
  <2>1. ASSUME NEW t \in Texts, SetPendingCommand(t),
               UNCHANGED <<agent, fetched, accepted, finished>>
        PROVE  Lifecycle!Next
    BY <2>1, MapsPost
  <2> QED
    BY <1>1, <1>2, <2>1
       DEF OperatorStep, QueueCommand, QueueOnly, QueueLogs, ClearCommand,
           FinishOp, CheckBeforeLogs, Texts
<1>3. CASE \/ \E b \in Bystanders : BystanderReport(b)
           \/ LateClear \/ LateStatus \/ UNCHANGED vars
  BY <1>1, <1>3 DEF BystanderReport, Report, LateClear, LateStatus, vars
<1>4. ASSUME NEW r \in Reporters, ReportStatus(r) PROVE Lifecycle!Next
  <2>1. worker'.job \in {0, worker.job} /\ UNCHANGED <<pending, poller, queue, history>>
    BY <1>4 DEF ReportStatus, GivesUp, DeadWorker, Known, TypeOK
  <2> QED
    BY <2>1, MapsQuiet, HeldKept
<1>5. CASE \/ PollAnswered \/ PollFailed \/ SkipDuplicate
           \/ RememberInMemory \/ EmptyMarker \/ SaveLastCommand
  <2>1. /\ UNCHANGED <<pending, queue, worker, history>>
        /\ poller'.pc # "idle" => poller.pc # "idle" /\ poller'.cmd = poller.cmd
    BY <1>5 DEF PollAnswered, PollFailed, SkipDuplicate, RememberInMemory,
                EmptyMarker, SaveLastCommand, IdlePoller, Known, TypeOK
  <2> QED
    BY <2>1, MapsQuiet, HeldKept
<1>6. CASE PollThread
  BY <1>5, <1>6, MapsOffer, MapsAnswer, MapsRun DEF PollThread
<1>7. CASE WorkerTake
  BY <1>7, HeldTaken, MapsQuiet DEF WorkerTake
<1>8. CASE ForgetInMemory \/ RemoveMarker \/ ReportProgress \/ SignalRestart
  <2>1. /\ worker'.job \in {0, worker.job}
        /\ pending' = pending \/ pending' = 0
        /\ UNCHANGED <<history, poller, queue>>
    BY <1>8 DEF ForgetInMemory, RemoveMarker, ReportProgress, SignalRestart,
                Report, Known, TypeOK
  <2> QED
    BY <2>1, MapsQuiet, HeldKept
<1>9. CASE ReportOutcome \/ ReportError
  <2>1. worker'.job \in {0, worker.job}
    BY <1>9 DEF ReportOutcome, ReportError, IdleWorker, Rescued, DeadWorker,
                Known, TypeOK
  <2> QED
    BY <1>9, <2>1, MapsEnd DEF ReportOutcome, ReportError, Report
<1>10. CASE EnqueueBoot
  BY <1>10, HeldBoot, MapsQuiet DEF EnqueueBoot
<1>11. CASE Register \/ ReportStopped \/ Sigterm
  BY <1>1, <1>11 DEF Register, ReportStopped, Sigterm, Report
<1>12. CASE Restart \/ Crash \/ SelfDestruct
  BY <1>12, HeldKept, MapsQuiet
     DEF Restart, Crash, SelfDestruct, NewProcess, IdlePoller
<1> QED
  BY <1>2, <1>3, <1>4, <1>5, <1>6, <1>7, <1>8, <1>9, <1>10, <1>11, <1>12
     DEF Next, Worker, MainThread

\* Without OTA commands the pipeline implements CommandLifecycle: whatever is
\* lost, late, repeated or restarted, a command is queued, offered, run and
\* done in that order and once, and never comes back when it was lost; none
\* starts after a later one, and the worker ends them in their order.
THEOREM Promises == ASSUME Updates = {} PROVE Spec => KeepsPromises
<1>1. Init => Lifecycle!Init
  BY MapsInit
<1>2. Known /\ Known' /\ [Next]_vars
        => [Lifecycle!Next]_([i \in Instances |-> Phase(i)])
  BY MapsStep
<1> QED
  BY <1>1, <1>2, KnownHolds, PTL DEF Spec, KeepsPromises, Lifecycle!Spec
=============================================================================
