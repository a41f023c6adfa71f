-------------------------- MODULE CommandLifecycle --------------------------
(***************************************************************************)
(* What the command pipeline of a node promises of its commands, without   *)
(* rows, threads, reports or crashes.  A command is queued, offered to the *)
(* agent any number of times, run at most once and then done; at any point *)
(* before its end it may be lost.  Commands are started, and those that    *)
(* the worker runs are ended, in the order they were queued.               *)
(***************************************************************************)
EXTENDS Integers

CONSTANT MaxCmds      \* bound, a natural number: commands queued in a behaviour

Instances == 1..MaxCmds
Phases    == {"new", "queued", "offered", "running", "done", "lost"}

VARIABLE phase        \* how far each command is

Init == phase = [i \in Instances |-> "new"]

\* Command j stays where it is or is lost.
Loses(j) == phase[j] \in {"queued", "offered", "running"} /\ phase'[j] = "lost"
Stays(j) == phase'[j] = phase[j] \/ Loses(j)

\* Command i goes from one phase to the next; others may be lost with it.
Move(i, from, to) ==
  /\ phase[i] = from
  /\ phase' \in [Instances -> Phases] /\ phase'[i] = to
  /\ \A j \in Instances \ {i} : Stays(j)

\* The next command is queued.  Only one is queued at a time: it takes the
\* place of one that nobody has been offered.
Post(i) ==
  /\ \A j \in 1..(i - 1) : phase[j] # "new"
  /\ Move(i, "new", "queued")
  /\ \A j \in Instances : phase[j] = "queued" => Loses(j)

Offer(i) ==
  /\ Move(i, "queued", "offered")
  /\ \A j \in Instances \ {i} : phase'[j] = phase[j]

\* A command starts only when no later one has started.
NoneLater(i) == \A j \in Instances : j > i => phase[j] \notin {"running", "done"}

Run(i) == NoneLater(i) /\ Move(i, "offered", "running")

\* A command answered at once, without the worker.
Answer(i) == NoneLater(i) /\ Move(i, "offered", "done")

\* The worker runs one command after the other.
Finish(i) ==
  /\ \A j \in 1..(i - 1) : phase[j] # "running"
  /\ Move(i, "running", "done")

Lose ==
  /\ phase' \in [Instances -> Phases]
  /\ \A j \in Instances : Stays(j)

Next ==
  \/ Lose
  \/ \E i \in Instances : Post(i) \/ Offer(i) \/ Run(i) \/ Answer(i) \/ Finish(i)

Spec == Init /\ [][Next]_phase
=============================================================================
