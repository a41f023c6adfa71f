------------------------- MODULE CommandQueueClaims -------------------------
(***************************************************************************)
(* What a comment of the repository says about the command pipeline,       *)
(* stated over CommandQueue.  TLC finds a behaviour of the code that       *)
(* breaks it; what the code keeps instead is in CommandQueue.              *)
(***************************************************************************)
EXTENDS CommandQueue

\* Commands the agent holds and has still to work through.
ToRun(i) == Held(i) /\ i \notin finished

\* handlers_auth.go:406: staying in the row "keeps the command resilient if
\* the agent goes offline or crashes mid-execution".  So a delivery that the
\* agent skips is of a command it has finished or is about to run.
SkippedIsHandled ==
  [][ SkipDuplicate => poller.cmd \in finished \/ ToRun(poller.cmd) ]_vars
=============================================================================
