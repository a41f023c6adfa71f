--------------------------- MODULE MCEngineControl ---------------------------
(***************************************************************************)
(* An instance with one server for each engine, and properties that the    *)
(* repository states and the code does not keep.                           *)
(***************************************************************************)
EXTENDS EngineControl

CONSTANTS x1, s1

\* Nothing, one engine only, or both in either order.
MCLists == {<<>>, <<x1>>, <<s1>>, <<x1, s1>>, <<s1, x1>>}

\* The engine that serves is the one the state file names, from which the
\* watchdog and the next boot take "the single active engine" (main.py:943,
\* engine.py:282-285).
StateNamesEngine == Quiet => \A e \in Engines : Listens(e) => e = state.engine

\* The same as OneListener, with a fleet-cli beside the agent: the file lock
\* "serialize[s] config writes + container restarts between the daemon process
\* and CLI invocations" (engine.py:42-43).
OneListenerBesideCli == "cli" \in Threads => OneListener
=============================================================================
