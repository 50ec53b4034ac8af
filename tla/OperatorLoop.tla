---------------------------- MODULE OperatorLoop ----------------------------
(***************************************************************************)
(* operators/base.py and operators/manager.py: the life of one operator.   *)
(* Its loop is an asyncio task; start, stop and trigger run on the same    *)
(* event loop as the task, and no run_once awaits anything, so none of     *)
(* them falls into a tick.  Only toggle is called from a worker thread.    *)
(***************************************************************************)
EXTENDS Naturals

VARIABLES
    running,    \* Operator._running
    enabled,    \* Operator._enabled
    loops,      \* the number of tasks that run _loop for this operator
    ticking     \* who awaits the tick in progress: "loop", "trigger", or "none"

loopVars == <<running, enabled, loops, ticking>>

LoopTypeOK ==
    /\ running \in BOOLEAN
    /\ enabled \in BOOLEAN
    /\ loops \in Nat
    /\ ticking \in { "none", "loop", "trigger" }

LoopInit ==
    /\ running = FALSE
    /\ enabled = TRUE
    /\ loops = 0
    /\ ticking = "none"

\* Operator.start, by OperatorManager.start_all at startup
StartLoop ==
    /\ ticking = "none"
    /\ running' = TRUE
    /\ loops' = IF running THEN loops ELSE loops + 1
    /\ UNCHANGED <<enabled, ticking>>

\* Mutant: the task is not cancelled, but left to see the flag when it wakes
StopLoopLazily ==
    /\ ticking = "none"
    /\ running' = FALSE
    /\ UNCHANGED <<loops, enabled, ticking>>

\* Operator.stop, by OperatorManager.stop_all at shutdown: the task is either
\* asleep or has not begun yet, and ends at its cancellation.
StopLoop ==
    /\ ticking = "none"
    /\ running' = FALSE
    /\ loops' = IF loops > 0 THEN loops - 1 ELSE 0
    /\ UNCHANGED <<enabled, ticking>>

\* Operator.toggle, at any moment
Toggle ==
    /\ enabled' = ~enabled
    /\ UNCHANGED <<running, loops, ticking>>

\* The sleep of a loop is over and the loop goes round: into a tick.
WakeUp ==
    /\ loops > 0 /\ ticking = "none"
    /\ running /\ enabled
    /\ ticking' = "loop"
    /\ UNCHANGED <<running, enabled, loops>>

\* Operator.trigger: a tick whether or not the operator is enabled or running
TriggerTick ==
    /\ ticking = "none"
    /\ ticking' = "trigger"
    /\ UNCHANGED <<running, enabled, loops>>

\* Mutant: an exception in run_once takes the loop with it
TickEndsFatally(raised) ==
    /\ ticking # "none"
    /\ ticking' = "none"
    /\ loops' = IF raised /\ ticking = "loop" THEN loops - 1 ELSE loops
    /\ UNCHANGED <<running, enabled>>

\* Operator._tick returns, also if run_once has raised, and a loop sleeps again.
TickEnds(raised) ==
    /\ ticking # "none" /\ raised \in BOOLEAN
    /\ ticking' = "none"
    /\ UNCHANGED <<running, enabled, loops>>

\* The process dies.
LoopDies ==
    /\ running' = FALSE
    /\ enabled' = TRUE
    /\ loops' = 0
    /\ ticking' = "none"

(***************************************************************************)
(* An operator never has two loops, however startups and shutdowns of the  *)
(* application follow each other in one process, and it has one while it   *)
(* is running: an exception of a tick does not end it.                     *)
(***************************************************************************)
OneLoop == loops = IF running THEN 1 ELSE 0
=============================================================================
