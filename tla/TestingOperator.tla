-------------------------- MODULE TestingOperator ---------------------------
(***************************************************************************)
(* operators/testing.py in mock mode, the mode the controller starts it in *)
(* (api.py): stale certificates are sent to testing, and a node found in   *)
(* testing gets a result once its entry in _testing_since is 20 s old.     *)
(***************************************************************************)
EXTENDS FleetStore

BeginTesting ==
    BeginTick("testing", "stale",
        { n \in Nodes : row[n].state = "certified_ready" /\ ~row[n].protected })

\* The certificate is older than l1_interval_hours, or there is none.
ScheduleTest(n) ==
    /\ phase = "stale" /\ n \in todo
    /\ \E e \in Transitions :
          /\ Permitted(snap[n], e)
          /\ e.trigger = "testing_scheduled"
          /\ Commit(n, After(snap[n], e), NoRow, timers \cup { n })

StillFresh(n) ==
    /\ phase = "stale" /\ n \in todo
    /\ Visited(n, snap[n])
    /\ UNCHANGED <<stored, timers, req>>

\* A node this tick has itself sent to testing is dropped: its 20 s have only
\* begun.  Of the others, a timer that is not there yet is always attended to.
InTesting == { n \in Nodes : snap[n] # NoRow /\ snap[n].state = "testing" }

CollectResults ==
    /\ phase = "stale" /\ todo = {}
    /\ phase' = "results"
    /\ todo' \in { s \in SUBSET InTesting : InTesting \ timers \subseteq s }
    /\ UNCHANGED <<stored, timers, req, snap>>

\* First sight of a node in testing: its 20 s start now.
StartTimer(n) ==
    /\ phase = "results" /\ n \in todo
    /\ n \notin timers
    /\ timers' = timers \cup { n }
    /\ Visited(n, snap[n])
    /\ UNCHANGED <<stored, req>>

\* A healthy node fails one time in twenty.
HandleResult(n) ==
    /\ phase = "results" /\ n \in todo
    /\ n \in timers
    /\ \E e \in Transitions :
          /\ Permitted(snap[n], e)
          /\ \/ e.trigger = "l1_pass" /\ snap[n].health >= 7
             \/ e.trigger = "l1_fail"
          /\ Commit(n, After(snap[n], e), NoRow, timers \ { n })

EndTesting ==
    /\ phase = "results" /\ todo = {}
    /\ EndTick
    /\ UNCHANGED <<stored, timers, req>>

TestingStep ==
    \/ BeginTesting
    \/ \E n \in Nodes :
          ScheduleTest(n) \/ StillFresh(n) \/ StartTimer(n) \/ HandleResult(n)
    \/ CollectResults
    \/ EndTesting
=============================================================================
