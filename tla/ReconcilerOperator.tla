------------------------- MODULE ReconcilerOperator -------------------------
(***************************************************************************)
(* operators/reconciler.py: one tick takes the whole fleet's rows, acts on *)
(* the critically unhealthy ones, and then drives every node that has a    *)
(* desired-state file one transition towards the state that file names.    *)
(***************************************************************************)
EXTENDS FleetStore

Critical(r) == r.health < 5     \* HEALTH_CRITICAL, critical_threshold

\* The fault inferred from the score is CRITICAL only at 0.2 and below.
P0Fault(r) == r.health <= 2

\* The first trigger of the state that has "fail" or "timeout" in its name;
\* the three states this is asked for have at most one.
FailEdges(r) == { e \in Transitions :
    /\ e.from = r.state
    /\ e.trigger \in { "burn_in_fail", "l1_fail", "provision_timeout", "drain_timeout" } }

\* Mutant: a cordoned node is taken to be handled already
HandledUnlessCordoned(r) ==
    IF r.cordon.on THEN r ELSE Cordoned(r, "nlm-reconciler", 0)

\* Cordon at P0, which is never refused, and leave a serving state for repair.
Handled(r) ==
    LET q == Cordoned(r, "nlm-reconciler", 0)
    IN  IF r.state \in { "certified_ready", "testing", "burn_in" } /\ FailEdges(r) # {}
        THEN After(q, CHOOSE e \in FailEdges(r) : TRUE)
        ELSE q

\* Mutant: retired nodes are not skipped
BeginReconcilerWithRetired ==
    BeginTick("reconciler", "health", { n \in Nodes : Critical(Fetched[n]) })

BeginReconciler ==
    BeginTick("reconciler", "health",
        { n \in Nodes : /\ row[n].state \notin { "decommissioned", "rma" }
                        /\ Critical(Fetched[n]) })

\* Files first, then save_node, which may raise: no event is saved either way.
HandleCritical(n) ==
    /\ phase = "health" /\ n \in todo
    /\ n \notin Bmaas \/ P0Fault(snap[n])
    /\ LET r == Handled(snap[n]) IN
          /\ desired' = [desired EXCEPT ![n] = r.state]
          /\ \/ /\ row' = [row EXCEPT ![n] = r]
                /\ Visited(n, NoRow)
             \/ /\ Failures
                /\ UNCHANGED row
                /\ EndTick
    /\ UNCHANGED <<maint, timers, req>>

(***************************************************************************)
(* A BMaaS fault below P0 only asks the customer.  The request has one     *)
(* file per node and day: it replaces the one of the same day, approved or *)
(* not, and joins those of earlier days.  The row is saved all the same.   *)
(***************************************************************************)
RequestMaintenance(n) ==
    /\ phase = "health" /\ n \in todo
    /\ n \in Bmaas /\ ~P0Fault(snap[n])
    /\ \E kept \in { {}, maint[n] } :
          maint' = [maint EXCEPT ![n] = kept \cup { "awaiting" }]
    /\ \/ row' = [row EXCEPT ![n] = snap[n]] /\ Visited(n, NoRow)
       \/ Failures /\ UNCHANGED row /\ EndTick
    /\ UNCHANGED <<desired, timers, req>>

\* gitops.list_desired_states
ListDesired ==
    /\ phase = "health" /\ todo = {}
    /\ phase' = "desired"
    /\ todo' = { n \in Nodes : desired[n] # "none" }
    /\ snap' = NoSnap
    /\ UNCHANGED <<stored, timers, req>>

Corrections(r, n) == { e \in Transitions : Permitted(r, e) /\ e.to = desired[n] }

\* db.get_node of the next file's node; without a way to correct, on to the next
GetNode(n) ==
    /\ phase = "desired" /\ n \in todo
    /\ snap = NoSnap
    /\ IF Corrections(FromDb(row[n]), n) # {}
       THEN snap' = [snap EXCEPT ![n] = FromDb(row[n])] /\ UNCHANGED todo
       ELSE todo' = todo \ { n } /\ UNCHANGED snap
    /\ UNCHANGED <<stored, phase, timers, req>>

\* The correction is saved; no event is.
Correct(n) ==
    /\ phase = "desired" /\ n \in todo
    /\ snap[n] # NoRow
    /\ \E e \in Corrections(snap[n], n) : row' = [row EXCEPT ![n] = After(snap[n], e)]
    /\ Visited(n, NoRow)
    /\ UNCHANGED <<desired, maint, timers, req>>

EndReconciler ==
    /\ phase = "desired" /\ todo = {}
    /\ EndTick
    /\ UNCHANGED <<stored, timers, req>>

ReconcilerStep ==
    \/ BeginReconciler
    \/ \E n \in Nodes :
          HandleCritical(n) \/ RequestMaintenance(n) \/ GetNode(n) \/ Correct(n)
    \/ ListDesired
    \/ EndReconciler
=============================================================================
