---------------------------- MODULE NLMController ---------------------------
(***************************************************************************)
(* The NLM controller: the shared store, the requests of API and CLI       *)
(* clients, and the three operators on one event loop (operators/base.py,  *)
(* operators/manager.py and the registrations of api.py).                  *)
(***************************************************************************)
EXTENDS ReconcilerOperator, MaintenanceOperator, TestingOperator

Next ==
    \/ ClientStep
    \/ ReconcilerStep
    \/ MaintenanceStep
    \/ TestingStep
    \/ TickRaises
    \/ Restart

Spec == Init /\ [][Next]_vars

(***************************************************************************)
(* Each enabled operator's loop (Operator._loop) ticks again and again, a  *)
(* tick that has begun goes on, and a stay that goes on for ever is at     *)
(* some tick longer than its timeout: a node whose state changes again and *)
(* again need never be overdue.                                            *)
(***************************************************************************)
TickGoesOn ==
    \/ \E n \in Nodes :
          \/ HandleCritical(n) \/ RequestMaintenance(n) \/ GetNode(n) \/ Correct(n)
          \/ TimeOut(n) \/ StaysOn(n) \/ StartRepair(n)
          \/ ScheduleTest(n) \/ StillFresh(n) \/ StartTimer(n) \/ HandleResult(n)
    \/ ListDesired \/ EndReconciler
    \/ ChooseBatch \/ ApprovalGate
    \/ CollectResults \/ EndTesting

Fairness ==
    /\ WF_vars(TickGoesOn)
    /\ SF_vars(BeginReconciler) /\ SF_vars(BeginMaintenance) /\ SF_vars(BeginTesting)
    /\ \A n \in Nodes :
          []<><<row'[n].state # row[n].state>>_vars \/ SF_vars(TimeOut(n))

FairSpec == Spec /\ Fairness

-----------------------------------------------------------------------------
(* Invariants *)

\* Rows somebody holds of node n: the table's, an operator's and clients' copies
Held(n) ==
    { row[n] } \cup ({ snap[n] } \ { NoRow })
    \cup { req[c].copy : c \in { d \in Clients : req[d] # NoReq /\ req[d].node = n } }

(***************************************************************************)
(* A row is customer_protected exactly while its node is assigned, in the  *)
(* table and in every copy under way: no interleaving of whole-row saves   *)
(* tears the flag that statemachine.py tests from the state it guards.     *)
(***************************************************************************)
ProtectionMatchesState ==
    \A n \in Nodes : \A r \in Held(n) :
        r.protected <=> r.state = "customer_assigned"

(***************************************************************************)
(* The only way into `draining' is drain_request, a P4 transition out of a *)
(* state in which statemachine.py only lets P0 transitions through: the    *)
(* graceful path of config/node-states.yml is never walked, by anybody.    *)
(***************************************************************************)
NeverDraining == \A n \in Nodes : \A r \in Held(n) : r.state # "draining"

-----------------------------------------------------------------------------
(* What a step may do *)

\* Client c ends its request about n in this step.
Answers(c, n) == req[c] # NoReq /\ req'[c] = NoReq /\ req[c].node = n

\* The copies of n that the writer of this step, if it writes, works from
WriterCopies(n) ==
    { req[c].copy : c \in { d \in Clients : Answers(d, n) } }
    \cup (IF tickVars' = tickVars THEN {} ELSE { snap[n] } \ { NoRow })

\* The writer read another state, or another cordon, than its save replaces.
LosesState(n) == \E r \in WriterCopies(n) : r.state # row[n].state
LosesCordon(n) == \E r \in WriterCopies(n) : r.cordon # row[n].cordon

(***************************************************************************)
(* A node leaves its customer by an emergency drain or because a save went *)
(* over the assignment without having seen it; no timeout, test, approval  *)
(* or correction of the operators takes an assigned node anywhere else.    *)
(***************************************************************************)
AssignedLeavesByEmergency ==
    [][\A n \in Nodes :
          row[n].state = "customer_assigned" /\ row'[n].state # "customer_assigned"
          => row'[n].state = "emergency_drain" \/ LosesState(n)]_vars

(***************************************************************************)
(* Decommissioned is terminal for whoever has seen it ("Can't bring back a *)
(* decommissioned node", tests/test_scenarios.py:419): a node comes back   *)
(* only by the save of a whole row that was read before the decommission   *)
(* (api.py:136), never by a file, a timer or a trigger.                    *)
(***************************************************************************)
DecommissionedStays ==
    [][\A n \in Nodes :
          row[n].state = "decommissioned" /\ row'[n].state # "decommissioned"
          => LosesState(n)]_vars

(***************************************************************************)
(* As long as nobody commits such a state to a desired-state file, the     *)
(* operators take no node out of the fleet: the files they write           *)
(* themselves, and then follow, never name rma or decommissioned, and no   *)
(* timeout or test leads there.  Only a request about the node does.       *)
(***************************************************************************)
Retired == { "rma", "decommissioned" }

RetiredOnlyByClients ==
    [][\A n \in Nodes :
          row'[n].state \in Retired /\ row'[n].state # row[n].state
          => \E c \in Clients : Answers(c, n)]_vars

(***************************************************************************)
(* A cordon in force is replaced by one of less authority only where a     *)
(* repair starts, or by a save that has not seen the cordon or the state   *)
(* of the node: cordon.py arbitrates every other replacement, or it is     *)
(* made at P0 (statemachine.py cordons without asking cordon.py).          *)
(***************************************************************************)
CordonWeakenedOnlyByRepairStart ==
    [][\A n \in Nodes :
          /\ row[n].cordon.on /\ row'[n].cordon.on
          /\ row'[n].cordon.prio > row[n].cordon.prio
          => \/ row[n].state = "scheduled_maintenance" /\ row'[n].state = "repair"
             \/ LosesState(n) \/ LosesCordon(n)]_vars

(***************************************************************************)
(* The batch of a maintenance tick respects the rack: where no request     *)
(* overlaps the tick, a repair it starts never makes a third one in the    *)
(* rack, whatever the timeouts of the same tick have sent to repair.       *)
(***************************************************************************)
RackLimit ==
    [][\A n \in Nodes :
          phase = "batch" /\ row[n].state # "repair" /\ row'[n].state = "repair"
          => Cardinality({ m \in InRack(Rack[n]) : row'[m].state = "repair" })
                <= MaxConcurrentPerRack]_vars

-----------------------------------------------------------------------------
(* Without overlap *)

(***************************************************************************)
(* If requests overlap neither each other nor a tick, every copy is the    *)
(* row as it would be read now, so that no save undoes another.            *)
(***************************************************************************)
NoStaleCopies ==
    ~Overlap =>
        /\ \A c \in Clients : req[c] # NoReq =>
              phase = "idle" /\ req[c].copy = FromDb(row[req[c].node])
        /\ \A c, d \in Clients : req[c] # NoReq /\ req[d] # NoReq => c = d
        /\ \A n \in Nodes : snap[n] # NoRow => snap[n] = FromDb(row[n])

(***************************************************************************)
(* Then the controller keeps the promise of the state machine: all that    *)
(* requests, operators, files, timers, exceptions and restarts make of it  *)
(* is a walk along the table.                                              *)
(***************************************************************************)
Promised == INSTANCE NodePromise WITH state <- [n \in Nodes |-> row[n].state]

KeepsPromise == Promised!Promise

-----------------------------------------------------------------------------
(* Liveness *)

(***************************************************************************)
(* No node stays in a state with a timeout for ever, whoever else drives   *)
(* nodes in between (MaintenanceOrchestrator, STATE_TIMEOUTS).             *)
(***************************************************************************)
TimeoutsBite ==
    \A n \in Nodes : \A s \in { "provisioning", "burn_in", "testing", "emergency_drain" } :
        row[n].state = s ~> row[n].state # s

(***************************************************************************)
(* A node whose reading is critical does not stay unnoticed, whatever      *)
(* requests and other operators save in between: it is cordoned at P0, or  *)
(* its BMaaS customer is asked, unless it recovers or is retired first     *)
(* (Reconciler._handle_critical).                                          *)
(***************************************************************************)
Noticed(n) ==
    \/ row[n].cordon.on /\ row[n].cordon.prio = 0
    \/ n \in Bmaas /\ maint[n] # {}

CriticalIsNoticed ==
    \A n \in Nodes :
        Critical(FromDb(row[n]))
        ~> Noticed(n) \/ ~Critical(FromDb(row[n])) \/ row[n].state \in Retired
=============================================================================
