------------------------ MODULE MaintenanceOperator -------------------------
(***************************************************************************)
(* operators/maintenance.py: state timeouts, repair slots per rack, and    *)
(* the approval gate of BMaaS maintenance requests.                        *)
(***************************************************************************)
EXTENDS FleetStore

MaxConcurrentPerRack == 2

\* STATE_TIMEOUTS: the trigger that ends an overlong stay in the state
TimeoutTrigger == [
    provisioning    |-> "provision_timeout",
    burn_in         |-> "burn_in_fail",
    testing         |-> "l1_fail",
    draining        |-> "drain_timeout",
    emergency_drain |-> "drain_complete" ]

\* Mutant: nothing ends an emergency drain
TimeoutStatesWithoutDrain == { "provisioning", "burn_in", "testing", "draining" }

TimeoutStates == { "provisioning", "burn_in", "testing", "draining", "emergency_drain" }

BeginMaintenance ==
    BeginTick("maintenance", "timeouts", { n \in Nodes : row[n].state \in TimeoutStates })

\* now > state_since + timeout_hours: how long a stay has lasted is not modelled
TimeOut(n) ==
    /\ phase = "timeouts" /\ n \in todo
    /\ \E e \in Transitions :
          /\ Permitted(snap[n], e)
          /\ e.trigger = TimeoutTrigger[snap[n].state]
          /\ Commit(n, After(snap[n], e), After(snap[n], e), timers)

\* Not overdue yet
StaysOn(n) ==
    /\ phase = "timeouts" /\ n \in todo
    /\ Visited(n, snap[n])
    /\ UNCHANGED <<stored, timers, req>>

-----------------------------------------------------------------------------

InState(s) == { n \in Nodes : snap[n].state = s }
InRack(k) == { n \in Nodes : Rack[n] = k }

\* Mutant: the repairs that go on in the rack are not counted
SlotsOfEmptyRack(k) == MaxConcurrentPerRack

\* The slots a rack has left, by the rows as this tick holds them
Slots(k) ==
    LET active == Cardinality(InState("repair") \cap InRack(k))
    IN  IF active < MaxConcurrentPerRack THEN MaxConcurrentPerRack - active ELSE 0

\* rack_nodes[:slots] of every rack; which nodes come first is a matter of ids
Batch(started) ==
    /\ started \subseteq InState("scheduled_maintenance")
    /\ \A n \in Nodes :
          LET waiting == InState("scheduled_maintenance") \cap InRack(Rack[n])
              chosen  == started \cap InRack(Rack[n])
          IN  Cardinality(chosen) = IF Cardinality(waiting) < Slots(Rack[n])
                                    THEN Cardinality(waiting) ELSE Slots(Rack[n])

ChooseBatch ==
    /\ phase = "timeouts" /\ todo = {}
    /\ phase' = "batch"
    /\ todo' \in { s \in SUBSET Nodes : Batch(s) }
    /\ UNCHANGED <<stored, timers, req, snap>>

StartRepair(n) ==
    /\ phase = "batch" /\ n \in todo
    /\ \E e \in Transitions :
          /\ Permitted(snap[n], e)
          /\ e.trigger = "repair_start"
          /\ Commit(n, After(snap[n], e), After(snap[n], e), timers)

-----------------------------------------------------------------------------

\* The transition an approved request asks for: sm.transition(node, "drain_requested")
ApprovedDrain(r) == { e \in Transitions : Permitted(r, e) /\ e.trigger = "drain_requested" }

\* The gate reads the row afresh for every approved request of an assigned node.
ApprovalGate ==
    /\ phase = "batch" /\ todo = {}
    /\ row' = [n \in Nodes |->
          IF /\ "approved" \in maint[n]
             /\ row[n].state = "customer_assigned"
             /\ ApprovedDrain(FromDb(row[n])) # {}
          THEN After(FromDb(row[n]), CHOOSE e \in ApprovedDrain(FromDb(row[n])) : TRUE)
          ELSE row[n]]
    /\ EndTick
    /\ UNCHANGED <<desired, maint, timers, req>>

MaintenanceStep ==
    \/ BeginMaintenance
    \/ \E n \in Nodes : TimeOut(n) \/ StaysOn(n) \/ StartRepair(n)
    \/ ChooseBatch
    \/ ApprovalGate
=============================================================================
