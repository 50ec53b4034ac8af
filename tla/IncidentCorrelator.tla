------------------------- MODULE IncidentCorrelator -------------------------
(***************************************************************************)
(* classifier.py: the rules that give a fault its severity and its route,  *)
(* and the correlator that makes incidents of faults that strike together; *)
(* and the channel that alerts.py picks for a route.                       *)
(***************************************************************************)
EXTENDS Naturals, FiniteSets

CONSTANTS
    Nodes,      \* node ids
    RackOf,     \* RackOf[n], SwitchOf[n], PduOf[n]: where n is mounted and
    SwitchOf,   \*   what it hangs on, "" where the inventory does not say
    PduOf,
    Window      \* the five minutes of IncidentCorrelator._window, in units of
                \* the model's clock

ASSUME CorrelatorAssumption ==
    /\ RackOf \in [Nodes -> STRING]
    /\ SwitchOf \in [Nodes -> STRING]
    /\ PduOf \in [Nodes -> STRING]
    /\ Window \in Nat \ { 0 }
    /\ IsFiniteSet(Nodes)

-----------------------------------------------------------------------------
(* The rules *)

Rule(events, severity, route) ==
    { [event |-> e, severity |-> severity, route |-> route] : e \in events }

Rules == UNION {
    Rule({ "xid_79", "xid_64", "xid_48", "xid_95", "ecc_uncorrectable",
           "nvlink_uncorrectable", "psu_fail", "thermal_critical",
           "rack_multi_fail" }, "critical", "dc-infra"),
    Rule({ "smart_reallocated" }, "high", "dc-infra"),
    Rule({ "xid_94", "cpu_stress_fail" }, "high", "compute"),
    Rule({ "ib_crc_high", "ib_switch_multi" }, "high", "network"),
    Rule({ "ecc_correctable_high" }, "medium", "compute") }

\* An event without a rule is left for manual triage by the compute team.
Classify(event) ==
    IF \E r \in Rules : r.event = event
    THEN CHOOSE r \in Rules : r.event = event
    ELSE [event |-> event, severity |-> "info", route |-> "compute"]

\* CHANNEL_MAP, with the default of send_alert
Channel(route) ==
    CASE route = "dc-infra" -> "#dc-infra-rma"
      [] route = "network"  -> "#network-ops"
      [] route = "customer" -> "#customer-ops"
      [] OTHER              -> "#compute-platform"

\* Event names that contain "ib", and those that contain "psu"
IbEvents == { "ib_crc_high", "ib_switch_multi" }
PsuEvents == { "psu_fail" }

-----------------------------------------------------------------------------
(***************************************************************************)
(* The events a correlator holds: a set of records of a node, an event     *)
(* name and an age.  The age of an event grows to Window and stays there:  *)
(* from then on it is out of the window, but still held until the next     *)
(* event is added.  Of equal events of one node the youngest is kept, as   *)
(* the correlations do not count events but the nodes that have any.       *)
(***************************************************************************)
Age == 0..Window

\* Mutant: what has left the window is reported as well
ActiveOrExpired(events) == events

\* timestamp > now - window
Active(events) == { e \in events : e.age < Window }

\* IncidentCorrelator.add_event
Added(events, n, event) ==
    { [node |-> n, event |-> event, age |-> 0] } \cup
    { e \in events : e.age < Window /\ ~(e.node = n /\ e.event = event) }

\* The places where events struck at least so many distinct nodes
Together(kind, place, least, events) ==
    { i \in { [kind  |-> kind,
               where |-> w,
               nodes |-> { e.node : e \in { d \in events : place[d.node] = w } }] :
              w \in { place[e.node] : e \in events } \ { "" } } :
      Cardinality(i.nodes) >= least }

\* IncidentCorrelator.check_correlations, with the affected nodes of each incident
Correlated(events) ==
    LET active == Active(events)
    IN  Together("rack", RackOf, 3, active)
        \cup Together("switch", SwitchOf, 3, { e \in active : e.event \in IbEvents })
        \cup Together("pdu", PduOf, 2, { e \in active : e.event \in PsuEvents })

\* A minute, or whatever the unit is, goes by.
Aged(events) == { [e EXCEPT !.age = IF @ < Window THEN @ + 1 ELSE @] : e \in events }
=============================================================================
