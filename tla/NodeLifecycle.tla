--------------------------- MODULE NodeLifecycle ---------------------------
(***************************************************************************)
(* One node of the fleet as the NLM controller sees it: the database row,  *)
(* the transition table of config/node-states.yml, what a transition does  *)
(* to a row (statemachine.py) and how cordons are arbitrated (cordon.py).  *)
(* Everything here is a function of one row; the modules that follow say   *)
(* who reads rows, who writes them back and when.                          *)
(***************************************************************************)
EXTENDS Naturals

CONSTANT Callers    \* the owner names that API and CLI callers pass along

State == { "provisioning", "burn_in", "testing", "certified_ready",
           "customer_assigned", "draining", "emergency_drain",
           "scheduled_maintenance", "repair", "rma", "decommissioned" }

Priority == 0..4    \* CordonPriority P0..P4: the lower, the more authority

(***************************************************************************)
(* The health score is a float that only moves by 0.3 and by resets to     *)
(* 1.0; it is kept in tenths.                                              *)
(***************************************************************************)
Health == 0..10

-----------------------------------------------------------------------------
(* The transition table *)

Edge(from, trigger, to, owner, prio) ==
    [from |-> from, trigger |-> trigger, to |-> to, owner |-> owner, prio |-> prio]

Transitions == {
    Edge("provisioning", "provision_complete", "burn_in", "nlm-controller", 0),
    Edge("provisioning", "provision_timeout", "scheduled_maintenance", "nlm-controller", 0),
    Edge("burn_in", "burn_in_pass", "certified_ready", "nlm-controller", 0),
    Edge("burn_in", "burn_in_fail", "repair", "nlm-controller", 0),
    Edge("testing", "l1_pass", "certified_ready", "nlm-controller", 0),
    Edge("testing", "l1_fail", "repair", "nlm-controller", 0),
    Edge("certified_ready", "customer_assign", "customer_assigned", "customer-eng", 4),
    Edge("certified_ready", "testing_scheduled", "testing", "nlm-controller", 0),
    Edge("customer_assigned", "drain_request", "draining", "customer-team", 4),
    Edge("customer_assigned", "emergency_hw", "emergency_drain", "nlm-controller", 0),
    Edge("draining", "drain_complete", "scheduled_maintenance", "k8s-platform", 2),
    Edge("draining", "drain_timeout", "emergency_drain", "nlm-controller", 0),
    Edge("emergency_drain", "drain_complete", "repair", "nlm-controller", 0),
    Edge("scheduled_maintenance", "repair_start", "repair", "partner-teams", 3),
    Edge("scheduled_maintenance", "testing_scheduled", "testing", "nlm-controller", 0),
    Edge("repair", "repair_complete", "testing", "partner-teams", 3),
    Edge("repair", "rma_needed", "rma", "nlm-controller", 0),
    Edge("rma", "rma_complete", "provisioning", "dc-infra", 3),
    Edge("certified_ready", "decommission", "decommissioned", "dc-infra", 0),
    Edge("repair", "decommission", "decommissioned", "dc-infra", 0),
    Edge("rma", "decommission", "decommissioned", "dc-infra", 0) }

Trigger == { e.trigger : e \in Transitions }

Owner == Callers \cup { e.owner : e \in Transitions } \cup { "", "nlm-reconciler" }

-----------------------------------------------------------------------------
(* The row of a node *)

Cordon == [on : BOOLEAN, by : Owner, prio : Priority]
NoCordon == [on |-> FALSE, by |-> "", prio |-> 4]

Row == [state : State, protected : BOOLEAN, cordon : Cordon, health : Health]

(***************************************************************************)
(* Reading a row back: health_score is `row["health_score"] or 1.0', so a  *)
(* stored 0.0 is read as full health.                                      *)
(***************************************************************************)
FromDb(r) == [r EXCEPT !.health = IF @ = 0 THEN 10 ELSE @]

-----------------------------------------------------------------------------
(* StateMachine.transition *)

\* Mutants: the protection check forgotten; the table keyed by trigger alone
PermittedToAnyone(r, e) == e.from = r.state

PermittedByTrigger(r, e) ==
    r.protected /\ r.state = "customer_assigned" => e.prio = 0

\* The table has the edge and customer protection lets it through.
Permitted(r, e) ==
    /\ e.from = r.state
    /\ r.protected /\ r.state = "customer_assigned" => e.prio = 0

AutoCordonStates == { "repair", "rma", "emergency_drain" }

CordonAfter(c, e) ==
    IF e.to \in AutoCordonStates
    THEN [on |-> TRUE, by |-> e.owner, prio |-> e.prio]
    ELSE IF e.to = "certified_ready"
    THEN [on |-> FALSE, by |-> "", prio |-> c.prio]
    ELSE c

\* Mutant: the flag is set on assignment and never cleared
ProtectedForEver(r, e) == e.to = "customer_assigned" \/ r.protected

ProtectedAfter(r, e) ==
    \/ e.to = "customer_assigned"
    \/ r.protected /\ e.from # "customer_assigned"

After(r, e) == [
    state     |-> e.to,
    protected |-> ProtectedAfter(r, e),
    cordon    |-> CordonAfter(r.cordon, e),
    health    |-> IF e.to = "certified_ready" THEN 10 ELSE r.health ]

-----------------------------------------------------------------------------
(* cordon.py *)

\* Mutant: the arbitration compares the wrong way round
CordonPermittedInverted(r, prio) == r.cordon.on => prio >= r.cordon.prio

CordonPermitted(r, prio) == r.cordon.on => prio <= r.cordon.prio

Cordoned(r, owner, prio) ==
    [r EXCEPT !.cordon = [on |-> TRUE, by |-> owner, prio |-> prio]]

UncordonPermitted(r, requester, force) ==
    r.cordon.on => force \/ r.cordon.by = requester

Uncordoned(r) == IF r.cordon.on THEN [r EXCEPT !.cordon = NoCordon] ELSE r

-----------------------------------------------------------------------------
(* Fault injection (api.py): a CRITICAL or HIGH fault cordons at P0, which *)
(* arbitration never refuses; every fault costs 0.3 of health.             *)

\* Mutant: the score is not kept from falling below zero
InjectedUnbounded(r, severe) ==
    LET q == IF severe THEN Cordoned(r, "nlm-controller", 0) ELSE r
    IN  [q EXCEPT !.health = @ - 3]

Injected(r, severe) ==
    LET q == IF severe THEN Cordoned(r, "nlm-controller", 0) ELSE r
    IN  [q EXCEPT !.health = IF @ < 3 THEN 0 ELSE @ - 3]

-----------------------------------------------------------------------------
(* The rows that the fleet is seeded with (mock_fleet.py). *)

SeedStates == { "customer_assigned", "certified_ready", "testing", "repair", "rma",
                "provisioning", "burn_in", "scheduled_maintenance" }

SeedHealth(s) ==
    CASE s \in { "repair", "rma" } -> { 3 }
      [] s = "provisioning"       -> { 5, 10 }
      [] OTHER                    -> { 10 }

SeedRows(s) == {
    [ state     |-> s,
      protected |-> s = "customer_assigned",
      cordon    |-> IF s \in { "repair", "rma" }
                    THEN [on |-> TRUE, by |-> "nlm-controller", prio |-> 4] ELSE NoCordon,
      health    |-> h ] : h \in SeedHealth(s) }
=============================================================================
