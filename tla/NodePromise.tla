---------------------------- MODULE NodePromise -----------------------------
(***************************************************************************)
(* What the state machine promises about a fleet, whoever drives it: every *)
(* node walks the edges of config/node-states.yml one at a time, and leaves *)
(* a customer only by a P0 edge.  No operators, requests, rows or files.   *)
(***************************************************************************)
EXTENDS NodeLifecycle

CONSTANT Nodes
VARIABLE state

PromisedInit == state \in [Nodes -> SeedStates]

Walk(n) ==
    \E e \in Transitions :
        /\ state[n] = e.from
        /\ e.from = "customer_assigned" => e.prio = 0
        /\ state' = [state EXCEPT ![n] = e.to]

PromisedNext == \E n \in Nodes : Walk(n)

Promise == PromisedInit /\ [][PromisedNext]_state
=============================================================================
