-------------------------- MODULE DocumentedClaims --------------------------
(***************************************************************************)
(* What the architecture document says of the controller and the code does *)
(* not do.  The run claim_customers finds it violated; README.md tells the *)
(* counterexample.                                                         *)
(***************************************************************************)
EXTENDS NLMController

\* The step is one of an operator: no client ends a request.
OperatorWrites == row' # row /\ req' = req

(***************************************************************************)
(* "Customer-assigned nodes are never tested or drained without explicit   *)
(* approval" (NLM-Architecture-Document.md:76): the operators leave a      *)
(* healthy assigned node where it is.                                      *)
(***************************************************************************)
HealthyCustomersLeftAlone ==
    [][\A n \in Nodes :
          OperatorWrites /\ row[n].state = "customer_assigned" /\ row[n].health >= 7
          => row'[n].state = "customer_assigned"]_vars
=============================================================================
