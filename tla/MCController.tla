---------------------------- MODULE MCController ----------------------------
(* Values of the constants of NLMController for TLC. *)
EXTENDS DocumentedClaims

CONSTANTS n1, n2, n3, n4, n5

OneRack == [n \in Nodes |-> "rackA"]
TwoRacks == [n \in Nodes |-> IF n = n5 THEN "rackB" ELSE "rackA"]

AllTriggers == Trigger

\* The way back from rma is left out: nodes that are returned stay away.
WithoutRma == Trigger \ { "rma_complete" }
=============================================================================
