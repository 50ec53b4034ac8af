----------------------- MODULE MCTenantNodeAssignment -----------------------
(* Values of the constants of TenantNodeAssignment for TLC. *)
EXTENDS TenantNodeAssignment, TLC

CONSTANTS a1, a2, n1

\* One tenant for each assignment
TenantOf == [a \in Assignments |-> IF a = a1 THEN "alpha" ELSE "beta"]

\* The first name is used again; of the others, users only ever create them.
Swaps == [a \in Assignments |-> IF a = a1 THEN { "delete", "recreate" } ELSE {}]

Everything == [a \in Assignments |-> { "edit", "delete", "recreate" }]

Deletes == [a \in Assignments |-> { "delete" }]
=============================================================================
