------------------------- MODULE AssignmentPromise --------------------------
(***************************************************************************)
(* What the operator promises to whoever creates an assignment, as if it   *)
(* saw everything at once: no caches, queue, conflicts or restarts.  The   *)
(* spec is the user's alone, the status is about the spec that stands, and *)
(* an entry is taken out only for a resource that was deleted.             *)
(***************************************************************************)
CONSTANTS Assignments, Machines, Tenant

VARIABLES
    spec,       \* spec[a]: the life of resource a, and what its user wants
    status,     \* status[a]: what the operator tells of it
    recorded    \* the keys of the readiness ConfigMap

Unserved == [phase |-> "", observed |-> FALSE]

Init ==
    /\ spec \in [Assignments ->
          [life : { "new" }, again : { FALSE }, on : { TRUE }, node : Machines]]
    /\ status = [a \in Assignments |-> Unserved]
    /\ recorded = {}

-----------------------------------------------------------------------------
(* Users *)

Creates(a) ==
    /\ spec[a].life = "new" \/ (spec[a].life = "gone" /\ ~spec[a].again)
    /\ spec' = [spec EXCEPT ![a].life = "live", ![a].again = spec[a].life = "gone"]
    /\ UNCHANGED <<status, recorded>>

Edits(a) ==
    /\ spec[a].life = "live"
    /\ \E on \in BOOLEAN, n \in Machines :
          spec' = [spec EXCEPT ![a].on = on, ![a].node = n]
    /\ status' = [status EXCEPT ![a].observed = FALSE]
    /\ UNCHANGED recorded

Deletes(a) ==
    /\ spec[a].life = "live"
    /\ spec' = [spec EXCEPT ![a].life = "deleting"]
    /\ UNCHANGED <<status, recorded>>

\* A resource goes when its cleanup has ended, or before anybody took charge of it.
Goes(a) ==
    /\ spec[a].life \in { "live", "deleting" }
    /\ spec[a].life = "live" => status[a] = Unserved
    /\ spec' = [spec EXCEPT ![a].life = "gone", ![a].on = TRUE]
    /\ status' = [status EXCEPT ![a] = Unserved]
    /\ UNCHANGED recorded

-----------------------------------------------------------------------------
(* The operator *)

\* A status that is true of the spec as it stands: only what is switched off is
\* pending, and what is ready has its entry, if the name is used for the first time.
Reports(a, phase) ==
    /\ spec[a].life = "live"
    /\ phase = "Pending" <=> ~spec[a].on
    /\ phase = "Ready" /\ ~spec[a].again => <<Tenant[a], spec[a].node>> \in recorded
    /\ status' = [status EXCEPT ![a] = [phase |-> phase, observed |-> TRUE]]
    /\ UNCHANGED <<spec, recorded>>

Records(a, n) ==
    /\ spec[a].life # "new"
    /\ recorded' = recorded \cup { <<Tenant[a], n>> }
    /\ UNCHANGED <<spec, status>>

Forgets(a, n) ==
    /\ spec[a].life \in { "deleting", "gone" } \/ spec[a].again
    /\ recorded' = recorded \ { <<Tenant[a], n>> }
    /\ UNCHANGED <<spec, status>>

Next ==
    \E a \in Assignments :
        \/ Creates(a) \/ Edits(a) \/ Deletes(a) \/ Goes(a)
        \/ \E phase \in { "Pending", "AwaitingNodeAgent", "Ready", "Failed" } :
              Reports(a, phase)
        \/ \E n \in Machines : Records(a, n) \/ Forgets(a, n)

Spec == Init /\ [][Next]_<<spec, status, recorded>>
=============================================================================
