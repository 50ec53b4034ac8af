------------------------ MODULE TenantNodeAssignment ------------------------
(***************************************************************************)
(* The tenant-node-assignment operator with its default workflow           *)
(* (internal/controller, internal/workflow/engine.go, config.go).          *)
(*                                                                         *)
(* One worker reconciles one assignment at a time.  All reads go through   *)
(* the manager's cached client: they return what a watch has delivered so  *)
(* far.  Every Update writes the whole object it was read as, and is       *)
(* refused with a conflict when the object has been written since.  An     *)
(* object in `behind' has a version the caches have not seen.              *)
(* A step of the workflow is one action: it reads and writes at most one   *)
(* object, and a write of others between the two is a write before the     *)
(* read that the cache does not show yet.                                  *)
(***************************************************************************)
EXTENDS Naturals

CONSTANTS
    Assignments,    \* the TenantNodeAssignment resources ever created
    Machines,       \* the Kubernetes nodes
    ReadinessMap,   \* the readiness ConfigMap
    Tenant,         \* Tenant[a]: spec.tenantRef of a
    Uses,           \* Uses[a]: what users do to a once it is created
    MaxRestarts     \* the number of times the operator may be restarted

Tenants == { Tenant[a] : a \in Assignments }
Keys == Tenants \X Machines

(***************************************************************************)
(* No key has two owners (ARCHITECTURE-REVIEW.md, Design Decisions).       *)
(***************************************************************************)
ASSUME AssignmentAssumption ==
    /\ "none" \notin Tenants
    /\ \A a, b \in Assignments : Tenant[a] = Tenant[b] => a = b
    /\ Uses \in [Assignments -> SUBSET { "edit", "delete", "recreate" }]
    /\ ReadinessMap \notin Assignments \cup Machines
    /\ Assignments \cap Machines = {}
    /\ MaxRestarts \in Nat

VARIABLES
    cr,         \* cr[a]: resource a in the API server
    machine,    \* machine[n]: node n in the API server
    ready,      \* the keys of the readiness ConfigMap
    crSeen, machineSeen, readySeen,     \* the same in the operator's caches
    behind,     \* the objects whose newest version no cache has
    queue,      \* the work queue, RequeueAfter timers included
    job,        \* the reconciliation under way
    restarts    \* how often the operator has been restarted

api == <<cr, machine, ready>>
caches == <<crSeen, machineSeen, readySeen>>
vars == <<cr, machine, ready, crSeen, machineSeen, readySeen, behind, queue, job, restarts>>

-----------------------------------------------------------------------------

Objects == Assignments \cup Machines \cup { ReadinessMap }

\* LabelApplied is only ever set in memory: a later status replaces it.
Phase == { "", "Pending", "AwaitingNodeAgent", "Ready", "Failed" }

(***************************************************************************)
(* `observed': status.observedGeneration is the generation of the spec.    *)
(* `again': a deleted resource had this name.                              *)
(***************************************************************************)
CR == [life : { "new", "live", "deleting", "gone" }, again : BOOLEAN, on : BOOLEAN, node : Machines,
       finalizer : BOOLEAN, phase : Phase, observed : BOOLEAN]

Machine == [present : BOOLEAN, label : Tenants \cup { "none" }, agent : BOOLEAN]

Steps == { "finalizer", "label", "record", "status", "unlabel", "unrecord", "finish" }

Idle == [step |-> "idle"]

\* `copy' is the resource as Reconcile fetched it; `current': it is the newest;
\* `phase' is the one that the status update will write.
Job == [step : Steps, of : Assignments, copy : CR, current : BOOLEAN, phase : Phase]

TypeOK ==
    /\ cr \in [Assignments -> CR] /\ crSeen \in [Assignments -> CR]
    /\ machine \in [Machines -> Machine] /\ machineSeen \in [Machines -> Machine]
    /\ ready \subseteq Keys /\ readySeen \subseteq Keys
    /\ behind \subseteq Objects
    /\ queue \subseteq Assignments
    /\ job \in Job \cup { Idle }
    /\ restarts \in 0..MaxRestarts

\* Nothing is left of resource r, but its name, and a node for the next one.
Removed(r) == [r EXCEPT !.life = "gone", !.on = TRUE, !.finalizer = FALSE,
                        !.phase = "", !.observed = FALSE]

Init ==
    /\ cr \in [Assignments -> { r \in CR :
          /\ r.life = "new" /\ ~r.again /\ r.on /\ ~r.finalizer /\ r.phase = "" /\ ~r.observed }]
    /\ machine = [n \in Machines |-> [present |-> TRUE, label |-> "none", agent |-> FALSE]]
    /\ ready = {}
    /\ crSeen = cr /\ machineSeen = machine /\ readySeen = ready
    /\ behind = {} /\ queue = {} /\ job = Idle /\ restarts = 0

-----------------------------------------------------------------------------
(* Users, nodes and their agents *)

\* Somebody else writes resource a: a copy under way is no longer the newest.
UserWrites(a, r) ==
    /\ cr' = [cr EXCEPT ![a] = r]
    /\ behind' = behind \cup { a }
    /\ job' = IF job # Idle /\ job.of = a THEN [job EXCEPT !.current = FALSE] ELSE job
    /\ UNCHANGED <<machine, ready, caches, queue, restarts>>

Create(a) ==
    /\ \/ cr[a].life = "new"
       \/ cr[a].life = "gone" /\ "recreate" \in Uses[a] /\ ~cr[a].again
    /\ UserWrites(a, [cr[a] EXCEPT !.life = "live", !.again = cr[a].life = "gone"])

\* Without a finalizer a deleted resource is gone at once.
Delete(a) ==
    /\ "delete" \in Uses[a] /\ cr[a].life = "live"
    /\ UserWrites(a, IF cr[a].finalizer THEN [cr[a] EXCEPT !.life = "deleting"]
                                        ELSE Removed(cr[a]))

Edit(a) ==
    /\ "edit" \in Uses[a] /\ cr[a].life = "live"
    /\ \E on \in BOOLEAN, n \in Machines :
          /\ on # cr[a].on \/ n # cr[a].node
          /\ UserWrites(a, [cr[a] EXCEPT !.on = on, !.node = n, !.observed = FALSE])

MachineWrites(n, m) ==
    /\ machine' = [machine EXCEPT ![n] = m]
    /\ behind' = behind \cup { n }
    /\ UNCHANGED <<cr, ready, caches, queue, job, restarts>>

\* The node agent has done its part for the tenant whose label it found.
AgentSignals(n) ==
    /\ machine[n].present /\ machine[n].label # "none" /\ ~machine[n].agent
    /\ MachineWrites(n, [machine[n] EXCEPT !.agent = TRUE])

\* The kubelet writes what the operator does not look at.
Heartbeat(n) ==
    /\ machine[n].present
    /\ MachineWrites(n, machine[n])

Leave(n) ==
    /\ machine[n].present
    /\ MachineWrites(n, [present |-> FALSE, label |-> "none", agent |-> FALSE])

Environment ==
    \/ \E a \in Assignments : Create(a) \/ Delete(a) \/ Edit(a)
    \/ \E n \in Machines : AgentSignals(n) \/ Heartbeat(n) \/ Leave(n)

-----------------------------------------------------------------------------
(* Watches *)

\* An event of an assignment is also what puts it on the queue.
SyncAssignment(a) ==
    /\ a \in behind
    /\ crSeen' = [crSeen EXCEPT ![a] = cr[a]]
    /\ behind' = behind \ { a }
    /\ queue' = queue \cup { a }
    /\ UNCHANGED <<api, machineSeen, readySeen, job, restarts>>

SyncMachine(n) ==
    /\ n \in behind
    /\ machineSeen' = [machineSeen EXCEPT ![n] = machine[n]]
    /\ behind' = behind \ { n }
    /\ UNCHANGED <<api, crSeen, readySeen, queue, job, restarts>>

SyncReadiness ==
    /\ ReadinessMap \in behind
    /\ readySeen' = ready
    /\ behind' = behind \ { ReadinessMap }
    /\ UNCHANGED <<api, crSeen, machineSeen, queue, job, restarts>>

-----------------------------------------------------------------------------
(* Reconcile *)

GoOn(step, phase) == job' = [job EXCEPT !.step = step, !.phase = phase]

\* Reconcile returns; `again': with an error, Requeue or RequeueAfter
Return(again) ==
    /\ job' = Idle
    /\ queue' = IF again THEN queue \cup { job.of } ELSE queue

\* Mutant: what is ready is skipped, whatever its spec has become
StartSkippingReady(a) ==
    /\ job = Idle /\ a \in queue /\ crSeen[a].phase = "Ready"
    /\ queue' = queue \ { a }
    /\ UNCHANGED <<api, caches, behind, job, restarts>>

\* Reconcile fetches the resource and decides what is to be done.
Start(a) ==
    LET r == crSeen[a]
        Begin(step, phase) ==
            job' = [step |-> step, of |-> a, copy |-> r, current |-> a \notin behind,
                    phase |-> phase]
    IN  /\ job = Idle /\ a \in queue
        /\ queue' = queue \ { a }
        /\ \/ r.life \in { "new", "gone" } /\ UNCHANGED job
           \/ r.life = "deleting" /\ Begin("unlabel", r.phase)
           \/ r.life = "live" /\ ~r.finalizer /\ Begin("finalizer", r.phase)
           \/ r.life = "live" /\ r.finalizer /\ ~r.on /\ Begin("status", "Pending")
           \/ r.life = "live" /\ r.finalizer /\ r.on /\ Begin("label", r.phase)
        /\ UNCHANGED <<api, caches, behind, restarts>>

\* The operator writes its copy of the resource, unless that is out of date.
WriteCopy(r) ==
    /\ cr' = [cr EXCEPT ![job.of] = r]
    /\ behind' = behind \cup { job.of }
    /\ UNCHANGED <<machine, ready>>

AddFinalizer ==
    /\ job.step = "finalizer"
    /\ \/ job.current /\ WriteCopy([job.copy EXCEPT !.finalizer = TRUE])
       \/ ~job.current /\ UNCHANGED <<api, behind>>
    /\ Return(TRUE)
    /\ UNCHANGED <<caches, restarts>>

\* client.Update of the node that was read from the cache
Relabel(n, t) ==
    /\ machine' = [machine EXCEPT ![n] = [machineSeen[n] EXCEPT !.label = t]]
    /\ behind' = behind \cup { n }
    /\ UNCHANGED <<cr, ready>>

\* fetchNode, setLabel and checkAnnotation, all on one copy of the node
ApplyLabel ==
    LET n == job.copy.node
        t == Tenant[job.of]
        Checked == IF machineSeen[n].agent
                   THEN GoOn("record", job.phase) ELSE GoOn("status", "AwaitingNodeAgent")
    IN  /\ job.step = "label"
        /\ \/ ~machineSeen[n].present /\ GoOn("status", "Failed") /\ UNCHANGED <<api, behind>>
           \/ /\ machineSeen[n].present /\ machineSeen[n].label = t
              /\ Checked /\ UNCHANGED <<api, behind>>
           \/ /\ machineSeen[n].present /\ machineSeen[n].label # t
              /\ \/ n \in behind /\ GoOn("status", "Failed") /\ UNCHANGED <<api, behind>>
                 \/ n \notin behind /\ Relabel(n, t) /\ Checked
        /\ UNCHANGED <<caches, queue, restarts>>

Key == <<Tenant[job.of], job.copy.node>>

\* client.Update (or Create) of the ConfigMap that was read from the cache
Rewrite(keys) ==
    /\ ready' = keys
    /\ behind' = behind \cup { ReadinessMap }
    /\ UNCHANGED <<cr, machine>>

\* Mutants: a failed Update taken for a success; an Update without a
\* resourceVersion, which overwrites; the phase kept in memory is stored
RecordReadinessIgnoringFailure ==
    /\ job.step = "record"
    /\ GoOn("status", "Ready")
    /\ IF Key \in readySeen \/ ReadinessMap \in behind
       THEN UNCHANGED <<api, behind>> ELSE Rewrite(readySeen \cup { Key })
    /\ UNCHANGED <<caches, queue, restarts>>

RecordReadinessOverwriting ==
    /\ job.step = "record"
    /\ GoOn("status", "Ready")
    /\ Rewrite(readySeen \cup { Key })
    /\ UNCHANGED <<caches, queue, restarts>>

RecordReadinessKeepingPhase ==
    /\ job.step = "record"
    /\ GoOn("status", "LabelApplied")
    /\ UNCHANGED <<api, caches, behind, queue, restarts>>

RecordReadiness ==
    /\ job.step = "record"
    /\ \/ Key \in readySeen /\ GoOn("status", "Ready") /\ UNCHANGED <<api, behind>>
       \/ /\ Key \notin readySeen
          /\ \/ ReadinessMap \in behind /\ GoOn("status", "Failed") /\ UNCHANGED <<api, behind>>
             \/ /\ ReadinessMap \notin behind
                /\ Rewrite(readySeen \cup { Key }) /\ GoOn("status", "Ready")
    /\ UNCHANGED <<caches, queue, restarts>>

\* Mutant: a waiting workflow is not requeued
UpdateStatusWithoutRequeue ==
    LET r == [job.copy EXCEPT !.phase = job.phase, !.observed = TRUE]
    IN  /\ job.step = "status"
        /\ \/ job.current /\ WriteCopy(r)
           \/ (job.current => r = job.copy) /\ UNCHANGED <<api, behind>>
        /\ Return(~job.current)
        /\ UNCHANGED <<caches, restarts>>

\* Mutant: a patch of the whole copy, which no version guards
UpdateStatusOverwriting ==
    /\ job.step = "status"
    /\ WriteCopy([job.copy EXCEPT !.phase = job.phase, !.observed = TRUE])
    /\ Return(job.phase = "AwaitingNodeAgent")
    /\ UNCHANGED <<caches, restarts>>

(***************************************************************************)
(* Status().Update.  An update that changes nothing makes no new version;  *)
(* whether an unchanged phase changes nothing depends on the second that   *)
(* lastTransitionTime shows.  Only a waiting workflow is requeued, and it  *)
(* is whatever becomes of the update; for the others an error is needed.   *)
(***************************************************************************)
UpdateStatus ==
    LET r == [job.copy EXCEPT !.phase = job.phase, !.observed = TRUE]
    IN  /\ job.step = "status"
        /\ \/ job.current /\ WriteCopy(r)
           \/ job.current /\ r = job.copy /\ UNCHANGED <<api, behind>>
           \/ ~job.current /\ UNCHANGED <<api, behind>>
        /\ Return(job.phase = "AwaitingNodeAgent" \/ ~job.current)
        /\ UNCHANGED <<caches, restarts>>

\* Mutant: the cleanup gives up when the node is not found
RemoveLabelGivingUp ==
    LET n == job.copy.node
    IN  /\ job.step = "unlabel"
        /\ \/ machineSeen[n].present /\ GoOn("unrecord", job.phase) /\ UNCHANGED queue
           \/ ~machineSeen[n].present /\ Return(FALSE)
        /\ UNCHANGED <<api, caches, behind, restarts>>

\* fetchNode and removeLabel of the cleanup: whatever fails, it goes on.
RemoveLabel ==
    LET n == job.copy.node
        labelled == machineSeen[n].present /\ machineSeen[n].label # "none"
    IN  /\ job.step = "unlabel"
        /\ \/ labelled /\ n \notin behind /\ Relabel(n, "none")
           \/ ~(labelled /\ n \notin behind) /\ UNCHANGED <<api, behind>>
        /\ GoOn("unrecord", job.phase)
        /\ UNCHANGED <<caches, queue, restarts>>

RemoveReadiness ==
    /\ job.step = "unrecord"
    /\ \/ Key \in readySeen /\ ReadinessMap \notin behind /\ Rewrite(readySeen \ { Key })
       \/ ~(Key \in readySeen /\ ReadinessMap \notin behind) /\ UNCHANGED <<api, behind>>
    /\ GoOn("finish", job.phase)
    /\ UNCHANGED <<caches, queue, restarts>>

\* Without its finalizer a resource that is being deleted is gone.
RemoveFinalizer ==
    /\ job.step = "finish"
    /\ \/ job.current /\ WriteCopy(Removed(job.copy))
       \/ ~job.current /\ UNCHANGED <<api, behind>>
    /\ Return(~job.current)
    /\ UNCHANGED <<caches, restarts>>

\* The process dies and starts: it lists everything before it reconciles.
Restart ==
    /\ restarts < MaxRestarts
    /\ restarts' = restarts + 1
    /\ job' = Idle
    /\ queue' = { a \in Assignments : cr[a].life \in { "live", "deleting" } }
    /\ crSeen' = cr /\ machineSeen' = machine /\ readySeen' = ready
    /\ behind' = {}
    /\ UNCHANGED api

Watch ==
    \/ \E a \in Assignments : SyncAssignment(a)
    \/ \E n \in Machines : SyncMachine(n)
    \/ SyncReadiness

Work ==
    \/ AddFinalizer \/ ApplyLabel \/ RecordReadiness \/ UpdateStatus
    \/ RemoveLabel \/ RemoveReadiness \/ RemoveFinalizer

Next ==
    \/ Environment
    \/ Watch
    \/ \E a \in Assignments : Start(a)
    \/ Work
    \/ Restart

Spec == Init /\ [][Next]_vars

(***************************************************************************)
(* Watches deliver, a reconciliation goes on, what is queued has its turn, *)
(* and an agent that finds a label signals in the end.                     *)
(***************************************************************************)
Fairness ==
    /\ \A a \in Assignments : WF_vars(SyncAssignment(a)) /\ SF_vars(Start(a))
    /\ \A n \in Machines : WF_vars(SyncMachine(n)) /\ WF_vars(AgentSignals(n))
    /\ WF_vars(SyncReadiness)
    /\ WF_vars(Work)

FairSpec == Spec /\ Fairness

-----------------------------------------------------------------------------

(***************************************************************************)
(* "Deleting CR1 only removes its key" (ARCHITECTURE-REVIEW.md:371): a     *)
(* reconciliation, which writes back the whole ConfigMap or node as some   *)
(* cache had it, changes nothing of others: of the map only its own key,   *)
(* of nodes only the label of its own node.                                *)
(***************************************************************************)
TouchesOnlyItsOwn ==
    [][job # Idle =>
          /\ \A k \in Keys \ { Key } : k \in ready <=> k \in ready'
          /\ Work => \A n \in Machines :
                machine'[n] # machine[n]
                => n = job.copy.node /\ machine'[n] = [machine[n] EXCEPT !.label = machine'[n].label]]_vars

(***************************************************************************)
(* "PhaseReady indicates the assignment is complete and readiness          *)
(* ConfigMap updated" (tenantnodeassignment_types.go:19): as long as its   *)
(* spec is the one that was observed, a ready resource has its key in the  *)
(* ConfigMap, through stale caches, conflicts and restarts.  A name that   *)
(* is used again may meet a cache that still shows the old entry.          *)
(***************************************************************************)
ReadyIsRecorded ==
    \A a \in Assignments :
        cr[a].life = "live" /\ ~cr[a].again /\ cr[a].phase = "Ready" /\ cr[a].observed
        => <<Tenant[a], cr[a].node>> \in ready

\* What users see of a resource: the spec they gave it, and its status
SpecOf(r) == [life |-> r.life, again |-> r.again, on |-> r.on, node |-> r.node]
StatusOf(r) == [phase |-> r.phase, observed |-> r.observed]

Specs == [a \in Assignments |-> SpecOf(cr[a])]
Statuses == [a \in Assignments |-> StatusOf(cr[a])]

Promise == INSTANCE AssignmentPromise WITH
    spec <- Specs, status <- Statuses, recorded <- ready

(***************************************************************************)
(* Caches, conflicts and restarts do not show: the operator implements the *)
(* promise, in which no edit or deletion is ever undone by a write of an   *)
(* older copy, a status is true of the spec that it stands beside, and     *)
(* entries are taken out for deleted resources alone (Reconcile).          *)
(***************************************************************************)
KeepsAssignments == Promise!Spec

(***************************************************************************)
(* A deletion ends, whatever is refused on the way (runCleanupWorkflow).   *)
(***************************************************************************)
DeletionCompletes ==
    \A a \in Assignments : cr[a].life = "deleting" ~> cr[a].life = "gone"

(***************************************************************************)
(* Waiting for the node agent ends, although nodes are not watched: the    *)
(* requeue after each look at the node is what notices the annotation.     *)
(***************************************************************************)
WaitingEnds ==
    \A a \in Assignments :
        cr[a].life = "live" /\ cr[a].phase = "AwaitingNodeAgent"
        ~> cr[a].life # "live" \/ cr[a].phase # "AwaitingNodeAgent"
           \/ ~cr[a].on \/ ~cr[a].observed

(***************************************************************************)
(* "Fix the issue, update the CR - operator will retry"                    *)
(* (ARCHITECTURE-REVIEW.md:109): whatever spec a resource is given, it is  *)
(* observed in the end, unless it is changed again first.                  *)
(***************************************************************************)
EditsAreServed ==
    \A a \in Assignments, on \in BOOLEAN, n \in Machines :
        cr[a].life = "live" /\ ~cr[a].observed /\ cr[a].on = on /\ cr[a].node = n
        ~> cr[a].life # "live" \/ cr[a].observed \/ cr[a].on # on \/ cr[a].node # n

(***************************************************************************)
(* "Delete the old CR -> old label is cleaned up via cleanup steps"        *)
(* (ARCHITECTURE-REVIEW.md:210): a node is only labelled with a tenant     *)
(* whose assignment is still there.  The code does not keep this.          *)
(***************************************************************************)
NoLabelLeftBehind ==
    \A n \in Machines : \A a \in Assignments :
        machine[n].label = Tenant[a] => cr[a].life # "gone"
=============================================================================
