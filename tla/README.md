# Verification of the compute lifecycle manager

TLA+ modules, TLC configurations and TLAPS proofs about the compute lifecycle
manager in `src/`. The core is the NLM controller, `src/clm-controller/nlm`: a
FastAPI service with a SQLite node table, a directory of GitOps files, and three
operators that share both with API and CLI callers. Beside it stands a Kubernetes
operator in Go, `src/tenant-node-assignment-operator`. This file describes what is
modelled, what is checked and proved, and what is planned.

## 1. Inventory

### NLM controller (`src/clm-controller`)

| Part | State | Operations | What is hard |
|---|---|---|---|
| State machine (`config/node-states.yml`, `statemachine.py`) | a node's state, protection flag, cordon, health | `transition` along 21 edges | protection against priorities, auto-cordon against arbitration |
| Cordon arbitration (`cordon.py`) | the cordon | `cordon`, `uncordon` | bypassed by transitions |
| Node store (`db.py`) | rows, events, incidents | whole-row `get_node`, `list_nodes`, `save_node`; `save_event` in a commit of its own | no transaction spans read and save |
| GitOps files (`gitops.py`) | desired state per node, maintenance requests per node and day, policies; operation requests, cordons, incidents (written and listed) | write in two steps (empty, then filled), list | files outlive the situation they were written for |
| REST API, CLI (`api.py`, `cli.py`) | none | transition, cordon, uncordon, inject | endpoints run on a thread pool, CLI commands in other processes: they overlap each other and the ticks |
| Reconciler (`operators/reconciler.py`) | the rows listed by the tick | cordon and repair critical nodes, ask BMaaS customers, follow desired-state files | writes the files it later follows; failing calls |
| Maintenance (`operators/maintenance.py`) | the rows listed by the tick | timeouts, repair slots per rack, approvals | counts on rows that change under it |
| Testing (`operators/testing.py`) | `_testing_since` | stale certificates, results | timers in memory |
| Operator loop (`operators/base.py`, `manager.py`) | running, enabled, the loop's task | start, stop, toggle, trigger, tick | exceptions end a tick in the middle; a stop and a start within one sleep |
| Classifier, correlator (`classifier.py`) | events of five minutes, one list in the API and one in the reconciler | classify, add, correlate | lives in memory, expires by time but only when something is added |
| Alerts (`alerts.py`) | a file of lines | send, read the newest | written before the row of the fault |
| Backend adapters (`adapters.py`, `adapters/`) | none of their own: BCM, Slurm, MAAS, Kubernetes, sensors | cordon, uncordon, drain, reboot, reimage, metadata, reads | several commands per operation, of which one result counts; time limits after which a command may still take effect |
| Reading pages (`api.py`, `cli.py`) | none | lists, capacity, topology, firmware, metrics, NetBox export | the same fleet summed up in SQL and in Python, over a table that others write |

Requests and operators interact through the node table only; operators
also through desired-state files, which the reconciler follows whoever wrote
them, and people through those files and through maintenance requests. Nothing in
the controller calls the adapters yet: they are a library beside it.

### Tenant-node-assignment operator (`src/tenant-node-assignment-operator`)

| Part | State | Operations | What is hard |
|---|---|---|---|
| Reconciler (`internal/controller`) | none of its own: resource phase, observed generation, finalizer | `Reconcile`, cleanup on deletion, status updates | the resource changes under way, updates are refused, failures are not requeued |
| Workflow engine (`internal/workflow`, `internal/config`) | the node and resource it has fetched | label the node, wait for the agent's annotation, record readiness; remove both | reads from caches that lag, writes of whole objects, cleanup that ignores failures |
| Kubernetes, kubelets, node agents, users (outside) | resources, nodes, the readiness ConfigMap, caches, work queue | writes, watch events | in any order with the above |

The two systems do not call each other.

### Not modelled

* Programs that print (about 5900 of the repository's lines of Python): the generators of slides,
  documents and dashboards, and the metrics servers. They keep no state, and all their
  behaviour is wording and layout.
* The fleet validator's shell scripts, Ansible playbooks, roles and inventories: scripts
  around tools that are not in the repository.
* The demonstration server and the readiness package of the Go operator, which nothing
  calls, and generated code.
* In the controller: authentication, lists of constants (rules, runbooks, the static page of
  incidents), console output, `send_pagerduty` and `delete_cordon` (no callers), the `alerts` table
  (no writer) and the `netbox_devices` table (no reader).
* In the adapters: what reads return, and operations outside the common interface.
* In the Go operator: the step types only custom workflows use.

### What makes it correct

* Whatever overlaps, rows stay consistent: the protection flag says what the state
  says (`ProtectionMatchesState`).
* A customer loses a node only by a P0 edge (`AssignedLeavesByEmergency`), an
  operator takes no node out of the fleet (`RetiredOnlyByClients`), a cordon loses
  authority only where the code means it (`CordonWeakenedOnlyByRepairStart`), a rack
  keeps its repair limit (`RackLimit`).
* Without overlap no save undoes another (`NoStaleCopies`), and the whole controller,
  failures included, walks the transition table (`KeepsPromise`).
* Stays with a timeout end (`TimeoutsBite`) and critical nodes are noticed
  (`CriticalIsNoticed`).
* An operator has one loop while it runs (`OneLoop`), incidents are about real faults
  (`IncidentsAreReal`), no fault lowers a score in silence (`FaultsAreAlerted`), and an outage of a
  rack is reported in the end (`OutageIsReported`).
* What is left behind tells no lies (`TrailIsTrue`), requests and approvals are not displaced by
  others (`RequestsAreKept`, `ApprovalsOutliveTheDay`), policies survive a crash
  (`PoliciesArePresent`), and all pages tell of the same fleet (`PagesAgree`).
* An adapter that reports success has done what it was asked (`SuccessMeansDone`), no machine stays
  off behind its caller's back (`PowerIsAccounted`), every call returns (`EveryCallReturns`), and the
  adapters keep one contract on cordons (`KeepsContract`).
* An assignment that says it is ready has its ConfigMap entry (`ReadyIsRecorded`); no
  reconciliation undoes another's work (`TouchesOnlyItsOwn`); deletions and waits end,
  and edits are served (`DeletionCompletes`, `WaitingEnds`, `EditsAreServed`); and the caches
  do not show: the operator implements a specification without any (`KeepsAssignments`).

## 2. Modules and how they correspond to the code

| Module | Models |
|---|---|
| `NodeLifecycle` | one row as data: the table, `After` (`transition`), `Cordoned`/`Uncordoned`, `Injected`, `FromDb` (`_node_from_row`), the seeded rows |
| `FleetStore` | the variables, the requests of clients, and what ticks have in common (`BeginTick`, `Commit`, `TickRaises`, `Restart`) |
| `ReconcilerOperator`, `MaintenanceOperator`, `TestingOperator` | `run_once` of each operator, one action per database call that others can come before |
| `NLMController` | the composition, fairness, and the properties |
| `NodePromise` | the abstract specification: every node walks the table's edges one at a time, and leaves a customer only at P0 |
| `DocumentedClaims` | what a document says and the code does not do |
| `IncidentCorrelator` | `classifier.py`: severities and routes of faults, the sliding window, the three correlations |
| `OperatorLoop` | `operators/base.py`: one operator's loop, without what its ticks do |
| `FaultReporting` | the composition of the two with the fault endpoint, the reconciler's alerts and incidents, scores and the alerts file |
| `FleetViews` | the reading endpoints and commands, as functions of the node table |
| `FleetRecords` | what is written, in which order: rows, events, incidents, files of every kind, alerts; over `FleetViews` |
| `BackendAdapters` | the five adapters as sequences of commands, with refusals, time limits and late effects |
| `BackendContract` | the abstract specification: what `adapters/base.py` promises about cordons |
| `AssignmentPromise` | the abstract specification: what users see of their assignments, as if the operator saw everything at once |
| `TenantNodeAssignment` | the Go operator with its default workflow, and the API server, caches, kubelets, agents and users around it |
| `MCController`, `MCFaultReporting`, `MCFleetRecords`, `MCBackendAdapters`, `MCTenantNodeAssignment` | values of the constants for TLC |
| `NodeLifecycleProofs`, `NLMControllerProofs`, `OperatorProofs` | theorems about the NLM controller: rows, the types and sound rows, what a step makes of the table, what operators never do |
| `FleetViewsProofs` | theorems about the pages as functions of the node table, and the lemmas on sums over sets they rest on |
| `FaultReportingProofs`, `FleetRecordsProofs`, `BackendAdaptersProofs`, `TenantNodeAssignmentProofs` | theorems about fault reporting, the records, the adapters and the Go operator |

Why the controller is split: `NLMController` has the whole interplay of whole-row saves, and
leaves out what nobody acts on (events, alerts, incidents, most files). `FaultReporting` and
`FleetRecords` have those, and take from a node only what they need. Each is small enough to be
explored in full, and what they share (`NodeLifecycle`, `OperatorLoop`) is one definition.

### NLM controller

State: `row` is the node table; `desired`, `maint` the two kinds of files that are read
back; `timers` the keys of `_testing_since`; `req[c]` the row a client has read and
not saved yet; `phase`, `todo`, `snap` the tick in progress: its part, the nodes left
to visit, the operator's copies.

* A request is two steps, `Read` and one of `TransitionNode`, `CordonNode`,
  `UncordonNode`, `InjectFault`, `Refuse`. The save writes the whole copy back
  (`INSERT OR REPLACE`). Its event is not modelled: no code that acts on a node reads
  events.
* The operators share one event loop and `run_once` awaits nothing, so ticks do not
  overlap; requests fall between any two of their calls. `Commit` is one visit that
  saves row, timer and desired-state file, with the prefixes an exception leaves.
* Time is a choice: whether a node is overdue (`TimeOut` or `StaysOn`), a certificate stale
  (`ScheduleTest` or `StillFresh`), a test 20 seconds old (`CollectResults`). The order in
  which a tick visits nodes is arbitrary.
* Health is kept in tenths. Faults are severe (cordon at P0) or not.
* A maintenance request has a status; a second one replaces the file of the same day,
  or joins those of earlier days, either way.
* `drain_requested` is kept as the code spells it: `ApprovedDrain` looks for it in the
  table and finds nothing.
* Left to other modules: events, operation requests, cordon files, incidents and alerts, which
  are only written. Left out: firmware, hardware and other data of a node that no
  handler changes, and the policies (thresholds have the
  default values that `seed_default_policies` writes). The CLI's `setup` is the initial
  state; nobody runs it again on a fleet in service.

The comments `Mutant:` mark faulty variants of the definition that follows. They are part of no
specification; each shows that a property notices a plausible mistake.

### Fault reporting

State: `score` and `retired` are what matters of a row; `heard` the events of the two correlators,
each with its age; `last` when a node was last struck, whoever heard of it; `alerted` the
alerts file; `req` an injection under way; `todo` and `snap` the tick; `running`, `enabled`,
`loops`, `ticking` the loop.

* An injection is read and correlate (`Inject`), `AlertWorker`, `CheckWorker`, `SaveWorker`; a tick is
  `BeginTick` (from `WakeUp` of the loop or `TriggerTick` of a request), one `Handle` per node,
  `Conclude`. Exceptions are branches where the alerts file cannot be written (`muted`).
* A CLI command makes a correlator of its own with one event in it, which correlates with nothing;
  it is left out.
* Time is in units of a fraction of the window; events older than the window stay in the list
  until another event is added, as in the code.
* `FaultsAreAlerted` compares with the score as it is read (`Read`): a stored 0.0 reads as 1.0.

### Records and pages

State: `row`, `events`, `incidents` are tables; `file` maps paths (directory, name, second or day) to
contents, `Empty` between `open` and `close`; `alerts` the lines of the alerts file; `job[p]` the writes
a process has still to make; `asked`, `approved`, `saved` what was done, for the properties.

* Every handler is a plan, the sequence of writes that the code makes (`TransitionPlan`, `IncidentPlan`, ...);
  a process does one write at a time; `Raise` drops what is left of the plan, `Crash` all plans.
* Pages are functions of the table, and of `Inventory`, the columns that no code changes.
* A page is only compared with another when nobody is writing: any table that a page can meet it
  can meet then, because whoever is writing may raise.

### Backend adapters

State: `machine[n]` is what the backend holds about a machine; `call[c]` the commands that an operation has
left; `late` commands that were given up and are still on their way.

* A command is `Done`, `Refused` or `TimedOut`; in the last case it has been done, will never be, has
  got half-way (`Reached`: an eviction begins with a cordon), or strikes later (`Strike`).
* The kind of adapter is chosen in the initial state, so that one run covers all five.
* `doubted` are machines with a `power_off` that was given up and may arrive after the `power_on`. This
  is the one way to a machine left off after a reboot that reported success.

### Tenant-node-assignment operator

State: `cr`, `machine` and `ready` are the resources, nodes and ConfigMap entries in the API
server; `crSeen`, `machineSeen`, `readySeen` what the manager's cache has of them; `behind`
the objects whose cache entry is out of date, whose update the server would refuse (a
resource version is thus a truth value); `queue` the work queue; `job` the
reconciliation under way, with its copy of the resource.

* `Start` is `Reconcile` up to the decision what to do. Then one action per object that
  is read and written: `ApplyLabel` (fetch, label and annotation check, all on one copy of
  the node), `RecordReadiness`, `UpdateStatus`; `RemoveLabel`, `RemoveReadiness`,
  `RemoveFinalizer`; or `AddFinalizer`. A failed update is a branch of each. Between
  a cached read and its update only the version counts, so that another's write between the
  two is the same as one just before the read.
* A cache catches up with one object at a time, in any order, with all writes so far at
  once. Other errors of the API server than conflicts are not modelled: they have the
  outcome of a conflict, without the event that follows one.
* A status update that changes nothing makes no event. Every update sets
  `lastTransitionTime`, to the second, so that an unchanged phase may or may not be a change:
  `UpdateStatus` has both outcomes. (When it is one, the update triggers the next
  reconciliation of a ready resource, again and again.)
* `LabelApplied`, in the documents a phase of its own, is only ever set in memory.
* `validateSpec` always passes: the resource definition demands both names. Tenant and node
  of the readiness key stand for the key; `AssignmentAssumption` gives each assignment a
  tenant of its own, since "key templates should ensure uniqueness"
  (`ARCHITECTURE-REVIEW.md:383`).
* Left out: the step types only custom workflows use, conditions, messages and the other
  status fields, resyncs, and a second replica (leader election lets one work).

`Uses` says what users do to each resource; `MaxRestarts` bounds the restarts of the operator.

`AssignmentPromise` has only the resources, as `spec` and `status`, and the entries; no caches, copies, finalizers, nodes
or queue. There the spec is the user's alone; a status is written only if it is true of the spec at that moment
(`Reports`); an entry is taken out only for a resource that is being deleted, or was (`Forgets`); and a resource goes when
it is being deleted, or before anybody has served it (`Goes`). `KeepsAssignments` maps `spec` and `status` to the fields of `cr`,
and `recorded` to `ready`. It is what optimistic updates are for: a write of an old copy would be an
edit that no user made, or would put back a status of a spec that is no more.

### Environment constants of the NLM controller

`ClientRequests`, `ClientTriggers`, `ClientPriorities`, `Commits`, `Operators` say what
the environment does in a run. `Overlap = FALSE` restricts requests to moments
without another request or tick; `Failures` allows calls to raise and the
process to restart (CLI clients survive a restart, API requests do not).

## 3. Runs

Rows, files, resources and caches are finite data, so that most bounds are those of the sets. The counters
that are bounded by a constant are `MaxRestarts` (restarts of the Go operator), `MaxFaults` (injections),
`MaxCalls` (calls of an adapter), `MaxJobs` (requests and visits that write records) and `MaxTime` (the clock
of file names). Deadlock is checked but where the system rightly comes to rest: in the runs of the assignment
operator (all resources gone) and in `backends` (all calls made).

| Run | Instance | Distinct states | Shows |
|---|---|---|---|
| `interleaved` | 1 node, 1 client with all four requests, all operators, overlap, failures; all triggers but the one that brings nodes back from rma | 2.45 million | types, `ProtectionMatchesState`, `NeverDraining`, `AssignedLeavesByEmergency`, `DecommissionedStays`, `RetiredOnlyByClients`, `CordonWeakenedOnlyByRepairStart` |
| `serial` | 2 nodes (one BMaaS), an API and a CLI client, commits of a desired state, all operators, failures, no overlap | 264 000 | `NoStaleCopies`, and the refinement `KeepsPromise` |
| `racks` | 5 nodes, 2 racks, maintenance operator | 90 000 | `RackLimit` |
| `timeouts` | 1 node, all operators, all triggers, fairness | 53 000 | `TimeoutsBite` |
| `noticed` | 2 nodes (one BMaaS), reconciler, fairness | 59 000 | `CriticalIsNoticed` |
| `reporting` | 3 nodes in one rack behind one switch, 1 API worker, 3 power faults, one node that others test, retire and bring back; start, stop, toggle, trigger, failures, crashes; fairness | 1.40 million | types, `OneLoop`, `IncidentsAreReal`, `FaultsAreAlerted`, `OutageIsReported` |
| `records` | 3 nodes of different kinds (one BMaaS), 1 API worker, every kind of visit, setup and startup, exceptions and crashes, 2 jobs, 2 seconds on two days, one incident id | 1.73 million | types, `TrailIsTrue`, `RequestsAreKept`, `ApprovalsOutliveTheDay`, `PoliciesArePresent`, `PagesAgree` |
| `backends` | each kind of adapter, 1 node, 2 callers, 3 calls, fairness | 159 000 | types, `SuccessMeansDone`, `PowerIsAccounted`, `EveryCallReturns`, and the refinement `KeepsContract` |
| `assignments` | 2 assignments, 1 machine, one name used twice, 1 restart | 1.63 million | types, `ReadyIsRecorded`, `TouchesOnlyItsOwn` |
| `assignment` | 1 assignment that is edited, deleted and created anew, 1 machine, 1 restart, fairness | 144 000 | `DeletionCompletes`, `WaitingEnds`, `EditsAreServed`, and the refinement `KeepsAssignments` |

One node is enough where a property is about one row and its copies: rows of different
nodes meet only in the rack count and in the order of a tick's visits, which `racks` and
`serial` vary. Four nodes in a rack exceed the limit of two repairs with
two to spare; the fifth is in a rack of its own. In `interleaved` the client works at P1,
above the P3 of a repair start and below the P0 of the reconciler, and the node begins
in service: provisioning and burn-in come in `timeouts` and `racks`. Two assignments that
share a node and the ConfigMap are what it takes to undo one another's work; moves
between machines are covered by the theorems, which hold for every number of both.

In `reporting` three nodes are what an incident of a rack takes, at 0.5 they are one fault away from critical, and a
window of one unit lets events expire between any two steps; three injections strike all of them, or one of them
again. Two callers are what it takes for one call to change a machine under another, the third call comes after
one that was given up. In `records` two jobs are two requests, two visits or one of each, which is what can displace one
another, in the same second, in two seconds, or on two days (`SecondsPerDay = 1`: each tick of the clock is a new day, so
that the names by second and by day both change).

### Claims the code does not keep

Each run `claim_*` checks one sentence of a document, comment or test, and ends
in a counterexample. `NoLabelLeftBehind` is stated in `TenantNodeAssignment`, the other in
`DocumentedClaims`.

| Run | Claim | Counterexample |
|---|---|---|
| `claim_customers` | customers are not drained without approval | a node is handled for its health during an emergency drain, so that its file says `emergency_drain`; it is repaired, certified by requests (which write no files) and assigned again; the reconciler follows the file |
| `claim_label` | the label of a deleted assignment is cleaned up | the resource is deleted while its node is labelled; the cleanup reads the node from before the label, finds nothing to remove, and the finalizer goes |

Other sentences the code does not follow were met while modelling; the model
follows the code, and no run is spent on them:

* `repair_start` puts a P3 cordon over a P1 one (`statemachine.py:93`), against "Higher
  priority always wins" (`NLM-Architecture-Document.md:502`):
  `CordonWeakenedOnlyByRepairStart` names this exception and shows that it is the only one.
* Overlong burn-in and testing end in `repair` (`maintenance.py:25`), not in their
  `timeout_target` (`node-states.yml:17`, `:24`).
* A critical certified node is cordoned but has no edge with `fail` in its name to leave by
  (`reconciler.py:160`), against "certified_ready → repair" (`README.md:281`).
* The reconciler follows an old desired-state file to `certified_ready` without a test
  result (`reconciler.py:105`), and saves no events for what it changes
  (`reconciler.py:107`, against "Every mutation is auditable", `README.md:223`).
* A resource created anew under an old name may become ready without an entry, when the
  cached ConfigMap still has the one that its predecessor's cleanup removed
  (`engine.go:310`): `ReadyIsRecorded` speaks of names used for the first time.
* A move of an assignment to another node leaves the label and the entry of the old one
  (no step removes them), and a cleanup removes a label whoever set it (`engine.go:331`).
* The stale loop takes several nodes of a rack (`testing.py:62`, against "max 1
  per rack", `README.md:313`).
* A request that read a node before its decommission and saves after it brings it back (`api.py:141`, against
  "Can't bring back a decommissioned node", `tests/test_scenarios.py:419`): `DecommissionedStays` shows that there
  is no other way.
* A fault at 0.1 stores 0.0, which is read as 1.0 (`db.py:178`, against "Xid 79 drops health score below
  threshold", `tests/test_scenarios.py:151`).
* The approval gate fires `drain_requested`, the table says `drain_request` (`maintenance.py:160`): an approved request
  drains nothing.
* A second maintenance request of the same day replaces the first with its approval, and the reconciler asks again at every
  tick (`gitops.py:200`, `reconciler.py:188`): `ApprovalsOutliveTheDay` is stated for other days.
* The reconciler alerts the "customer-facing team" by a route that is not among the channels (`reconciler.py:197`,
  `alerts.py:14`): the alert goes to the platform channel.
* What the critical handling and the corrections change, and every cordon and uncordon, leaves no event ("All
  cordon/uncordon actions are audited", `NLM-Architecture-Document.md:505`): `TrailIsTrue` has only the direction that holds.
* `cordons/` is called "active cordons" (`README.md:496`), but `delete_cordon` (`gitops.py:168`) has no caller: the cordon
  of a node that is back in service stays listed.
* The page of incidents is a constant; what is saved in the table and in files is never shown there. The same cluster of faults
  becomes a new incident at each check within the window (`classifier.py:101`).
* `uncordon` of BCM does not resume what `drain` has drained in Slurm (`bcm.py:137`); `set_metadata` and `cordon` overwrite
  each other's notes; the drain of MAAS is a release (`maas.py`).
* The package `adapters/` hides the module `adapters.py` of the same name, and its `__init__` imports modules that are not
  there: whoever repairs this will meet the adapters as they are modelled.

### Fairness

For the NLM controller, `FairSpec` assumes that a tick that has begun goes on (`WF` of `TickGoesOn`: `run_once`
has no wait in it), that each enabled operator ticks again and again (`SF`
of its begin action: `_loop` sleeps its interval and comes back, and the ticks of the others
end), and that a node whose state stays the same for ever is overdue at some tick. Nothing
is assumed of clients. The liveness runs have `Failures = FALSE`: with an
exception in each tick nothing need ever happen.

For fault reporting the same holds: `SF` of a tick begun by the loop, `WF` of the steps of a tick. Exceptions and crashes
are allowed there; what they are excused from is in the property: an operator that is stopped, disabled, or
cannot write its alerts need report nothing.

For the adapters, each command ends, by its answer or by its time limit (`WF` of `TimedOut` or of a step that stays in the
process). That a backend ever answers is not assumed.

For the assignment operator, it assumes that watches deliver (`WF` of each `Sync` action), that
a reconciliation goes on (`WF` of `Work`), that a queued resource has its turn although
others do (`SF` of `Start`: the work queue is first in, first out, one worker), and that an agent
which keeps finding a label signals (`WF` of `AgentSignals`). Users, kubelets and departures
of nodes owe nothing. Restarts are finitely many: an operator that
always dies in the middle finishes nothing.

## 4. Proofs

### NLM controller

For every value of the constants, from `StoreAssumption` (the sets are of their
kinds; `NoRow` is not a row):

| Theorem | Says |
|---|---|
| `TypeCorrect` | `Spec => []TypeOK` |
| `ProtectionHolds` | `Spec => []ProtectionMatchesState` |
| `DrainingUnreachable` | `Spec => []NeverDraining` |
| `OperatorsRetireNothing` | if nobody commits a retired state, `Spec => RetiredOnlyByClients` |
| `RetiredForGood` | `Spec => DecommissionedStays` |
| `CustomersKept` | `Spec => AssignedLeavesByEmergency` |
| `CordonsKept` | `Spec => CordonWeakenedOnlyByRepairStart` |
| `CopiesAreFresh` | `Spec => []NoStaleCopies` |
| `PromiseKept` | without overlap, `Spec => KeepsPromise`: the refinement of `NodePromise` |
| `RackLimitKept` | without overlap, for finitely many nodes, `Spec => RackLimit` |

The first three follow from one inductive invariant, `AllSound`: the table, each
request's copy and each copy of the tick are sound rows. `Sound` takes the
two facts together because neither is inductive alone: `draining` is unreachable
because assigned rows are protected, and a row that got into `draining` would
show nothing of it. About the tick it says that a copy exists of
each node still to be visited. The function lemmas (`AfterSound`, `FromDbSound`, ...) are
in `NodeLifecycleProofs`; a step of the controller then only has to save, copy or
forget sound rows.

`RetiredOnlyByClients` is an action property that the code keeps through its files: the
reconciler follows what it has written earlier. `NoneRetired` therefore adds that no file
names a retired state, that the nodes the health pass has still to handle are not retired,
and that those the timeout pass visits are in states with a timeout, whose
triggers lead to no retired state.

The last six rest on one lemma, `EveryStep`: whatever an action does otherwise, to the table it does one
of three things. A request saves a row made from its copy (`ClientSaves`), a tick does (`OperatorSaves`), or nothing is
saved. "Made from" is `Follows`: the state is kept or moved along one edge that protection lets through, and a cordon
is not weakened but by a repair start. The action properties are then about `Follows` and the table alone.
Without overlap, `Alone` is inductive (a tick is alone, a request is alone, and copies are what a read would return), so
that what follows a copy follows the row: that is `NoStaleCopies`, and the step of the refinement. `RackLimit` adds
`BatchFits`: the repairs of a rack, with those the tick has still to start, fit the limit; a start moves a node from
the one set to the other.

### Fault reporting

For every fleet, topology, window, number of workers and set of faults:

| Theorem | Says |
|---|---|
| `TypeCorrect` | `Spec => []TypeOK` |
| `LoopIsOne` | `Spec => []OneLoop` |
| `NoFalseAlarm` | `Spec => []IncidentsAreReal` |
| `NoneInSilence` | `Spec => FaultsAreAlerted` |

`IncidentsAreReal` needs that no correlator has an event younger than the last fault of its node (an event ages with `last`),
and that the tick's snapshot is of nodes that exist; `FaultsAreAlerted` that a request which has come as far as the save has
its alert in the file, and that no step takes an alert out again. `IInv` has both, with the types.

### Records

For every set of nodes, of workers and of incident ids, any number of requests, visits, days and crashes, from
`RecordsAssumption`, `ViewsAssumption` and `NamesAssumption` (the constants are of their kinds, each node is seeded with a row
that `seed_fleet` makes, the nodes and the incident ids are finitely many, since a plan lists them in a sequence, and no zone is
named like "no filter" or like what the topology calls a node without a zone):

| Theorem | Says |
|---|---|
| `TypeCorrect` | `Spec => []TypeOK` |
| `TrailNeverLies` | `Spec => []TrailIsTrue` |
| `RequestsStay` | `Spec => []RequestsAreKept` |
| `ApprovalsStay` | `Spec => []ApprovalsOutliveTheDay` |
| `PoliciesStand` | `Spec => []PoliciesArePresent` |
| `PagesAlwaysAgree` | `Spec => []PagesAgree`, and the same without waiting for the server to be idle |
| `TotalsAgree` (`FleetViewsProofs`) | in every fleet, every sum over all nodes comes to their number; power and GPUs are the same on both pages that show them |
| `EventsAreNewest` (`FleetViewsProofs`) | of every finite set of events a page shows the newest, as many as it has room for |

That the trail is true is a matter of the order of writes, and the trail says nothing of the writes to come.
The invariant `IInv` therefore is about the chains under way (`JobsSound`). Each write of a chain is `Grounded`: what it
relies on (an event on its row, an incident's file on the incident's row, a cordon's file on the request for the cordon)
stands before it in the chain, or is written. When the head of a chain is written, the one becomes the other
(`HeadIsDone`, `FinishKeeps`); when a chain breaks off, nothing remains to be grounded. That chains begin so is a fact about each plan (`SavedPlan`,
`TimeoutPlanned`, `FailPlanned`, ... up to `VisitPlanned` and `OtherPlanned`), built up by `PlanGoesOn`: what follows a plan and is grounded in it
makes a longer plan.

The other three are about files. `FilesSound` says that a file which is not empty tells what its name tells, so that two
writes to one path are the same request, or two halves of it; `AskedSound` that a request that was made has its file.
For approvals the invariant needs to know who may write: only the event loop asks for maintenance, so that no two
processes have the same file open, and the file it has open is empty and not approved (`PendingSound`). For policies,
those a start has not seeded yet are still in its chain (`PoliciesSound`), and a start that breaks off serves nothing.

`PagesAgree` has two halves. One is about the pages alone, and `FleetViewsProofs` has it for every fleet: `GROUP BY` counts each
node once, so that the columns, which sum groups again, the racks and the zones all come to the same. The sums are folds
over sets, and the induction this takes is done without an operator parameter: `SubsetInduction` takes the set of the subsets for
which a claim holds, and the smallest subset outside it (`WFMin` over strict inclusion) is the counterexample that cannot be.
`SumUnfolds` gets the equation of a fold from the uniqueness of its table, `SumTakes` that the order does not matter, and the
lemmas from `SumOfParts` to `FleetSums` follow. `NewestAreCounted` goes by the same induction, taking the oldest event away.

The other half is about what is in the variables, and needs a second inductive invariant beside `IInv`. That a page shows the
newest events supposes that no two have one number. `NumbersSound` says so, and what keeps it so: a chain has at most one event to
write (in a plan it comes second or not at all, `Plan`), with the number of its request or visit, which no event
written and no other chain has. That the list of desired states tells what the file of each node tells supposes that a node
has one such file (`DesiredSound`). Nothing in the argument waits for the end of a write: each page is
one read, so the theorem holds while requests and ticks are under way too.

### Backend adapters

For every set of machines and of callers and any number of calls, from `AdaptersAssumption` and `IdleAssumption` (`Idle`,
which stands for "no call", is no call):

| Theorem | Says |
|---|---|
| `TypeCorrect` | `Spec => []TypeOK` |
| `SuccessIsReal` | `Spec => []SuccessMeansDone` |
| `NoneLeftOff` | `Spec => []PowerIsAccounted` |
| `ContractKept` | `Spec => KeepsContract`: the refinement of `BackendContract` |

Only the last command of a plan has its result reported. `IInv` follows each plan to that command: what is left of a
call ends with the `Last` command of its operation, and what comes before it touches neither the cordon nor, but
for the `power_off` of a MAAS reboot, the power (`Fits`). A command that arrives late is such a last command, or
one that touches no cordon; a late `power_off` has left its machine `doubted` (`LateIsSent`). For the refinement each
step is mapped to a step of the contract or to a stutter: a call that starts to `Calls`, the last command to `Succeeds` or
`Fails`, a late command that moves a cordon to `Strikes`, everything else to `Passes` (`StepMaps`). The adapters in mock mode, which reach
no backend, show nothing to the contract (`MocksAreSilent`).

### Tenant-node-assignment operator

For every value of the constants, from `AssignmentAssumption` (tenants are apart, objects
are of different kinds):

| Theorem | Says |
|---|---|
| `TypeCorrect` | `Spec => []TypeOK` |
| `ReadyRecorded` | `Spec => []ReadyIsRecorded` |
| `OwnOnly` | `Spec => TouchesOnlyItsOwn` |
| `AssignmentsKept` | `Spec => KeepsAssignments`: the refinement of `AssignmentPromise` |

`ReadyIsRecorded` is not inductive: the step that reports ready trusts a cached ConfigMap,
which may show an entry that is gone. `RecordInv` adds why that does no harm. What
is not `behind` is cached as it is (`Coherent`); an entry is removed only for a resource
whose deletion somebody has seen, and which is therefore over (`DeletionsBegan`); so a cached
entry, or a ready status about to be written, is either true or about a resource that
is over (`EntriesHold`). `Fresh` keeps those not yet created out of it. `OwnOnly` rests
on `Coherent` alone: what is accepted was written from the newest version.

For the refinement `ServeInv` adds what a reconciliation knows without looking again. The step it has come to tells what its
copy says (`AtItsPlace`: a status other than `Pending` is for a resource that is live and switched on, a cleanup for one that is
being deleted); a resource without a finalizer has no status (`Unclaimed`), so that its sudden removal takes nothing from
anybody; and what is seen has been created (`Created`). A write that is accepted then is a step of the promise:
`UpdateStatus` is `Reports`, whose condition on ready resources is `EntriesHold`, `RecordReadiness` is `Records`, `RemoveReadiness` is
`Forgets`, whose condition is `DeletionsBegan`, `RemoveFinalizer` is `Goes`; all other steps are stutters (`WorkMaps`, `StepMaps`).

### Only model-checked

The liveness properties (`TimeoutsBite`, `CriticalIsNoticed`, `OutageIsReported`, `EveryCallReturns`, `DeletionCompletes`,
`WaitingEnds`, `EditsAreServed`) hold by fairness, which is out of the prover's reach, as is `ENABLED`. Every safety and action
property of the passing runs, and every refinement, is a theorem: for those the runs show that the properties can be broken
(each has its mutant) and that the assumptions of the theorems are met.

## 5. Plan

1. Done: the modules and proofs above. Every safety property of the passing runs is proved.
2. Custom workflows of the Go operator, with their other step types.
3. `FleetRecords` with two API workers and two incident ids, once its state space is made smaller by symmetry. The theorems
   already hold for any number of both.
