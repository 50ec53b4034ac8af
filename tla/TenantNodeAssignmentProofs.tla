--------------------- MODULE TenantNodeAssignmentProofs ---------------------
(***************************************************************************)
(* Theorems about the tenant-node-assignment operator, for any number of   *)
(* assignments, machines and restarts.                                     *)
(*                                                                         *)
(* What is ready is recorded, although both the resource and the ConfigMap *)
(* are read from caches of different ages.  The argument: an entry is only *)
(* ever removed for a resource whose deletion has begun, so that a cache   *)
(* which still shows a removed entry misleads nobody but that resource.    *)
(*                                                                         *)
(* And the operator keeps the promise of AssignmentPromise.  The argument: *)
(* the step a reconciliation has come to tells what its copy says, and a   *)
(* copy that is not refused is the resource as it stands.                  *)
(***************************************************************************)
EXTENDS TenantNodeAssignment, TLAPS

USE AssignmentAssumption

\* The first resource of this name is being deleted, or was.
Over(a) == cr[a].life \in { "deleting", "gone" } \/ cr[a].again

\* What no watch has to deliver is known, and the copy of a reconciliation
\* that would be accepted is the resource.
Coherent ==
    /\ \A a \in Assignments \ behind : crSeen[a] = cr[a]
    /\ \A n \in Machines \ behind : machineSeen[n] = machine[n]
    /\ ReadinessMap \notin behind => readySeen = ready
    /\ job # Idle /\ job.current => job.copy = cr[job.of]

\* Resources that are yet to be created have no past, and are not reconciled.
Fresh ==
    /\ \A a \in Assignments : cr[a].life = "new" => ~cr[a].again /\ ~cr[a].observed
    /\ job # Idle => job.copy.life # "new"

\* A deletion somebody has seen has begun.
DeletionsBegan ==
    /\ \A a \in Assignments : crSeen[a].life = "deleting" => Over(a)
    /\ job.step \in { "unlabel", "unrecord", "finish" } => Over(job.of)

\* An entry that some cache shows, or a status about to be written relies on,
\* is there, or belongs to a resource whose deletion has begun.
EntriesHold ==
    /\ \A a \in Assignments, n \in Machines :
          <<Tenant[a], n>> \in readySeen => <<Tenant[a], n>> \in ready \/ Over(a)
    /\ job.step = "status" /\ job.phase = "Ready" => Key \in ready \/ Over(job.of)

RecordInv ==
    /\ TypeOK /\ Coherent /\ Fresh /\ DeletionsBegan /\ EntriesHold /\ ReadyIsRecorded

-----------------------------------------------------------------------------
(* Type correctness *)

\* Whoever is at a step of Reconcile has a copy of a resource.
LEMMA AtWork ==
    ASSUME TypeOK, job.step \in Steps
    PROVE  /\ job \in Job /\ job # Idle
           /\ job.of \in Assignments /\ job.copy \in CR /\ job.copy.node \in Machines
           /\ Key \in Keys
BY DEF TypeOK, Job, Idle, Steps, CR, Key, Keys, Tenants

LEMMA UserWritesType ==
    ASSUME TypeOK, NEW a \in Assignments, NEW r \in CR, UserWrites(a, r)
    PROVE  TypeOK'
<1>1. job' \in Job \cup { Idle }
  <2>1. CASE job # Idle /\ job.of = a
    BY <2>1 DEF UserWrites, TypeOK, Job
  <2>2. CASE ~(job # Idle /\ job.of = a)
    BY <2>2 DEF UserWrites, TypeOK
  <2> QED BY <2>1, <2>2
<1> QED BY <1>1 DEF UserWrites, TypeOK, Objects, caches

LEMMA MachineWritesType ==
    ASSUME TypeOK, NEW n \in Machines, NEW m \in Machine, MachineWrites(n, m)
    PROVE  TypeOK'
BY DEF MachineWrites, TypeOK, Objects, caches

\* A resource stays one when fields of it are set.
LEMMA CreatedTyped ==
    ASSUME NEW r \in CR
    PROVE  [r EXCEPT !.life = "live", !.again = r.life = "gone"] \in CR
BY DEF CR

LEMMA DeletedTyped == ASSUME NEW r \in CR PROVE [r EXCEPT !.life = "deleting"] \in CR
BY DEF CR

LEMMA EditedTyped ==
    ASSUME NEW r \in CR, NEW on \in BOOLEAN, NEW n \in Machines
    PROVE  [r EXCEPT !.on = on, !.node = n, !.observed = FALSE] \in CR
BY DEF CR

LEMMA RemovedTyped == ASSUME NEW r \in CR PROVE Removed(r) \in CR
<1>1. "" \in Phase
  BY DEF Phase
<1> QED BY <1>1 DEF CR, Removed

LEMMA ClaimedTyped == ASSUME NEW r \in CR PROVE [r EXCEPT !.finalizer = TRUE] \in CR
BY DEF CR

LEMMA ServedTyped ==
    ASSUME NEW r \in CR, NEW p \in Phase
    PROVE  [r EXCEPT !.phase = p, !.observed = TRUE] \in CR
BY DEF CR

\* What users, machines and agents do keeps the types.
LEMMA EnvironmentType == ASSUME TypeOK, Environment PROVE TypeOK'
<1>0. \A a \in Assignments : cr[a] \in CR
  BY DEF TypeOK
<1>1. ASSUME NEW a \in Assignments, Create(a) PROVE TypeOK'
  <2>1. [cr[a] EXCEPT !.life = "live", !.again = cr[a].life = "gone"] \in CR
    BY <1>0, CreatedTyped
  <2> QED BY <1>1, <2>1, UserWritesType DEF Create
<1>2. ASSUME NEW a \in Assignments, Delete(a) PROVE TypeOK'
  <2>1. [cr[a] EXCEPT !.life = "deleting"] \in CR /\ Removed(cr[a]) \in CR
    BY <1>0, DeletedTyped, RemovedTyped
  <2> QED BY <1>2, <2>1, UserWritesType DEF Delete
<1>3. ASSUME NEW a \in Assignments, Edit(a) PROVE TypeOK'
  <2>1. PICK on \in BOOLEAN, n \in Machines :
            UserWrites(a, [cr[a] EXCEPT !.on = on, !.node = n, !.observed = FALSE])
    BY <1>3 DEF Edit
  <2>2. [cr[a] EXCEPT !.on = on, !.node = n, !.observed = FALSE] \in CR
    BY <1>0, EditedTyped
  <2> QED BY <2>1, <2>2, UserWritesType
<1>4. ASSUME NEW n \in Machines, AgentSignals(n) \/ Heartbeat(n) \/ Leave(n)
      PROVE  TypeOK'
  <2>1. machine[n] \in Machine
    BY DEF TypeOK
  <2>2. /\ [machine[n] EXCEPT !.agent = TRUE] \in Machine
        /\ [present |-> FALSE, label |-> "none", agent |-> FALSE] \in Machine
    BY <2>1 DEF Machine
  <2> QED BY <1>4, <2>1, <2>2, MachineWritesType DEF AgentSignals, Heartbeat, Leave
<1> QED BY <1>1, <1>2, <1>3, <1>4 DEF Environment

\* So do watches and restarts.
LEMMA WatchType == ASSUME TypeOK, Watch \/ Restart PROVE TypeOK'
<1>1. ASSUME NEW a \in Assignments, SyncAssignment(a) PROVE TypeOK'
  BY <1>1 DEF SyncAssignment, TypeOK, api
<1>2. ASSUME NEW n \in Machines, SyncMachine(n) PROVE TypeOK'
  BY <1>2 DEF SyncMachine, TypeOK, api
<1>3. CASE SyncReadiness
  BY <1>3 DEF SyncReadiness, TypeOK, api
<1>4. CASE Restart
  BY <1>4 DEF Restart, TypeOK, api
<1> QED BY <1>1, <1>2, <1>3, <1>4 DEF Watch

LEMMA StartType == ASSUME TypeOK, NEW a \in Assignments, Start(a) PROVE TypeOK'
<1> DEFINE r == crSeen[a]
           Begun(step, phase) == [step |-> step, of |-> a, copy |-> r,
                                  current |-> a \notin behind, phase |-> phase]
<1>1. \A step \in Steps, phase \in Phase : Begun(step, phase) \in Job
  BY DEF TypeOK, Job
<1>2. r.phase \in Phase
  BY DEF TypeOK, CR
<1>3. job' = job \/ \E step \in Steps, phase \in Phase : job' = Begun(step, phase)
  <2>1. \A step \in { "unlabel", "finalizer", "status", "label" } : step \in Steps
    BY DEF Steps
  <2>2. "Pending" \in Phase
    BY DEF Phase
  <2>3. \/ job' = job
        \/ job' = Begun("unlabel", r.phase)
        \/ job' = Begun("finalizer", r.phase)
        \/ job' = Begun("status", "Pending")
        \/ job' = Begun("label", r.phase)
    BY DEF Start
  <2> HIDE DEF Begun
  <2> QED BY <1>2, <2>1, <2>2, <2>3
<1>4. job' \in Job \cup { Idle }
  <2> HIDE DEF Begun
  <2> QED BY <1>1, <1>3 DEF TypeOK
<1> QED BY <1>4 DEF Start, TypeOK, api, caches

\* A reconciliation that goes on keeps its type, and so does what it writes.
LEMMA GoOnType ==
    ASSUME TypeOK, job \in Job, NEW step \in Steps, NEW phase \in Phase, GoOn(step, phase)
    PROVE  job' \in Job
BY DEF GoOn, Job

LEMMA ReturnType ==
    ASSUME TypeOK, job \in Job, NEW again \in BOOLEAN, Return(again)
    PROVE  job' \in Job \cup { Idle } /\ queue' \subseteq Assignments
BY DEF Return, TypeOK, Job

LEMMA WriteCopyType ==
    ASSUME TypeOK, job \in Job, NEW r \in CR, WriteCopy(r)
    PROVE  /\ cr' \in [Assignments -> CR] /\ behind' \subseteq Objects
           /\ UNCHANGED <<machine, ready>>
BY DEF WriteCopy, TypeOK, Job, Objects

LEMMA RelabelType ==
    ASSUME TypeOK, NEW n \in Machines, NEW t \in Tenants \cup { "none" }, Relabel(n, t)
    PROVE  /\ machine' \in [Machines -> Machine] /\ behind' \subseteq Objects
           /\ UNCHANGED <<cr, ready>>
<1>1. [machineSeen[n] EXCEPT !.label = t] \in Machine
  BY DEF TypeOK, Machine
<1> QED BY <1>1 DEF Relabel, TypeOK, Objects

LEMMA RewriteType ==
    ASSUME TypeOK, NEW keys \in SUBSET Keys, Rewrite(keys)
    PROVE  ready' \subseteq Keys /\ behind' \subseteq Objects /\ UNCHANGED <<cr, machine>>
BY DEF Rewrite, TypeOK, Objects

\* Every step of Reconcile keeps the types.
LEMMA WorkType == ASSUME TypeOK, Work PROVE TypeOK'
<1>0. /\ job \in Job /\ job # Idle /\ job.of \in Assignments /\ job.copy \in CR
      /\ job.copy.node \in Machines /\ Key \in Keys /\ job.phase \in Phase
      /\ job.current \in BOOLEAN
  <2>1. job.step \in Steps
    BY DEF Work, AddFinalizer, ApplyLabel, RecordReadiness, UpdateStatus, RemoveLabel,
           RemoveReadiness, RemoveFinalizer, Steps
  <2>2. job \in Job
    BY <2>1, AtWork
  <2> QED BY <2>1, <2>2, AtWork DEF Job
<1>1. CASE AddFinalizer
  <2>1. [job.copy EXCEPT !.finalizer = TRUE] \in CR
    BY <1>0, ClaimedTyped
  <2>2. /\ cr' \in [Assignments -> CR] /\ behind' \subseteq Objects
        /\ UNCHANGED <<machine, ready>>
    BY <1>0, <1>1, <2>1, WriteCopyType DEF AddFinalizer, TypeOK, api
  <2>3. job' \in Job \cup { Idle } /\ queue' \subseteq Assignments
    BY <1>0, <1>1, ReturnType DEF AddFinalizer
  <2> QED BY <1>1, <2>2, <2>3 DEF AddFinalizer, TypeOK, caches
<1>2. CASE ApplyLabel
  <2>1. job' \in Job
    BY <1>0, <1>2, GoOnType DEF ApplyLabel, Steps, Phase
  <2>2. /\ machine' \in [Machines -> Machine] /\ behind' \subseteq Objects
        /\ UNCHANGED <<cr, ready>>
    BY <1>0, <1>2, RelabelType DEF ApplyLabel, TypeOK, Tenants, api
  <2> QED BY <1>2, <2>1, <2>2 DEF ApplyLabel, TypeOK, caches
<1>3. CASE RecordReadiness
  <2>1. job' \in Job
    BY <1>0, <1>3, GoOnType DEF RecordReadiness, Steps, Phase
  <2>2. readySeen \cup { Key } \in SUBSET Keys
    BY <1>0 DEF TypeOK
  <2>3. ready' \subseteq Keys /\ behind' \subseteq Objects /\ UNCHANGED <<cr, machine>>
    BY <1>3, <2>2, RewriteType DEF RecordReadiness, TypeOK, api
  <2> QED BY <1>3, <2>1, <2>3 DEF RecordReadiness, TypeOK, caches
<1>4. CASE UpdateStatus
  <2>1. [job.copy EXCEPT !.phase = job.phase, !.observed = TRUE] \in CR
    BY <1>0, ServedTyped
  <2>2. /\ cr' \in [Assignments -> CR] /\ behind' \subseteq Objects
        /\ UNCHANGED <<machine, ready>>
    BY <1>0, <1>4, <2>1, WriteCopyType DEF UpdateStatus, TypeOK, api
  <2>3. job' \in Job \cup { Idle } /\ queue' \subseteq Assignments
    BY <1>0, <1>4, ReturnType DEF UpdateStatus
  <2> QED BY <1>4, <2>2, <2>3 DEF UpdateStatus, TypeOK, caches
<1>5. CASE RemoveLabel
  <2>1. job' \in Job
    BY <1>0, <1>5, GoOnType DEF RemoveLabel, Steps
  <2>2. /\ machine' \in [Machines -> Machine] /\ behind' \subseteq Objects
        /\ UNCHANGED <<cr, ready>>
    BY <1>0, <1>5, RelabelType DEF RemoveLabel, TypeOK, api
  <2> QED BY <1>5, <2>1, <2>2 DEF RemoveLabel, TypeOK, caches
<1>6. CASE RemoveReadiness
  <2>1. job' \in Job
    BY <1>0, <1>6, GoOnType DEF RemoveReadiness, Steps
  <2>2. readySeen \ { Key } \in SUBSET Keys
    BY DEF TypeOK
  <2>3. ready' \subseteq Keys /\ behind' \subseteq Objects /\ UNCHANGED <<cr, machine>>
    BY <1>6, <2>2, RewriteType DEF RemoveReadiness, TypeOK, api
  <2> QED BY <1>6, <2>1, <2>3 DEF RemoveReadiness, TypeOK, caches
<1>7. CASE RemoveFinalizer
  <2>1. Removed(job.copy) \in CR
    BY <1>0, RemovedTyped
  <2>2. /\ cr' \in [Assignments -> CR] /\ behind' \subseteq Objects
        /\ UNCHANGED <<machine, ready>>
    BY <1>0, <1>7, <2>1, WriteCopyType DEF RemoveFinalizer, TypeOK, api
  <2>3. job' \in Job \cup { Idle } /\ queue' \subseteq Assignments
    BY <1>0, <1>7, ReturnType DEF RemoveFinalizer
  <2> QED BY <1>7, <2>2, <2>3 DEF RemoveFinalizer, TypeOK, caches
<1> QED BY <1>1, <1>2, <1>3, <1>4, <1>5, <1>6, <1>7 DEF Work

\* A step that changes nothing keeps the types.
LEMMA StutterType == ASSUME TypeOK, UNCHANGED vars PROVE TypeOK'
BY DEF TypeOK, vars

LEMMA InitType == ASSUME Init PROVE TypeOK
<1>1. cr \in [Assignments -> CR]
  BY DEF Init
<1>2. machine \in [Machines -> Machine]
  <2>1. [present |-> TRUE, label |-> "none", agent |-> FALSE] \in Machine
    BY DEF Machine
  <2> QED BY <2>1 DEF Init
<1>3. restarts \in 0..MaxRestarts
  <2>1. MaxRestarts \in Nat
    BY DEF AssignmentAssumption
  <2>2. restarts = 0
    BY DEF Init
  <2> QED BY <2>1, <2>2
<1> QED BY <1>1, <1>2, <1>3 DEF Init, TypeOK

(***************************************************************************)
(* The variables of the operator keep their types; LabelApplied is never   *)
(* stored (runWorkflowSteps sets it in memory only).                       *)
(***************************************************************************)
THEOREM TypeCorrect == Spec => []TypeOK
<1>1. Init => TypeOK
  BY InitType
<1>2. TypeOK /\ [Next]_vars => TypeOK'
  BY EnvironmentType, WatchType, StartType, WorkType, StutterType DEF Next
<1> QED BY <1>1, <1>2, PTL DEF Spec

-----------------------------------------------------------------------------
(* What is ready is recorded. *)

\* What the invariant asks of the next version r of resource a.
Proper(a, r) ==
    /\ r.life # "new"
    /\ Over(a) => r.life \in { "deleting", "gone" } \/ r.again
    /\ r.life = "live" /\ ~r.again /\ r.phase = "Ready" /\ r.observed
       => <<Tenant[a], r.node>> \in ready

\* Resource a is written, by a user or by the operator, which is then done.
LEMMA ResourceWritten ==
    ASSUME RecordInv, TypeOK', NEW a \in Assignments, NEW r \in CR, Proper(a, r),
           cr' = [cr EXCEPT ![a] = r], behind' = behind \cup { a },
           \/ job' = Idle
           \/ job' = IF job # Idle /\ job.of = a THEN [job EXCEPT !.current = FALSE] ELSE job,
           UNCHANGED <<machine, ready, caches>>
    PROVE  RecordInv'
<1>1. /\ cr'[a] = r
      /\ \A b \in Assignments \ { a } : cr'[b] = cr[b]
  BY DEF RecordInv, TypeOK
<1>2. \A b \in Assignments : Over(b) => Over(b)'
  BY <1>1 DEF Over, Proper
<1>3. \/ job' = Idle
      \/ /\ job # Idle /\ job \in Job /\ job' # Idle
         /\ job'.step = job.step /\ job'.of = job.of /\ job'.copy = job.copy
         /\ job'.phase = job.phase /\ Key' = Key /\ job.of \in Assignments
         /\ job'.current => job.current /\ job.of # a
  <2>1. CASE job = Idle
    BY <2>1
  <2>2. CASE job # Idle
    <3>1. job \in Job
      BY <2>2 DEF RecordInv, TypeOK
    <3>2. CASE job.of = a
      BY <2>2, <3>1, <3>2 DEF Job, Key, Idle, Steps
    <3>3. CASE job.of # a
      BY <2>2, <3>1, <3>3 DEF Job, Key
    <3> QED BY <3>2, <3>3
  <2> QED BY <2>1, <2>2
<1>4. Coherent'
  BY <1>1, <1>3 DEF RecordInv, Coherent, caches
<1>5. Fresh'
  BY <1>1, <1>3 DEF RecordInv, Fresh, Proper
<1>6. DeletionsBegan'
  BY <1>2, <1>3 DEF RecordInv, DeletionsBegan, caches, Idle
<1>7. EntriesHold'
  BY <1>2, <1>3 DEF RecordInv, EntriesHold, caches, Idle
<1>8. ReadyIsRecorded'
  BY <1>1 DEF RecordInv, ReadyIsRecorded, Proper
<1> QED BY <1>4, <1>5, <1>6, <1>7, <1>8 DEF RecordInv

\* A machine is written, a cache catches up, or nothing happens.
LEMMA MachineWritten ==
    ASSUME RecordInv, TypeOK', NEW n \in Machines, NEW m, MachineWrites(n, m)
    PROVE  RecordInv'
<1>1. \A k \in Machines \ { n } : machine'[k] = machine[k]
  BY DEF RecordInv, TypeOK, MachineWrites
<1>2. Coherent'
  BY <1>1 DEF RecordInv, Coherent, MachineWrites, caches
<1> QED BY <1>2 DEF RecordInv, MachineWrites, caches, Fresh, DeletionsBegan, Over, EntriesHold,
                    Key, ReadyIsRecorded

LEMMA EnvironmentRecords == ASSUME RecordInv, TypeOK', Environment PROVE RecordInv'
<1>0. \A a \in Assignments : cr[a] \in CR
  BY DEF RecordInv, TypeOK
<1>1. ASSUME NEW a \in Assignments, Create(a) PROVE RecordInv'
  <2> DEFINE r == [cr[a] EXCEPT !.life = "live", !.again = cr[a].life = "gone"]
  <2>1. r \in CR /\ UserWrites(a, r)
    BY <1>0, <1>1, CreatedTyped DEF Create
  <2>2. /\ r.life = "live" /\ r.again = (cr[a].life = "gone")
        /\ r.observed = cr[a].observed /\ r.phase = cr[a].phase
    BY <1>0 DEF CR
  <2>3. Over(a) => r.again
    BY <1>1, <2>2 DEF Create, Over, RecordInv, Fresh
  <2>4. r.again \/ ~r.observed
    BY <1>1, <2>2 DEF Create, RecordInv, Fresh
  <2>5. Proper(a, r)
    <3> HIDE DEF r
    <3> QED BY <2>2, <2>3, <2>4 DEF Proper
  <2> QED BY <2>1, <2>5, ResourceWritten DEF UserWrites
<1>2. ASSUME NEW a \in Assignments, Delete(a) PROVE RecordInv'
  <2>1. PICK r \in CR : /\ UserWrites(a, r)
                        /\ r = [cr[a] EXCEPT !.life = "deleting"] \/ r = Removed(cr[a])
    BY <1>0, <1>2, DeletedTyped, RemovedTyped DEF Delete
  <2>2. r.life \in { "deleting", "gone" }
    <3>1. CASE r = [cr[a] EXCEPT !.life = "deleting"]
      BY <1>0, <3>1 DEF CR
    <3>2. CASE r = Removed(cr[a])
      BY <1>0, <3>2 DEF CR, Removed
    <3> QED BY <2>1, <3>1, <3>2
  <2>3. Proper(a, r)
    BY <2>2 DEF Proper
  <2> QED BY <2>1, <2>3, ResourceWritten DEF UserWrites
<1>3. ASSUME NEW a \in Assignments, Edit(a) PROVE RecordInv'
  <2>1. PICK on \in BOOLEAN, n \in Machines :
            UserWrites(a, [cr[a] EXCEPT !.on = on, !.node = n, !.observed = FALSE])
    BY <1>3 DEF Edit
  <2> DEFINE r == [cr[a] EXCEPT !.on = on, !.node = n, !.observed = FALSE]
  <2>2. r \in CR
    BY <1>0, EditedTyped
  <2>3. Proper(a, r)
    BY <1>0, <1>3 DEF Edit, Proper, CR, Over
  <2> QED BY <2>1, <2>2, <2>3, ResourceWritten DEF UserWrites
<1>4. ASSUME NEW n \in Machines, AgentSignals(n) \/ Heartbeat(n) \/ Leave(n)
      PROVE  RecordInv'
  BY <1>4, MachineWritten DEF AgentSignals, Heartbeat, Leave
<1> QED BY <1>1, <1>2, <1>3, <1>4 DEF Environment

LEMMA WatchRecords == ASSUME RecordInv, TypeOK', Watch \/ Restart PROVE RecordInv'
<1>1. ASSUME NEW a \in Assignments, SyncAssignment(a) PROVE RecordInv'
  <2>1. /\ crSeen'[a] = cr[a]
        /\ \A b \in Assignments \ { a } : crSeen'[b] = crSeen[b]
    BY <1>1 DEF SyncAssignment, RecordInv, TypeOK
  <2>2. Coherent' /\ DeletionsBegan'
    BY <1>1, <2>1 DEF SyncAssignment, api, RecordInv, Coherent, DeletionsBegan, Over
  <2> QED BY <1>1, <2>2 DEF SyncAssignment, api, RecordInv, Fresh, Over, EntriesHold, Key,
                            ReadyIsRecorded
<1>2. ASSUME NEW n \in Machines, SyncMachine(n) PROVE RecordInv'
  <2>1. /\ machineSeen'[n] = machine[n]
        /\ \A k \in Machines \ { n } : machineSeen'[k] = machineSeen[k]
    BY <1>2 DEF SyncMachine, RecordInv, TypeOK
  <2>2. Coherent'
    BY <1>2, <2>1 DEF SyncMachine, api, RecordInv, Coherent
  <2> QED BY <1>2, <2>2 DEF SyncMachine, api, RecordInv, Fresh, DeletionsBegan, Over,
                            EntriesHold, Key, ReadyIsRecorded
<1>3. CASE SyncReadiness
  <2>1. Coherent' /\ EntriesHold'
    BY <1>3 DEF SyncReadiness, api, RecordInv, Coherent, EntriesHold, Over, Key
  <2> QED BY <1>3, <2>1 DEF SyncReadiness, api, RecordInv, Fresh, DeletionsBegan, Over,
                            ReadyIsRecorded
<1>4. CASE Restart
  <2>1. Coherent' /\ DeletionsBegan' /\ EntriesHold' /\ Fresh'
    BY <1>4 DEF Restart, api, RecordInv, Coherent, DeletionsBegan, Over, EntriesHold, Fresh, Idle
  <2> QED BY <1>4, <2>1 DEF Restart, api, RecordInv, ReadyIsRecorded
<1> QED BY <1>1, <1>2, <1>3, <1>4 DEF Watch

\* A reconciliation begins with the resource as the cache has it.
LEMMA StartRecords ==
    ASSUME RecordInv, TypeOK', NEW a \in Assignments, Start(a)
    PROVE  RecordInv'
<1>1. \/ job' = job
      \/ /\ job'.of = a /\ job'.copy = crSeen[a] /\ job'.current = (a \notin behind)
         /\ crSeen[a].life \in { "live", "deleting" }
         /\ job'.step = "unlabel" => crSeen[a].life = "deleting"
         /\ job'.step \notin { "unrecord", "finish" }
         /\ job'.step = "status" => job'.phase = "Pending"
  BY DEF Start
<1>c. UNCHANGED <<api, caches, behind>>
  BY DEF Start
<1>2. Coherent' /\ DeletionsBegan' /\ EntriesHold' /\ Fresh'
  <2>1. Coherent'
    <3>1. /\ \A b \in Assignments \ behind' : crSeen'[b] = cr'[b]
          /\ \A n \in Machines \ behind' : machineSeen'[n] = machine'[n]
          /\ ReadinessMap \notin behind' => readySeen' = ready'
      <4>1. UNCHANGED <<cr, machine, ready, crSeen, machineSeen, readySeen, behind>>
        BY <1>c DEF api, caches
      <4>2. /\ \A b \in Assignments \ behind : crSeen[b] = cr[b]
            /\ \A n \in Machines \ behind : machineSeen[n] = machine[n]
            /\ ReadinessMap \notin behind => readySeen = ready
        BY DEF RecordInv, Coherent
      <4> QED BY <4>1, <4>2
    <3>2. CASE job' = job
      BY <1>c, <3>1, <3>2 DEF api, RecordInv, Coherent
    <3>3. CASE job' # job
      <4>1. job'.current => job'.copy = cr'[job'.of]
        <5>1. job'.of = a /\ job'.copy = crSeen[a] /\ job'.current = (a \notin behind)
          BY <1>1, <3>3
        <5>2. a \notin behind => crSeen[a] = cr[a]
          BY DEF RecordInv, Coherent
        <5>3. cr' = cr
          BY <1>c DEF api
        <5> QED BY <5>1, <5>2, <5>3
      <4> QED BY <3>1, <4>1 DEF Coherent
    <3> QED BY <3>2, <3>3
  <2>2. DeletionsBegan'
    BY <1>1, <1>c DEF api, caches, RecordInv, DeletionsBegan, Over
  <2>3. EntriesHold'
    BY <1>1, <1>c DEF api, caches, RecordInv, EntriesHold, Over, Key
  <2>4. Fresh'
    BY <1>1, <1>c DEF api, RecordInv, Fresh
  <2> QED BY <2>1, <2>2, <2>3, <2>4
<1> QED BY <1>2 DEF Start, api, caches, RecordInv, ReadyIsRecorded

\* A reconciliation goes on, and leaves resources and their entries alone:
\* at most machines are written, or entries added.
LEMMA GoesOnRecords ==
    ASSUME RecordInv, TypeOK', Coherent', job \in Job, job # Idle,
           NEW step \in Steps, NEW phase \in Phase, GoOn(step, phase),
           step \in { "unrecord", "finish" }
             => job.step \in { "unlabel", "unrecord", "finish" },
           step # "unlabel",
           step = "status" /\ phase = "Ready" => Key \in ready' \/ Over(job.of),
           ready \subseteq ready', UNCHANGED <<cr, crSeen, readySeen>>
    PROVE  RecordInv'
<1>1. /\ job'.step = step /\ job'.phase = phase /\ job'.of = job.of
      /\ job'.copy = job.copy /\ Key' = Key
  BY DEF GoOn, Job, Key
<1>2. DeletionsBegan'
  BY <1>1 DEF RecordInv, DeletionsBegan, Over
<1>3. EntriesHold'
  BY <1>1 DEF RecordInv, EntriesHold, Over
<1>4. Fresh' /\ ReadyIsRecorded'
  BY <1>1 DEF RecordInv, Fresh, ReadyIsRecorded
<1> QED BY <1>2, <1>3, <1>4 DEF RecordInv

LEMMA WorkRecords == ASSUME RecordInv, TypeOK', Work PROVE RecordInv'
<1>0. /\ job \in Job /\ job # Idle /\ job.of \in Assignments /\ job.copy \in CR
      /\ job.copy.node \in Machines /\ job.copy.life # "new" /\ job.phase \in Phase
      /\ job.current => job.copy = cr[job.of]
  <2>1. job.step \in Steps
    BY DEF Work, AddFinalizer, ApplyLabel, RecordReadiness, UpdateStatus, RemoveLabel,
           RemoveReadiness, RemoveFinalizer, Steps
  <2>2. job \in Job /\ job # Idle /\ job.of \in Assignments /\ job.copy \in CR
        /\ job.copy.node \in Machines
    BY <2>1, AtWork DEF RecordInv
  <2>3. job.phase \in Phase
    BY <2>2 DEF Job
  <2> QED BY <2>2, <2>3 DEF RecordInv, Fresh, Coherent
\* An update that is refused, or changes nothing, ends the reconciliation.
<1>a. ASSUME job' = Idle, UNCHANGED <<api, caches, behind>> PROVE RecordInv'
  BY <1>a DEF api, caches, RecordInv, Coherent, Fresh, DeletionsBegan, Over, EntriesHold,
              ReadyIsRecorded, Idle
\* One that is accepted writes the resource.
<1>b. ASSUME NEW r \in CR, WriteCopy(r), Proper(job.of, r), job' = Idle, UNCHANGED caches
      PROVE  RecordInv'
  BY <1>0, <1>b, ResourceWritten DEF WriteCopy
<1>1. CASE AddFinalizer
  <2> DEFINE r == [job.copy EXCEPT !.finalizer = TRUE]
  <2>1. r \in CR
    BY <1>0, ClaimedTyped
  <2>2. job.current => Proper(job.of, r)
    BY <1>0 DEF Proper, CR, Over, RecordInv, ReadyIsRecorded
  <2> QED BY <1>1, <1>a, <1>b, <2>1, <2>2 DEF AddFinalizer, Return
<1>2. CASE UpdateStatus
  <2> DEFINE r == [job.copy EXCEPT !.phase = job.phase, !.observed = TRUE]
  <2>1. r \in CR
    BY <1>0, ServedTyped
  <2>2. r.life = job.copy.life /\ r.again = job.copy.again /\ r.node = job.copy.node
        /\ r.phase = job.phase
    BY <1>0 DEF CR
  <2>3. job.phase = "Ready" => Key \in ready \/ Over(job.of)
    BY <1>2 DEF UpdateStatus, RecordInv, EntriesHold
  <2>4. job.current => Proper(job.of, r)
    BY <1>0, <2>2, <2>3 DEF Proper, Over, Key
  <2> QED BY <1>2, <1>a, <1>b, <2>1, <2>4 DEF UpdateStatus, Return
<1>3. CASE RemoveFinalizer
  <2> DEFINE r == Removed(job.copy)
  <2>1. r \in CR
    BY <1>0, RemovedTyped
  <2>2. Proper(job.of, r)
    <3>1. r.life = "gone"
      BY <1>0 DEF Removed, CR
    <3> QED BY <3>1 DEF Proper
  <2> QED BY <1>3, <1>a, <1>b, <2>1, <2>2 DEF RemoveFinalizer, Return
<1>4. CASE ApplyLabel
  <2>1. PICK step \in { "record", "status" }, phase \in Phase :
            GoOn(step, phase) /\ (step = "status" => phase # "Ready")
    BY <1>0, <1>4 DEF ApplyLabel, Phase
  <2>2. Coherent' /\ UNCHANGED <<cr, ready, crSeen, readySeen>>
    <3>1. \/ UNCHANGED <<api, behind>>
          \/ Relabel(job.copy.node, Tenant[job.of])
      BY <1>4 DEF ApplyLabel
    <3>2. Coherent'
      <4>1. CASE UNCHANGED <<api, behind>>
        BY <1>0, <1>4, <2>1, <4>1 DEF ApplyLabel, api, caches, RecordInv, Coherent, GoOn, Job
      <4>2. CASE Relabel(job.copy.node, Tenant[job.of])
        <5>1. \A n \in Machines \ { job.copy.node } : machine'[n] = machine[n]
          BY <1>0, <4>2 DEF Relabel, RecordInv, TypeOK
        <5> QED BY <1>0, <1>4, <2>1, <4>2, <5>1 DEF ApplyLabel, Relabel, caches, RecordInv,
                                                    Coherent, GoOn, Job, Idle
      <4> QED BY <3>1, <4>1, <4>2
    <3> QED BY <1>4, <3>1, <3>2 DEF ApplyLabel, Relabel, api, caches
  <2> QED BY <1>0, <2>1, <2>2, GoesOnRecords DEF Steps
<1>5. CASE RemoveLabel
  <2>1. Coherent' /\ UNCHANGED <<cr, ready, crSeen, readySeen>>
    <3>1. \/ UNCHANGED <<api, behind>>
          \/ Relabel(job.copy.node, "none")
      BY <1>5 DEF RemoveLabel
    <3>2. Coherent'
      <4>1. CASE UNCHANGED <<api, behind>>
        BY <1>0, <1>5, <4>1 DEF RemoveLabel, api, caches, RecordInv, Coherent, GoOn, Job
      <4>2. CASE Relabel(job.copy.node, "none")
        <5>1. \A n \in Machines \ { job.copy.node } : machine'[n] = machine[n]
          BY <1>0, <4>2 DEF Relabel, RecordInv, TypeOK
        <5> QED BY <1>0, <1>5, <4>2, <5>1 DEF RemoveLabel, Relabel, caches, RecordInv, Coherent,
                                              GoOn, Job, Idle
      <4> QED BY <3>1, <4>1, <4>2
    <3> QED BY <1>5, <3>1, <3>2 DEF RemoveLabel, Relabel, api, caches
  <2> QED BY <1>0, <1>5, <2>1, GoesOnRecords DEF RemoveLabel, Steps
<1>6. CASE RecordReadiness
  <2>1. PICK phase \in Phase : GoOn("status", phase)
    BY <1>6 DEF RecordReadiness, Phase
  <2>2. Coherent'
    BY <1>0, <1>6, <2>1 DEF RecordReadiness, Rewrite, api, caches, RecordInv, Coherent, GoOn, Job
  <2>3. /\ ready \subseteq ready' /\ UNCHANGED <<cr, crSeen, readySeen>>
        /\ phase = "Ready" => Key \in ready' \/ Over(job.of)
    BY <1>0, <1>6, <2>1 DEF RecordReadiness, Rewrite, api, caches, RecordInv, Coherent, EntriesHold,
                            Key, GoOn, Job
  <2> QED BY <1>0, <2>1, <2>2, <2>3, GoesOnRecords DEF Steps
<1>7. CASE RemoveReadiness
  <2>1. /\ job'.step = "finish" /\ job'.of = job.of /\ job'.copy = job.copy
        /\ job'.current = job.current
    BY <1>0, <1>7 DEF RemoveReadiness, GoOn, Job
  <2>2. Over(job.of) /\ UNCHANGED <<cr, machine, crSeen, machineSeen, readySeen>>
    BY <1>7 DEF RemoveReadiness, Rewrite, RecordInv, DeletionsBegan, api, caches
  <2>3. \A a \in Assignments, n \in Machines :
            <<Tenant[a], n>> \in ready => <<Tenant[a], n>> \in ready' \/ a = job.of
    BY <1>0, <1>7 DEF RemoveReadiness, Rewrite, api, Key, RecordInv, Coherent, AssignmentAssumption
  <2>4. Coherent'
    BY <1>7, <2>1, <2>2 DEF RemoveReadiness, Rewrite, api, RecordInv, Coherent, Idle
  <2>5. Fresh' /\ DeletionsBegan'
    BY <1>0, <2>1, <2>2 DEF RecordInv, Fresh, DeletionsBegan, Over
  <2>6. EntriesHold'
    BY <1>0, <2>1, <2>2, <2>3 DEF RecordInv, EntriesHold, Over
  <2>7. ReadyIsRecorded'
    BY <2>2, <2>3 DEF RecordInv, ReadyIsRecorded, Over, TypeOK, CR
  <2> QED BY <2>4, <2>5, <2>6, <2>7 DEF RecordInv
<1> QED BY <1>1, <1>2, <1>3, <1>4, <1>5, <1>6, <1>7 DEF Work

LEMMA StutterRecords == ASSUME RecordInv, TypeOK', UNCHANGED vars PROVE RecordInv'
BY DEF vars, api, caches, RecordInv, Coherent, Fresh, DeletionsBegan, Over, EntriesHold, Key,
       ReadyIsRecorded

LEMMA InitRecords == ASSUME Init PROVE RecordInv
<1>1. \A a \in Assignments : cr[a].life = "new" /\ ~cr[a].again /\ ~cr[a].observed
  BY DEF Init
<1> QED BY <1>1, InitType DEF Init, RecordInv, Coherent, Fresh, DeletionsBegan, EntriesHold,
                             ReadyIsRecorded, Idle

(***************************************************************************)
(* The invariant behind the next two theorems.                             *)
(***************************************************************************)
THEOREM Recorded == Spec => []RecordInv
<1>1. Init => RecordInv
  BY InitRecords
<1>2. RecordInv /\ [Next]_vars => RecordInv'
  <2>1. RecordInv /\ [Next]_vars => TypeOK'
    BY EnvironmentType, WatchType, StartType, WorkType, StutterType DEF Next, RecordInv
  <2> QED BY <2>1, EnvironmentRecords, WatchRecords, StartRecords, WorkRecords, StutterRecords
          DEF Next
<1> QED BY <1>1, <1>2, PTL DEF Spec

(***************************************************************************)
(* A resource that is ready, for the spec that was observed, has its entry *)
(* in the ConfigMap, whatever is stale, refused or restarted.              *)
(***************************************************************************)
THEOREM ReadyRecorded == Spec => []ReadyIsRecorded
<1>1. RecordInv => ReadyIsRecorded
  BY DEF RecordInv
<1> QED BY <1>1, Recorded, PTL

-----------------------------------------------------------------------------
(* Reconciliations leave one another alone. *)

LEMMA EntriesOfOthers ==
    ASSUME RecordInv, job # Idle, [Next]_vars, NEW k \in Keys \ { Key }
    PROVE  k \in ready <=> k \in ready'
<1>1. CASE Work
  BY <1>1 DEF Work, AddFinalizer, ApplyLabel, RecordReadiness, UpdateStatus, RemoveLabel,
              RemoveReadiness, RemoveFinalizer, WriteCopy, Relabel, Rewrite, api, RecordInv, Coherent
<1>2. CASE ~Work
  BY <1>2 DEF Next, Environment, Create, Delete, Edit, AgentSignals, Heartbeat, Leave, UserWrites,
              MachineWrites, Watch, SyncAssignment, SyncMachine, SyncReadiness, Start, Restart,
              api, vars
<1> QED BY <1>1, <1>2

LEMMA MachinesOfOthers ==
    ASSUME RecordInv, job # Idle, Work, NEW n \in Machines, machine'[n] # machine[n]
    PROVE  n = job.copy.node /\ machine'[n] = [machine[n] EXCEPT !.label = machine'[n].label]
<1>1. PICK t : Relabel(job.copy.node, t) /\ job.copy.node \notin behind
  BY DEF Work, AddFinalizer, ApplyLabel, RecordReadiness, UpdateStatus, RemoveLabel,
         RemoveReadiness, RemoveFinalizer, WriteCopy, Rewrite, api
<1>2. n = job.copy.node
  BY <1>1 DEF Relabel, RecordInv, TypeOK
<1>3. machine'[n] = [machine[n] EXCEPT !.label = t]
  BY <1>1, <1>2 DEF Relabel, RecordInv, TypeOK, Coherent
<1>4. machine[n] \in Machine
  BY DEF RecordInv, TypeOK
<1>5. machine'[n].label = t
  BY <1>3, <1>4 DEF Machine
<1> QED BY <1>2, <1>3, <1>5

(***************************************************************************)
(* No reconciliation undoes the work of another, or of an agent, although  *)
(* it writes back whole objects (executeUpdateConfigMap, executeSetLabel). *)
(***************************************************************************)
THEOREM OwnOnly == Spec => TouchesOnlyItsOwn
<1>1. RecordInv /\ [Next]_vars
      => [job # Idle =>
            /\ \A k \in Keys \ { Key } : k \in ready <=> k \in ready'
            /\ Work => \A n \in Machines :
                  machine'[n] # machine[n]
                  => n = job.copy.node
                     /\ machine'[n] = [machine[n] EXCEPT !.label = machine'[n].label]]_vars
  BY EntriesOfOthers, MachinesOfOthers
<1> QED BY <1>1, Recorded, PTL DEF Spec, TouchesOnlyItsOwn

-----------------------------------------------------------------------------
(* The promise *)

\* How far a reconciliation has come tells what it has read.
AtItsPlace ==
    /\ job.step \in { "finalizer", "label", "record", "status" } => job.copy.life = "live"
    /\ job.step \in { "label", "record", "status" } => job.copy.finalizer
    /\ job.step \in { "label", "record" } => job.copy.on
    /\ job.step = "status" => /\ job.phase # ""
                              /\ job.phase = "Pending" <=> ~job.copy.on
    /\ job.step \in { "unlabel", "unrecord", "finish" } => job.copy.life = "deleting"

\* A resource without a finalizer has no status yet, or none any more.
Unclaimed ==
    \A a \in Assignments :
        /\ ~cr[a].finalizer => cr[a].phase = "" /\ ~cr[a].observed
        /\ cr[a].life \in { "new", "gone" } => ~cr[a].finalizer

\* What anybody has seen has been created.
Created ==
    /\ \A a \in Assignments : crSeen[a].life # "new" => cr[a].life # "new"
    /\ job # Idle => cr[job.of].life # "new"

ServedWell == AtItsPlace /\ Unclaimed /\ Created

ServeInv == RecordInv /\ ServedWell

LEMMA InitServes == ASSUME Init PROVE ServedWell
<1>1. \A a \in Assignments : /\ cr[a].life = "new" /\ ~cr[a].finalizer
                             /\ cr[a].phase = "" /\ ~cr[a].observed
  BY DEF Init
<1> QED BY <1>1 DEF Init, ServedWell, AtItsPlace, Unclaimed, Created, Idle

\* A resource is written by a user, who leaves its status and finalizer in order.
LEMMA UserServes ==
    ASSUME ServeInv, NEW a \in Assignments, NEW r \in CR, UserWrites(a, r), r.life # "new",
           ~r.finalizer => r.phase = "" /\ ~r.observed, r.life = "gone" => ~r.finalizer
    PROVE  ServedWell'
<1>1. cr'[a] = r /\ \A b \in Assignments \ { a } : cr'[b] = cr[b]
  BY DEF UserWrites, ServeInv, RecordInv, TypeOK
<1>2. \/ job = Idle /\ job' = Idle
      \/ /\ job # Idle /\ job \in Job
         /\ job'.step = job.step /\ job'.of = job.of /\ job'.copy = job.copy
         /\ job'.phase = job.phase
  BY DEF UserWrites, ServeInv, RecordInv, TypeOK, Job
<1>3. AtItsPlace'
  BY <1>2 DEF ServeInv, ServedWell, AtItsPlace
<1>4. Unclaimed'
  BY <1>1 DEF ServeInv, ServedWell, Unclaimed
<1>5. Created'
  <2>1. crSeen' = crSeen
    BY DEF UserWrites, caches
  <2>2. \A b \in Assignments : cr[b].life # "new" => cr'[b].life # "new"
    BY <1>1
  <2>3. job' # Idle => job # Idle /\ job'.of = job.of /\ job.of \in Assignments
    BY <1>2 DEF Job
  <2> QED BY <2>1, <2>2, <2>3 DEF ServeInv, ServedWell, Created
<1> QED BY <1>3, <1>4, <1>5 DEF ServedWell

LEMMA EnvironmentServes == ASSUME ServeInv, Environment PROVE ServedWell'
<1>0. \A a \in Assignments : cr[a] \in CR
  BY DEF ServeInv, RecordInv, TypeOK
<1>u. \A a \in Assignments :
        /\ ~cr[a].finalizer => cr[a].phase = "" /\ ~cr[a].observed
        /\ cr[a].life \in { "new", "gone" } => ~cr[a].finalizer
  BY DEF ServeInv, ServedWell, Unclaimed
<1>1. ASSUME NEW a \in Assignments, Create(a) PROVE ServedWell'
  <2> DEFINE r == [cr[a] EXCEPT !.life = "live", !.again = cr[a].life = "gone"]
  <2>1. r \in CR /\ UserWrites(a, r)
    BY <1>0, <1>1, CreatedTyped DEF Create
  <2>2. r.life = "live" /\ r.finalizer = cr[a].finalizer /\ r.phase = cr[a].phase
        /\ r.observed = cr[a].observed
    BY <1>0 DEF CR
  <2> QED BY <1>u, <2>1, <2>2, UserServes
<1>2. ASSUME NEW a \in Assignments, Delete(a) PROVE ServedWell'
  <2>1. CASE cr[a].finalizer
    <3> DEFINE r == [cr[a] EXCEPT !.life = "deleting"]
    <3>1. r \in CR /\ UserWrites(a, r)
      BY <1>0, <1>2, <2>1, DeletedTyped DEF Delete
    <3>2. r.life = "deleting" /\ r.finalizer
      BY <1>0, <2>1 DEF CR
    <3> QED BY <3>1, <3>2, UserServes
  <2>2. CASE ~cr[a].finalizer
    <3> DEFINE r == Removed(cr[a])
    <3>1. r \in CR /\ UserWrites(a, r)
      BY <1>0, <1>2, <2>2, RemovedTyped DEF Delete
    <3>2. r.life = "gone" /\ ~r.finalizer /\ r.phase = "" /\ ~r.observed
      BY <1>0 DEF CR, Removed
    <3> QED BY <3>1, <3>2, UserServes
  <2> QED BY <2>1, <2>2
<1>3. ASSUME NEW a \in Assignments, Edit(a) PROVE ServedWell'
  <2>1. PICK on \in BOOLEAN, n \in Machines :
            UserWrites(a, [cr[a] EXCEPT !.on = on, !.node = n, !.observed = FALSE])
    BY <1>3 DEF Edit
  <2> DEFINE r == [cr[a] EXCEPT !.on = on, !.node = n, !.observed = FALSE]
  <2>2. r \in CR
    BY <1>0, EditedTyped
  <2>3. r.life = "live" /\ r.finalizer = cr[a].finalizer /\ r.phase = cr[a].phase /\ ~r.observed
    BY <1>0, <1>3 DEF Edit, CR
  <2> QED BY <1>u, <2>1, <2>2, <2>3, UserServes
<1>4. ASSUME NEW n \in Machines, AgentSignals(n) \/ Heartbeat(n) \/ Leave(n)
      PROVE  ServedWell'
  BY <1>4 DEF AgentSignals, Heartbeat, Leave, MachineWrites, caches, ServeInv, ServedWell,
              AtItsPlace, Unclaimed, Created
<1> QED BY <1>1, <1>2, <1>3, <1>4 DEF Environment

LEMMA WatchServes == ASSUME ServeInv, Watch \/ Restart PROVE ServedWell'
<1>1. ASSUME NEW a \in Assignments, SyncAssignment(a) PROVE ServedWell'
  <2>1. /\ crSeen'[a] = cr[a]
        /\ \A b \in Assignments \ { a } : crSeen'[b] = crSeen[b]
    BY <1>1 DEF SyncAssignment, ServeInv, RecordInv, TypeOK
  <2>2. UNCHANGED <<cr, job>>
    BY <1>1 DEF SyncAssignment, api
  <2>3. AtItsPlace' /\ Unclaimed'
    BY <2>2 DEF ServeInv, ServedWell, AtItsPlace, Unclaimed
  <2>4. Created'
    BY <2>1, <2>2 DEF ServeInv, ServedWell, Created
  <2> QED BY <2>3, <2>4 DEF ServedWell
<1>2. CASE SyncReadiness \/ \E n \in Machines : SyncMachine(n)
  BY <1>2 DEF SyncReadiness, SyncMachine, api, ServeInv, ServedWell, AtItsPlace, Unclaimed, Created
<1>3. CASE Restart
  BY <1>3 DEF Restart, api, ServeInv, ServedWell, AtItsPlace, Unclaimed, Created, Idle
<1> QED BY <1>1, <1>2, <1>3 DEF Watch

LEMMA StartServes ==
    ASSUME ServeInv, NEW a \in Assignments, Start(a)
    PROVE  ServedWell'
<1>1. \/ job' = job
      \/ /\ job'.of = a /\ job'.copy = crSeen[a] /\ crSeen[a].life # "new"
         /\ job'.step \in { "unlabel", "finalizer", "status", "label" }
         /\ job'.step = "unlabel" <=> crSeen[a].life = "deleting"
         /\ job'.step # "unlabel" => crSeen[a].life = "live"
         /\ job'.step \in { "status", "label" } => crSeen[a].finalizer
         /\ job'.step = "status" => ~crSeen[a].on /\ job'.phase = "Pending"
         /\ job'.step = "label" => crSeen[a].on
  BY DEF Start
<1>2. UNCHANGED <<cr, crSeen>>
  BY DEF Start, api, caches
<1> QED BY <1>1, <1>2 DEF ServeInv, ServedWell, AtItsPlace, Unclaimed, Created

\* What a step of Reconcile has to go by
LEMMA WorkFacts ==
    ASSUME ServeInv, Work
    PROVE  /\ job \in Job /\ job # Idle /\ job.of \in Assignments /\ job.copy \in CR
           /\ job.copy.node \in Machines /\ cr[job.of] \in CR /\ cr[job.of].life # "new"
           /\ job.current => job.copy = cr[job.of]
<1>1. job.step \in Steps
  BY DEF Work, AddFinalizer, ApplyLabel, RecordReadiness, UpdateStatus, RemoveLabel,
         RemoveReadiness, RemoveFinalizer, Steps
<1>2. job \in Job /\ job # Idle /\ job.of \in Assignments /\ job.copy \in CR
      /\ job.copy.node \in Machines
  BY <1>1, AtWork DEF ServeInv, RecordInv
<1> QED BY <1>2 DEF ServeInv, ServedWell, Created, RecordInv, Coherent, TypeOK

\* The reconciliation is over; it may have written its copy.
LEMMA EndServes ==
    ASSUME ServeInv, Work, job' = Idle, crSeen' = crSeen, NEW r \in CR,
           \/ cr' = cr
           \/ /\ cr' = [cr EXCEPT ![job.of] = r]
              /\ r.life # "new"
              /\ ~r.finalizer => r.phase = "" /\ ~r.observed
              /\ r.life = "gone" => ~r.finalizer
    PROVE  ServedWell'
<1>1. CASE cr' = cr
  <2>1. AtItsPlace'
    BY DEF AtItsPlace, Idle
  <2>2. Unclaimed'
    BY <1>1 DEF ServeInv, ServedWell, Unclaimed
  <2>3. Created'
    BY <1>1 DEF ServeInv, ServedWell, Created
  <2> QED BY <2>1, <2>2, <2>3 DEF ServedWell
<1>2. CASE cr' # cr
  <2>1. cr'[job.of] = r /\ \A b \in Assignments \ { job.of } : cr'[b] = cr[b]
    BY <1>2, WorkFacts DEF ServeInv, RecordInv, TypeOK
  <2>2. Unclaimed'
    <3>1. /\ ~r.finalizer => r.phase = "" /\ ~r.observed
          /\ r.life \in { "new", "gone" } => ~r.finalizer
      BY <1>2
    <3>2. \A b \in Assignments : cr'[b] = r \/ cr'[b] = cr[b]
      BY <2>1
    <3> QED BY <3>1, <3>2 DEF ServeInv, ServedWell, Unclaimed
  <2>3. Created'
    BY <1>2, <2>1 DEF ServeInv, ServedWell, Created
  <2>4. AtItsPlace'
    BY DEF AtItsPlace, Idle
  <2> QED BY <2>2, <2>3, <2>4 DEF ServedWell
<1> QED BY <1>1, <1>2

\* The reconciliation goes on with the copy it has.
LEMMA NextStepServes ==
    ASSUME ServeInv, Work, UNCHANGED <<cr, crSeen>>, NEW step \in Steps, NEW phase \in Phase,
           GoOn(step, phase), job.step \in { "label", "record", "unlabel", "unrecord" },
           job.step = "label" =>
               step = "record" \/ (step = "status" /\ phase \notin { "", "Pending" }),
           job.step = "record" => step = "status" /\ phase \notin { "", "Pending" },
           job.step \in { "unlabel", "unrecord" } => step \in { "unrecord", "finish" }
    PROVE  ServedWell'
<1>1. /\ job'.step = step /\ job'.phase = phase /\ job'.of = job.of /\ job'.copy = job.copy
      /\ job # Idle
  BY WorkFacts DEF GoOn, Job
<1>2. AtItsPlace'
  BY <1>1 DEF ServeInv, ServedWell, AtItsPlace
<1>3. Unclaimed'
  BY DEF ServeInv, ServedWell, Unclaimed
<1>4. Created'
  BY <1>1 DEF ServeInv, ServedWell, Created
<1> QED BY <1>2, <1>3, <1>4 DEF ServedWell

LEMMA WorkServes == ASSUME ServeInv, Work PROVE ServedWell'
<1>0. /\ job \in Job /\ job.copy \in CR /\ job.phase \in Phase
  BY WorkFacts DEF Job
<1>1. CASE AddFinalizer
  <2> DEFINE r == [job.copy EXCEPT !.finalizer = TRUE]
  <2>1. job.copy.life = "live"
    BY <1>1 DEF AddFinalizer, ServeInv, ServedWell, AtItsPlace
  <2>2. r \in CR
    BY <1>0, ClaimedTyped
  <2>3. r.life = "live" /\ r.finalizer
    BY <1>0, <2>1 DEF CR
  <2>4. job' = Idle /\ crSeen' = crSeen /\ (cr' = cr \/ cr' = [cr EXCEPT ![job.of] = r])
    BY <1>1 DEF AddFinalizer, Return, WriteCopy, api, caches
  <2> HIDE DEF r
  <2> QED BY <2>2, <2>3, <2>4, EndServes
<1>2. CASE UpdateStatus
  <2> DEFINE r == [job.copy EXCEPT !.phase = job.phase, !.observed = TRUE]
  <2>1. job.copy.life = "live" /\ job.copy.finalizer
    BY <1>2 DEF UpdateStatus, ServeInv, ServedWell, AtItsPlace
  <2>2. r \in CR
    BY <1>0, ServedTyped
  <2>3. r.life = "live" /\ r.finalizer
    BY <1>0, <2>1 DEF CR
  <2>4. job' = Idle /\ crSeen' = crSeen /\ (cr' = cr \/ cr' = [cr EXCEPT ![job.of] = r])
    BY <1>2 DEF UpdateStatus, Return, WriteCopy, api, caches
  <2> HIDE DEF r
  <2> QED BY <2>2, <2>3, <2>4, EndServes
<1>3. CASE RemoveFinalizer
  <2> DEFINE r == Removed(job.copy)
  <2>1. r \in CR
    BY <1>0, RemovedTyped
  <2>2. r.life = "gone" /\ ~r.finalizer /\ r.phase = "" /\ ~r.observed
    BY <1>0 DEF CR, Removed
  <2>3. job' = Idle /\ crSeen' = crSeen /\ (cr' = cr \/ cr' = [cr EXCEPT ![job.of] = r])
    BY <1>3 DEF RemoveFinalizer, Return, WriteCopy, api, caches
  <2> HIDE DEF r
  <2> QED BY <2>1, <2>2, <2>3, EndServes
<1>4. CASE ApplyLabel
  <2>1. PICK step \in { "record", "status" }, phase \in Phase :
            GoOn(step, phase) /\ (step = "status" => phase \in { "Failed", "AwaitingNodeAgent" })
    BY <1>0, <1>4 DEF ApplyLabel, Phase
  <2>2. UNCHANGED <<cr, crSeen>> /\ job.step = "label"
    BY <1>4 DEF ApplyLabel, Relabel, api, caches
  <2> QED BY <2>1, <2>2, NextStepServes DEF Steps
<1>5. CASE RecordReadiness
  <2>1. PICK phase \in { "Ready", "Failed" } : GoOn("status", phase)
    BY <1>5 DEF RecordReadiness
  <2>2. UNCHANGED <<cr, crSeen>> /\ job.step = "record"
    BY <1>5 DEF RecordReadiness, Rewrite, api, caches
  <2> QED BY <2>1, <2>2, NextStepServes DEF Steps, Phase
<1>6. CASE RemoveLabel
  <2>1. UNCHANGED <<cr, crSeen>> /\ job.step = "unlabel" /\ GoOn("unrecord", job.phase)
    BY <1>6 DEF RemoveLabel, Relabel, api, caches
  <2> QED BY <1>0, <2>1, NextStepServes DEF Steps
<1>7. CASE RemoveReadiness
  <2>1. UNCHANGED <<cr, crSeen>> /\ job.step = "unrecord" /\ GoOn("finish", job.phase)
    BY <1>7 DEF RemoveReadiness, Rewrite, api, caches
  <2> QED BY <1>0, <2>1, NextStepServes DEF Steps
<1> QED BY <1>1, <1>2, <1>3, <1>4, <1>5, <1>6, <1>7 DEF Work

LEMMA StutterServes == ASSUME ServeInv, UNCHANGED vars PROVE ServedWell'
BY DEF vars, ServeInv, ServedWell, AtItsPlace, Unclaimed, Created

LEMMA Served == Spec => []ServeInv
<1>1. Init => ServedWell
  BY InitServes
<1>2. RecordInv /\ ServedWell /\ [Next]_vars => ServedWell'
  BY EnvironmentServes, WatchServes, StartServes, WorkServes, StutterServes DEF Next, ServeInv
<1>3. RecordInv /\ ServedWell => ServeInv
  BY DEF ServeInv
<1> QED BY <1>1, <1>2, <1>3, Recorded, PTL DEF Spec

-----------------------------------------------------------------------------
(* The refinement *)

\* What the promise speaks of
pvars == <<Specs, Statuses, ready>>

LEMMA InitMaps == ASSUME Init PROVE Promise!Init
<1>1. \A a \in Assignments : /\ cr[a] \in CR /\ cr[a].life = "new" /\ cr[a].again = FALSE
                             /\ cr[a].on = TRUE /\ cr[a].node \in Machines
                             /\ cr[a].phase = "" /\ cr[a].observed = FALSE
  BY DEF Init, CR
<1>2. \A a \in Assignments :
        SpecOf(cr[a]) \in [life : { "new" }, again : { FALSE }, on : { TRUE }, node : Machines]
  BY <1>1 DEF SpecOf
<1>3. \A a \in Assignments : StatusOf(cr[a]) = Promise!Unserved
  BY <1>1 DEF StatusOf, Promise!Unserved
<1>4. ready = {}
  BY DEF Init
<1> QED BY <1>2, <1>3, <1>4 DEF Promise!Init, Specs, Statuses

\* Resource a is written, and nothing else that the promise speaks of.
LEMMA OneWritten ==
    ASSUME TypeOK, NEW a \in Assignments, NEW r \in CR, cr' = [cr EXCEPT ![a] = r]
    PROVE  /\ Specs[a] = SpecOf(cr[a]) /\ Statuses[a] = StatusOf(cr[a])
           /\ Specs' = [Specs EXCEPT ![a] = SpecOf(r)]
           /\ Statuses' = [Statuses EXCEPT ![a] = StatusOf(r)]
BY DEF TypeOK, Specs, Statuses

\* What the promise sees of a resource
PromisedSpec == [life : { "new", "live", "deleting", "gone" }, again : BOOLEAN,
                 on : BOOLEAN, node : Machines]

IsSpecOf(x, r) ==
    /\ x \in PromisedSpec
    /\ x.life = r.life /\ x.again = r.again /\ x.on = r.on /\ x.node = r.node

IsStatusOf(x, r) ==
    /\ x \in [phase : Phase, observed : BOOLEAN]
    /\ x.phase = r.phase /\ x.observed = r.observed

LEMMA ViewsMap ==
    ASSUME NEW r \in CR
    PROVE  IsSpecOf(SpecOf(r), r) /\ IsStatusOf(StatusOf(r), r)
BY DEF CR, SpecOf, StatusOf, PromisedSpec, IsSpecOf, IsStatusOf

\* Two specs that differ in two fields at most
LEMMA CreatedSpec ==
    ASSUME NEW x \in PromisedSpec, NEW y \in PromisedSpec, NEW g \in BOOLEAN,
           x.life = "live", x.again = g, x.on = y.on, x.node = y.node
    PROVE  x = [y EXCEPT !.life = "live", !.again = g]
BY DEF PromisedSpec

LEMMA EditedSpec ==
    ASSUME NEW x \in PromisedSpec, NEW y \in PromisedSpec, x.life = y.life, x.again = y.again
    PROVE  x = [y EXCEPT !.on = x.on, !.node = x.node]
BY DEF PromisedSpec

LEMMA RemovedSpec ==
    ASSUME NEW x \in PromisedSpec, NEW y \in PromisedSpec,
           x.life = "gone", x.again = y.again, x.on = TRUE, x.node = y.node
    PROVE  x = [y EXCEPT !.life = "gone", !.on = TRUE]
BY DEF PromisedSpec

\* What users do is what the promise lets them do.
LEMMA CreateMaps == ASSUME TypeOK, NEW a \in Assignments, Create(a) PROVE Promise!Creates(a)
<1> DEFINE r == [cr[a] EXCEPT !.life = "live", !.again = cr[a].life = "gone"]
<1>0. cr[a] \in CR
  BY DEF TypeOK
<1>typed. r \in CR
  BY <1>0, CreatedTyped
<1>1. cr' = [cr EXCEPT ![a] = r] /\ ready' = ready
  BY DEF Create, UserWrites
<1>fields. /\ r.life = "live" /\ r.again = (cr[a].life = "gone") /\ r.on = cr[a].on
           /\ r.node = cr[a].node /\ r.phase = cr[a].phase /\ r.observed = cr[a].observed
  <2>1. r.life = "live" /\ r.again = (cr[a].life = "gone")
    BY <1>0 DEF CR
  <2>2. /\ r.on = cr[a].on /\ r.node = cr[a].node /\ r.phase = cr[a].phase
        /\ r.observed = cr[a].observed
    BY <1>0 DEF CR
  <2> QED BY <2>1, <2>2
<1>views. /\ IsSpecOf(SpecOf(r), r) /\ IsSpecOf(SpecOf(cr[a]), cr[a])
      /\ IsStatusOf(StatusOf(r), r) /\ IsStatusOf(StatusOf(cr[a]), cr[a])
  BY <1>0, <1>typed, ViewsMap
<1> HIDE DEF r
<1>2. /\ Specs[a] = SpecOf(cr[a]) /\ Statuses[a] = StatusOf(cr[a])
      /\ Specs' = [Specs EXCEPT ![a] = SpecOf(r)]
      /\ Statuses' = [Statuses EXCEPT ![a] = StatusOf(r)]
  BY <1>typed, <1>1, OneWritten
<1>3. SpecOf(r) = [SpecOf(cr[a]) EXCEPT !.life = "live", !.again = cr[a].life = "gone"]
  <2>1. SpecOf(r).life = "live" /\ SpecOf(r).again = (cr[a].life = "gone")
        /\ SpecOf(r).on = SpecOf(cr[a]).on /\ SpecOf(r).node = SpecOf(cr[a]).node
    BY <1>fields, <1>views DEF IsSpecOf
  <2> QED BY <1>views, <2>1, CreatedSpec DEF IsSpecOf
<1>4. StatusOf(r) = StatusOf(cr[a])
  BY <1>fields DEF StatusOf
<1>5. Statuses' = Statuses
  BY <1>2, <1>4 DEF Statuses
<1>6. Specs[a].life = cr[a].life /\ Specs[a].again = cr[a].again
  BY <1>2, <1>views DEF IsSpecOf
<1>7. Specs' = [Specs EXCEPT ![a].life = "live", ![a].again = Specs[a].life = "gone"]
  BY <1>2, <1>3, <1>6
<1> QED BY <1>1, <1>5, <1>6, <1>7 DEF Create, Promise!Creates

LEMMA EditMaps == ASSUME TypeOK, NEW a \in Assignments, Edit(a) PROVE Promise!Edits(a)
<1>0. cr[a] \in CR
  BY DEF TypeOK
<1>1. PICK on \in BOOLEAN, n \in Machines :
          UserWrites(a, [cr[a] EXCEPT !.on = on, !.node = n, !.observed = FALSE])
  BY DEF Edit
<1> DEFINE r == [cr[a] EXCEPT !.on = on, !.node = n, !.observed = FALSE]
<1>typed. r \in CR
  BY <1>0, EditedTyped
<1>2. cr' = [cr EXCEPT ![a] = r] /\ ready' = ready
  BY <1>1 DEF UserWrites
<1>fields. /\ r.life = cr[a].life /\ r.again = cr[a].again /\ r.on = on /\ r.node = n
      /\ r.phase = cr[a].phase /\ r.observed = FALSE
  BY <1>0 DEF CR
<1>views. /\ IsSpecOf(SpecOf(r), r) /\ IsSpecOf(SpecOf(cr[a]), cr[a])
      /\ IsStatusOf(StatusOf(r), r) /\ IsStatusOf(StatusOf(cr[a]), cr[a])
  BY <1>0, <1>typed, ViewsMap
<1> HIDE DEF r
<1>3. /\ Specs[a] = SpecOf(cr[a]) /\ Statuses[a] = StatusOf(cr[a])
      /\ Specs' = [Specs EXCEPT ![a] = SpecOf(r)]
      /\ Statuses' = [Statuses EXCEPT ![a] = StatusOf(r)]
  BY <1>typed, <1>2, OneWritten
<1>4. SpecOf(r) = [SpecOf(cr[a]) EXCEPT !.on = on, !.node = n]
  <2>1. SpecOf(r).life = SpecOf(cr[a]).life /\ SpecOf(r).again = SpecOf(cr[a]).again
    BY <1>fields, <1>views DEF IsSpecOf
  <2>2. SpecOf(r) \in PromisedSpec /\ SpecOf(cr[a]) \in PromisedSpec
    BY <1>views DEF IsSpecOf
  <2>3. SpecOf(r).on = on /\ SpecOf(r).node = n
    BY <1>fields, <1>views DEF IsSpecOf
  <2>4. SpecOf(r) = [SpecOf(cr[a]) EXCEPT !.on = SpecOf(r).on, !.node = SpecOf(r).node]
    BY <2>1, <2>2, EditedSpec
  <2> QED BY <2>3, <2>4
<1>5. StatusOf(r) = [StatusOf(cr[a]) EXCEPT !.observed = FALSE]
  BY <1>fields, <1>views DEF IsStatusOf
<1>6. Specs' = [Specs EXCEPT ![a].on = on, ![a].node = n]
  BY <1>3, <1>4
<1>7. Statuses' = [Statuses EXCEPT ![a].observed = FALSE]
  BY <1>3, <1>5
<1>8. Specs[a].life = "live"
  BY <1>3 DEF Edit, SpecOf
<1> QED BY <1>2, <1>6, <1>7, <1>8 DEF Promise!Edits

\* Resource a is removed: by its user, or by the operator that ends its cleanup.
LEMMA RemovalMaps ==
    ASSUME TypeOK, Unclaimed, NEW a \in Assignments, cr[a].life \in { "live", "deleting" },
           cr[a].life = "live" => ~cr[a].finalizer,
           cr' = [cr EXCEPT ![a] = Removed(cr[a])], ready' = ready
    PROVE  Promise!Goes(a)
<1> DEFINE r == Removed(cr[a])
<1>0. cr[a] \in CR
  BY DEF TypeOK
<1>typed. r \in CR
  BY <1>0, RemovedTyped
<1>2. /\ Specs[a] = SpecOf(cr[a]) /\ Statuses[a] = StatusOf(cr[a])
      /\ Specs' = [Specs EXCEPT ![a] = SpecOf(r)]
      /\ Statuses' = [Statuses EXCEPT ![a] = StatusOf(r)]
  BY <1>typed, OneWritten
<1>fields. /\ r.life = "gone" /\ r.again = cr[a].again /\ r.on = TRUE /\ r.node = cr[a].node
      /\ r.phase = "" /\ r.observed = FALSE
  BY <1>0 DEF CR, Removed
<1>views. /\ IsSpecOf(SpecOf(r), r) /\ IsSpecOf(SpecOf(cr[a]), cr[a])
      /\ IsStatusOf(StatusOf(r), r) /\ IsStatusOf(StatusOf(cr[a]), cr[a])
  BY <1>0, <1>typed, ViewsMap
<1> HIDE DEF r
<1>3. SpecOf(r) = [SpecOf(cr[a]) EXCEPT !.life = "gone", !.on = TRUE]
  <2>1. SpecOf(r).life = "gone" /\ SpecOf(r).again = SpecOf(cr[a]).again
        /\ SpecOf(r).on = TRUE /\ SpecOf(r).node = SpecOf(cr[a]).node
    BY <1>fields, <1>views DEF IsSpecOf
  <2> QED BY <1>views, <2>1, RemovedSpec DEF IsSpecOf
<1>4. StatusOf(r) = Promise!Unserved
  BY ONLY <1>fields DEF StatusOf, Promise!Unserved
<1>unserved. cr[a].life = "live" => cr[a].phase = "" /\ cr[a].observed = FALSE
  BY <1>0 DEF Unclaimed, CR
<1>5. cr[a].life = "live" => StatusOf(cr[a]) = Promise!Unserved
  BY <1>unserved DEF StatusOf, Promise!Unserved
<1>6. Specs[a].life = cr[a].life
  BY <1>2, <1>views DEF IsSpecOf
<1>7. Specs' = [Specs EXCEPT ![a].life = "gone", ![a].on = TRUE]
  BY <1>2, <1>3
<1> QED BY <1>2, <1>4, <1>5, <1>6, <1>7 DEF Promise!Goes

LEMMA DeleteMaps ==
    ASSUME TypeOK, Unclaimed, NEW a \in Assignments, Delete(a)
    PROVE  Promise!Deletes(a) \/ Promise!Goes(a)
<1>0. cr[a] \in CR /\ cr[a].life = "live"
  BY DEF TypeOK, Delete
<1>1. CASE cr[a].finalizer
  <2> DEFINE r == [cr[a] EXCEPT !.life = "deleting"]
  <2>1. r \in CR /\ cr' = [cr EXCEPT ![a] = r] /\ ready' = ready
    BY <1>0, <1>1, DeletedTyped DEF Delete, UserWrites
  <2>2. /\ Specs[a] = SpecOf(cr[a]) /\ Statuses[a] = StatusOf(cr[a])
        /\ Specs' = [Specs EXCEPT ![a] = SpecOf(r)]
        /\ Statuses' = [Statuses EXCEPT ![a] = StatusOf(r)]
    BY <2>1, OneWritten
  <2>3. SpecOf(r) = [SpecOf(cr[a]) EXCEPT !.life = "deleting"]
    BY <1>0 DEF SpecOf, CR
  <2>4. StatusOf(r) = StatusOf(cr[a])
    BY <1>0 DEF StatusOf, CR
  <2>5. Statuses' = Statuses
    BY <2>2, <2>4 DEF Statuses
  <2>6. Specs[a].life = "live"
    BY <1>0, <2>2 DEF SpecOf
  <2> HIDE DEF r
  <2>7. Specs' = [Specs EXCEPT ![a].life = "deleting"]
    BY <2>2, <2>3
  <2> QED BY <2>1, <2>5, <2>6, <2>7 DEF Promise!Deletes
<1>2. CASE ~cr[a].finalizer
  BY <1>0, <1>2, RemovalMaps DEF Delete, UserWrites
<1> QED BY <1>1, <1>2

\* The status of a job is one that the promise allows.
LEMMA StatusMaps ==
    ASSUME ServeInv, Work, job.step = "status", job.current,
           cr' = [cr EXCEPT ![job.of] = [job.copy EXCEPT !.phase = job.phase, !.observed = TRUE]],
           ready' = ready
    PROVE  Promise!Reports(job.of, job.phase)
<1> DEFINE a == job.of
           r == [job.copy EXCEPT !.phase = job.phase, !.observed = TRUE]
<1>0. a \in Assignments /\ cr[a] \in CR /\ job.copy = cr[a] /\ job.phase \in Phase /\ TypeOK
  BY WorkFacts DEF Job, ServeInv, RecordInv
<1>1. r \in CR
  BY <1>0, ServedTyped
<1>2. /\ Specs[a] = SpecOf(cr[a])
      /\ Specs' = [Specs EXCEPT ![a] = SpecOf(r)]
      /\ Statuses' = [Statuses EXCEPT ![a] = StatusOf(r)]
  BY <1>0, <1>1, OneWritten
<1>3. SpecOf(r) = SpecOf(cr[a]) /\ StatusOf(r) = [phase |-> job.phase, observed |-> TRUE]
  BY <1>0 DEF SpecOf, StatusOf, CR
<1>4. Specs' = Specs
  BY <1>2, <1>3 DEF Specs
<1>5. /\ Specs[a].life = cr[a].life /\ Specs[a].again = cr[a].again
      /\ Specs[a].on = cr[a].on /\ Specs[a].node = cr[a].node
  BY <1>2 DEF SpecOf
<1>6. cr[a].life = "live" /\ (job.phase = "Pending" <=> ~cr[a].on)
  BY <1>0 DEF ServeInv, ServedWell, AtItsPlace
<1>7. job.phase = "Ready" /\ ~cr[a].again => <<Tenant[a], cr[a].node>> \in ready
  BY <1>0, <1>6 DEF ServeInv, RecordInv, EntriesHold, Over, Key
<1> HIDE DEF r
<1>8. Statuses' = [Statuses EXCEPT ![a] = [phase |-> job.phase, observed |-> TRUE]]
  BY <1>2, <1>3
<1> QED BY <1>4, <1>5, <1>6, <1>7, <1>8 DEF Promise!Reports

\* Each step of Reconcile is one of the promise, or none that it sees.
LEMMA WorkMaps == ASSUME ServeInv, Work PROVE [Promise!Next]_pvars
<1>0. /\ job.of \in Assignments /\ job.copy.node \in Machines /\ job.phase \in Phase
      /\ job.copy \in CR /\ cr[job.of] \in CR /\ cr[job.of].life # "new" /\ TypeOK
      /\ job.current => job.copy = cr[job.of]
  BY WorkFacts DEF Job, ServeInv, RecordInv
<1>same. ASSUME UNCHANGED <<cr, ready>> PROVE UNCHANGED pvars
  BY <1>same DEF pvars, Specs, Statuses
<1>unwritten. UNCHANGED cr => UNCHANGED <<Specs, Statuses>>
  BY DEF Specs, Statuses
<1>1. CASE AddFinalizer
  <2> DEFINE r == [job.copy EXCEPT !.finalizer = TRUE]
  <2>1. CASE UNCHANGED <<cr, ready>>
    BY <2>1, <1>same
  <2>2. CASE job.current /\ WriteCopy(r)
    <3>1. r \in CR /\ cr' = [cr EXCEPT ![job.of] = r] /\ ready' = ready
      BY <1>0, <2>2, ClaimedTyped DEF WriteCopy
    <3>2. SpecOf(r) = SpecOf(cr[job.of]) /\ StatusOf(r) = StatusOf(cr[job.of])
      BY <1>0, <2>2 DEF SpecOf, StatusOf, CR
    <3> HIDE DEF r
    <3>3. UNCHANGED <<Specs, Statuses>>
      BY <1>0, <3>1, <3>2, OneWritten DEF Specs, Statuses
    <3> QED BY <3>1, <3>3 DEF pvars
  <2> QED BY <1>1, <2>1, <2>2 DEF AddFinalizer, api
<1>2. CASE UpdateStatus
  <2>1. CASE UNCHANGED <<cr, ready>>
    BY <2>1, <1>same
  <2>2. CASE ~UNCHANGED <<cr, ready>>
    <3>1. Promise!Reports(job.of, job.phase)
      BY <1>2, <2>2, StatusMaps DEF UpdateStatus, WriteCopy, api
    <3>2. job.phase \in { "Pending", "AwaitingNodeAgent", "Ready", "Failed" }
      BY <1>0, <1>2 DEF Phase, UpdateStatus, ServeInv, ServedWell, AtItsPlace
    <3> QED BY <1>0, <3>1, <3>2 DEF Promise!Next
  <2> QED BY <2>1, <2>2
<1>3. CASE RemoveFinalizer
  <2>1. CASE UNCHANGED <<cr, ready>>
    BY <2>1, <1>same
  <2>2. CASE ~UNCHANGED <<cr, ready>>
    <3>1. cr[job.of].life = "deleting"
      BY <1>0, <1>3, <2>2 DEF RemoveFinalizer, ServeInv, ServedWell, AtItsPlace, api
    <3>2. cr' = [cr EXCEPT ![job.of] = Removed(cr[job.of])] /\ ready' = ready
      BY <1>0, <1>3, <2>2 DEF RemoveFinalizer, WriteCopy, api
    <3>3. Promise!Goes(job.of)
      BY <1>0, <3>1, <3>2, RemovalMaps DEF ServeInv, ServedWell
    <3> QED BY <1>0, <3>3 DEF Promise!Next
  <2> QED BY <2>1, <2>2
<1>4. CASE ApplyLabel \/ RemoveLabel
  BY <1>4, <1>same DEF ApplyLabel, RemoveLabel, Relabel, api
<1>5. CASE RecordReadiness
  <2>1. cr' = cr
    BY <1>5 DEF RecordReadiness, Rewrite, api
  <2>2. CASE ready' = ready
    BY <1>same, <2>1, <2>2
  <2>3. CASE ready' # ready
    <3>1. ready' = ready \cup { <<Tenant[job.of], job.copy.node>> }
      BY <1>5, <2>3 DEF RecordReadiness, Rewrite, api, Key, ServeInv, RecordInv, Coherent
    <3>2. Specs[job.of].life # "new"
      BY <1>0 DEF Specs, SpecOf
    <3>3. Promise!Records(job.of, job.copy.node)
      BY <1>unwritten, <2>1, <3>1, <3>2 DEF Promise!Records
    <3> QED BY <1>0, <3>3 DEF Promise!Next
  <2> QED BY <2>2, <2>3
<1>6. CASE RemoveReadiness
  <2>1. cr' = cr
    BY <1>6 DEF RemoveReadiness, Rewrite, api
  <2>2. CASE ready' = ready
    BY <1>same, <2>1, <2>2
  <2>3. CASE ready' # ready
    <3>1. ready' = ready \ { <<Tenant[job.of], job.copy.node>> }
      BY <1>6, <2>3 DEF RemoveReadiness, Rewrite, api, Key, ServeInv, RecordInv, Coherent
    <3>2. Over(job.of)
      BY <1>6 DEF RemoveReadiness, ServeInv, RecordInv, DeletionsBegan
    <3>3. Specs[job.of].life \in { "deleting", "gone" } \/ Specs[job.of].again
      BY <1>0, <3>2 DEF Specs, SpecOf, Over
    <3>4. Promise!Forgets(job.of, job.copy.node)
      BY <1>unwritten, <2>1, <3>1, <3>3 DEF Promise!Forgets
    <3> QED BY <1>0, <3>4 DEF Promise!Next
  <2> QED BY <2>2, <2>3
<1> QED BY <1>1, <1>2, <1>3, <1>4, <1>5, <1>6 DEF Work

\* Every step is one of the promise, or leaves all that it speaks of alone.
LEMMA StepMaps == ASSUME ServeInv, [Next]_vars PROVE [Promise!Next]_pvars
<1>1. CASE \E a \in Assignments : Create(a) \/ Delete(a) \/ Edit(a)
  <2>1. PICK a \in Assignments : Create(a) \/ Delete(a) \/ Edit(a)
    BY <1>1
  <2>2. Promise!Creates(a) \/ Promise!Deletes(a) \/ Promise!Goes(a) \/ Promise!Edits(a)
    BY <2>1, CreateMaps, DeleteMaps, EditMaps DEF ServeInv, RecordInv, ServedWell
  <2> QED BY <2>2 DEF Promise!Next
<1>2. CASE Work
  BY <1>2, WorkMaps
<1>3. CASE \/ \E n \in Machines : AgentSignals(n) \/ Heartbeat(n) \/ Leave(n)
           \/ Watch \/ Restart \/ UNCHANGED vars
           \/ \E a \in Assignments : Start(a)
  <2>1. UNCHANGED <<cr, ready>>
    BY <1>3 DEF AgentSignals, Heartbeat, Leave, MachineWrites, Watch, SyncAssignment, SyncMachine,
                SyncReadiness, Start, Restart, api, vars
  <2> QED BY <2>1 DEF pvars, Specs, Statuses
<1> QED BY <1>1, <1>2, <1>3 DEF Next, Environment

(***************************************************************************)
(* Caches, conflicts and restarts do not show: whatever the operator does  *)
(* on old copies is a step that the promise allows, or no step of it.      *)
(***************************************************************************)
THEOREM AssignmentsKept == Spec => KeepsAssignments
<1>1. Init => Promise!Init
  BY InitMaps
<1>2. ServeInv /\ [Next]_vars => [Promise!Next]_<<Specs, Statuses, ready>>
  BY StepMaps DEF pvars
<1> QED BY <1>1, <1>2, Served, PTL DEF Spec, KeepsAssignments, Promise!Spec

=============================================================================
