------------------------ MODULE NLMControllerProofs -------------------------
(***************************************************************************)
(* Theorems about the NLM controller, for every fleet, every set of        *)
(* clients and every setting of the other constants.  Type correctness,    *)
(* the protection invariant and the closed graceful path follow from one   *)
(* inductive invariant: every row anybody holds is sound.  The action      *)
(* properties and the refinement of NodePromise follow from what one step  *)
(* makes of the node table.                                                *)
(***************************************************************************)
EXTENDS NLMController, NodeLifecycleProofs

USE StoreAssumption

\* What is stored
StoreSound ==
    /\ row \in [Nodes -> Row]
    /\ \A n \in Nodes : Sound(row[n])
    /\ desired \in [Nodes -> State \cup { "none" }]
    /\ maint \in [Nodes -> SUBSET { "awaiting", "approved" }]
    /\ timers \subseteq Nodes

\* What requests under way have read
RequestsSound ==
    /\ req \in [Clients -> [node : Nodes, copy : Row] \cup { NoReq }]
    /\ \A c \in Clients : req[c] # NoReq => Sound(req[c].copy)

\* What the tick under way holds: a copy of every node it has still to visit,
\* except while it follows desired-state files and reads node after node
TickSound ==
    /\ phase \in Phases
    /\ todo \subseteq Nodes
    /\ snap \in [Nodes -> Row \cup { NoRow }]
    /\ \A n \in Nodes : snap[n] # NoRow => Sound(snap[n])
    /\ phase # "desired" => \A n \in todo : snap[n] # NoRow
    /\ phase \in { "timeouts", "batch" } => \A n \in Nodes : snap[n] # NoRow

\* The inductive invariant: every row that is stored or held is sound.
AllSound == StoreSound /\ RequestsSound /\ TickSound

-----------------------------------------------------------------------------
(* The shared steps keep their part of the invariant. *)

\* No sound row is NoRow: what was read can be told from what was not.
LEMMA SoundIsRow == ASSUME NEW r, Sound(r) PROVE r \in Row /\ r # NoRow
BY DEF Sound

\* A request under way has a node and a sound copy of its row.
LEMMA RequestUnderWay ==
    ASSUME RequestsSound, NEW c \in Clients, req[c] # NoReq
    PROVE  req[c].node \in Nodes /\ Sound(req[c].copy)
BY DEF RequestsSound

\* Saving a sound row keeps the table sound.
LEMMA SaveKeeps ==
    ASSUME StoreSound, NEW n \in Nodes, NEW r, Sound(r),
           row' = [row EXCEPT ![n] = r],
           desired' \in [Nodes -> State \cup { "none" }], UNCHANGED maint,
           timers' \subseteq Nodes
    PROVE  StoreSound'
<1>1. row' \in [Nodes -> Row]
    BY SoundIsRow DEF StoreSound
<1>2. ASSUME NEW m \in Nodes PROVE Sound(row'[m])
  <2>1. CASE m = n
    BY <2>1 DEF StoreSound
  <2>2. CASE m # n
    BY <2>2 DEF StoreSound
  <2> QED BY <2>1, <2>2
<1> QED BY <1>1, <1>2 DEF StoreSound

\* The end of a request keeps the others sound.
LEMMA AnswerKeeps ==
    ASSUME RequestsSound, NEW c \in Clients, req' = [req EXCEPT ![c] = NoReq]
    PROVE  RequestsSound'
BY DEF RequestsSound

\* A tick that has ended holds nothing.
LEMMA EndTickKeeps == ASSUME EndTick PROVE TickSound'
BY DEF EndTick, TickSound, NoSnap, Phases

\* A tick that has visited a node forgets it or holds it as it saved it.
LEMMA VisitedKeeps ==
    ASSUME TickSound, NEW n \in Nodes, NEW kept,
           Sound(kept) \/ (kept = NoRow /\ phase \notin { "timeouts", "batch" }),
           Visited(n, kept)
    PROVE  TickSound'
<1>1. kept \in Row \cup { NoRow }
    BY SoundIsRow
<1>2. /\ snap' = [snap EXCEPT ![n] = kept] /\ todo' = todo \ { n } /\ phase' = phase
      /\ snap' \in [Nodes -> Row \cup { NoRow }]
    BY <1>1 DEF Visited, TickSound
<1>3. ASSUME NEW m \in Nodes, snap'[m] # NoRow PROVE Sound(snap'[m])
    BY <1>2, <1>3 DEF TickSound
<1>4. phase # "desired" => \A m \in todo' : snap'[m] # NoRow
    BY <1>2 DEF TickSound
<1>5. phase \in { "timeouts", "batch" } => \A m \in Nodes : snap'[m] # NoRow
    BY <1>2, SoundIsRow DEF TickSound
<1> QED BY <1>2, <1>3, <1>4, <1>5 DEF TickSound

\* db.list_nodes hands out sound copies of all nodes.
LEMMA BeginTickKeeps ==
    ASSUME AllSound, NEW op, NEW first \in Phases, NEW visit \in SUBSET Nodes,
           BeginTick(op, first, visit)
    PROVE  AllSound'
<1>1. /\ \A n \in Nodes : Sound(Fetched[n]) /\ Fetched[n] # NoRow
      /\ Fetched \in [Nodes -> Row \cup { NoRow }]
    BY FromDbSound, SoundIsRow DEF Fetched, AllSound, StoreSound
<1>2. phase' = first /\ todo' = visit /\ snap' = Fetched
    BY DEF BeginTick
<1>3. TickSound'
    BY <1>1, <1>2 DEF TickSound
<1>4. StoreSound' /\ RequestsSound'
    BY DEF BeginTick, AllSound, StoreSound, RequestsSound, stored
<1> QED BY <1>3, <1>4 DEF AllSound

\* save_node and what follows it, wherever it is broken off
LEMMA CommitKeeps ==
    ASSUME AllSound, NEW n \in Nodes, NEW r, Sound(r), NEW kept,
           kept = r \/ (kept = NoRow /\ phase \notin { "timeouts", "batch" }),
           NEW started \in SUBSET Nodes, Commit(n, r, kept, started)
    PROVE  AllSound'
<1>1. /\ desired' \in [Nodes -> State \cup { "none" }]
      /\ timers' \subseteq Nodes
    BY SoundIsRow DEF Commit, AllSound, StoreSound, Row
<1>2. StoreSound'
    BY <1>1, SaveKeeps DEF Commit, AllSound
<1>3. RequestsSound'
    BY DEF Commit, AllSound, RequestsSound
<1>4. TickSound'
    BY VisitedKeeps, EndTickKeeps DEF Commit, AllSound
<1> QED BY <1>2, <1>3, <1>4 DEF AllSound

-----------------------------------------------------------------------------
(* The fleet starts sound. *)

LEMMA InitSound == Init => AllSound
<1> SUFFICES ASSUME Init PROVE AllSound
    OBVIOUS
<1>1. ASSUME NEW n \in Nodes PROVE Sound(row[n])
  <2>1. PICK s \in Seeds : row[n] \in SeedRows(s)
      BY DEF Init
  <2> QED BY <2>1, SeedsSound
<1>2. StoreSound
  <2>1. row \in [Nodes -> Row]
      BY <1>1, SoundIsRow DEF Init
  <2> QED BY <1>1, <2>1 DEF Init, StoreSound
<1>3. RequestsSound
    BY DEF Init, RequestsSound
<1>4. TickSound
    BY DEF Init, TickSound, NoSnap, Phases
<1> QED BY <1>2, <1>3, <1>4 DEF AllSound

-----------------------------------------------------------------------------
(* Every step keeps it so. *)

\* Requests of clients (api.py, cli.py)
LEMMA ClientStepSound == AllSound /\ ClientStep => AllSound'
<1> SUFFICES ASSUME AllSound, ClientStep PROVE AllSound'
    OBVIOUS
<1>1. ASSUME NEW c \in Clients, NEW n \in Nodes, Read(c, n) PROVE AllSound'
  <2>1. Sound(FromDb(row[n]))
      BY FromDbSound DEF AllSound, StoreSound
  <2>2. RequestsSound'
    <3>1. FromDb(row[n]) \in Row
        BY <2>1, SoundIsRow
    <3>2. req' = [req EXCEPT ![c] = [node |-> n, copy |-> FromDb(row[n])]]
        BY <1>1 DEF Read
    <3> HIDE DEF NoReq
    <3> QED BY <2>1, <3>1, <3>2 DEF AllSound, RequestsSound
  <2>3. StoreSound' /\ TickSound'
      BY <1>1 DEF Read, AllSound, StoreSound, TickSound, stored, tickVars
  <2> QED BY <2>2, <2>3 DEF AllSound
<1>2. ASSUME NEW c \in Clients, req[c] # NoReq, NEW r, Sound(r), Save(c, r)
      PROVE  AllSound'
  <2>1. req[c].node \in Nodes
      BY <1>2, RequestUnderWay DEF AllSound
  <2>2. StoreSound'
    <3>1. /\ row' = [row EXCEPT ![req[c].node] = r]
          /\ UNCHANGED <<desired, maint, timers>>
        BY <1>2 DEF Save
    <3> QED BY <1>2, <2>1, <3>1, SaveKeeps DEF AllSound, StoreSound
  <2>3. RequestsSound'
      BY <1>2, AnswerKeeps DEF Save, AllSound
  <2>4. TickSound'
      BY <1>2 DEF Save, AllSound, TickSound, tickVars
  <2> QED BY <2>2, <2>3, <2>4 DEF AllSound
<1>3. ASSUME NEW c \in Clients, TransitionNode(c) PROVE AllSound'
  <2>1. req[c] # NoReq /\ req[c].node \in Nodes /\ Sound(req[c].copy)
      BY <1>3, RequestUnderWay DEF TransitionNode, Asks, AllSound
  <2>2. PICK e \in Transitions :
          Permitted(req[c].copy, e) /\ Save(c, After(req[c].copy, e))
      BY <1>3 DEF TransitionNode
  <2> QED BY <1>2, <2>1, <2>2, AfterSound
<1>4. ASSUME NEW c \in Clients, CordonNode(c) PROVE AllSound'
  <2>1. req[c] # NoReq /\ Sound(req[c].copy)
      BY <1>4, RequestUnderWay DEF CordonNode, Asks, AllSound
  <2>2. PICK owner \in Callers, prio \in ClientPriorities :
          Save(c, Cordoned(req[c].copy, owner, prio))
      BY <1>4 DEF CordonNode
  <2>3. Sound(Cordoned(req[c].copy, owner, prio))
      BY <2>1, CordonedSound DEF Owner
  <2> QED BY <1>2, <2>1, <2>2, <2>3
<1>5. ASSUME NEW c \in Clients, UncordonNode(c) PROVE AllSound'
  <2>1. req[c] # NoReq /\ Sound(req[c].copy)
      BY <1>5, RequestUnderWay DEF UncordonNode, Asks, AllSound
  <2>2. Save(c, Uncordoned(req[c].copy))
      BY <1>5 DEF UncordonNode
  <2> QED BY <1>2, <2>1, <2>2, UncordonedSound
<1>6. ASSUME NEW c \in Clients, InjectFault(c) PROVE AllSound'
  <2>1. req[c] # NoReq /\ Sound(req[c].copy)
      BY <1>6, RequestUnderWay DEF InjectFault, Asks, AllSound
  <2>2. PICK severe \in BOOLEAN : Save(c, Injected(req[c].copy, severe))
      BY <1>6 DEF InjectFault
  <2> QED BY <1>2, <2>1, <2>2, InjectedSound
<1>7. ASSUME NEW c \in Clients, Refuse(c) PROVE AllSound'
  <2>1. RequestsSound'
      BY <1>7, AnswerKeeps DEF Refuse, AllSound
  <2>2. StoreSound' /\ TickSound'
      BY <1>7 DEF Refuse, AllSound, StoreSound, TickSound, stored, tickVars
  <2> QED BY <2>1, <2>2 DEF AllSound
<1>8. ASSUME NEW n \in Nodes, Approve(n) PROVE AllSound'
  <2>1. maint' \in [Nodes -> SUBSET { "awaiting", "approved" }]
      BY <1>8 DEF Approve, AllSound, StoreSound
  <2> QED BY <1>8, <2>1
          DEF Approve, AllSound, StoreSound, RequestsSound, TickSound, tickVars
<1>9. ASSUME NEW n \in Nodes, CommitDesired(n) PROVE AllSound'
  <2>1. desired' \in [Nodes -> State \cup { "none" }]
      BY <1>9 DEF CommitDesired, AllSound, StoreSound
  <2> QED BY <1>9, <2>1
          DEF CommitDesired, AllSound, StoreSound, RequestsSound, TickSound, tickVars
<1> QED BY <1>1, <1>3, <1>4, <1>5, <1>6, <1>7, <1>8, <1>9 DEF ClientStep

\* Reconciler._handle_critical leaves the operator's copy sound.
LEMMA HandledSound ==
    ASSUME NEW r, Sound(r)
    PROVE  Sound(Handled(r))
<1> DEFINE q == Cordoned(r, "nlm-reconciler", 0)
<1>1. Sound(q) /\ q.state = r.state
  <2>1. "nlm-reconciler" \in Owner
      BY DEF Owner
  <2>2. 0 \in Priority
      BY DEF Priority
  <2> QED BY <2>1, <2>2, CordonedSound
<1> HIDE DEF q
<1>2. CASE r.state \in { "certified_ready", "testing", "burn_in" } /\ FailEdges(r) # {}
  <2>1. PICK e \in FailEdges(r) : Handled(r) = After(q, e)
      BY <1>2 DEF Handled, q
  <2>2. e \in Transitions /\ Permitted(q, e)
      BY <1>1, <1>2 DEF FailEdges, Permitted
  <2> QED BY <1>1, <2>1, <2>2, AfterSound
<1>3. CASE ~(r.state \in { "certified_ready", "testing", "burn_in" } /\ FailEdges(r) # {})
  <2>1. Handled(r) = q
      BY <1>3 DEF Handled, q
  <2> QED BY <1>1, <2>1
<1> QED BY <1>2, <1>3

\* operators/reconciler.py
LEMMA ReconcilerStepSound == AllSound /\ ReconcilerStep => AllSound'
<1> SUFFICES ASSUME AllSound, ReconcilerStep PROVE AllSound'
    OBVIOUS
<1>1. CASE BeginReconciler
    BY <1>1, BeginTickKeeps DEF BeginReconciler, Phases
<1>2. ASSUME NEW n \in Nodes, HandleCritical(n) PROVE AllSound'
  <2> DEFINE r == Handled(snap[n])
  <2>1. Sound(snap[n])
      BY <1>2 DEF HandleCritical, AllSound, TickSound
  <2>2. Sound(r)
      BY <2>1, HandledSound
  <2>3. /\ desired' = [desired EXCEPT ![n] = r.state]
        /\ \/ /\ row' = [row EXCEPT ![n] = r]
              /\ Visited(n, NoRow)
           \/ UNCHANGED row /\ EndTick
        /\ UNCHANGED <<maint, timers, req>>
      BY <1>2 DEF HandleCritical
  <2> HIDE DEF r
  <2>4. desired' \in [Nodes -> State \cup { "none" }]
      BY <2>2, <2>3, SoundIsRow DEF AllSound, StoreSound, Row
  <2>5. StoreSound'
    <3>1. CASE UNCHANGED row
        BY <2>3, <2>4, <3>1 DEF AllSound, StoreSound
    <3>2. CASE row' = [row EXCEPT ![n] = r]
      <4>1. timers' \subseteq Nodes /\ UNCHANGED maint
          BY <2>3, <3>2 DEF AllSound, StoreSound
      <4> QED BY <2>2, <2>4, <3>2, <4>1, SaveKeeps DEF AllSound
    <3> QED BY <2>3, <3>1, <3>2
  <2>6. TickSound'
      BY <1>2, <2>3, VisitedKeeps, EndTickKeeps DEF HandleCritical, AllSound
  <2>7. RequestsSound'
      BY <2>3 DEF AllSound, RequestsSound
  <2> QED BY <2>5, <2>6, <2>7 DEF AllSound
<1>3. ASSUME NEW n \in Nodes, RequestMaintenance(n) PROVE AllSound'
  <2>1. Sound(snap[n])
      BY <1>3 DEF RequestMaintenance, AllSound, TickSound
  <2>2. maint' \in [Nodes -> SUBSET { "awaiting", "approved" }]
    <3>1. PICK kept \in { {}, maint[n] } :
            maint' = [maint EXCEPT ![n] = kept \cup { "awaiting" }]
        BY <1>3 DEF RequestMaintenance
    <3>2. kept \cup { "awaiting" } \in SUBSET { "awaiting", "approved" }
        BY DEF AllSound, StoreSound
    <3> QED BY <3>1, <3>2 DEF AllSound, StoreSound
  <2>3. row' \in [Nodes -> Row] /\ \A m \in Nodes : Sound(row'[m])
    <3>1. CASE UNCHANGED row
        BY <3>1 DEF AllSound, StoreSound
    <3>2. CASE row' = [row EXCEPT ![n] = snap[n]]
        BY <2>1, <3>2, SoundIsRow DEF AllSound, StoreSound
    <3> QED BY <1>3, <3>1, <3>2 DEF RequestMaintenance
  <2>4. StoreSound' /\ RequestsSound'
      BY <1>3, <2>2, <2>3 DEF RequestMaintenance, AllSound, StoreSound, RequestsSound
  <2>5. TickSound'
      BY <1>3, VisitedKeeps, EndTickKeeps DEF RequestMaintenance, AllSound
  <2> QED BY <2>4, <2>5 DEF AllSound
<1>4. CASE ListDesired
  <2>1. TickSound'
      BY <1>4 DEF ListDesired, TickSound, NoSnap, Phases
  <2> QED BY <1>4, <2>1 DEF ListDesired, AllSound, StoreSound, RequestsSound, stored
<1>5. ASSUME NEW n \in Nodes, GetNode(n) PROVE AllSound'
  <2>1. Sound(FromDb(row[n])) /\ FromDb(row[n]) \in Row
      BY FromDbSound, SoundIsRow DEF AllSound, StoreSound
  <2>2. TickSound'
    <3>1. CASE snap' = [snap EXCEPT ![n] = FromDb(row[n])] /\ UNCHANGED todo
        BY <1>5, <2>1, <3>1 DEF GetNode, AllSound, TickSound
    <3>2. CASE todo' = todo \ { n } /\ UNCHANGED snap
        BY <1>5, <3>2 DEF GetNode, AllSound, TickSound
    <3> QED BY <1>5, <3>1, <3>2 DEF GetNode
  <2> QED BY <1>5, <2>2 DEF GetNode, AllSound, StoreSound, RequestsSound, stored
<1>6. ASSUME NEW n \in Nodes, Correct(n) PROVE AllSound'
  <2>1. Sound(snap[n])
      BY <1>6 DEF Correct, AllSound, TickSound
  <2>2. PICK e \in Corrections(snap[n], n) : row' = [row EXCEPT ![n] = After(snap[n], e)]
      BY <1>6 DEF Correct
  <2>3. Sound(After(snap[n], e))
      BY <2>1, AfterSound DEF Corrections
  <2>4. StoreSound'
    <3>1. /\ desired' \in [Nodes -> State \cup { "none" }] /\ UNCHANGED maint
          /\ timers' \subseteq Nodes
        BY <1>6 DEF Correct, AllSound, StoreSound
    <3> QED BY <2>2, <2>3, <3>1, SaveKeeps DEF AllSound
  <2>5. TickSound'
      BY <1>6, VisitedKeeps DEF Correct, AllSound
  <2>6. RequestsSound'
      BY <1>6 DEF Correct, AllSound, RequestsSound
  <2> QED BY <2>4, <2>5, <2>6 DEF AllSound
<1>7. CASE EndReconciler
    BY <1>7, EndTickKeeps DEF EndReconciler, AllSound, StoreSound, RequestsSound, stored
<1> QED BY <1>1, <1>2, <1>3, <1>4, <1>5, <1>6, <1>7 DEF ReconcilerStep

\* operators/maintenance.py
LEMMA MaintenanceStepSound == AllSound /\ MaintenanceStep => AllSound'
<1> SUFFICES ASSUME AllSound, MaintenanceStep PROVE AllSound'
    OBVIOUS
<1>1. CASE BeginMaintenance
    BY <1>1, BeginTickKeeps DEF BeginMaintenance, Phases
<1>2. ASSUME NEW n \in Nodes, TimeOut(n) PROVE AllSound'
  <2>1. Sound(snap[n])
      BY <1>2 DEF TimeOut, AllSound, TickSound
  <2>2. PICK e \in Transitions :
          Permitted(snap[n], e) /\ Commit(n, After(snap[n], e), After(snap[n], e), timers)
      BY <1>2 DEF TimeOut
  <2> DEFINE r == After(snap[n], e)
  <2>3. Sound(r) /\ timers \in SUBSET Nodes /\ Commit(n, r, r, timers)
      BY <2>1, <2>2, AfterSound DEF AllSound, StoreSound
  <2> HIDE DEF r
  <2> QED BY <2>3, CommitKeeps
<1>3. ASSUME NEW n \in Nodes, StaysOn(n) PROVE AllSound'
  <2>1. Sound(snap[n])
      BY <1>3 DEF StaysOn, AllSound, TickSound
  <2>2. TickSound'
      BY <1>3, <2>1, VisitedKeeps DEF StaysOn, AllSound
  <2> QED BY <1>3, <2>2 DEF StaysOn, AllSound, StoreSound, RequestsSound, stored
<1>4. CASE ChooseBatch
  <2>1. todo' \subseteq Nodes /\ \A n \in todo' : snap'[n] # NoRow
      BY <1>4 DEF ChooseBatch, AllSound, TickSound
  <2>2. TickSound'
      BY <1>4, <2>1 DEF ChooseBatch, AllSound, TickSound, Phases
  <2> QED BY <1>4, <2>2 DEF ChooseBatch, AllSound, StoreSound, RequestsSound, stored
<1>5. ASSUME NEW n \in Nodes, StartRepair(n) PROVE AllSound'
  <2>1. Sound(snap[n])
      BY <1>5 DEF StartRepair, AllSound, TickSound
  <2>2. PICK e \in Transitions :
          Permitted(snap[n], e) /\ Commit(n, After(snap[n], e), After(snap[n], e), timers)
      BY <1>5 DEF StartRepair
  <2> DEFINE r == After(snap[n], e)
  <2>3. Sound(r) /\ timers \in SUBSET Nodes /\ Commit(n, r, r, timers)
      BY <2>1, <2>2, AfterSound DEF AllSound, StoreSound
  <2> HIDE DEF r
  <2> QED BY <2>3, CommitKeeps
<1>6. CASE ApprovalGate
  <2>1. ASSUME NEW n \in Nodes
        PROVE  /\ Sound(FromDb(row[n])) /\ Sound(row[n])
               /\ \A e \in ApprovedDrain(FromDb(row[n])) : Sound(After(FromDb(row[n]), e))
    <3>1. Sound(FromDb(row[n])) /\ Sound(row[n])
        BY FromDbSound DEF AllSound, StoreSound
    <3> QED BY <3>1, AfterSound DEF ApprovedDrain
  <2>2. ASSUME NEW n \in Nodes PROVE Sound(row'[n])
    <3> DEFINE drains == ApprovedDrain(FromDb(row[n]))
    <3>1. row'[n] = row[n] \/ \E e \in drains : row'[n] = After(FromDb(row[n]), e)
        BY <1>6 DEF ApprovalGate
    <3> QED BY <2>1, <3>1
  <2>3. row' \in [Nodes -> Row]
    <3>1. \A n \in Nodes : row'[n] \in Row
        BY <2>2, SoundIsRow
    <3>2. DOMAIN row' = Nodes /\ row' = [n \in Nodes |-> row'[n]]
        BY <1>6 DEF ApprovalGate
    <3> QED BY <3>1, <3>2
  <2>4. StoreSound' /\ RequestsSound'
      BY <1>6, <2>2, <2>3 DEF ApprovalGate, AllSound, StoreSound, RequestsSound
  <2>5. TickSound'
      BY <1>6, EndTickKeeps DEF ApprovalGate
  <2> QED BY <2>4, <2>5 DEF AllSound
<1> QED BY <1>1, <1>2, <1>3, <1>4, <1>5, <1>6 DEF MaintenanceStep

\* operators/testing.py
LEMMA TestingStepSound == AllSound /\ TestingStep => AllSound'
<1> SUFFICES ASSUME AllSound, TestingStep PROVE AllSound'
    OBVIOUS
<1>1. CASE BeginTesting
    BY <1>1, BeginTickKeeps DEF BeginTesting, Phases
<1>2. ASSUME NEW n \in Nodes, ScheduleTest(n) PROVE AllSound'
  <2>1. Sound(snap[n]) /\ phase \notin { "timeouts", "batch" }
      BY <1>2 DEF ScheduleTest, AllSound, TickSound
  <2>2. PICK e \in Transitions :
          Permitted(snap[n], e) /\ Commit(n, After(snap[n], e), NoRow, timers \cup { n })
      BY <1>2 DEF ScheduleTest
  <2>3. Sound(After(snap[n], e)) /\ timers \cup { n } \in SUBSET Nodes
      BY <2>1, <2>2, AfterSound DEF AllSound, StoreSound
  <2> QED BY <2>1, <2>2, <2>3, CommitKeeps
<1>3. ASSUME NEW n \in Nodes, StillFresh(n) PROVE AllSound'
  <2>1. Sound(snap[n])
      BY <1>3 DEF StillFresh, AllSound, TickSound
  <2>2. TickSound'
      BY <1>3, <2>1, VisitedKeeps DEF StillFresh, AllSound
  <2> QED BY <1>3, <2>2 DEF StillFresh, AllSound, StoreSound, RequestsSound, stored
<1>4. CASE CollectResults
  <2>1. todo' \subseteq Nodes /\ \A n \in todo' : snap'[n] # NoRow
      BY <1>4 DEF CollectResults, InTesting
  <2>2. TickSound'
      BY <1>4, <2>1 DEF CollectResults, AllSound, TickSound, Phases
  <2> QED BY <1>4, <2>2 DEF CollectResults, AllSound, StoreSound, RequestsSound, stored
<1>5. ASSUME NEW n \in Nodes, StartTimer(n) PROVE AllSound'
  <2>1. Sound(snap[n])
      BY <1>5 DEF StartTimer, AllSound, TickSound
  <2>2. TickSound'
      BY <1>5, <2>1, VisitedKeeps DEF StartTimer, AllSound
  <2> QED BY <1>5, <2>2 DEF StartTimer, AllSound, StoreSound, RequestsSound, stored
<1>6. ASSUME NEW n \in Nodes, HandleResult(n) PROVE AllSound'
  <2>1. Sound(snap[n]) /\ phase \notin { "timeouts", "batch" }
      BY <1>6 DEF HandleResult, AllSound, TickSound
  <2>2. PICK e \in Transitions :
          Permitted(snap[n], e) /\ Commit(n, After(snap[n], e), NoRow, timers \ { n })
      BY <1>6 DEF HandleResult
  <2>3. Sound(After(snap[n], e)) /\ timers \ { n } \in SUBSET Nodes
      BY <2>1, <2>2, AfterSound DEF AllSound, StoreSound
  <2> QED BY <2>1, <2>2, <2>3, CommitKeeps
<1>7. CASE EndTesting
    BY <1>7, EndTickKeeps DEF EndTesting, AllSound, StoreSound, RequestsSound, stored
<1> QED BY <1>1, <1>2, <1>3, <1>4, <1>5, <1>6, <1>7 DEF TestingStep

\* Exceptions and restarts (Operator._tick, the process)
LEMMA FailureSound == AllSound /\ (TickRaises \/ Restart) => AllSound'
<1>1. ASSUME AllSound, TickRaises PROVE AllSound'
    BY <1>1, EndTickKeeps DEF TickRaises, AllSound, StoreSound, RequestsSound, stored
<1>2. ASSUME AllSound, Restart PROVE AllSound'
  <2>1. RequestsSound'
      BY <1>2 DEF Restart, AllSound, RequestsSound
  <2> QED BY <1>2, <2>1, EndTickKeeps DEF Restart, AllSound, StoreSound, stored
<1> QED BY <1>1, <1>2

\* Every step keeps every row sound.
LEMMA StepSound == AllSound /\ [Next]_vars => AllSound'
<1>1. AllSound /\ UNCHANGED vars => AllSound'
    BY DEF vars, AllSound, StoreSound, RequestsSound, TickSound
<1> QED BY <1>1, ClientStepSound, ReconcilerStepSound, MaintenanceStepSound,
           TestingStepSound, FailureSound DEF Next

-----------------------------------------------------------------------------
(* What follows *)

(***************************************************************************)
(* The inductive invariant: the table and every copy of a row that a       *)
(* request or an operator holds is sound, whatever the interleaving.       *)
(***************************************************************************)
THEOREM EverythingSound == Spec => []AllSound
BY InitSound, StepSound, PTL DEF Spec

(***************************************************************************)
(* Type correctness of the composed controller (the node table, files,     *)
(* requests and ticks of src/clm-controller/nlm).                          *)
(***************************************************************************)
THEOREM TypeCorrect == Spec => []TypeOK
<1>1. AllSound => TypeOK
    BY DEF AllSound, StoreSound, RequestsSound, TickSound, TypeOK
<1> QED BY <1>1, EverythingSound, PTL

(***************************************************************************)
(* No interleaving of whole-row saves tears customer_protected from the    *)
(* state it guards (the check of statemachine.py:58-65).                   *)
(***************************************************************************)
THEOREM ProtectionHolds == Spec => []ProtectionMatchesState
<1>1. ASSUME AllSound, NEW n \in Nodes, NEW r \in Held(n) PROVE Sound(r)
    BY <1>1, RequestUnderWay DEF Held, AllSound, StoreSound, TickSound
<1>2. AllSound => ProtectionMatchesState
    BY <1>1 DEF ProtectionMatchesState, Sound
<1> QED BY <1>2, EverythingSound, PTL

(***************************************************************************)
(* The graceful drain of config/node-states.yml is out of everybody's      *)
(* reach: its only entry is a P4 edge that customer protection denies.     *)
(***************************************************************************)
THEOREM DrainingUnreachable == Spec => []NeverDraining
<1>1. ASSUME AllSound, NEW n \in Nodes, NEW r \in Held(n) PROVE Sound(r)
    BY <1>1, RequestUnderWay DEF Held, AllSound, StoreSound, TickSound
<1>2. AllSound => NeverDraining
    BY <1>1 DEF NeverDraining, Sound
<1> QED BY <1>2, EverythingSound, PTL

-----------------------------------------------------------------------------
(* What one step of the controller makes of the node table: it leaves it   *)
(* alone, or somebody saves one row, made from the copy he held.  From     *)
(* this follow what no step may do to an assigned or a decommissioned      *)
(* node, that copies are fresh where nothing overlaps, and that the        *)
(* controller then implements the promise of NodePromise.                  *)

\* The state of q is that of r, or where a transition that is not denied leads.
Walked(r, q) ==
    \/ q.state = r.state
    \/ \E e \in Transitions :
          /\ e.from = r.state
          /\ e.from = "customer_assigned" => e.prio = 0
          /\ q.state = e.to

\* A cordon of r that q weakens is one of a node whose repair starts.
KeepsCordon(r, q) ==
    r.cordon.on /\ q.cordon.on /\ q.cordon.prio > r.cordon.prio
    => r.state = "scheduled_maintenance" /\ q.state = "repair"

\* q is what a request or an operator may make of r.
Follows(r, q) == Walked(r, q) /\ KeepsCordon(r, q)

\* A request ends with the save of a row made from its copy.
ClientSaves ==
    \E c \in Clients : \E q :
        /\ req[c] # NoReq
        /\ row' = [row EXCEPT ![req[c].node] = q]
        /\ req' = [req EXCEPT ![c] = NoReq]
        /\ UNCHANGED tickVars
        /\ Follows(req[c].copy, q)

\* A tick saves a row made from its copy, and goes on with it, drops it or ends.
OperatorSaves ==
    \E n \in todo : \E q :
        /\ phase # "idle" /\ snap[n] # NoRow
        /\ row' = [row EXCEPT ![n] = q]
        /\ UNCHANGED req
        /\ tickVars' # tickVars
        /\ Visited(n, q) \/ Visited(n, NoRow) \/ EndTick
        /\ Follows(snap[n], q)
        /\ snap[n].health # 0 => q.health # 0

\* Requests are answered, none begins.
NoneAsked == \A c \in Clients : req'[c] \in { req[c], NoReq }

\* Nothing is saved: a request or a tick begins, goes on or ends.
NothingSaved ==
    /\ UNCHANGED row
    /\ \/ \E c \in Clients, n \in Nodes : Read(c, n)
       \/ \E op \in Operators, visit \in SUBSET Nodes,
             first \in { "health", "timeouts", "stale" } :
             BeginTick(op, first, visit)
       \/ /\ phase # "idle" /\ phase' # "idle"
          /\ UNCHANGED req
          /\ \A n \in Nodes : snap'[n] \in { snap[n], NoRow, FromDb(row[n]) }
          /\ phase' = "batch" => (phase = "batch" /\ todo' \subseteq todo) \/ ChooseBatch
       \/ EndTick /\ NoneAsked
       \/ UNCHANGED tickVars /\ NoneAsked

\* What a step does to the table
Shape == ClientSaves \/ OperatorSaves \/ NothingSaved

-----------------------------------------------------------------------------
(* Rows made from rows *)

\* The one edge into an automatic cordon of less than P0 is the start of a repair.
LEMMA AutoCordonEdges ==
    ASSUME NEW e \in Transitions, e.to \in AutoCordonStates, e.prio # 0
    PROVE  e.from = "scheduled_maintenance" /\ e.to = "repair"
BY DEF Transitions, Edge, AutoCordonStates

\* A transition weakens a cordon only where a repair starts.
LEMMA AfterKeepsCordon ==
    ASSUME NEW r, Sound(r), NEW e \in Transitions, e.from = r.state
    PROVE  KeepsCordon(r, After(r, e))
<1> DEFINE q == After(r, e)
<1>1. q.cordon = CordonAfter(r.cordon, e) /\ q.state = e.to
    BY DEF After
<1>2. r.cordon.prio \in Priority /\ e.prio \in Priority
    BY EdgeTypes DEF Sound, Row, Cordon
<1> SUFFICES KeepsCordon(r, q)
    OBVIOUS
<1> HIDE DEF q
<1>3. CASE e.to \in AutoCordonStates
  <2>1. q.cordon.prio = e.prio
      BY <1>1, <1>3 DEF CordonAfter
  <2>2. CASE e.prio = 0
    <3>1. ~(q.cordon.prio > r.cordon.prio)
        BY <1>2, <2>1, <2>2 DEF Priority
    <3> QED BY <3>1, Zenon DEF KeepsCordon
  <2>3. CASE e.prio # 0
    <3>1. r.state = "scheduled_maintenance" /\ q.state = "repair"
        BY <1>1, <1>3, <2>3, AutoCordonEdges
    <3> QED BY <3>1, Zenon DEF KeepsCordon
  <2> QED BY <2>2, <2>3
<1>4. CASE e.to \notin AutoCordonStates
  <2>1. q.cordon = IF e.to = "certified_ready"
                   THEN [on |-> FALSE, by |-> "", prio |-> r.cordon.prio] ELSE r.cordon
      BY <1>1, <1>4, Zenon DEF CordonAfter
  <2>2. q.cordon.prio = r.cordon.prio
    <3>1. CASE e.to = "certified_ready"
      <4>1. q.cordon = [on |-> FALSE, by |-> "", prio |-> r.cordon.prio]
          BY <2>1, <3>1, Zenon
      <4>2. [on |-> FALSE, by |-> "", prio |-> r.cordon.prio].prio = r.cordon.prio
          OBVIOUS
      <4> QED BY <4>1, <4>2, Zenon
    <3>2. CASE e.to # "certified_ready"
        BY <2>1, <3>2, Zenon
    <3> QED BY <3>1, <3>2
  <2>3. ~(q.cordon.prio > r.cordon.prio)
      BY <1>2, <2>2 DEF Priority
  <2> QED BY <2>3, Zenon DEF KeepsCordon
<1> QED BY <1>3, <1>4

\* StateMachine.transition follows an edge, and costs no health.
LEMMA AfterFollows ==
    ASSUME NEW r, Sound(r), NEW e \in Transitions, Permitted(r, e)
    PROVE  Follows(r, After(r, e)) /\ (r.health # 0 => After(r, e).health # 0)
<1>1. Walked(r, After(r, e)) /\ (r.health # 0 => After(r, e).health # 0)
    BY DEF After, Walked, Permitted, Sound
<1>2. KeepsCordon(r, After(r, e))
    BY AfterKeepsCordon DEF Permitted
<1> QED BY <1>1, <1>2 DEF Follows

\* So does Reconciler._handle_critical.
LEMMA HandledFollows ==
    ASSUME NEW r, Sound(r)
    PROVE  Follows(r, Handled(r)) /\ (r.health # 0 => Handled(r).health # 0)
<1> DEFINE q == Cordoned(r, "nlm-reconciler", 0)
<1>1. q.state = r.state /\ q.health = r.health /\ q.cordon.prio = 0
    BY DEF Cordoned, Sound, Row
<1>2. r.cordon.prio \in Priority
    BY DEF Sound, Row, Cordon
<1> HIDE DEF q
<1>3. CASE r.state \in { "certified_ready", "testing", "burn_in" } /\ FailEdges(r) # {}
  <2>1. PICK e \in FailEdges(r) : Handled(r) = After(q, e)
      BY <1>3 DEF Handled, q
  <2>2. e \in Transitions /\ e.from = r.state /\ e.from # "customer_assigned"
      BY <1>3 DEF FailEdges
  <2>3. Walked(r, After(q, e)) /\ (r.health # 0 => After(q, e).health # 0)
      BY <1>1, <2>2 DEF After, Walked
  <2>4. After(q, e).cordon.prio = 0
    <3>1. e.from # "scheduled_maintenance"
        BY <1>3 DEF FailEdges
    <3>2. e.to \in AutoCordonStates => e.prio = 0
        BY <2>2, <3>1, AutoCordonEdges
    <3> QED BY <1>1, <3>2 DEF After, CordonAfter
  <2>5. KeepsCordon(r, After(q, e))
      BY <1>2, <2>4 DEF KeepsCordon, Priority
  <2> QED BY <2>1, <2>3, <2>5 DEF Follows
<1>4. CASE ~(r.state \in { "certified_ready", "testing", "burn_in" } /\ FailEdges(r) # {})
  <2>1. Handled(r) = q
      BY <1>4 DEF Handled, q
  <2>2. KeepsCordon(r, q)
      BY <1>1, <1>2 DEF KeepsCordon, Priority
  <2> QED BY <1>1, <2>1, <2>2 DEF Follows, Walked
<1> QED BY <1>3, <1>4

\* cordon.cordon asks for authority, uncordon and the injection of a fault
\* leave no weaker cordon.
LEMMA CordonedFollows ==
    ASSUME NEW r, Sound(r), NEW owner, NEW prio \in Priority, CordonPermitted(r, prio)
    PROVE  Follows(r, Cordoned(r, owner, prio))
<1>1. Cordoned(r, owner, prio).state = r.state /\ Cordoned(r, owner, prio).cordon.prio = prio
    BY DEF Cordoned, Sound, Row
<1>2. r.cordon.on => prio <= r.cordon.prio
    BY DEF CordonPermitted
<1>3. r.cordon.prio \in Priority
    BY DEF Sound, Row, Cordon
<1> QED BY <1>1, <1>2, <1>3 DEF Follows, Walked, KeepsCordon, Priority

\* What an uncordon makes of a row follows it.
LEMMA UncordonedFollows ==
    ASSUME NEW r, Sound(r)
    PROVE  Follows(r, Uncordoned(r))
<1>1. Uncordoned(r).state = r.state
    BY UncordonedSound
<1>2. r.cordon.on => ~Uncordoned(r).cordon.on
    BY DEF Uncordoned, NoCordon, Sound, Row
<1> QED BY <1>1, <1>2 DEF Follows, Walked, KeepsCordon

\* What a fault makes of a row follows it.
LEMMA InjectedFollows ==
    ASSUME NEW r, Sound(r), NEW severe \in BOOLEAN
    PROVE  Follows(r, Injected(r, severe))
<1>1. Injected(r, severe).state = r.state
    BY InjectedSound
<1>2. Injected(r, severe).cordon.prio \in { 0, r.cordon.prio }
    BY DEF Injected, Cordoned, Sound, Row
<1>3. r.cordon.prio \in Priority
    BY DEF Sound, Row, Cordon
<1> QED BY <1>1, <1>2, <1>3 DEF Follows, Walked, KeepsCordon, Priority

-----------------------------------------------------------------------------
(* The shape of every step *)

\* Requests (api.py, cli.py)
LEMMA ClientStepShape == AllSound /\ ClientStep => Shape
<1> SUFFICES ASSUME AllSound, ClientStep PROVE Shape
    OBVIOUS
<1>1. ASSUME NEW c \in Clients, req[c] # NoReq, NEW q, Follows(req[c].copy, q), Save(c, q)
      PROVE  Shape
    BY <1>1 DEF Save, Shape, ClientSaves, tickVars
<1>2. ASSUME NEW c \in Clients, NEW n \in Nodes, Read(c, n) PROVE Shape
    BY <1>2 DEF Read, Shape, NothingSaved, stored
<1>3. ASSUME NEW c \in Clients, TransitionNode(c) PROVE Shape
  <2>1. req[c] # NoReq /\ Sound(req[c].copy)
      BY <1>3, RequestUnderWay DEF TransitionNode, Asks, AllSound
  <2>2. PICK e \in Transitions :
          Permitted(req[c].copy, e) /\ Save(c, After(req[c].copy, e))
      BY <1>3 DEF TransitionNode
  <2> QED BY <1>1, <2>1, <2>2, AfterFollows
<1>4. ASSUME NEW c \in Clients, CordonNode(c) PROVE Shape
  <2>1. req[c] # NoReq /\ Sound(req[c].copy)
      BY <1>4, RequestUnderWay DEF CordonNode, Asks, AllSound
  <2>2. PICK owner \in Callers, prio \in ClientPriorities :
          /\ CordonPermitted(req[c].copy, prio)
          /\ Save(c, Cordoned(req[c].copy, owner, prio))
      BY <1>4 DEF CordonNode
  <2>3. Follows(req[c].copy, Cordoned(req[c].copy, owner, prio))
      BY <2>1, <2>2, StoreAssumption, CordonedFollows
  <2> QED BY <1>1, <2>1, <2>2, <2>3
<1>5. ASSUME NEW c \in Clients, UncordonNode(c) PROVE Shape
  <2>1. req[c] # NoReq /\ Sound(req[c].copy)
      BY <1>5, RequestUnderWay DEF UncordonNode, Asks, AllSound
  <2>2. Follows(req[c].copy, Uncordoned(req[c].copy))
      BY <2>1, UncordonedFollows
  <2> QED BY <1>1, <1>5, <2>1, <2>2 DEF UncordonNode
<1>6. ASSUME NEW c \in Clients, InjectFault(c) PROVE Shape
  <2>1. req[c] # NoReq /\ Sound(req[c].copy)
      BY <1>6, RequestUnderWay DEF InjectFault, Asks, AllSound
  <2>2. PICK severe \in BOOLEAN : Save(c, Injected(req[c].copy, severe))
      BY <1>6 DEF InjectFault
  <2>3. Follows(req[c].copy, Injected(req[c].copy, severe))
      BY <2>1, InjectedFollows
  <2> QED BY <1>1, <2>1, <2>2, <2>3
<1>7. ASSUME NEW c \in Clients, Refuse(c) PROVE Shape
  <2>1. NoneAsked
      BY <1>7 DEF Refuse, NoneAsked, AllSound, RequestsSound
  <2> QED BY <1>7, <2>1 DEF Refuse, Shape, NothingSaved, stored, tickVars
<1>8. ASSUME NEW n \in Nodes, Approve(n) \/ CommitDesired(n) PROVE Shape
    BY <1>8 DEF Approve, CommitDesired, Shape, NothingSaved, NoneAsked, tickVars
<1> QED BY <1>2, <1>3, <1>4, <1>5, <1>6, <1>7, <1>8 DEF ClientStep

\* A node that is visited, or a tick that ends, is a change of the tick.
LEMMA TickMoves ==
    ASSUME NEW n \in todo, NEW kept, phase # "idle", Visited(n, kept) \/ EndTick
    PROVE  tickVars' # tickVars
<1>1. CASE Visited(n, kept)
    BY <1>1 DEF Visited, tickVars
<1>2. CASE EndTick
    BY <1>2 DEF EndTick, tickVars
<1> QED BY <1>1, <1>2

\* A tick that saves what it has made from its copy of a node
LEMMA OperatorSave ==
    ASSUME AllSound, phase # "idle", NEW n \in todo, NEW q, snap[n] # NoRow,
           row' = [row EXCEPT ![n] = q], UNCHANGED req,
           Visited(n, q) \/ Visited(n, NoRow) \/ EndTick,
           Follows(snap[n], q), snap[n].health # 0 => q.health # 0
    PROVE  Shape
<1>1. tickVars' # tickVars
    BY TickMoves
<1> QED BY <1>1 DEF Shape, OperatorSaves

\* A save of a transition of the copy, wherever it is broken off
LEMMA CommitShape ==
    ASSUME AllSound, phase \notin { "idle", "desired" }, NEW n \in todo,
           NEW e \in Transitions, Permitted(snap[n], e), NEW kept, NEW started,
           kept \in { After(snap[n], e), NoRow },
           Commit(n, After(snap[n], e), kept, started)
    PROVE  Shape
<1>1. n \in Nodes /\ snap[n] # NoRow /\ Sound(snap[n])
    BY DEF AllSound, TickSound
<1> DEFINE q == After(snap[n], e)
<1>2. Follows(snap[n], q) /\ (snap[n].health # 0 => q.health # 0)
    BY <1>1, AfterFollows
<1>3. /\ row' = [row EXCEPT ![n] = q] /\ UNCHANGED req
      /\ Visited(n, q) \/ Visited(n, NoRow) \/ EndTick
    BY DEF Commit
<1> HIDE DEF q
<1> QED BY <1>1, <1>2, <1>3, OperatorSave

\* A node visited without a save
LEMMA VisitShape ==
    ASSUME AllSound, phase # "idle", NEW n \in Nodes, NEW kept,
           kept \in { snap[n], NoRow }, Visited(n, kept), UNCHANGED <<row, req>>
    PROVE  Shape
<1>1. /\ phase' # "idle"
      /\ \A m \in Nodes : snap'[m] \in { snap[m], NoRow, FromDb(row[m]) }
      /\ phase' = phase /\ todo' \subseteq todo
    BY DEF Visited, AllSound, TickSound
<1> QED BY <1>1 DEF Shape, NothingSaved

\* The end of a tick saves nothing.
LEMMA EndTickShape ==
    ASSUME EndTick, UNCHANGED <<row, req>> PROVE Shape
BY DEF Shape, NothingSaved, NoneAsked

\* A tick that begins
LEMMA BeginTickShape ==
    ASSUME NEW op, NEW first \in { "health", "timeouts", "stale" }, NEW visit \in SUBSET Nodes,
           BeginTick(op, first, visit)
    PROVE  Shape
<1>1. op \in Operators /\ UNCHANGED row
    BY DEF BeginTick, stored
<1> QED BY <1>1 DEF Shape, NothingSaved

\* operators/reconciler.py
LEMMA ReconcilerStepShape == AllSound /\ ReconcilerStep => Shape
<1> SUFFICES ASSUME AllSound, ReconcilerStep PROVE Shape
    OBVIOUS
<1>1. CASE BeginReconciler
    BY <1>1, BeginTickShape DEF BeginReconciler, Phases
<1>2. ASSUME NEW n \in Nodes, HandleCritical(n) PROVE Shape
  <2> DEFINE q == Handled(snap[n])
  <2>1. n \in todo /\ snap[n] # NoRow /\ Sound(snap[n]) /\ phase # "idle"
      BY <1>2 DEF HandleCritical, AllSound, TickSound
  <2>2. Follows(snap[n], q) /\ (snap[n].health # 0 => q.health # 0)
      BY <2>1, HandledFollows
  <2>3. /\ UNCHANGED req
        /\ \/ row' = [row EXCEPT ![n] = q] /\ Visited(n, NoRow)
           \/ UNCHANGED row /\ EndTick
      BY <1>2 DEF HandleCritical
  <2> HIDE DEF q
  <2> QED BY <2>1, <2>2, <2>3, OperatorSave, EndTickShape
<1>3. ASSUME NEW n \in Nodes, RequestMaintenance(n) PROVE Shape
  <2>1. n \in todo /\ snap[n] # NoRow /\ phase # "idle"
      BY <1>3 DEF RequestMaintenance, AllSound, TickSound
  <2>2. /\ UNCHANGED req
        /\ \/ row' = [row EXCEPT ![n] = snap[n]] /\ Visited(n, NoRow)
           \/ UNCHANGED row /\ EndTick
      BY <1>3 DEF RequestMaintenance
  <2>3. Follows(snap[n], snap[n])
    <3>1. snap[n].cordon.prio \in Priority
        BY <2>1 DEF AllSound, TickSound, Sound, Row, Cordon
    <3> QED BY <3>1 DEF Follows, Walked, KeepsCordon, Priority
  <2> QED BY <2>1, <2>2, <2>3, OperatorSave, EndTickShape
<1>4. CASE ListDesired
  <2>1. /\ phase # "idle" /\ phase' \notin { "idle", "batch" } /\ UNCHANGED <<row, req>>
        /\ \A n \in Nodes : snap'[n] = NoRow
      BY <1>4 DEF ListDesired, NoSnap, stored
  <2> QED BY <2>1 DEF Shape, NothingSaved
<1>5. ASSUME NEW n \in Nodes, GetNode(n) PROVE Shape
  <2>1. /\ phase # "idle" /\ phase' \notin { "idle", "batch" } /\ UNCHANGED <<row, req>>
        /\ \A m \in Nodes : snap'[m] \in { snap[m], FromDb(row[m]) }
      BY <1>5 DEF GetNode, AllSound, TickSound, stored
  <2> QED BY <2>1 DEF Shape, NothingSaved
<1>6. ASSUME NEW n \in Nodes, Correct(n) PROVE Shape
  <2>1. n \in todo /\ snap[n] # NoRow /\ Sound(snap[n]) /\ phase # "idle"
      BY <1>6 DEF Correct, AllSound, TickSound
  <2>2. PICK e \in Corrections(snap[n], n) : row' = [row EXCEPT ![n] = After(snap[n], e)]
      BY <1>6 DEF Correct
  <2> DEFINE q == After(snap[n], e)
  <2>3. Follows(snap[n], q) /\ (snap[n].health # 0 => q.health # 0)
      BY <2>1, AfterFollows DEF Corrections
  <2>4. row' = [row EXCEPT ![n] = q] /\ UNCHANGED req /\ Visited(n, NoRow)
      BY <1>6, <2>2 DEF Correct
  <2> HIDE DEF q
  <2> QED BY <2>1, <2>3, <2>4, OperatorSave
<1>7. CASE EndReconciler
    BY <1>7, EndTickShape DEF EndReconciler, stored
<1> QED BY <1>1, <1>2, <1>3, <1>4, <1>5, <1>6, <1>7 DEF ReconcilerStep

\* operators/maintenance.py: its approval gate never finds a transition.
LEMMA MaintenanceStepShape == AllSound /\ MaintenanceStep => Shape
<1> SUFFICES ASSUME AllSound, MaintenanceStep PROVE Shape
    OBVIOUS
<1>1. CASE BeginMaintenance
    BY <1>1, BeginTickShape DEF BeginMaintenance, Phases
<1>2. ASSUME NEW n \in Nodes, TimeOut(n) PROVE Shape
    BY <1>2, CommitShape DEF TimeOut
<1>3. ASSUME NEW n \in Nodes, StaysOn(n) PROVE Shape
    BY <1>3, VisitShape DEF StaysOn, stored
<1>4. CASE ChooseBatch
    BY <1>4 DEF ChooseBatch, Shape, NothingSaved, stored
<1>5. ASSUME NEW n \in Nodes, StartRepair(n) PROVE Shape
    BY <1>5, CommitShape DEF StartRepair
<1>6. CASE ApprovalGate
  <2>1. \A e \in Transitions : e.trigger # "drain_requested"
      BY DEF Transitions, Edge
  <2>2. row' = [n \in Nodes |-> row[n]]
      BY <1>6, <2>1 DEF ApprovalGate, ApprovedDrain
  <2>3. row' = row
      BY <2>2 DEF AllSound, StoreSound
  <2> QED BY <1>6, <2>3, EndTickShape DEF ApprovalGate
<1> QED BY <1>1, <1>2, <1>3, <1>4, <1>5, <1>6 DEF MaintenanceStep

\* operators/testing.py
LEMMA TestingStepShape == AllSound /\ TestingStep => Shape
<1> SUFFICES ASSUME AllSound, TestingStep PROVE Shape
    OBVIOUS
<1>1. CASE BeginTesting
    BY <1>1, BeginTickShape DEF BeginTesting, Phases
<1>2. ASSUME NEW n \in Nodes, ScheduleTest(n) PROVE Shape
    BY <1>2, CommitShape DEF ScheduleTest
<1>3. ASSUME NEW n \in Nodes, HandleResult(n) PROVE Shape
    BY <1>3, CommitShape DEF HandleResult
<1>4. ASSUME NEW n \in Nodes, StillFresh(n) \/ StartTimer(n) PROVE Shape
    BY <1>4, VisitShape DEF StillFresh, StartTimer, stored
<1>5. CASE CollectResults
    BY <1>5 DEF CollectResults, Shape, NothingSaved, stored
<1>6. CASE EndTesting
    BY <1>6, EndTickShape DEF EndTesting, stored
<1> QED BY <1>1, <1>2, <1>3, <1>4, <1>5, <1>6 DEF TestingStep

\* Every step of the controller, exceptions and restarts included
LEMMA EveryStep == AllSound /\ [Next]_vars => Shape
<1>1. AllSound /\ TickRaises => Shape
    BY EndTickShape DEF TickRaises, stored
<1>2. AllSound /\ Restart => Shape
  <2>1. AllSound /\ Restart => NoneAsked
      BY DEF Restart, NoneAsked, AllSound, RequestsSound
  <2> QED BY <2>1 DEF Restart, Shape, NothingSaved, stored
<1>3. UNCHANGED vars => Shape
    BY DEF vars, Shape, NothingSaved, NoneAsked, tickVars
<1> QED BY <1>1, <1>2, <1>3, ClientStepShape, ReconcilerStepShape, MaintenanceStepShape,
           TestingStepShape DEF Next

-----------------------------------------------------------------------------
(* What a step may do to a node *)

\* A row changes as its writer's copy allows.
LEMMA WritersFollow ==
    ASSUME AllSound, [Next]_vars, NEW n \in Nodes, row'[n] # row[n]
    PROVE  \E r \in WriterCopies(n) : Follows(r, row'[n])
<1>1. Shape
    BY EveryStep
<1>2. CASE ClientSaves
  <2>1. PICK c, q :
          /\ c \in Clients
          /\ req[c] # NoReq
          /\ row' = [row EXCEPT ![req[c].node] = q]
          /\ req' = [req EXCEPT ![c] = NoReq]
          /\ Follows(req[c].copy, q)
      BY <1>2 DEF ClientSaves
  <2>2. req[c].node = n /\ row'[n] = q
      BY <2>1 DEF AllSound, StoreSound
  <2>3. Answers(c, n)
      BY <2>1, <2>2 DEF Answers, AllSound, RequestsSound
  <2> QED BY <2>1, <2>2, <2>3 DEF WriterCopies
<1>3. CASE OperatorSaves
  <2>1. PICK m, q :
          /\ m \in todo
          /\ snap[m] # NoRow
          /\ row' = [row EXCEPT ![m] = q]
          /\ tickVars' # tickVars
          /\ Follows(snap[m], q)
      BY <1>3 DEF OperatorSaves
  <2>2. m = n /\ row'[n] = q
      BY <2>1 DEF AllSound, StoreSound
  <2>3. snap[n] \in WriterCopies(n)
      BY <2>1, <2>2 DEF WriterCopies
  <2> QED BY <2>1, <2>2, <2>3
<1>4. CASE NothingSaved
    BY <1>4 DEF NothingSaved
<1> QED BY <1>1, <1>2, <1>3, <1>4 DEF Shape

\* No edge leaves decommissioned.
LEMMA NoWayBack == \A e \in Transitions : e.from # "decommissioned"
BY DEF Transitions, Edge

\* One P0 edge leaves a customer.
LEMMA NoOtherWayOut ==
    ASSUME NEW e \in Transitions, e.from = "customer_assigned", e.prio = 0
    PROVE  e.to = "emergency_drain"
BY DEF Transitions, Edge

(***************************************************************************)
(* A decommissioned node comes back only by a save that has not seen it    *)
(* decommissioned (api.py:136), however many clients, ticks and failures   *)
(* there are.                                                              *)
(***************************************************************************)
THEOREM RetiredForGood == Spec => DecommissionedStays
<1>1. ASSUME AllSound, [Next]_vars, NEW n \in Nodes,
             row[n].state = "decommissioned", row'[n].state # "decommissioned"
      PROVE  LosesState(n)
  <2>1. PICK r \in WriterCopies(n) : Follows(r, row'[n])
      BY <1>1, WritersFollow
  <2>2. r.state # "decommissioned"
      BY <1>1, <2>1, NoWayBack DEF Follows, Walked
  <2> QED BY <1>1, <2>1, <2>2 DEF LosesState
<1>2. AllSound /\ [Next]_vars =>
        [\A n \in Nodes :
            row[n].state = "decommissioned" /\ row'[n].state # "decommissioned"
            => LosesState(n)]_vars
    BY <1>1
<1> QED BY <1>2, EverythingSound, PTL DEF Spec, DecommissionedStays

(***************************************************************************)
(* A node leaves its customer by an emergency drain, or by a save that has *)
(* not seen the assignment (the check of statemachine.py:58-65 is made on  *)
(* a copy).                                                                *)
(***************************************************************************)
THEOREM CustomersKept == Spec => AssignedLeavesByEmergency
<1>1. ASSUME AllSound, [Next]_vars, NEW n \in Nodes,
             row[n].state = "customer_assigned", row'[n].state # "customer_assigned",
             ~LosesState(n)
      PROVE  row'[n].state = "emergency_drain"
  <2>1. PICK r \in WriterCopies(n) : Follows(r, row'[n])
      BY <1>1, WritersFollow
  <2>2. r.state = "customer_assigned"
      BY <1>1, <2>1 DEF LosesState
  <2> QED BY <1>1, <2>1, <2>2, NoOtherWayOut DEF Follows, Walked
<1>2. AllSound /\ [Next]_vars =>
        [\A n \in Nodes :
            row[n].state = "customer_assigned" /\ row'[n].state # "customer_assigned"
            => row'[n].state = "emergency_drain" \/ LosesState(n)]_vars
    BY <1>1
<1> QED BY <1>2, EverythingSound, PTL DEF Spec, AssignedLeavesByEmergency

(***************************************************************************)
(* A cordon in force gives way to one of less authority only where a       *)
(* repair starts, or to a save that has not seen it or the state of its    *)
(* node (cordon.py:21-32, statemachine.py:88-93, api.py:187).              *)
(***************************************************************************)
THEOREM CordonsKept == Spec => CordonWeakenedOnlyByRepairStart
<1>1. ASSUME AllSound, [Next]_vars, NEW n \in Nodes,
             row[n].cordon.on, row'[n].cordon.on,
             row'[n].cordon.prio > row[n].cordon.prio,
             ~LosesState(n), ~LosesCordon(n)
      PROVE  row[n].state = "scheduled_maintenance" /\ row'[n].state = "repair"
  <2>1. row'[n] # row[n]
    <3>1. row[n].cordon.prio \in Priority
        BY <1>1 DEF AllSound, StoreSound, Sound, Row, Cordon
    <3> QED BY <1>1, <3>1 DEF Priority
  <2>2. PICK r \in WriterCopies(n) : Follows(r, row'[n])
      BY <1>1, <2>1, WritersFollow
  <2>3. r.state = row[n].state /\ r.cordon = row[n].cordon
      BY <1>1, <2>2 DEF LosesState, LosesCordon
  <2> QED BY <1>1, <2>2, <2>3 DEF Follows, KeepsCordon
<1>2. AllSound /\ [Next]_vars =>
        [\A n \in Nodes :
            /\ row[n].cordon.on /\ row'[n].cordon.on
            /\ row'[n].cordon.prio > row[n].cordon.prio
            => \/ row[n].state = "scheduled_maintenance" /\ row'[n].state = "repair"
               \/ LosesState(n) \/ LosesCordon(n)]_vars
    BY <1>1
<1> QED BY <1>2, EverythingSound, PTL DEF Spec, CordonWeakenedOnlyByRepairStart

-----------------------------------------------------------------------------
(* Without overlap *)

\* Where nothing overlaps, a tick is alone, a request is alone, and whoever
\* holds a copy holds what he would read now.
Alone ==
    /\ phase # "idle" => \A c \in Clients : req[c] = NoReq
    /\ phase = "idle" => \A n \in Nodes : snap[n] = NoRow
    /\ \A c, d \in Clients : req[c] # NoReq /\ req[d] # NoReq => c = d
    /\ \A c \in Clients : req[c] # NoReq => req[c].copy = FromDb(row[req[c].node])
    /\ \A n \in Nodes : snap[n] # NoRow => snap[n] = FromDb(row[n])

\* A row that is read is never at zero health, and one that is not is read as it is.
LEMMA ReadBack ==
    ASSUME NEW r, Sound(r)
    PROVE  FromDb(r).health # 0 /\ (r.health # 0 => FromDb(r) = r)
BY DEF FromDb, Sound, Row, Health

\* A request that saves while nothing overlaps
LEMMA ClientSavesAlone ==
    ASSUME AllSound, Alone, ClientSaves PROVE Alone'
<1>1. PICK c, q :
        /\ c \in Clients
        /\ req[c] # NoReq
        /\ row' = [row EXCEPT ![req[c].node] = q]
        /\ req' = [req EXCEPT ![c] = NoReq]
        /\ UNCHANGED tickVars
    BY DEF ClientSaves
<1>2. phase = "idle" /\ phase' = "idle" /\ \A n \in Nodes : snap'[n] = NoRow
    BY <1>1 DEF Alone, tickVars
<1>3. \A d \in Clients : req'[d] = NoReq
    BY <1>1 DEF Alone, AllSound, RequestsSound
<1> QED BY <1>2, <1>3 DEF Alone

\* An operator that saves while nothing overlaps
LEMMA OperatorSavesAlone ==
    ASSUME AllSound, AllSound', Alone, OperatorSaves PROVE Alone'
<1>1. PICK n, q :
        /\ n \in todo
        /\ phase # "idle" /\ snap[n] # NoRow
        /\ row' = [row EXCEPT ![n] = q]
        /\ UNCHANGED req
        /\ Visited(n, q) \/ Visited(n, NoRow) \/ EndTick
        /\ snap[n].health # 0 => q.health # 0
    BY DEF OperatorSaves
<1>2. \A c \in Clients : req'[c] = NoReq
    BY <1>1 DEF Alone
<1>3. FromDb(row'[n]) = q
  <2>1. n \in Nodes /\ Sound(row[n]) /\ Sound(row'[n]) /\ row'[n] = q
      BY <1>1 DEF AllSound, StoreSound, TickSound
  <2>2. q.health # 0
      BY <1>1, <2>1, ReadBack DEF Alone
  <2> QED BY <2>1, <2>2, ReadBack
<1>4. phase' = "idle" => \A m \in Nodes : snap'[m] = NoRow
    BY <1>1 DEF Visited, EndTick, NoSnap
<1>5. ASSUME NEW m \in Nodes, snap'[m] # NoRow PROVE snap'[m] = FromDb(row'[m])
  <2>1. snap' = [snap EXCEPT ![n] = q] \/ snap' = [snap EXCEPT ![n] = NoRow]
      BY <1>1, <1>5 DEF Visited, EndTick, NoSnap
  <2>2. CASE m = n
      BY <1>3, <1>5, <2>1, <2>2 DEF AllSound, TickSound
  <2>3. CASE m # n
    <3>1. snap'[m] = snap[m] /\ row'[m] = row[m]
        BY <1>1, <2>1, <2>3 DEF AllSound, TickSound, StoreSound
    <3> QED BY <1>5, <3>1 DEF Alone
  <2> QED BY <2>2, <2>3
<1> QED BY <1>2, <1>4, <1>5 DEF Alone

\* A step that saves nothing while nothing overlaps
LEMMA NothingSavedAlone ==
    ASSUME ~Overlap, AllSound, AllSound', Alone, NothingSaved PROVE Alone'
<1>1. row' = row
    BY DEF NothingSaved
<1>2. ASSUME NEW c \in Clients, NEW n \in Nodes, Read(c, n) PROVE Alone'
  <2>1. Quiet /\ UNCHANGED tickVars
      BY <1>2 DEF Read
  <2>2. req' = [req EXCEPT ![c] = [node |-> n, copy |-> FromDb(row[n])]]
      BY <1>2 DEF Read
  <2>3. /\ \A d \in Clients : d # c => req'[d] = NoReq
        /\ req'[c].node = n /\ req'[c].copy = FromDb(row[n])
      BY <2>1, <2>2 DEF Quiet, AllSound, RequestsSound
  <2> QED BY <1>1, <2>1, <2>3 DEF Alone, Quiet, tickVars
<1>3. ASSUME NEW op, NEW first \in { "health", "timeouts", "stale" }, NEW visit,
             BeginTick(op, first, visit)
      PROVE  Alone'
    BY <1>1, <1>3 DEF BeginTick, Quiet, Fetched, Alone
<1>4. ASSUME phase # "idle", phase' # "idle", UNCHANGED req,
             \A n \in Nodes : snap'[n] \in { snap[n], NoRow, FromDb(row[n]) }
      PROVE  Alone'
    BY <1>1, <1>4 DEF Alone
<1>5. ASSUME EndTick, NoneAsked PROVE Alone'
    BY <1>1, <1>5 DEF EndTick, NoSnap, NoneAsked, Alone
<1>6. ASSUME UNCHANGED tickVars, NoneAsked PROVE Alone'
    BY <1>1, <1>6 DEF tickVars, NoneAsked, Alone
<1> QED BY <1>2, <1>3, <1>4, <1>5, <1>6 DEF NothingSaved

\* Every step while nothing overlaps
LEMMA StepAlone ==
    ASSUME ~Overlap PROVE AllSound /\ AllSound' /\ Alone /\ [Next]_vars => Alone'
BY EveryStep, ClientSavesAlone, OperatorSavesAlone, NothingSavedAlone DEF Shape

\* Where nothing overlaps, nobody ever holds a copy that is out of date.
LEMMA StaysAlone == ASSUME ~Overlap PROVE Spec => [](AllSound /\ Alone)
<1>1. Init => Alone
    BY DEF Init, Alone, NoSnap
<1> QED BY <1>1, StepAlone, EverythingSound, PTL DEF Spec

(***************************************************************************)
(* Where requests overlap neither each other nor a tick, every copy of a   *)
(* row is what a read would return now (api.py and the run_once of every   *)
(* operator read, change and save whole rows).                             *)
(***************************************************************************)
THEOREM CopiesAreFresh == Spec => []NoStaleCopies
<1>1. CASE Overlap
  <2>1. NoStaleCopies
      BY <1>1 DEF NoStaleCopies
  <2> QED BY <2>1, PTL
<1>2. CASE ~Overlap
  <2>1. Alone => NoStaleCopies
      BY DEF Alone, NoStaleCopies
  <2> QED BY <1>2, <2>1, StaysAlone, PTL
<1> QED BY <1>1, <1>2

-----------------------------------------------------------------------------
(* The refinement *)

\* The abstract table is the table.
LEMMA SameTable ==
    Promised!Transitions = Transitions /\ Promised!SeedStates = SeedStates
BY DEF Promised!Transitions, Transitions, Promised!Edge, Edge,
       Promised!SeedStates, SeedStates

\* The mapping to NodePromise: the states of the nodes
States == [n \in Nodes |-> row[n].state]

\* A row that follows the one in the table is a walk, or no change of state.
LEMMA FollowsWalks ==
    ASSUME AllSound, NEW n \in Nodes, NEW q, row' = [row EXCEPT ![n] = q],
           Follows(row[n], q)
    PROVE  Promised!Walk(n) \/ States' = States
<1>1. States' = [States EXCEPT ![n] = q.state]
    BY DEF States, AllSound, StoreSound
<1>2. CASE q.state = row[n].state
    BY <1>1, <1>2 DEF States
<1>3. ASSUME NEW e \in Transitions, e.from = row[n].state,
             e.from = "customer_assigned" => e.prio = 0, q.state = e.to
      PROVE  Promised!Walk(n)
    BY <1>1, <1>3, SameTable DEF Promised!Walk, States
<1> QED BY <1>2, <1>3 DEF Follows, Walked

\* Every step of the controller is one of the promise, or leaves the states alone.
LEMMA StepWalks ==
    ASSUME AllSound, Alone, [Next]_vars
    PROVE  Promised!PromisedNext \/ States' = States
<1>1. Shape
    BY EveryStep
<1>2. CASE ClientSaves
  <2>1. PICK c, q :
          /\ c \in Clients
          /\ req[c] # NoReq
          /\ row' = [row EXCEPT ![req[c].node] = q]
          /\ Follows(req[c].copy, q)
      BY <1>2 DEF ClientSaves
  <2>2. req[c].node \in Nodes /\ Follows(row[req[c].node], q)
      BY <2>1, RequestUnderWay, FromDbSound
         DEF Alone, AllSound, StoreSound, Follows, Walked, KeepsCordon
  <2> QED BY <2>1, <2>2, FollowsWalks DEF Promised!PromisedNext
<1>3. CASE OperatorSaves
  <2>1. PICK n, q :
          /\ n \in todo
          /\ snap[n] # NoRow
          /\ row' = [row EXCEPT ![n] = q]
          /\ Follows(snap[n], q)
      BY <1>3 DEF OperatorSaves
  <2>2. n \in Nodes /\ Follows(row[n], q)
      BY <2>1, FromDbSound
         DEF Alone, AllSound, StoreSound, TickSound, Follows, Walked, KeepsCordon
  <2> QED BY <2>1, <2>2, FollowsWalks DEF Promised!PromisedNext
<1>4. CASE NothingSaved
    BY <1>4 DEF NothingSaved, States
<1> QED BY <1>1, <1>2, <1>3, <1>4 DEF Shape

(***************************************************************************)
(* Where nothing overlaps, the controller implements the promise of the    *)
(* state machine: its operators, requests, files, timers, exceptions and   *)
(* restarts walk nodes along config/node-states.yml, one edge at a time.   *)
(***************************************************************************)
THEOREM PromiseKept == ASSUME ~Overlap PROVE Spec => KeepsPromise
<1>1. Init => Promised!PromisedInit
  <2>1. ASSUME Init, NEW n \in Nodes PROVE row[n].state \in Promised!SeedStates
    <3>1. PICK s \in Seeds : row[n] \in SeedRows(s)
        BY <2>1 DEF Init
    <3> QED BY <3>1, StoreAssumption, SeedsSound, SameTable
  <2> QED BY <2>1 DEF Promised!PromisedInit
<1>2. AllSound /\ Alone /\ [Next]_vars => [Promised!PromisedNext]_States
    BY StepWalks
<1> QED BY <1>1, <1>2, StaysAlone, PTL
        DEF Spec, KeepsPromise, Promised!Promise, States
=============================================================================
