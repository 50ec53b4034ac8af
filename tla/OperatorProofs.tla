--------------------------- MODULE OperatorProofs ----------------------------
(***************************************************************************)
(* What the operators never do: repair more nodes of a rack at once than   *)
(* the limit has it, where no request overlaps the tick, and retire a node *)
(* of their own accord.                                                    *)
(***************************************************************************)
EXTENDS NLMControllerProofs, FiniteSetTheorems

-----------------------------------------------------------------------------
(* The repair limit of a rack (operators/maintenance.py): the batch that   *)
(* is chosen still fits when the last repair of it starts.                 *)

\* The nodes of rack k that are in repair, or whose repair this tick will start
Repairing(k) == { m \in InRack(k) : row[m].state = "repair" \/ m \in todo }

\* A batch under way fits the limit of its rack, with what is in repair already.
BatchFits ==
    phase = "batch" =>
        \A n \in todo : Cardinality(Repairing(Rack[n])) <= MaxConcurrentPerRack

\* A part of a rack has no more nodes than the whole of it.
LEMMA SmallerSet ==
    ASSUME IsFiniteSet(Nodes), NEW S \in SUBSET Nodes, NEW T \in SUBSET S,
           Cardinality(S) <= MaxConcurrentPerRack
    PROVE  Cardinality(T) <= MaxConcurrentPerRack
<1>1. IsFiniteSet(S)
    BY FS_Subset
<1>2. Cardinality(T) <= Cardinality(S) /\ Cardinality(S) \in Nat /\ Cardinality(T) \in Nat
    BY <1>1, FS_Subset, FS_CardinalityType
<1> QED BY <1>2 DEF MaxConcurrentPerRack

\* Slots and what is chosen for them (maintenance.py:98-115)
LEMMA ChosenFits ==
    ASSUME IsFiniteSet(Nodes), AllSound, Alone, ChooseBatch
    PROVE  BatchFits'
<1>1. phase = "timeouts" /\ UNCHANGED row /\ todo' \subseteq Nodes
    BY DEF ChooseBatch, stored
<1>2. Batch(todo')
    BY DEF ChooseBatch
<1>3. \A n \in Nodes : snap[n].state = row[n].state
    BY <1>1, FromDbSound DEF Alone, AllSound, StoreSound, TickSound
<1>4. ASSUME NEW n \in todo'
      PROVE  Cardinality(Repairing(Rack[n])') <= MaxConcurrentPerRack
  <2> DEFINE active == InState("repair") \cap InRack(Rack[n])
             chosen == todo' \cap InRack(Rack[n])
             waiting == InState("scheduled_maintenance") \cap InRack(Rack[n])
  <2>1. n \in Nodes /\ n \in chosen
      BY <1>1, <1>4 DEF InRack
  <2>2. IsFiniteSet(active) /\ IsFiniteSet(chosen) /\ IsFiniteSet(waiting)
      BY FS_Subset DEF InRack, InState
  <2>3. /\ Cardinality(active) \in Nat /\ Cardinality(waiting) \in Nat
        /\ Cardinality(chosen) \in Nat /\ Cardinality(chosen) # 0
      BY <2>1, <2>2, FS_CardinalityType, FS_EmptySet
  <2>4. Cardinality(chosen) = IF Cardinality(waiting) < Slots(Rack[n])
                              THEN Cardinality(waiting) ELSE Slots(Rack[n])
      BY <1>2, <2>1 DEF Batch
  <2>5. Slots(Rack[n]) = IF Cardinality(active) < MaxConcurrentPerRack
                         THEN MaxConcurrentPerRack - Cardinality(active) ELSE 0
      BY DEF Slots
  <2>6. Repairing(Rack[n])' = active \cup chosen
      BY <1>1, <1>3 DEF Repairing, InState, InRack
  <2> HIDE DEF active, chosen, waiting
  <2>7. Cardinality(active) + Cardinality(chosen) <= MaxConcurrentPerRack
      BY <2>3, <2>4, <2>5 DEF MaxConcurrentPerRack
  <2>8. /\ Cardinality(active \cup chosen) <= Cardinality(active) + Cardinality(chosen)
        /\ Cardinality(active \cup chosen) \in Nat
    <3>1. Cardinality(active \cup chosen)
            = Cardinality(active) + Cardinality(chosen) - Cardinality(active \cap chosen)
        BY <2>2, FS_Union
    <3>2. IsFiniteSet(active \cap chosen) /\ IsFiniteSet(active \cup chosen)
        BY <2>2, FS_Intersection, FS_Union
    <3>3. Cardinality(active \cap chosen) \in Nat /\ Cardinality(active \cup chosen) \in Nat
        BY <3>2, FS_CardinalityType
    <3> QED BY <2>3, <3>1, <3>3
  <2> QED BY <2>3, <2>6, <2>7, <2>8 DEF MaxConcurrentPerRack
<1> QED BY <1>4 DEF BatchFits

\* A repair that starts only moves its node from the batch to those in repair.
LEMMA StartedFits ==
    ASSUME IsFiniteSet(Nodes), AllSound, BatchFits, phase = "batch",
           NEW n \in todo, NEW q, row' = [row EXCEPT ![n] = q]
    PROVE  \A k : { m \in InRack(k) : row'[m].state = "repair" }
                      \subseteq Repairing(k)
BY DEF AllSound, StoreSound, TickSound, Repairing, InRack

\* It stays so where nothing overlaps.
LEMMA BatchStep ==
    ASSUME IsFiniteSet(Nodes), AllSound, Alone, BatchFits, [Next]_vars
    PROVE  BatchFits'
<1>1. Shape
    BY EveryStep
<1>2. ASSUME NEW n \in todo, NEW q, phase = "batch", row' = [row EXCEPT ![n] = q],
             todo' = todo \ { n }
      PROVE  BatchFits'
  <2>1. ASSUME NEW m \in todo'
        PROVE  Cardinality(Repairing(Rack[m])') <= MaxConcurrentPerRack
    <3>1. Repairing(Rack[m])' \subseteq Repairing(Rack[m])
        BY <1>2 DEF AllSound, StoreSound, TickSound, Repairing, InRack
    <3>2. Repairing(Rack[m]) \subseteq Nodes
        BY DEF Repairing, InRack
    <3>3. Cardinality(Repairing(Rack[m])) <= MaxConcurrentPerRack
        BY <1>2, <2>1 DEF BatchFits
    <3> QED BY <3>1, <3>2, <3>3, SmallerSet
  <2> QED BY <2>1 DEF BatchFits
<1>3. ASSUME phase = "batch", UNCHANGED row, todo' \subseteq todo
      PROVE  BatchFits'
  <2>1. ASSUME NEW m \in todo'
        PROVE  Cardinality(Repairing(Rack[m])') <= MaxConcurrentPerRack
    <3>1. Repairing(Rack[m])' \subseteq Repairing(Rack[m])
        BY <1>3 DEF Repairing, InRack
    <3>2. Repairing(Rack[m]) \subseteq Nodes
        BY DEF Repairing, InRack
    <3>3. Cardinality(Repairing(Rack[m])) <= MaxConcurrentPerRack
        BY <1>3, <2>1 DEF BatchFits
    <3> QED BY <3>1, <3>2, <3>3, SmallerSet
  <2> QED BY <2>1 DEF BatchFits
<1>4. CASE ClientSaves
    BY <1>4 DEF ClientSaves, Alone, BatchFits, tickVars
<1>5. CASE OperatorSaves
  <2>1. PICK n, q :
          /\ n \in todo
          /\ row' = [row EXCEPT ![n] = q]
          /\ Visited(n, q) \/ Visited(n, NoRow) \/ EndTick
      BY <1>5 DEF OperatorSaves
  <2>2. \/ phase' = phase /\ todo' = todo \ { n }
        \/ phase' = "idle"
      BY <2>1 DEF Visited, EndTick
  <2> QED BY <1>2, <2>1, <2>2 DEF BatchFits
<1>6. CASE NothingSaved
  <2>1. CASE \E c \in Clients, n \in Nodes : Read(c, n)
      BY <1>3, <1>6, <2>1 DEF NothingSaved, Read, tickVars, BatchFits
  <2>2. CASE \E op \in Operators, visit \in SUBSET Nodes,
                first \in { "health", "timeouts", "stale" } : BeginTick(op, first, visit)
      BY <2>2 DEF BeginTick, BatchFits
  <2>3. CASE phase' = "batch" => (phase = "batch" /\ todo' \subseteq todo) \/ ChooseBatch
      BY <1>3, <1>6, <2>3, ChosenFits DEF NothingSaved, BatchFits
  <2>4. CASE EndTick
      BY <2>4 DEF EndTick, BatchFits
  <2>5. CASE UNCHANGED tickVars
      BY <1>3, <1>6, <2>5 DEF NothingSaved, tickVars, BatchFits
  <2> QED BY <1>6, <2>1, <2>2, <2>3, <2>4, <2>5 DEF NothingSaved
<1> QED BY <1>1, <1>4, <1>5, <1>6 DEF Shape

(***************************************************************************)
(* Where no request overlaps the tick, no repair that a maintenance tick   *)
(* starts is the third in its rack (maintenance.py:97-120), for every fleet *)
(* and every assignment of racks.                                          *)
(***************************************************************************)
THEOREM RackLimitKept ==
    ASSUME ~Overlap, IsFiniteSet(Nodes)
    PROVE  Spec => RackLimit
<1>1. Init => BatchFits
    BY DEF Init, BatchFits
<1>2. AllSound /\ Alone /\ BatchFits /\ [Next]_vars => BatchFits'
    BY BatchStep
<1>3. ASSUME AllSound, Alone, BatchFits, [Next]_vars, phase = "batch",
             NEW n \in Nodes, row[n].state # "repair", row'[n].state = "repair"
      PROVE  Cardinality({ m \in InRack(Rack[n]) : row'[m].state = "repair" })
                <= MaxConcurrentPerRack
  <2>1. Shape /\ row'[n] # row[n]
      BY <1>3, EveryStep
  <2>2. OperatorSaves
    <3>1. ~ClientSaves
        BY <1>3 DEF ClientSaves, Alone
    <3>2. ~NothingSaved
        BY <2>1 DEF NothingSaved
    <3> QED BY <2>1, <3>1, <3>2 DEF Shape
  <2>3. PICK m, q : m \in todo /\ row' = [row EXCEPT ![m] = q]
      BY <2>2 DEF OperatorSaves
  <2>4. m = n
      BY <2>1, <2>3 DEF AllSound, StoreSound
  <2>5. { d \in InRack(Rack[n]) : row'[d].state = "repair" } \subseteq Repairing(Rack[n])
      BY <1>3, <2>3, StartedFits
  <2>6. Cardinality(Repairing(Rack[n])) <= MaxConcurrentPerRack
      BY <1>3, <2>3, <2>4 DEF BatchFits
  <2>7. Repairing(Rack[n]) \subseteq Nodes
      BY DEF Repairing, InRack
  <2> QED BY <2>5, <2>6, <2>7, SmallerSet
<1>4. AllSound /\ Alone /\ BatchFits /\ [Next]_vars =>
        [\A n \in Nodes :
            phase = "batch" /\ row[n].state # "repair" /\ row'[n].state = "repair"
            => Cardinality({ m \in InRack(Rack[n]) : row'[m].state = "repair" })
                  <= MaxConcurrentPerRack]_vars
    BY <1>3
<1> QED BY <1>1, <1>2, <1>4, StaysAlone, PTL DEF Spec, RackLimit

-----------------------------------------------------------------------------
(* The operators retire no node: as long as no person commits such a       *)
(* desired state, only a request leads to rma or decommissioned.  The      *)
(* reconciler both writes desired-state files and follows them, so that    *)
(* this takes an invariant about the files and about the copies a tick has *)
(* still to act on.                                                        *)

\* What the operators would follow is no retired state.
NoneRetired ==
    /\ \A n \in Nodes : desired[n] \notin Retired
    /\ phase = "health" => \A n \in todo : snap[n].state \notin Retired
    /\ phase = "timeouts" => \A n \in todo : snap[n].state \in TimeoutStates

\* No node is in another state now, and that state a retired one.
NobodyRetires ==
    \A n \in Nodes : row'[n].state \in Retired => row'[n].state = row[n].state

-----------------------------------------------------------------------------

\* The triggers that operators use lead to no retired state.
LEMMA OperatorEdges ==
    ASSUME NEW e \in Transitions,
           e.trigger \in { "repair_start", "testing_scheduled", "l1_pass", "l1_fail",
                           "burn_in_fail", "provision_timeout", "drain_timeout",
                           "drain_complete" }
    PROVE  e.to \notin Retired
BY DEF Transitions, Edge, Retired

\* A save of a row that is not retired retires no node.
LEMMA SaveRetiresNobody ==
    ASSUME AllSound, NEW n \in Nodes, NEW r, r.state \notin Retired,
           row' = [row EXCEPT ![n] = r]
    PROVE  NobodyRetires
<1>1. row \in [Nodes -> Row]
    BY DEF AllSound, StoreSound
<1>2. ASSUME NEW m \in Nodes, row'[m].state \in Retired
      PROVE  row'[m].state = row[m].state
  <2>1. CASE m = n
      BY <1>1, <1>2, <2>1
  <2>2. CASE m # n
      BY <1>1, <2>2
  <2> QED BY <2>1, <2>2
<1> QED BY <1>2 DEF NobodyRetires

\* The end of a tick leaves nothing to act on.
LEMMA EndTickRetires ==
    ASSUME EndTick, \A n \in Nodes : desired'[n] \notin Retired
    PROVE  NoneRetired'
BY DEF EndTick, NoneRetired

\* The nodes still to visit are held as before.
LEMMA VisitedRetires ==
    ASSUME AllSound, NoneRetired, NEW n \in Nodes, NEW kept, Visited(n, kept),
           \A m \in Nodes : desired'[m] \notin Retired
    PROVE  NoneRetired'
<1>1. /\ phase' = phase /\ todo' = todo \ { n } /\ todo \subseteq Nodes
      /\ \A m \in todo' : snap'[m] = snap[m]
    BY DEF Visited, AllSound, TickSound
<1> QED BY <1>1 DEF NoneRetired

\* A save of a row that is not retired retires nobody.
LEMMA CommitRetires ==
    ASSUME AllSound, NoneRetired, NEW n \in Nodes, NEW r, r.state \notin Retired,
           NEW kept, NEW started, Commit(n, r, kept, started)
    PROVE  NoneRetired' /\ NobodyRetires
<1>1. NobodyRetires
    BY SaveRetiresNobody DEF Commit
<1>2. \A m \in Nodes : desired'[m] \notin Retired
    BY DEF Commit, AllSound, StoreSound, NoneRetired
<1>3. NoneRetired'
    BY <1>2, EndTickRetires, VisitedRetires DEF Commit
<1> QED BY <1>1, <1>3

\* At the start nobody is retired.
LEMMA InitRetires == Init => NoneRetired
BY DEF Init, NoneRetired, Retired

-----------------------------------------------------------------------------
(* Requests *)

LEMMA ClientStepRetires ==
    ASSUME Commits \cap Retired = {}, AllSound, NoneRetired, ClientStep
    PROVE  /\ NoneRetired'
           /\ \A n \in Nodes :
                 row'[n].state \in Retired /\ row'[n].state # row[n].state
                 => \E c \in Clients : Answers(c, n)
<1> DEFINE OnlyAnswers ==
        \A n \in Nodes :
            row'[n].state \in Retired /\ row'[n].state # row[n].state
            => \E c \in Clients : Answers(c, n)
<1>1. ASSUME NEW c \in Clients, req[c] # NoReq, NEW r, Save(c, r)
      PROVE  NoneRetired' /\ OnlyAnswers
  <2>1. NoneRetired'
      BY <1>1 DEF Save, NoneRetired, tickVars
  <2>2. ASSUME NEW n \in Nodes, row'[n].state # row[n].state PROVE Answers(c, n)
    <3>1. req[c].node = n
        BY <1>1, <2>2 DEF Save, AllSound, StoreSound
    <3>2. req'[c] = NoReq
        BY <1>1 DEF Save, AllSound, RequestsSound
    <3> QED BY <1>1, <3>1, <3>2 DEF Answers
  <2> QED BY <2>1, <2>2
<1>2. ASSUME UNCHANGED <<row, desired, phase, todo, snap>>
      PROVE  NoneRetired' /\ OnlyAnswers
    BY <1>2 DEF NoneRetired
<1>3. ASSUME NEW n \in Nodes, CommitDesired(n)
      PROVE  NoneRetired' /\ OnlyAnswers
  <2>1. \A m \in Nodes : desired'[m] \notin Retired
      BY <1>3 DEF CommitDesired, AllSound, StoreSound, NoneRetired
  <2> QED BY <1>3, <2>1 DEF CommitDesired, NoneRetired, tickVars
<1>4. ASSUME NEW c \in Clients, TransitionNode(c) PROVE NoneRetired' /\ OnlyAnswers
    BY <1>1, <1>4 DEF TransitionNode, Asks
<1>5. ASSUME NEW c \in Clients, CordonNode(c) PROVE NoneRetired' /\ OnlyAnswers
    BY <1>1, <1>5 DEF CordonNode, Asks
<1>6. ASSUME NEW c \in Clients, UncordonNode(c) PROVE NoneRetired' /\ OnlyAnswers
    BY <1>1, <1>6 DEF UncordonNode, Asks
<1>7. ASSUME NEW c \in Clients, InjectFault(c) PROVE NoneRetired' /\ OnlyAnswers
    BY <1>1, <1>7 DEF InjectFault, Asks
<1>8. CASE \E c \in Clients, n \in Nodes : Read(c, n)
    BY <1>2, <1>8 DEF Read, stored, tickVars
<1>9. CASE \E c \in Clients : Refuse(c)
    BY <1>2, <1>9 DEF Refuse, stored, tickVars
<1>10. CASE \E n \in Nodes : Approve(n)
    BY <1>2, <1>10 DEF Approve, stored, tickVars
<1> QED BY <1>3, <1>4, <1>5, <1>6, <1>7, <1>8, <1>9, <1>10 DEF ClientStep

-----------------------------------------------------------------------------
(* The operators *)

\* A row in a state other than the retired ones stays out of them when it is
\* handled for its health.
LEMMA HandledNotRetired ==
    ASSUME NEW r, Sound(r), r.state \notin Retired
    PROVE  Handled(r).state \notin Retired
<1> DEFINE q == Cordoned(r, "nlm-reconciler", 0)
<1>1. q.state = r.state
    BY DEF Cordoned, Sound, Row
<1> HIDE DEF q
<1>2. CASE r.state \in { "certified_ready", "testing", "burn_in" } /\ FailEdges(r) # {}
  <2>1. PICK e \in FailEdges(r) : Handled(r) = After(q, e)
      BY <1>2 DEF Handled, q
  <2>2. e.to \notin Retired
      BY OperatorEdges DEF FailEdges
  <2> QED BY <2>1, <2>2 DEF After
<1>3. CASE ~(r.state \in { "certified_ready", "testing", "burn_in" } /\ FailEdges(r) # {})
  <2>1. Handled(r) = q
      BY <1>3 DEF Handled, q
  <2> QED BY <1>1, <2>1
<1> QED BY <1>2, <1>3

\* The steps of the reconciler
LEMMA ReconcilerStepRetires ==
    ASSUME AllSound, NoneRetired, ReconcilerStep
    PROVE  NoneRetired' /\ NobodyRetires
<1>1. CASE BeginReconciler
  <2>1. \A n \in Nodes : Fetched[n].state = row[n].state
      BY FromDbSound DEF Fetched, AllSound, StoreSound
  <2> QED BY <1>1, <2>1
          DEF BeginReconciler, BeginTick, NoneRetired, NobodyRetires, Retired, stored
<1>2. ASSUME NEW n \in Nodes, HandleCritical(n) PROVE NoneRetired' /\ NobodyRetires
  <2> DEFINE r == Handled(snap[n])
  <2>1. r.state \notin Retired
      BY <1>2, HandledNotRetired
         DEF HandleCritical, AllSound, TickSound, NoneRetired
  <2>2. /\ desired' = [desired EXCEPT ![n] = r.state]
        /\ \/ row' = [row EXCEPT ![n] = r] /\ Visited(n, NoRow)
           \/ UNCHANGED row /\ EndTick
      BY <1>2 DEF HandleCritical
  <2> HIDE DEF r
  <2>3. \A m \in Nodes : desired'[m] \notin Retired
      BY <2>1, <2>2 DEF AllSound, StoreSound, NoneRetired
  <2>4. NoneRetired'
      BY <2>2, <2>3, VisitedRetires, EndTickRetires
  <2>5. NobodyRetires
    <3>1. CASE row' = [row EXCEPT ![n] = r]
        BY <2>1, <3>1, SaveRetiresNobody
    <3>2. CASE UNCHANGED row
        BY <3>2 DEF NobodyRetires
    <3> QED BY <2>2, <3>1, <3>2
  <2> QED BY <2>4, <2>5
<1>3. ASSUME NEW n \in Nodes, RequestMaintenance(n) PROVE NoneRetired' /\ NobodyRetires
  <2>1. /\ \/ row' = [row EXCEPT ![n] = snap[n]] /\ Visited(n, NoRow)
           \/ UNCHANGED row /\ EndTick
        /\ UNCHANGED desired
        /\ snap[n].state \notin Retired
      BY <1>3 DEF RequestMaintenance, NoneRetired
  <2>2. NoneRetired'
      BY <2>1, VisitedRetires, EndTickRetires DEF NoneRetired
  <2>3. NobodyRetires
    <3>1. CASE row' = [row EXCEPT ![n] = snap[n]]
        BY <2>1, <3>1, SaveRetiresNobody
    <3>2. CASE UNCHANGED row
        BY <3>2 DEF NobodyRetires
    <3> QED BY <2>1, <3>1, <3>2
  <2> QED BY <2>2, <2>3
<1>4. CASE ListDesired
    BY <1>4 DEF ListDesired, NoneRetired, NobodyRetires, stored
<1>5. ASSUME NEW n \in Nodes, GetNode(n) PROVE NoneRetired' /\ NobodyRetires
    BY <1>5 DEF GetNode, NoneRetired, NobodyRetires, stored
<1>6. ASSUME NEW n \in Nodes, Correct(n) PROVE NoneRetired' /\ NobodyRetires
  <2>1. PICK e \in Corrections(snap[n], n) : row' = [row EXCEPT ![n] = After(snap[n], e)]
      BY <1>6 DEF Correct
  <2>2. After(snap[n], e).state \notin Retired
      BY DEF Corrections, After, NoneRetired
  <2>3. NobodyRetires
    <3> DEFINE r == After(snap[n], e)
    <3>1. r.state \notin Retired /\ row' = [row EXCEPT ![n] = r]
        BY <2>1, <2>2
    <3> HIDE DEF r
    <3> QED BY <3>1, SaveRetiresNobody
  <2>4. NoneRetired'
      BY <1>6, VisitedRetires DEF Correct, NoneRetired
  <2> QED BY <2>3, <2>4
<1>7. CASE EndReconciler
    BY <1>7, EndTickRetires DEF EndReconciler, NoneRetired, NobodyRetires, stored
<1> QED BY <1>1, <1>2, <1>3, <1>4, <1>5, <1>6, <1>7 DEF ReconcilerStep

\* The steps of the maintenance operator
LEMMA MaintenanceStepRetires ==
    ASSUME AllSound, NoneRetired, MaintenanceStep
    PROVE  NoneRetired' /\ NobodyRetires
<1>1. CASE BeginMaintenance
  <2>1. \A n \in Nodes : Fetched[n].state = row[n].state
      BY FromDbSound DEF Fetched, AllSound, StoreSound
  <2> QED BY <1>1, <2>1
          DEF BeginMaintenance, BeginTick, NoneRetired, NobodyRetires, stored
<1>2. ASSUME NEW n \in Nodes, TimeOut(n) PROVE NoneRetired' /\ NobodyRetires
  <2>1. PICK e \in Transitions :
          /\ e.trigger = TimeoutTrigger[snap[n].state]
          /\ Commit(n, After(snap[n], e), After(snap[n], e), timers)
      BY <1>2 DEF TimeOut
  <2>2. snap[n].state \in TimeoutStates
      BY <1>2 DEF TimeOut, NoneRetired
  <2>3. e.to \notin Retired
      BY <2>1, <2>2, OperatorEdges DEF TimeoutTrigger, TimeoutStates
  <2> DEFINE r == After(snap[n], e)
  <2>4. r.state \notin Retired /\ Commit(n, r, r, timers)
      BY <2>1, <2>3 DEF After
  <2> HIDE DEF r
  <2> QED BY <2>4, CommitRetires
<1>3. ASSUME NEW n \in Nodes, StaysOn(n) PROVE NoneRetired' /\ NobodyRetires
  <2>1. NoneRetired'
      BY <1>3, VisitedRetires DEF StaysOn, NoneRetired, stored
  <2> QED BY <1>3, <2>1 DEF StaysOn, NobodyRetires, stored
<1>4. CASE ChooseBatch
    BY <1>4 DEF ChooseBatch, NoneRetired, NobodyRetires, stored
<1>5. ASSUME NEW n \in Nodes, StartRepair(n) PROVE NoneRetired' /\ NobodyRetires
  <2>1. PICK e \in Transitions :
          /\ e.trigger = "repair_start"
          /\ Commit(n, After(snap[n], e), After(snap[n], e), timers)
      BY <1>5 DEF StartRepair
  <2>2. e.to \notin Retired
      BY <2>1, OperatorEdges
  <2> DEFINE r == After(snap[n], e)
  <2>3. r.state \notin Retired /\ Commit(n, r, r, timers)
      BY <2>1, <2>2 DEF After
  <2> HIDE DEF r
  <2> QED BY <2>3, CommitRetires
<1>6. CASE ApprovalGate
  <2>1. \A e \in Transitions : e.trigger # "drain_requested"
      BY DEF Transitions, Edge
  <2>2. \A n \in Nodes : row'[n] = row[n]
      BY <1>6, <2>1 DEF ApprovalGate, ApprovedDrain
  <2> QED BY <1>6, <2>2, EndTickRetires DEF ApprovalGate, NoneRetired, NobodyRetires
<1> QED BY <1>1, <1>2, <1>3, <1>4, <1>5, <1>6 DEF MaintenanceStep

\* The steps of the testing operator
LEMMA TestingStepRetires ==
    ASSUME AllSound, NoneRetired, TestingStep
    PROVE  NoneRetired' /\ NobodyRetires
<1>1. CASE BeginTesting
    BY <1>1 DEF BeginTesting, BeginTick, NoneRetired, NobodyRetires, stored
<1>2. ASSUME NEW n \in Nodes, ScheduleTest(n) PROVE NoneRetired' /\ NobodyRetires
  <2>1. PICK e \in Transitions :
          /\ e.trigger = "testing_scheduled"
          /\ Commit(n, After(snap[n], e), NoRow, timers \cup { n })
      BY <1>2 DEF ScheduleTest
  <2>2. After(snap[n], e).state \notin Retired
      BY <2>1, OperatorEdges DEF After
  <2> QED BY <2>1, <2>2, CommitRetires
<1>3. ASSUME NEW n \in Nodes, HandleResult(n) PROVE NoneRetired' /\ NobodyRetires
  <2>1. PICK e \in Transitions :
          /\ e.trigger \in { "l1_pass", "l1_fail" }
          /\ Commit(n, After(snap[n], e), NoRow, timers \ { n })
      BY <1>3 DEF HandleResult
  <2>2. After(snap[n], e).state \notin Retired
      BY <2>1, OperatorEdges DEF After
  <2> QED BY <2>1, <2>2, CommitRetires
<1>4. ASSUME NEW n \in Nodes, StillFresh(n) \/ StartTimer(n)
      PROVE  NoneRetired' /\ NobodyRetires
  <2>1. UNCHANGED <<row, desired>> /\ Visited(n, snap[n])
      BY <1>4 DEF StillFresh, StartTimer, stored
  <2> QED BY <2>1, VisitedRetires DEF NoneRetired, NobodyRetires
<1>5. CASE CollectResults
    BY <1>5 DEF CollectResults, NoneRetired, NobodyRetires, stored
<1>6. CASE EndTesting
    BY <1>6, EndTickRetires DEF EndTesting, NoneRetired, NobodyRetires, stored
<1> QED BY <1>1, <1>2, <1>3, <1>4, <1>5, <1>6 DEF TestingStep

-----------------------------------------------------------------------------

\* A step retires a node only where a request is answered so.
LEMMA StepRetires ==
    ASSUME Commits \cap Retired = {}, AllSound, NoneRetired, [Next]_vars
    PROVE  /\ NoneRetired'
           /\ \A n \in Nodes :
                 row'[n].state \in Retired /\ row'[n].state # row[n].state
                 => \E c \in Clients : Answers(c, n)
<1>1. CASE ClientStep
    BY <1>1, ClientStepRetires
<1>2. CASE ReconcilerStep \/ MaintenanceStep \/ TestingStep
    BY <1>2, ReconcilerStepRetires, MaintenanceStepRetires, TestingStepRetires
       DEF NobodyRetires
<1>3. CASE TickRaises \/ Restart
    BY <1>3, EndTickRetires DEF TickRaises, Restart, NoneRetired, stored
<1>4. CASE UNCHANGED vars
    BY <1>4 DEF vars, NoneRetired
<1> QED BY <1>1, <1>2, <1>3, <1>4 DEF Next

(***************************************************************************)
(* As long as nobody commits rma or decommissioned to a desired-state      *)
(* file, a node gets there only by a request about it: not by a timeout, a *)
(* test result, a repair slot, an approval, its health, or a file that the *)
(* operators have written (reconciler.py:94-111 with gitops.py:121-138).   *)
(***************************************************************************)
THEOREM OperatorsRetireNothing ==
    ASSUME Commits \cap Retired = {}
    PROVE  Spec => RetiredOnlyByClients
<1>1. Init => NoneRetired
    BY InitRetires
<1>2. AllSound /\ NoneRetired /\ [Next]_vars => NoneRetired'
    BY StepRetires
<1>3. AllSound /\ NoneRetired /\ [Next]_vars =>
        [\A n \in Nodes :
            row'[n].state \in Retired /\ row'[n].state # row[n].state
            => \E c \in Clients : Answers(c, n)]_vars
    BY StepRetires
<1> QED BY <1>1, <1>2, <1>3, EverythingSound, PTL DEF Spec, RetiredOnlyByClients
=============================================================================
