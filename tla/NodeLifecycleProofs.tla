------------------------ MODULE NodeLifecycleProofs -------------------------
(***************************************************************************)
(* What the functions of one row preserve: they map rows to rows, and      *)
(* sound rows to sound rows.                                               *)
(***************************************************************************)
EXTENDS NodeLifecycle, TLAPS

(***************************************************************************)
(* A row that the state machine can be trusted with: the protection flag   *)
(* says what the state says, and nobody has got past it into `draining'.   *)
(***************************************************************************)
Sound(r) ==
    /\ r \in Row
    /\ r.protected <=> r.state = "customer_assigned"
    /\ r.state # "draining"

-----------------------------------------------------------------------------

\* The fields of an edge of the table of config/node-states.yml have their types.
LEMMA EdgeTypes ==
    ASSUME NEW e \in Transitions
    PROVE  /\ e.from \in State /\ e.to \in State
           /\ e.trigger \in Trigger /\ e.owner \in Owner /\ e.prio \in Priority
<1>1. e.from \in State /\ e.to \in State /\ e.prio \in Priority
    BY DEF Transitions, Edge, State, Priority
<1>2. e.trigger \in Trigger
    BY DEF Trigger
<1>3. e.owner \in Owner
    BY DEF Owner
<1> QED BY <1>1, <1>2, <1>3

\* The controller itself is among the owners.
LEMMA ControllerOwns == "nlm-controller" \in Owner
<1>1. Edge("repair", "rma_needed", "rma", "nlm-controller", 0) \in Transitions
    BY DEF Transitions
<1>2. Edge("repair", "rma_needed", "rma", "nlm-controller", 0).owner = "nlm-controller"
    BY DEF Edge
<1> QED BY <1>1, <1>2 DEF Owner

\* One edge leads into draining, and it is a P4 edge out of customer_assigned.
LEMMA OnlyWayIntoDraining ==
    ASSUME NEW e \in Transitions, e.to = "draining"
    PROVE  e.from = "customer_assigned" /\ e.prio = 4
BY DEF Transitions, Edge

-----------------------------------------------------------------------------

\* db._node_from_row reads a sound row as a sound row in the same state.
LEMMA FromDbSound ==
    ASSUME NEW r, Sound(r)
    PROVE  /\ Sound(FromDb(r))
           /\ FromDb(r).state = r.state /\ FromDb(r).cordon = r.cordon
BY DEF Sound, FromDb, Row, Health

\* StateMachine.transition keeps a row sound whenever it is not denied.
LEMMA AfterSound ==
    ASSUME NEW r, Sound(r), NEW e \in Transitions, Permitted(r, e)
    PROVE  Sound(After(r, e)) /\ After(r, e).state = e.to
<1>1. e.to \in State /\ e.owner \in Owner /\ e.prio \in Priority
    BY EdgeTypes
<1>2. CordonAfter(r.cordon, e) \in Cordon
    BY <1>1 DEF CordonAfter, Cordon, Sound, Row, Owner
<1>3. ProtectedAfter(r, e) <=> e.to = "customer_assigned"
    BY DEF ProtectedAfter, Permitted, Sound
<1>4. ProtectedAfter(r, e) \in BOOLEAN
    BY DEF ProtectedAfter
<1>5. After(r, e) \in Row
    BY <1>1, <1>2, <1>4 DEF After, Row, Sound, Health
<1>6. e.to # "draining"
    BY OnlyWayIntoDraining DEF Permitted, Sound
<1> QED BY <1>3, <1>5, <1>6 DEF Sound, After

\* cordon.cordon, cordon.uncordon and the fault injection touch neither state
\* nor protection.
LEMMA CordonedSound ==
    ASSUME NEW r, Sound(r), NEW owner \in Owner, NEW prio \in Priority
    PROVE  Sound(Cordoned(r, owner, prio)) /\ Cordoned(r, owner, prio).state = r.state
BY DEF Sound, Cordoned, Row, Cordon

LEMMA UncordonedSound ==
    ASSUME NEW r, Sound(r)
    PROVE  Sound(Uncordoned(r)) /\ Uncordoned(r).state = r.state
<1>1. NoCordon \in Cordon
    BY DEF NoCordon, Cordon, Owner, Priority
<1> QED BY <1>1 DEF Sound, Uncordoned, Row

LEMMA InjectedSound ==
    ASSUME NEW r, Sound(r), NEW severe \in BOOLEAN
    PROVE  Sound(Injected(r, severe)) /\ Injected(r, severe).state = r.state
<1> DEFINE q == IF severe THEN Cordoned(r, "nlm-controller", 0) ELSE r
<1>1. "nlm-controller" \in Owner
    BY ControllerOwns
<1>2. Sound(q) /\ q.state = r.state
  <2>1. Sound(Cordoned(r, "nlm-controller", 0))
        /\ Cordoned(r, "nlm-controller", 0).state = r.state
    <3>1. 0 \in Priority
        BY DEF Priority
    <3> QED BY <1>1, <3>1, CordonedSound
  <2>2. CASE severe
    <3>1. q = Cordoned(r, "nlm-controller", 0)
        BY <2>2
    <3> QED BY <2>1, <3>1
  <2>3. CASE ~severe
    <3>1. q = r
        BY <2>3
    <3> QED BY <3>1
  <2> QED BY <2>2, <2>3
<1>3. Injected(r, severe) = [q EXCEPT !.health = IF @ < 3 THEN 0 ELSE @ - 3]
    BY DEF Injected
<1> HIDE DEF q
<1> QED BY <1>2, <1>3 DEF Sound, Row, Health

\* The rows of the seeded fleet (mock_fleet.py) are sound.
LEMMA SeedsSound ==
    ASSUME NEW s \in SeedStates, NEW r \in SeedRows(s)
    PROVE  Sound(r) /\ r.state = s
<1>1. "nlm-controller" \in Owner
    BY ControllerOwns
<1>2. NoCordon \in Cordon /\ [on |-> TRUE, by |-> "nlm-controller", prio |-> 4] \in Cordon
    BY <1>1 DEF NoCordon, Cordon, Owner, Priority
<1>3. SeedHealth(s) \subseteq Health
    BY DEF SeedHealth, Health
<1>4. PICK h \in SeedHealth(s) :
        r = [ state     |-> s,
              protected |-> s = "customer_assigned",
              cordon    |-> IF s \in { "repair", "rma" }
                            THEN [on |-> TRUE, by |-> "nlm-controller", prio |-> 4] ELSE NoCordon,
              health    |-> h ]
    BY DEF SeedRows
<1>5. s \in State /\ s # "draining"
    BY DEF SeedStates, State
<1> QED BY <1>2, <1>3, <1>4, <1>5 DEF Sound, Row
=============================================================================
