------------------------ MODULE FaultReportingProofs ------------------------
(***************************************************************************)
(* Theorems about how faults are reported, for every fleet, every number   *)
(* of API workers and every length of the correlator's window: the loop of *)
(* an operator is one, incidents are real, and no score falls in silence.  *)
(***************************************************************************)
EXTENDS FaultReporting, TLAPS

USE CorrelatorAssumption, ReportingAssumption

-----------------------------------------------------------------------------
(* The loop *)

\* Whatever happens to the loop keeps its variables in their types, and one loop.
LoopMoves ==
    \/ StartLoop \/ StopLoop \/ Toggle \/ WakeUp \/ TriggerTick \/ LoopDies
    \/ \E raise \in BOOLEAN : TickEnds(raise)
    \/ UNCHANGED loopVars

LEMMA LoopKeeps == ASSUME LoopTypeOK, OneLoop, LoopMoves PROVE LoopTypeOK' /\ OneLoop'
<1> USE DEF LoopTypeOK, OneLoop
<1>1. CASE StartLoop
  <2>1. CASE running
    BY <1>1, <2>1 DEF StartLoop
  <2>2. CASE ~running
    BY <1>1, <2>2 DEF StartLoop
  <2> QED BY <2>1, <2>2
<1>2. CASE StopLoop
  <2>1. running' = FALSE /\ enabled' = enabled /\ ticking' = ticking
    BY <1>2 DEF StopLoop
  <2>2. loops \in { 0, 1 }
    OBVIOUS
  <2>3. loops' = 0
    BY <1>2, <2>2 DEF StopLoop
  <2> QED BY <2>1, <2>3, Zenon
<1>3. CASE Toggle
    BY <1>3 DEF Toggle
<1>4. CASE WakeUp
    BY <1>4 DEF WakeUp
<1>5. CASE TriggerTick
    BY <1>5 DEF TriggerTick
<1>6. CASE LoopDies
    BY <1>6 DEF LoopDies
<1>7. CASE \E raise \in BOOLEAN : TickEnds(raise)
    BY <1>7 DEF TickEnds
<1>8. CASE UNCHANGED loopVars
    BY <1>8 DEF loopVars
<1> QED BY <1>1, <1>2, <1>3, <1>4, <1>5, <1>6, <1>7, <1>8 DEF LoopMoves

\* And so does every step of the reporting of faults.
LEMMA StepMovesLoop == ASSUME [Next]_vars PROVE LoopMoves
<1> USE DEF LoopMoves
<1>1. CASE \E c \in Workers : \/ \E n \in Nodes, f \in Faults : Inject(c, n, f)
                              \/ AlertWorker(c) \/ CheckWorker(c) \/ SaveWorker(c)
    BY <1>1 DEF Inject, AlertWorker, CheckWorker, SaveWorker, tickVars
<1>2. CASE BeginTick(WakeUp) \/ BeginTick(TriggerTick)
    BY <1>2 DEF BeginTick
<1>3. CASE \E n \in Nodes : Handle(n)
    BY <1>3 DEF Handle
<1>4. CASE \E n \in Moved : Recover(n) \/ Retire(n)
    BY <1>4 DEF Recover, Retire, tickVars
<1>5. CASE Conclude
    BY <1>5 DEF Conclude
<1>6. CASE Mute \/ TimePasses
    BY <1>6 DEF Mute, TimePasses, tickVars
<1>7. CASE Crash \/ Manage
    BY <1>7 DEF Crash, Manage
<1>8. CASE UNCHANGED vars
    BY <1>8 DEF vars
<1> QED BY <1>1, <1>2, <1>3, <1>4, <1>5, <1>6, <1>7, <1>8 DEF Next

(***************************************************************************)
(* Operator.start, stop, toggle, trigger, exceptions and restarts never    *)
(* leave two loops, or a running operator without one (operators/base.py). *)
(***************************************************************************)
THEOREM AlwaysOneLoop == Spec => [](LoopTypeOK /\ OneLoop)
<1>1. Init => LoopTypeOK /\ OneLoop
    BY Zenon, 0 \in Nat DEF Init, LoopInit, LoopTypeOK, OneLoop
<1>2. LoopTypeOK /\ OneLoop /\ [Next]_vars => (LoopTypeOK /\ OneLoop)'
    BY LoopKeeps, StepMovesLoop
<1> QED BY <1>1, <1>2, PTL DEF Spec

(***************************************************************************)
(* An operator has one loop while it is running, and none otherwise        *)
(* (Operator.start and Operator.stop, operators/base.py:51).               *)
(***************************************************************************)
THEOREM LoopIsOne == Spec => []OneLoop
BY AlwaysOneLoop, PTL

-----------------------------------------------------------------------------
(* What the correlator makes of the events it holds *)

\* A group of events at one place is an incident of nodes that are there.
LEMMA TogetherIsThere ==
    ASSUME NEW kind \in { "rack", "switch", "pdu" }, NEW place \in [Nodes -> STRING],
           NEW least, NEW events \in SUBSET Event,
           NEW i \in Together(kind, place, least, events)
    PROVE  /\ i \in Incident /\ i.kind = kind
           /\ Cardinality(i.nodes) >= least
           /\ \A n \in i.nodes : place[n] = i.where /\ \E e \in events : e.node = n
<1>1. PICK w \in { place[e.node] : e \in events } \ { "" } :
         i = [kind |-> kind, where |-> w,
              nodes |-> { e.node : e \in { d \in events : place[d.node] = w } }]
    BY DEF Together
<1>2. Cardinality(i.nodes) >= least
    BY DEF Together
<1>3. \A e \in events : e.node \in Nodes
    BY DEF Event
<1>4. w \in STRING
    BY <1>3
<1>5. i.kind = kind /\ i.where = w /\ i.nodes = { e.node : e \in { d \in events : place[d.node] = w } }
    BY <1>1
<1>6. ASSUME NEW n \in i.nodes
      PROVE  n \in Nodes /\ place[n] = i.where /\ \E e \in events : e.node = n
  <2>1. PICK e \in { d \in events : place[d.node] = w } : n = e.node
      BY <1>5
  <2>2. e \in events /\ place[n] = w
      BY <2>1
  <2> QED BY <1>3, <1>5, <2>1, <2>2
<1>7. i \in Incident
    BY <1>1, <1>4, <1>5, <1>6 DEF Incident
<1> QED BY <1>2, <1>5, <1>6, <1>7

\* Everything that check_correlations returns is about nodes it heard of in time.
LEMMA CorrelatedIsThere ==
    ASSUME NEW events \in SUBSET Event, NEW i \in Correlated(events)
    PROVE  /\ i \in Incident
           /\ Cardinality(i.nodes) >= IF i.kind = "pdu" THEN 2 ELSE 3
           /\ \A n \in i.nodes :
                 /\ Place(i.kind)[n] = i.where
                 /\ \E e \in events : e.node = n /\ e.age < Window
<1> DEFINE active == Active(events)
           ib == { e \in active : e.event \in IbEvents }
           psu == { e \in active : e.event \in PsuEvents }
<1>1. /\ active \in SUBSET Event /\ ib \in SUBSET Event /\ psu \in SUBSET Event
      /\ \A e \in active \cup ib \cup psu : e \in events /\ e.age < Window
    BY DEF Active
<1>2. \/ i \in Together("rack", RackOf, 3, active)
      \/ i \in Together("switch", SwitchOf, 3, ib)
      \/ i \in Together("pdu", PduOf, 2, psu)
    BY DEF Correlated
<1> HIDE DEF active, ib, psu
<1>3. CASE i \in Together("rack", RackOf, 3, active)
  <2>1. /\ i \in Incident /\ i.kind = "rack" /\ Cardinality(i.nodes) >= 3
        /\ \A n \in i.nodes : RackOf[n] = i.where /\ \E e \in active : e.node = n
    BY <1>1, <1>3, TogetherIsThere DEF CorrelatorAssumption
  <2> QED BY <1>1, <2>1 DEF Place
<1>4. CASE i \in Together("switch", SwitchOf, 3, ib)
  <2>1. /\ i \in Incident /\ i.kind = "switch" /\ Cardinality(i.nodes) >= 3
        /\ \A n \in i.nodes : SwitchOf[n] = i.where /\ \E e \in ib : e.node = n
    BY <1>1, <1>4, TogetherIsThere DEF CorrelatorAssumption
  <2> QED BY <1>1, <2>1 DEF Place
<1>5. CASE i \in Together("pdu", PduOf, 2, psu)
  <2>1. /\ i \in Incident /\ i.kind = "pdu" /\ Cardinality(i.nodes) >= 2
        /\ \A n \in i.nodes : PduOf[n] = i.where /\ \E e \in psu : e.node = n
    BY <1>1, <1>5, TogetherIsThere DEF CorrelatorAssumption
  <2> QED BY <1>1, <2>1 DEF Place
<1> QED BY <1>2, <1>3, <1>4, <1>5

\* Every route has a channel.
LEMMA RoutesHaveChannels == ASSUME NEW route PROVE Channel(route) \in Channels
BY DEF Channel, Channels

\* Whatever the score, the fault inferred from it is one of a few.
LEMMA InferredIsKnown == ASSUME NEW s \in Score PROVE Inferred(s) \in Inferable
BY DEF Score, Inferred, Inferable

-----------------------------------------------------------------------------
(* The inductive invariant *)

Reporters == { "api", "reconciler" }

HearingTyped == heard \in [Reporters -> SUBSET Event] /\ last \in [Nodes -> Age]

\* A correlator holds no event of a node that is younger than the last one of the node.
HeardIsRecent == \A q \in Reporters : \A e \in heard[q] : last[e.node] <= e.age

\* A worker that is past the alert has written it.
CountedIsAlerted ==
    \A c \in Workers :
        req[c] # Idle /\ req[c].at \in { "check", "save" }
        => \E ch \in Channels : <<req[c].node, ch>> \in alerted

IInv == TypeOK /\ OneLoop /\ HeardIsRecent /\ CountedIsAlerted /\ IncidentsAreReal

\* What is heard of a node makes the last that was heard of it young.
LEMMA HearsKeeps ==
    ASSUME HearingTyped, HeardIsRecent, NEW q \in Reporters, NEW n \in Nodes,
           NEW event \in Faults \cup Inferable, Hears(q, n, event)
    PROVE  HearingTyped' /\ HeardIsRecent'
<1> USE DEF HearingTyped, Age
<1>1. Window \in Nat
    BY DEF CorrelatorAssumption
<1>2. [node |-> n, event |-> event, age |-> 0] \in Event
    BY <1>1 DEF Event
<1>3. Added(heard[q], n, event) \in SUBSET Event
    BY <1>2 DEF Added
<1>4. heard' \in [Reporters -> SUBSET Event]
    BY <1>3 DEF Hears
<1>5. last' \in [Nodes -> Age] /\ \A m \in Nodes : last'[m] = IF m = n THEN 0 ELSE last[m]
    BY <1>1 DEF Hears
<1>6. ASSUME NEW r \in Reporters, NEW e \in heard'[r] PROVE last'[e.node] <= e.age
  <2>1. e \in Event /\ e.node \in Nodes /\ e.age \in Nat
    BY <1>1, <1>4 DEF Event
  <2>2. CASE e.node = n
    BY <1>5, <2>1, <2>2
  <2>3. CASE e.node # n
    <3>1. e \in heard[r]
      BY <1>6, <2>3 DEF Hears, Added
    <3> QED BY <1>5, <2>1, <2>3, <3>1 DEF HeardIsRecent
  <2> QED BY <2>2, <2>3
<1> QED BY <1>4, <1>5, <1>6 DEF HeardIsRecent

\* As time passes, events and what was heard last grow old together.
LEMMA TimeKeeps ==
    ASSUME HearingTyped, HeardIsRecent, TimePasses
    PROVE  HearingTyped' /\ HeardIsRecent'
<1> USE DEF HearingTyped, Age
<1>1. Window \in Nat
    BY DEF CorrelatorAssumption
<1>2. last' \in [Nodes -> Age]
    BY <1>1 DEF TimePasses
<1>3. ASSUME NEW e \in Event
      PROVE  [e EXCEPT !.age = IF @ < Window THEN @ + 1 ELSE @] \in Event
    BY <1>1 DEF Event
<1>4. heard' \in [Reporters -> SUBSET Event]
    BY <1>3 DEF TimePasses, Aged
<1>5. ASSUME NEW r \in Reporters, NEW e \in heard'[r] PROVE last'[e.node] <= e.age
  <2>1. PICK d \in heard[r] : e = [d EXCEPT !.age = IF @ < Window THEN @ + 1 ELSE @]
    BY <1>5 DEF TimePasses, Aged
  <2>2. d.node \in Nodes /\ d.age \in 0..Window /\ last[d.node] <= d.age
        /\ last[d.node] \in 0..Window
    BY DEF Event, HeardIsRecent
  <2>3. e.node = d.node /\ e.age = IF d.age < Window THEN d.age + 1 ELSE d.age
    BY <2>1 DEF Event
  <2>4. last'[d.node] = IF last[d.node] < Window THEN last[d.node] + 1 ELSE Window
    BY <2>2 DEF TimePasses
  <2> QED BY <1>1, <2>2, <2>3, <2>4
<1> QED BY <1>2, <1>4, <1>5 DEF HeardIsRecent

\* What is raised from what was heard is real.
LEMMA RaisedIsReal ==
    ASSUME HearingTyped, HeardIsRecent, NEW q \in Reporters,
           raised' = Correlated(heard[q]), last' = last
    PROVE  raised' \in SUBSET Incident /\ IncidentsAreReal'
<1>1. heard[q] \in SUBSET Event
    BY DEF HearingTyped
<1>2. ASSUME NEW i \in raised'
      PROVE  /\ i \in Incident
             /\ Cardinality(i.nodes) >= IF i.kind = "pdu" THEN 2 ELSE 3
             /\ \A n \in i.nodes : Place(i.kind)[n] = i.where /\ last[n] < Window
  <2>1. /\ i \in Incident
        /\ Cardinality(i.nodes) >= IF i.kind = "pdu" THEN 2 ELSE 3
        /\ \A n \in i.nodes :
              /\ Place(i.kind)[n] = i.where
              /\ \E e \in heard[q] : e.node = n /\ e.age < Window
    BY <1>1, <1>2, CorrelatedIsThere
  <2>2. ASSUME NEW e \in heard[q], e.age < Window PROVE last[e.node] < Window
    <3>1. last[e.node] <= e.age
      BY DEF HeardIsRecent
    <3>2. e.node \in Nodes /\ e.age \in 0..Window
      BY <1>1 DEF Event, Age
    <3>3. last[e.node] \in 0..Window /\ Window \in Nat
      BY <3>2 DEF HearingTyped, Age, CorrelatorAssumption
    <3> QED BY <2>2, <3>1, <3>2, <3>3
  <2> QED BY <2>1, <2>2
<1> QED BY <1>2 DEF IncidentsAreReal

\* Nothing raised, nothing to be wrong.
LEMMA NothingRaised == ASSUME raised' = {} PROVE raised' \in SUBSET Incident /\ IncidentsAreReal'
BY DEF IncidentsAreReal

-----------------------------------------------------------------------------
(* The invariant is inductive. *)

\* The invariant holds at the start.
LEMMA InitGives == Init => IInv
<1> SUFFICES ASSUME Init PROVE IInv
    OBVIOUS
<1>1. LoopTypeOK /\ OneLoop
    BY Zenon, 0 \in Nat DEF Init, LoopInit, LoopTypeOK, OneLoop
<1>2. Window \in 0..Window /\ 10 \in 0..10 /\ 0 \in 0..MaxFaults
    BY DEF CorrelatorAssumption, ReportingAssumption
<1>3. TypeOK
    BY <1>1, <1>2 DEF Init, TypeOK, NothingHeard, Age, Score, ReportingAssumption
<1>4. HeardIsRecent /\ CountedIsAlerted /\ IncidentsAreReal
    BY DEF Init, HeardIsRecent, CountedIsAlerted, IncidentsAreReal, NothingHeard, Reporters
<1> QED BY <1>1, <1>3, <1>4 DEF IInv

\* The variables apart from the loop's
RestTyped ==
    /\ score \in [Nodes -> Score]
    /\ retired \subseteq Nodes
    /\ HearingTyped
    /\ raised \subseteq Incident
    /\ alerted \subseteq Nodes \X Channels
    /\ muted \in BOOLEAN
    /\ req \in [Workers -> Request \cup { Idle }]
    /\ todo \subseteq Nodes
    /\ snap \in [Nodes -> Score]
    /\ injected \in 0..MaxFaults

Rest == RestTyped /\ HeardIsRecent /\ CountedIsAlerted /\ IncidentsAreReal

\* The invariant is that of the loop and that of the rest.
LEMMA InvIsRest == IInv <=> LoopTypeOK /\ OneLoop /\ Rest
BY DEF IInv, TypeOK, Rest, RestTyped, HearingTyped, Reporters

\* A score that is read is a score.
LEMMA ReadIsScore == ASSUME RestTyped, NEW n \in Nodes PROVE Read(n) \in Score
BY DEF Read, RestTyped, Score

\* The steps of a worker keep the invariant: a new request,
LEMMA InjectKeeps ==
    ASSUME Rest, NEW c \in Workers, NEW n \in Nodes, NEW f \in Faults, Inject(c, n, f)
    PROVE  Rest'
<1> USE DEF Rest
<1>1. HearingTyped' /\ HeardIsRecent'
    BY HearsKeeps DEF Inject, RestTyped, Reporters
<1>2. [node |-> n, fault |-> f, copy |-> Read(n), at |-> "alert"] \in Request
    BY ReadIsScore DEF Request
<1>3. req' \in [Workers -> Request \cup { Idle }]
    BY <1>2 DEF Inject, RestTyped
<1>4. injected' \in 0..MaxFaults
    BY DEF Inject, RestTyped, ReportingAssumption
<1>5. RestTyped'
    BY <1>1, <1>3, <1>4, NothingRaised DEF Inject, RestTyped, stored, tickVars
<1>6. CountedIsAlerted'
  <2> SUFFICES ASSUME NEW d \in Workers, req'[d] # Idle, req'[d].at \in { "check", "save" }
               PROVE  \E ch \in Channels : <<req'[d].node, ch>> \in alerted'
    BY DEF CountedIsAlerted
  <2>1. d # c
    BY DEF Inject, RestTyped
  <2> QED BY <2>1 DEF Inject, RestTyped, CountedIsAlerted, stored
<1> QED BY <1>1, <1>5, <1>6, NothingRaised DEF Inject

\* ... its alert,
LEMMA AlertWorkerKeeps ==
    ASSUME Rest, NEW c \in Workers, AlertWorker(c)
    PROVE  Rest'
<1> USE DEF Rest
<1>1. req[c] \in Request /\ req[c].node \in Nodes
    BY DEF AlertWorker, RestTyped, Request
<1>2. HearingTyped' /\ HeardIsRecent'
    BY DEF AlertWorker, RestTyped, HearingTyped, HeardIsRecent
<1>3. req' \in [Workers -> Request \cup { Idle }]
    BY <1>1 DEF AlertWorker, RestTyped, Request
<1>4. alerted' \subseteq Nodes \X Channels /\ alerted \subseteq alerted'
    BY <1>1, RoutesHaveChannels DEF AlertWorker, RestTyped
<1>5. RestTyped'
    BY <1>2, <1>3, <1>4, NothingRaised DEF AlertWorker, RestTyped, tickVars
<1>6. CountedIsAlerted'
  <2> SUFFICES ASSUME NEW d \in Workers, req'[d] # Idle, req'[d].at \in { "check", "save" }
               PROVE  \E ch \in Channels : <<req'[d].node, ch>> \in alerted'
    BY DEF CountedIsAlerted
  <2>1. CASE d # c
    <3>1. req'[d] = req[d]
      BY <2>1 DEF AlertWorker, RestTyped
    <3> QED BY <1>4, <3>1 DEF CountedIsAlerted
  <2>2. CASE d = c
    <3>1. ~muted
      BY <2>2 DEF AlertWorker, RestTyped
    <3>2. req'[c].node = req[c].node
      BY <1>1, <3>1 DEF AlertWorker, RestTyped, Request
    <3>3. <<req[c].node, Channel(Classify(req[c].fault).route)>> \in alerted'
      BY <3>1 DEF AlertWorker
    <3> QED BY <2>2, <3>2, <3>3, RoutesHaveChannels
  <2> QED BY <2>1, <2>2
<1> QED BY <1>2, <1>5, <1>6, NothingRaised DEF AlertWorker

\* ... a check of the correlations,
LEMMA CheckWorkerKeeps ==
    ASSUME Rest, NEW c \in Workers, CheckWorker(c)
    PROVE  Rest'
<1> USE DEF Rest
<1>1. req[c] \in Request /\ req[c].at = "check"
    BY DEF CheckWorker, RestTyped
<1>2. HearingTyped' /\ HeardIsRecent'
    BY DEF CheckWorker, RestTyped, HearingTyped, HeardIsRecent
<1>3. raised' \in SUBSET Incident /\ IncidentsAreReal'
    BY RaisedIsReal DEF CheckWorker, RestTyped, Reporters
<1>4. req' \in [Workers -> Request \cup { Idle }]
    BY <1>1 DEF CheckWorker, RestTyped, Request
<1>5. RestTyped'
    BY <1>2, <1>3, <1>4 DEF CheckWorker, RestTyped, stored, tickVars
<1>6. CountedIsAlerted'
  <2> SUFFICES ASSUME NEW d \in Workers, req'[d] # Idle, req'[d].at \in { "check", "save" }
               PROVE  \E ch \in Channels : <<req'[d].node, ch>> \in alerted'
    BY DEF CountedIsAlerted
  <2>1. CASE d # c
    BY <2>1 DEF CheckWorker, RestTyped, CountedIsAlerted, stored
  <2>2. CASE d = c
    <3>1. req'[c].node = req[c].node /\ req[c] # Idle
      BY <1>1 DEF CheckWorker, RestTyped, Request
    <3> QED BY <1>1, <2>2, <3>1 DEF CheckWorker, CountedIsAlerted, stored
  <2> QED BY <2>1, <2>2
<1> QED BY <1>2, <1>3, <1>5, <1>6

\* A score that is lowered is a score.
LEMMA LoweredIsScore == ASSUME NEW s \in Score PROVE Lowered(s) \in Score
BY DEF Score, Lowered

\* ... the save of a score
LEMMA SaveWorkerKeeps ==
    ASSUME Rest, NEW c \in Workers, SaveWorker(c)
    PROVE  Rest'
<1> USE DEF Rest
<1>1. req[c] \in Request /\ req[c].copy \in Score /\ req[c].node \in Nodes
    BY DEF SaveWorker, RestTyped, Request
<1>2. HearingTyped' /\ HeardIsRecent'
    BY DEF SaveWorker, RestTyped, HearingTyped, HeardIsRecent
<1>3. score' \in [Nodes -> Score]
    BY <1>1, LoweredIsScore DEF SaveWorker, RestTyped
<1>4. RestTyped'
    BY <1>2, <1>3, NothingRaised DEF SaveWorker, RestTyped, tickVars
<1>5. CountedIsAlerted'
    BY DEF SaveWorker, RestTyped, CountedIsAlerted
<1> QED BY <1>2, <1>4, <1>5, NothingRaised DEF SaveWorker

\* A step that leaves the requests, the alerts and what was heard alone
LEMMA QuietKeeps ==
    ASSUME Rest, UNCHANGED <<heard, last, req, alerted, injected>>,
           raised' = {} \/ UNCHANGED raised,
           score' \in [Nodes -> Score], retired' \subseteq Nodes, muted' \in BOOLEAN,
           todo' \subseteq Nodes, snap' \in [Nodes -> Score]
    PROVE  Rest'
<1> USE DEF Rest
<1>1. raised' \subseteq Incident /\ IncidentsAreReal'
    BY NothingRaised DEF RestTyped, IncidentsAreReal
<1>2. RestTyped' /\ HeardIsRecent' /\ CountedIsAlerted'
    BY <1>1 DEF RestTyped, HearingTyped, HeardIsRecent, CountedIsAlerted
<1> QED BY <1>1, <1>2

\* Where no tick is in progress, its variables have their types.
LEMMA NoTickTyped == ASSUME NoTick PROVE todo' \subseteq Nodes /\ snap' \in [Nodes -> Score]
<1>1. 10 \in Score
    BY DEF Score
<1> QED BY <1>1 DEF NoTick

\* The steps of a tick keep the invariant: its beginning,
LEMMA BeginTickKeeps ==
    ASSUME Rest, NEW start, BeginTick(start)
    PROVE  Rest'
<1>1. todo' \subseteq Nodes /\ snap' \in [Nodes -> Score]
    BY ReadIsScore DEF BeginTick, Rest
<1> QED BY <1>1, QuietKeeps DEF BeginTick, Rest, RestTyped, stored

\* ... a critical node,
LEMMA HandleKeeps ==
    ASSUME Rest, NEW n \in Nodes, Handle(n)
    PROVE  Rest'
<1> USE DEF Rest
<1>1. CASE muted
    BY <1>1, NoTickTyped, QuietKeeps DEF Handle, RestTyped
<1>2. CASE ~muted
  <2>1. Inferred(snap[n]) \in Faults \cup Inferable
    BY InferredIsKnown DEF RestTyped
  <2>2. HearingTyped' /\ HeardIsRecent'
    BY <1>2, <2>1, HearsKeeps DEF Handle, RestTyped, Reporters
  <2>3. score' \in [Nodes -> Score] /\ todo' \subseteq Nodes
    BY <1>2 DEF Handle, RestTyped
  <2>4. alerted' \subseteq Nodes \X Channels /\ alerted \subseteq alerted'
    BY <1>2, RoutesHaveChannels DEF Handle, RestTyped
  <2>5. RestTyped'
    BY <1>2, <2>2, <2>3, <2>4, NothingRaised DEF Handle, RestTyped
  <2>6. CountedIsAlerted'
    BY <2>4 DEF Handle, CountedIsAlerted
  <2> QED BY <2>2, <2>5, <2>6, NothingRaised DEF Handle
<1> QED BY <1>1, <1>2

\* ... its correlations and its end
LEMMA ConcludeKeeps ==
    ASSUME Rest, Conclude
    PROVE  Rest'
<1> USE DEF Rest
<1>1. HearingTyped' /\ HeardIsRecent'
    BY DEF Conclude, RestTyped, HearingTyped, HeardIsRecent
<1>2. raised' \in SUBSET Incident /\ IncidentsAreReal'
    BY RaisedIsReal DEF Conclude, RestTyped, Reporters
<1>3. RestTyped'
    BY <1>1, <1>2, NoTickTyped DEF Conclude, RestTyped, stored
<1>4. CountedIsAlerted'
    BY DEF Conclude, CountedIsAlerted, stored
<1> QED BY <1>1, <1>2, <1>3, <1>4

\* So do the steps of the world around,
LEMMA WorldKeeps ==
    ASSUME Rest, (\E n \in Moved : Recover(n) \/ Retire(n)) \/ Mute \/ Manage \/ UNCHANGED vars
    PROVE  Rest'
<1> USE DEF Rest
<1>1. ASSUME NEW n \in Moved, Recover(n) PROVE Rest'
  <2>1. score' \in [Nodes -> Score]
    BY <1>1 DEF Recover, RestTyped, Score
  <2> QED BY <1>1, <2>1, QuietKeeps DEF Recover, RestTyped, tickVars
<1>2. ASSUME NEW n \in Moved, Retire(n) PROVE Rest'
  <2>1. retired' \subseteq Nodes
    BY <1>2 DEF Retire, RestTyped, ReportingAssumption
  <2> QED BY <1>2, <2>1, QuietKeeps DEF Retire, RestTyped, tickVars
<1>3. CASE Mute
  <2>1. muted' \in BOOLEAN
    BY <1>3 DEF Mute
  <2> QED BY <1>3, <2>1, QuietKeeps DEF Mute, RestTyped, tickVars
<1>4. CASE Manage
    BY <1>4, QuietKeeps DEF Manage, RestTyped, stored
<1>5. CASE UNCHANGED vars
    BY <1>5, QuietKeeps DEF vars, RestTyped, stored
<1> QED BY <1>1, <1>2, <1>3, <1>4, <1>5

\* ... the clock,
LEMMA TimePassesKeeps == ASSUME Rest, TimePasses PROVE Rest'
<1> USE DEF Rest
<1>1. HearingTyped' /\ HeardIsRecent'
    BY TimeKeeps DEF RestTyped
<1>2. RestTyped' /\ CountedIsAlerted'
    BY <1>1, NothingRaised DEF TimePasses, RestTyped, CountedIsAlerted, stored, tickVars
<1> QED BY <1>1, <1>2, NothingRaised DEF TimePasses

\* ... and the death of the process.
LEMMA CrashKeeps == ASSUME Rest, Crash PROVE Rest'
<1> USE DEF Rest
<1>1. HearingTyped' /\ HeardIsRecent'
    BY DEF Crash, NothingHeard, RestTyped, HearingTyped, HeardIsRecent, Reporters
<1>2. RestTyped' /\ CountedIsAlerted'
    BY <1>1, NothingRaised, NoTickTyped DEF Crash, RestTyped, CountedIsAlerted, stored
<1> QED BY <1>1, <1>2, NothingRaised DEF Crash

\* Every step keeps the invariant.
LEMMA NextKeeps == ASSUME IInv, [Next]_vars PROVE IInv'
<1>1. LoopTypeOK /\ OneLoop /\ Rest
    BY InvIsRest
<1>2. LoopTypeOK' /\ OneLoop'
    BY <1>1, LoopKeeps, StepMovesLoop
<1>3. Rest'
  <2> USE <1>1
  <2>1. CASE \E c \in Workers : \/ \E n \in Nodes, f \in Faults : Inject(c, n, f)
                                \/ AlertWorker(c) \/ CheckWorker(c) \/ SaveWorker(c)
    BY <2>1, InjectKeeps, AlertWorkerKeeps, CheckWorkerKeeps, SaveWorkerKeeps
  <2>2. CASE BeginTick(WakeUp) \/ BeginTick(TriggerTick)
    BY <2>2, BeginTickKeeps
  <2>3. CASE \E n \in Nodes : Handle(n)
    BY <2>3, HandleKeeps
  <2>4. CASE (\E n \in Moved : Recover(n) \/ Retire(n)) \/ Mute \/ Manage \/ UNCHANGED vars
    BY <2>4, WorldKeeps
  <2>5. CASE Conclude
    BY <2>5, ConcludeKeeps
  <2>6. CASE TimePasses
    BY <2>6, TimePassesKeeps
  <2>7. CASE Crash
    BY <2>7, CrashKeeps
  <2> QED BY <2>1, <2>2, <2>3, <2>4, <2>5, <2>6, <2>7 DEF Next
<1>4. IInv' <=> (LoopTypeOK' /\ OneLoop' /\ Rest')
    BY DEF IInv, TypeOK, Rest, RestTyped, HearingTyped, Reporters
<1> QED BY <1>2, <1>3, <1>4

(***************************************************************************)
(* In every state: types, one loop, and what ties the events of the two    *)
(* correlators, the requests under way and the alerts file to each other.  *)
(***************************************************************************)
THEOREM Inductive == Spec => []IInv
BY InitGives, NextKeeps, PTL DEF Spec

-----------------------------------------------------------------------------
(***************************************************************************)
(* All variables of the reporting of faults keep their types; a score      *)
(* stays between 0 and 1 whatever the endpoint takes off (api.py:195).     *)
(***************************************************************************)
THEOREM TypeCorrect == Spec => []TypeOK
<1>1. IInv => TypeOK
    BY DEF IInv
<1> QED BY <1>1, Inductive, PTL

(***************************************************************************)
(* Every incident that check_correlations returns is about nodes that are  *)
(* there and were struck within the window (classifier.py:103).            *)
(***************************************************************************)
THEOREM NoFalseAlarm == Spec => []IncidentsAreReal
<1>1. IInv => IncidentsAreReal
    BY DEF IInv
<1> QED BY <1>1, Inductive, PTL

\* A score falls, and there is no alert about its node.
SilentFall(n) ==
    /\ score'[n] # score[n] /\ score'[n] < Read(n)
    /\ ~ \E ch \in Channels : <<n, ch>> \in alerted'

\* No step does that.
LEMMA NoSilentFall ==
    ASSUME IInv, [Next]_vars, NEW n \in Nodes
    PROVE  ~SilentFall(n)
<1> SUFFICES ASSUME SilentFall(n) PROVE FALSE
    OBVIOUS
<1> USE InvIsRest DEF SilentFall
<1>1. score \in [Nodes -> Score] /\ snap \in [Nodes -> Score]
    BY DEF Rest, RestTyped
<1>2. ASSUME NEW c \in Workers, SaveWorker(c) PROVE FALSE
  <2>1. n = req[c].node
    BY <1>1, <1>2 DEF SaveWorker
  <2>2. \E ch \in Channels : <<req[c].node, ch>> \in alerted
    BY <1>2 DEF SaveWorker, Rest, CountedIsAlerted
  <2> QED BY <1>2, <2>1, <2>2 DEF SaveWorker
<1>3. ASSUME NEW m \in Nodes, Handle(m) PROVE FALSE
  <2>1. ~muted
    BY <1>3 DEF Handle
  <2>2. n = m
    BY <1>1, <1>3, <2>1 DEF Handle
  <2>3. <<m, Channel(AlertRoute(m))>> \in alerted'
    BY <1>3, <2>1 DEF Handle
  <2> QED BY <2>2, <2>3, RoutesHaveChannels
<1>4. ASSUME NEW m \in Moved, Recover(m) PROVE FALSE
  <2>1. score'[n] = 10
    BY <1>1, <1>4 DEF Recover
  <2>2. Read(n) \in 0..10
    BY ReadIsScore DEF Rest, Score
  <2> QED BY <2>1, <2>2
<1>5. UNCHANGED score \/ (\E c \in Workers : SaveWorker(c))
      \/ (\E m \in Nodes : Handle(m)) \/ (\E m \in Moved : Recover(m))
    BY DEF Next, Inject, AlertWorker, CheckWorker, BeginTick, Retire, Conclude, Mute,
           TimePasses, Crash, Manage, stored, vars
<1> QED BY <1>2, <1>3, <1>4, <1>5

(***************************************************************************)
(* Whoever lowers a score has written an alert (api.py:190 before 196,     *)
(* reconciler.py:206 before 215).                                          *)
(***************************************************************************)
THEOREM NoneInSilence == Spec => FaultsAreAlerted
<1>1. IInv /\ [Next]_vars
      => [\A n \in Nodes :
             score'[n] # score[n] /\ score'[n] < Read(n)
             => \E ch \in Channels : <<n, ch>> \in alerted']_vars
    BY NoSilentFall DEF SilentFall
<1> QED BY <1>1, Inductive, PTL DEF Spec, FaultsAreAlerted
=============================================================================
