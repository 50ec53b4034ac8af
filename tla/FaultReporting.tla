--------------------------- MODULE FaultReporting ---------------------------
(***************************************************************************)
(* How faults become alerts and incidents: the fault endpoint of the REST  *)
(* API (api.py, inject_fault), whose worker threads share one correlator,  *)
(* and the reconciler (operators/reconciler.py), which has another one and *)
(* runs under the loop of OperatorLoop.  Of a row only the health score is *)
(* kept here, and whether the reconciler passes the node over; cordons and *)
(* states are FleetStore's and ReconcilerOperator's.  A CLI command makes  *)
(* a correlator of its own and adds one event to it, which never           *)
(* correlates with anything.                                               *)
(***************************************************************************)
EXTENDS IncidentCorrelator, OperatorLoop

CONSTANTS
    Bmaas,      \* the nodes whose environment is BMaaS
    Workers,    \* worker threads of the API
    Faults,     \* the faults that are injected
    Moved,      \* the nodes that others test, retire and bring back meanwhile
    Seeds,      \* the scores the fleet may start with, in tenths
    MaxFaults,  \* bound on the number of injections
    Idle        \* stands for "no request"

ASSUME ReportingAssumption ==
    /\ Bmaas \subseteq Nodes
    /\ Moved \subseteq Nodes
    /\ Faults \subseteq STRING
    /\ Seeds \subseteq 0..10
    /\ MaxFaults \in Nat

VARIABLES
    score,      \* score[n]: health_score of n's row, in tenths
    retired,    \* the nodes in state rma or decommissioned
    heard,      \* the events of the API's correlator and of the reconciler's
    last,       \* last[n]: how long ago a fault of n was last heard of
    raised,     \* the incidents saved in the last step
    alerted,    \* the alerts in the file: pairs of a node and a channel
    muted,      \* TRUE while the alerts file cannot be written
    req,        \* req[c]: the injection worker c is busy with
    todo,       \* the nodes the tick in progress has still to handle
    snap,       \* snap[n]: the score of n that the tick has read
    injected    \* the number of injections so far

stored == <<score, retired, alerted, muted>>
vars == <<loopVars, stored, heard, last, raised, req, todo, snap, injected>>

-----------------------------------------------------------------------------

Score == 0..10
Inferable == { "xid_79", "xid_94", "ib_crc_high", "ecc_correctable_high" }
Event == [node : Nodes, event : Faults \cup Inferable, age : Age]
Request == [node : Nodes, fault : Faults, copy : Score, at : { "alert", "check", "save" }]
Channels == { Channel(r) : r \in { "dc-infra", "network", "customer", "compute" } }

Incident == [kind : { "rack", "switch", "pdu" }, where : STRING, nodes : SUBSET Nodes]

TypeOK ==
    /\ LoopTypeOK
    /\ score \in [Nodes -> Score]
    /\ retired \subseteq Nodes
    /\ heard \in [{ "api", "reconciler" } -> SUBSET Event]
    /\ last \in [Nodes -> Age]
    /\ raised \subseteq Incident
    /\ alerted \subseteq Nodes \X Channels
    /\ muted \in BOOLEAN
    /\ req \in [Workers -> Request \cup { Idle }]
    /\ todo \subseteq Nodes
    /\ snap \in [Nodes -> Score]
    /\ injected \in 0..MaxFaults

NothingHeard == [q \in { "api", "reconciler" } |-> {}]
NoTick == todo' = {} /\ snap' = [n \in Nodes |-> 10]

Init ==
    /\ LoopInit
    /\ score \in [Nodes -> Seeds]
    /\ retired = {}
    /\ heard = NothingHeard
    /\ last = [n \in Nodes |-> Window]
    /\ raised = {}
    /\ alerted = {}
    /\ muted = FALSE
    /\ req = [c \in Workers |-> Idle]
    /\ todo = {} /\ snap = [n \in Nodes |-> 10]
    /\ injected = 0

\* `row["health_score"] or 1.0'
Read(n) == IF score[n] = 0 THEN 10 ELSE score[n]

\* Correlator q hears of a fault of n; what is heard of n gets young again.
Hears(q, n, event) ==
    /\ heard' = [heard EXCEPT ![q] = Added(@, n, event)]
    /\ last' = [last EXCEPT ![n] = 0]

-----------------------------------------------------------------------------
(* inject_fault: classify and add_event; send_alert; check_correlations    *)
(* with a save_incident each; save_node                                    *)

tickVars == <<todo, snap, loopVars>>

Inject(c, n, f) ==
    /\ req[c] = Idle
    /\ injected < MaxFaults
    /\ injected' = injected + 1
    /\ Hears("api", n, f)
    /\ req' = [req EXCEPT ![c] = [node |-> n, fault |-> f, copy |-> Read(n), at |-> "alert"]]
    /\ raised' = {}
    /\ UNCHANGED <<stored, tickVars>>

\* Mutant: the alert is left for the end, where its failure is not noticed
AlertWorkerLater(c) ==
    /\ req[c] # Idle /\ req[c].at = "alert"
    /\ req' = [req EXCEPT ![c].at = "check"]
    /\ raised' = {}
    /\ UNCHANGED <<stored, heard, last, tickVars, injected>>

\* An alert that cannot be written ends the request: the score is not saved.
AlertWorker(c) ==
    /\ req[c] # Idle /\ req[c].at = "alert"
    /\ IF muted
       THEN req' = [req EXCEPT ![c] = Idle] /\ UNCHANGED alerted
       ELSE /\ req' = [req EXCEPT ![c].at = "check"]
            /\ alerted' = alerted \cup
                  { <<req[c].node, Channel(Classify(req[c].fault).route)>> }
    /\ raised' = {}
    /\ UNCHANGED <<score, retired, muted, heard, last, tickVars, injected>>

CheckWorker(c) ==
    /\ req[c] # Idle /\ req[c].at = "check"
    /\ raised' = Correlated(heard["api"])
    /\ req' = [req EXCEPT ![c].at = "save"]
    /\ UNCHANGED <<stored, heard, last, tickVars, injected>>

\* Mutant: the score may fall below zero
LoweredUnbounded(s) == s - 3

\* max(0.0, health_score - 0.3)
Lowered(s) == IF s < 3 THEN 0 ELSE s - 3

SaveWorker(c) ==
    /\ req[c] # Idle /\ req[c].at = "save"
    /\ score' = [score EXCEPT ![req[c].node] = Lowered(req[c].copy)]
    /\ req' = [req EXCEPT ![c] = Idle]
    /\ raised' = {}
    /\ UNCHANGED <<retired, alerted, muted, heard, last, tickVars, injected>>

-----------------------------------------------------------------------------
(* The tick of the reconciler, up to its correlations *)

\* _infer_fault, from a score below the critical 0.5
Inferred(s) ==
    CASE s <= 2 -> "xid_79" [] s = 3 -> "xid_94" [] OTHER -> "ib_crc_high"

Critical(n) == n \notin retired /\ Read(n) < 5

\* Wakes up, or is triggered, and takes the rows of all nodes.
BeginTick(start) ==
    /\ start
    /\ todo' = { n \in Nodes : Critical(n) }
    /\ snap' = [n \in Nodes |-> Read(n)]
    /\ raised' = {}
    /\ UNCHANGED <<stored, heard, last, req, injected>>

(***************************************************************************)
(* _handle_critical: the alert, the event, and save_node of the row as it  *)
(* was read.  A BMaaS node that is not at P0 is for its customer to decide *)
(* on.  An alert that cannot be written raises, and the tick ends.         *)
(***************************************************************************)
AlertRoute(n) ==
    LET rule == Classify(Inferred(snap[n]))
    IN  IF n \in Bmaas /\ rule.severity # "critical" THEN "bmaas-customer" ELSE rule.route

Handle(n) ==
    /\ ticking # "none" /\ n \in todo
    /\ IF muted
       THEN /\ TickEnds(TRUE) /\ NoTick
            /\ UNCHANGED <<score, alerted, heard, last>>
       ELSE /\ alerted' = alerted \cup { <<n, Channel(AlertRoute(n))>> }
            /\ Hears("reconciler", n, Inferred(snap[n]))
            /\ score' = [score EXCEPT ![n] = snap[n]]
            /\ todo' = todo \ { n }
            /\ UNCHANGED <<loopVars, snap>>
    /\ raised' = {}
    /\ UNCHANGED <<retired, muted, req, injected>>

\* All nodes are handled: check_correlations, and the rest of the tick.
Conclude ==
    /\ ticking # "none" /\ todo = {}
    /\ raised' = Correlated(heard["reconciler"])
    /\ TickEnds(FALSE)
    /\ NoTick
    /\ UNCHANGED <<stored, heard, last, req, injected>>

-----------------------------------------------------------------------------
(* The rest of the controller, and the world *)

\* A node passes its tests, or is moved to or from RMA, by others.
Recover(n) ==
    /\ score' = [score EXCEPT ![n] = 10]
    /\ raised' = {}
    /\ UNCHANGED <<retired, alerted, muted, heard, last, req, tickVars, injected>>

Retire(n) ==
    /\ retired' = IF n \in retired THEN retired \ { n } ELSE retired \cup { n }
    /\ raised' = {}
    /\ UNCHANGED <<score, alerted, muted, heard, last, req, tickVars, injected>>

\* The file system fills up, and is cleared.
Mute ==
    /\ muted' = ~muted
    /\ raised' = {}
    /\ UNCHANGED <<score, retired, alerted, heard, last, req, tickVars, injected>>

\* A tick makes no network calls: it takes no noticeable part of the window.
TimePasses ==
    /\ ticking = "none"
    /\ heard' = [q \in DOMAIN heard |-> Aged(heard[q])]
    /\ last' = [n \in Nodes |-> IF last[n] < Window THEN last[n] + 1 ELSE Window]
    /\ raised' = {}
    /\ UNCHANGED <<stored, req, tickVars, injected>>

\* The process dies; what the correlators have heard dies with it.
Crash ==
    /\ LoopDies
    /\ heard' = NothingHeard
    /\ req' = [c \in Workers |-> Idle]
    /\ NoTick
    /\ raised' = {}
    /\ UNCHANGED <<stored, last, injected>>

\* start_all, stop_all and the toggle endpoint
Manage ==
    /\ StartLoop \/ StopLoop \/ Toggle
    /\ raised' = {}
    /\ UNCHANGED <<stored, heard, last, req, todo, snap, injected>>

Next ==
    \/ \E c \in Workers :
          \/ \E n \in Nodes, f \in Faults : Inject(c, n, f)
          \/ AlertWorker(c) \/ CheckWorker(c) \/ SaveWorker(c)
    \/ BeginTick(WakeUp) \/ BeginTick(TriggerTick)
    \/ \E n \in Nodes : Handle(n)
    \/ \E n \in Moved : Recover(n) \/ Retire(n)
    \/ Conclude \/ Mute \/ TimePasses \/ Crash \/ Manage

Spec == Init /\ [][Next]_vars

\* The loop of a running, enabled operator comes round, and a tick goes on.
Fairness ==
    /\ SF_vars(BeginTick(WakeUp))
    /\ WF_vars(Conclude \/ \E n \in Nodes : Handle(n))

FairSpec == Spec /\ Fairness

-----------------------------------------------------------------------------
(***************************************************************************)
(* No false alarm: an incident names at least three nodes (two of a PDU),  *)
(* all of them at the place that it names, and each was struck by a fault  *)
(* within the window, whatever was heard before and by whom.               *)
(***************************************************************************)
Place(kind) == CASE kind = "rack" -> RackOf [] kind = "switch" -> SwitchOf [] OTHER -> PduOf

IncidentsAreReal ==
    \A i \in raised :
        /\ Cardinality(i.nodes) >= IF i.kind = "pdu" THEN 2 ELSE 3
        /\ \A n \in i.nodes : Place(i.kind)[n] = i.where /\ last[n] < Window

(***************************************************************************)
(* No fault takes its toll in silence: a score only falls in the row when  *)
(* an alert about the node has been written, although alert and row are    *)
(* separate writes, either of which may fail; and a save that brings back  *)
(* the score of a node that has recovered meanwhile has alerted as well.   *)
(***************************************************************************)
FaultsAreAlerted ==
    [][\A n \in Nodes :
          score'[n] # score[n] /\ score'[n] < Read(n)
          => \E ch \in Channels : <<n, ch>> \in alerted']_vars

(***************************************************************************)
(* Three critical nodes in a rack are reported as one incident about the   *)
(* rack, as long as the operator is running and enabled and its alerts can *)
(* be written: also after ticks that failed, and after restarts.           *)
(***************************************************************************)
Outage(w) == Cardinality({ n \in Nodes : RackOf[n] = w /\ Critical(n) }) >= 3

OutageIsReported ==
    \A w \in { RackOf[n] : n \in Nodes } \ { "" } :
        Outage(w) ~> \/ \E i \in raised : i.kind = "rack" /\ i.where = w
                     \/ ~Outage(w) \/ ~running \/ ~enabled \/ muted
=============================================================================
