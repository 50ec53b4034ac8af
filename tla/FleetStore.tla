----------------------------- MODULE FleetStore -----------------------------
(***************************************************************************)
(* What the parts of the NLM controller share: the SQLite node table, the  *)
(* GitOps files the controller reads back, and the requests that come in   *)
(* through the REST API (api.py) and the CLI (cli.py).                     *)
(*                                                                         *)
(* FastAPI runs `def' endpoints on a thread pool and every CLI command is  *)
(* a process of its own, so a request is two steps: it reads the row       *)
(* (db.get_node), and later saves its whole copy (db.save_node, an INSERT  *)
(* OR REPLACE), whatever happened to the row in between.  The operators    *)
(* run on the one event loop and hold no await in run_once: two of them    *)
(* never overlap, but requests fall between any two of their database      *)
(* calls.  `phase', `todo' and `snap' are the tick in progress.            *)
(***************************************************************************)
EXTENDS NodeLifecycle, FiniteSets

CONSTANTS
    Nodes,            \* node ids
    Bmaas,            \* the nodes whose environment is BMaaS
    Rack,             \* Rack[n]: the rack of node n
    Seeds,            \* the states the fleet may start in
    Clients,          \* API worker threads and CLI processes
    Cli,              \* the clients that are CLI processes
    ClientRequests,   \* the endpoints the clients call
    ClientTriggers,   \* the triggers the clients use
    ClientPriorities, \* the priorities the clients cordon with
    Commits,          \* the states that people commit to desired-state files
    Operators,        \* the operators that are enabled or triggered
    Overlap,          \* may a request overlap another one or a tick?
    Failures,         \* may a call raise, or the process restart?
    NoRow             \* stands for "nothing read"

ASSUME StoreAssumption ==
    /\ Bmaas \subseteq Nodes
    /\ Seeds \subseteq SeedStates
    /\ Cli \subseteq Clients
    /\ ClientRequests \subseteq { "transition", "cordon", "uncordon", "inject" }
    /\ ClientTriggers \subseteq Trigger
    /\ ClientPriorities \subseteq Priority
    /\ Commits \subseteq State
    /\ Operators \subseteq { "reconciler", "maintenance", "testing" }
    /\ Overlap \in BOOLEAN /\ Failures \in BOOLEAN
    /\ NoRow \notin Row

VARIABLES
    row,        \* row[n]: the row of n in the node table
    desired,    \* desired[n]: spec.desired_state of desired-state/<n>.yml
    maint,      \* maint[n]: the statuses of n's maintenance requests
    timers,     \* the keys of TestingScheduler._testing_since
    req,        \* req[c]: the node client c works on and the row it read
    phase,      \* the part of the tick that runs, "idle" between ticks
    todo,       \* the nodes this part of the tick has still to visit
    snap        \* snap[n]: the operator's in-memory copy of row n

stored == <<row, desired, maint>>
tickVars == <<phase, todo, snap>>
vars == <<row, desired, maint, timers, req, phase, todo, snap>>

-----------------------------------------------------------------------------

Phases == { "idle", "health", "desired", "timeouts", "batch", "stale", "results" }
NoReq == [node |-> "none", copy |-> NoRow]
NoSnap == [n \in Nodes |-> NoRow]

TypeOK ==
    /\ row \in [Nodes -> Row]
    /\ desired \in [Nodes -> State \cup { "none" }]
    /\ maint \in [Nodes -> SUBSET { "awaiting", "approved" }]
    /\ timers \subseteq Nodes
    /\ req \in [Clients -> [node : Nodes, copy : Row] \cup { NoReq }]
    /\ phase \in Phases
    /\ todo \subseteq Nodes
    /\ snap \in [Nodes -> Row \cup { NoRow }]

Init ==
    /\ row \in [Nodes -> UNION { SeedRows(s) : s \in Seeds }]
    /\ desired = [n \in Nodes |-> "none"]
    /\ maint = [n \in Nodes |-> {}]
    /\ timers = {}
    /\ req = [c \in Clients |-> NoReq]
    /\ phase = "idle"
    /\ todo = {}
    /\ snap = NoSnap

Quiet == phase = "idle" /\ \A c \in Clients : req[c] = NoReq

-----------------------------------------------------------------------------
(* Requests of clients *)

\* db.get_node at the head of every endpoint that changes a node
Read(c, n) ==
    /\ req[c] = NoReq
    /\ Overlap \/ Quiet
    /\ req' = [req EXCEPT ![c] = [node |-> n, copy |-> FromDb(row[n])]]
    /\ UNCHANGED <<stored, timers, tickVars>>

\* Client c has read its row and now handles a request of this kind.
Asks(c, kind) == req[c] # NoReq /\ kind \in ClientRequests

\* db.save_node of the client's copy, as the handler left it
Save(c, r) ==
    /\ row' = [row EXCEPT ![req[c].node] = r]
    /\ req' = [req EXCEPT ![c] = NoReq]
    /\ UNCHANGED <<desired, maint, timers, tickVars>>

TransitionNode(c) ==
    /\ Asks(c, "transition")
    /\ \E e \in Transitions :
          /\ e.trigger \in ClientTriggers
          /\ Permitted(req[c].copy, e)
          /\ Save(c, After(req[c].copy, e))

CordonNode(c) ==
    /\ Asks(c, "cordon")
    /\ \E owner \in Callers, prio \in ClientPriorities :
          /\ CordonPermitted(req[c].copy, prio)
          /\ Save(c, Cordoned(req[c].copy, owner, prio))

UncordonNode(c) ==
    /\ Asks(c, "uncordon")
    /\ \E requester \in Callers, force \in BOOLEAN :
          /\ UncordonPermitted(req[c].copy, requester, force)
          /\ Save(c, Uncordoned(req[c].copy))

InjectFault(c) ==
    /\ Asks(c, "inject")
    /\ \E severe \in BOOLEAN : Save(c, Injected(req[c].copy, severe))

\* The request is refused (403), or raises before it saved anything.
Refuse(c) ==
    /\ req[c] # NoReq
    /\ req' = [req EXCEPT ![c] = NoReq]
    /\ UNCHANGED <<stored, timers, tickVars>>

\* A partner or customer edits the request: approved_by set, status moved on.
Approve(n) ==
    /\ "awaiting" \in maint[n]
    /\ maint' = [maint EXCEPT ![n] = (@ \ { "awaiting" }) \cup { "approved" }]
    /\ UNCHANGED <<row, desired, timers, req, tickVars>>

\* Anybody with access to the GitOps repository edits desired-state/<n>.yml.
\* The reconciler reads all files at once: what is committed while it follows
\* them is seen by its next tick, as if it were committed at the end of this one.
CommitDesired(n) ==
    /\ phase # "desired"
    /\ \E s \in Commits : desired' = [desired EXCEPT ![n] = s]
    /\ UNCHANGED <<row, maint, timers, req, tickVars>>

ClientStep ==
    \/ \E c \in Clients :
          \/ \E n \in Nodes : Read(c, n)
          \/ TransitionNode(c) \/ CordonNode(c) \/ UncordonNode(c)
          \/ InjectFault(c) \/ Refuse(c)
    \/ \E n \in Nodes : Approve(n) \/ CommitDesired(n)

-----------------------------------------------------------------------------
(* What the ticks of the three operators have in common *)

\* Operator._tick: any exit of run_once, by return or by exception
EndTick == phase' = "idle" /\ todo' = {} /\ snap' = NoSnap

\* db.list_nodes at the head of run_once; `visit': the rows of interest
Fetched == [n \in Nodes |-> FromDb(row[n])]

BeginTick(op, first, visit) ==
    /\ op \in Operators
    /\ phase = "idle"
    /\ Overlap \/ Quiet
    /\ phase' = first
    /\ todo' = visit
    /\ snap' = Fetched
    /\ UNCHANGED <<stored, timers, req>>

\* Mutant: what was saved is not what run_once goes on with
VisitedByCopy(n, kept) ==
    /\ todo' = todo \ { n }
    /\ UNCHANGED <<phase, snap>>

\* The rest of run_once goes on with `kept' in the place of n.
Visited(n, kept) ==
    /\ todo' = todo \ { n }
    /\ snap' = [snap EXCEPT ![n] = kept]
    /\ UNCHANGED phase

(***************************************************************************)
(* save_node; save_event; _testing_since := started; write_desired_state.  *)
(* Nobody reads the files while a tick of another operator runs, so only   *)
(* the first is visible to others; but an exception after it leaves the    *)
(* remaining ones, and the rest of the tick, undone.  Events are not       *)
(* modelled: no code that acts on a node reads them.                       *)
(***************************************************************************)
Commit(n, r, kept, started) ==
    /\ row' = [row EXCEPT ![n] = r]
    /\ \/ /\ desired' = [desired EXCEPT ![n] = r.state]
          /\ timers' = started
          /\ Visited(n, kept)
       \/ /\ Failures
          /\ timers' \in { timers, started }
          /\ UNCHANGED desired
          /\ EndTick
    /\ UNCHANGED <<maint, req>>

\* An exception that run_once does not catch: counted by _tick, nothing more
TickRaises ==
    /\ Failures
    /\ phase # "idle"
    /\ EndTick
    /\ UNCHANGED <<stored, timers, req>>

\* The controller process dies and starts again; CLI processes live on.
Restart ==
    /\ Failures
    /\ EndTick
    /\ timers' = {}
    /\ req' = [c \in Clients |-> IF c \in Cli THEN req[c] ELSE NoReq]
    /\ UNCHANGED stored
=============================================================================
