-------------------------- MODULE BackendAdapters --------------------------
(***************************************************************************)
(* The adapters between the controller and what runs the machines: BCM and *)
(* MAAS (adapters/bcm.py, adapters/maas.py) and those of adapters.py, for  *)
(* Kubernetes, bare metal and a mock BCM.  An operation is a sequence of   *)
(* commands; only the result of its last command is reported.  A command   *)
(* is done, or refused, or not answered in time: then it may have been     *)
(* done, may never be, or may still be on its way.                         *)
(***************************************************************************)
EXTENDS Naturals, Sequences, FiniteSets

CONSTANTS
    Nodes,      \* node ids
    Callers,    \* threads that use the adapter
    MaxCalls,   \* bound on the number of calls
    Idle        \* stands for "no call"

ASSUME AdaptersAssumption == MaxCalls \in Nat

VARIABLES
    backend,    \* the kind of adapter that get_adapter has returned
    machine,    \* machine[n]: what the backend holds about n
    call,       \* call[c]: the operation caller c is busy with
    late,       \* commands that were given up, but are still on their way
    rebooted,   \* rebooted[n]: what the last reboot of n has reported
    doubted,    \* nodes with a power command that was not answered in time
    told,       \* the report given in this step, or Idle
    calls       \* the number of calls so far

vars == <<backend, machine, call, late, rebooted, doubted, told, calls>>

-----------------------------------------------------------------------------
(* The commands of each operation *)

\* adapters/bcm.py: one cmsh line each, but scontrol before the drain, and five
\* lines for what get_node asks for
BcmPlan(op) ==
    CASE op = "cordon"       -> <<"close">>
      [] op = "uncordon"     -> <<"open">>
      [] op = "drain"        -> <<"slurm_drain", "close">>
      [] op = "reboot"       -> <<"power_reset">>
      [] op = "reimage"      -> <<"imagenode">>
      [] op = "set_metadata" -> <<"note">>
      [] op = "get_node"     -> <<"read", "read", "read", "read", "read">>
      [] OTHER               -> <<"read">>

\* Mutant: a reboot leaves it to MAAS to switch the machine on again
MaasPlanOnlyOff(op) ==
    IF op = "reboot" THEN <<"resolve", "power_off">> ELSE <<"resolve", "read">>

\* adapters/maas.py: the name of the machine is resolved first, but not for a
\* list, or for a command that goes to the node itself by ssh; a drain releases
\* the machine, and a tag is created before it is set.
MaasPlan(op) ==
    (IF op \in { "list_nodes", "exec_command" } THEN << >> ELSE <<"resolve">>) \o
    CASE op = "cordon"       -> <<"close">>
      [] op = "uncordon"     -> <<"open">>
      [] op = "drain"        -> <<"release">>
      [] op = "reboot"       -> <<"power_off", "power_on">>
      [] op = "reimage"      -> <<"deploy">>
      [] op = "set_metadata" -> <<"create_tag", "apply_tag">>
      [] OTHER               -> <<"read">>

\* adapters.py, KubernetesAdapter: kubectl; a drain cordons and then evicts
KubernetesPlan(op) ==
    CASE op = "cordon"       -> <<"close">>
      [] op = "uncordon"     -> <<"open">>
      [] op = "drain"        -> <<"evict">>
      [] op = "reboot"       -> <<"unsupported">>
      [] OTHER               -> <<"read">>

\* adapters.py, BareMetalAdapter in mock mode: nothing but power
BareMetalPlan(op) ==
    IF op = "reboot" THEN <<"power_cycle">> ELSE <<"no_op">>

\* adapters.py, BCMAdapter in mock mode: a dictionary of nodes
MockBcmPlan(op) ==
    CASE op \in { "cordon", "drain" } -> <<"mock_close">>
      [] op = "uncordon"              -> <<"mock_open">>
      [] OTHER                        -> <<"no_op">>

\* The abstract methods of NodeBackend; adapters.py has no others than these.
Operations == { "cordon", "uncordon", "drain", "reboot", "list_nodes", "get_status" }
MoreOperations == Operations \cup { "get_node", "reimage", "set_metadata", "exec_command" }

Offered(kind) == IF kind \in { "bcm", "maas" } THEN MoreOperations ELSE Operations

\* get_adapter: an unknown kind raises
Kinds == { "bcm", "maas", "kubernetes", "bare_metal", "mock_bcm" }

Plan(kind, op) ==
    CASE kind = "bcm"        -> BcmPlan(op)
      [] kind = "maas"       -> MaasPlan(op)
      [] kind = "kubernetes" -> KubernetesPlan(op)
      [] kind = "bare_metal" -> BareMetalPlan(op)
      [] OTHER               -> MockBcmPlan(op)

Remote == backend \in { "bcm", "maas", "kubernetes" }

\* Commands that do not leave the process
Local(cmd) == ~Remote \/ cmd = "unsupported"

\* Commands that change something at a backend
Lasting == { "close", "open", "note", "slurm_drain", "evict", "release", "deploy",
             "imagenode", "power_off", "power_on", "power_reset", "create_tag",
             "apply_tag" }

Commands == Lasting \cup
    { "read", "resolve", "unsupported", "power_cycle", "no_op", "mock_close", "mock_open" }

-----------------------------------------------------------------------------
(* What a command does to a machine *)

Machine == [open  : BOOLEAN,    \* the backend's own flag
            queue : BOOLEAN,    \* Slurm gives the node work
            busy  : BOOLEAN,    \* there are workloads on it, or a deployment
            power : BOOLEAN,
            notes : { "", "cordoned", "uncordoned", "metadata" },
            tagged : { "no", "created", "applied" },
            faults : BOOLEAN,   \* the mock sensors report a fault
            known : BOOLEAN]    \* the mock has heard of the node

NewMachine ==
    [open |-> TRUE, queue |-> TRUE, busy |-> TRUE, power |-> TRUE, notes |-> "",
     tagged |-> "no", faults |-> FALSE, known |-> FALSE]

Noted(m, note) == IF backend = "bcm" THEN [m EXCEPT !.notes = note] ELSE m

Effect(cmd, m) ==
    CASE cmd = "close"       -> Noted([m EXCEPT !.open = FALSE], "cordoned")
      [] cmd = "open"        -> Noted([m EXCEPT !.open = TRUE], "uncordoned")
      [] cmd = "note"        -> Noted(m, "metadata")
      [] cmd = "slurm_drain" -> [m EXCEPT !.queue = FALSE]
      [] cmd = "evict"       -> [m EXCEPT !.open = FALSE, !.busy = FALSE]
      [] cmd = "release"     -> [m EXCEPT !.busy = FALSE]
      [] cmd \in { "deploy", "imagenode" } -> [m EXCEPT !.busy = TRUE]
      [] cmd = "power_off"   -> [m EXCEPT !.power = FALSE]
      [] cmd \in { "power_on", "power_reset" } -> [m EXCEPT !.power = TRUE]
      [] cmd = "power_cycle" -> [m EXCEPT !.power = m.known \/ m.power]
      [] cmd = "create_tag"  -> [m EXCEPT !.tagged = IF @ = "no" THEN "created" ELSE @]
      [] cmd = "apply_tag"   -> [m EXCEPT !.tagged = "applied"]
      [] cmd = "mock_close"  -> [m EXCEPT !.open = FALSE]
      [] cmd = "mock_open"   -> [m EXCEPT !.open = TRUE]
      [] OTHER               -> m

\* Why a command cannot but be refused: the backend does not offer it, the
\* mock does not know the node, the tag does not exist, or the name of the
\* machine has not been resolved.
Refusable(cmd, m, resolved) ==
    \/ cmd = "unsupported"
    \/ cmd \in { "mock_close", "mock_open" } /\ ~m.known
    \/ cmd = "apply_tag" /\ m.tagged = "no"
    \/ ~resolved

-----------------------------------------------------------------------------
(* Calls *)

Call == [node : Nodes, op : MoreOperations, rest : Seq(Commands), resolved : BOOLEAN]
Pending == [node : Nodes, op : MoreOperations]
Report == [node : Nodes, op : MoreOperations, success : BOOLEAN]
Late == [node : Nodes, op : MoreOperations, cmd : Lasting]

ASSUME IdleAssumption == Idle \notin Call \cup Pending

TypeOK ==
    /\ backend \in Kinds
    /\ machine \in [Nodes -> Machine]
    /\ call \in [Callers -> Call \cup { Idle }]
    /\ \A c \in Callers : call[c] # Idle => call[c].rest # <<>>
    /\ late \subseteq Late
    /\ rebooted \in [Nodes -> BOOLEAN]
    /\ doubted \subseteq Nodes
    /\ told \in Report \cup { Idle }
    /\ calls \in 0..MaxCalls

Init ==
    /\ backend \in Kinds
    /\ machine = [n \in Nodes |-> NewMachine]
    /\ call = [c \in Callers |-> Idle]
    /\ late = {}
    /\ rebooted = [n \in Nodes |-> TRUE]
    /\ doubted = {}
    /\ told = Idle
    /\ calls = 0

Start(c, n, op) ==
    /\ call[c] = Idle /\ calls < MaxCalls
    /\ op \in Offered(backend)
    /\ call' = [call EXCEPT ![c] =
          [node |-> n, op |-> op, rest |-> Plan(backend, op), resolved |-> TRUE]]
    /\ calls' = calls + 1
    /\ told' = Idle
    /\ UNCHANGED <<backend, machine, late, rebooted, doubted>>

Command(c) == Head(call[c].rest)

\* Mutant: the last command is followed by another step
EndsBeyond(k, success) == k.rest = <<>>

\* Mutant: an operation ends once one of its commands has succeeded
EndsEarly(k, success) == Tail(k.rest) = <<>> \/ (success /\ Head(k.rest) # "resolve")

\* The result of a command is passed over, unless the command is the last.
Ends(k, success) == Tail(k.rest) = <<>>

Proceed(c, success) ==
    LET k == call[c]
    IN  \/ /\ Ends(k, success)
           /\ call' = [call EXCEPT ![c] = Idle]
           /\ told' = [node |-> k.node, op |-> k.op, success |-> success]
           /\ rebooted' = [rebooted EXCEPT ![k.node] = IF k.op = "reboot" THEN success ELSE @]
        \/ /\ ~Ends(k, success)
           /\ call' = [call EXCEPT ![c].rest = Tail(@),
                                   ![c].resolved = @ /\ (success \/ Command(c) # "resolve")]
           /\ told' = Idle
           /\ UNCHANGED rebooted

\* The command succeeds.
Done(c) ==
    /\ call[c] # Idle
    /\ ~Refusable(Command(c), machine[call[c].node], call[c].resolved)
    /\ machine' = [machine EXCEPT ![call[c].node] = Effect(Command(c), @)]
    /\ Proceed(c, TRUE)
    /\ UNCHANGED <<backend, late, doubted, calls>>

\* The command is refused, for one of those reasons or another.
Refused(c) ==
    /\ call[c] # Idle
    /\ Remote \/ Refusable(Command(c), machine[call[c].node], call[c].resolved)
    /\ Proceed(c, FALSE)
    /\ UNCHANGED <<backend, machine, late, doubted, calls>>

\* What a command may have done to a machine by the time it is given up: an
\* eviction begins with a cordon.
Reached(cmd, m) ==
    { m, Effect(cmd, m) } \cup { x \in { [m EXCEPT !.open = FALSE] } : cmd = "evict" }

\* Mutant: no time limit
TimedOutAgain(c) == call[c] # Idle /\ ~Local(Command(c)) /\ UNCHANGED vars

\* Mutant: what was sent is taken for done
GivenUpIsSuccess == TRUE

\* What a command that is given up counts for
GivenUp == FALSE

\* The adapter waits no longer; the command has got somewhere, or goes on.
TimedOut(c) ==
    /\ call[c] # Idle
    /\ ~Local(Command(c))
    /\ LET n == call[c].node
           cmd == Command(c)
       IN  \/ /\ \E m \in IF Refusable(cmd, machine[n], call[c].resolved)
                         THEN { machine[n] } ELSE Reached(cmd, machine[n]) :
                    machine' = [machine EXCEPT ![n] = m]
              /\ UNCHANGED late
           \/ /\ cmd \in Lasting /\ call[c].resolved
              /\ late' = late \cup { [node |-> n, op |-> call[c].op, cmd |-> cmd] }
              /\ UNCHANGED machine
    /\ doubted' = doubted \cup { n \in { call[c].node } : Command(c) = "power_off" }
    /\ Proceed(c, GivenUp)
    /\ UNCHANGED <<backend, calls>>

\* A command that was given up arrives after all.
Strike(l) ==
    /\ machine' = [machine EXCEPT ![l.node] = Effect(l.cmd, @)]
    /\ late' = late \ { l }
    /\ told' = Idle
    /\ UNCHANGED <<backend, call, rebooted, doubted, calls>>

\* register_mock_node, which also resets what the mock holds about the node
Register(n) ==
    /\ ~Remote
    /\ machine' = [machine EXCEPT ![n] = [NewMachine EXCEPT !.known = TRUE]]
    /\ told' = Idle
    /\ UNCHANGED <<backend, call, late, rebooted, doubted, calls>>

\* BareMetalAdapter.inject_fault; a reboot does not clear the sensors.
InjectFault(n, off) ==
    /\ backend = "bare_metal"
    /\ machine' = [machine EXCEPT ![n] =
          [machine[n] EXCEPT !.known = TRUE, !.faults = TRUE, !.power = @ /\ ~off]]
    /\ told' = Idle
    /\ UNCHANGED <<backend, call, late, rebooted, doubted, calls>>

Next ==
    \/ \E c \in Callers :
          \/ \E n \in Nodes, op \in MoreOperations : Start(c, n, op)
          \/ Done(c) \/ Refused(c) \/ TimedOut(c)
    \/ \E l \in late : Strike(l)
    \/ \E n \in Nodes : Register(n) \/ \E off \in BOOLEAN : InjectFault(n, off)

Spec == Init /\ [][Next]_vars

\* Every command is given up in time; the calls that never leave the process
\* need no time limit.
LocalStep(c) == call[c] # Idle /\ Local(Command(c)) /\ (Done(c) \/ Refused(c))

Fairness == \A c \in Callers : WF_vars(TimedOut(c) \/ LocalStep(c))

FairSpec == Spec /\ Fairness

-----------------------------------------------------------------------------
(***************************************************************************)
(* An operation that reports success has done what it is for, when it      *)
(* returns: although only the last of its commands counts, and although    *)
(* others call the adapter or commands they gave up arrive meanwhile.      *)
(* (Bare metal has no cordon of its own, and of a drain BCM only promises  *)
(* its own flag, not that of Slurm.)                                       *)
(***************************************************************************)
Achieved(op, m) ==
    CASE op = "cordon"       -> ~m.open \/ backend = "bare_metal"
      [] op = "uncordon"     -> m.open
      [] op = "drain"        -> /\ backend \in { "bcm", "kubernetes", "mock_bcm" } => ~m.open
                                /\ backend \in { "maas", "kubernetes" } => ~m.busy
      [] op = "reboot"       -> m.power
      [] op = "reimage"      -> m.busy
      [] op = "set_metadata" -> m.notes = "metadata" \/ m.tagged = "applied"
      [] OTHER               -> TRUE

SuccessMeansDone ==
    told # Idle => (told.success => Achieved(told.op, machine[told.node]))

(***************************************************************************)
(* A machine is not left switched off behind its caller's back: it is off  *)
(* only in the middle of a reboot, or after one that reported failure, or  *)
(* because of a fault, or where a power_off of MAAS that was given up may  *)
(* have arrived after the power_on.                                        *)
(***************************************************************************)
SwitchingOn(n) == \E c \in Callers :
    call[c] # Idle /\ call[c].node = n /\ call[c].rest = <<"power_on">>

PowerIsAccounted ==
    \A n \in Nodes :
        ~machine[n].power =>
            SwitchingOn(n) \/ ~rebooted[n] \/ n \in doubted \/ machine[n].faults

(***************************************************************************)
(* Every call returns, even if the backend never answers: each command has *)
(* a time limit.                                                           *)
(***************************************************************************)
EveryCallReturns == \A c \in Callers : call[c] # Idle ~> call[c] = Idle

(***************************************************************************)
(* The adapters that reach a backend keep the contract of NodeBackend on   *)
(* cordons, commands that arrive late included.  The adapters in mock mode *)
(* stay out of it: bare metal leaves cordons to the controller's own row,  *)
(* and registering a node with the mock BCM opens it.                      *)
(***************************************************************************)
Wanted(k) == [node |-> k.node, op |-> k.op]

Opened == [n \in Nodes |-> machine[n].open \/ ~Remote]
Waiting == [c \in Callers |-> IF call[c] = Idle \/ ~Remote THEN Idle ELSE Wanted(call[c])]
Reported == IF Remote THEN told ELSE Idle
Abroad == { Wanted(l) : l \in { x \in late : x.cmd \in { "open", "close", "evict" } } }

Contract == INSTANCE BackendContract WITH
    Operations <- MoreOperations, open <- Opened, pending <- Waiting,
    abroad <- Abroad, report <- Reported

KeepsContract == Contract!Spec
=============================================================================
