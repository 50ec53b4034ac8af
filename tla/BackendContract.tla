-------------------------- MODULE BackendContract --------------------------
(***************************************************************************)
(* What adapters/base.py promises of every backend, as far as the cordon   *)
(* of a node goes: a call that reports success has taken effect when it    *)
(* returns; a call that reports failure has taken effect, or never will,   *)
(* or is abroad and still may.                                             *)
(***************************************************************************)
CONSTANTS Nodes, Callers, Operations, Idle

VARIABLES
    open,       \* open[n]: the backend lets workloads start on n
    pending,    \* pending[c]: the operation caller c waits for, with its node
    abroad,     \* the failed operations that may still take effect
    report      \* what the caller was told that has just returned, or Idle

Init ==
    /\ report = Idle
    /\ open \in [Nodes -> BOOLEAN]
    /\ pending = [c \in Callers |-> Idle]
    /\ abroad = {}

\* What an operation may make of a node's flag.  A backend may close a node
\* in order to drain it.
Outcomes(op, flag) ==
    CASE op = "cordon"   -> { FALSE }
      [] op = "uncordon" -> { TRUE }
      [] op = "drain"    -> { FALSE, flag }
      [] OTHER           -> { flag }

Calls(c, n, op) ==
    /\ pending[c] = Idle
    /\ pending' = [pending EXCEPT ![c] = [node |-> n, op |-> op]]
    /\ report' = Idle
    /\ UNCHANGED <<open, abroad>>

TakesEffect(p) ==
    \E flag \in Outcomes(p.op, open[p.node]) : open' = [open EXCEPT ![p.node] = flag]

Returns(c, success) ==
    /\ pending[c] # Idle
    /\ pending' = [pending EXCEPT ![c] = Idle]
    /\ report' = [node |-> pending[c].node, op |-> pending[c].op, success |-> success]

Succeeds(c) ==
    /\ Returns(c, TRUE)
    /\ TakesEffect(pending[c])
    /\ UNCHANGED abroad

Fails(c) ==
    /\ Returns(c, FALSE)
    /\ \/ TakesEffect(pending[c]) /\ UNCHANGED abroad
       \/ UNCHANGED open /\ abroad' \in { abroad, abroad \cup { pending[c] } }

Strikes(p) ==
    /\ TakesEffect(p)
    /\ abroad' = abroad \ { p }
    /\ report' = Idle
    /\ UNCHANGED pending

\* Something that is none of the contract's goes on.
Passes ==
    /\ report' = Idle
    /\ UNCHANGED <<open, pending, abroad>>

Next ==
    \/ Passes
    \/ \E c \in Callers :
          \/ \E n \in Nodes, op \in Operations : Calls(c, n, op)
          \/ Succeeds(c) \/ Fails(c)
    \/ \E p \in abroad : Strikes(p)

Spec == Init /\ [][Next]_<<open, pending, abroad, report>>
=============================================================================
