----------------------- MODULE BackendAdaptersProofs ------------------------
(***************************************************************************)
(* Theorems about the backend adapters, for every set of machines and of   *)
(* callers and any number of calls.  The plan of an operation is followed  *)
(* through to its last command, the only one whose result is reported:     *)
(* what is left of it always fits (Fits), and a command that arrives late  *)
(* either is such a last command, or touches no flag of the contract.      *)
(***************************************************************************)
EXTENDS BackendAdapters, SequenceTheorems, TLAPS

\* The command that an operation ends with
Last(kind, op) ==
    IF kind = "bare_metal"
    THEN IF op = "reboot" THEN "power_cycle" ELSE "no_op"
    ELSE IF kind = "mock_bcm"
    THEN CASE op \in { "cordon", "drain" } -> "mock_close"
           [] op = "uncordon"              -> "mock_open"
           [] OTHER                        -> "no_op"
    ELSE CASE op = "cordon"       -> "close"
           [] op = "uncordon"     -> "open"
           [] op = "drain"        -> CASE kind = "bcm"  -> "close"
                                       [] kind = "maas" -> "release"
                                       [] OTHER         -> "evict"
           [] op = "reboot"       -> CASE kind = "bcm"  -> "power_reset"
                                       [] kind = "maas" -> "power_on"
                                       [] OTHER         -> "unsupported"
           [] op = "reimage"      -> IF kind = "bcm" THEN "imagenode" ELSE "deploy"
           [] op = "set_metadata" -> IF kind = "bcm" THEN "note" ELSE "apply_tag"
           [] OTHER               -> "read"

\* What is left of an operation
Fits(kind, op, s) ==
    /\ s \in Seq(Commands)
    /\ Len(s) # 0
    /\ s[Len(s)] = Last(kind, op)
    /\ \A i \in 1..(Len(s) - 1) :
          /\ s[i] \in { "resolve", "slurm_drain", "read", "create_tag", "power_off" }
          /\ s[i] = "power_off" => i = Len(s) - 1 /\ kind = "maas" /\ op = "reboot"

\* A command before, or none
LEMMA Prefixed ==
    ASSUME NEW x, NEW y, NEW z
    PROVE  /\ <<x>> \o <<y>> = <<x, y>>
           /\ <<x>> \o <<y, z>> = <<x, y, z>>
           /\ <<>> \o <<y>> = <<y>>
<1> DEFINE S == { x, y, z }
<1>1. <<x>> \in Seq(S) /\ <<y>> \in Seq(S) /\ <<y, z>> \in Seq(S)
    OBVIOUS
<1>2. <<x, y>> \in Seq(S) /\ <<x, y, z>> \in Seq(S)
    OBVIOUS
<1>3. <<x>> \o <<y>> \in Seq(S) /\ Len(<<x>> \o <<y>>) = 2
      /\ \A i \in 1..2 : (<<x>> \o <<y>>)[i] = <<x, y>>[i]
    BY <1>1, ConcatProperties
<1>4. <<x>> \o <<y, z>> \in Seq(S) /\ Len(<<x>> \o <<y, z>>) = 3
      /\ \A i \in 1..3 : (<<x>> \o <<y, z>>)[i] = <<x, y, z>>[i]
    BY <1>1, ConcatProperties
<1>5. <<>> \o <<y>> = <<y>>
    BY <1>1, ConcatEmptySeq
<1>6. <<x>> \o <<y>> = <<x, y>>
    BY <1>2, <1>3, SeqEqual
<1>7. <<x>> \o <<y, z>> = <<x, y, z>>
    BY <1>2, <1>4, SeqEqual
<1> QED BY <1>5, <1>6, <1>7

\* An operation of one command fits, ...
LEMMA OneCommand ==
    ASSUME NEW kind, NEW op, Last(kind, op) \in Commands
    PROVE  Fits(kind, op, << Last(kind, op) >>)
<1> DEFINE x == Last(kind, op)
<1> HIDE DEF x
<1>1. <<x>> \in Seq(Commands) /\ Len(<<x>>) = 1 /\ <<x>>[1] = x
    BY DEF x
<1> QED BY <1>1 DEF Fits, x

\* ... one of two does, ...
LEMMA TwoCommands ==
    ASSUME NEW kind, NEW op, Last(kind, op) \in Commands,
           NEW first \in { "resolve", "slurm_drain" }
    PROVE  Fits(kind, op, << first, Last(kind, op) >>)
<1> DEFINE x == Last(kind, op)
<1>1. first \in Commands
    BY DEF Commands, Lasting
<1> HIDE DEF x
<1>2. /\ <<first, x>> \in Seq(Commands) /\ Len(<<first, x>>) = 2
      /\ <<first, x>>[1] = first /\ <<first, x>>[2] = x
    BY <1>1 DEF x
<1> QED BY <1>2 DEF Fits, x

\* ... and ends with a command.
LEMMA LastIsCommand ==
    ASSUME NEW kind \in Kinds, NEW op \in MoreOperations
    PROVE  Last(kind, op) \in Commands
<1>1. CASE kind \in { "bare_metal", "mock_bcm" }
    BY <1>1 DEF Last, Commands, Lasting
<1>2. CASE kind \notin { "bare_metal", "mock_bcm" } /\ op \in { "cordon", "uncordon", "drain" }
    BY <1>2 DEF Last, Commands, Lasting
<1>3. CASE /\ kind \notin { "bare_metal", "mock_bcm" }
           /\ op \notin { "cordon", "uncordon", "drain" }
    BY <1>3 DEF Last, Commands, Lasting
<1> QED BY <1>1, <1>2, <1>3

\* The plan of every operation of adapters/bcm.py fits.
LEMMA BcmFits ==
    ASSUME NEW op \in MoreOperations
    PROVE  Fits("bcm", op, BcmPlan(op))
<1>1. Last("bcm", op) \in Commands
    BY LastIsCommand DEF Kinds
<1>2. CASE op = "drain"
  <2>1. BcmPlan(op) = << "slurm_drain", Last("bcm", op) >>
      BY <1>2 DEF BcmPlan, Last
  <2> QED BY <1>1, <2>1, TwoCommands
<1>3. CASE op = "get_node"
    BY <1>3 DEF Fits, BcmPlan, Last, Commands, Lasting
<1>4. CASE op \notin { "drain", "get_node" }
  <2>1. BcmPlan(op) = << Last("bcm", op) >>
      BY <1>4 DEF BcmPlan, Last
  <2> QED BY <1>1, <2>1, OneCommand
<1> QED BY <1>2, <1>3, <1>4

\* The plan of every operation of adapters/maas.py fits, the prefix included.
LEMMA MaasFits ==
    ASSUME NEW op \in MoreOperations
    PROVE  Fits("maas", op, MaasPlan(op))
<1>1. Last("maas", op) \in Commands
    BY LastIsCommand DEF Kinds
<1>2. CASE op = "reboot"
  <2>1. MaasPlan(op) = <<"resolve">> \o <<"power_off", "power_on">>
      BY <1>2 DEF MaasPlan
  <2>2. MaasPlan(op) = <<"resolve", "power_off", "power_on">>
      BY <2>1, Prefixed
  <2>3. Last("maas", op) = "power_on"
      BY <1>2 DEF Last
  <2> DEFINE s == <<"resolve", "power_off", "power_on">>
  <2>4. /\ s \in Seq(Commands) /\ Len(s) = 3
        /\ s[1] = "resolve" /\ s[2] = "power_off" /\ s[3] = "power_on"
      BY DEF Commands, Lasting
  <2> HIDE DEF s
  <2>5. Fits("maas", op, s)
      BY <1>2, <2>3, <2>4 DEF Fits
  <2> QED BY <2>2, <2>5 DEF s
<1>3. CASE op = "set_metadata"
  <2>1. MaasPlan(op) = <<"resolve">> \o <<"create_tag", "apply_tag">>
      BY <1>3 DEF MaasPlan
  <2>2. MaasPlan(op) = <<"resolve", "create_tag", "apply_tag">>
      BY <2>1, Prefixed
  <2>3. Last("maas", op) = "apply_tag"
      BY <1>3 DEF Last
  <2> DEFINE s == <<"resolve", "create_tag", "apply_tag">>
  <2>4. /\ s \in Seq(Commands) /\ Len(s) = 3
        /\ s[1] = "resolve" /\ s[2] = "create_tag" /\ s[3] = "apply_tag"
      BY DEF Commands, Lasting
  <2> HIDE DEF s
  <2>5. Fits("maas", op, s)
      BY <1>3, <2>3, <2>4 DEF Fits
  <2> QED BY <2>2, <2>5 DEF s
<1>4. CASE op \in { "list_nodes", "exec_command" }
  <2>1. MaasPlan(op) = << Last("maas", op) >>
      BY <1>4, Prefixed DEF MaasPlan, Last
  <2> QED BY <1>1, <2>1, OneCommand
<1>5. CASE op \in { "cordon", "uncordon", "drain", "reimage", "get_status", "get_node" }
  <2>1. MaasPlan(op) = <<"resolve">> \o << Last("maas", op) >>
      BY <1>5 DEF MaasPlan, Last
  <2>2. MaasPlan(op) = << "resolve", Last("maas", op) >>
      BY <2>1, Prefixed
  <2> QED BY <1>1, <2>2, TwoCommands
<1> QED BY <1>2, <1>3, <1>4, <1>5 DEF MoreOperations, Operations

\* Each plan ends with the command that is meant by Last.
LEMMA PlanFits ==
    ASSUME NEW kind \in Kinds, NEW op \in Offered(kind)
    PROVE  Fits(kind, op, Plan(kind, op))
<1>1. op \in MoreOperations /\ (kind \notin { "bcm", "maas" } => op \in Operations)
    BY DEF Offered, MoreOperations
<1>2. Last(kind, op) \in Commands
    BY <1>1, LastIsCommand
<1>3. CASE kind = "bcm"
    BY <1>1, <1>3, BcmFits DEF Plan
<1>4. CASE kind = "maas"
    BY <1>1, <1>4, MaasFits DEF Plan
<1>5. CASE kind \in { "kubernetes", "bare_metal", "mock_bcm" }
  <2>1. Plan(kind, op) = << Last(kind, op) >>
    <3>1. CASE kind = "kubernetes"
        BY <1>1, <3>1 DEF Plan, KubernetesPlan, Last, Operations
    <3>2. CASE kind = "bare_metal"
      <4>1. CASE op = "reboot"
          BY <3>2, <4>1 DEF Plan, BareMetalPlan, Last
      <4>2. CASE op # "reboot"
          BY <3>2, <4>2 DEF Plan, BareMetalPlan, Last
      <4> QED BY <4>1, <4>2
    <3>3. CASE kind = "mock_bcm"
      <4>1. Plan(kind, op) = MockBcmPlan(op)
          BY <3>3 DEF Plan
      <4>2. CASE op \in { "cordon", "drain" }
          BY <3>3, <4>1, <4>2 DEF MockBcmPlan, Last
      <4>3. CASE op = "uncordon"
          BY <3>3, <4>1, <4>3 DEF MockBcmPlan, Last
      <4>4. CASE op \notin { "cordon", "drain", "uncordon" }
          BY <3>3, <4>1, <4>4 DEF MockBcmPlan, Last
      <4> QED BY <4>2, <4>3, <4>4
    <3> QED BY <1>5, <3>1, <3>2, <3>3
  <2> QED BY <1>2, <2>1, OneCommand
<1> QED BY <1>3, <1>4, <1>5 DEF Kinds

\* Head and tail of a sequence that is not empty
LEMMA Parts ==
    ASSUME NEW S, NEW s \in Seq(S), Len(s) # 0
    PROVE  /\ Head(s) = s[1] /\ s[1] \in S
           /\ Tail(s) \in Seq(S) /\ Len(Tail(s)) = Len(s) - 1
           /\ \A i \in 1..(Len(s) - 1) : Tail(s)[i] = s[i + 1]
           /\ Tail(s) = <<>> <=> Len(s) = 1
           /\ Len(s) \in Nat
<1>1. s # <<>>
    OBVIOUS
<1>2. /\ Tail(s) \in Seq(S) /\ Len(Tail(s)) = Len(s) - 1 /\ Len(s) \in Nat
      /\ Head(s) = s[1] /\ s[1] \in S
      /\ \A i \in 1..(Len(s) - 1) : Tail(s)[i] = s[i + 1]
    BY <1>1, HeadTailProperties, LenProperties
<1>3. ASSUME NEW t \in Seq(S) PROVE t = <<>> <=> Len(t) = 0
    BY EmptySeq
<1>4. Tail(s) = <<>> <=> Len(Tail(s)) = 0
    BY <1>2, <1>3
<1> QED BY <1>2, <1>4

\* What is left of length one
LEMMA OnlyOne ==
    ASSUME NEW S, NEW s \in Seq(S), Len(s) = 1
    PROVE  s = << s[1] >>
OBVIOUS

\* When a command is over, what is left of the operation still fits.
LEMMA TailFits ==
    ASSUME NEW kind, NEW op, NEW s, Fits(kind, op, s), Tail(s) # <<>>
    PROVE  /\ Fits(kind, op, Tail(s))
           /\ Head(s) \in { "resolve", "slurm_drain", "read", "create_tag", "power_off" }
           /\ Head(s) = "power_off" =>
                Len(Tail(s)) = 1 /\ kind = "maas" /\ op = "reboot"
<1> DEFINE t == Tail(s)
<1>1. /\ Head(s) = s[1] /\ t \in Seq(Commands) /\ Len(t) = Len(s) - 1 /\ Len(s) \in Nat
      /\ \A i \in 1..(Len(s) - 1) : t[i] = s[i + 1]
      /\ Len(s) # 1 /\ Len(s) # 0
    BY Parts DEF Fits
<1>2. t[Len(t)] = s[Len(s)]
    BY <1>1
<1>3. \A i \in 1..(Len(t) - 1) : t[i] = s[i + 1] /\ i + 1 \in 1..(Len(s) - 1)
    BY <1>1
<1>4. 1 \in 1..(Len(s) - 1)
    BY <1>1
<1> HIDE DEF t
<1>5. Fits(kind, op, t)
  <2>1. /\ s[Len(s)] = Last(kind, op)
        /\ \A i \in 1..(Len(s) - 1) :
              /\ s[i] \in { "resolve", "slurm_drain", "read", "create_tag", "power_off" }
              /\ s[i] = "power_off" => i = Len(s) - 1 /\ kind = "maas" /\ op = "reboot"
      BY DEF Fits
  <2>2. ASSUME NEW i \in 1..(Len(t) - 1)
        PROVE  /\ t[i] \in { "resolve", "slurm_drain", "read", "create_tag", "power_off" }
               /\ t[i] = "power_off" => i = Len(t) - 1 /\ kind = "maas" /\ op = "reboot"
    <3>1. t[i] = s[i + 1] /\ i + 1 \in 1..(Len(s) - 1)
        BY <1>3
    <3>2. i + 1 = Len(s) - 1 => i = Len(t) - 1
        BY <1>1
    <3> QED BY <2>1, <3>1, <3>2
  <2> QED BY <1>1, <1>2, <2>1, <2>2 DEF Fits
<1> QED BY <1>1, <1>4, <1>5 DEF Fits, t

\* The only command left is the last one.
LEMMA HeadFits ==
    ASSUME NEW kind, NEW op, NEW s, Fits(kind, op, s), Tail(s) = <<>>
    PROVE  Head(s) = Last(kind, op)
BY Parts DEF Fits

\* An operation that ends with a power_on is a reboot by MAAS.
LEMMA PowerOnEndsReboot ==
    ASSUME NEW kind, NEW op, Last(kind, op) = "power_on"
    PROVE  kind = "maas" /\ op = "reboot"
BY DEF Last

-----------------------------------------------------------------------------
(* What a command does *)

\* What the invariants ask of the effect of a command
LEMMA EffectFacts ==
    ASSUME NEW m \in Machine, NEW cmd \in Commands
    PROVE  /\ Effect(cmd, m) \in Machine
           /\ Effect(cmd, m).faults = m.faults /\ Effect(cmd, m).known = m.known
           /\ Effect(cmd, m).open <=>
                \/ cmd \in { "open", "mock_open" }
                \/ cmd \notin { "close", "evict", "mock_close" } /\ m.open
           /\ Effect(cmd, m).power <=>
                \/ cmd \in { "power_on", "power_reset" }
                \/ cmd = "power_cycle" /\ m.known
                \/ cmd # "power_off" /\ m.power
           /\ cmd \in { "evict", "release" } => ~Effect(cmd, m).busy
           /\ cmd \in { "deploy", "imagenode" } => Effect(cmd, m).busy
           /\ cmd = "note" /\ backend = "bcm" => Effect(cmd, m).notes = "metadata"
           /\ cmd = "apply_tag" => Effect(cmd, m).tagged = "applied"
<1>1. CASE cmd \in { "close", "open", "note" }
  <2>1. CASE backend = "bcm"
    <3>1. CASE cmd = "close"
        BY <2>1, <3>1 DEF Effect, Noted, Machine
    <3>2. CASE cmd = "open"
        BY <2>1, <3>2 DEF Effect, Noted, Machine
    <3>3. CASE cmd = "note"
        BY <2>1, <3>3 DEF Effect, Noted, Machine
    <3> QED BY <1>1, <3>1, <3>2, <3>3
  <2>2. CASE backend # "bcm"
    <3>1. CASE cmd = "close"
        BY <2>2, <3>1 DEF Effect, Noted, Machine
    <3>2. CASE cmd = "open"
        BY <2>2, <3>2 DEF Effect, Noted, Machine
    <3>3. CASE cmd = "note"
        BY <2>2, <3>3 DEF Effect, Noted, Machine
    <3> QED BY <1>1, <3>1, <3>2, <3>3
  <2> QED BY <2>1, <2>2
<1>2. CASE cmd = "slurm_drain"
  <2>1. Effect(cmd, m) = [m EXCEPT !.queue = FALSE]
      BY <1>2 DEF Effect
  <2> QED BY <1>2, <2>1 DEF Machine
<1>3. CASE cmd = "evict"
  <2>1. Effect(cmd, m) = [m EXCEPT !.open = FALSE, !.busy = FALSE]
      BY <1>3 DEF Effect
  <2> QED BY <1>3, <2>1 DEF Machine
<1>4. CASE cmd = "release"
  <2>1. Effect(cmd, m) = [m EXCEPT !.busy = FALSE]
      BY <1>4 DEF Effect
  <2> QED BY <1>4, <2>1 DEF Machine
<1>5. CASE cmd \in { "deploy", "imagenode" }
  <2>1. Effect(cmd, m) = [m EXCEPT !.busy = TRUE]
      BY <1>5 DEF Effect
  <2> QED BY <1>5, <2>1 DEF Machine
<1>6. CASE cmd = "power_off"
  <2>1. Effect(cmd, m) = [m EXCEPT !.power = FALSE]
      BY <1>6 DEF Effect
  <2> QED BY <1>6, <2>1 DEF Machine
<1>7. CASE cmd \in { "power_on", "power_reset" }
  <2>1. Effect(cmd, m) = [m EXCEPT !.power = TRUE]
      BY <1>7 DEF Effect
  <2> QED BY <1>7, <2>1 DEF Machine
<1>8. CASE cmd = "power_cycle"
  <2>1. Effect(cmd, m) = [m EXCEPT !.power = m.known \/ m.power]
      BY <1>8 DEF Effect
  <2> QED BY <1>8, <2>1 DEF Machine
<1>9. CASE cmd = "create_tag"
  <2>1. Effect(cmd, m) = [m EXCEPT !.tagged = IF @ = "no" THEN "created" ELSE @]
      BY <1>9 DEF Effect
  <2> QED BY <1>9, <2>1 DEF Machine
<1>10. CASE cmd = "apply_tag"
  <2>1. Effect(cmd, m) = [m EXCEPT !.tagged = "applied"]
      BY <1>10 DEF Effect
  <2> QED BY <1>10, <2>1 DEF Machine
<1>11. CASE cmd = "mock_close"
  <2>1. Effect(cmd, m) = [m EXCEPT !.open = FALSE]
      BY <1>11 DEF Effect
  <2> QED BY <1>11, <2>1 DEF Machine
<1>12. CASE cmd = "mock_open"
  <2>1. Effect(cmd, m) = [m EXCEPT !.open = TRUE]
      BY <1>12 DEF Effect
  <2> QED BY <1>12, <2>1 DEF Machine
<1>13. CASE cmd \in { "read", "resolve", "unsupported", "no_op" }
  <2>1. Effect(cmd, m) = m
      BY <1>13 DEF Effect
  <2> QED BY <1>13, <2>1 DEF Machine
<1> QED BY <1>1, <1>2, <1>3, <1>4, <1>5, <1>6, <1>7,
           <1>8, <1>9, <1>10, <1>11, <1>12, <1>13 DEF Commands, Lasting

\* What the mocks hold, and which machines can be off at all
Sensible(m) ==
    /\ backend = "bare_metal" => m.open /\ (~m.power => m.faults) /\ (m.faults => m.known)
    /\ backend \notin { "maas", "bare_metal" } => m.power

\* The last command of an operation achieves what it is for.
LEMMA LastAchieves ==
    ASSUME backend \in Kinds, NEW op \in Offered(backend), NEW m \in Machine, Sensible(m),
           Last(backend, op) # "unsupported"
    PROVE  Achieved(op, Effect(Last(backend, op), m))
<1> DEFINE cmd == Last(backend, op)
           q == Effect(cmd, m)
<1>1. op \in MoreOperations /\ (backend \notin { "bcm", "maas" } => op \in Operations)
    BY DEF Offered, MoreOperations
<1>2. cmd \in Commands
    BY <1>1, LastIsCommand
<1>3. /\ q.open <=> \/ cmd \in { "open", "mock_open" }
                    \/ cmd \notin { "close", "evict", "mock_close" } /\ m.open
      /\ q.power <=> \/ cmd \in { "power_on", "power_reset" }
                     \/ cmd = "power_cycle" /\ m.known
                     \/ cmd # "power_off" /\ m.power
      /\ cmd \in { "evict", "release" } => ~q.busy
      /\ cmd \in { "deploy", "imagenode" } => q.busy
      /\ cmd = "note" /\ backend = "bcm" => q.notes = "metadata"
      /\ cmd = "apply_tag" => q.tagged = "applied"
    BY <1>2, EffectFacts
<1> HIDE DEF q
<1>4. CASE op = "cordon"
  <2>1. cmd = "close" \/ cmd = "mock_close" \/ backend = "bare_metal"
      BY <1>4 DEF Last, Kinds
  <2>2. ~q.open \/ backend = "bare_metal"
      BY <1>3, <2>1
  <2> QED BY <1>4, <2>2 DEF Achieved, q
<1>5. CASE op = "uncordon"
  <2>1. cmd = "open" \/ cmd = "mock_open" \/ (backend = "bare_metal" /\ cmd = "no_op")
      BY <1>5 DEF Last, Kinds
  <2>2. q.open
      BY <1>3, <2>1 DEF Sensible
  <2> QED BY <1>5, <2>2 DEF Achieved, q
<1>6. CASE op = "drain"
  <2>1. /\ backend = "bcm" => cmd = "close"
        /\ backend = "maas" => cmd = "release"
        /\ backend = "kubernetes" => cmd = "evict"
        /\ backend = "mock_bcm" => cmd = "mock_close"
      BY <1>6 DEF Last
  <2>2. /\ backend \in { "bcm", "kubernetes", "mock_bcm" } => ~q.open
        /\ backend \in { "maas", "kubernetes" } => ~q.busy
      BY <1>3, <2>1
  <2> QED BY <1>6, <2>2 DEF Achieved, q
<1>7. CASE op = "reboot"
  <2>1. /\ backend = "bcm" => cmd = "power_reset"
        /\ backend = "maas" => cmd = "power_on"
        /\ backend # "kubernetes"
        /\ backend = "bare_metal" => cmd = "power_cycle"
        /\ backend = "mock_bcm" => cmd = "no_op"
      BY <1>7 DEF Last, Kinds
  <2>2. q.power
      BY <1>3, <2>1 DEF Sensible, Kinds
  <2> QED BY <1>7, <2>2 DEF Achieved, q
<1>8. CASE op = "reimage"
  <2>1. cmd \in { "imagenode", "deploy" }
      BY <1>1, <1>8 DEF Last, Operations
  <2>2. q.busy
      BY <1>3, <2>1
  <2> QED BY <1>8, <2>2 DEF Achieved, q
<1>9. CASE op = "set_metadata"
  <2>1. (backend = "bcm" /\ cmd = "note") \/ cmd = "apply_tag"
      BY <1>1, <1>9 DEF Last, Operations
  <2>2. q.notes = "metadata" \/ q.tagged = "applied"
      BY <1>3, <2>1
  <2> QED BY <1>9, <2>2 DEF Achieved, q
<1>10. CASE op \in { "list_nodes", "get_status", "get_node", "exec_command" }
    BY <1>10 DEF Achieved
<1> QED
    BY <1>1, <1>4, <1>5, <1>6, <1>7, <1>8, <1>9, <1>10 DEF MoreOperations, Operations

-----------------------------------------------------------------------------
(* The invariant *)

CallsFit ==
    \A c \in Callers : call[c] # Idle =>
        call[c].op \in Offered(backend) /\ Fits(backend, call[c].op, call[c].rest)

LateIsSent ==
    \A l \in late :
        /\ Remote
        /\ l.cmd \in { "open", "close", "evict" } => l.cmd = Last(backend, l.op)
        /\ l.cmd = "power_off" => l.node \in doubted /\ backend = "maas"

IInv == /\ TypeOK /\ CallsFit /\ LateIsSent
        /\ \A n \in Nodes : Sensible(machine[n])
        /\ PowerIsAccounted
        /\ SuccessMeansDone

\* What a call under way is made of
LEMMA CallFacts ==
    ASSUME TypeOK, CallsFit, NEW c \in Callers, call[c] # Idle
    PROVE  /\ call[c] \in Call /\ call[c].node \in Nodes
           /\ call[c].op \in Offered(backend) /\ call[c].op \in MoreOperations
           /\ Fits(backend, call[c].op, call[c].rest)
           /\ call[c].rest \in Seq(Commands) /\ call[c].resolved \in BOOLEAN
           /\ Command(c) \in Commands
           /\ machine[call[c].node] \in Machine
<1>1. call[c] \in Call
    BY DEF TypeOK
<1>2. /\ call[c].node \in Nodes /\ call[c].op \in MoreOperations
      /\ call[c].rest \in Seq(Commands) /\ call[c].resolved \in BOOLEAN
    BY <1>1 DEF Call
<1>3. call[c].op \in Offered(backend) /\ Fits(backend, call[c].op, call[c].rest)
    BY DEF CallsFit
<1>4. Len(call[c].rest) # 0
    BY <1>3 DEF Fits
<1>5. Command(c) \in Commands
    BY <1>2, <1>4, Parts DEF Command
<1>6. machine[call[c].node] \in Machine
    BY <1>2 DEF TypeOK
<1> QED BY <1>1, <1>2, <1>3, <1>5, <1>6

\* The last command: the caller is told.
LEMMA LastStep ==
    ASSUME TypeOK, CallsFit, NEW c \in Callers, call[c] # Idle, backend' = backend,
           NEW success \in BOOLEAN, Proceed(c, success), Tail(call[c].rest) = <<>>
    PROVE  /\ Command(c) = Last(backend, call[c].op)
           /\ call' = [call EXCEPT ![c] = Idle]
           /\ told' = [node |-> call[c].node, op |-> call[c].op, success |-> success]
           /\ rebooted' = [rebooted EXCEPT ![call[c].node] =
                              IF call[c].op = "reboot" THEN success ELSE @]
           /\ told' \in Report
<1>1. Command(c) = Last(backend, call[c].op)
    BY CallFacts, HeadFits DEF Command
<1>2. /\ call' = [call EXCEPT ![c] = Idle]
      /\ told' = [node |-> call[c].node, op |-> call[c].op, success |-> success]
      /\ rebooted' = [rebooted EXCEPT ![call[c].node] =
                         IF call[c].op = "reboot" THEN success ELSE @]
    BY DEF Proceed, Ends
<1>3. told' \in Report
    BY <1>2, CallFacts DEF Report
<1> QED BY <1>1, <1>2, <1>3

\* Any other command: the call goes on, and after a power_off there is the power_on.
LEMMA EarlierStep ==
    ASSUME TypeOK, CallsFit, NEW c \in Callers, call[c] # Idle, backend' = backend,
           NEW success \in BOOLEAN, Proceed(c, success), Tail(call[c].rest) # <<>>
    PROVE  /\ Command(c) \in { "resolve", "slurm_drain", "read", "create_tag", "power_off" }
           /\ call' = [call EXCEPT ![c] = call'[c]]
           /\ call'[c] \in Call /\ call'[c] # Idle
           /\ call'[c].node = call[c].node /\ call'[c].op = call[c].op
           /\ Fits(backend, call[c].op, call'[c].rest)
           /\ call'[c].rest # <<>>
           /\ Command(c) = "power_off" => call'[c].rest = <<"power_on">>
           /\ told' = Idle /\ rebooted' = rebooted
<1> DEFINE k == call[c]
           q == [k EXCEPT !.rest = Tail(@),
                          !.resolved = @ /\ (success \/ Command(c) # "resolve")]
<1>1. call' = [call EXCEPT ![c] = q] /\ told' = Idle /\ rebooted' = rebooted
    BY DEF Proceed, Ends
<1>2. /\ k \in Call /\ Fits(backend, k.op, k.rest) /\ k.rest \in Seq(Commands)
      /\ k.resolved \in BOOLEAN
    BY CallFacts
<1>3. /\ Fits(backend, k.op, Tail(k.rest))
      /\ Head(k.rest) \in { "resolve", "slurm_drain", "read", "create_tag", "power_off" }
      /\ Head(k.rest) = "power_off" =>
            Len(Tail(k.rest)) = 1 /\ backend = "maas" /\ k.op = "reboot"
    BY <1>2, TailFits
<1>4. Tail(k.rest) \in Seq(Commands) /\ Len(Tail(k.rest)) # 0
    BY <1>3 DEF Fits
<1>5. q \in Call
    BY <1>2, <1>4 DEF Call
<1>6. call'[c] = q
    BY <1>1 DEF TypeOK
<1>7. q # Idle
    BY <1>5, IdleAssumption
<1>8. Command(c) = "power_off" => Tail(k.rest) = <<"power_on">>
  <2>1. SUFFICES ASSUME Command(c) = "power_off" PROVE Tail(k.rest) = <<"power_on">>
      OBVIOUS
  <2>2. Len(Tail(k.rest)) = 1 /\ Last(backend, k.op) = "power_on"
      BY <1>3, <2>1 DEF Command, Last
  <2>3. Tail(k.rest)[1] = "power_on"
      BY <1>3, <2>2 DEF Fits
  <2> QED BY <1>4, <2>2, <2>3, OnlyOne
<1>9. q.node = k.node /\ q.op = k.op /\ q.rest = Tail(k.rest)
    BY <1>2 DEF Call
<1> HIDE DEF q
<1> QED BY <1>1, <1>3, <1>4, <1>5, <1>6, <1>7, <1>8, <1>9 DEF Command

\* Types, and the shape of what is left of the calls, in both cases
LEMMA ProceedKeeps ==
    ASSUME TypeOK, CallsFit, NEW c \in Callers, call[c] # Idle, backend' = backend,
           NEW success \in BOOLEAN, Proceed(c, success)
    PROVE  /\ call' \in [Callers -> Call \cup { Idle }]
           /\ \A d \in Callers : call'[d] # Idle => call'[d].rest # <<>>
           /\ rebooted' \in [Nodes -> BOOLEAN]
           /\ told' \in Report \cup { Idle }
           /\ CallsFit'
<1>1. CASE Tail(call[c].rest) = <<>>
  <2>1. /\ call' = [call EXCEPT ![c] = Idle] /\ told' \in Report
        /\ rebooted' = [rebooted EXCEPT ![call[c].node] =
                           IF call[c].op = "reboot" THEN success ELSE @]
      BY <1>1, LastStep
  <2>2. \A d \in Callers : call'[d] # Idle => d # c /\ call'[d] = call[d]
      BY <2>1 DEF TypeOK
  <2>3. rebooted' \in [Nodes -> BOOLEAN]
      BY <2>1 DEF TypeOK
  <2> QED BY <2>1, <2>2, <2>3 DEF TypeOK, CallsFit
<1>2. CASE Tail(call[c].rest) # <<>>
  <2>1. /\ call' = [call EXCEPT ![c] = call'[c]]
        /\ call'[c] \in Call /\ call'[c].op = call[c].op
        /\ Fits(backend, call[c].op, call'[c].rest)
        /\ call'[c].rest # <<>> /\ told' = Idle /\ rebooted' = rebooted
      BY <1>2, EarlierStep
  <2>2. \A d \in Callers : d # c => call'[d] = call[d]
      BY <2>1 DEF TypeOK
  <2>3. call' \in [Callers -> Call \cup { Idle }]
      BY <2>1 DEF TypeOK
  <2>4. CallsFit'
      BY <2>1, <2>2 DEF CallsFit
  <2> QED BY <2>1, <2>2, <2>3, <2>4 DEF TypeOK
<1> QED BY <1>1, <1>2

\* A command, whatever becomes of it, leaves no machine off behind its caller's back.
LEMMA CommandPower ==
    ASSUME IInv, NEW c \in Callers, call[c] # Idle, backend' = backend,
           NEW success \in BOOLEAN, Proceed(c, success), doubted \subseteq doubted',
           \A n \in Nodes : n # call[c].node => machine'[n] = machine[n],
           \A n \in Nodes : machine'[n].faults = machine[n].faults,
           ~machine'[call[c].node].power =>
                ~machine[call[c].node].power \/ Command(c) = "power_off",
           success /\ Tail(call[c].rest) = <<>> =>
                Achieved(call[c].op, machine'[call[c].node])
    PROVE  PowerIsAccounted'
<1> DEFINE k == call[c]
<1> USE DEF IInv
<1>1. ASSUME NEW d \in Callers, call[d] # Idle, call[d].rest = <<"power_on">>
      PROVE  call[d].op = "reboot" /\ Tail(call[d].rest) = <<>>
  <2>1. Fits(backend, call[d].op, call[d].rest)
      BY <1>1 DEF CallsFit
  <2>2. Len(call[d].rest) = 1 /\ call[d].rest[1] = "power_on"
      BY <1>1
  <2>3. Last(backend, call[d].op) = "power_on"
      BY <2>1, <2>2 DEF Fits
  <2>4. Tail(call[d].rest) = <<>>
      BY <2>1, <2>2, Parts DEF Fits
  <2> QED BY <2>3, <2>4, PowerOnEndsReboot
<1>2. SUFFICES ASSUME NEW n \in Nodes, ~machine'[n].power
               PROVE  SwitchingOn(n)' \/ ~rebooted'[n] \/ n \in doubted' \/ machine'[n].faults
    BY DEF PowerIsAccounted
<1>3. ASSUME ~machine[n].power
      PROVE  SwitchingOn(n) \/ ~rebooted[n] \/ n \in doubted' \/ machine'[n].faults
    BY <1>3 DEF PowerIsAccounted
<1>4. CASE Tail(k.rest) = <<>>
  <2>1. /\ Command(c) = Last(backend, k.op)
        /\ call' = [call EXCEPT ![c] = Idle]
        /\ rebooted' = [rebooted EXCEPT ![k.node] = IF k.op = "reboot" THEN success ELSE @]
      BY <1>4, LastStep
  <2>2. ASSUME NEW d \in Callers, d # c
        PROVE  call'[d] = call[d]
      BY <2>1, <2>2 DEF TypeOK
  <2>3. k.node \in Nodes
      BY CallFacts
  <2>4. CASE n = k.node /\ k.op = "reboot"
    <3>1. rebooted'[n] = success
        BY <2>1, <2>3, <2>4 DEF TypeOK
    <3>2. ~success
        BY <1>2, <1>4, <2>4 DEF Achieved
    <3> QED BY <3>1, <3>2
  <2>5. CASE n # k.node \/ k.op # "reboot"
    <3>1. ~machine[n].power
      <4>1. Command(c) # "power_off"
          BY <2>1 DEF Last
      <4> QED BY <1>2, <4>1
    <3>2. rebooted'[n] = rebooted[n]
        BY <2>1, <2>5 DEF TypeOK
    <3>3. SwitchingOn(n) => SwitchingOn(n)'
      <4>1. SUFFICES ASSUME NEW d \in Callers, call[d] # Idle, call[d].node = n,
                            call[d].rest = <<"power_on">>
                     PROVE  SwitchingOn(n)'
          BY DEF SwitchingOn
      <4>2. d # c
          BY <1>1, <2>5, <4>1
      <4> QED BY <2>2, <4>1, <4>2 DEF SwitchingOn
    <3> QED BY <1>3, <3>1, <3>2, <3>3
  <2> QED BY <2>4, <2>5
<1>5. CASE Tail(k.rest) # <<>>
  <2>1. /\ call' = [call EXCEPT ![c] = call'[c]] /\ call'[c] # Idle
        /\ call'[c].node = k.node
        /\ Command(c) = "power_off" => call'[c].rest = <<"power_on">>
        /\ rebooted' = rebooted
      BY <1>5, EarlierStep
  <2>2. ASSUME NEW d \in Callers, d # c
        PROVE  call'[d] = call[d]
      BY <2>1, <2>2 DEF TypeOK
  <2>3. CASE n = k.node /\ Command(c) = "power_off"
      BY <2>1, <2>3 DEF SwitchingOn
  <2>4. CASE n # k.node \/ Command(c) # "power_off"
    <3>1. ~machine[n].power
        BY <1>2, <2>4
    <3>2. SwitchingOn(n) => SwitchingOn(n)'
      <4>1. SUFFICES ASSUME NEW d \in Callers, call[d] # Idle, call[d].node = n,
                            call[d].rest = <<"power_on">>
                     PROVE  SwitchingOn(n)'
          BY DEF SwitchingOn
      <4>2. d # c
          BY <1>1, <1>5, <4>1
      <4> QED BY <2>2, <4>1, <4>2 DEF SwitchingOn
    <3> QED BY <1>3, <2>1, <3>1, <3>2
  <2> QED BY <2>3, <2>4
<1> QED BY <1>4, <1>5

\* What the caller is told is true.
LEMMA CommandTold ==
    ASSUME IInv, NEW c \in Callers, call[c] # Idle, backend' = backend,
           NEW success \in BOOLEAN, Proceed(c, success),
           success /\ Tail(call[c].rest) = <<>> =>
                Achieved(call[c].op, machine'[call[c].node])
    PROVE  SuccessMeansDone'
<1> USE DEF IInv
<1>1. CASE Tail(call[c].rest) = <<>>
  <2>1. told' = [node |-> call[c].node, op |-> call[c].op, success |-> success]
      BY <1>1, LastStep
  <2>2. /\ told'.success = success /\ told'.op = call[c].op /\ told'.node = call[c].node
      BY <2>1
  <2>3. success => Achieved(call[c].op, machine'[call[c].node])
      BY <1>1
  <2> QED BY <2>2, <2>3 DEF SuccessMeansDone, Achieved
<1>2. CASE Tail(call[c].rest) # <<>>
    BY <1>2, EarlierStep DEF SuccessMeansDone
<1> QED BY <1>1, <1>2

-----------------------------------------------------------------------------
(* One step of each kind *)

\* All calls are idle at first.
LEMMA InitHolds == Init => IInv
<1> SUFFICES ASSUME Init PROVE IInv
    OBVIOUS
<1>1. NewMachine \in Machine /\ NewMachine.power /\ NewMachine.open /\ ~NewMachine.faults
    BY DEF NewMachine, Machine
<1>2. \A n \in Nodes : machine[n] = NewMachine
    BY DEF Init
<1>3. TypeOK
    BY <1>1, AdaptersAssumption DEF Init, TypeOK
<1>4. CallsFit /\ LateIsSent /\ SuccessMeansDone
    BY DEF Init, CallsFit, LateIsSent, SuccessMeansDone
<1>5. \A n \in Nodes : Sensible(machine[n])
    BY <1>1, <1>2 DEF Sensible
<1>6. PowerIsAccounted
    BY <1>1, <1>2 DEF PowerIsAccounted
<1> QED BY <1>3, <1>4, <1>5, <1>6 DEF IInv

\* Where the accounting stays the same: nobody's call ends, and no machine goes off
\* but for a fault or a doubt.
LEMMA OthersPower ==
    ASSUME IInv, rebooted' = rebooted,
           \A d \in Callers : call[d] # Idle => call'[d] = call[d],
           doubted \subseteq doubted',
           \A n \in Nodes : ~machine'[n].power =>
                \/ machine'[n].faults
                \/ n \in doubted'
                \/ ~machine[n].power /\ (machine[n].faults => machine'[n].faults)
    PROVE  PowerIsAccounted'
<1> SUFFICES ASSUME NEW n \in Nodes, ~machine'[n].power, n \notin doubted',
                    ~machine'[n].faults
             PROVE  SwitchingOn(n)' \/ ~rebooted'[n]
    BY DEF PowerIsAccounted
<1>1. ~machine[n].power /\ ~machine[n].faults
    OBVIOUS
<1>2. SwitchingOn(n) \/ ~rebooted[n]
    BY <1>1 DEF IInv, PowerIsAccounted
<1>3. SwitchingOn(n) => SwitchingOn(n)'
    BY DEF SwitchingOn
<1> QED BY <1>2, <1>3

\* Each action keeps the invariant: a new call has its plan, ...
LEMMA StartStep ==
    ASSUME IInv, NEW c \in Callers, NEW n \in Nodes, NEW op \in MoreOperations,
           Start(c, n, op)
    PROVE  IInv'
<1> DEFINE k == [node |-> n, op |-> op, rest |-> Plan(backend, op), resolved |-> TRUE]
<1>1. /\ call' = [call EXCEPT ![c] = k] /\ call[c] = Idle /\ op \in Offered(backend)
      /\ calls' = calls + 1 /\ calls < MaxCalls
    BY DEF Start
<1>2. Fits(backend, op, Plan(backend, op))
    BY <1>1, PlanFits DEF IInv, TypeOK
<1>3. k \in Call /\ k.rest # <<>>
    BY <1>2 DEF Call, Fits
<1>4. \A d \in Callers : call'[d] = IF d = c THEN k ELSE call[d]
    BY <1>1 DEF IInv, TypeOK
<1>5. calls' \in 0..MaxCalls
    BY <1>1, AdaptersAssumption DEF IInv, TypeOK
<1>6. TypeOK'
    BY <1>1, <1>3, <1>4, <1>5 DEF IInv, TypeOK, Start
<1>7. CallsFit'
    BY <1>1, <1>2, <1>4 DEF IInv, CallsFit, Start
<1>8. LateIsSent' /\ \A m \in Nodes : Sensible(machine[m])'
    BY DEF IInv, LateIsSent, Remote, Sensible, Start
<1>9. PowerIsAccounted'
    BY <1>1, <1>4, OthersPower DEF Start
<1>10. SuccessMeansDone'
    BY DEF Start, SuccessMeansDone
<1> QED BY <1>6, <1>7, <1>8, <1>9, <1>10 DEF IInv

\* ... a last command that is done achieves what its operation is for, ...
LEMMA DoneStep ==
    ASSUME IInv, NEW c \in Callers, Done(c)
    PROVE  IInv'
<1> DEFINE n == call[c].node
           q == Effect(Command(c), machine[n])
<1>1. /\ call[c] # Idle /\ machine' = [machine EXCEPT ![n] = q] /\ Proceed(c, TRUE)
      /\ ~Refusable(Command(c), machine[n], call[c].resolved)
      /\ UNCHANGED <<backend, late, doubted, calls>>
    BY DEF Done
<1>2. /\ n \in Nodes /\ machine[n] \in Machine /\ Command(c) \in Commands
      /\ call[c].op \in Offered(backend) /\ Fits(backend, call[c].op, call[c].rest)
    BY <1>1, CallFacts DEF IInv
<1>3. /\ q \in Machine /\ q.faults = machine[n].faults /\ q.known = machine[n].known
      /\ q.open <=> \/ Command(c) \in { "open", "mock_open" }
                    \/ Command(c) \notin { "close", "evict", "mock_close" } /\ machine[n].open
      /\ q.power <=> \/ Command(c) \in { "power_on", "power_reset" }
                     \/ Command(c) = "power_cycle" /\ machine[n].known
                     \/ Command(c) # "power_off" /\ machine[n].power
    BY <1>2, EffectFacts
<1> HIDE DEF q
<1>4. \A m \in Nodes : machine'[m] = IF m = n THEN q ELSE machine[m]
    BY <1>1 DEF IInv, TypeOK
<1>5. TypeOK'
  <2>1. machine' \in [Nodes -> Machine]
      BY <1>1, <1>2, <1>3 DEF IInv, TypeOK
  <2> QED BY <1>1, <2>1, ProceedKeeps DEF IInv, TypeOK
<1>6. CallsFit'
    BY <1>1, ProceedKeeps DEF IInv
<1>7. LateIsSent'
    BY <1>1 DEF IInv, LateIsSent, Remote
<1>8. Sensible(q)
  <2>1. /\ backend \in { "bare_metal", "mock_bcm" } =>
              Command(c) \in { "power_cycle", "no_op", "mock_open", "mock_close",
                               "resolve", "slurm_drain", "read", "create_tag" }
        /\ backend = "bare_metal" => Command(c) \notin { "mock_open", "mock_close" }
        /\ backend # "maas" => Command(c) # "power_off"
    <3>1. CASE Tail(call[c].rest) = <<>>
      <4>1. Command(c) = Last(backend, call[c].op)
          BY <1>2, <3>1, HeadFits DEF Command
      <4> QED BY <4>1 DEF Last
    <3>2. CASE Tail(call[c].rest) # <<>>
      <4>1. /\ Command(c) \in { "resolve", "slurm_drain", "read", "create_tag", "power_off" }
            /\ Command(c) = "power_off" => backend = "maas"
          BY <1>2, <3>2, TailFits DEF Command
      <4> QED BY <4>1
    <3> QED BY <3>1, <3>2
  <2>2. Sensible(machine[n])
      BY <1>2 DEF IInv
  <2> QED BY <1>3, <2>1, <2>2 DEF Sensible
<1>9. \A m \in Nodes : Sensible(machine[m])'
  <2>1. \A m \in Nodes : Sensible(machine'[m])
      BY <1>4, <1>8 DEF IInv
  <2> QED BY <1>1, <2>1 DEF Sensible
<1>10. Tail(call[c].rest) = <<>> => Achieved(call[c].op, machine'[n])
  <2>1. SUFFICES ASSUME Tail(call[c].rest) = <<>>
                 PROVE  Achieved(call[c].op, q)
      BY <1>2, <1>4
  <2>2. Command(c) = Last(backend, call[c].op)
      BY <1>2, <2>1, HeadFits DEF Command
  <2>3. Command(c) # "unsupported"
      BY <1>1 DEF Refusable
  <2>4. Sensible(machine[n]) /\ backend \in Kinds
      BY <1>2 DEF IInv, TypeOK
  <2> QED BY <1>2, <2>2, <2>3, <2>4, LastAchieves DEF q
<1>11. PowerIsAccounted'
  <2>1. \A m \in Nodes : machine'[m].faults = machine[m].faults
      BY <1>3, <1>4
  <2>2. ~machine'[n].power => ~machine[n].power \/ Command(c) = "power_off"
      BY <1>2, <1>3, <1>4
  <2> QED BY <1>1, <1>4, <1>10, <2>1, <2>2, CommandPower
<1>12. SuccessMeansDone'
    BY <1>1, <1>10, CommandTold
<1> QED BY <1>5, <1>6, <1>7, <1>9, <1>11, <1>12 DEF IInv

\* ... a refused one is reported as a failure, ...
LEMMA RefusedStep ==
    ASSUME IInv, NEW c \in Callers, Refused(c)
    PROVE  IInv'
<1>1. /\ call[c] # Idle /\ Proceed(c, FALSE)
      /\ UNCHANGED <<backend, machine, late, doubted, calls>>
    BY DEF Refused
<1>2. TypeOK' /\ CallsFit'
    BY <1>1, ProceedKeeps DEF IInv, TypeOK
<1>3. LateIsSent' /\ \A m \in Nodes : Sensible(machine[m])'
    BY <1>1 DEF IInv, LateIsSent, Remote, Sensible
<1>4. PowerIsAccounted'
    BY <1>1, CommandPower
<1>5. SuccessMeansDone'
    BY <1>1, CommandTold
<1> QED BY <1>2, <1>3, <1>4, <1>5 DEF IInv

\* What a command that is given up may have done
LEMMA ReachedFacts ==
    ASSUME NEW m \in Machine, NEW cmd \in Commands, NEW q \in Reached(cmd, m), Sensible(m),
           Remote
    PROVE  /\ q \in Machine /\ q.faults = m.faults
           /\ ~q.power => ~m.power \/ cmd = "power_off"
           /\ cmd \notin { "mock_open", "mock_close" } =>
                 \/ q.open = m.open
                 \/ cmd = "open" /\ q.open
                 \/ cmd \in { "close", "evict" } /\ ~q.open
<1>1. CASE q = m
    BY <1>1 DEF Machine
<1>2. CASE q = Effect(cmd, m)
  <2>1. /\ Effect(cmd, m) \in Machine
        /\ Effect(cmd, m).faults = m.faults
        /\ Effect(cmd, m).open <=>
                \/ cmd \in { "open", "mock_open" }
                \/ cmd \notin { "close", "evict", "mock_close" } /\ m.open
        /\ Effect(cmd, m).power <=>
                \/ cmd \in { "power_on", "power_reset" }
                \/ cmd = "power_cycle" /\ m.known
                \/ cmd # "power_off" /\ m.power
      BY EffectFacts
  <2>3. m.open \in BOOLEAN /\ q.open \in BOOLEAN
      BY <1>2, <2>1 DEF Machine
  <2> QED BY <1>2, <2>1, <2>3
<1>3. CASE q = [m EXCEPT !.open = FALSE] /\ cmd = "evict"
    BY <1>3 DEF Machine
<1> QED BY <1>1, <1>2, <1>3 DEF Reached

\* ... as is one that is given up, ...
LEMMA TimedOutStep ==
    ASSUME IInv, NEW c \in Callers, TimedOut(c)
    PROVE  IInv'
<1> DEFINE n == call[c].node
           cmd == Command(c)
           l == [node |-> n, op |-> call[c].op, cmd |-> cmd]
<1>1. /\ call[c] # Idle /\ Proceed(c, FALSE) /\ Remote
      /\ UNCHANGED <<backend, calls>>
      /\ doubted' = doubted \cup { m \in { n } : cmd = "power_off" }
    BY DEF TimedOut, GivenUp, Local
<1>2. /\ n \in Nodes /\ machine[n] \in Machine /\ cmd \in Commands
      /\ call[c].op \in MoreOperations /\ Fits(backend, call[c].op, call[c].rest)
      /\ Sensible(machine[n])
    BY <1>1, CallFacts DEF IInv
<1>3. PICK q \in Reached(cmd, machine[n]) : machine' = [machine EXCEPT ![n] = q]
  <2>1. machine = [machine EXCEPT ![n] = machine[n]]
      BY <1>2 DEF IInv, TypeOK
  <2>2. machine[n] \in Reached(cmd, machine[n])
      BY DEF Reached
  <2>3. CASE UNCHANGED machine
      BY <2>1, <2>2, <2>3
  <2>4. CASE \E m \in IF Refusable(cmd, machine[n], call[c].resolved)
                      THEN { machine[n] } ELSE Reached(cmd, machine[n]) :
                 machine' = [machine EXCEPT ![n] = m]
      BY <2>2, <2>4
  <2> QED BY <2>3, <2>4 DEF TimedOut
<1>4. /\ q \in Machine /\ q.faults = machine[n].faults
      /\ ~q.power => ~machine[n].power \/ cmd = "power_off"
    BY <1>1, <1>2, ReachedFacts
<1>5. \A m \in Nodes : machine'[m] = IF m = n THEN q ELSE machine[m]
    BY <1>2, <1>3 DEF IInv, TypeOK
<1>6. late' = late \/ (late' = late \cup { l } /\ cmd \in Lasting)
    BY DEF TimedOut
<1>7. l \in Late \/ cmd \notin Lasting
    BY <1>2 DEF Late
<1>8. TypeOK'
  <2>1. machine' \in [Nodes -> Machine]
      BY <1>3, <1>4, <1>5 DEF IInv, TypeOK
  <2>2. late' \subseteq Late
      BY <1>6, <1>7 DEF IInv, TypeOK
  <2>3. doubted' \subseteq Nodes
      BY <1>1, <1>2 DEF IInv, TypeOK
  <2> QED BY <1>1, <2>1, <2>2, <2>3, ProceedKeeps DEF IInv, TypeOK
<1>9. CallsFit'
    BY <1>1, ProceedKeeps DEF IInv
<1>10. \/ /\ Tail(call[c].rest) # <<>>
          /\ cmd \in { "resolve", "slurm_drain", "read", "create_tag", "power_off" }
       \/ Tail(call[c].rest) = <<>> /\ cmd = Last(backend, call[c].op)
  <2>1. CASE Tail(call[c].rest) = <<>>
      BY <1>2, <2>1, HeadFits DEF Command
  <2>2. CASE Tail(call[c].rest) # <<>>
      BY <1>2, <2>2, TailFits DEF Command
  <2> QED BY <2>1, <2>2
<1>11. LateIsSent'
  <2>1. ASSUME NEW x \in late' PROVE x \in late \/ x = l
      BY <1>6, <2>1
  <2>2. ASSUME NEW x \in late
        PROVE  /\ x.cmd \in { "open", "close", "evict" } => x.cmd = Last(backend, x.op)
               /\ x.cmd = "power_off" => x.node \in doubted' /\ backend = "maas"
      BY <1>1 DEF IInv, LateIsSent
  <2>3. /\ l.cmd \in { "open", "close", "evict" } => l.cmd = Last(backend, l.op)
        /\ l.cmd = "power_off" => l.node \in doubted' /\ backend = "maas"
    <3>1. cmd = "power_off" => backend = "maas"
      <4>1. cmd = Last(backend, call[c].op) => cmd # "power_off"
          BY DEF Last
      <4> QED BY <1>2, <1>10, <4>1, TailFits DEF Command
    <3> QED BY <1>1, <1>10, <3>1
  <2> HIDE DEF l
  <2> QED BY <1>1, <2>1, <2>2, <2>3 DEF LateIsSent, Remote
<1>12. \A m \in Nodes : Sensible(machine[m])'
  <2>1. Tail(call[c].rest) # <<>> /\ cmd = "power_off" => backend = "maas"
      BY <1>2, TailFits DEF Command
  <2>2. cmd = Last(backend, call[c].op) => cmd # "power_off"
      BY DEF Last
  <2>3. Sensible(q)
      BY <1>1, <1>2, <1>4, <1>10, <2>1, <2>2 DEF Sensible, Remote
  <2>4. \A m \in Nodes : Sensible(machine'[m])
      BY <1>5, <2>3 DEF IInv
  <2> QED BY <1>1, <2>4 DEF Sensible
<1>13. PowerIsAccounted'
  <2>1. \A m \in Nodes : machine'[m].faults = machine[m].faults
      BY <1>4, <1>5
  <2>2. ~machine'[n].power => ~machine[n].power \/ cmd = "power_off"
      BY <1>2, <1>4, <1>5
  <2> QED BY <1>1, <1>5, <2>1, <2>2, CommandPower
<1>14. SuccessMeansDone'
    BY <1>1, CommandTold
<1> QED BY <1>8, <1>9, <1>11, <1>12, <1>13, <1>14 DEF IInv

\* ... which undoes nothing reported when it arrives late.
LEMMA StrikeStep ==
    ASSUME IInv, NEW l \in late, Strike(l)
    PROVE  IInv'
<1> DEFINE q == Effect(l.cmd, machine[l.node])
<1>1. /\ machine' = [machine EXCEPT ![l.node] = q] /\ late' = late \ { l } /\ told' = Idle
      /\ UNCHANGED <<backend, call, rebooted, doubted, calls>>
    BY DEF Strike
<1>2. l.node \in Nodes /\ l.cmd \in Lasting /\ machine[l.node] \in Machine
    BY DEF IInv, TypeOK, Late
<1>3. Remote /\ (l.cmd = "power_off" => l.node \in doubted)
    BY DEF IInv, LateIsSent
<1>4. /\ q \in Machine /\ q.faults = machine[l.node].faults
      /\ q.power <=> \/ l.cmd \in { "power_on", "power_reset" }
                     \/ l.cmd = "power_cycle" /\ machine[l.node].known
                     \/ l.cmd # "power_off" /\ machine[l.node].power
  <2>1. l.cmd \in Commands
      BY <1>2 DEF Commands
  <2> QED BY <1>2, <2>1, EffectFacts
<1> HIDE DEF q
<1>5. \A m \in Nodes : machine'[m] = IF m = l.node THEN q ELSE machine[m]
    BY <1>1 DEF IInv, TypeOK
<1>6. TypeOK'
  <2>1. machine' \in [Nodes -> Machine]
      BY <1>1, <1>2, <1>4 DEF IInv, TypeOK
  <2> QED BY <1>1, <2>1 DEF IInv, TypeOK
<1>7. CallsFit' /\ LateIsSent'
    BY <1>1 DEF IInv, CallsFit, LateIsSent, Remote
<1>8. \A m \in Nodes : Sensible(machine[m])'
  <2>1. l.cmd = "power_off" => backend = "maas"
      BY DEF IInv, LateIsSent
  <2>2. Sensible(machine[l.node])
      BY <1>2 DEF IInv
  <2>3. Sensible(q)
      BY <1>3, <1>4, <2>1, <2>2 DEF Sensible, Remote
  <2>4. \A m \in Nodes : Sensible(machine'[m])
      BY <1>5, <2>3 DEF IInv
  <2> QED BY <1>1, <2>4 DEF Sensible
<1>9. PowerIsAccounted'
  <2>1. ASSUME NEW m \in Nodes, ~machine'[m].power
        PROVE  \/ m \in doubted'
               \/ ~machine[m].power /\ (machine[m].faults => machine'[m].faults)
      BY <1>1, <1>2, <1>3, <1>4, <1>5, <2>1
  <2> QED BY <1>1, <2>1, OthersPower
<1>10. SuccessMeansDone'
    BY <1>1 DEF SuccessMeansDone
<1> QED BY <1>6, <1>7, <1>8, <1>9, <1>10 DEF IInv

\* The mock has nothing on its way when a node is registered, ...
LEMMA RegisterStep ==
    ASSUME IInv, NEW n \in Nodes, Register(n)
    PROVE  IInv'
<1> DEFINE q == [NewMachine EXCEPT !.known = TRUE]
<1>1. /\ machine' = [machine EXCEPT ![n] = q] /\ told' = Idle
      /\ UNCHANGED <<backend, call, late, rebooted, doubted, calls>>
    BY DEF Register
<1>2. q \in Machine /\ q.power /\ q.open /\ ~q.faults
    BY DEF NewMachine, Machine
<1> HIDE DEF q
<1>3. \A m \in Nodes : machine'[m] = IF m = n THEN q ELSE machine[m]
    BY <1>1 DEF IInv, TypeOK
<1>4. TypeOK'
  <2>1. machine' \in [Nodes -> Machine]
      BY <1>1, <1>2 DEF IInv, TypeOK
  <2> QED BY <1>1, <2>1 DEF IInv, TypeOK
<1>5. CallsFit' /\ LateIsSent'
    BY <1>1 DEF IInv, CallsFit, LateIsSent, Remote
<1>6. \A m \in Nodes : Sensible(machine[m])'
  <2>1. \A m \in Nodes : Sensible(machine'[m])
      BY <1>2, <1>3 DEF IInv, Sensible
  <2> QED BY <1>1, <2>1 DEF Sensible
<1>7. PowerIsAccounted'
  <2>1. ASSUME NEW m \in Nodes, ~machine'[m].power
        PROVE  ~machine[m].power /\ (machine[m].faults => machine'[m].faults)
      BY <1>2, <1>3, <2>1
  <2> QED BY <1>1, <2>1, OthersPower
<1>8. SuccessMeansDone'
    BY <1>1 DEF SuccessMeansDone
<1> QED BY <1>4, <1>5, <1>6, <1>7, <1>8 DEF IInv

\* ... or its sensors are made to report a fault.
LEMMA InjectFaultStep ==
    ASSUME IInv, NEW n \in Nodes, NEW off \in BOOLEAN, InjectFault(n, off)
    PROVE  IInv'
<1> DEFINE q == [machine[n] EXCEPT !.known = TRUE, !.faults = TRUE, !.power = @ /\ ~off]
<1>1. /\ machine' = [machine EXCEPT ![n] = q] /\ told' = Idle /\ backend = "bare_metal"
      /\ UNCHANGED <<backend, call, late, rebooted, doubted, calls>>
    BY DEF InjectFault
<1>2. machine[n] \in Machine
    BY DEF IInv, TypeOK
<1>3. q \in Machine /\ q.faults /\ q.known /\ q.open = machine[n].open
    BY <1>2 DEF Machine
<1> HIDE DEF q
<1>4. \A m \in Nodes : machine'[m] = IF m = n THEN q ELSE machine[m]
    BY <1>1 DEF IInv, TypeOK
<1>5. TypeOK'
  <2>1. machine' \in [Nodes -> Machine]
      BY <1>1, <1>3 DEF IInv, TypeOK
  <2> QED BY <1>1, <2>1 DEF IInv, TypeOK
<1>6. CallsFit' /\ LateIsSent'
    BY <1>1 DEF IInv, CallsFit, LateIsSent, Remote
<1>7. \A m \in Nodes : Sensible(machine[m])'
  <2>1. \A m \in Nodes : Sensible(machine'[m])
      BY <1>1, <1>3, <1>4 DEF IInv, Sensible
  <2> QED BY <1>1, <2>1 DEF Sensible
<1>8. PowerIsAccounted'
  <2>1. ASSUME NEW m \in Nodes, ~machine'[m].power
        PROVE  \/ machine'[m].faults
               \/ ~machine[m].power /\ (machine[m].faults => machine'[m].faults)
      BY <1>3, <1>4, <2>1
  <2> QED BY <1>1, <2>1, OthersPower
<1>9. SuccessMeansDone'
    BY <1>1 DEF SuccessMeansDone
<1> QED BY <1>5, <1>6, <1>7, <1>8, <1>9 DEF IInv

\* Every step keeps the invariant.
LEMMA StepHolds ==
    ASSUME IInv, [Next]_vars
    PROVE  IInv'
<1>1. ASSUME NEW c \in Callers, NEW n \in Nodes, NEW op \in MoreOperations, Start(c, n, op)
      PROVE  IInv'
    BY <1>1, StartStep
<1>2. ASSUME NEW c \in Callers, Done(c) \/ Refused(c) \/ TimedOut(c)
      PROVE  IInv'
    BY <1>2, DoneStep, RefusedStep, TimedOutStep
<1>3. ASSUME NEW l \in late, Strike(l)
      PROVE  IInv'
    BY <1>3, StrikeStep
<1>4. ASSUME NEW n \in Nodes, Register(n) \/ \E off \in BOOLEAN : InjectFault(n, off)
      PROVE  IInv'
    BY <1>4, RegisterStep, InjectFaultStep
<1>5. CASE UNCHANGED vars
    BY <1>5 DEF vars, IInv, TypeOK, CallsFit, LateIsSent, Remote, Sensible, PowerIsAccounted,
                SwitchingOn, SuccessMeansDone, Achieved
<1> QED BY <1>1, <1>2, <1>3, <1>4, <1>5 DEF Next

\* The invariant holds in every behaviour.
LEMMA Invariance == Spec => []IInv
BY InitHolds, StepHolds, PTL DEF Spec

(***************************************************************************)
(* Calls, commands on their way and reports are of their kinds.            *)
(***************************************************************************)
THEOREM TypeCorrect == Spec => []TypeOK
<1>1. IInv => TypeOK
    BY DEF IInv
<1> QED BY <1>1, Invariance, PTL

(***************************************************************************)
(* For any number of machines and callers: what an adapter reports as done *)
(* is done when it returns (the result of the last command is what every   *)
(* method of adapters.py and adapters/ hands on).                          *)
(***************************************************************************)
THEOREM SuccessIsReal == Spec => []SuccessMeansDone
<1>1. IInv => SuccessMeansDone
    BY DEF IInv
<1> QED BY <1>1, Invariance, PTL

(***************************************************************************)
(* For any number of machines and callers: a machine is only off where its *)
(* caller knows of it, for a fault, or after a power_off of MAAS that was  *)
(* given up (reboot of adapters/maas.py).                                  *)
(***************************************************************************)
THEOREM NoneLeftOff == Spec => []PowerIsAccounted
<1>1. IInv => PowerIsAccounted
    BY DEF IInv
<1> QED BY <1>1, Invariance, PTL

-----------------------------------------------------------------------------
(* The contract *)

\* What the last command of an operation makes of the backend's flag
LEMMA OutcomeOfLast ==
    ASSUME Remote, NEW op \in MoreOperations, NEW m \in Machine, NEW q \in Machine,
           \/ q = Effect(Last(backend, op), m)
           \/ q \in Reached(Last(backend, op), m) /\ q.open # m.open,
           Sensible(m), Last(backend, op) \in Commands
    PROVE  q.open \in Contract!Outcomes(op, m.open)
<1> DEFINE cmd == Last(backend, op)
<1>1. \/ q.open = m.open /\ cmd \notin { "open", "close", "evict" }
      \/ cmd = "open" /\ q.open = TRUE
      \/ cmd \in { "close", "evict" } /\ q.open = FALSE
  <2>1. cmd \notin { "mock_open", "mock_close" }
      BY DEF Last, Remote
  <2>2. m.open \in BOOLEAN /\ q.open \in BOOLEAN
      BY DEF Machine
  <2>3. CASE q = Effect(cmd, m)
    <3>1. Effect(cmd, m).open <=>
                \/ cmd \in { "open", "mock_open" }
                \/ cmd \notin { "close", "evict", "mock_close" } /\ m.open
        BY EffectFacts
    <3> HIDE DEF cmd
    <3> QED BY <2>1, <2>2, <2>3, <3>1
  <2>4. CASE q \in Reached(cmd, m) /\ q.open # m.open
    <3>1. \/ q.open = m.open
          \/ cmd = "open" /\ q.open
          \/ cmd \in { "close", "evict" } /\ ~q.open
        BY <2>1, <2>4, ReachedFacts
    <3> HIDE DEF cmd
    <3> QED BY <2>2, <2>4, <3>1
  <2> QED BY <2>3, <2>4
<1>2. CASE op = "cordon"
  <2>1. cmd = "close"
      BY <1>2 DEF Last, Remote
  <2> QED BY <1>1, <1>2, <2>1 DEF Contract!Outcomes
<1>3. CASE op = "uncordon"
  <2>1. cmd = "open"
      BY <1>3 DEF Last, Remote
  <2> QED BY <1>1, <1>3, <2>1 DEF Contract!Outcomes
<1>4. CASE op = "drain"
  <2>1. cmd # "open"
      BY <1>4 DEF Last, Remote
  <2> QED BY <1>1, <1>4, <2>1 DEF Contract!Outcomes
<1>5. CASE op \notin { "cordon", "uncordon", "drain" }
  <2>1. cmd \notin { "open", "close", "evict" }
      BY <1>5 DEF Last
  <2> QED BY <1>1, <1>5, <2>1 DEF Contract!Outcomes
<1> QED BY <1>2, <1>3, <1>4, <1>5

\* What the contract speaks of
cvars == <<Opened, Waiting, Abroad, Reported>>

\* The adapters in mock mode show nothing of this.
LEMMA MocksAreSilent ==
    ASSUME IInv, [Next]_vars, ~Remote
    PROVE  UNCHANGED cvars
<1>1. backend' = backend
    BY DEF Next, vars, Start, Done, Refused, TimedOut, Strike, Register, InjectFault
<1>2. ~Remote'
    BY <1>1 DEF Remote
<1>3. late = {} /\ late' = {}
    BY <1>2, StepHolds DEF IInv, LateIsSent
<1>4. Abroad = {} /\ Abroad' = {}
    BY <1>3 DEF Abroad
<1>5. Opened' = Opened /\ Waiting' = Waiting /\ Reported' = Reported
    BY <1>2 DEF Opened, Waiting, Reported
<1> QED BY <1>4, <1>5 DEF cvars

\* A call that starts
LEMMA StartMaps ==
    ASSUME IInv, Remote, NEW c \in Callers, NEW n \in Nodes, NEW op \in MoreOperations,
           Start(c, n, op)
    PROVE  Contract!Calls(c, n, op)
<1> DEFINE k == [node |-> n, op |-> op, rest |-> Plan(backend, op), resolved |-> TRUE]
<1>1. /\ call' = [call EXCEPT ![c] = k] /\ call[c] = Idle /\ told' = Idle
      /\ UNCHANGED <<backend, machine, late>> /\ op \in Offered(backend)
    BY DEF Start
<1>2. k \in Call
  <2>1. Fits(backend, op, Plan(backend, op))
      BY <1>1, PlanFits DEF IInv, TypeOK
  <2> QED BY <2>1 DEF Call, Fits
<1>3. k # Idle /\ Wanted(k) = [node |-> n, op |-> op]
    BY <1>2, IdleAssumption DEF Wanted
<1>4. \A d \in Callers : call'[d] = IF d = c THEN k ELSE call[d]
    BY <1>1 DEF IInv, TypeOK
<1>5. Waiting[c] = Idle /\ Waiting' = [Waiting EXCEPT ![c] = [node |-> n, op |-> op]]
  <2> HIDE DEF k
  <2>1. Remote'
      BY <1>1 DEF Remote
  <2>2. Waiting[c] = Idle
      BY <1>1 DEF Waiting
  <2>3. \A d \in Callers : Waiting'[d] = IF d = c THEN Wanted(k) ELSE Waiting[d]
      BY <1>3, <1>4, <2>1 DEF Waiting
  <2>4. Waiting' = [Waiting EXCEPT ![c] = Wanted(k)]
      BY <2>3 DEF Waiting
  <2> QED BY <1>3, <2>2, <2>4
<1>6. Reported' = Idle /\ Opened' = Opened /\ Abroad' = Abroad
    BY <1>1 DEF Reported, Opened, Abroad, Remote
<1> QED BY <1>5, <1>6 DEF Contract!Calls

\* What the contract sees of a command that is not the last
LEMMA EarlierMaps ==
    ASSUME IInv, Remote, NEW c \in Callers, call[c] # Idle, backend' = backend,
           NEW success \in BOOLEAN, Proceed(c, success), Tail(call[c].rest) # <<>>
    PROVE  Waiting' = Waiting /\ Reported' = Idle
<1>1. /\ call' = [call EXCEPT ![c] = call'[c]] /\ call'[c] # Idle
      /\ call'[c].node = call[c].node /\ call'[c].op = call[c].op /\ told' = Idle
    BY EarlierStep DEF IInv
<1>2. \A d \in Callers : d # c => call'[d] = call[d]
    BY <1>1 DEF IInv, TypeOK
<1>3. Wanted(call'[c]) = Wanted(call[c])
    BY <1>1 DEF Wanted
<1>4. Waiting' = Waiting
    BY <1>1, <1>2, <1>3 DEF Waiting, Remote
<1> QED BY <1>1, <1>4 DEF Reported

\* The last one
LEMMA LastMaps ==
    ASSUME IInv, Remote, NEW c \in Callers, call[c] # Idle, backend' = backend,
           NEW success \in BOOLEAN, Proceed(c, success), Tail(call[c].rest) = <<>>
    PROVE  Waiting[c] = Wanted(call[c]) /\ Contract!Returns(c, success)
<1>1. /\ call' = [call EXCEPT ![c] = Idle]
      /\ told' = [node |-> call[c].node, op |-> call[c].op, success |-> success]
    BY LastStep DEF IInv
<1>2. \A d \in Callers : call'[d] = IF d = c THEN Idle ELSE call[d]
    BY <1>1 DEF IInv, TypeOK
<1>3. Waiting[c] = Wanted(call[c])
    BY DEF Waiting
<1>4. Wanted(call[c]) \in Pending
    BY CallFacts DEF IInv, Wanted, Pending
<1>5. Waiting[c] # Idle
    BY <1>3, <1>4, IdleAssumption
<1>6. Waiting' = [Waiting EXCEPT ![c] = Idle]
    BY <1>2 DEF Waiting, Remote
<1>7. Reported' = [node |-> Waiting[c].node, op |-> Waiting[c].op, success |-> success]
  <2>1. Waiting[c].node = call[c].node /\ Waiting[c].op = call[c].op
      BY <1>3 DEF Wanted
  <2> QED BY <1>1, <2>1 DEF Reported, Remote
<1> QED BY <1>3, <1>5, <1>6, <1>7 DEF Contract!Returns

\* How a machine's flag shows in the contract
LEMMA FlagShows ==
    ASSUME IInv, Remote, backend' = backend, NEW n \in Nodes, NEW q \in Machine,
           machine' = [machine EXCEPT ![n] = q]
    PROVE  /\ Opened[n] = machine[n].open
           /\ Opened' = [Opened EXCEPT ![n] = q.open]
           /\ q.open = machine[n].open => Opened' = Opened
<1>1. Remote' /\ Opened = [m \in Nodes |-> machine[m].open]
  <2>1. \A m \in Nodes : machine[m].open \in BOOLEAN
      BY DEF IInv, TypeOK, Machine
  <2> QED BY <2>1 DEF Opened, Remote
<1>2. machine' \in [Nodes -> Machine]
    BY DEF IInv, TypeOK
<1>3. Opened' = [m \in Nodes |-> machine'[m].open]
  <2>1. \A m \in Nodes : machine'[m].open \in BOOLEAN
      BY <1>2 DEF Machine
  <2> QED BY <1>1, <2>1 DEF Opened
<1>4. \A m \in Nodes : machine'[m] = IF m = n THEN q ELSE machine[m]
    BY DEF IInv, TypeOK
<1>5. \A m \in Nodes : machine'[m].open = IF m = n THEN q.open ELSE machine[m].open
    BY <1>4
<1>6. Opened' = [Opened EXCEPT ![n] = q.open]
    BY <1>1, <1>3, <1>5
<1>7. q.open = machine[n].open => Opened' = Opened
    BY <1>1, <1>3, <1>5
<1> QED BY <1>1, <1>6, <1>7

\* A command that is done is an effect of its operation if it is the last.
LEMMA DoneMaps ==
    ASSUME IInv, Remote, NEW c \in Callers, Done(c)
    PROVE  Contract!Passes \/ Contract!Succeeds(c)
<1> DEFINE n == call[c].node
           q == Effect(Command(c), machine[n])
<1>1. /\ call[c] # Idle /\ machine' = [machine EXCEPT ![n] = q] /\ Proceed(c, TRUE)
      /\ UNCHANGED <<backend, late>>
    BY DEF Done
<1>2. /\ n \in Nodes /\ machine[n] \in Machine /\ Sensible(machine[n])
      /\ call[c].op \in MoreOperations /\ Command(c) \in Commands
    BY <1>1, CallFacts DEF IInv
<1>3. q \in Machine
    BY <1>2, EffectFacts
<1>4. q.open <=> \/ Command(c) \in { "open", "mock_open" }
                 \/ Command(c) \notin { "close", "evict", "mock_close" } /\ machine[n].open
    BY <1>2, EffectFacts
<1>5. Abroad' = Abroad
    BY <1>1 DEF Abroad
<1>6. CASE Tail(call[c].rest) # <<>>
  <2>1. Waiting' = Waiting /\ Reported' = Idle
      BY <1>1, <1>6, EarlierMaps
  <2>2. Command(c) \in { "resolve", "slurm_drain", "read", "create_tag", "power_off" }
      BY <1>1, <1>6, EarlierStep DEF IInv
  <2> HIDE DEF n, q
  <2>3. q.open = machine[n].open
      BY <1>2, <1>3, <1>4, <2>2 DEF Machine
  <2>4. Opened' = Opened
      BY <1>1, <1>2, <1>3, <2>3, FlagShows
  <2> QED BY <1>5, <2>1, <2>4 DEF Contract!Passes
<1>7. CASE Tail(call[c].rest) = <<>>
  <2>1. Waiting[c] = Wanted(call[c]) /\ Contract!Returns(c, TRUE)
      BY <1>1, <1>7, LastMaps
  <2>2. Command(c) = Last(backend, call[c].op)
      BY <1>1, <1>7, LastStep DEF IInv
  <2>3. q.open \in Contract!Outcomes(call[c].op, machine[n].open)
      BY <1>2, <1>3, <2>2, OutcomeOfLast
  <2>4. Waiting[c].node = n /\ Waiting[c].op = call[c].op
      BY <2>1 DEF Wanted
  <2> HIDE DEF n, q
  <2>5. Opened[n] = machine[n].open /\ Opened' = [Opened EXCEPT ![n] = q.open]
      BY <1>1, <1>2, <1>3, FlagShows
  <2>6. Contract!TakesEffect(Waiting[c])
      BY <2>3, <2>4, <2>5 DEF Contract!TakesEffect
  <2> QED BY <1>5, <2>1, <2>6 DEF Contract!Succeeds
<1> QED BY <1>6, <1>7

\* A command that is refused leaves the flag as it is.
LEMMA RefusedMaps ==
    ASSUME IInv, Remote, NEW c \in Callers, Refused(c)
    PROVE  Contract!Passes \/ Contract!Fails(c)
<1>1. call[c] # Idle /\ Proceed(c, FALSE) /\ UNCHANGED <<backend, machine, late>>
    BY DEF Refused
<1>2. Opened' = Opened /\ Abroad' = Abroad
    BY <1>1 DEF Opened, Abroad, Remote
<1>3. CASE Tail(call[c].rest) # <<>>
    BY <1>1, <1>2, <1>3, EarlierMaps DEF Contract!Passes
<1>4. CASE Tail(call[c].rest) = <<>>
    BY <1>1, <1>2, <1>4, LastMaps DEF Contract!Fails
<1> QED BY <1>3, <1>4

\* A command that is given up has got somewhere, ...
LEMMA GotSomewhere ==
    ASSUME IInv, Remote, NEW c \in Callers, call[c] # Idle, Proceed(c, FALSE),
           NEW q \in Reached(Command(c), machine[call[c].node]),
           machine' = [machine EXCEPT ![call[c].node] = q], UNCHANGED <<backend, late>>
    PROVE  Contract!Passes \/ Contract!Fails(c)
<1> DEFINE n == call[c].node
<1>1. /\ n \in Nodes /\ machine[n] \in Machine /\ Sensible(machine[n])
      /\ call[c].op \in MoreOperations /\ Command(c) \in Commands
    BY CallFacts DEF IInv
<1>2. q \in Machine
    BY <1>1, ReachedFacts
<1>3. Command(c) \notin { "mock_open", "mock_close" } =>
         \/ q.open = machine[n].open
         \/ Command(c) = "open" /\ q.open
         \/ Command(c) \in { "close", "evict" } /\ ~q.open
    BY <1>1, ReachedFacts
<1>4. Abroad' = Abroad
    BY DEF Abroad
<1>5. CASE Tail(call[c].rest) # <<>>
  <2>1. Waiting' = Waiting /\ Reported' = Idle
      BY <1>5, EarlierMaps
  <2>2. Command(c) \in { "resolve", "slurm_drain", "read", "create_tag", "power_off" }
      BY <1>5, EarlierStep DEF IInv
  <2> HIDE DEF n
  <2>3. q.open = machine[n].open
      BY <1>3, <2>2
  <2>4. Opened' = Opened
      BY <1>1, <1>2, <2>3, FlagShows DEF n
  <2> QED BY <1>4, <2>1, <2>4 DEF Contract!Passes
<1>6. CASE Tail(call[c].rest) = <<>>
  <2>1. Waiting[c] = Wanted(call[c]) /\ Contract!Returns(c, FALSE)
      BY <1>6, LastMaps
  <2>2. Command(c) = Last(backend, call[c].op)
      BY <1>6, LastStep DEF IInv
  <2>3. CASE q.open = machine[n].open
    <3>1. Opened' = Opened
        BY <1>1, <1>2, <2>3, FlagShows
    <3> QED BY <1>4, <2>1, <3>1 DEF Contract!Fails
  <2>4. CASE q.open # machine[n].open
    <3>1. q.open \in Contract!Outcomes(call[c].op, machine[n].open)
        BY <1>1, <1>2, <2>2, <2>4, OutcomeOfLast
    <3>2. Waiting[c].node = n /\ Waiting[c].op = call[c].op
        BY <2>1 DEF Wanted
    <3>3. Opened[n] = machine[n].open /\ Opened' = [Opened EXCEPT ![n] = q.open]
        BY <1>1, <1>2, FlagShows
    <3> HIDE DEF n
    <3>4. Contract!TakesEffect(Waiting[c])
        BY <3>1, <3>2, <3>3 DEF Contract!TakesEffect
    <3> QED BY <1>4, <2>1, <3>4 DEF Contract!Fails
  <2> QED BY <2>3, <2>4
<1> QED BY <1>5, <1>6

\* ... or is on its way.
LEMMA OnItsWay ==
    ASSUME IInv, Remote, NEW c \in Callers, call[c] # Idle, Proceed(c, FALSE),
           late' = late \cup { [node |-> call[c].node, op |-> call[c].op, cmd |-> Command(c)] },
           UNCHANGED <<backend, machine>>
    PROVE  Contract!Passes \/ Contract!Fails(c)
<1> DEFINE l == [node |-> call[c].node, op |-> call[c].op, cmd |-> Command(c)]
<1>1. l.cmd = Command(c) /\ Wanted(l) = Wanted(call[c])
    BY DEF Wanted
<1>2. late' = late \cup { l }
    OBVIOUS
<1> HIDE DEF l
<1>3. Abroad' = IF l.cmd \in { "open", "close", "evict" } THEN Abroad \cup { Wanted(l) }
                                                           ELSE Abroad
    BY <1>2 DEF Abroad
<1>4. Opened' = Opened
    BY DEF Opened, Remote
<1>5. CASE Tail(call[c].rest) # <<>>
  <2>1. Waiting' = Waiting /\ Reported' = Idle
      BY <1>5, EarlierMaps
  <2>2. Command(c) \in { "resolve", "slurm_drain", "read", "create_tag", "power_off" }
      BY <1>5, EarlierStep DEF IInv
  <2>3. Abroad' = Abroad
      BY <1>1, <1>3, <2>2
  <2> QED BY <1>4, <2>1, <2>3 DEF Contract!Passes
<1>6. CASE Tail(call[c].rest) = <<>>
  <2>1. Waiting[c] = Wanted(call[c]) /\ Contract!Returns(c, FALSE)
      BY <1>6, LastMaps
  <2>2. Abroad' \in { Abroad, Abroad \cup { Waiting[c] } }
      BY <1>1, <1>3, <2>1
  <2> QED BY <1>4, <2>1, <2>2 DEF Contract!Fails
<1> QED BY <1>5, <1>6

\* Either way, what is reported is a failure that the contract allows.
LEMMA TimedOutMaps ==
    ASSUME IInv, Remote, NEW c \in Callers, TimedOut(c)
    PROVE  Contract!Passes \/ Contract!Fails(c)
<1> DEFINE n == call[c].node
<1>1. /\ call[c] # Idle /\ Proceed(c, FALSE) /\ backend' = backend
      /\ \/ /\ \E m \in IF Refusable(Command(c), machine[n], call[c].resolved)
                        THEN { machine[n] } ELSE Reached(Command(c), machine[n]) :
                   machine' = [machine EXCEPT ![n] = m]
            /\ late' = late
         \/ /\ late' = late \cup { [node |-> n, op |-> call[c].op, cmd |-> Command(c)] }
            /\ machine' = machine
    BY DEF TimedOut, GivenUp
<1>2. machine[n] \in Reached(Command(c), machine[n])
    BY DEF Reached
<1>3. CASE late' = late /\ \E m \in Reached(Command(c), machine[n]) :
                              machine' = [machine EXCEPT ![n] = m]
    BY <1>1, <1>3, GotSomewhere
<1>4. CASE /\ late' = late \cup { [node |-> n, op |-> call[c].op, cmd |-> Command(c)] }
           /\ machine' = machine
    BY <1>1, <1>4, OnItsWay
<1> QED BY <1>1, <1>2, <1>3, <1>4

\* A command that arrives late is the last of its operation, as far as the
\* flag goes: so no two of them stand for one operation of the contract.
LEMMA StrikeMaps ==
    ASSUME IInv, Remote, NEW l \in late, Strike(l)
    PROVE  Contract!Passes \/ \E p \in Abroad : Contract!Strikes(p)
<1> DEFINE n == l.node
           q == Effect(l.cmd, machine[n])
           Flags == { "open", "close", "evict" }
<1>1. /\ machine' = [machine EXCEPT ![n] = q] /\ late' = late \ { l } /\ told' = Idle
      /\ UNCHANGED <<backend, call>>
    BY DEF Strike
<1>2. /\ l \in Late /\ n \in Nodes /\ l.cmd \in Lasting /\ l.op \in MoreOperations
      /\ l.cmd \in Commands /\ machine[n] \in Machine /\ Sensible(machine[n])
    BY DEF IInv, TypeOK, Late, Commands
<1>3. q \in Machine
    BY <1>2, EffectFacts
<1>4. q.open <=> \/ l.cmd \in { "open", "mock_open" }
                 \/ l.cmd \notin { "close", "evict", "mock_close" } /\ machine[n].open
    BY <1>2, EffectFacts
<1>5. Waiting' = Waiting /\ Reported' = Idle
    BY <1>1 DEF Waiting, Reported, Remote
<1>6. CASE l.cmd \notin Flags
  <2>1. Abroad' = Abroad
      BY <1>1, <1>6 DEF Abroad
  <2>2. l.cmd \notin { "mock_open", "mock_close" }
      BY <1>2 DEF Lasting
  <2> HIDE DEF n, q
  <2>3. q.open = machine[n].open
      BY <1>2, <1>3, <1>4, <1>6, <2>2 DEF Machine
  <2>4. Opened' = Opened
      BY <1>1, <1>2, <1>3, <2>3, FlagShows
  <2> QED BY <1>5, <2>1, <2>4 DEF Contract!Passes
<1>7. CASE l.cmd \in Flags
  <2> DEFINE p == Wanted(l)
  <2>1. l.cmd = Last(backend, l.op)
      BY <1>7 DEF IInv, LateIsSent
  <2>2. p \in Abroad
      BY <1>7 DEF Abroad
  <2>3. \A x \in late : x.cmd \in Flags /\ Wanted(x) = p => x = l
    <3>1. SUFFICES ASSUME NEW x \in late, x.cmd \in Flags, Wanted(x) = p
                   PROVE  x = l
        OBVIOUS
    <3>2. x \in Late
        BY DEF IInv, TypeOK
    <3>3. x.node = l.node /\ x.op = l.op
        BY <3>1 DEF Wanted
    <3>4. x.cmd = l.cmd
        BY <2>1, <3>1, <3>3 DEF IInv, LateIsSent
    <3> QED BY <1>2, <3>2, <3>3, <3>4 DEF Late
  <2>4. p.node = n /\ p.op = l.op
      BY DEF Wanted
  <2>5. q.open \in Contract!Outcomes(l.op, machine[n].open)
      BY <1>2, <1>3, <2>1, OutcomeOfLast
  <2> HIDE DEF p, n, q
  <2>6. Abroad' = Abroad \ { p }
      BY <1>1, <2>3 DEF Abroad, p
  <2>7. Opened[n] = machine[n].open /\ Opened' = [Opened EXCEPT ![n] = q.open]
      BY <1>1, <1>2, <1>3, FlagShows
  <2>8. Contract!TakesEffect(p)
      BY <2>4, <2>5, <2>7 DEF Contract!TakesEffect
  <2> QED BY <1>5, <2>2, <2>6, <2>8 DEF Contract!Strikes
<1> QED BY <1>6, <1>7

\* The contract begins where the adapters begin.
LEMMA InitMaps ==
    ASSUME Init
    PROVE  Contract!Init
<1>1. Reported = Idle /\ Abroad = {}
    BY DEF Init, Reported, Abroad
<1>2. Waiting = [c \in Callers |-> Idle]
    BY DEF Init, Waiting
<1>3. Opened \in [Nodes -> BOOLEAN]
    BY DEF Init, Opened, NewMachine
<1> QED BY <1>1, <1>2, <1>3 DEF Contract!Init

\* Every step of the adapters is one of the contract, or stutters.
LEMMA StepMaps ==
    ASSUME IInv, [Next]_vars
    PROVE  [Contract!Next]_cvars
<1>1. CASE ~Remote
    BY <1>1, MocksAreSilent
<1>2. CASE Remote
  <2>1. ASSUME NEW c \in Callers, NEW n \in Nodes, NEW op \in MoreOperations, Start(c, n, op)
        PROVE  Contract!Next
      BY <1>2, <2>1, StartMaps DEF Contract!Next
  <2>2. ASSUME NEW c \in Callers, Done(c) \/ Refused(c) \/ TimedOut(c)
        PROVE  Contract!Next
      BY <1>2, <2>2, DoneMaps, RefusedMaps, TimedOutMaps DEF Contract!Next
  <2>3. ASSUME NEW l \in late, Strike(l)
        PROVE  Contract!Next
      BY <1>2, <2>3, StrikeMaps DEF Contract!Next
  <2>4. ASSUME NEW n \in Nodes, Register(n) \/ \E off \in BOOLEAN : InjectFault(n, off)
        PROVE  FALSE
      BY <1>2, <2>4 DEF Register, InjectFault, Remote
  <2>5. CASE UNCHANGED vars
      BY <2>5 DEF vars, cvars, Opened, Waiting, Abroad, Reported, Remote
  <2> QED BY <2>1, <2>2, <2>3, <2>4, <2>5 DEF Next
<1> QED BY <1>1, <1>2

(***************************************************************************)
(* For any number of machines, callers and calls: BCM, MAAS and Kubernetes *)
(* keep what adapters/base.py promises of a cordon, whatever time limits   *)
(* run out and whichever commands arrive late (_cmsh, _maas, _run).        *)
(***************************************************************************)
THEOREM ContractKept == Spec => KeepsContract
BY InitMaps, StepMaps, Invariance, PTL DEF Spec, KeepsContract, Contract!Spec, cvars
=============================================================================
