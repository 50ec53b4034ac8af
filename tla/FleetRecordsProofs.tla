------------------------- MODULE FleetRecordsProofs --------------------------
(***************************************************************************)
(* Theorems about the records, for every fleet, every set of workers and   *)
(* of incident names, every clock and any number of requests and visits.   *)
(* The inductive invariant is about the chains of writes under way: what a *)
(* write relies on either stands before it in its chain, or is written.    *)
(***************************************************************************)
EXTENDS FleetRecords, FleetViewsProofs, NodeLifecycleProofs, SequenceTheorems, FiniteSetTheorems

USE RecordsAssumption

\* The three sorts of writes that the invariant tells apart: halves of _write_yaml,
\* what a start seeds, and what only a maintenance plan writes
IsFile(w) == w.kind \in { "open", "close" }
IsPolicy(w) == w.kind = "policy" \/ (IsFile(w) /\ w.dir = "policies")
IsMaint(w) == IsFile(w) /\ w.dir = "maintenance"

\* What the files of a directory may be about
Named(dir) ==
    IF dir = "policies" THEN Policies ELSE IF dir = "incidents" THEN IncidentIds ELSE Nodes

\* Where a request that was made at this time is
RequestPath(dir, about, says, at) ==
    IF dir = "operation-requests" THEN Path(dir, about, says, at)
    ELSE IF dir = "maintenance" THEN Path(dir, about, "", at) ELSE Path(dir, about, "", 0)

\* A write as it stands for itself
Proper(w) ==
    /\ w \in Write
    /\ w.kind = "row" => Sound(w.row)
    /\ IsFile(w) => w.about \in Named(w.dir)
    /\ w.kind = "close" => w.path = RequestPath(w.dir, w.about, w.says, w.at)

\* What a write relies on is among those before it: the row of an event, the
\* row of an incident, the request of a cordon.
Follows(w, before) ==
    /\ w.kind = "event" =>
          \E x \in before : x.kind = "row" /\ x.about = w.about /\ x.row.state = w.to
    /\ IsFile(w) /\ w.dir = "incidents" =>
          \E x \in before : x.kind = "incident" /\ x.about = w.about
    /\ IsFile(w) /\ w.dir = "cordons" =>
          \E x \in before : /\ IsFile(x) /\ x.dir = "operation-requests"
                            /\ x.about = w.about /\ x.says = "day2_cordon"

\* The cordon of a node was requested, and the request has been written.
AskedToCordon(n) == \E a \in asked : a.about = n /\ a.says = "day2_cordon"

\* The same, or it is written.
Grounded(w, before, no) ==
    /\ w.kind = "event" =>
          \/ \E x \in before : x.kind = "row" /\ x.about = w.about /\ x.row.state = w.to
          \/ [about |-> w.about, to |-> w.to, no |-> no] \in saved
    /\ IsFile(w) /\ w.dir = "incidents" =>
          \/ \E x \in before : x.kind = "incident" /\ x.about = w.about
          \/ w.about \in incidents
    /\ IsFile(w) /\ w.dir = "cordons" =>
          \/ \E x \in before : /\ IsFile(x) /\ x.dir = "operation-requests"
                               /\ x.about = w.about /\ x.says = "day2_cordon"
          \/ AskedToCordon(w.about)

\* What stands before a place of a chain
Before(s, i) == { s[j] : j \in 1..(i - 1) }

-----------------------------------------------------------------------------
(* The plans *)

\* A write that a request or a visit may plan, with maintenance requests or without
Planned(w, maint) ==
    Proper(w) /\ ~IsPolicy(w) /\ w.kind # "close" /\ (IsMaint(w) => maint)

\* B may follow A.
Continues(A, B, maint) ==
    /\ B \in Seq(Write)
    /\ \A i \in 1..Len(B) :
          /\ Planned(B[i], maint) /\ B[i].kind # "event"
          /\ Follows(B[i], Before(B, i) \cup Before(A, Len(A) + 1))

\* What a request or a visit sets out to write: each write has what it relies on before
\* it, and an event comes second or not at all.
Plan(s, maint) ==
    /\ s \in Seq(Write) /\ Len(s) # 0
    /\ \A i \in 1..Len(s) : /\ Planned(s[i], maint) /\ Follows(s[i], Before(s, i))
                            /\ s[i].kind = "event" => i = 2

\* A write that relies on none
Plain(w) == w.kind # "event" /\ (IsFile(w) => w.dir \notin { "incidents", "cordons" })

\* What relies on nothing may stand anywhere.
LEMMA PlainFollows ==
    ASSUME NEW w, Plain(w), NEW before
    PROVE  Follows(w, before)
BY DEF Plain, Follows

\* More before a write does no harm.
LEMMA MoreBefore ==
    ASSUME NEW w, NEW before, NEW more, before \subseteq more, Follows(w, before)
    PROVE  Follows(w, more)
BY DEF Follows

\* A plan and what may follow it are a plan, which begins as before.
LEMMA PlanGoesOn ==
    ASSUME NEW A, NEW B, NEW maint, Plan(A, maint), Continues(A, B, maint)
    PROVE  /\ Plan(A \o B, maint) /\ (A \o B)[1] = A[1]
           /\ Len(A \o B) = Len(A) + Len(B)
           /\ \A i \in 1..Len(A \o B) : \/ i \in 1..Len(A) /\ (A \o B)[i] = A[i]
                                        \/ i - Len(A) \in 1..Len(B) /\ (A \o B)[i] = B[i - Len(A)]
<1> DEFINE s == A \o B
<1>1. A \in Seq(Write) /\ B \in Seq(Write) /\ Len(A) \in Nat /\ Len(B) \in Nat /\ Len(A) # 0
    BY DEF Plan, Continues
<1>2. /\ s \in Seq(Write) /\ Len(s) = Len(A) + Len(B)
      /\ \A i \in 1..Len(s) : s[i] = IF i <= Len(A) THEN A[i] ELSE B[i - Len(A)]
    BY <1>1, ConcatProperties
<1> HIDE DEF s
<1>3. \A i \in 1..Len(s) : \/ i \in 1..Len(A) /\ s[i] = A[i]
                           \/ i - Len(A) \in 1..Len(B) /\ s[i] = B[i - Len(A)]
    BY <1>1, <1>2
<1>4. ASSUME NEW i \in 1..Len(A)
      PROVE  /\ Planned(s[i], maint) /\ Follows(s[i], Before(s, i))
             /\ s[i].kind = "event" => i = 2
  <2>0. ASSUME NEW j \in 1..Len(A) PROVE s[j] = A[j]
    <3>1. j \in 1..Len(s) /\ j <= Len(A)
        BY <1>1, <1>2
    <3> QED BY <1>2, <3>1
  <2>1. s[i] = A[i] /\ \A j \in 1..(i - 1) : s[j] = A[j]
    <3>1. 1..(i - 1) \subseteq 1..Len(A)
        BY <1>1
    <3> QED BY <2>0, <3>1
  <2>2. Before(s, i) = Before(A, i)
      BY <2>1 DEF Before
  <2>3. /\ Planned(A[i], maint) /\ Follows(A[i], Before(A, i))
        /\ A[i].kind = "event" => i = 2
      BY DEF Plan
  <2> QED BY <2>1, <2>2, <2>3
<1>5. ASSUME NEW i \in (Len(A) + 1)..Len(s)
      PROVE  /\ Planned(s[i], maint) /\ Follows(s[i], Before(s, i))
             /\ s[i].kind # "event"
  <2> DEFINE k == i - Len(A)
  <2>1. k \in 1..Len(B) /\ s[i] = B[k]
      BY <1>1, <1>2
  <2>2. Before(A, Len(A) + 1) \subseteq Before(s, i)
    <3>1. SUFFICES ASSUME NEW j \in 1..(Len(A) + 1 - 1)
                   PROVE  A[j] \in Before(s, i)
        BY DEF Before
    <3>2. j \in 1..(i - 1) /\ s[j] = A[j]
        BY <1>1, <1>2
    <3> QED BY <3>2 DEF Before
  <2>3. Before(B, k) \subseteq Before(s, i)
    <3>1. SUFFICES ASSUME NEW j \in 1..(k - 1)
                   PROVE  B[j] \in Before(s, i)
        BY DEF Before
    <3> DEFINE l == j + Len(A)
    <3>2. l \in 1..(i - 1) /\ l \in 1..Len(s) /\ ~(l <= Len(A)) /\ l - Len(A) = j
        BY <1>1, <1>2, <2>1
    <3> HIDE DEF l
    <3>3. s[l] = B[j]
        BY <1>2, <3>2
    <3> QED BY <3>2, <3>3 DEF Before
  <2>4. /\ Planned(B[k], maint) /\ Follows(B[k], Before(B, k) \cup Before(A, Len(A) + 1))
        /\ B[k].kind # "event"
      BY <2>1 DEF Continues
  <2> HIDE DEF k
  <2> QED BY <2>1, <2>2, <2>3, <2>4, MoreBefore
<1>6. Plan(s, maint)
    BY <1>1, <1>2, <1>4, <1>5 DEF Plan
<1> QED BY <1>1, <1>2, <1>3, <1>6 DEF s

\* Two writes, the second of which may rely on the first
LEMMA PlanOfTwo ==
    ASSUME NEW maint, NEW a, NEW b, Planned(a, maint), Planned(b, maint), Plain(a),
           Follows(b, { a })
    PROVE  Plan(<<a, b>>, maint)
<1> DEFINE s == <<a, b>>
<1>1. a \in Write /\ b \in Write
    BY DEF Planned, Proper
<1>2. s \in Seq(Write) /\ Len(s) = 2 /\ s[1] = a /\ s[2] = b
    BY <1>1
<1> HIDE DEF s
<1>3. Before(s, 2) = { a }
    BY <1>2 DEF Before
<1>4. Follows(s[1], Before(s, 1))
    BY <1>2, PlainFollows
<1>5. Follows(s[2], Before(s, 2))
    BY <1>2, <1>3
<1>6. \A i \in 1..Len(s) : /\ Planned(s[i], maint) /\ Follows(s[i], Before(s, i))
                           /\ s[i].kind = "event" => i = 2
  <2>1. \A i \in 1..Len(s) : i = 1 \/ i = 2
      BY <1>2
  <2>2. s[1].kind # "event"
      BY <1>2 DEF Plain
  <2> QED BY <1>2, <1>4, <1>5, <2>1, <2>2
<1> QED BY <1>2, <1>6 DEF Plan, s

\* A write that relies on none is a plan.
LEMMA PlanOfOne ==
    ASSUME NEW maint, NEW a, Planned(a, maint), Plain(a)
    PROVE  Plan(<<a>>, maint)
<1> DEFINE s == <<a>>
<1>1. a \in Write
    BY DEF Planned, Proper
<1>2. s \in Seq(Write) /\ Len(s) = 1 /\ s[1] = a
    BY <1>1
<1> HIDE DEF s
<1>3. \A i \in 1..Len(s) : i = 1
    BY <1>2
<1>4. Follows(s[1], Before(s, 1))
    BY <1>2, PlainFollows
<1>5. s[1].kind # "event"
    BY <1>2 DEF Plain
<1> QED BY <1>2, <1>3, <1>4, <1>5 DEF Plan, s

\* What relies on nothing, or on what is already there, may follow anything.
LEMMA ContinuesAnyway ==
    ASSUME NEW maint, NEW A, NEW B \in Seq(Write),
           \A i \in 1..Len(B) :
              /\ Planned(B[i], maint) /\ B[i].kind # "event"
              /\ Plain(B[i]) \/ Follows(B[i], Before(A, Len(A) + 1))
    PROVE  Continues(A, B, maint)
<1>1. ASSUME NEW i \in 1..Len(B)
      PROVE  Follows(B[i], Before(B, i) \cup Before(A, Len(A) + 1))
  <2>1. CASE Plain(B[i])
      BY <2>1, PlainFollows
  <2>2. CASE Follows(B[i], Before(A, Len(A) + 1))
      BY <2>2, MoreBefore
  <2> QED BY <2>1, <2>2
<1> QED BY <1>1 DEF Continues

\* One write, or two, that rely on none may follow any plan.
LEMMA ContinuesOne ==
    ASSUME NEW maint, NEW A, NEW a, Planned(a, maint), Plain(a)
    PROVE  Continues(A, <<a>>, maint)
<1> DEFINE s == <<a>>
<1>1. a \in Write
    BY DEF Planned, Proper
<1>2. s \in Seq(Write) /\ Len(s) = 1 /\ s[1] = a
    BY <1>1
<1> HIDE DEF s
<1>3. \A i \in 1..Len(s) : s[i] = a
    BY <1>2
<1>4. a.kind # "event"
    BY DEF Plain
<1> QED BY <1>2, <1>3, <1>4, ContinuesAnyway DEF s

\* The same for a continuation of two
LEMMA ContinuesTwo ==
    ASSUME NEW maint, NEW A, NEW a, NEW b, Planned(a, maint), Plain(a),
           Planned(b, maint), Plain(b)
    PROVE  Continues(A, <<a, b>>, maint)
<1> DEFINE s == <<a, b>>
<1>1. a \in Write /\ b \in Write
    BY DEF Planned, Proper
<1>2. s \in Seq(Write) /\ Len(s) = 2 /\ s[1] = a /\ s[2] = b
    BY <1>1
<1> HIDE DEF s
<1>3. \A i \in 1..Len(s) : s[i] = a \/ s[i] = b
  <2>1. \A i \in 1..Len(s) : i = 1 \/ i = 2
      BY <1>2
  <2> QED BY <1>2, <2>1
<1>4. a.kind # "event" /\ b.kind # "event"
    BY DEF Plain
<1> QED BY <1>2, <1>3, <1>4, ContinuesAnyway DEF s

\* The first may rely on what went before.
LEMMA ContinuesFour ==
    ASSUME NEW maint, NEW A, NEW a, NEW b, NEW c, NEW d, Planned(a, maint),
           Planned(b, maint), Planned(c, maint), Planned(d, maint),
           Follows(a, Before(A, Len(A) + 1)), a.kind # "event", Plain(b), Plain(c), Plain(d)
    PROVE  Continues(A, <<a, b, c, d>>, maint)
<1> DEFINE s == <<a, b, c, d>>
<1>1. a \in Write /\ b \in Write /\ c \in Write /\ d \in Write
    BY DEF Planned, Proper
<1>2. s \in Seq(Write) /\ Len(s) = 4 /\ s[1] = a /\ s[2] = b /\ s[3] = c /\ s[4] = d
    BY <1>1
<1> HIDE DEF s
<1>3. \A i \in 1..Len(s) : s[i] = a \/ s[i] = b \/ s[i] = c \/ s[i] = d
  <2>1. \A i \in 1..Len(s) : i = 1 \/ i = 2 \/ i = 3 \/ i = 4
      BY <1>2
  <2> QED BY <1>2, <2>1
<1>4. b.kind # "event" /\ c.kind # "event" /\ d.kind # "event"
    BY DEF Plain
<1>5. ASSUME NEW i \in 1..Len(s)
      PROVE  /\ Planned(s[i], maint) /\ s[i].kind # "event"
             /\ Plain(s[i]) \/ Follows(s[i], Before(A, Len(A) + 1))
  <2>1. PICK x : x = s[i]
      OBVIOUS
  <2>2. x = a \/ x = b \/ x = c \/ x = d
      BY <1>3, <2>1
  <2>3. /\ Planned(x, maint) /\ x.kind # "event"
        /\ Plain(x) \/ Follows(x, Before(A, Len(A) + 1))
      BY <1>4, <2>2
  <2> QED BY <2>1, <2>3
<1> QED BY <1>2, <1>5, ContinuesAnyway DEF s

\* The fourth may rely on the first.
LEMMA ContinuesFive ==
    ASSUME NEW maint, NEW A, NEW a, NEW b, NEW c, NEW d, NEW e, Planned(a, maint),
           Planned(b, maint), Planned(c, maint), Planned(d, maint), Planned(e, maint),
           Plain(a), Plain(b), Plain(c), Follows(d, { a }), d.kind # "event", Plain(e)
    PROVE  Continues(A, <<a, b, c, d, e>>, maint)
<1> DEFINE s == <<a, b, c, d, e>>
<1>1. a \in Write /\ b \in Write /\ c \in Write /\ d \in Write /\ e \in Write
    BY DEF Planned, Proper
<1>2. /\ s \in Seq(Write) /\ Len(s) = 5
      /\ s[1] = a /\ s[2] = b /\ s[3] = c /\ s[4] = d /\ s[5] = e
    BY <1>1
<1> HIDE DEF s
<1>3. \A i \in 1..Len(s) : Planned(s[i], maint) /\ (i = 4 \/ Plain(s[i]))
  <2>1. \A i \in 1..Len(s) : i = 1 \/ i = 2 \/ i = 3 \/ i = 4 \/ i = 5
      BY <1>2
  <2> QED BY <1>2, <2>1
<1>4. Follows(s[4], Before(s, 4) \cup Before(A, Len(A) + 1))
  <2>1. { a } \subseteq Before(s, 4)
      BY <1>2 DEF Before
  <2> QED BY <1>2, <2>1, MoreBefore
<1>5. \A i \in 1..Len(s) : Follows(s[i], Before(s, i) \cup Before(A, Len(A) + 1))
    BY <1>3, <1>4, PlainFollows
<1>6. \A i \in 1..Len(s) : s[i].kind # "event"
  <2>1. \A i \in 1..Len(s) : i = 4 \/ s[i].kind # "event"
      BY <1>3 DEF Plain
  <2> QED BY <1>2, <2>1
<1> QED BY <1>2, <1>3, <1>5, <1>6 DEF Continues, s

\* The writes that plans are made of
LEMMA RowPlanned ==
    ASSUME NEW n \in Nodes, NEW r, Sound(r), NEW maint
    PROVE  Planned(RowOf(n, r), maint) /\ Plain(RowOf(n, r))
<1>1. r \in Row
    BY DEF Sound
<1>2. RowOf(n, r) \in Write
    BY <1>1 DEF RowOf, Write
<1> QED BY <1>2 DEF Planned, Proper, Plain, IsFile, IsPolicy, IsMaint, RowOf

\* The writes that plans are made of: an event, an alert, an incident, a file
\* and the files of the operators
LEMMA EventPlanned ==
    ASSUME NEW n \in Nodes, NEW r, r.state \in State, NEW e, e.to \in State, NEW maint
    PROVE  Planned(EventOf(n, r, e), maint)
<1>1. EventOf(n, r, e) \in Write
    BY DEF EventOf, Write
<1> QED BY <1>1 DEF Planned, Proper, Plain, IsFile, IsPolicy, IsMaint, EventOf

\* An alert
LEMMA AlertPlanned ==
    ASSUME NEW n \in Nodes, NEW maint
    PROVE  Planned(Alert(n), maint) /\ Plain(Alert(n))
<1>1. Alert(n) \in Write
    BY DEF Alert, Write
<1> QED BY <1>1 DEF Planned, Proper, Plain, IsFile, IsPolicy, IsMaint, Alert

\* A row of the incident queue
LEMMA IncidentPlanned ==
    ASSUME NEW id \in IncidentIds, NEW maint
    PROVE  Planned(IncidentRow(id), maint) /\ Plain(IncidentRow(id))
<1>1. IncidentRow(id) \in Write
    BY DEF IncidentRow, Write
<1> QED BY <1>1 DEF Planned, Proper, Plain, IsFile, IsPolicy, IsMaint, IncidentRow

\* A file
LEMMA FilePlanned ==
    ASSUME NEW dir \in Directories, dir # "policies", NEW about \in Named(dir),
           NEW says \in Words, NEW maint, dir = "maintenance" => maint
    PROVE  /\ Planned(File(dir, about, says), maint)
           /\ dir \notin { "incidents", "cordons" } => Plain(File(dir, about, says))
<1>1. about \in Subjects
    BY DEF Named, Subjects
<1>2. File(dir, about, says) \in Write
    BY <1>1 DEF File, Write
<1> QED BY <1>2 DEF Planned, Proper, Plain, IsFile, IsPolicy, IsMaint, File

\* A request to an operator of the site
LEMMA AskPlanned ==
    ASSUME NEW n \in Nodes, NEW maint,
           NEW op \in { "day2_cordon", "day2_uncordon", "debug_bundle", "burnin_suite" }
    PROVE  Planned(Ask(n, op), maint) /\ Plain(Ask(n, op))
<1>1. /\ "operation-requests" \in Directories /\ n \in Named("operation-requests")
      /\ op \in Words
    BY DEF Directories, Named, Words
<1> QED BY <1>1, FilePlanned DEF Ask

\* A desired state
LEMMA DesirePlanned ==
    ASSUME NEW n \in Nodes, NEW state \in State, NEW maint
    PROVE  Planned(Desire(n, state), maint) /\ Plain(Desire(n, state))
<1>1. /\ "desired-state" \in Directories /\ n \in Named("desired-state")
      /\ state \in Words
    BY DEF Directories, Named, Words
<1> QED BY <1>1, FilePlanned DEF Desire

\* The file of a cordon
LEMMA CordonPlanned ==
    ASSUME NEW n \in Nodes, NEW maint
    PROVE  /\ Planned(CordonFile(n), maint) /\ CordonFile(n).kind # "event"
           /\ \A before : Ask(n, "day2_cordon") \in before => Follows(CordonFile(n), before)
<1>1. "cordons" \in Directories /\ n \in Named("cordons") /\ "P0" \in Words
    BY DEF Directories, Named, Words
<1>2. Planned(CordonFile(n), maint)
    BY <1>1, FilePlanned DEF CordonFile
<1> QED BY <1>2 DEF Follows, IsFile, CordonFile, File, Ask

\* db.save_node; db.save_event: the event names the state that is saved.
LEMMA SavedPlan ==
    ASSUME NEW n \in Nodes, NEW r, Sound(r), NEW e \in Transitions, Permitted(r, e), NEW maint
    PROVE  /\ Plan(Saved(n, r, e), maint)
           /\ Saved(n, r, e)[1] = RowOf(n, After(r, e))
<1>1. Sound(After(r, e)) /\ After(r, e).state = e.to
    BY AfterSound
<1>2. r.state \in State /\ e.to \in State
    BY EdgeTypes DEF Sound, Row
<1> DEFINE a == RowOf(n, After(r, e))
           b == EventOf(n, r, e)
<1>3. Planned(a, maint) /\ Plain(a) /\ Planned(b, maint)
    BY <1>1, <1>2, RowPlanned, EventPlanned
<1>4. Follows(b, { a })
    BY <1>1 DEF Follows, IsFile, RowOf, EventOf
<1>5. Plan(<<a, b>>, maint)
  <2> HIDE DEF a, b
  <2> QED BY <1>3, <1>4, PlanOfTwo
<1> QED BY <1>5 DEF Saved

\* A transition that is allowed is one of the table, and its guard holds.
LEMMA AllowedFacts ==
    ASSUME NEW r, NEW triggers, NEW e \in Allowed(r, triggers)
    PROVE  e \in Transitions /\ Permitted(r, e)
BY DEF Allowed

\* POST .../transition plans the row and the event.
LEMMA TransitionPlanned ==
    ASSUME NEW n \in Nodes, NEW r, Sound(r), NEW s \in TransitionPlans(n, r)
    PROVE  Plan(s, FALSE)
<1>1. PICK e \in Allowed(r, ClientTriggers) : s = Saved(n, r, e)
    BY DEF TransitionPlans
<1>2. e \in Transitions /\ Permitted(r, e)
    BY AllowedFacts
<1> QED BY <1>1, <1>2, SavedPlan

\* The operator's own: a transition, its files and an alert
LEMMA TimeoutPlanned ==
    ASSUME NEW n \in Nodes, NEW r, Sound(r), NEW s \in TimeoutPlans(n, r)
    PROVE  /\ Plan(s, TRUE)
           /\ s[1].kind = "row"
<1>1. PICK e \in Transitions : /\ Permitted(r, e)
        /\ s = Saved(n, r, e) \o << Desire(n, e.to) >>
                \o (IF e.to = "emergency_drain" THEN << Ask(n, "day2_cordon") >> ELSE << >>)
                \o << Alert(n) >>
    BY DEF TimeoutPlans, Allowed
<1> DEFINE A == Saved(n, r, e)
           B == A \o << Desire(n, e.to) >>
           M == IF e.to = "emergency_drain" THEN << Ask(n, "day2_cordon") >> ELSE << >>
           C == B \o M
<1>2. Plan(A, TRUE) /\ A[1] = RowOf(n, After(r, e))
    BY <1>1, SavedPlan
<1>3. Continues(A, << Desire(n, e.to) >>, TRUE)
    BY EdgeTypes, DesirePlanned, ContinuesOne
<1>4. s = C \o << Alert(n) >>
    BY <1>1
<1> HIDE DEF A
<1>5. Plan(B, TRUE) /\ B[1] = A[1]
    BY <1>2, <1>3, PlanGoesOn
<1> HIDE DEF B
<1>6. Continues(B, M, TRUE)
  <2>1. CASE e.to = "emergency_drain"
      BY <2>1, AskPlanned, ContinuesOne
  <2>2. CASE e.to # "emergency_drain"
    <3>1. << >> \in Seq(Write) /\ Len(<< >>) = 0
        OBVIOUS
    <3> QED BY <2>2, <3>1 DEF Continues
  <2> QED BY <2>1, <2>2
<1> HIDE DEF M
<1>7. Plan(C, TRUE) /\ C[1] = B[1]
    BY <1>5, <1>6, PlanGoesOn
<1> HIDE DEF C
<1>8. Continues(C, << Alert(n) >>, TRUE)
    BY AlertPlanned, ContinuesOne
<1>9. Plan(s, TRUE) /\ s[1] = C[1]
    BY <1>4, <1>7, <1>8, PlanGoesOn
<1>10. RowOf(n, After(r, e)).kind = "row"
    BY DEF RowOf
<1>11. s[1] = RowOf(n, After(r, e))
    BY <1>2, <1>5, <1>7, <1>9
<1> QED BY <1>9, <1>10, <1>11

\* A maintenance repair: the transition, the debug bundle, the desired state
LEMMA RepairPlanned ==
    ASSUME NEW n \in Nodes, NEW r, Sound(r), NEW s \in RepairPlans(n, r)
    PROVE  Plan(s, TRUE)
<1>1. PICK e \in Transitions : /\ Permitted(r, e)
        /\ s = Saved(n, r, e) \o << Ask(n, "debug_bundle"), Desire(n, "repair") >>
    BY DEF RepairPlans, Allowed
<1>2. Plan(Saved(n, r, e), TRUE)
    BY <1>1, SavedPlan
<1>3. Continues(Saved(n, r, e), << Ask(n, "debug_bundle"), Desire(n, "repair") >>, TRUE)
  <2>1. "repair" \in State
      BY DEF State
  <2> QED BY <2>1, AskPlanned, DesirePlanned, ContinuesTwo
<1> QED BY <1>1, <1>2, <1>3, PlanGoesOn

\* A test that is scheduled: the transition, the suite, the desired state
LEMMA SchedulePlanned ==
    ASSUME NEW n \in Nodes, NEW r, Sound(r), NEW s \in SchedulePlans(n, r)
    PROVE  Plan(s, TRUE)
<1>1. PICK e \in Transitions : /\ Permitted(r, e)
        /\ s = Saved(n, r, e) \o << Ask(n, "burnin_suite"), Desire(n, "testing") >>
    BY DEF SchedulePlans, Allowed
<1>2. Plan(Saved(n, r, e), TRUE)
    BY <1>1, SavedPlan
<1>3. Continues(Saved(n, r, e), << Ask(n, "burnin_suite"), Desire(n, "testing") >>, TRUE)
  <2>1. "testing" \in State
      BY DEF State
  <2> QED BY <2>1, AskPlanned, DesirePlanned, ContinuesTwo
<1> QED BY <1>1, <1>2, <1>3, PlanGoesOn

\* A test that is passed: the transition, the desired state, the uncordon
LEMMA PassPlanned ==
    ASSUME NEW n \in Nodes, NEW r, Sound(r), NEW s \in PassPlans(n, r)
    PROVE  Plan(s, TRUE)
<1>1. PICK e \in Transitions : /\ Permitted(r, e)
        /\ s = Saved(n, r, e) \o << Desire(n, "certified_ready"), Ask(n, "day2_uncordon") >>
    BY DEF PassPlans, Allowed
<1>2. Plan(Saved(n, r, e), TRUE)
    BY <1>1, SavedPlan
<1>3. Continues(Saved(n, r, e), << Desire(n, "certified_ready"), Ask(n, "day2_uncordon") >>, TRUE)
  <2>1. "certified_ready" \in State
      BY DEF State
  <2> QED BY <2>1, AskPlanned, DesirePlanned, ContinuesTwo
<1> QED BY <1>1, <1>2, <1>3, PlanGoesOn

\* The cordon's file comes after the request for the cordon.
LEMMA FailPlanned ==
    ASSUME NEW n \in Nodes, NEW r, Sound(r), NEW s \in FailPlans(n, r)
    PROVE  Plan(s, TRUE)
<1> DEFINE B == << Ask(n, "day2_cordon"), Ask(n, "debug_bundle"), Desire(n, "repair"),
                   CordonFile(n), Alert(n) >>
<1>1. PICK e \in Transitions : Permitted(r, e) /\ s = Saved(n, r, e) \o B
    BY DEF FailPlans, Allowed
<1>2. Plan(Saved(n, r, e), TRUE)
    BY <1>1, SavedPlan
<1>3. Continues(Saved(n, r, e), B, TRUE)
  <2>1. "repair" \in State
      BY DEF State
  <2>2. /\ Planned(Ask(n, "day2_cordon"), TRUE) /\ Plain(Ask(n, "day2_cordon"))
        /\ Planned(Ask(n, "debug_bundle"), TRUE) /\ Plain(Ask(n, "debug_bundle"))
        /\ Planned(Desire(n, "repair"), TRUE) /\ Plain(Desire(n, "repair"))
        /\ Planned(Alert(n), TRUE) /\ Plain(Alert(n))
      BY <2>1, AskPlanned, DesirePlanned, AlertPlanned
  <2>3. /\ Planned(CordonFile(n), TRUE) /\ CordonFile(n).kind # "event"
        /\ Follows(CordonFile(n), { Ask(n, "day2_cordon") })
      BY CordonPlanned
  <2> QED BY <2>2, <2>3, ContinuesFive
<1> HIDE DEF B
<1> QED BY <1>1, <1>2, <1>3, PlanGoesOn

\* So it does when a node is found in a critical state.
LEMMA CriticalPlanned ==
    ASSUME NEW n \in Nodes, NEW r, Sound(r)
    PROVE  Plan(CriticalPlan(n, r), TRUE)
<1> DEFINE q == Cordoned(r, "nlm-reconciler", 0)
           exits == IF r.state \in { "certified_ready", "testing", "burn_in" }
                    THEN Allowed(r, { "burn_in_fail", "l1_fail" }) ELSE {}
           kept == IF exits # {} THEN After(q, CHOOSE e \in exits : TRUE) ELSE q
           A == << Ask(n, "day2_cordon") >>
           M == IF kept.state = "repair" THEN << Ask(n, "debug_bundle") >> ELSE << >>
           B == A \o M
           C == << CordonFile(n), Desire(n, kept.state), Alert(n), RowOf(n, kept) >>
<1>1. CriticalPlan(n, r) = B \o C
    BY DEF CriticalPlan
<1>2. Sound(q)
  <2>1. "nlm-reconciler" \in Owner /\ 0 \in Priority
      BY DEF Owner, Priority
  <2> QED BY <2>1, CordonedSound
<1>3. Sound(kept)
  <2>1. CASE exits = {}
      BY <1>2, <2>1
  <2>2. CASE exits # {}
    <3> DEFINE e == CHOOSE x \in exits : TRUE
    <3>1. e \in exits
        BY <2>2
    <3>2. e \in Transitions /\ Permitted(r, e)
        BY <3>1, AllowedFacts
    <3>3. Permitted(q, e)
        BY <3>2 DEF Permitted, Cordoned
    <3> HIDE DEF q, exits, e
    <3>4. Sound(After(q, e))
        BY <1>2, <3>2, <3>3, AfterSound
    <3> QED BY <2>2, <3>4 DEF e
  <2> QED BY <2>1, <2>2
<1> HIDE DEF kept
<1>4. kept.state \in State
    BY <1>3 DEF Sound, Row
<1>5. Plan(A, TRUE) /\ A[1] = Ask(n, "day2_cordon")
  <2>1. Plan(A, TRUE)
      BY AskPlanned, PlanOfOne
  <2> QED BY <2>1
<1> HIDE DEF A
<1>6. Continues(A, M, TRUE)
  <2>1. CASE kept.state = "repair"
      BY <2>1, AskPlanned, ContinuesOne
  <2>2. CASE kept.state # "repair"
    <3>1. << >> \in Seq(Write) /\ Len(<< >>) = 0
        OBVIOUS
    <3> QED BY <2>2, <3>1 DEF Continues
  <2> QED BY <2>1, <2>2
<1> HIDE DEF M
<1>7. Plan(B, TRUE) /\ B[1] = A[1]
    BY <1>5, <1>6, PlanGoesOn
<1> HIDE DEF B
<1>8. Continues(B, C, TRUE)
  <2>1. /\ Planned(Desire(n, kept.state), TRUE) /\ Plain(Desire(n, kept.state))
        /\ Planned(Alert(n), TRUE) /\ Plain(Alert(n))
        /\ Planned(RowOf(n, kept), TRUE) /\ Plain(RowOf(n, kept))
      BY <1>3, <1>4, DesirePlanned, AlertPlanned, RowPlanned
  <2>2. Ask(n, "day2_cordon") \in Before(B, Len(B) + 1)
    <3>1. Len(B) \in Nat /\ Len(B) # 0
        BY <1>7 DEF Plan
    <3>2. 1 \in 1..(Len(B) + 1 - 1)
        BY <3>1
    <3> QED BY <1>5, <1>7, <3>2 DEF Before
  <2>3. /\ Planned(CordonFile(n), TRUE) /\ CordonFile(n).kind # "event"
        /\ Follows(CordonFile(n), Before(B, Len(B) + 1))
      BY <2>2, CordonPlanned
  <2> QED BY <2>1, <2>3, ContinuesFour
<1> HIDE DEF C, q, exits
<1>9. Plan(B \o C, TRUE)
    BY <1>7, <1>8, PlanGoesOn
<1> QED BY <1>1, <1>9

\* The only plan with a maintenance request
LEMMA CustomerPlanned ==
    ASSUME NEW n \in Nodes, NEW r, Sound(r)
    PROVE  Plan(CustomerPlan(n, r), TRUE)
<1> DEFINE a == File("maintenance", n, "awaiting")
           s == << a, Alert(n), RowOf(n, r) >>
<1>1. Planned(a, TRUE) /\ Plain(a)
  <2>1. /\ "maintenance" \in Directories /\ n \in Named("maintenance")
        /\ "awaiting" \in Words
      BY DEF Directories, Named, Words
  <2> QED BY <2>1, FilePlanned
<1>2. /\ Planned(Alert(n), TRUE) /\ Plain(Alert(n))
      /\ Planned(RowOf(n, r), TRUE) /\ Plain(RowOf(n, r))
    BY AlertPlanned, RowPlanned
<1> HIDE DEF a
<1>3. a \in Write /\ Alert(n) \in Write /\ RowOf(n, r) \in Write
    BY <1>1, <1>2 DEF Planned, Proper
<1>4. /\ s \in Seq(Write) /\ Len(s) = 3
      /\ s[1] = a /\ s[2] = Alert(n) /\ s[3] = RowOf(n, r)
    BY <1>3
<1> HIDE DEF s
<1>5. \A i \in 1..Len(s) : i = 1 \/ i = 2 \/ i = 3
    BY <1>4
<1>6. \A i \in 1..Len(s) : Planned(s[i], TRUE) /\ Plain(s[i])
    BY <1>1, <1>2, <1>4, <1>5
<1>7. Plan(s, TRUE)
  <2>1. \A i \in 1..Len(s) : Follows(s[i], Before(s, i))
      BY <1>6, PlainFollows
  <2>2. \A i \in 1..Len(s) : /\ Planned(s[i], TRUE) /\ Follows(s[i], Before(s, i))
                             /\ s[i].kind # "event"
      BY <1>6, <2>1 DEF Plain
  <2>3. Len(s) # 0
      BY <1>4
  <2> QED BY <1>4, <2>2, <2>3 DEF Plan
<1> QED BY <1>7 DEF s, a, CustomerPlan

\* Whatever an operator makes of a row, it is a plan.
LEMMA VisitPlanned ==
    ASSUME NEW n \in Nodes, NEW r, Sound(r), NEW op, NEW kind \in VisitsOf(op),
           op \in { "reconciler", "maintenance", "testing" }, NEW s \in VisitPlans(kind, n, r)
    PROVE  Plan(s, TRUE) /\ (kind = "timeout" => s[1].kind = "row")
<1>1. kind \in { "critical", "timeout", "repair", "schedule", "pass", "fail" }
    BY DEF VisitsOf
<1>2. CASE kind = "timeout"
    BY <1>2, TimeoutPlanned DEF VisitPlans
<1>3. CASE kind = "repair"
    BY <1>3, RepairPlanned DEF VisitPlans
<1>4. CASE kind = "schedule"
    BY <1>4, SchedulePlanned DEF VisitPlans
<1>5. CASE kind = "pass"
    BY <1>5, PassPlanned DEF VisitPlans
<1>6. CASE kind = "fail"
    BY <1>6, FailPlanned DEF VisitPlans
<1>7. CASE kind = "critical"
  <2>1. s \in { CustomerPlan(n, r), CriticalPlan(n, r) }
      BY <1>7 DEF VisitPlans, CriticalPlans
  <2> QED BY <1>7, <2>1, CustomerPlanned, CriticalPlanned
<1> QED BY <1>1, <1>2, <1>3, <1>4, <1>5, <1>6, <1>7

\* A function on 1..N is a sequence of N.
LEMMA ByIndex ==
    ASSUME NEW S, NEW N \in Nat, NEW s \in [1..N -> S]
    PROVE  s \in Seq(S) /\ Len(s) = N
BY SeqDef, LenProperties

\* A finite set as a sequence
LEMMA Listing ==
    ASSUME NEW S, IsFiniteSet(S)
    PROVE  /\ Cardinality(S) \in Nat
           /\ SetToSeq(S) \in [1..Cardinality(S) -> S]
           /\ \A i \in 1..Cardinality(S) : SetToSeq(S)[i] \in S
<1>1. Cardinality(S) \in Nat /\ ExistsBijection(1..Cardinality(S), S)
    BY FS_CardinalityType
<1>2. PICK f \in Bijection(1..Cardinality(S), S) : TRUE
    BY <1>1 DEF ExistsBijection
<1>3. f \in [1..Cardinality(S) -> S] /\ IsInjective(f)
    BY <1>2 DEF Bijection, Injection, IsInjective
<1>4. SetToSeq(S) \in [1..Cardinality(S) -> S]
    BY <1>3 DEF SetToSeq
<1> QED BY <1>1, <1>4

\* The incidents that are found, in the order they are saved
LEMMA FoundListed ==
    ASSUME NEW found \in SUBSET IncidentIds
    PROVE  /\ Cardinality(found) \in Nat
           /\ \A i \in 1..Cardinality(found) : SetToSeq(found)[i] \in IncidentIds
<1>1. IsFiniteSet(found)
    BY FS_Subset
<1> QED BY <1>1, Listing

\* Faults: an alert, the incidents, the row
LEMMA OtherPlanned ==
    ASSUME NEW n \in Nodes, NEW r, Sound(r), NEW found \in SUBSET IncidentIds,
           NEW s \in OtherPlans(n, r, found)
    PROVE  Plan(s, FALSE)
<1>1. "nlm-controller" \in Owner /\ 4 \in Priority
    BY ControllerOwns DEF Priority
<1>2. /\ Sound(Cordoned(r, "nlm-controller", 4)) /\ Sound(Uncordoned(r))
      /\ Sound(Injected(r, TRUE))
    BY <1>1, CordonedSound, UncordonedSound, InjectedSound
<1>3. \A q : Sound(q) => Plan(<< RowOf(n, q) >>, FALSE)
    BY RowPlanned, PlanOfOne
<1> DEFINE A == << Alert(n) >>
           M == IncidentRows(found)
           B == A \o M
           C == << RowOf(n, Injected(r, TRUE)) >>
<1>4. CASE s = B \o C
  <2>1. Plan(A, FALSE)
      BY AlertPlanned, PlanOfOne
  <2>2. Continues(A, M, FALSE)
    <3>1. /\ M = [i \in 1..Cardinality(found) |-> IncidentRow(SetToSeq(found)[i])]
          /\ Cardinality(found) \in Nat
        BY FoundListed DEF IncidentRows
    <3>2. \A i \in 1..Cardinality(found) : Planned(M[i], FALSE) /\ Plain(M[i])
      <4>1. ASSUME NEW i \in 1..Cardinality(found)
            PROVE  Planned(M[i], FALSE) /\ Plain(M[i])
        <5>1. PICK id \in IncidentIds : id = SetToSeq(found)[i]
            BY FoundListed
        <5>2. M[i] = IncidentRow(id)
            BY <3>1, <5>1
        <5>3. Planned(IncidentRow(id), FALSE) /\ Plain(IncidentRow(id))
            BY IncidentPlanned
        <5> QED BY <5>2, <5>3
      <4> QED BY <4>1
    <3> HIDE DEF M, A
    <3>3. \A i \in 1..Cardinality(found) : M[i] \in Write
        BY <3>2 DEF Planned, Proper
    <3>4. M \in Seq(Write) /\ Len(M) = Cardinality(found)
      <4>1. M \in [1..Cardinality(found) -> Write]
          BY <3>1, <3>3
      <4> QED BY <3>1, <4>1, ByIndex
    <3>5. \A i \in 1..Cardinality(found) : M[i].kind # "event"
        BY <3>2 DEF Plain
    <3> QED BY <3>2, <3>4, <3>5, ContinuesAnyway
  <2> HIDE DEF A, M
  <2>3. Plan(B, FALSE)
      BY <2>1, <2>2, PlanGoesOn
  <2>4. Continues(B, C, FALSE)
    <3> HIDE DEF B
    <3> QED BY <1>2, RowPlanned, ContinuesOne
  <2> HIDE DEF B, C
  <2>5. Plan(B \o C, FALSE)
      BY <2>3, <2>4, PlanGoesOn
  <2> QED BY <1>4, <2>5
<1>5. s \in { << RowOf(n, Cordoned(r, "nlm-controller", 4)) >>, << RowOf(n, Uncordoned(r)) >>,
              B \o C }
    BY DEF OtherPlans
<1> QED BY <1>2, <1>3, <1>4, <1>5

\* The file of an incident comes after its row.
LEMMA IncidentsPlanned ==
    ASSUME NEW found \in (SUBSET IncidentIds) \ { {} }
    PROVE  Plan(IncidentPlan(found), FALSE)
<1> DEFINE s == IncidentPlan(found)
           N == Cardinality(found)
           id(i) == SetToSeq(found)[(i + 1) \div 2]
<1>1. N \in Nat /\ N # 0
  <2>1. IsFiniteSet(found)
      BY FS_Subset
  <2> QED BY <2>1, FoundListed, FS_EmptySet
<1>2. \A i \in 1..(2 * N) : (i + 1) \div 2 \in 1..N
    BY <1>1
<1>3. \A i \in 1..(2 * N) : id(i) \in IncidentIds
    BY <1>2, FoundListed
<1>4. s = [i \in 1..(2 * N) |-> IF i % 2 = 1 THEN IncidentRow(id(i))
                                             ELSE File("incidents", id(i), "open")]
    BY DEF IncidentPlan
<1>5. \A i \in 1..(2 * N) : Planned(s[i], FALSE) /\ (i % 2 = 1 => Plain(s[i]))
  <2>1. "incidents" \in Directories /\ "open" \in Words /\ Named("incidents") = IncidentIds
      BY DEF Directories, Words, Named
  <2>2. \A x \in IncidentIds : /\ Planned(IncidentRow(x), FALSE) /\ Plain(IncidentRow(x))
                               /\ Planned(File("incidents", x, "open"), FALSE)
      BY <2>1, IncidentPlanned, FilePlanned
  <2> HIDE DEF s, id, N
  <2> QED BY <1>3, <1>4, <2>2
<1>other. \A i \in 1..(2 * N) : s[i].kind # "event"
  <2>1. \A x : IncidentRow(x).kind # "event" /\ File("incidents", x, "open").kind # "event"
      BY DEF IncidentRow, File
  <2> HIDE DEF s, id, N
  <2> QED BY <1>4, <2>1
<1>6. ASSUME NEW i \in 1..(2 * N), i % 2 # 1
      PROVE  Follows(s[i], Before(s, i))
  <2>1. i - 1 \in 1..(2 * N) /\ (i - 1) % 2 = 1 /\ (i - 1 + 1) \div 2 = (i + 1) \div 2
      BY <1>1, <1>6
  <2>2. s[i - 1] = IncidentRow(id(i)) /\ s[i] = File("incidents", id(i), "open")
      BY <1>4, <1>6, <2>1
  <2> HIDE DEF s, id, N
  <2>3. s[i - 1] \in Before(s, i)
      BY <1>1, <2>1 DEF Before
  <2> QED BY <2>2, <2>3 DEF Follows, IncidentRow, File, IsFile
<1> HIDE DEF s
<1>7. s \in Seq(Write) /\ Len(s) = 2 * N
  <2> HIDE DEF N
  <2>1. \A i \in 1..(2 * N) : s[i] \in Write
      BY <1>5 DEF Planned, Proper
  <2>2. s \in [1..(2 * N) -> Write] /\ 2 * N \in Nat
      BY <1>1, <1>4, <2>1
  <2> QED BY <2>2, ByIndex
<1> HIDE DEF N
<1>8. \A i \in 1..(2 * N) : Follows(s[i], Before(s, i))
  <2>1. \A i \in 1..(2 * N) : i % 2 = 1 => Follows(s[i], Before(s, i))
      BY <1>5, PlainFollows
  <2> QED BY <1>6, <2>1
<1>9. Len(s) # 0
    BY <1>1, <1>7
<1>10. \A i \in 1..Len(s) : /\ Planned(s[i], FALSE) /\ Follows(s[i], Before(s, i))
                            /\ s[i].kind # "event"
    BY <1>5, <1>7, <1>8, <1>other
<1> QED BY <1>7, <1>9, <1>10 DEF Plan, s

\* The setup command saves sound rows.
LEMMA SetupPlanned ==
    ASSUME NEW s, s = [i \in 1..Cardinality(Nodes) |->
                          RowOf(SetToSeq(Nodes)[i], Seed[SetToSeq(Nodes)[i]])]
    PROVE  /\ s \in Seq(Write) /\ (Len(s) # 0 => Plan(s, FALSE))
           /\ \A i \in 1..Len(s) : s[i].kind = "row"
<1> DEFINE N == Cardinality(Nodes)
<1>1. N \in Nat /\ \A i \in 1..N : SetToSeq(Nodes)[i] \in Nodes
    BY Listing, ViewsAssumption
<1>2. \A n \in Nodes : Sound(Seed[n])
    BY SeedsSound
<1>3. \A i \in 1..N : Planned(s[i], FALSE) /\ Plain(s[i]) /\ s[i].kind = "row"
  <2>1. \A n \in Nodes : /\ Planned(RowOf(n, Seed[n]), FALSE) /\ Plain(RowOf(n, Seed[n]))
                         /\ RowOf(n, Seed[n]).kind = "row"
    <3>1. \A n \in Nodes : RowOf(n, Seed[n]).kind = "row"
        BY DEF RowOf
    <3> QED BY <1>2, <3>1, RowPlanned
  <2> QED BY <1>1, <2>1
<1>0. s = [i \in 1..N |-> s[i]]
    OBVIOUS
<1> HIDE DEF N
<1>4. s \in Seq(Write) /\ Len(s) = N
  <2>1. \A i \in 1..N : s[i] \in Write
      BY <1>3 DEF Planned, Proper
  <2>2. s \in [1..N -> Write]
    <3>1. s = [i \in 1..N |-> s[i]]
        BY <1>0
    <3> QED BY <2>1, <3>1
  <2> QED BY <1>1, <2>2, ByIndex
<1>5. \A i \in 1..Len(s) : /\ Planned(s[i], FALSE) /\ Follows(s[i], Before(s, i))
                           /\ s[i].kind # "event"
    BY <1>3, <1>4, PlainFollows
<1> QED BY <1>3, <1>4, <1>5 DEF Plan

-----------------------------------------------------------------------------
(* The inductive invariant *)

\* A chain of writes under way: only its head may be a file that is open, only
\* the event loop asks for maintenance, and only a start seeds policies.
JobSound(p, k) ==
    /\ k \in [no : 0..MaxJobs, rest : Seq(Write)]
    /\ \A i \in 1..Len(k.rest) :
          /\ Proper(k.rest[i])
          /\ Grounded(k.rest[i], Before(k.rest, i), k.no)
          /\ k.rest[i].kind = "close" => i = 1
          /\ k.rest[i].kind \in { "event", "alert" } => k.no # 0
          /\ IsMaint(k.rest[i]) => p = "loop"
          /\ IsPolicy(k.rest[i]) => p = "loop" /\ up = "starting"

\* The chains of the event loop and of every worker
JobsSound == \A p \in Processes : JobSound(p, job[p])

\* A maintenance request that is being written is empty, and not approved.
PendingSound ==
    \A p \in Processes :
        LET w == job[p].rest[1]
        IN  job[p].rest # << >> /\ w.kind = "close" /\ w.dir = "maintenance" =>
                /\ w.path \in DOMAIN file /\ file[w.path] = Empty
                /\ <<w.about, w.at>> \notin approved

\* Rows are sound, and only a server that serves has a tick in progress.
RowsSound ==
    /\ \A n \in Nodes : row[n] # NoRow => Sound(row[n])
    /\ \A n \in DOMAIN snap.rows : Sound(snap.rows[n]) /\ snap.op # "none"
    /\ snap.op # "none" => up = "up"

\* A file that is not empty tells what its name tells.
FilesSound ==
    /\ IsFiniteSet(DOMAIN file)
    /\ \A q \in DOMAIN file :
          /\ q.name \in Named(q.dir)
          /\ q.dir # "operation-requests" => q.op = ""
          /\ file[q] # Empty =>
                /\ file[q].about = q.name
                /\ q.dir = "operation-requests" => file[q].says = q.op
                /\ q.dir = "incidents" => q.name \in incidents
                /\ q.dir = "cordons" => AskedToCordon(q.name)

\* A request that was made has its file.
AskedSound ==
    \A a \in asked :
        /\ a.dir \in { "operation-requests", "maintenance" }
        /\ RequestPath(a.dir, a.about, a.says, a.at) \in DOMAIN file

\* A maintenance request that a person approved still says so.
ApprovedSound ==
    \A a \in approved :
        /\ Path("maintenance", a[1], "", a[2]) \in DOMAIN file
        /\ file[Path("maintenance", a[1], "", a[2])] = [about |-> a[1], says |-> "approved"]

\* An event tells of a state that was saved, by the same call.
EventsSound == \A e \in events : [about |-> e.about, to |-> e.to, no |-> e.no] \in saved

\* The file of a policy is there, with its content.
Shown(q) == PolicyPath(q) \in DOMAIN file /\ file[PolicyPath(q)] # Empty

\* The start in progress still comes to this policy.
Covered(q) ==
    \E i \in 1..Len(job["loop"].rest) :
        IsPolicy(job["loop"].rest[i]) /\ job["loop"].rest[i].about = q

\* A server that serves has all its policies; one that starts has them, or still
\* comes to them.
PoliciesSound ==
    /\ up = "up" => \A q \in Policies : Shown(q)
    /\ up = "starting" => \A q \in Policies : Shown(q) \/ Covered(q)

\* The inductive invariant
IInv ==
    /\ TypeOK /\ JobsSound /\ PendingSound /\ RowsSound /\ FilesSound
    /\ AskedSound /\ ApprovedSound /\ EventsSound /\ PoliciesSound

-----------------------------------------------------------------------------
(* What happens to a chain *)

\* A chain is empty where it has no length.
LEMMA Emptiness ==
    ASSUME NEW s \in Seq(Write)
    PROVE  s = << >> <=> Len(s) = 0
BY EmptySeq

\* The parts of a chain that is not empty
LEMMA Parts ==
    ASSUME NEW s \in Seq(Write), s # << >>
    PROVE  /\ Len(s) \in Nat /\ Len(s) # 0 /\ Head(s) = s[1] /\ s[1] \in Write
           /\ Tail(s) \in Seq(Write) /\ Len(Tail(s)) = Len(s) - 1
           /\ \A i \in 1..(Len(s) - 1) : Tail(s)[i] = s[i + 1]
           /\ \A i \in 2..Len(s) : i - 1 \in 1..Len(Tail(s)) /\ Tail(s)[i - 1] = s[i]
<1>1. Len(s) \in Nat /\ Len(s) # 0
    BY EmptySeq, LenProperties
<1>2. /\ Tail(s) \in Seq(Write) /\ Len(Tail(s)) = Len(s) - 1
      /\ \A i \in 1..Len(Tail(s)) : Tail(s)[i] = s[i + 1]
    BY HeadTailProperties
<1>3. Head(s) = s[1] /\ s[1] \in Write
    BY <1>1
<1>4. ASSUME NEW i \in 2..Len(s)
      PROVE  i - 1 \in 1..Len(Tail(s)) /\ Tail(s)[i - 1] = s[i]
  <2>1. i - 1 \in 1..Len(Tail(s)) /\ (i - 1) + 1 = i
      BY <1>1, <1>2
  <2> QED BY <1>2, <2>1
<1> QED BY <1>1, <1>2, <1>3, <1>4

\* What is written stays written.
LEMMA GroundedStays ==
    ASSUME NEW w, NEW before, NEW no, Grounded(w, before, no),
           saved \subseteq saved', incidents \subseteq incidents', asked \subseteq asked'
    PROVE  Grounded(w, before, no)'
BY DEF Grounded, AskedToCordon

\* What stands before a write in its plan is ground enough.
LEMMA FollowsIsGrounded ==
    ASSUME NEW w, NEW before, NEW no, Follows(w, before)
    PROVE  Grounded(w, before, no)
BY DEF Follows, Grounded

\* A chain that is left alone
LEMMA ChainStays ==
    ASSUME NEW p, NEW k, JobSound(p, k), p = "loop" => up' = up,
           saved \subseteq saved', incidents \subseteq incidents', asked \subseteq asked'
    PROVE  JobSound(p, k)'
BY GroundedStays DEF JobSound

\* The head of a chain has been written.
HeadIsDone(w, no) ==
    /\ w.kind = "row" => [about |-> w.about, to |-> w.row.state, no |-> no] \in saved'
    /\ w.kind = "incident" => w.about \in incidents'
    /\ w.kind # "open"
    /\ w.kind = "close" /\ w.dir = "operation-requests" =>
          [dir |-> w.dir, about |-> w.about, says |-> w.says, at |-> w.at] \in asked'

\* What relied on the head finds it written.
LEMMA GroundedByHead ==
    ASSUME NEW w, NEW before, NEW more, NEW head, NEW no, Grounded(w, more, no),
           more \subseteq before \cup { head }, HeadIsDone(head, no),
           saved \subseteq saved', incidents \subseteq incidents', asked \subseteq asked'
    PROVE  Grounded(w, before, no)'
<1>1. ASSUME w.kind = "event"
      PROVE  \/ \E x \in before : x.kind = "row" /\ x.about = w.about /\ x.row.state = w.to
             \/ [about |-> w.about, to |-> w.to, no |-> no] \in saved'
  <2>1. CASE [about |-> w.about, to |-> w.to, no |-> no] \in saved
      BY <2>1
  <2>2. CASE \E x \in more : x.kind = "row" /\ x.about = w.about /\ x.row.state = w.to
      BY <2>2 DEF HeadIsDone
  <2> QED BY <1>1, <2>1, <2>2 DEF Grounded
<1>2. ASSUME IsFile(w), w.dir = "incidents"
      PROVE  \/ \E x \in before : x.kind = "incident" /\ x.about = w.about
             \/ w.about \in incidents'
  <2>1. CASE w.about \in incidents
      BY <2>1
  <2>2. CASE \E x \in more : x.kind = "incident" /\ x.about = w.about
      BY <2>2 DEF HeadIsDone
  <2> QED BY <1>2, <2>1, <2>2 DEF Grounded
<1>3. ASSUME IsFile(w), w.dir = "cordons"
      PROVE  \/ \E x \in before : /\ IsFile(x) /\ x.dir = "operation-requests"
                                  /\ x.about = w.about /\ x.says = "day2_cordon"
             \/ AskedToCordon(w.about)'
  <2>1. CASE AskedToCordon(w.about)
      BY <2>1 DEF AskedToCordon
  <2>2. CASE \E x \in more : /\ IsFile(x) /\ x.dir = "operation-requests"
                             /\ x.about = w.about /\ x.says = "day2_cordon"
    <3>1. PICK x \in more : /\ IsFile(x) /\ x.dir = "operation-requests"
                             /\ x.about = w.about /\ x.says = "day2_cordon"
        BY <2>2
    <3>2. CASE x \in before
        BY <3>1, <3>2
    <3>3. CASE x = head
      <4>1. [dir |-> x.dir, about |-> x.about, says |-> x.says, at |-> x.at] \in asked'
          BY <3>1, <3>3 DEF HeadIsDone, IsFile
      <4>2. \E a \in asked' : a.about = w.about /\ a.says = "day2_cordon"
          BY <3>1, <4>1
      <4> QED BY <4>2 DEF AskedToCordon
    <3> QED BY <3>2, <3>3
  <2> QED BY <1>3, <2>1, <2>2 DEF Grounded
<1> QED BY <1>1, <1>2, <1>3 DEF Grounded

\* A chain whose head has been written
LEMMA TailStays ==
    ASSUME NEW p, NEW k, JobSound(p, k), k.rest # << >>, HeadIsDone(k.rest[1], k.no),
           p = "loop" => up' = up,
           saved \subseteq saved', incidents \subseteq incidents', asked \subseteq asked'
    PROVE  /\ JobSound(p, [no |-> k.no, rest |-> Tail(k.rest)])'
           /\ \A i \in 1..Len(Tail(k.rest)) : Tail(k.rest)[i].kind # "close"
<1> DEFINE s == k.rest
           t == Tail(s)
           j == [no |-> k.no, rest |-> t]
<1>1. s \in Seq(Write) /\ k.no \in 0..MaxJobs
    BY DEF JobSound
<1>2. /\ Len(s) \in Nat /\ t \in Seq(Write) /\ Len(t) = Len(s) - 1
      /\ \A i \in 1..(Len(s) - 1) : t[i] = s[i + 1]
    BY <1>1, Parts
<1> HIDE DEF t
<1>3. \A i \in 1..Len(t) : i + 1 \in 1..Len(s) /\ t[i] = s[i + 1] /\ i + 1 # 1
    BY <1>2
<1>4. ASSUME NEW i \in 1..Len(t)
      PROVE  Before(s, i + 1) \subseteq Before(t, i) \cup { s[1] }
  <2>1. ASSUME NEW l \in 1..(i + 1 - 1), l # 1
        PROVE  s[l] \in Before(t, i)
    <3> DEFINE m == l - 1
    <3>1. m \in 1..(i - 1) /\ m \in 1..(Len(s) - 1) /\ m + 1 = l
        BY <1>2, <2>1
    <3> HIDE DEF m
    <3>2. t[m] = s[l]
        BY <1>2, <3>1
    <3> QED BY <3>1, <3>2 DEF Before
  <2> QED BY <2>1 DEF Before
<1>5. ASSUME NEW i \in 1..Len(t)
      PROVE  Grounded(t[i], Before(t, i), k.no)'
  <2>1. Grounded(s[i + 1], Before(s, i + 1), k.no)
      BY <1>3 DEF JobSound
  <2> HIDE DEF s
  <2>2. Grounded(s[i + 1], Before(t, i), k.no)'
      BY <1>4, <2>1, GroundedByHead DEF s
  <2> QED BY <1>3, <2>2
<1>6. \A i \in 1..Len(t) :
         /\ Proper(t[i]) /\ t[i].kind # "close"
         /\ t[i].kind \in { "event", "alert" } => k.no # 0
         /\ IsMaint(t[i]) => p = "loop"
         /\ IsPolicy(t[i]) => p = "loop" /\ up = "starting"
    BY <1>3 DEF JobSound
<1>7. j \in [no : 0..MaxJobs, rest : Seq(Write)] /\ j.rest = t /\ j.no = k.no
    BY <1>1, <1>2
<1> HIDE DEF j
<1>8. JobSound(p, j)'
    BY <1>5, <1>6, <1>7 DEF JobSound
<1> QED BY <1>6, <1>8 DEF j, t

\* The fields of a write of each kind
LEMMA WriteFields ==
    ASSUME NEW w \in Write
    PROVE  /\ w.kind = "row" => w.about \in Nodes /\ w.row \in Row
           /\ w.kind = "event" => w.about \in Nodes /\ w.from \in State /\ w.to \in State
           /\ w.kind = "alert" => w.about \in Nodes
           /\ w.kind = "incident" => w.about \in IncidentIds
           /\ w.kind = "policy" => w.about \in Policies
           /\ IsFile(w) => w.dir \in Directories /\ w.about \in Subjects /\ w.says \in Words
           /\ w.kind = "close" => w.path \in Paths /\ w.at \in 0..MaxTime
BY DEF Write, IsFile

\* The chains as TypeOK has them
Jobs == [no : 0..MaxJobs, rest : Seq(Write)]

\* No chain: nothing to be asked of it
LEMMA NoJobSound ==
    ASSUME NEW p
    PROVE  JobSound(p, NoJob) /\ JobSound(p, NoJob)' /\ NoJob \in Jobs /\ NoJob.rest = << >>
<1>1. << >> \in Seq(Write) /\ Len(<< >>) = 0
    OBVIOUS
<1>2. NoJob \in Jobs /\ NoJob.rest = << >>
    BY <1>1 DEF NoJob, Jobs
<1> QED BY <1>1, <1>2 DEF JobSound, Jobs

\* What the invariant says of the write that comes next
LEMMA NextWrite ==
    ASSUME IInv, NEW p \in Processes, job[p].rest # << >>
    PROVE  /\ job[p] \in Jobs /\ JobSound(p, job[p]) /\ Next1(p) = job[p].rest[1]
           /\ Next1(p) \in Write /\ Proper(Next1(p)) /\ Grounded(Next1(p), {}, job[p].no)
           /\ Next1(p).kind \in { "event", "alert" } => job[p].no \in 1..MaxJobs
           /\ IsMaint(Next1(p)) => p = "loop"
           /\ IsPolicy(Next1(p)) => p = "loop" /\ up = "starting"
<1> DEFINE s == job[p].rest
<1>1. JobSound(p, job[p])
    BY DEF IInv, JobsSound
<1>2. job[p] \in Jobs /\ s \in Seq(Write) /\ job[p].no \in 0..MaxJobs
    BY <1>1 DEF JobSound, Jobs
<1>3. 1 \in 1..Len(s) /\ Next1(p) = s[1] /\ s[1] \in Write
    BY <1>2, Parts DEF Next1
<1>4. Before(s, 1) = {}
    BY DEF Before
<1>5. Proper(s[1]) /\ Grounded(s[1], {}, job[p].no)
    BY <1>1, <1>3, <1>4 DEF JobSound
<1>6. /\ s[1].kind \in { "event", "alert" } => job[p].no # 0
      /\ IsMaint(s[1]) => p = "loop"
      /\ IsPolicy(s[1]) => p = "loop" /\ up = "starting"
    BY <1>1, <1>3 DEF JobSound
<1> QED BY <1>1, <1>2, <1>3, <1>5, <1>6

\* The chain of one process is replaced, and the others are left alone.
LEMMA OthersStay ==
    ASSUME IInv, NEW p \in Processes, NEW k, JobSound(p, k)', NEW q \in Processes,
           \A o \in Processes : job'[o] = IF o = p THEN k ELSE job[o],
           q = "loop" /\ q # p => up' = up,
           saved \subseteq saved', incidents \subseteq incidents', asked \subseteq asked'
    PROVE  JobSound(q, job[q])'
<1>1. CASE q = p
  <2>1. job'[q] = k
      BY <1>1
  <2> QED BY <1>1, <2>1 DEF JobSound
<1>2. CASE q # p
  <2>1. PICK old : old = job[q]
      OBVIOUS
  <2>2. JobSound(q, old)
      BY <2>1 DEF IInv, JobsSound
  <2>3. JobSound(q, old)'
      BY <1>2, <2>2, ChainStays
  <2>4. job'[q] = old
      BY <1>2, <2>1
  <2> QED BY <2>3, <2>4 DEF JobSound
<1> QED BY <1>1, <1>2

\* db.save_node and the like: one write is over.
LEMMA FinishKeeps ==
    ASSUME IInv, NEW p \in Processes, job[p].rest # << >>, Finishes(p),
           HeadIsDone(Next1(p), job[p].no), up' = up,
           saved \subseteq saved', incidents \subseteq incidents', asked \subseteq asked'
    PROVE  /\ job' \in [Processes -> Jobs] /\ JobsSound'
           /\ \A q \in Processes : q # p => job'[q] = job[q]
           /\ job'[p].rest = Tail(job[p].rest)
           /\ \A q \in Processes : job'[q] = job[q] \/ job'[q].rest = << >>
                                   \/ job'[q].rest[1].kind # "close"
<1>1. job \in [Processes -> Jobs]
    BY DEF IInv, TypeOK, Jobs
<1>2. PICK old \in Jobs : old = job[p]
    BY <1>1
<1> DEFINE s == old.rest
           j == [no |-> old.no, rest |-> Tail(s)]
<1>3. /\ s \in Seq(Write) /\ JobSound(p, old) /\ Next1(p) = s[1] /\ s # << >>
      /\ HeadIsDone(s[1], old.no)
  <2>1. JobSound(p, job[p]) /\ Next1(p) = job[p].rest[1]
      BY NextWrite
  <2> QED BY <1>2, <2>1 DEF Jobs
<1>4. /\ Tail(s) \in Seq(Write) /\ Len(Tail(s)) = Len(s) - 1
      /\ Len(s) \in Nat /\ Len(s) # 0
    BY <1>3, Parts
<1>5. JobSound(p, j)' /\ \A i \in 1..Len(Tail(s)) : Tail(s)[i].kind # "close"
    BY <1>3, TailStays
<1>6. Tail(s) = << >> <=> Len(s) = 1
  <2>1. Tail(s) = << >> <=> Len(Tail(s)) = 0
      BY <1>4, Emptiness
  <2> QED BY <1>4, <2>1
<1>7. PICK k \in Jobs : /\ job' = [job EXCEPT ![p] = k] /\ k.rest = Tail(s) /\ JobSound(p, k)'
  <2>1. CASE Len(s) = 1
    <3>1. NoJob \in Jobs /\ NoJob.rest = Tail(s) /\ JobSound(p, NoJob)'
        BY <1>6, <2>1, NoJobSound
    <3>2. job' = [job EXCEPT ![p] = NoJob]
        BY <1>2, <2>1 DEF Finishes
    <3> QED BY <3>1, <3>2
  <2>2. CASE Len(s) # 1
    <3>1. j \in Jobs /\ j.rest = Tail(s)
        BY <1>4 DEF Jobs
    <3>2. job' = [job EXCEPT ![p] = j]
        BY <1>2, <2>2 DEF Finishes
    <3> QED BY <1>5, <3>1, <3>2
  <2> QED BY <2>1, <2>2
<1>8. Tail(s) = << >> \/ Tail(s)[1].kind # "close"
  <2> DEFINE l == Len(Tail(s))
             len == Len(s)
  <2>0. l = len - 1 /\ len \in Nat /\ len # 0
      BY <1>4
  <2>1. Len(s) # 1 => 1 \in 1..Len(Tail(s))
    <3> HIDE DEF l, len
    <3>1. len # 1 => 1 \in 1..l
        BY <2>0
    <3> QED BY <3>1 DEF l, len
  <2>2. \A i \in 1..Len(Tail(s)) : Tail(s)[i].kind # "close"
      BY <1>5
  <2> HIDE DEF s
  <2> QED BY <1>6, <2>1, <2>2
<1> HIDE DEF s
<1>9. job' \in [Processes -> Jobs] /\ \A q \in Processes : job'[q] = IF q = p THEN k ELSE job[q]
    BY <1>1, <1>7
<1>10. ASSUME NEW q \in Processes
       PROVE  JobSound(q, job[q])'
    BY <1>7, <1>9, OthersStay
<1>11. JobsSound'
    BY <1>10 DEF JobsSound
<1>12. Tail(s) = Tail(job[p].rest)
    BY <1>2 DEF s
<1> QED BY <1>7, <1>8, <1>9, <1>11, <1>12

\* One write has become another that serves what relies on it as well.
Serves(w, old) ==
    /\ old.kind \notin { "row", "incident" }
    /\ IsFile(old) => IsFile(w) /\ w.dir = old.dir /\ w.about = old.about /\ w.says = old.says

\* What relied on the old write has the new one.
LEMMA GroundedByOther ==
    ASSUME NEW x, NEW before, NEW more, NEW old, NEW w \in before, NEW no,
           Grounded(x, more, no), more \subseteq before \cup { old }, Serves(w, old)
    PROVE  Grounded(x, before, no)
BY DEF Grounded, Serves

\* open() and close() of a file: the head of a chain becomes another write.
LEMMA GoesOnKeeps ==
    ASSUME IInv, NEW p \in Processes, job[p].rest # << >>, NEW w \in Write, GoesOnWith(p, w),
           Serves(w, Next1(p)), Proper(w), Grounded(w, {}, job[p].no),
           w.kind \notin { "event", "alert" }, IsMaint(w) => p = "loop",
           IsPolicy(w) => p = "loop" /\ up = "starting",
           up' = up, UNCHANGED <<saved, incidents, asked>>
    PROVE  /\ job' \in [Processes -> Jobs] /\ JobsSound'
           /\ \A q \in Processes : q # p => job'[q] = job[q]
           /\ job'[p].rest[1] = w /\ Len(job'[p].rest) = Len(job[p].rest)
           /\ job'[p].rest # << >>
           /\ \A i \in 1..Len(job[p].rest) : i # 1 => job'[p].rest[i] = job[p].rest[i]
<1>1. job \in [Processes -> Jobs]
    BY DEF IInv, TypeOK, Jobs
<1>2. PICK old \in Jobs : old = job[p]
    BY <1>1
<1> DEFINE s == old.rest
           t == [s EXCEPT ![1] = w]
           k == [no |-> old.no, rest |-> t]
<1>3. s \in Seq(Write) /\ JobSound(p, old) /\ Next1(p) = s[1] /\ s # << >>
  <2>1. JobSound(p, job[p]) /\ Next1(p) = job[p].rest[1]
      BY NextWrite
  <2> QED BY <1>2, <2>1 DEF Jobs
<1>4. Len(s) \in Nat /\ Len(s) # 0 /\ 1 \in 1..Len(s)
    BY <1>3, Parts
<1>5. /\ t \in Seq(Write) /\ Len(t) = Len(s) /\ t[1] = w
      /\ \A i \in 1..Len(s) : i # 1 => t[i] = s[i]
    BY <1>3, <1>4, ExceptSeq
<1>6. job' = [job EXCEPT ![p] = k]
  <2>1. job' = [job EXCEPT ![p] = [job[p] EXCEPT !.rest = [job[p].rest EXCEPT ![1] = w]]]
      BY DEF GoesOnWith
  <2>2. [old EXCEPT !.rest = t] = k
      BY DEF Jobs
  <2> QED BY <1>2, <2>1, <2>2
<1> HIDE DEF t
<1>7. ASSUME NEW i \in 1..Len(t)
      PROVE  Grounded(t[i], Before(t, i), old.no)
  <2>1. CASE i = 1
    <3>1. Before(t, i) = {}
        BY <2>1 DEF Before
    <3>2. Grounded(w, {}, old.no)
        BY <1>2
    <3> QED BY <1>5, <2>1, <3>1, <3>2
  <2>2. CASE i # 1
    <3>1. t[i] = s[i] /\ Grounded(s[i], Before(s, i), old.no)
        BY <1>3, <1>5, <2>2 DEF JobSound
    <3>2. Before(s, i) \subseteq Before(t, i) \cup { s[1] }
      <4>1. \A l \in 1..(i - 1) : l # 1 => s[l] = t[l]
          BY <1>4, <1>5
      <4> QED BY <4>1 DEF Before
    <3>3. w \in Before(t, i)
      <4>1. 1 \in 1..(i - 1)
          BY <1>4, <1>5, <2>2
      <4> QED BY <1>5, <4>1 DEF Before
    <3>4. Serves(w, s[1])
        BY <1>3
    <3> HIDE DEF s
    <3> QED BY <3>1, <3>2, <3>3, <3>4, GroundedByOther
  <2> QED BY <2>1, <2>2
<1>8. \A i \in 1..Len(t) : Grounded(t[i], Before(t, i), old.no)'
    BY <1>7, GroundedStays
<1>9. \A i \in 1..Len(t) :
         /\ Proper(t[i])
         /\ t[i].kind = "close" => i = 1
         /\ t[i].kind \in { "event", "alert" } => old.no # 0
         /\ IsMaint(t[i]) => p = "loop"
         /\ IsPolicy(t[i]) => p = "loop" /\ up = "starting"
  <2>1. \A i \in 1..Len(s) :
           /\ Proper(s[i])
           /\ s[i].kind = "close" => i = 1
           /\ s[i].kind \in { "event", "alert" } => old.no # 0
           /\ IsMaint(s[i]) => p = "loop"
           /\ IsPolicy(s[i]) => p = "loop" /\ up = "starting"
      BY <1>3 DEF JobSound
  <2> HIDE DEF s
  <2> QED BY <1>4, <1>5, <2>1
<1>10. k \in Jobs /\ k.rest = t /\ k.no = old.no
    BY <1>5 DEF Jobs
<1> HIDE DEF k
<1>11. JobSound(p, k)'
    BY <1>8, <1>9, <1>10 DEF JobSound, Jobs
<1>12. job' \in [Processes -> Jobs] /\ \A q \in Processes : job'[q] = IF q = p THEN k ELSE job[q]
    BY <1>1, <1>6, <1>10
<1>13. ASSUME NEW q \in Processes
       PROVE  JobSound(q, job[q])'
    BY <1>11, <1>12, OthersStay
<1>14. JobsSound'
    BY <1>13 DEF JobsSound
<1>15. t # << >>
    BY <1>4, <1>5, Emptiness
<1> QED BY <1>2, <1>5, <1>10, <1>12, <1>14, <1>15

\* A request or a visit begins to write.
LEMMA BeginKeeps ==
    ASSUME IInv, NEW p \in Processes, NEW no \in 0..MaxJobs, NEW s, Begins(p, no, s),
           \/ Plan(s, FALSE) \/ (Plan(s, TRUE) /\ p = "loop") \/ s = << >>,
           no # 0 \/ \A i \in 1..Len(s) : s[i].kind = "row",
           up' = up, UNCHANGED <<saved, incidents, asked>>
    PROVE  /\ job' \in [Processes -> Jobs] /\ JobsSound'
           /\ \A q \in Processes : q # p => job'[q] = job[q]
           /\ \A q \in Processes : job'[q] = job[q] \/ job'[q].rest = << >>
                                   \/ job'[q].rest[1].kind # "close"
<1>1. job \in [Processes -> Jobs]
    BY DEF IInv, TypeOK, Jobs
<1> DEFINE k == [no |-> no, rest |-> s]
<1>2. /\ s \in Seq(Write)
      /\ \A i \in 1..Len(s) : /\ Planned(s[i], p = "loop")
                              /\ Follows(s[i], Before(s, i))
  <2>1. CASE Plan(s, FALSE)
      BY <2>1 DEF Plan, Planned
  <2>2. CASE Plan(s, TRUE) /\ p = "loop"
      BY <2>2 DEF Plan, Planned
  <2>3. CASE s = << >>
    <3>1. << >> \in Seq(Write) /\ Len(<< >>) = 0
        OBVIOUS
    <3> QED BY <2>3, <3>1
  <2> QED BY <2>1, <2>2, <2>3
<1>3. \A i \in 1..Len(s) : Grounded(s[i], Before(s, i), no)'
    BY <1>2, FollowsIsGrounded, GroundedStays
<1>4. k \in Jobs /\ k.rest = s /\ k.no = no
    BY <1>2 DEF Jobs
<1>5. job' = [job EXCEPT ![p] = k]
    BY DEF Begins
<1> HIDE DEF k
<1>6. JobSound(p, k)'
  <2>1. \A i \in 1..Len(s) :
           /\ Proper(s[i])
           /\ s[i].kind # "close"
           /\ s[i].kind \in { "event", "alert" } => no # 0
           /\ IsMaint(s[i]) => p = "loop"
           /\ ~IsPolicy(s[i])
      BY <1>2 DEF Planned
  <2> QED BY <1>3, <1>4, <2>1 DEF JobSound, Jobs
<1>7. job' \in [Processes -> Jobs] /\ \A q \in Processes : job'[q] = IF q = p THEN k ELSE job[q]
    BY <1>1, <1>4, <1>5
<1>8. ASSUME NEW q \in Processes
      PROVE  JobSound(q, job[q])'
    BY <1>6, <1>7, OthersStay
<1>9. JobsSound'
    BY <1>8 DEF JobsSound
<1>10. s = << >> \/ s[1].kind # "close"
  <2>1. s # << >> => 1 \in 1..Len(s)
      BY <1>2, Parts
  <2> QED BY <1>2, <2>1 DEF Planned
<1> QED BY <1>4, <1>7, <1>9, <1>10

-----------------------------------------------------------------------------
(* What happens to the files *)

\* Maintenance requests are left alone.
LEMMA PendingKept ==
    ASSUME IInv, approved' \subseteq approved,
           \A p \in Processes : job'[p] = job[p] \/ job'[p].rest = << >>
                               \/ job'[p].rest[1].kind # "close",
           \A q \in DOMAIN file : q.dir = "maintenance" =>
               q \in DOMAIN file' /\ file'[q] = file[q]
    PROVE  PendingSound'
<1>1. SUFFICES ASSUME NEW p \in Processes, job'[p].rest # << >>,
                      job'[p].rest[1].kind = "close", job'[p].rest[1].dir = "maintenance"
               PROVE  /\ job'[p].rest[1].path \in DOMAIN file'
                      /\ file'[job'[p].rest[1].path] = Empty
                      /\ <<job'[p].rest[1].about, job'[p].rest[1].at>> \notin approved'
    BY DEF PendingSound
<1> DEFINE w == job[p].rest[1]
<1>2. job'[p] = job[p]
    BY <1>1
<1>3. Proper(w) /\ w.kind = "close" /\ w.dir = "maintenance"
    BY <1>1, <1>2, NextWrite
<1>4. w.path \in DOMAIN file /\ file[w.path] = Empty /\ <<w.about, w.at>> \notin approved
    BY <1>1, <1>2 DEF IInv, PendingSound
<1> HIDE DEF w
<1>5. w.path.dir = "maintenance"
  <2>1. w.path = Path("maintenance", w.about, "", w.at)
      BY <1>3 DEF Proper, RequestPath
  <2>2. Path("maintenance", w.about, "", w.at).dir = "maintenance"
      BY DEF Path
  <2> QED BY <2>1, <2>2
<1>6. w.path \in DOMAIN file' /\ file'[w.path] = Empty /\ <<w.about, w.at>> \notin approved'
    BY <1>4, <1>5
<1> QED BY <1>2, <1>6 DEF w

\* A step that leaves the files alone keeps what is true of them.
LEMMA FilesKept ==
    ASSUME IInv, file' = file, incidents \subseteq incidents', asked \subseteq asked'
    PROVE  FilesSound'
BY DEF IInv, FilesSound, AskedToCordon

\* _write_yaml, either half of it
LEMMA FileWritten ==
    ASSUME IInv, NEW path \in Paths, NEW content \in Contents, file' = Written(path, content),
           incidents \subseteq incidents', asked \subseteq asked',
           path.name \in Named(path.dir), path.dir # "operation-requests" => path.op = "",
           content # Empty =>
                /\ content.about = path.name
                /\ path.dir = "operation-requests" => content.says = path.op
                /\ path.dir = "incidents" => path.name \in incidents'
                /\ path.dir = "cordons" => AskedToCordon(path.name)'
    PROVE  /\ FilesSound'
           /\ file' \in [DOMAIN file' -> Contents] /\ DOMAIN file' \subseteq Paths
           /\ DOMAIN file' = DOMAIN file \cup { path } /\ file'[path] = content
           /\ \A q \in DOMAIN file : q # path => file'[q] = file[q]
<1>0. file' = [q \in DOMAIN file \cup { path } |-> IF q = path THEN content ELSE file[q]]
    BY DEF Written
<1>1. /\ DOMAIN file' = DOMAIN file \cup { path }
      /\ \A q \in DOMAIN file' : file'[q] = IF q = path THEN content ELSE file[q]
    BY <1>0
<1>2. file \in [DOMAIN file -> Contents] /\ DOMAIN file \subseteq Paths
    BY DEF IInv, TypeOK
<1>3. IsFiniteSet(DOMAIN file')
  <2>1. IsFiniteSet(DOMAIN file \cup { path })
      BY FS_AddElement DEF IInv, FilesSound
  <2> QED BY <1>1, <2>1
<1>4. ASSUME NEW q \in DOMAIN file'
      PROVE  /\ q.name \in Named(q.dir)
             /\ q.dir # "operation-requests" => q.op = ""
             /\ file'[q] # Empty =>
                   /\ file'[q].about = q.name
                   /\ q.dir = "operation-requests" => file'[q].says = q.op
                   /\ q.dir = "incidents" => q.name \in incidents'
                   /\ q.dir = "cordons" => AskedToCordon(q.name)'
  <2>1. CASE q = path
      BY <1>1, <2>1
  <2>2. CASE q # path
    <3>1. q \in DOMAIN file /\ file'[q] = file[q]
        BY <1>1, <2>2
    <3>2. AskedToCordon(q.name) => AskedToCordon(q.name)'
        BY DEF AskedToCordon
    <3> QED BY <3>1, <3>2 DEF IInv, FilesSound
  <2> QED BY <2>1, <2>2
<1>5. FilesSound'
    BY <1>3, <1>4 DEF FilesSound
<1>6. \A q \in DOMAIN file : file[q] \in Contents
    BY <1>2
<1>7. file' \in [DOMAIN file \cup { path } -> Contents]
    BY <1>0, <1>6
<1> QED BY <1>1, <1>2, <1>5, <1>7

\* The policies that a start still comes to, when it has done one write
LEMMA CoverKept ==
    ASSUME IInv, NEW p \in Processes, job[p].rest # << >>, NEW q, Covered(q),
           \A o \in Processes : o # p => job'[o] = job[o],
           \/ job'[p].rest = Tail(job[p].rest)
           \/ /\ Len(job'[p].rest) = Len(job[p].rest)
              /\ \A i \in 1..Len(job[p].rest) : i # 1 => job'[p].rest[i] = job[p].rest[i]
    PROVE  Covered(q)' \/ (p = "loop" /\ IsPolicy(Next1(p)) /\ Next1(p).about = q)
<1>1. "loop" \in Processes
    BY DEF Processes
<1>2. CASE p # "loop"
    BY <1>1, <1>2 DEF Covered
<1>3. CASE p = "loop"
  <2> DEFINE s == job[p].rest
             t == job'[p].rest
  <2>1. PICK i \in 1..Len(s) : IsPolicy(s[i]) /\ s[i].about = q
      BY <1>3 DEF Covered
  <2>2. s \in Seq(Write) /\ Next1(p) = s[1]
      BY NextWrite DEF Jobs
  <2>3. CASE i = 1
      BY <1>3, <2>1, <2>2, <2>3
  <2>4. CASE i # 1
    <3>1. i \in 2..Len(s)
        BY <2>2, <2>4, Parts
    <3>2. \E l \in 1..Len(t) : t[l] = s[i]
      <4>1. CASE t = Tail(s)
        <5>1. i - 1 \in 1..Len(Tail(s)) /\ Tail(s)[i - 1] = s[i]
            BY <2>2, <3>1, Parts
        <5> QED BY <4>1, <5>1
      <4>2. CASE Len(t) = Len(s) /\ \A l \in 1..Len(s) : l # 1 => t[l] = s[l]
        <5> HIDE DEF s, t
        <5> QED BY <2>1, <2>4, <4>2
      <4> QED BY <4>1, <4>2
    <3>3. PICK l \in 1..Len(t) : t[l] = s[i]
        BY <3>2
    <3> HIDE DEF s, t
    <3>4. IsPolicy(t[l]) /\ t[l].about = q
        BY <2>1, <3>3
    <3> QED BY <1>3, <3>3, <3>4 DEF Covered, t
  <2> QED BY <2>3, <2>4
<1> QED BY <1>2, <1>3

\* Where the files of the policies are left alone
LEMMA PoliciesKept ==
    ASSUME IInv, up' = up,
           \A q \in Policies : Shown(q) => Shown(q)' \/ (up = "starting" /\ Covered(q)'),
           \A q \in Policies : Covered(q) => Covered(q)' \/ (up = "starting" => Shown(q)')
    PROVE  PoliciesSound'
BY DEF IInv, PoliciesSound

-----------------------------------------------------------------------------
(* The writes, one at a time *)

\* The rows that are there, and those that a tick has listed, are left alone.
LEMMA RowsKept ==
    ASSUME IInv, UNCHANGED <<row, snap, up>>
    PROVE  RowsSound'
BY DEF IInv, RowsSound

\* One write of a start is over, which is none of a policy.
LEMMA FinishCovers ==
    ASSUME IInv, NEW p \in Processes, job[p].rest # << >>, Finishes(p), file' = file, up' = up,
           \A q \in Processes : q # p => job'[q] = job[q],
           job'[p].rest = Tail(job[p].rest), ~IsPolicy(Next1(p))
    PROVE  PoliciesSound'
<1>1. \A q \in Policies : Shown(q) => Shown(q)'
    BY DEF Shown
<1>2. \A q \in Policies : Covered(q) => Covered(q)'
    BY CoverKept
<1> QED BY <1>1, <1>2, PoliciesKept

\* db.save_node: what the row in the chain was, the table now has.
LEMMA SaveNodeKeeps ==
    ASSUME IInv, NEW p \in Processes, SaveNode(p)
    PROVE  IInv'
<1> DEFINE w == Next1(p)
<1>1. /\ job[p].rest # << >> /\ w.kind = "row" /\ w.about \in Nodes /\ Sound(w.row)
      /\ job[p].no \in 0..MaxJobs /\ w.row \in Row /\ w.row.state \in State
  <2>1. job[p].rest # << >> /\ w.kind = "row"
      BY DEF SaveNode, Doing
  <2>2. w \in Write /\ Proper(w) /\ job[p] \in Jobs
      BY <2>1, NextWrite
  <2>3. w.about \in Nodes /\ Sound(w.row)
      BY <2>1, <2>2, WriteFields DEF Proper
  <2> HIDE DEF w
  <2> QED BY <2>1, <2>2, <2>3 DEF Jobs, Sound, Row
<1>2. /\ row' = [row EXCEPT ![w.about] = w.row]
      /\ saved' = saved \cup { [about |-> w.about, to |-> w.row.state, no |-> job[p].no] }
      /\ Finishes(p)
      /\ UNCHANGED <<events, incidents, file, alerts, snap, up, now, jobs, asked, approved>>
    BY DEF SaveNode
<1>3. HeadIsDone(w, job[p].no)
    BY <1>1, <1>2 DEF HeadIsDone
<1>4. /\ job' \in [Processes -> Jobs] /\ JobsSound'
      /\ \A q \in Processes : q # p => job'[q] = job[q]
      /\ job'[p].rest = Tail(job[p].rest)
      /\ \A q \in Processes : job'[q] = job[q] \/ job'[q].rest = << >>
                              \/ job'[q].rest[1].kind # "close"
    BY <1>1, <1>2, <1>3, FinishKeeps
<1>5. ~IsPolicy(w)
    BY <1>1 DEF IsPolicy, IsFile
<1>6. PoliciesSound'
    BY <1>1, <1>2, <1>4, <1>5, FinishCovers
<1> HIDE DEF w
<1>7. TypeOK'
  <2>1. row' \in [Nodes -> Row \cup { NoRow }]
      BY <1>1, <1>2 DEF IInv, TypeOK
  <2>2. saved' \subseteq [about : Nodes, to : State, no : 0..MaxJobs]
      BY <1>1, <1>2 DEF IInv, TypeOK
  <2>3. job' \in [Processes -> [no : 0..MaxJobs, rest : Seq(Write)]]
      BY <1>4 DEF Jobs
  <2> QED BY <1>2, <2>1, <2>2, <2>3 DEF IInv, TypeOK
<1>8. RowsSound'
    BY <1>1, <1>2 DEF IInv, RowsSound, TypeOK
<1>9. PendingSound' /\ FilesSound'
    BY <1>2, <1>4, PendingKept, FilesKept
<1>10. AskedSound' /\ ApprovedSound' /\ EventsSound'
    BY <1>2 DEF IInv, AskedSound, ApprovedSound, EventsSound
<1> QED BY <1>4, <1>6, <1>7, <1>8, <1>9, <1>10 DEF IInv

\* db.save_event: the same job has saved the row with the state that it names.
LEMMA SaveEventKeeps ==
    ASSUME IInv, NEW p \in Processes, SaveEvent(p)
    PROVE  IInv'
<1> DEFINE w == Next1(p)
<1>1. /\ job[p].rest # << >> /\ w.kind = "event" /\ w.about \in Nodes
      /\ w.from \in State /\ w.to \in State /\ job[p].no \in 1..MaxJobs
      /\ [about |-> w.about, to |-> w.to, no |-> job[p].no] \in saved
  <2>1. job[p].rest # << >> /\ w.kind = "event"
      BY DEF SaveEvent, Doing
  <2>2. w \in Write /\ Grounded(w, {}, job[p].no) /\ job[p].no \in 1..MaxJobs
      BY <2>1, NextWrite
  <2>3. w.about \in Nodes /\ w.from \in State /\ w.to \in State
      BY <2>1, <2>2, WriteFields
  <2> HIDE DEF w
  <2> QED BY <2>1, <2>2, <2>3 DEF Grounded
<1>2. /\ events' = events \cup { [about |-> w.about, from |-> w.from, to |-> w.to,
                                  no |-> job[p].no] }
      /\ Finishes(p)
      /\ UNCHANGED <<row, incidents, file, alerts, snap, up, now, jobs, saved, asked, approved>>
    BY DEF SaveEvent
<1>3. HeadIsDone(w, job[p].no)
    BY <1>1, <1>2 DEF HeadIsDone
<1>4. /\ job' \in [Processes -> Jobs] /\ JobsSound'
      /\ \A q \in Processes : q # p => job'[q] = job[q]
      /\ job'[p].rest = Tail(job[p].rest)
      /\ \A q \in Processes : job'[q] = job[q] \/ job'[q].rest = << >>
                              \/ job'[q].rest[1].kind # "close"
    BY <1>1, <1>2, <1>3, FinishKeeps
<1>5. ~IsPolicy(w)
    BY <1>1 DEF IsPolicy, IsFile
<1>6. PoliciesSound'
    BY <1>1, <1>2, <1>4, <1>5, FinishCovers
<1> HIDE DEF w
<1>7. TypeOK'
  <2>1. events' \subseteq EventRecord
      BY <1>1, <1>2 DEF IInv, TypeOK, EventRecord
  <2>2. job' \in [Processes -> [no : 0..MaxJobs, rest : Seq(Write)]]
      BY <1>4 DEF Jobs
  <2> QED BY <1>2, <2>1, <2>2 DEF IInv, TypeOK
<1>8. EventsSound'
  <2>1. SUFFICES ASSUME NEW e \in events'
                 PROVE  [about |-> e.about, to |-> e.to, no |-> e.no] \in saved
      BY <1>2 DEF EventsSound
  <2>2. CASE e \in events
      BY <2>2 DEF IInv, EventsSound
  <2>3. CASE e = [about |-> w.about, from |-> w.from, to |-> w.to, no |-> job[p].no]
    <3>1. e.about = w.about /\ e.to = w.to /\ e.no = job[p].no
        BY <2>3
    <3> QED BY <1>1, <3>1
  <2> QED BY <1>2, <2>2, <2>3
<1>9. PendingSound' /\ FilesSound' /\ RowsSound'
    BY <1>2, <1>4, PendingKept, FilesKept, RowsKept
<1>10. AskedSound' /\ ApprovedSound'
    BY <1>2 DEF IInv, AskedSound, ApprovedSound
<1> QED BY <1>4, <1>6, <1>7, <1>8, <1>9, <1>10 DEF IInv

\* db.save_incident
LEMMA SaveIncidentKeeps ==
    ASSUME IInv, NEW p \in Processes, SaveIncident(p)
    PROVE  IInv'
<1> DEFINE w == Next1(p)
<1>1. job[p].rest # << >> /\ w.kind = "incident" /\ w.about \in IncidentIds
  <2>1. job[p].rest # << >> /\ w.kind = "incident"
      BY DEF SaveIncident, Doing
  <2>2. w \in Write
      BY <2>1, NextWrite
  <2> HIDE DEF w
  <2> QED BY <2>1, <2>2, WriteFields
<1>2. /\ incidents' = incidents \cup { w.about } /\ Finishes(p)
      /\ UNCHANGED <<row, events, file, alerts, snap, up, now, jobs, saved, asked, approved>>
    BY DEF SaveIncident
<1>3. HeadIsDone(w, job[p].no)
    BY <1>1, <1>2 DEF HeadIsDone
<1>4. /\ job' \in [Processes -> Jobs] /\ JobsSound'
      /\ \A q \in Processes : q # p => job'[q] = job[q]
      /\ job'[p].rest = Tail(job[p].rest)
      /\ \A q \in Processes : job'[q] = job[q] \/ job'[q].rest = << >>
                              \/ job'[q].rest[1].kind # "close"
    BY <1>1, <1>2, <1>3, FinishKeeps
<1>5. ~IsPolicy(w)
    BY <1>1 DEF IsPolicy, IsFile
<1>6. PoliciesSound'
    BY <1>1, <1>2, <1>4, <1>5, FinishCovers
<1> HIDE DEF w
<1>7. TypeOK'
    BY <1>1, <1>2, <1>4 DEF IInv, TypeOK, Jobs
<1>8. PendingSound' /\ FilesSound' /\ RowsSound'
    BY <1>2, <1>4, PendingKept, FilesKept, RowsKept
<1>9. AskedSound' /\ ApprovedSound' /\ EventsSound'
    BY <1>2 DEF IInv, AskedSound, ApprovedSound, EventsSound
<1> QED BY <1>4, <1>6, <1>7, <1>8, <1>9 DEF IInv

\* alerts.emit
LEMMA WriteAlertKeeps ==
    ASSUME IInv, NEW p \in Processes, WriteAlert(p)
    PROVE  IInv'
<1> DEFINE w == Next1(p)
<1>1. job[p].rest # << >> /\ w.kind = "alert" /\ w.about \in Nodes /\ job[p].no \in 1..MaxJobs
  <2>1. job[p].rest # << >> /\ w.kind = "alert"
      BY DEF WriteAlert, Doing
  <2>2. w \in Write /\ job[p].no \in 1..MaxJobs
      BY <2>1, NextWrite
  <2> HIDE DEF w
  <2> QED BY <2>1, <2>2, WriteFields
<1>2. /\ alerts' = Append(alerts, [about |-> w.about, no |-> job[p].no]) /\ Finishes(p)
      /\ UNCHANGED <<row, events, incidents, file, snap, up, now, jobs, saved, asked, approved>>
    BY DEF WriteAlert
<1>3. HeadIsDone(w, job[p].no)
    BY <1>1, <1>2 DEF HeadIsDone
<1>4. /\ job' \in [Processes -> Jobs] /\ JobsSound'
      /\ \A q \in Processes : q # p => job'[q] = job[q]
      /\ job'[p].rest = Tail(job[p].rest)
      /\ \A q \in Processes : job'[q] = job[q] \/ job'[q].rest = << >>
                              \/ job'[q].rest[1].kind # "close"
    BY <1>1, <1>2, <1>3, FinishKeeps
<1>5. ~IsPolicy(w)
    BY <1>1 DEF IsPolicy, IsFile
<1>6. PoliciesSound'
    BY <1>1, <1>2, <1>4, <1>5, FinishCovers
<1>7. alerts' \in Seq([about : Nodes, no : 1..MaxJobs])
  <2>1. [about |-> w.about, no |-> job[p].no] \in [about : Nodes, no : 1..MaxJobs]
      BY <1>1
  <2>2. alerts \in Seq([about : Nodes, no : 1..MaxJobs])
      BY DEF IInv, TypeOK
  <2> HIDE DEF w
  <2> QED BY <1>2, <2>1, <2>2, AppendProperties
<1> HIDE DEF w
<1>8. TypeOK'
    BY <1>1, <1>2, <1>4, <1>7 DEF IInv, TypeOK, Jobs
<1>9. PendingSound' /\ FilesSound' /\ RowsSound'
    BY <1>2, <1>4, PendingKept, FilesKept, RowsKept
<1>10. AskedSound' /\ ApprovedSound' /\ EventsSound'
    BY <1>2 DEF IInv, AskedSound, ApprovedSound, EventsSound
<1> QED BY <1>4, <1>6, <1>8, <1>9, <1>10 DEF IInv

\* The paths of the writes
LEMMA DayBound ==
    ASSUME now \in 0..MaxTime
    PROVE  Day(now) \in 0..MaxTime
BY DEF Day

\* A path names a directory, what it is about and, for a request, the operation.
Names(f, d, n, o) ==
    /\ f \in Paths /\ f.dir = d /\ f.name = n
    /\ d = "operation-requests" => f.op = o
    /\ d # "operation-requests" => f.op = ""

\* A request's path names what was requested.
LEMMA PathFacts ==
    ASSUME NEW d \in Directories, NEW n \in Subjects, NEW o \in Words, NEW t \in 0..MaxTime
    PROVE  Names(RequestPath(d, n, o, t), d, n, o)
<1>1. \A op \in Words \cup { "" }, at \in 0..MaxTime :
         /\ Path(d, n, op, at) \in Paths
         /\ Path(d, n, op, at).dir = d /\ Path(d, n, op, at).name = n
         /\ Path(d, n, op, at).op = op
    BY DEF Path, Paths
<1>2. 0 \in 0..MaxTime
    OBVIOUS
<1> QED BY <1>1, <1>2 DEF RequestPath, Names

\* The path that _write_yaml is given is the request's, of the day or of the hour.
LEMMA PathOfIs ==
    ASSUME NEW w
    PROVE  PathOf(w, now) = RequestPath(w.dir, w.about, w.says,
                                        IF w.dir = "maintenance" THEN Day(now) ELSE now)
BY DEF PathOf, RequestPath

\* open(path, "w"): the file is there and empty, and the chain has its content.
LEMMA OpenFileKeeps ==
    ASSUME IInv, NEW p \in Processes, OpenFile(p)
    PROVE  IInv'
<1> DEFINE w == Next1(p)
           at == IF w.dir = "maintenance" THEN Day(now) ELSE now
           path == PathOf(w, now)
           c == [kind |-> "close", dir |-> w.dir, about |-> w.about, says |-> w.says,
                 path |-> path, at |-> at]
<1>1. /\ job[p].rest # << >> /\ w.kind = "open" /\ w.dir \in Directories
      /\ w.about \in Subjects /\ w.says \in Words /\ w.about \in Named(w.dir)
      /\ Grounded(w, {}, job[p].no)
      /\ w.dir = "maintenance" => p = "loop"
      /\ w.dir = "policies" => p = "loop" /\ up = "starting"
  <2>1. job[p].rest # << >> /\ w.kind = "open"
      BY DEF OpenFile, Doing
  <2>2. /\ w \in Write /\ Proper(w) /\ Grounded(w, {}, job[p].no)
        /\ IsMaint(w) => p = "loop"
        /\ IsPolicy(w) => p = "loop" /\ up = "starting"
      BY <2>1, NextWrite
  <2> HIDE DEF w
  <2>3. IsFile(w)
      BY <2>1 DEF IsFile
  <2>4. w.dir \in Directories /\ w.about \in Subjects /\ w.says \in Words
      BY <2>2, <2>3, WriteFields
  <2>5. w.about \in Named(w.dir)
      BY <2>2, <2>3 DEF Proper
  <2> QED BY <2>1, <2>2, <2>3, <2>4, <2>5 DEF IsMaint, IsPolicy
<1>2. /\ file' = Written(path, Empty) /\ GoesOnWith(p, c)
      /\ approved' = IF w.dir = "maintenance"
                     THEN approved \ { <<w.about, Day(now)>> } ELSE approved
      /\ UNCHANGED <<row, events, incidents, alerts, snap, up, now, jobs, saved, asked>>
    BY DEF OpenFile
<1>3. now \in 0..MaxTime /\ at \in 0..MaxTime
    BY DayBound DEF IInv, TypeOK
<1>4. path = RequestPath(w.dir, w.about, w.says, at)
    BY PathOfIs
<1> HIDE DEF w, at, path
<1>5. /\ path \in Paths /\ path.dir = w.dir /\ path.name = w.about
      /\ w.dir = "operation-requests" => path.op = w.says
      /\ w.dir # "operation-requests" => path.op = ""
  <2>1. PICK d \in Directories, n \in Subjects, o \in Words :
            d = w.dir /\ n = w.about /\ o = w.says
      BY <1>1
  <2>2. PICK t \in 0..MaxTime : t = at
      BY <1>3
  <2>3. path = RequestPath(d, n, o, t)
      BY <1>4, <2>1, <2>2
  <2>4. Names(RequestPath(d, n, o, t), d, n, o)
      BY PathFacts
  <2> QED BY <2>1, <2>3, <2>4 DEF Names
<1>6. /\ c \in Write /\ c.kind = "close" /\ c.dir = w.dir /\ c.about = w.about
      /\ c.says = w.says /\ c.path = path /\ c.at = at
    BY <1>1, <1>3, <1>5 DEF Write
<1> HIDE DEF c
<1>7. /\ IsFile(c) /\ Proper(c) /\ Serves(c, w) /\ Grounded(c, {}, job[p].no)
      /\ IsMaint(c) => p = "loop"
      /\ IsPolicy(c) => p = "loop" /\ up = "starting"
  <2>1. IsFile(c) /\ IsFile(w)
      BY <1>1, <1>6 DEF IsFile
  <2>2. Proper(c)
      BY <1>1, <1>4, <1>6 DEF Proper
  <2>3. Serves(c, w)
      BY <1>1, <1>6, <2>1 DEF Serves
  <2>4. Grounded(c, {}, job[p].no)
      BY <1>1, <1>6, <2>1 DEF Grounded
  <2> QED BY <1>1, <1>6, <2>1, <2>2, <2>3, <2>4 DEF IsMaint, IsPolicy
<1>8. /\ job' \in [Processes -> Jobs] /\ JobsSound'
      /\ \A q \in Processes : q # p => job'[q] = job[q]
      /\ job'[p].rest[1] = c /\ Len(job'[p].rest) = Len(job[p].rest)
      /\ job'[p].rest # << >>
      /\ \A i \in 1..Len(job[p].rest) : i # 1 => job'[p].rest[i] = job[p].rest[i]
  <2>1. Serves(c, Next1(p))
      BY <1>7 DEF w
  <2>2. c.kind \notin { "event", "alert" }
      BY <1>6
  <2> QED BY <1>1, <1>2, <1>6, <1>7, <2>1, <2>2, GoesOnKeeps
<1>9. /\ FilesSound'
      /\ file' \in [DOMAIN file' -> Contents] /\ DOMAIN file' \subseteq Paths
      /\ DOMAIN file' = DOMAIN file \cup { path } /\ file'[path] = Empty
      /\ \A q \in DOMAIN file : q # path => file'[q] = file[q]
  <2>1. Empty \in Contents
      BY DEF Contents
  <2> QED BY <1>1, <1>2, <1>5, <2>1, FileWritten
<1>10. TypeOK'
    BY <1>2, <1>8, <1>9 DEF IInv, TypeOK, Jobs
<1>11. RowsSound' /\ EventsSound'
    BY <1>2, RowsKept DEF IInv, EventsSound
<1>12. AskedSound'
    BY <1>2, <1>9 DEF IInv, AskedSound
<1>13. ApprovedSound'
  <2>1. SUFFICES ASSUME NEW a \in approved'
                 PROVE  /\ Path("maintenance", a[1], "", a[2]) \in DOMAIN file'
                        /\ file'[Path("maintenance", a[1], "", a[2])]
                               = [about |-> a[1], says |-> "approved"]
      BY DEF ApprovedSound
  <2>2. /\ a \in approved /\ Path("maintenance", a[1], "", a[2]) \in DOMAIN file
        /\ file[Path("maintenance", a[1], "", a[2])] = [about |-> a[1], says |-> "approved"]
      BY <1>2 DEF IInv, ApprovedSound
  <2>3. Path("maintenance", a[1], "", a[2]) # path
    <3>1. SUFFICES ASSUME Path("maintenance", a[1], "", a[2]) = path
                   PROVE  FALSE
        OBVIOUS
    <3>2. w.dir = "maintenance"
      <4>1. Path("maintenance", a[1], "", a[2]).dir = "maintenance"
          BY DEF Path
      <4> QED BY <1>5, <3>1, <4>1
    <3>3. path = Path("maintenance", w.about, "", Day(now))
        BY <1>4, <3>2 DEF RequestPath, at
    <3>4. a[1] = w.about /\ a[2] = Day(now)
      <4>1. Path("maintenance", a[1], "", a[2]) = Path("maintenance", w.about, "", Day(now))
          BY <3>1, <3>3
      <4>2. /\ Path("maintenance", a[1], "", a[2]).name = a[1]
            /\ Path("maintenance", a[1], "", a[2]).at = a[2]
          BY DEF Path
      <4>3. /\ Path("maintenance", w.about, "", Day(now)).name = w.about
            /\ Path("maintenance", w.about, "", Day(now)).at = Day(now)
          BY DEF Path
      <4> QED BY <4>1, <4>2, <4>3
    <3>5. a = <<a[1], a[2]>>
      <4>1. a \in Nodes \X (0..MaxTime)
          BY <2>2 DEF IInv, TypeOK
      <4> QED BY <4>1
    <3> QED BY <1>2, <3>2, <3>4, <3>5
  <2> QED BY <1>9, <2>2, <2>3
<1>14. PendingSound'
  <2>1. SUFFICES ASSUME NEW q \in Processes, job'[q].rest # << >>,
                        job'[q].rest[1].kind = "close", job'[q].rest[1].dir = "maintenance"
                 PROVE  /\ job'[q].rest[1].path \in DOMAIN file'
                        /\ file'[job'[q].rest[1].path] = Empty
                        /\ <<job'[q].rest[1].about, job'[q].rest[1].at>> \notin approved'
      BY DEF PendingSound
  <2>2. CASE q = p
    <3>1. job'[q].rest[1] = c
        BY <1>8, <2>2
    <3>2. c.dir = "maintenance" /\ c.at = Day(now)
        BY <1>6, <2>1, <3>1 DEF at
    <3>3. <<c.about, c.at>> \notin approved'
        BY <1>2, <1>6, <3>2
    <3> QED BY <1>6, <1>9, <3>1, <3>3
  <2>3. CASE q # p
    <3> DEFINE x == job[q].rest[1]
    <3>1. job'[q] = job[q]
        BY <1>8, <2>3
    <3>2. job[q].rest # << >> /\ x.kind = "close" /\ x.dir = "maintenance"
        BY <2>1, <3>1
    <3>3. Proper(x) /\ q = "loop"
        BY <3>2, NextWrite DEF IsMaint, IsFile
    <3>4. x.path \in DOMAIN file /\ file[x.path] = Empty /\ <<x.about, x.at>> \notin approved
        BY <3>2 DEF IInv, PendingSound
    <3> HIDE DEF x
    <3>5. x.path.dir = "maintenance"
      <4>1. x.path = Path("maintenance", x.about, "", x.at)
          BY <3>2, <3>3 DEF Proper, RequestPath
      <4>2. Path("maintenance", x.about, "", x.at).dir = "maintenance"
          BY DEF Path
      <4> QED BY <4>1, <4>2
    <3>6. x.path # path
        BY <1>1, <1>5, <2>3, <3>3, <3>5
    <3>7. x.path \in DOMAIN file' /\ file'[x.path] = Empty /\ <<x.about, x.at>> \notin approved'
        BY <1>2, <1>9, <3>4, <3>6
    <3> QED BY <3>1, <3>7 DEF x
  <2> QED BY <2>2, <2>3
<1>15. PoliciesSound'
  <2>1. ASSUME NEW q \in Policies, Shown(q)
        PROVE  Shown(q)' \/ (up = "starting" /\ Covered(q)')
    <3>1. CASE PolicyPath(q) # path
        BY <1>9, <2>1, <3>1 DEF Shown
    <3>2. CASE PolicyPath(q) = path
      <4>1. PolicyPath(q).dir = "policies" /\ PolicyPath(q).name = q
          BY DEF PolicyPath, Path
      <4>2. w.dir = "policies" /\ w.about = q
          BY <1>5, <3>2, <4>1
      <4>3. IsPolicy(c) /\ c.about = q
          BY <1>6, <1>7, <4>2 DEF IsPolicy
      <4>4. 1 \in 1..Len(job'["loop"].rest) /\ p = "loop" /\ up = "starting"
        <5>1. job'[p].rest \in Seq(Write)
            BY <1>8 DEF Jobs
        <5>2. 1 \in 1..Len(job'[p].rest)
            BY <1>8, <5>1, Parts
        <5> QED BY <1>1, <4>2, <5>2
      <4> QED BY <1>8, <4>3, <4>4 DEF Covered
    <3> QED BY <3>1, <3>2
  <2>2. ASSUME NEW q \in Policies, Covered(q)
        PROVE  Covered(q)'
    <3>1. Covered(q)' \/ (p = "loop" /\ IsPolicy(w) /\ w.about = q)
        BY <1>1, <1>8, <2>2, CoverKept DEF w
    <3>2. ASSUME p = "loop", IsPolicy(w), w.about = q
          PROVE  Covered(q)'
      <4>1. IsPolicy(c) /\ c.about = q
          BY <1>1, <1>6, <1>7, <3>2 DEF IsPolicy
      <4>2. 1 \in 1..Len(job'[p].rest)
        <5>1. job'[p].rest \in Seq(Write)
            BY <1>8 DEF Jobs
        <5> QED BY <1>8, <5>1, Parts
      <4> QED BY <1>8, <3>2, <4>1, <4>2 DEF Covered
    <3> QED BY <3>1, <3>2
  <2> QED BY <1>2, <2>1, <2>2, PoliciesKept
<1> QED BY <1>8, <1>9, <1>10, <1>11, <1>12, <1>13, <1>14, <1>15 DEF IInv

\* The path in the chain is the one that the request named.
LEMMA CloseFacts ==
    ASSUME NEW w, Proper(w), w.kind = "close"
    PROVE  /\ w.dir \in Directories /\ w.about \in Subjects /\ w.says \in Words
           /\ w.about \in Named(w.dir) /\ w.at \in 0..MaxTime
           /\ w.path = RequestPath(w.dir, w.about, w.says, w.at)
           /\ Names(w.path, w.dir, w.about, w.says)
<1>1. /\ w.dir \in Directories /\ w.about \in Subjects /\ w.says \in Words
      /\ w.at \in 0..MaxTime /\ IsFile(w)
    BY WriteFields DEF Proper, IsFile
<1>2. w.about \in Named(w.dir) /\ w.path = RequestPath(w.dir, w.about, w.says, w.at)
    BY <1>1 DEF Proper
<1>3. PICK d \in Directories, n \in Subjects, o \in Words :
          d = w.dir /\ n = w.about /\ o = w.says
    BY <1>1
<1>4. PICK t \in 0..MaxTime : t = w.at
    BY <1>1
<1>5. w.path = RequestPath(d, n, o, t)
    BY <1>2, <1>3, <1>4
<1>6. Names(RequestPath(d, n, o, t), d, n, o)
    BY PathFacts
<1>7. Names(w.path, w.dir, w.about, w.says)
    BY <1>3, <1>5, <1>6
<1> QED BY <1>1, <1>2, <1>7

\* close(): the content is in the file, and the request counts as made.
LEMMA CloseFileKeeps ==
    ASSUME IInv, NEW p \in Processes, CloseFile(p)
    PROVE  IInv'
<1> DEFINE w == Next1(p)
           path == w.path
           content == [about |-> w.about, says |-> w.says]
           a == [dir |-> w.dir, about |-> w.about, says |-> w.says, at |-> w.at]
<1>1. job[p].rest # << >> /\ w.kind = "close" /\ Proper(w) /\ Grounded(w, {}, job[p].no)
  <2>1. job[p].rest # << >> /\ w.kind = "close"
      BY DEF CloseFile, Doing
  <2> QED BY <2>1, NextWrite
<1>2. /\ file' = Written(path, content) /\ Finishes(p)
      /\ asked' = IF w.dir \in { "operation-requests", "maintenance" }
                  THEN asked \cup { a } ELSE asked
      /\ UNCHANGED <<row, events, incidents, alerts, snap, up, now, jobs, saved, approved>>
    BY DEF CloseFile
<1>3. /\ IsFile(w)
      /\ w.dir = "maintenance" => p = "loop"
      /\ w.dir = "policies" => p = "loop" /\ up = "starting"
  <2>1. IsFile(w)
      BY <1>1 DEF IsFile
  <2>2. /\ IsMaint(w) => p = "loop"
        /\ IsPolicy(w) => p = "loop" /\ up = "starting"
      BY <1>1, NextWrite
  <2> QED BY <2>1, <2>2 DEF IsMaint, IsPolicy
<1>4. w = job[p].rest[1]
    BY <1>1, NextWrite
<1> HIDE DEF w, a
<1>5. /\ w.dir \in Directories /\ w.about \in Subjects /\ w.says \in Words
      /\ w.about \in Named(w.dir) /\ w.at \in 0..MaxTime
      /\ path = RequestPath(w.dir, w.about, w.says, w.at)
      /\ path \in Paths /\ path.dir = w.dir /\ path.name = w.about
      /\ w.dir = "operation-requests" => path.op = w.says
      /\ w.dir # "operation-requests" => path.op = ""
    BY <1>1, CloseFacts DEF Names
<1>6. a.dir = w.dir /\ a.about = w.about /\ a.says = w.says /\ a.at = w.at
    BY DEF a
<1>7. HeadIsDone(w, job[p].no)
  <2>1. w.dir = "operation-requests" => a \in asked'
      BY <1>2
  <2> QED BY <1>1, <2>1 DEF HeadIsDone, a
<1>8. asked \subseteq asked'
    BY <1>2
<1>9. /\ job' \in [Processes -> Jobs] /\ JobsSound'
      /\ \A q \in Processes : q # p => job'[q] = job[q]
      /\ job'[p].rest = Tail(job[p].rest)
      /\ \A q \in Processes : job'[q] = job[q] \/ job'[q].rest = << >>
                              \/ job'[q].rest[1].kind # "close"
    BY <1>1, <1>2, <1>7, <1>8, FinishKeeps DEF w
<1> HIDE DEF path, content
<1>10. /\ content \in Contents /\ content # Empty /\ content.about = w.about
       /\ content.says = w.says
  <2>1. content.about = w.about /\ content.says = w.says /\ content \in Contents
      BY <1>5 DEF content, Contents
  <2>2. "" \notin Words
      BY DEF Words, State
  <2>3. Empty.says = ""
      BY DEF Empty
  <2> HIDE DEF content
  <2> QED BY <1>5, <2>1, <2>2, <2>3
<1>11. /\ w.dir = "incidents" => w.about \in incidents'
       /\ w.dir = "cordons" => \E x \in asked' : x.about = w.about /\ x.says = "day2_cordon"
  <2>1. w.dir = "incidents" => w.about \in incidents
      BY <1>1, <1>3 DEF Grounded
  <2>2. w.dir = "cordons" => AskedToCordon(w.about)
      BY <1>1, <1>3 DEF Grounded
  <2>3. AskedToCordon(w.about) => \E x \in asked' : x.about = w.about /\ x.says = "day2_cordon"
      BY <1>8 DEF AskedToCordon
  <2> QED BY <1>2, <2>1, <2>2, <2>3
<1>12. /\ FilesSound'
       /\ file' \in [DOMAIN file' -> Contents] /\ DOMAIN file' \subseteq Paths
       /\ DOMAIN file' = DOMAIN file \cup { path } /\ file'[path] = content
       /\ \A q \in DOMAIN file : q # path => file'[q] = file[q]
  <2>1. PICK f \in Paths : f = path
      BY <1>5
  <2>2. PICK text \in Contents : text = content
      BY <1>10
  <2>3. f.dir = "cordons" => AskedToCordon(f.name)'
      BY <1>5, <1>11, <2>1 DEF AskedToCordon
  <2>4. /\ file' = Written(f, text) /\ f.name \in Named(f.dir)
        /\ f.dir # "operation-requests" => f.op = ""
        /\ text.about = f.name
        /\ f.dir = "operation-requests" => text.says = f.op
        /\ f.dir = "incidents" => f.name \in incidents'
        /\ incidents \subseteq incidents'
      BY <1>2, <1>5, <1>10, <1>11, <2>1, <2>2
  <2>5. /\ FilesSound'
        /\ file' \in [DOMAIN file' -> Contents] /\ DOMAIN file' \subseteq Paths
        /\ DOMAIN file' = DOMAIN file \cup { f } /\ file'[f] = text
        /\ \A q \in DOMAIN file : q # f => file'[q] = file[q]
      BY <1>8, <2>3, <2>4, FileWritten
  <2> QED BY <2>1, <2>2, <2>5
<1>13. TypeOK'
  <2>1. w.dir \in { "operation-requests", "maintenance" } =>
            a \in [dir : Directories, about : Nodes, says : Words, at : 0..MaxTime]
      BY <1>5 DEF a, Named
  <2>2. asked' \subseteq [dir : Directories, about : Nodes, says : Words, at : 0..MaxTime]
      BY <1>2, <2>1 DEF IInv, TypeOK
  <2> QED BY <1>2, <1>9, <1>12, <2>2 DEF IInv, TypeOK, Jobs
<1>14. RowsSound' /\ EventsSound'
    BY <1>2, RowsKept DEF IInv, EventsSound
<1>15. AskedSound'
  <2>1. SUFFICES ASSUME NEW b \in asked'
                 PROVE  /\ b.dir \in { "operation-requests", "maintenance" }
                        /\ RequestPath(b.dir, b.about, b.says, b.at) \in DOMAIN file'
      BY DEF AskedSound
  <2>2. CASE b \in asked
      BY <1>12, <2>2 DEF IInv, AskedSound
  <2>3. CASE b = a /\ w.dir \in { "operation-requests", "maintenance" }
      BY <1>5, <1>6, <1>12, <2>3
  <2> QED BY <1>2, <2>2, <2>3
<1>16. w.dir = "maintenance" => /\ path = Path("maintenance", w.about, "", w.at)
                               /\ <<w.about, w.at>> \notin approved
  <2>1. w.dir = "maintenance" => <<w.about, w.at>> \notin approved
      BY <1>1, <1>4 DEF IInv, PendingSound
  <2> QED BY <1>5, <2>1 DEF RequestPath
<1>17. ApprovedSound'
  <2>1. SUFFICES ASSUME NEW b \in approved'
                 PROVE  /\ Path("maintenance", b[1], "", b[2]) \in DOMAIN file'
                        /\ file'[Path("maintenance", b[1], "", b[2])]
                               = [about |-> b[1], says |-> "approved"]
      BY DEF ApprovedSound
  <2>2. /\ b \in approved /\ Path("maintenance", b[1], "", b[2]) \in DOMAIN file
        /\ file[Path("maintenance", b[1], "", b[2])] = [about |-> b[1], says |-> "approved"]
      BY <1>2 DEF IInv, ApprovedSound
  <2>3. Path("maintenance", b[1], "", b[2]) # path
    <3>1. SUFFICES ASSUME Path("maintenance", b[1], "", b[2]) = path
                   PROVE  FALSE
        OBVIOUS
    <3>2. /\ Path("maintenance", b[1], "", b[2]).dir = "maintenance"
          /\ Path("maintenance", b[1], "", b[2]).name = b[1]
          /\ Path("maintenance", b[1], "", b[2]).at = b[2]
        BY DEF Path
    <3>3. w.dir = "maintenance"
        BY <1>5, <3>1, <3>2
    <3>4. /\ Path("maintenance", w.about, "", w.at).name = w.about
          /\ Path("maintenance", w.about, "", w.at).at = w.at
        BY DEF Path
    <3>5. b[1] = w.about /\ b[2] = w.at
        BY <1>16, <3>1, <3>2, <3>3, <3>4
    <3>6. b = <<b[1], b[2]>>
      <4>1. b \in Nodes \X (0..MaxTime)
          BY <2>2 DEF IInv, TypeOK
      <4> QED BY <4>1
    <3> QED BY <1>16, <2>2, <3>3, <3>5, <3>6
  <2> QED BY <1>12, <2>2, <2>3
<1>18. PendingSound'
  <2>1. CASE w.dir # "maintenance"
    <3>1. \A q \in DOMAIN file : q.dir = "maintenance" => q # path
        BY <1>5, <2>1
    <3> QED BY <1>2, <1>9, <1>12, <3>1, PendingKept
  <2>2. CASE w.dir = "maintenance"
    <3>1. SUFFICES ASSUME NEW q \in Processes, job'[q].rest # << >>,
                          job'[q].rest[1].kind = "close", job'[q].rest[1].dir = "maintenance"
                   PROVE  FALSE
        BY DEF PendingSound
    <3>2. job'[q] = job[q]
        BY <1>9, <3>1
    <3>3. q = "loop"
      <4>1. IsMaint(job[q].rest[1])
          BY <3>1, <3>2 DEF IsMaint, IsFile
      <4> QED BY <3>1, <3>2, <4>1, NextWrite
    <3>4. q = p
        BY <1>3, <2>2, <3>3
    <3>5. Tail(job[p].rest) = job[p].rest
        BY <1>9, <3>2, <3>4
    <3>6. Len(Tail(job[p].rest)) = Len(job[p].rest) - 1 /\ Len(job[p].rest) \in Nat
      <4>1. job[p].rest \in Seq(Write)
          BY <1>1, NextWrite DEF Jobs
      <4> QED BY <1>1, <4>1, Parts
    <3> DEFINE l == Len(job[p].rest)
    <3>7. l = l - 1 /\ l \in Nat
        BY <3>5, <3>6
    <3> HIDE DEF l
    <3> QED BY <3>7
  <2> QED BY <2>1, <2>2
<1>19. PoliciesSound'
  <2>1. ASSUME NEW q \in Policies, Shown(q)
        PROVE  Shown(q)'
    <3>1. CASE PolicyPath(q) # path
        BY <1>12, <2>1, <3>1 DEF Shown
    <3>2. CASE PolicyPath(q) = path
        BY <1>10, <1>12, <3>2 DEF Shown
    <3> QED BY <3>1, <3>2
  <2>2. ASSUME NEW q \in Policies, Covered(q)
        PROVE  Covered(q)' \/ Shown(q)'
    <3>1. Covered(q)' \/ (p = "loop" /\ IsPolicy(w) /\ w.about = q)
        BY <1>1, <1>9, <2>2, CoverKept DEF w
    <3>2. ASSUME IsPolicy(w), w.about = q
          PROVE  Shown(q)'
      <4>1. w.dir = "policies"
          BY <1>1, <3>2 DEF IsPolicy
      <4>2. path = PolicyPath(q)
          BY <1>5, <3>2, <4>1 DEF RequestPath, PolicyPath
      <4> QED BY <1>10, <1>12, <4>2 DEF Shown
    <3> QED BY <3>1, <3>2
  <2> QED BY <1>2, <2>1, <2>2, PoliciesKept
<1> QED BY <1>9, <1>12, <1>13, <1>14, <1>15, <1>17, <1>18, <1>19 DEF IInv

\* seed_default_policies: a policy is passed over where it can be read.
LEMMA SeedPolicyKeeps ==
    ASSUME IInv, NEW p \in Processes, SeedPolicy(p)
    PROVE  IInv'
<1> DEFINE w == Next1(p)
           c == File("policies", w.about, "default")
<1>1. /\ job[p].rest # << >> /\ w.kind = "policy" /\ w.about \in Policies
      /\ p = "loop" /\ up = "starting"
  <2>1. job[p].rest # << >> /\ w.kind = "policy"
      BY DEF SeedPolicy, Doing
  <2>2. w \in Write /\ (IsPolicy(w) => p = "loop" /\ up = "starting")
      BY <2>1, NextWrite
  <2> HIDE DEF w
  <2> QED BY <2>1, <2>2, WriteFields DEF IsPolicy
<1>2. /\ UNCHANGED <<row, events, incidents, file, alerts, saved, asked, approved>>
      /\ UNCHANGED <<snap, up, now, jobs>>
    BY DEF SeedPolicy, written
<1>3. \/ ReadYaml(PolicyPath(w.about)) # Empty /\ Finishes(p)
      \/ GoesOnWith(p, c)
    BY DEF SeedPolicy
<1>4. HeadIsDone(w, job[p].no)
    BY <1>1 DEF HeadIsDone
<1>5. /\ c \in Write /\ Proper(c) /\ IsPolicy(c) /\ ~IsMaint(c) /\ c.about = w.about
      /\ c.kind = "open" /\ Serves(c, w) /\ Grounded(c, {}, job[p].no)
  <2>1. c.kind = "open" /\ c.dir = "policies" /\ c.about = w.about /\ c.says = "default"
      BY DEF File
  <2>2. c \in Write
    <3>1. w.about \in Subjects /\ "policies" \in Directories /\ "default" \in Words
        BY <1>1 DEF Subjects, Directories, Words
    <3> HIDE DEF w
    <3> QED BY <3>1 DEF File, Write
  <2> HIDE DEF c, w
  <2>3. w.about \in Named("policies")
      BY <1>1 DEF Named
  <2> QED BY <1>1, <2>1, <2>2, <2>3
          DEF Proper, IsFile, IsPolicy, IsMaint, Serves, Grounded
<1>6. CASE ReadYaml(PolicyPath(w.about)) # Empty /\ Finishes(p)
  <2>1. /\ job' \in [Processes -> Jobs] /\ JobsSound'
        /\ \A q \in Processes : q # p => job'[q] = job[q]
        /\ job'[p].rest = Tail(job[p].rest)
        /\ \A q \in Processes : job'[q] = job[q] \/ job'[q].rest = << >>
                                \/ job'[q].rest[1].kind # "close"
      BY <1>1, <1>2, <1>4, <1>6, FinishKeeps
  <2>2. Shown(w.about)
      BY <1>6 DEF Shown, ReadYaml
  <2>3. \A q \in Policies : Shown(q) => Shown(q)'
      BY <1>2 DEF Shown
  <2>4. \A q \in Policies : Covered(q) => Covered(q)' \/ q = w.about
      BY <1>1, <2>1, CoverKept
  <2> HIDE DEF w
  <2>5. PoliciesSound'
      BY <1>1, <1>2, <2>2, <2>3, <2>4, PoliciesKept
  <2>6. TypeOK'
      BY <1>2, <2>1 DEF IInv, TypeOK, Jobs
  <2>7. PendingSound' /\ FilesSound' /\ RowsSound'
      BY <1>2, <2>1, PendingKept, FilesKept, RowsKept
  <2>8. AskedSound' /\ ApprovedSound' /\ EventsSound'
      BY <1>2 DEF IInv, AskedSound, ApprovedSound, EventsSound
  <2> QED BY <2>1, <2>5, <2>6, <2>7, <2>8 DEF IInv
<1>7. CASE GoesOnWith(p, c)
  <2>1. c.kind \notin { "event", "alert" }
      BY <1>5
  <2> HIDE DEF c
  <2>2. /\ job' \in [Processes -> Jobs] /\ JobsSound'
        /\ \A q \in Processes : q # p => job'[q] = job[q]
        /\ job'[p].rest[1] = c /\ Len(job'[p].rest) = Len(job[p].rest)
        /\ job'[p].rest # << >>
        /\ \A i \in 1..Len(job[p].rest) : i # 1 => job'[p].rest[i] = job[p].rest[i]
      BY <1>1, <1>2, <1>5, <1>7, <2>1, GoesOnKeeps
  <2>3. ASSUME NEW q \in Policies, Covered(q)
        PROVE  Covered(q)'
    <3>0. Covered(q)' \/ (p = "loop" /\ IsPolicy(w) /\ w.about = q)
        BY <1>1, <2>2, <2>3, CoverKept
    <3>1. 1 \in 1..Len(job'[p].rest)
      <4>1. job'[p].rest \in Seq(Write)
          BY <2>2 DEF Jobs
      <4> QED BY <2>2, <4>1, Parts
    <3>2. p = "loop" /\ IsPolicy(c) /\ c.about = w.about
        BY <1>1, <1>5
    <3> HIDE DEF w
    <3>3. CASE w.about = q
        BY <2>2, <3>1, <3>2, <3>3 DEF Covered
    <3> QED BY <3>0, <3>3
  <2>4. \A q \in Policies : Shown(q) => Shown(q)'
      BY <1>2 DEF Shown
  <2>6. PoliciesSound'
      BY <1>2, <2>3, <2>4, PoliciesKept
  <2>7. TypeOK'
      BY <1>2, <2>2 DEF IInv, TypeOK, Jobs
  <2>8. \A q \in Processes : job'[q] = job[q] \/ job'[q].rest[1].kind # "close"
      BY <1>5, <2>2
  <2>9. PendingSound' /\ FilesSound' /\ RowsSound'
      BY <1>2, <2>8, PendingKept, FilesKept, RowsKept
  <2>10. AskedSound' /\ ApprovedSound' /\ EventsSound'
      BY <1>2 DEF IInv, AskedSound, ApprovedSound, EventsSound
  <2> QED BY <2>2, <2>6, <2>7, <2>9, <2>10 DEF IInv
<1> QED BY <1>3, <1>6, <1>7

-----------------------------------------------------------------------------
(* Who starts to write, and who stops *)

\* The list that a tick works on, and whose tick it is
SnapTyped ==
    /\ snap = [op |-> snap.op, rows |-> snap.rows]
    /\ snap.op \in { "none", "reconciler", "maintenance", "testing" }
    /\ snap.rows \in [DOMAIN snap.rows -> Row] /\ DOMAIN snap.rows \subseteq Nodes

\* A step that writes nothing
LEMMA QuietStep ==
    ASSUME IInv, UNCHANGED written, job' \in [Processes -> Jobs], JobsSound',
           \A q \in Processes : job'[q] = job[q] \/ job'[q].rest = << >>
                               \/ job'[q].rest[1].kind # "close",
           SnapTyped', RowsSound', PoliciesSound', up' \in { "down", "starting", "up" },
           now' \in 0..MaxTime, jobs' \in 0..MaxJobs
    PROVE  IInv'
<1>1. UNCHANGED <<row, events, incidents, file, alerts, saved, asked, approved>>
    BY DEF written
<1>2. TypeOK'
    BY <1>1 DEF IInv, TypeOK, SnapTyped, Jobs
<1>3. PendingSound' /\ FilesSound'
    BY <1>1, PendingKept, FilesKept
<1>4. AskedSound' /\ ApprovedSound' /\ EventsSound'
    BY <1>1 DEF IInv, AskedSound, ApprovedSound, EventsSound
<1> QED BY <1>2, <1>3, <1>4 DEF IInv

\* The policies, where the server does not start and its files are left alone
LEMMA PoliciesStay ==
    ASSUME IInv, file' = file, up' = up, up # "starting" \/ job'["loop"] = job["loop"]
    PROVE  PoliciesSound'
<1>1. \A q \in Policies : Shown(q) => Shown(q)'
    BY DEF Shown
<1>2. job'["loop"] = job["loop"] => \A q \in Policies : Covered(q) => Covered(q)'
    BY DEF Covered
<1> QED BY <1>1, <1>2 DEF IInv, PoliciesSound

\* Between the ticks there is no list.
LEMMA NoTickSound ==
    /\ NoTick = [op |-> NoTick.op, rows |-> NoTick.rows] /\ NoTick.op = "none"
    /\ DOMAIN NoTick.rows = {} /\ NoTick.rows \in [DOMAIN NoTick.rows -> Row]
BY DEF NoTick

\* What db.list_nodes returns is sound.
LEMMA ListedSound ==
    ASSUME IInv
    PROVE  /\ DOMAIN Listed \subseteq Nodes /\ Listed \in [DOMAIN Listed -> Row]
           /\ \A n \in DOMAIN Listed : Sound(Listed[n])
<1>1. \A n \in DOMAIN Listed : n \in Nodes /\ row[n] # NoRow /\ Listed[n] = FromDb(row[n])
    BY DEF Listed
<1>2. \A n \in DOMAIN Listed : Sound(Listed[n])
    BY <1>1, FromDbSound DEF IInv, RowsSound
<1>3. \A n \in DOMAIN Listed : Listed[n] \in Row
    BY <1>2 DEF Sound
<1>4. Listed = [n \in DOMAIN Listed |-> Listed[n]]
    BY DEF Listed
<1> QED BY <1>1, <1>2, <1>3, <1>4

\* An exception
LEMMA RaiseKeeps ==
    ASSUME IInv, NEW p \in Processes, Raise(p)
    PROVE  IInv'
<1>1. /\ job' = [job EXCEPT ![p] = NoJob]
      /\ snap' = (IF p = "loop" THEN NoTick ELSE snap)
      /\ up' = (IF p = "loop" /\ up = "starting" THEN "down" ELSE up)
      /\ UNCHANGED <<written, now, jobs>>
    BY DEF Raise
<1>2. job \in [Processes -> Jobs] /\ up \in { "down", "starting", "up" } /\ SnapTyped
      /\ now \in 0..MaxTime /\ jobs \in 0..MaxJobs
    BY DEF IInv, TypeOK, Jobs, SnapTyped
<1>3. /\ job' \in [Processes -> Jobs]
      /\ \A q \in Processes : job'[q] = IF q = p THEN NoJob ELSE job[q]
    BY <1>1, <1>2, NoJobSound
<1>4. JobsSound'
  <2>1. JobSound(p, NoJob)'
      BY NoJobSound
  <2>2. ASSUME NEW q \in Processes
        PROVE  JobSound(q, job[q])'
    <3>1. q = "loop" /\ q # p => up' = up
        BY <1>1
    <3> QED BY <1>1, <1>3, <2>1, <3>1, OthersStay DEF written
  <2> QED BY <2>2 DEF JobsSound
<1>5. SnapTyped'
    BY <1>1, <1>2, NoTickSound DEF SnapTyped
<1>6. RowsSound'
    BY <1>1, NoTickSound DEF IInv, RowsSound, written
<1>7. PoliciesSound'
  <2>1. "loop" \in Processes /\ file' = file
      BY <1>1 DEF Processes, written
  <2>2. CASE p = "loop" /\ up = "starting"
      BY <1>1, <2>2 DEF PoliciesSound
  <2>3. CASE ~(p = "loop" /\ up = "starting")
      BY <1>1, <1>3, <2>1, <2>3, PoliciesStay
  <2> QED BY <2>2, <2>3
<1>8. \A q \in Processes : job'[q] = job[q] \/ job'[q].rest = << >>
    BY <1>3, NoJobSound
<1> QED BY <1>1, <1>2, <1>3, <1>4, <1>5, <1>6, <1>7, <1>8, QuietStep

\* seed_fleet begins.
LEMMA SetupKeeps ==
    ASSUME IInv, Setup
    PROVE  IInv'
<1> DEFINE s == [i \in 1..Cardinality(Nodes) |->
                    RowOf(SetToSeq(Nodes)[i], Seed[SetToSeq(Nodes)[i]])]
<1>1. Begins("setup", 0, s) /\ UNCHANGED <<written, snap, up, now, jobs>>
    BY DEF Setup
<1>2. s \in Seq(Write) /\ (Len(s) # 0 => Plan(s, FALSE)) /\ \A i \in 1..Len(s) : s[i].kind = "row"
    BY SetupPlanned
<1> HIDE DEF s
<1>3. Plan(s, FALSE) \/ s = << >>
    BY <1>2, Emptiness
<1>4. "setup" \in Processes /\ "loop" \in Processes /\ 0 \in 0..MaxJobs
    BY DEF Processes
<1>5. UNCHANGED <<row, file, saved, incidents, asked>>
    BY <1>1 DEF written
<1>6. /\ job' \in [Processes -> Jobs] /\ JobsSound'
      /\ \A q \in Processes : q # "setup" => job'[q] = job[q]
      /\ \A q \in Processes : job'[q] = job[q] \/ job'[q].rest = << >>
                              \/ job'[q].rest[1].kind # "close"
    BY <1>1, <1>2, <1>3, <1>4, <1>5, BeginKeeps
<1>7. PoliciesSound'
    BY <1>1, <1>4, <1>5, <1>6, PoliciesStay
<1>8. SnapTyped'
    BY <1>1 DEF IInv, TypeOK, SnapTyped
<1>9. now' \in 0..MaxTime /\ jobs' \in 0..MaxJobs /\ up' \in { "down", "starting", "up" }
    BY <1>1 DEF IInv, TypeOK
<1>10. RowsSound'
    BY <1>1, <1>5, RowsKept
<1> QED BY <1>1, <1>6, <1>7, <1>8, <1>9, <1>10, QuietStep

\* The server starts: it will come to each of its policies.
LEMMA StartupKeeps ==
    ASSUME IInv, Startup
    PROVE  IInv'
<1> DEFINE s == << Policy("health-thresholds"), Policy("test-schedule"),
                   Policy("firmware-baseline") >>
           k == [no |-> 0, rest |-> s]
<1>1. /\ up = "down" /\ up' = "starting" /\ Begins("loop", 0, s)
      /\ UNCHANGED <<written, snap, now, jobs>>
    BY DEF Startup
<1>2. \A q \in Policies : /\ Policy(q) \in Write /\ Policy(q).kind = "policy"
                          /\ Policy(q).about = q
    BY DEF Policy, Write
<1>3. /\ Len(s) = 3 /\ s \in Seq({ Policy(q) : q \in Policies })
      /\ s[1] = Policy("health-thresholds") /\ s[2] = Policy("test-schedule")
      /\ s[3] = Policy("firmware-baseline")
    BY DEF Policies
<1> HIDE DEF s
<1>4. \A q \in Policies : \E i \in 1..Len(s) : s[i] = Policy(q)
    BY <1>3 DEF Policies
<1>5. \A i \in 1..Len(s) : \E q \in Policies : s[i] = Policy(q)
    BY <1>3
<1>6. s \in Seq(Write)
    BY <1>2, <1>3
<1>7. k \in Jobs /\ k.rest = s /\ k.no = 0
    BY <1>6 DEF Jobs
<1> HIDE DEF k
<1>8. JobSound("loop", k)'
  <2>1. \A i \in 1..Len(s) : s[i] \in Write /\ s[i].kind = "policy"
      BY <1>2, <1>5
  <2>2. \A i \in 1..Len(s) : /\ Proper(s[i]) /\ Grounded(s[i], Before(s, i), 0)'
                             /\ s[i].kind \notin { "close", "event", "alert" }
                              /\ ~IsMaint(s[i])
      BY <2>1 DEF Proper, Grounded, IsMaint, IsFile
  <2> QED BY <1>1, <1>7, <2>2 DEF JobSound, Jobs
<1>9. /\ "loop" \in Processes /\ job \in [Processes -> Jobs] /\ SnapTyped
      /\ now \in 0..MaxTime /\ jobs \in 0..MaxJobs
    BY DEF IInv, TypeOK, Jobs, SnapTyped, Processes
<1>10. job' = [job EXCEPT !["loop"] = k]
    BY <1>1 DEF Begins, k
<1>11. /\ job' \in [Processes -> Jobs]
       /\ \A q \in Processes : job'[q] = IF q = "loop" THEN k ELSE job[q]
    BY <1>7, <1>9, <1>10
<1>12. JobsSound'
  <2>1. UNCHANGED <<saved, incidents, asked>>
      BY <1>1 DEF written
  <2>2. ASSUME NEW q \in Processes
        PROVE  JobSound(q, job[q])'
      BY <1>8, <1>9, <1>11, <2>1, OthersStay
  <2> QED BY <2>2 DEF JobsSound
<1>13. RowsSound'
    BY <1>1 DEF IInv, RowsSound, written
<1>14. PoliciesSound'
  <2>1. ASSUME NEW q \in Policies
        PROVE  Covered(q)'
    <3>1. PICK i \in 1..Len(s) : s[i] = Policy(q)
        BY <1>4
    <3>2. IsPolicy(s[i]) /\ s[i].about = q
        BY <1>2, <3>1 DEF IsPolicy
    <3>3. job'["loop"].rest = s
        BY <1>7, <1>9, <1>11
    <3> QED BY <3>2, <3>3 DEF Covered
  <2> QED BY <1>1, <2>1 DEF PoliciesSound
<1>15. \A q \in Processes : job'[q] = job[q] \/ job'[q].rest[1].kind # "close"
  <2>1. s[1].kind # "close"
      BY <1>2, <1>3 DEF Policies
  <2> QED BY <1>7, <1>11, <2>1
<1>16. SnapTyped'
    BY <1>1, <1>9 DEF SnapTyped
<1> QED BY <1>1, <1>9, <1>11, <1>12, <1>13, <1>14, <1>15, <1>16, QuietStep

\* It has come to all of them, and serves.
LEMMA StartedKeeps ==
    ASSUME IInv, Started
    PROVE  IInv'
<1>1. /\ up = "starting" /\ up' = "up" /\ job["loop"] = NoJob
      /\ UNCHANGED <<written, job, snap, now, jobs>>
    BY DEF Started
<1>2. /\ "loop" \in Processes /\ job \in [Processes -> Jobs] /\ SnapTyped
      /\ now \in 0..MaxTime /\ jobs \in 0..MaxJobs
    BY DEF IInv, TypeOK, Jobs, SnapTyped, Processes
<1>3. JobsSound'
  <2>1. ASSUME NEW q \in Processes
        PROVE  JobSound(q, job[q])'
    <3>1. PICK old : old = job[q]
        OBVIOUS
    <3>2. JobSound(q, old)
        BY <3>1 DEF IInv, JobsSound
    <3>3. JobSound(q, old)'
      <4>1. CASE q = "loop"
        <5>1. old = NoJob
            BY <1>1, <3>1, <4>1
        <5> QED BY <5>1, NoJobSound
      <4>2. CASE q # "loop"
          BY <1>1, <3>2, <4>2, ChainStays DEF written
      <4> QED BY <4>1, <4>2
    <3>4. job'[q] = old
        BY <1>1, <3>1
    <3> QED BY <3>3, <3>4 DEF JobSound
  <2> QED BY <2>1 DEF JobsSound
<1>4. \A q \in Policies : Shown(q)
  <2>1. \A q \in Policies : ~Covered(q)
    <3>1. Len(job["loop"].rest) = 0
        BY <1>1 DEF NoJob
    <3> QED BY <3>1 DEF Covered
  <2> QED BY <1>1, <2>1 DEF IInv, PoliciesSound
<1>5. PoliciesSound'
    BY <1>1, <1>4 DEF PoliciesSound, Shown, written
<1>6. RowsSound'
    BY <1>1 DEF IInv, RowsSound, written
<1>7. SnapTyped'
    BY <1>1, <1>2 DEF SnapTyped
<1> QED BY <1>1, <1>2, <1>3, <1>5, <1>6, <1>7, QuietStep

\* The process dies; a setup command that runs does not.
LEMMA CrashKeeps ==
    ASSUME IInv, Crash
    PROVE  IInv'
<1>1. /\ up' = "down" /\ snap' = NoTick /\ UNCHANGED <<written, now, jobs>>
      /\ job' = [p \in Processes |-> IF p = "setup" THEN job[p] ELSE NoJob]
    BY DEF Crash
<1>2. /\ "setup" \in Processes /\ job \in [Processes -> Jobs]
      /\ now \in 0..MaxTime /\ jobs \in 0..MaxJobs
    BY DEF IInv, TypeOK, Jobs, Processes
<1>3. /\ job' \in [Processes -> Jobs]
      /\ \A q \in Processes : job'[q] = IF q = "setup" THEN job[q] ELSE NoJob
    BY <1>1, <1>2, NoJobSound
<1>4. JobsSound'
  <2>1. ASSUME NEW q \in Processes
        PROVE  JobSound(q, job[q])'
    <3>1. PICK old : old = job'[q]
        OBVIOUS
    <3>2. JobSound(q, old)'
      <4>1. CASE q = "setup"
        <5>1. JobSound(q, old)
            BY <1>3, <3>1, <4>1 DEF IInv, JobsSound
        <5> QED BY <1>1, <4>1, <5>1, ChainStays DEF written
      <4>2. CASE q # "setup"
          BY <1>3, <3>1, <4>2, NoJobSound
      <4> QED BY <4>1, <4>2
    <3> QED BY <3>1, <3>2 DEF JobSound
  <2> QED BY <2>1 DEF JobsSound
<1>5. PoliciesSound'
    BY <1>1 DEF PoliciesSound
<1>6. RowsSound'
    BY <1>1, NoTickSound DEF IInv, RowsSound, written
<1>7. SnapTyped'
    BY <1>1, NoTickSound DEF SnapTyped
<1>8. \A q \in Processes : job'[q] = job[q] \/ job'[q].rest = << >>
    BY <1>3, NoJobSound
<1> QED BY <1>1, <1>2, <1>3, <1>4, <1>5, <1>6, <1>7, <1>8, QuietStep

\* A job that the server begins while it serves
LEMMA WorkKeeps ==
    ASSUME IInv, NEW p \in Processes, NEW plan, Begins(p, jobs + 1, plan), up = "up",
           Plan(plan, FALSE) \/ (Plan(plan, TRUE) /\ p = "loop"), jobs < MaxJobs,
           jobs' = jobs + 1, SnapTyped', RowsSound', UNCHANGED <<written, up, now>>
    PROVE  IInv'
<1>1. jobs + 1 \in 0..MaxJobs /\ jobs + 1 # 0 /\ now \in 0..MaxTime
    BY DEF IInv, TypeOK
<1>2. UNCHANGED <<file, saved, incidents, asked>>
    BY DEF written
<1>3. /\ job' \in [Processes -> Jobs] /\ JobsSound'
      /\ \A q \in Processes : job'[q] = job[q] \/ job'[q].rest = << >>
                              \/ job'[q].rest[1].kind # "close"
    BY <1>1, <1>2, BeginKeeps
<1>4. PoliciesSound'
    BY <1>2, PoliciesStay
<1> QED BY <1>1, <1>3, <1>4, QuietStep

\* Only incidents are found.
LEMMA FoundNamed ==
    Found \subseteq SUBSET IncidentIds
BY DEF Found

\* An endpoint decides on a row that it has read, and plans.
LEMMA RequestPlans ==
    ASSUME IInv, NEW w \in Workers, Request(w)
    PROVE  w \in Processes /\ \E plan : Begins(w, jobs + 1, plan) /\ Plan(plan, FALSE)
<1>1. PICK n \in DOMAIN Listed :
          \E plan \in TransitionPlans(n, Listed[n])
                      \cup UNION { OtherPlans(n, Listed[n], found) : found \in Found } :
              Begins(w, jobs + 1, plan)
    BY DEF Request
<1>2. PICK plan \in TransitionPlans(n, Listed[n])
                    \cup UNION { OtherPlans(n, Listed[n], found) : found \in Found } :
          Begins(w, jobs + 1, plan)
    BY <1>1
<1>3. n \in Nodes /\ Sound(Listed[n]) /\ w \in Processes
    BY ListedSound DEF Processes
<1>4. Plan(plan, FALSE)
  <2>1. CASE plan \in TransitionPlans(n, Listed[n])
      BY <1>3, <2>1, TransitionPlanned
  <2>2. CASE \E found \in Found : plan \in OtherPlans(n, Listed[n], found)
    <3>1. PICK found \in SUBSET IncidentIds : plan \in OtherPlans(n, Listed[n], found)
        BY <2>2, FoundNamed
    <3> QED BY <1>3, <3>1, OtherPlanned
  <2> QED BY <2>1, <2>2
<1> QED BY <1>2, <1>3, <1>4

\* A request keeps the invariant.
LEMMA RequestKeeps ==
    ASSUME IInv, NEW w \in Workers, Request(w)
    PROVE  IInv'
<1>1. /\ up = "up" /\ jobs < MaxJobs /\ jobs' = jobs + 1
      /\ UNCHANGED <<written, snap, up, now>>
    BY DEF Request
<1>2. PICK plan : Begins(w, jobs + 1, plan) /\ Plan(plan, FALSE) /\ w \in Processes
    BY RequestPlans
<1>3. SnapTyped' /\ RowsSound'
  <2>1. UNCHANGED <<row, snap, up>>
      BY <1>1 DEF written
  <2> QED BY <2>1, RowsKept DEF IInv, TypeOK, SnapTyped
<1> QED BY <1>1, <1>2, <1>3, WorkKeeps

\* A tick lists the fleet, or is over.
LEMMA TickKeeps ==
    ASSUME IInv, UNCHANGED <<written, job, up, now, jobs>>, SnapTyped', RowsSound'
    PROVE  IInv'
<1>1. /\ job' \in [Processes -> Jobs] /\ up' \in { "down", "starting", "up" }
      /\ now' \in 0..MaxTime /\ jobs' \in 0..MaxJobs
    BY DEF IInv, TypeOK, Jobs
<1>2. UNCHANGED <<file, saved, incidents, asked>>
    BY DEF written
<1>3. JobsSound'
  <2>1. ASSUME NEW q \in Processes
        PROVE  JobSound(q, job[q])'
    <3>1. PICK old : old = job[q]
        OBVIOUS
    <3>2. JobSound(q, old)
        BY <3>1 DEF IInv, JobsSound
    <3>3. JobSound(q, old)'
        BY <1>2, <3>2, ChainStays
    <3>4. job'[q] = old
        BY <3>1
    <3> QED BY <3>3, <3>4 DEF JobSound
  <2> QED BY <2>1 DEF JobsSound
<1>4. PoliciesSound'
    BY <1>2, PoliciesStay
<1> QED BY <1>1, <1>3, <1>4, QuietStep

\* A tick reads the list of the nodes.
LEMMA BeginTickKeeps ==
    ASSUME IInv, NEW op \in { "reconciler", "maintenance", "testing" }, BeginTick(op)
    PROVE  IInv'
<1>1. /\ up = "up" /\ snap' = [op |-> op, rows |-> Listed]
      /\ UNCHANGED <<written, job, up, now, jobs>>
    BY DEF BeginTick
<1>2. snap'.op = op /\ snap'.rows = Listed /\ snap' = [op |-> snap'.op, rows |-> snap'.rows]
    BY <1>1
<1>3. SnapTyped'
    BY <1>2, ListedSound DEF SnapTyped
<1>4. RowsSound'
    BY <1>1, <1>2, ListedSound DEF IInv, RowsSound, written
<1> QED BY <1>1, <1>3, <1>4, TickKeeps

\* A tick comes to its end.
LEMMA EndTickKeeps ==
    ASSUME IInv, EndTick
    PROVE  IInv'
<1>1. snap' = NoTick /\ UNCHANGED <<written, job, up, now, jobs>>
    BY DEF EndTick
<1>2. SnapTyped'
    BY <1>1, NoTickSound DEF SnapTyped
<1>3. RowsSound'
    BY <1>1, NoTickSound DEF IInv, RowsSound, written
<1> QED BY <1>1, <1>2, <1>3, TickKeeps

\* The row that a plan saves, where it saves one
LEMMA RowInPlan ==
    ASSUME NEW plan, Plan(plan, TRUE), plan[1].kind = "row"
    PROVE  Sound(RowIn(plan))
<1>1. /\ plan \in Seq(Write) /\ Len(plan) \in Nat /\ Len(plan) # 0
      /\ DOMAIN plan = 1..Len(plan)
    BY DEF Plan
<1> DEFINE x == CHOOSE w \in Range(plan) : w.kind = "row"
<1>2. x \in Range(plan) /\ x.kind = "row"
  <2>1. plan[1] \in Range(plan)
      BY <1>1 DEF Range
  <2> QED BY <2>1
<1> HIDE DEF x
<1>3. PICK i \in 1..Len(plan) : x = plan[i]
    BY <1>1, <1>2 DEF Range
<1>4. Proper(x)
    BY <1>3 DEF Plan, Planned
<1> QED BY <1>2, <1>4 DEF Proper, RowIn, x

\* An operator that visits a node plans, and is done with the node or has its new row.
LEMMA VisitPlansIt ==
    ASSUME IInv, NEW n \in Nodes, Visit(n)
    PROVE  /\ SnapTyped /\ snap.op # "none" /\ up = "up"
           /\ \E kind, plan :
                 /\ Begins("loop", jobs + 1, plan)
                 /\ Plan(plan, TRUE)
                 /\ kind = "timeout" => plan[1].kind = "row"
                 /\ snap' = IF kind = "timeout"
                            THEN [snap EXCEPT !.rows[n] = RowIn(plan)]
                            ELSE [snap EXCEPT !.rows = Restrict(@, DOMAIN @ \ { n })]
<1>1. PICK kind \in Visits \cap VisitsOf(snap.op) :
          \E plan \in VisitPlans(kind, n, snap.rows[n]) :
              /\ Begins("loop", jobs + 1, plan)
              /\ snap' = IF kind = "timeout"
                         THEN [snap EXCEPT !.rows[n] = RowIn(plan)]
                         ELSE [snap EXCEPT !.rows = Restrict(@, DOMAIN @ \ { n })]
    BY DEF Visit
<1>2. PICK plan \in VisitPlans(kind, n, snap.rows[n]) :
              /\ Begins("loop", jobs + 1, plan)
              /\ snap' = IF kind = "timeout"
                         THEN [snap EXCEPT !.rows[n] = RowIn(plan)]
                         ELSE [snap EXCEPT !.rows = Restrict(@, DOMAIN @ \ { n })]
    BY <1>1
<1>3. /\ SnapTyped /\ Sound(snap.rows[n]) /\ snap.op # "none" /\ up = "up"
      /\ snap.op \in { "reconciler", "maintenance", "testing" }
    BY DEF Visit, IInv, TypeOK, RowsSound, SnapTyped
<1>4. Plan(plan, TRUE) /\ (kind = "timeout" => plan[1].kind = "row")
  <2>1. PICK r : r = snap.rows[n]
      OBVIOUS
  <2>2. PICK op : op = snap.op
      OBVIOUS
  <2>3. /\ Sound(r) /\ kind \in VisitsOf(op) /\ op \in { "reconciler", "maintenance", "testing" }
        /\ plan \in VisitPlans(kind, n, r)
      BY <1>1, <1>2, <1>3, <2>1, <2>2
  <2> QED BY ONLY n \in Nodes, <2>3, VisitPlanned
<1> QED BY <1>2, <1>3, <1>4

\* A visit keeps the invariant.
LEMMA VisitKeeps ==
    ASSUME IInv, NEW n \in Nodes, Visit(n)
    PROVE  IInv'
<1>1. /\ n \in DOMAIN snap.rows /\ jobs < MaxJobs /\ jobs' = jobs + 1
      /\ UNCHANGED <<written, up, now>>
    BY DEF Visit
<1>3. SnapTyped /\ snap.op # "none" /\ up = "up"
    BY VisitPlansIt
<1>plan. PICK kind, plan :
            /\ Begins("loop", jobs + 1, plan)
            /\ Plan(plan, TRUE)
            /\ kind = "timeout" => plan[1].kind = "row"
            /\ snap' = IF kind = "timeout"
                       THEN [snap EXCEPT !.rows[n] = RowIn(plan)]
                       ELSE [snap EXCEPT !.rows = Restrict(@, DOMAIN @ \ { n })]
    BY VisitPlansIt
<1>4. Plan(plan, TRUE) /\ (kind = "timeout" => plan[1].kind = "row")
    BY <1>plan
<1>5. PICK rows : /\ snap' = [op |-> snap.op, rows |-> rows] /\ rows \in [DOMAIN rows -> Row]
                  /\ DOMAIN rows \subseteq Nodes /\ \A m \in DOMAIN rows : Sound(rows[m])
  <2>1. CASE kind = "timeout"
    <3> DEFINE rows == [snap.rows EXCEPT ![n] = RowIn(plan)]
    <3>1. Sound(RowIn(plan)) /\ RowIn(plan) \in Row
      <4>1. Sound(RowIn(plan))
          BY <1>4, <2>1, RowInPlan
      <4> QED BY <4>1 DEF Sound
    <3>2. snap' = [op |-> snap.op, rows |-> rows]
        BY <1>plan, <1>3, <2>1 DEF SnapTyped
    <3>3. /\ DOMAIN rows = DOMAIN snap.rows /\ rows \in [DOMAIN rows -> Row]
          /\ \A m \in DOMAIN rows : rows[m] = IF m = n THEN RowIn(plan) ELSE snap.rows[m]
        BY <1>1, <1>3, <3>1 DEF SnapTyped
    <3> HIDE DEF rows
    <3>4. \A m \in DOMAIN rows : Sound(rows[m])
        BY <3>1, <3>3 DEF IInv, RowsSound
    <3> QED BY <1>3, <3>2, <3>3, <3>4 DEF SnapTyped
  <2>2. CASE kind # "timeout"
    <3> DEFINE rows == Restrict(snap.rows, DOMAIN snap.rows \ { n })
    <3>1. snap' = [op |-> snap.op, rows |-> rows]
        BY <1>plan, <1>3, <2>2 DEF SnapTyped
    <3>2. /\ DOMAIN rows = DOMAIN snap.rows \ { n } /\ rows \in [DOMAIN rows -> Row]
          /\ \A m \in DOMAIN rows : rows[m] = snap.rows[m]
        BY <1>3 DEF SnapTyped, Restrict
    <3> HIDE DEF rows
    <3>3. \A m \in DOMAIN rows : Sound(rows[m])
        BY <3>2 DEF IInv, RowsSound
    <3> QED BY <1>3, <3>1, <3>2, <3>3 DEF SnapTyped
  <2> QED BY <2>1, <2>2
<1>6. snap'.op = snap.op /\ snap'.rows = rows /\ snap' = [op |-> snap'.op, rows |-> snap'.rows]
    BY <1>5
<1>7. SnapTyped'
    BY <1>3, <1>5, <1>6 DEF SnapTyped
<1>8. RowsSound'
    BY <1>1, <1>3, <1>5, <1>6 DEF IInv, RowsSound, written
<1>9. "loop" \in Processes
    BY DEF Processes
<1> QED BY <1>plan, <1>1, <1>3, <1>4, <1>7, <1>8, <1>9, WorkKeeps

\* The reconciler is through with the nodes that it has listed.
LEMMA ListEmptied ==
    ASSUME IInv, snap' = [snap EXCEPT !.rows = [m \in {} |-> NoRow]],
           UNCHANGED <<written, up>>
    PROVE  SnapTyped' /\ RowsSound'
<1>1. SnapTyped
    BY DEF IInv, TypeOK, SnapTyped
<1>2. /\ snap' = [op |-> snap.op, rows |-> [m \in {} |-> NoRow]]
      /\ snap'.op = snap.op /\ DOMAIN snap'.rows = {}
      /\ snap'.rows = [m \in {} |-> NoRow] /\ snap'.rows \in [{} -> Row]
    BY <1>1 DEF SnapTyped
<1>3. SnapTyped'
    BY <1>1, <1>2 DEF SnapTyped
<1>4. RowsSound'
    BY <1>2 DEF IInv, RowsSound, written
<1> QED BY <1>3, <1>4

\* The reconciler correlates incidents at the end of its tick.
LEMMA CorrelateKeeps ==
    ASSUME IInv, Correlate
    PROVE  IInv'
<1>1. /\ snap.op = "reconciler" /\ jobs < MaxJobs /\ jobs' = jobs + 1
      /\ snap' = [snap EXCEPT !.rows = [m \in {} |-> NoRow]]
      /\ UNCHANGED <<written, up, now>>
    BY DEF Correlate
<1>2. PICK found \in Found \ { {} } : Begins("loop", jobs + 1, IncidentPlan(found))
    BY DEF Correlate
<1>3. Plan(IncidentPlan(found), FALSE)
    BY <1>2, FoundNamed, IncidentsPlanned
<1>4. up = "up" /\ "loop" \in Processes
    BY <1>1 DEF IInv, RowsSound, Processes
<1>5. SnapTyped' /\ RowsSound'
    BY <1>1, ListEmptied
<1> HIDE DEF IncidentPlan
<1> QED BY <1>1, <1>2, <1>3, <1>4, <1>5, WorkKeeps

\* The reconciler corrects a state: a row, no event and no file
LEMMA CorrectPlans ==
    ASSUME IInv, NEW n \in Nodes, Correct(n)
    PROVE  \E plan : Begins("loop", jobs + 1, plan) /\ Plan(plan, FALSE)
<1>1. PICK e \in Transitions :
          /\ Permitted(Listed[n], e)
          /\ Begins("loop", jobs + 1, << RowOf(n, After(Listed[n], e)) >>)
    BY DEF Correct
<1>2. Plan(<< RowOf(n, After(Listed[n], e)) >>, FALSE)
  <2>1. Sound(After(Listed[n], e))
      BY <1>1, ListedSound, AfterSound DEF Correct
  <2> QED BY <2>1, RowPlanned, PlanOfOne
<1> QED BY <1>1, <1>2

\* A correction keeps the invariant.
LEMMA CorrectKeeps ==
    ASSUME IInv, NEW n \in Nodes, Correct(n)
    PROVE  IInv'
<1>1. /\ snap.op = "reconciler" /\ jobs < MaxJobs /\ jobs' = jobs + 1
      /\ snap' = [snap EXCEPT !.rows = [m \in {} |-> NoRow]]
      /\ UNCHANGED <<written, up, now>>
    BY DEF Correct
<1>2. PICK plan : Begins("loop", jobs + 1, plan) /\ Plan(plan, FALSE)
    BY CorrectPlans
<1>3. up = "up" /\ "loop" \in Processes
    BY <1>1 DEF IInv, RowsSound, Processes
<1>4. SnapTyped' /\ RowsSound'
    BY <1>1, ListEmptied
<1> QED BY <1>1, <1>2, <1>3, <1>4, WorkKeeps

\* The clock
LEMMA TimePassesKeeps ==
    ASSUME IInv, TimePasses
    PROVE  IInv'
<1>1. /\ now' = now + 1 /\ now < MaxTime
      /\ UNCHANGED <<row, events, incidents, file, alerts, saved, asked, approved>>
      /\ UNCHANGED <<job, snap, up, jobs>>
    BY DEF TimePasses, written
<1>2. now' \in 0..MaxTime
    BY <1>1 DEF IInv, TypeOK
<1>3. TypeOK'
    BY <1>1, <1>2 DEF IInv, TypeOK
<1>4. JobsSound'
  <2>1. ASSUME NEW q \in Processes
        PROVE  JobSound(q, job[q])'
    <3>1. PICK old : old = job[q]
        OBVIOUS
    <3>2. JobSound(q, old)
        BY <3>1 DEF IInv, JobsSound
    <3>3. JobSound(q, old)'
        BY <1>1, <3>2, ChainStays
    <3>4. job'[q] = old
        BY <1>1, <3>1
    <3> QED BY <3>3, <3>4 DEF JobSound
  <2> QED BY <2>1 DEF JobsSound
<1>6. PendingSound' /\ RowsSound' /\ FilesSound' /\ AskedSound'
    BY <1>1, FilesKept, RowsKept DEF IInv, PendingSound, AskedSound
<1>5. ApprovedSound' /\ EventsSound' /\ PoliciesSound'
    BY <1>1 DEF IInv, ApprovedSound, EventsSound, PoliciesSound, Shown, Covered
<1> QED BY <1>3, <1>4, <1>5, <1>6 DEF IInv

\* People approve what awaits approval, which is none that is being written.
LEMMA ApproveKeeps ==
    ASSUME IInv, NEW path \in DOMAIN file, Approve(path)
    PROVE  IInv'
<1> DEFINE text == [about |-> path.name, says |-> "approved"]
           own == <<path.name, path.at>>
<1>1. /\ path.dir = "maintenance" /\ file[path].says = "awaiting"
      /\ file' = [file EXCEPT ![path] = [file[path] EXCEPT !.says = "approved"]]
      /\ approved' = approved \cup { own }
      /\ UNCHANGED <<row, events, incidents, alerts, job, snap, up, now, jobs, saved, asked>>
    BY DEF Approve
<1>2. /\ file \in [DOMAIN file -> Contents] /\ path \in Paths /\ DOMAIN file \subseteq Paths
    BY DEF IInv, TypeOK
<1>3. /\ file[path] # Empty /\ path.name \in Nodes /\ path.op = "" /\ path.at \in 0..MaxTime
      /\ file[path].about = path.name /\ path = Path("maintenance", path.name, "", path.at)
  <2>0. Empty.says = ""
      BY DEF Empty
  <2>1. file[path] # Empty
      BY <1>1, <2>0
  <2>2. path.name \in Named(path.dir) /\ path.op = "" /\ file[path].about = path.name
      BY <1>1, <2>1 DEF IInv, FilesSound
  <2>3. path = [dir |-> path.dir, name |-> path.name, op |-> path.op, at |-> path.at]
        /\ path.at \in 0..MaxTime
      BY <1>2 DEF Paths
  <2> QED BY <1>1, <2>1, <2>2, <2>3 DEF Named, Path
<1>4. file' = [file EXCEPT ![path] = text]
  <2>1. PICK c \in [about : Subjects, says : Words] : c = file[path]
    <3>1. file[path] \in Contents
        BY <1>2
    <3> QED BY <1>3, <3>1 DEF Contents
  <2>2. c = [about |-> path.name, says |-> c.says]
      BY <1>3, <2>1
  <2>3. [c EXCEPT !.says = "approved"] = text
      BY <2>2
  <2> QED BY <1>1, <2>1, <2>3
<1>5. /\ DOMAIN file' = DOMAIN file /\ file' \in [DOMAIN file' -> Contents]
      /\ \A q \in DOMAIN file : file'[q] = IF q = path THEN text ELSE file[q]
  <2>1. text \in Contents
      BY <1>3 DEF Contents, Subjects, Words
  <2> HIDE DEF text
  <2> QED BY <1>2, <1>4, <2>1
<1>6. TypeOK'
  <2>1. approved' \subseteq Nodes \X (0..MaxTime)
    <3>1. own \in Nodes \X (0..MaxTime)
        BY <1>3
    <3>2. approved \subseteq Nodes \X (0..MaxTime)
        BY DEF IInv, TypeOK
    <3> HIDE DEF own
    <3> QED BY <1>1, <3>1, <3>2
  <2>2. file' \in [DOMAIN file' -> Contents] /\ DOMAIN file' \subseteq Paths
      BY <1>2, <1>5
  <2>3. UNCHANGED <<row, events, incidents, alerts, job, snap, up, now, jobs, saved, asked>>
      BY <1>1
  <2> QED BY <2>1, <2>2, <2>3 DEF IInv, TypeOK
<1>7. JobsSound'
  <2>1. ASSUME NEW q \in Processes
        PROVE  JobSound(q, job[q])'
    <3>1. PICK old : old = job[q]
        OBVIOUS
    <3>2. JobSound(q, old)
        BY <3>1 DEF IInv, JobsSound
    <3>3. JobSound(q, old)'
        BY <1>1, <3>2, ChainStays
    <3>4. job'[q] = old
        BY <1>1, <3>1
    <3> QED BY <3>3, <3>4 DEF JobSound
  <2> QED BY <2>1 DEF JobsSound
<1>8. PendingSound'
  <2>1. SUFFICES ASSUME NEW q \in Processes, job'[q].rest # << >>,
                        job'[q].rest[1].kind = "close", job'[q].rest[1].dir = "maintenance"
                 PROVE  /\ job'[q].rest[1].path \in DOMAIN file'
                        /\ file'[job'[q].rest[1].path] = Empty
                        /\ <<job'[q].rest[1].about, job'[q].rest[1].at>> \notin approved'
      BY DEF PendingSound
  <2> DEFINE x == job[q].rest[1]
  <2>2. job'[q] = job[q]
      BY <1>1
  <2>3. Proper(x) /\ x.kind = "close" /\ x.dir = "maintenance"
      BY <2>1, <2>2, NextWrite
  <2>4. x.path \in DOMAIN file /\ file[x.path] = Empty /\ <<x.about, x.at>> \notin approved
      BY <2>1, <2>2 DEF IInv, PendingSound
  <2> HIDE DEF x
  <2>5. x.path = Path("maintenance", x.about, "", x.at)
      BY <2>3, CloseFacts DEF RequestPath
  <2>6. x.path # path
      BY <1>3, <2>4
  <2>7. <<x.about, x.at>> # own
      BY <1>3, <2>5, <2>6
  <2>8. x.path \in DOMAIN file' /\ file'[x.path] = Empty /\ <<x.about, x.at>> \notin approved'
      BY <1>1, <1>5, <2>4, <2>6, <2>7
  <2> QED BY <2>2, <2>8 DEF x
<1>9. FilesSound'
  <2>1. text.about = path.name
      OBVIOUS
  <2> HIDE DEF text
  <2> QED BY <1>1, <1>5, <2>1 DEF IInv, FilesSound, AskedToCordon
<1>10. ApprovedSound'
  <2>1. SUFFICES ASSUME NEW a \in approved'
                 PROVE  /\ Path("maintenance", a[1], "", a[2]) \in DOMAIN file'
                        /\ file'[Path("maintenance", a[1], "", a[2])]
                               = [about |-> a[1], says |-> "approved"]
      BY DEF ApprovedSound
  <2>2. CASE a = own
      BY <1>3, <1>5, <2>2
  <2>3. CASE a \in approved
    <3>1. /\ Path("maintenance", a[1], "", a[2]) \in DOMAIN file
          /\ file[Path("maintenance", a[1], "", a[2])] = [about |-> a[1], says |-> "approved"]
        BY <2>3 DEF IInv, ApprovedSound
    <3>2. [about |-> a[1], says |-> "approved"].says = "approved"
        OBVIOUS
    <3>3. Path("maintenance", a[1], "", a[2]) # path
        BY <1>1, <3>1, <3>2
    <3> QED BY <1>5, <3>1, <3>3
  <2> QED BY <1>1, <2>2, <2>3
<1>11. RowsSound' /\ AskedSound' /\ EventsSound'
    BY <1>1, <1>5, RowsKept DEF IInv, AskedSound, EventsSound
<1>12. PoliciesSound'
  <2>1. \A q : PolicyPath(q) # path
    <3>1. \A q : PolicyPath(q).dir = "policies"
        BY DEF PolicyPath, Path
    <3> QED BY <1>1, <3>1
  <2>2. \A q \in Policies : Shown(q) => Shown(q)'
      BY <1>5, <2>1 DEF Shown
  <2>3. \A q \in Policies : Covered(q) => Covered(q)'
      BY <1>1 DEF Covered
  <2> QED BY <1>1, <2>2, <2>3, PoliciesKept
<1> QED BY <1>6, <1>7, <1>8, <1>9, <1>10, <1>11, <1>12 DEF IInv

-----------------------------------------------------------------------------
(* The theorems *)

\* The invariant holds of a server that has yet to be set up,
LEMMA InvInit == Init => IInv
<1> SUFFICES ASSUME Init
             PROVE  IInv
    OBVIOUS
<1>1. /\ \A p \in Processes : job[p] = NoJob
      /\ job = [p \in Processes |-> NoJob] /\ events = {} /\ incidents = {} /\ saved = {}
      /\ asked = {} /\ approved = {} /\ alerts = << >> /\ up = "down" /\ now = 0 /\ jobs = 0
      /\ snap = NoTick /\ file = [p \in {} |-> Empty] /\ row = [n \in Nodes |-> NoRow]
    BY DEF Init
<1>2. DOMAIN file = {} /\ file \in [{} -> Contents]
    BY <1>1
<1>3. job \in [Processes -> [no : 0..MaxJobs, rest : Seq(Write)]]
    BY <1>1, NoJobSound DEF Jobs
<1>4. TypeOK
  <2>1. alerts \in Seq([about : Nodes, no : 1..MaxJobs])
      BY <1>1
  <2>2. 0 \in 0..MaxTime /\ 0 \in 0..MaxJobs
      OBVIOUS
  <2>3. SnapTyped
      BY <1>1, NoTickSound DEF SnapTyped
  <2> QED BY <1>1, <1>2, <1>3, <2>1, <2>2, <2>3 DEF TypeOK, SnapTyped
<1>5. JobsSound /\ PendingSound
    BY <1>1, NoJobSound DEF JobsSound, PendingSound
<1>6. RowsSound
    BY <1>1, NoTickSound DEF RowsSound
<1>7. FilesSound
    BY <1>2, FS_EmptySet DEF FilesSound
<1>8. AskedSound /\ ApprovedSound /\ EventsSound /\ PoliciesSound
    BY <1>1 DEF AskedSound, ApprovedSound, EventsSound, PoliciesSound
<1> QED BY <1>4, <1>5, <1>6, <1>7, <1>8 DEF IInv

\* A step that changes nothing
LEMMA StutterKeeps ==
    ASSUME IInv, UNCHANGED vars
    PROVE  IInv'
<1>1. UNCHANGED <<written, job, up, now, jobs>> /\ snap' = snap /\ row' = row
    BY DEF vars, written
<1>2. SnapTyped' /\ RowsSound'
    BY <1>1, RowsKept DEF IInv, TypeOK, SnapTyped
<1> QED BY <1>1, <1>2, TickKeeps

\* each step of the server, of a person, of the clock or of a crash keeps it,
LEMMA InvNext == IInv /\ [Next]_vars => IInv'
<1> SUFFICES ASSUME IInv, [Next]_vars
             PROVE  IInv'
    OBVIOUS
<1>1. ASSUME NEW p \in Processes,
             \/ SaveNode(p) \/ SaveEvent(p) \/ SaveIncident(p) \/ WriteAlert(p)
             \/ OpenFile(p) \/ CloseFile(p) \/ SeedPolicy(p) \/ Raise(p)
      PROVE  IInv'
    BY <1>1, SaveNodeKeeps, SaveEventKeeps, SaveIncidentKeeps, WriteAlertKeeps, OpenFileKeeps,
       CloseFileKeeps, SeedPolicyKeeps, RaiseKeeps
<1>2. ASSUME NEW w \in Workers, Request(w)
      PROVE  IInv'
    BY <1>2, RequestKeeps
<1>3. ASSUME NEW op \in { "reconciler", "maintenance", "testing" }, BeginTick(op)
      PROVE  IInv'
    BY <1>3, BeginTickKeeps
<1>4. ASSUME NEW n \in Nodes, Visit(n) \/ Correct(n)
      PROVE  IInv'
    BY <1>4, VisitKeeps, CorrectKeeps
<1>5. ASSUME NEW path \in DOMAIN file, Approve(path)
      PROVE  IInv'
    BY <1>5, ApproveKeeps
<1>6. CASE Correlate \/ Setup \/ Startup \/ Started \/ EndTick \/ Crash \/ TimePasses
    BY <1>6, CorrelateKeeps, SetupKeeps, StartupKeeps, StartedKeeps, EndTickKeeps, CrashKeeps,
       TimePassesKeeps
<1>7. CASE UNCHANGED vars
    BY <1>7, StutterKeeps
<1> QED BY <1>1, <1>2, <1>3, <1>4, <1>5, <1>6, <1>7 DEF Next

\* and so it always holds.
LEMMA Inductive == Spec => []IInv
BY InvInit, InvNext, PTL DEF Spec

\* Every variable keeps to its type: no chain of writes holds anything but writes,
\* and no file is named by, or tells of, anything else.
THEOREM TypeCorrect == Spec => []TypeOK
<1>1. IInv => TypeOK
    BY DEF IInv
<1> QED BY <1>1, Inductive, PTL

\* The trail tells no lies, wherever a chain of writes breaks off.
THEOREM TrailNeverLies == Spec => []TrailIsTrue
<1>1. IInv => TrailIsTrue
  <2> SUFFICES ASSUME IInv
               PROVE  TrailIsTrue
      OBVIOUS
  <2>1. \A e \in events : [about |-> e.about, to |-> e.to, no |-> e.no] \in saved
      BY DEF IInv, EventsSound
  <2>2. ASSUME NEW i \in ListYaml("incidents")
        PROVE  i.about \in incidents
    <3>1. PICK q \in DOMAIN file : q.dir = "incidents" /\ file[q] # Empty /\ i = file[q]
        BY DEF ListYaml
    <3> QED BY <3>1 DEF IInv, FilesSound
  <2>3. ASSUME NEW c \in ListYaml("cordons")
        PROVE  \E a \in asked : a.about = c.about /\ a.says = "day2_cordon"
    <3>1. PICK q \in DOMAIN file : q.dir = "cordons" /\ file[q] # Empty /\ c = file[q]
        BY DEF ListYaml
    <3> QED BY <3>1 DEF IInv, FilesSound, AskedToCordon
  <2> QED BY <2>1, <2>2, <2>3 DEF TrailIsTrue
<1> QED BY <1>1, Inductive, PTL

\* An operation or maintenance request is displaced by nothing but its own repetition.
THEOREM RequestsStay == Spec => []RequestsAreKept
<1>1. IInv => RequestsAreKept
  <2> SUFFICES ASSUME IInv, NEW a \in asked
               PROVE  \E p \in DOMAIN file :
                          /\ p.dir = a.dir /\ p.at = a.at
                          /\ \/ file[p] = Empty
                             \/ /\ file[p].about = a.about
                                /\ a.dir = "operation-requests" => file[p].says = a.says
      BY DEF RequestsAreKept
  <2> DEFINE p == RequestPath(a.dir, a.about, a.says, a.at)
  <2>1. p \in DOMAIN file /\ a.dir \in { "operation-requests", "maintenance" }
      BY DEF IInv, AskedSound
  <2>2. /\ p.dir = a.dir /\ p.at = a.at /\ p.name = a.about
        /\ a.dir = "operation-requests" => p.op = a.says
      BY <2>1 DEF RequestPath, Path
  <2> HIDE DEF p
  <2>3. file[p] # Empty => /\ file[p].about = p.name
                           /\ p.dir = "operation-requests" => file[p].says = p.op
      BY <2>1 DEF IInv, FilesSound
  <2> QED BY <2>1, <2>2, <2>3
<1> QED BY <1>1, Inductive, PTL

\* Where an approval is
LEMMA ApprovalPaths ==
    ASSUME IInv, NEW n \in Nodes
    PROVE  LET A == { a \in approved : a[1] = n }
               P == { p \in DOMAIN file : p.dir = "maintenance"
                                          /\ file[p] = [about |-> n, says |-> "approved"] }
           IN  IsFiniteSet(P) /\ ExistsInjection(A, P)
<1> DEFINE A == { a \in approved : a[1] = n }
           P == { p \in DOMAIN file : p.dir = "maintenance"
                                      /\ file[p] = [about |-> n, says |-> "approved"] }
           f == [a \in A |-> Path("maintenance", a[1], "", a[2])]
<1>1. IsFiniteSet(P)
    BY FS_Subset DEF IInv, FilesSound
<1>2. ASSUME NEW a \in A
      PROVE  f[a] \in P /\ f[a].name = a[1] /\ f[a].at = a[2] /\ a = <<a[1], a[2]>>
  <2>1. /\ Path("maintenance", a[1], "", a[2]) \in DOMAIN file
        /\ file[Path("maintenance", a[1], "", a[2])] = [about |-> n, says |-> "approved"]
      BY DEF IInv, ApprovedSound
  <2>2. /\ Path("maintenance", a[1], "", a[2]).dir = "maintenance"
        /\ Path("maintenance", a[1], "", a[2]).name = a[1]
        /\ Path("maintenance", a[1], "", a[2]).at = a[2]
      BY DEF Path
  <2>3. a = <<a[1], a[2]>>
    <3>1. a \in Nodes \X (0..MaxTime)
        BY DEF IInv, TypeOK
    <3> QED BY <3>1
  <2> QED BY <2>1, <2>2, <2>3
<1>3. f \in [A -> P]
    BY <1>2
<1>4. \A a, b \in A : f[a] = f[b] => a = b
  <2> HIDE DEF A, P, f
  <2> QED BY <1>2
<1>5. f \in Injection(A, P)
  <2> HIDE DEF A, P, f
  <2> QED BY <1>3, <1>4 DEF Injection, IsInjective
<1> QED BY <1>1, <1>5 DEF ExistsInjection

\* An approval is not lost to a request of another day.
THEOREM ApprovalsStay == Spec => []ApprovalsOutliveTheDay
<1>1. IInv => ApprovalsOutliveTheDay
  <2> SUFFICES ASSUME IInv, NEW n \in Nodes
               PROVE  Cardinality({ p \in DOMAIN file :
                             p.dir = "maintenance"
                             /\ file[p] = [about |-> n, says |-> "approved"] })
                      >= Cardinality({ a \in approved : a[1] = n })
      BY DEF ApprovalsOutliveTheDay
  <2> DEFINE A == { a \in approved : a[1] = n }
             P == { p \in DOMAIN file : p.dir = "maintenance"
                                        /\ file[p] = [about |-> n, says |-> "approved"] }
  <2>1. IsFiniteSet(P) /\ ExistsInjection(A, P)
      BY ApprovalPaths
  <2> HIDE DEF A, P
  <2>2. IsFiniteSet(A) /\ Cardinality(A) <= Cardinality(P)
    <3>1. PICK f : f \in Injection(A, P)
        BY <2>1 DEF ExistsInjection
    <3> QED BY <2>1, <3>1, FS_Injection
  <2>3. Cardinality(A) \in Nat /\ Cardinality(P) \in Nat
      BY <2>1, <2>2, FS_CardinalityType
  <2>4. Cardinality(P) >= Cardinality(A)
      BY <2>2, <2>3
  <2> QED BY <2>4 DEF A, P
<1> QED BY <1>1, Inductive, PTL

\* A server that serves shows all its default policies.
THEOREM PoliciesStand == Spec => []PoliciesArePresent
<1>1. IInv => PoliciesArePresent
    BY DEF IInv, PoliciesSound, PoliciesArePresent, ShownPolicies, Shown, ReadYaml
<1> QED BY <1>1, Inductive, PTL

-----------------------------------------------------------------------------
(* What the pages rely on besides: events that can be told apart, and the file *)
(* of a desired state in its place                                             *)

\* A chain has at most one event still to write, and its number is no event's yet.
Counted(k) ==
    /\ k.no <= jobs
    /\ \A i \in 1..Len(k.rest) : k.rest[i].kind = "event" =>
          /\ \A j \in 1..Len(k.rest) : k.rest[j].kind = "event" => j = i
          /\ \A e \in events : e.no # k.no

\* No two events have a number in common, and no two requests or visits under way.
NumbersSound ==
    /\ \A e \in events : e.no <= jobs /\ \A d \in events : e.no = d.no => e = d
    /\ \A p \in Processes : Counted(job[p])
    /\ \A p \in Processes, q \in Processes : job[p].no = job[q].no => job[p].no = 0 \/ p = q

\* A node has one file of its desired state, whenever it is written.
DesiredSound == \A q \in DOMAIN file : q.dir = "desired-state" => q.at = 0

\* k is what is left of a chain: all of it or all but its first write, where a write
\* may have become another that is no event, or nothing.
LeftOf(k, old) ==
    \/ Len(k.rest) = 0 /\ k.no = 0
    \/ /\ k.no = old.no
       /\ \E d \in { 0, 1 } : \A i \in 1..Len(k.rest) : k.rest[i].kind = "event" =>
             i + d \in 1..Len(old.rest) /\ old.rest[i + d].kind = "event"

\* What is left of a chain has no more events to write than it had.
LEMMA LeftCounted ==
    ASSUME NEW k \in Jobs, NEW old \in Jobs, Counted(old), LeftOf(k, old), jobs \in Nat
    PROVE  Counted(k)
<1>1. CASE Len(k.rest) = 0 /\ k.no = 0
    BY <1>1 DEF Counted
<1>2. CASE ~(Len(k.rest) = 0 /\ k.no = 0)
  <2>1. PICK d \in { 0, 1 } : \A i \in 1..Len(k.rest) : k.rest[i].kind = "event" =>
            i + d \in 1..Len(old.rest) /\ old.rest[i + d].kind = "event"
      BY <1>2 DEF LeftOf
  <2>2. k.no = old.no /\ k.no <= jobs
      BY <1>2 DEF LeftOf, Counted
  <2>3. SUFFICES ASSUME NEW i \in 1..Len(k.rest), k.rest[i].kind = "event"
                 PROVE  /\ \A j \in 1..Len(k.rest) : k.rest[j].kind = "event" => j = i
                        /\ \A e \in events : e.no # k.no
      BY <2>2 DEF Counted
  <2>4. i + d \in 1..Len(old.rest) /\ old.rest[i + d].kind = "event"
      BY <2>1, <2>3
  <2>5. \A e \in events : e.no # old.no
      BY <2>4 DEF Counted
  <2>6. ASSUME NEW j \in 1..Len(k.rest), k.rest[j].kind = "event"
        PROVE  j = i
    <3>1. j + d \in 1..Len(old.rest) /\ old.rest[j + d].kind = "event"
        BY <2>1, <2>6
    <3>2. j + d = i + d
        BY <2>4, <3>1 DEF Counted
    <3>3. i \in Int /\ j \in Int /\ d \in Int
        OBVIOUS
    <3> QED BY <3>2, <3>3
  <2> QED BY <2>2, <2>5, <2>6
<1> QED BY <1>1, <1>2

\* The chains of the other processes are left, whole.
LEMMA AllIsLeft ==
    ASSUME NEW k
    PROVE  LeftOf(k, k)
<1>1. \A i \in 1..Len(k.rest) : k.rest[i].kind = "event" =>
          i + 0 \in 1..Len(k.rest) /\ k.rest[i + 0].kind = "event"
    OBVIOUS
<1> QED BY <1>1 DEF LeftOf

\* Nothing is left of a chain that is given up.
LEMMA NoneIsLeft ==
    ASSUME NEW old
    PROVE  LeftOf(NoJob, old)
BY DEF LeftOf, NoJob

\* One write is over: the rest is left.
LEMMA FinishLeaves ==
    ASSUME IInv, NEW p \in Processes, job[p].rest # << >>, Finishes(p)
    PROVE  /\ \A q \in Processes : q # p => job'[q] = job[q]
           /\ LeftOf(job'[p], job[p]) /\ job'[p] \in Jobs
           /\ Next1(p).kind = "event" /\ Counted(job[p]) =>
                 \A i \in 1..Len(job'[p].rest) : job'[p].rest[i].kind # "event"
<1>1. job \in [Processes -> Jobs]
    BY DEF IInv, TypeOK, Jobs
<1>2. PICK old \in Jobs : old = job[p]
    BY <1>1
<1> DEFINE s == old.rest
           j == [no |-> old.no, rest |-> Tail(s)]
<1>3. s \in Seq(Write) /\ Next1(p) = s[1] /\ s # << >>
  <2>1. Next1(p) = job[p].rest[1]
      BY NextWrite
  <2> QED BY <1>2, <2>1 DEF Jobs
<1>4. /\ Tail(s) \in Seq(Write) /\ Len(Tail(s)) = Len(s) - 1
      /\ Len(s) \in Nat /\ Len(s) # 0
      /\ \A i \in 1..Len(Tail(s)) : Tail(s)[i] = s[i + 1]
    BY <1>3, Parts
<1>5. CASE Len(s) = 1
  <2>1. job' = [job EXCEPT ![p] = NoJob]
      BY <1>2, <1>5 DEF Finishes
  <2>2. job'[p] = NoJob /\ \A q \in Processes : q # p => job'[q] = job[q]
      BY <1>1, <2>1
  <2>3. Len(NoJob.rest) = 0 /\ NoJob \in Jobs
      BY NoJobSound
  <2> QED BY <2>2, <2>3, NoneIsLeft
<1>6. CASE Len(s) # 1
  <2>1. job' = [job EXCEPT ![p] = j]
      BY <1>2, <1>6 DEF Finishes
  <2>2. job'[p] = j /\ \A q \in Processes : q # p => job'[q] = job[q]
      BY <1>1, <2>1
  <2>3. j \in Jobs /\ j.rest = Tail(s) /\ j.no = old.no
      BY <1>4 DEF Jobs
  <2>4. \A i \in 1..Len(Tail(s)) : i + 1 \in 1..Len(s) /\ Tail(s)[i] = s[i + 1]
      BY <1>4
  <2> HIDE DEF j
  <2>5. LeftOf(j, old)
      BY <2>3, <2>4 DEF LeftOf
  <2>6. ASSUME s[1].kind = "event", Counted(old), NEW i \in 1..Len(Tail(s))
        PROVE  Tail(s)[i].kind # "event"
    <3>1. 1 \in 1..Len(s) /\ i + 1 \in 1..Len(s) /\ i + 1 # 1
        BY <1>4, <2>4
    <3> QED BY <2>4, <2>6, <3>1 DEF Counted
  <2>7. Next1(p).kind = "event" /\ Counted(job[p]) =>
            \A i \in 1..Len(j.rest) : j.rest[i].kind # "event"
      BY <1>2, <1>3, <2>3, <2>6
  <2> QED BY <1>2, <2>2, <2>3, <2>5, <2>7
<1> QED BY <1>5, <1>6

\* A write has become another that is no event.
LEMMA GoesOnLeaves ==
    ASSUME IInv, NEW p \in Processes, job[p].rest # << >>, NEW w, GoesOnWith(p, w), w.kind # "event"
    PROVE  \A q \in Processes : LeftOf(job'[q], job[q])
<1>1. job \in [Processes -> Jobs]
    BY DEF IInv, TypeOK, Jobs
<1>2. PICK old \in Jobs : old = job[p]
    BY <1>1
<1> DEFINE s == old.rest
           t == [s EXCEPT ![1] = w]
           k == [no |-> old.no, rest |-> t]
<1>3. s \in Seq(Write) /\ s # << >>
    BY <1>2 DEF Jobs
<1>4. Len(s) \in Nat /\ Len(s) # 0 /\ 1 \in 1..Len(s)
    BY <1>3, Parts
<1>5. /\ Len(t) = Len(s) /\ t[1] = w
      /\ \A i \in 1..Len(s) : i # 1 => t[i] = s[i]
  <2>1. s \in Seq(Write \cup { w })
      BY <1>3
  <2> QED BY <1>4, <2>1, ExceptSeq
<1>6. job' = [job EXCEPT ![p] = k]
  <2>1. job' = [job EXCEPT ![p] = [job[p] EXCEPT !.rest = [job[p].rest EXCEPT ![1] = w]]]
      BY DEF GoesOnWith
  <2>2. [old EXCEPT !.rest = t] = k
      BY DEF Jobs
  <2> QED BY <1>2, <2>1, <2>2
<1> HIDE DEF t
<1>7. k.rest = t /\ k.no = old.no
    OBVIOUS
<1> HIDE DEF k
<1>8. LeftOf(k, old)
  <2>1. ASSUME NEW i \in 1..Len(k.rest), k.rest[i].kind = "event"
        PROVE  i + 0 \in 1..Len(old.rest) /\ old.rest[i + 0].kind = "event"
    <3>1. i \in 1..Len(s) /\ i # 1 /\ t[i] = s[i] /\ i + 0 = i
        BY <1>5, <1>7, <2>1
    <3> QED BY <1>7, <2>1, <3>1
  <2> QED BY <1>7, <2>1 DEF LeftOf
<1>9. \A q \in Processes : job'[q] = IF q = p THEN k ELSE job[q]
    BY <1>1, <1>6
<1> QED BY <1>1, <1>2, <1>7, <1>8, <1>9, AllIsLeft

\* Where chains only get shorter, numbers stay as they are.
LEMMA NumbersKept ==
    ASSUME IInv, IInv', NumbersSound, UNCHANGED <<events, jobs>>,
           \A q \in Processes : LeftOf(job'[q], job[q])
    PROVE  NumbersSound'
<1>1. job \in [Processes -> Jobs] /\ jobs \in Nat /\ job' \in [Processes -> Jobs]
    BY DEF IInv, TypeOK, Jobs
<1>2. ASSUME NEW q \in Processes
      PROVE  Counted(job[q])'
  <2>1. PICK k \in Jobs : k = job'[q]
      BY <1>1
  <2>2. PICK old \in Jobs : old = job[q]
      BY <1>1
  <2>3. Counted(old) /\ LeftOf(k, old)
      BY <2>1, <2>2 DEF NumbersSound
  <2>4. Counted(k)
      BY <1>1, <2>3, LeftCounted
  <2>5. Counted(k)'
      BY <2>4 DEF Counted
  <2> QED BY <2>1, <2>5 DEF Counted
<1>3. \A q \in Processes : job'[q].no = 0 \/ job'[q].no = job[q].no
    BY DEF LeftOf
<1>4. ASSUME NEW q \in Processes, NEW r \in Processes, job'[q].no = job'[r].no, job'[q].no # 0
      PROVE  q = r
  <2>1. job[q].no = job[r].no /\ job[q].no # 0
      BY <1>3, <1>4
  <2> QED BY <2>1 DEF NumbersSound
<1>5. \A e \in events' : e.no <= jobs' /\ \A d \in events' : e.no = d.no => e = d
    BY DEF NumbersSound
<1> QED BY <1>2, <1>4, <1>5 DEF NumbersSound

\* db.save_event: the number of the chain is the event's now, and no other is to come.
LEMMA SaveEventNumbers ==
    ASSUME IInv, NumbersSound, NEW p \in Processes, SaveEvent(p)
    PROVE  NumbersSound'
<1> DEFINE new == [about |-> Next1(p).about, from |-> Next1(p).from,
                   to |-> Next1(p).to, no |-> job[p].no]
<1>1. /\ job[p].rest # << >> /\ Next1(p).kind = "event" /\ Finishes(p) /\ jobs' = jobs
      /\ events' = events \cup { new }
    BY DEF SaveEvent, Doing
<1>2. /\ job[p].no # 0 /\ Next1(p) = job[p].rest[1] /\ job[p].no \in Nat /\ jobs \in Nat
      /\ job \in [Processes -> Jobs] /\ new.no = job[p].no
  <2>1. jobs \in Nat /\ job \in [Processes -> Jobs]
      BY DEF IInv, TypeOK, Jobs
  <2>2. job[p].no \in Nat
      BY <2>1 DEF Jobs
  <2>3. job[p].rest # << >> /\ Next1(p).kind \in { "event", "alert" }
      BY <1>1
  <2>4. Next1(p) = job[p].rest[1] /\ job[p].no \in 1..MaxJobs
      BY ONLY IInv, p \in Processes, <2>3, NextWrite, Zenon
  <2>5. job[p].no # 0
      BY <2>4
  <2> QED BY <2>1, <2>2, <2>4, <2>5
<1> HIDE DEF new
<1>3. 1 \in 1..Len(job[p].rest)
  <2>1. job[p].rest \in Seq(Write)
      BY <1>2 DEF Jobs
  <2> QED BY <1>1, <2>1, Parts
<1>4. /\ \A q \in Processes : q # p => job'[q] = job[q]
      /\ LeftOf(job'[p], job[p]) /\ job'[p] \in Jobs
      /\ \A i \in 1..Len(job'[p].rest) : job'[p].rest[i].kind # "event"
    BY <1>1, FinishLeaves DEF NumbersSound
<1>5. /\ \A q \in Processes : Counted(job[q])
      /\ \A q \in Processes : q # p => job[q].no # job[p].no
    BY <1>2 DEF NumbersSound
<1>6. /\ \A e \in events : e.no # new.no
      /\ new.no <= jobs
    BY <1>1, <1>2, <1>3, <1>5 DEF Counted
<1>7. ASSUME NEW q \in Processes
      PROVE  Counted(job[q])'
  <2>1. PICK k : k = job'[q]
      OBVIOUS
  <2>2. CASE q = p
    <3>1. k.no <= jobs
        BY <1>2, <1>4, <1>5, <2>1, <2>2 DEF LeftOf, Counted
    <3>2. \A i \in 1..Len(k.rest) : k.rest[i].kind # "event"
        BY <1>4, <2>1, <2>2
    <3>3. Counted(k)'
        BY <1>1, <3>1, <3>2 DEF Counted
    <3> QED BY <2>1, <3>3 DEF Counted
  <2>3. CASE q # p
    <3>1. k = job[q] /\ Counted(k) /\ k.no # new.no
        BY <1>2, <1>4, <1>5, <2>1, <2>3
    <3>2. Counted(k)'
        BY <1>1, <3>1 DEF Counted
    <3> QED BY <2>1, <3>2 DEF Counted
  <2> QED BY <2>2, <2>3
<1>8. \A q \in Processes : job'[q].no = 0 \/ job'[q].no = job[q].no
    BY <1>4 DEF LeftOf
<1>9. ASSUME NEW q \in Processes, NEW r \in Processes, job'[q].no = job'[r].no, job'[q].no # 0
      PROVE  q = r
  <2>1. job[q].no = job[r].no /\ job[q].no # 0
      BY <1>8, <1>9
  <2> QED BY <2>1 DEF NumbersSound
<1>10. ASSUME NEW e \in events'
       PROVE  e.no <= jobs' /\ \A d \in events' : e.no = d.no => e = d
  <2>1. \A d \in events : d.no <= jobs /\ \A c \in events : d.no = c.no => d = c
      BY DEF NumbersSound
  <2> QED BY <1>1, <1>6, <2>1
<1> QED BY <1>7, <1>9, <1>10 DEF NumbersSound

\* A new chain has a number of its own, or none and no event.
LEMMA BeginNumbers ==
    ASSUME IInv, NumbersSound, NEW p \in Processes, NEW no, NEW s \in Seq(Write),
           Begins(p, no, s), events' = events,
           \A i \in 1..Len(s) : s[i].kind = "event" => i = 2,
           \/ no = 0 /\ jobs' = jobs /\ \A i \in 1..Len(s) : s[i].kind # "event"
           \/ no = jobs + 1 /\ jobs' = jobs + 1
    PROVE  NumbersSound'
<1> DEFINE k == [no |-> no, rest |-> s]
<1>1. /\ job \in [Processes -> Jobs] /\ jobs \in Nat /\ jobs' \in Nat /\ jobs <= jobs'
      /\ no <= jobs' /\ \A q \in Processes : job[q].no \in Nat
    BY DEF IInv, TypeOK, Jobs
<1>2. job' = [job EXCEPT ![p] = k] /\ k.no = no /\ k.rest = s
    BY DEF Begins
<1> HIDE DEF k
<1>3. \A q \in Processes : job'[q] = IF q = p THEN k ELSE job[q]
    BY <1>1, <1>2
<1>4. /\ \A e \in events : e.no <= jobs /\ e.no \in Nat
      /\ \A e \in events, d \in events : e.no = d.no => e = d
      /\ \A q \in Processes : Counted(job[q]) /\ job[q].no <= jobs
    BY DEF NumbersSound, IInv, TypeOK, EventRecord, Counted
<1>5. Counted(k)'
  <2>1. no = jobs + 1 => \A e \in events : e.no # no
      BY <1>1, <1>4
  <2> QED BY <1>1, <1>2, <2>1 DEF Counted
<1>6. ASSUME NEW q \in Processes
      PROVE  Counted(job[q])'
  <2>1. PICK j : j = job'[q]
      OBVIOUS
  <2>2. Counted(j)'
    <3>1. CASE q = p
        BY <1>3, <1>5, <2>1, <3>1
    <3>2. CASE q # p
      <4>1. Counted(j) /\ j.no \in Nat
          BY <1>1, <1>3, <1>4, <2>1, <3>2
      <4> QED BY <1>1, <4>1 DEF Counted
    <3> QED BY <3>1, <3>2
  <2> QED BY <2>1, <2>2 DEF Counted
<1>7. ASSUME NEW q \in Processes, NEW r \in Processes, job'[q].no = job'[r].no, job'[q].no # 0
      PROVE  q = r
  <2>1. CASE q # p /\ r # p
      BY <1>3, <1>7, <2>1 DEF NumbersSound
  <2>2. no = jobs + 1 => \A o \in Processes : job[o].no # no
      BY <1>1, <1>4
  <2>3. CASE q = p /\ r # p
      BY <1>2, <1>3, <1>7, <2>2, <2>3
  <2>4. CASE q # p /\ r = p
      BY <1>2, <1>3, <1>7, <2>2, <2>4
  <2> QED BY <2>1, <2>3, <2>4
<1>8. \A e \in events' : e.no <= jobs' /\ \A d \in events' : e.no = d.no => e = d
    BY <1>1, <1>4
<1> QED BY <1>6, <1>7, <1>8 DEF NumbersSound

\* Requests and visits have numbers of their own, whatever happens.
LEMMA NumbersNext ==
    ASSUME IInv, IInv', NumbersSound, [Next]_vars
    PROVE  NumbersSound'
<1>1. job \in [Processes -> Jobs]
    BY DEF IInv, TypeOK, Jobs
<1>2. ASSUME NEW p \in Processes, SaveNode(p) \/ SaveIncident(p) \/ WriteAlert(p) \/ CloseFile(p)
      PROVE  NumbersSound'
  <2>1. Finishes(p) /\ job[p].rest # << >> /\ UNCHANGED <<events, jobs>>
      BY <1>2 DEF SaveNode, SaveIncident, WriteAlert, CloseFile, Doing
  <2>2. \A q \in Processes : LeftOf(job'[q], job[q])
      BY <1>1, <2>1, FinishLeaves, AllIsLeft
  <2> QED BY <2>1, <2>2, NumbersKept
<1>3. ASSUME NEW p \in Processes, OpenFile(p)
      PROVE  NumbersSound'
  <2>1. UNCHANGED <<events, jobs>> /\ job[p].rest # << >> /\ Next1(p).kind = "open"
      BY <1>3 DEF OpenFile, Doing
  <2> DEFINE c == [kind |-> "close", dir |-> Next1(p).dir, about |-> Next1(p).about,
                   says |-> Next1(p).says, path |-> PathOf(Next1(p), now),
                   at |-> IF Next1(p).dir = "maintenance" THEN Day(now) ELSE now]
  <2>2. GoesOnWith(p, c)
      BY <1>3 DEF OpenFile
  <2>3. c.kind # "event"
      OBVIOUS
  <2> HIDE DEF c
  <2>4. \A q \in Processes : LeftOf(job'[q], job[q])
      BY <2>1, <2>2, <2>3, GoesOnLeaves
  <2> QED BY <2>1, <2>4, NumbersKept
<1>4. ASSUME NEW p \in Processes, SeedPolicy(p)
      PROVE  NumbersSound'
  <2>1. UNCHANGED <<events, jobs>> /\ job[p].rest # << >> /\ Next1(p).kind = "policy"
      BY <1>4 DEF SeedPolicy, Doing, written
  <2>2. Finishes(p) \/ GoesOnWith(p, File("policies", Next1(p).about, "default"))
      BY <1>4 DEF SeedPolicy
  <2>3. File("policies", Next1(p).about, "default").kind # "event"
      BY DEF File
  <2>4. \A q \in Processes : LeftOf(job'[q], job[q])
      BY <1>1, <2>1, <2>2, <2>3, FinishLeaves, GoesOnLeaves, AllIsLeft
  <2> QED BY <2>1, <2>4, NumbersKept
<1>5. ASSUME NEW p \in Processes, Raise(p)
      PROVE  NumbersSound'
  <2>1. job' = [job EXCEPT ![p] = NoJob] /\ UNCHANGED <<events, jobs>>
      BY <1>5 DEF Raise, written
  <2>2. \A q \in Processes : job'[q] = NoJob \/ job'[q] = job[q]
      BY <1>1, <2>1
  <2>3. \A q \in Processes : LeftOf(job'[q], job[q])
      BY <1>1, <2>2, AllIsLeft, NoneIsLeft
  <2> QED BY <2>1, <2>3, NumbersKept
<1>6. CASE Crash
  <2>1. /\ job' = [p \in Processes |-> IF p = "setup" THEN job[p] ELSE NoJob]
        /\ UNCHANGED <<events, jobs>>
      BY <1>6 DEF Crash, written
  <2>2. \A q \in Processes : job'[q] = NoJob \/ job'[q] = job[q]
      BY <2>1
  <2>3. \A q \in Processes : LeftOf(job'[q], job[q])
      BY <1>1, <2>2, AllIsLeft, NoneIsLeft
  <2> QED BY <2>1, <2>3, NumbersKept
<1>7. CASE Setup
  <2> DEFINE s == [i \in 1..Cardinality(Nodes) |->
                      RowOf(SetToSeq(Nodes)[i], Seed[SetToSeq(Nodes)[i]])]
  <2>1. Begins("setup", 0, s) /\ UNCHANGED <<events, jobs>> /\ "setup" \in Processes
      BY <1>7 DEF Setup, Processes, written
  <2>2. s \in Seq(Write) /\ \A i \in 1..Len(s) : s[i].kind = "row"
      BY SetupPlanned
  <2> HIDE DEF s
  <2>3. \A i \in 1..Len(s) : s[i].kind # "event"
      BY <2>2
  <2> QED BY <2>1, <2>2, <2>3, BeginNumbers
<1>8. CASE Startup
  <2> DEFINE s == << Policy("health-thresholds"), Policy("test-schedule"),
                     Policy("firmware-baseline") >>
  <2>1. Begins("loop", 0, s) /\ UNCHANGED <<events, jobs>> /\ "loop" \in Processes
      BY <1>8 DEF Startup, Processes, written
  <2>2. \A q \in Policies : Policy(q) \in Write /\ Policy(q).kind = "policy"
      BY DEF Policy, Write
  <2>3. s \in Seq(Write) /\ Len(s) = 3 /\ \A i \in 1..3 : s[i].kind = "policy"
      BY <2>2 DEF Policies
  <2> HIDE DEF s
  <2>4. \A i \in 1..Len(s) : s[i].kind # "event"
      BY <2>3
  <2> QED BY <2>1, <2>3, <2>4, BeginNumbers
<1>9. ASSUME NEW p \in Processes, NEW plan, NEW maint, Begins(p, jobs + 1, plan),
             jobs' = jobs + 1, events' = events, Plan(plan, maint)
      PROVE  NumbersSound'
  <2>1. plan \in Seq(Write) /\ \A i \in 1..Len(plan) : plan[i].kind = "event" => i = 2
      BY <1>9 DEF Plan
  <2> QED BY <1>9, <2>1, BeginNumbers
<1>10. ASSUME NEW w \in Workers, Request(w)
       PROVE  NumbersSound'
  <2>1. PICK plan : Begins(w, jobs + 1, plan) /\ Plan(plan, FALSE)
      BY <1>10, RequestPlans
  <2> QED BY <1>9, <1>10, <2>1 DEF Request, written, Processes
<1>11. ASSUME NEW n \in Nodes, Visit(n)
       PROVE  NumbersSound'
  <2>1. PICK plan : Begins("loop", jobs + 1, plan) /\ Plan(plan, TRUE)
      BY <1>11, VisitPlansIt
  <2> QED BY <1>9, <1>11, <2>1 DEF Visit, written, Processes
<1>12. ASSUME NEW n \in Nodes, Correct(n)
       PROVE  NumbersSound'
  <2>1. PICK plan : Begins("loop", jobs + 1, plan) /\ Plan(plan, FALSE)
      BY <1>12, CorrectPlans
  <2> QED BY <1>9, <1>12, <2>1 DEF Correct, written, Processes
<1>13. CASE Correlate
  <2>1. PICK found \in Found \ { {} } : Begins("loop", jobs + 1, IncidentPlan(found))
      BY <1>13 DEF Correlate
  <2>2. Plan(IncidentPlan(found), FALSE)
      BY FoundNamed, IncidentsPlanned
  <2> HIDE DEF IncidentPlan
  <2> QED BY <1>9, <1>13, <2>1, <2>2 DEF Correlate, written, Processes
<1>14. CASE UNCHANGED <<events, jobs, job>>
  <2>1. \A q \in Processes : LeftOf(job'[q], job[q])
      BY <1>1, <1>14, AllIsLeft
  <2> QED BY <1>14, <2>1, NumbersKept
<1>15. ASSUME \/ \E op \in { "reconciler", "maintenance", "testing" } : BeginTick(op)
              \/ \E path \in DOMAIN file : Approve(path)
              \/ Started \/ EndTick \/ TimePasses \/ UNCHANGED vars
       PROVE  UNCHANGED <<events, jobs, job>>
    BY <1>15 DEF BeginTick, Approve, Started, EndTick, TimePasses, vars, written
<1>16. ASSUME NEW p \in Processes, SaveEvent(p)
       PROVE  NumbersSound'
    BY <1>16, SaveEventNumbers
<1> QED BY <1>2, <1>3, <1>4, <1>5, <1>6, <1>7, <1>8, <1>10, <1>11, <1>12, <1>13, <1>14, <1>15,
           <1>16 DEF Next

\* Where a file is, it is whatever was last written to it.
LEMMA WrittenDomain ==
    ASSUME NEW path, NEW content
    PROVE  DOMAIN Written(path, content) = DOMAIN file \cup { path }
BY DEF Written

\* The file of a desired state has no time in its name.
LEMMA DesiredNext ==
    ASSUME IInv, DesiredSound, [Next]_vars
    PROVE  DesiredSound'
<1>1. ASSUME NEW p \in Processes, OpenFile(p)
      PROVE  DesiredSound'
  <2> DEFINE path == PathOf(Next1(p), now)
  <2>1. DOMAIN file' = DOMAIN file \cup { path }
      BY <1>1, WrittenDomain DEF OpenFile
  <2>2. path.dir = "desired-state" => path.at = 0
      BY DEF PathOf, Path
  <2> HIDE DEF path
  <2> QED BY <2>1, <2>2 DEF DesiredSound
<1>2. ASSUME NEW p \in Processes, CloseFile(p)
      PROVE  DesiredSound'
  <2>1. DOMAIN file' = DOMAIN file \cup { Next1(p).path }
      BY <1>2, WrittenDomain DEF CloseFile
  <2>2. job[p].rest # << >> /\ Next1(p).kind = "close"
      BY <1>2 DEF CloseFile, Doing
  <2>3. PICK w : w = Next1(p)
      OBVIOUS
  <2>4. Proper(w) /\ w.kind = "close"
      BY <2>2, <2>3, NextWrite
  <2>5. w.path = RequestPath(w.dir, w.about, w.says, w.at)
      BY <2>4, CloseFacts
  <2>6. w.path.dir = "desired-state" => w.path.at = 0
    <3>1. ASSUME NEW d, NEW n, NEW o, NEW t
          PROVE  RequestPath(d, n, o, t).dir = "desired-state" => RequestPath(d, n, o, t).at = 0
        BY DEF RequestPath, Path
    <3> QED BY <2>5, <3>1
  <2> QED BY <2>1, <2>3, <2>6 DEF DesiredSound
<1>3. ASSUME NEW path \in DOMAIN file, Approve(path)
      PROVE  DesiredSound'
  <2>1. DOMAIN file' = DOMAIN file
      BY <1>3 DEF Approve
  <2> QED BY <2>1 DEF DesiredSound
<1>4. CASE file' = file
    BY <1>4 DEF DesiredSound
<1>5. ASSUME NEW p \in Processes,
             \/ SaveNode(p) \/ SaveEvent(p) \/ SaveIncident(p) \/ WriteAlert(p)
             \/ SeedPolicy(p) \/ Raise(p)
      PROVE  file' = file
    BY <1>5 DEF SaveNode, SaveEvent, SaveIncident, WriteAlert, SeedPolicy, Raise, written
<1>6. ASSUME \/ \E w \in Workers : Request(w)
             \/ \E op \in { "reconciler", "maintenance", "testing" } : BeginTick(op)
             \/ \E n \in Nodes : Visit(n) \/ Correct(n)
             \/ Correlate \/ Setup \/ Startup \/ Started \/ EndTick \/ Crash \/ TimePasses
             \/ UNCHANGED vars
      PROVE  file' = file
    BY <1>6 DEF Request, BeginTick, Visit, Correct, Correlate, Setup, Startup, Started, EndTick,
                Crash, TimePasses, vars, written
<1> QED BY <1>1, <1>2, <1>3, <1>4, <1>5, <1>6 DEF Next

\* Both always hold.
LEMMA PagesInductive == Spec => [](NumbersSound /\ DesiredSound)
<1>1. Init => NumbersSound /\ DesiredSound
  <2> SUFFICES ASSUME Init
               PROVE  NumbersSound /\ DesiredSound
      OBVIOUS
  <2>1. /\ \A p \in Processes : job[p] = NoJob
        /\ events = {} /\ jobs = 0 /\ DOMAIN file = {}
      BY DEF Init
  <2>2. NoJob.no = 0 /\ Len(NoJob.rest) = 0
      BY DEF NoJob
  <2>3. Counted(NoJob)
      BY <2>1, <2>2 DEF Counted
  <2> QED BY <2>1, <2>2, <2>3 DEF NumbersSound, DesiredSound
<1>2. IInv /\ IInv' /\ NumbersSound /\ DesiredSound /\ [Next]_vars
        => NumbersSound' /\ DesiredSound'
    BY NumbersNext, DesiredNext
<1> QED BY <1>1, <1>2, Inductive, PTL DEF Spec

-----------------------------------------------------------------------------
(* What the pages tell *)

\* The rows as they are read are a fleet.
LEMMA ListedIsFleet ==
    ASSUME IInv
    PROVE  Fleet(Listed) /\ IsFiniteSet(DOMAIN Listed)
<1>1. \A n \in DOMAIN Listed : Listed[n].state \in State
    BY ListedSound DEF Sound, Row
<1>2. Fleet(Listed)
    BY <1>1, ListedSound DEF Fleet
<1> QED BY <1>2, FleetIsFinite

\* Whatever the rows are, all pages count the same nodes.
LEMMA CountsAlwaysMatch ==
    ASSUME IInv
    PROVE  CountsMatch
<1> DEFINE size == Cardinality(DOMAIN Listed)
           capacity == Capacity(Listed)
           metrics == Metrics(Listed, capacity)
           summary == HealthSummary(Listed, capacity)
           tables == CliCapacity(Listed)
           racks == NetboxRacks(Listed)
           power == SumOf(PowerRacks(Listed))
           zones == TopologyZones(Listed)
           topology == Topology(Listed)
           matrix == FirmwareMatrix(Listed)
           Lists(state, az, type) ==
               Cardinality(DOMAIN CliStatus(Listed, NotGiven, state, az, type))
<1>1. Fleet(Listed)
    BY ListedIsFleet
<1>2. summary = [field \in DOMAIN summary |-> metrics[field]]
    BY SummaryIsInMetrics
<1>3. /\ tables.total = size
      /\ \A i \in 1..4 : SumFunction(tables.tables[i]) = size
      /\ metrics.total = size /\ topology["nodes"] = size /\ power["nodes"] = size
      /\ topology["power"] = power["power"] /\ topology["gpus"] = power["gpus"]
    BY <1>1, TotalsAgree
<1>4. /\ \A s \in DOMAIN capacity.by["state"] :
            capacity.by["state"][s] = Lists(s, NotGiven, NotGiven)
      /\ \A az \in DOMAIN capacity.by["az"] :
            capacity.by["az"][az] = Lists(NotGiven, az, NotGiven)
      /\ \A t \in DOMAIN capacity.by["type"] :
            capacity.by["type"][t] = Lists(NotGiven, NotGiven, t)
    BY <1>1, ListingsAgree
<1>5. \A az \in DOMAIN capacity.by["az"] :
          capacity.by["az"][az] = zones[OrUnknown(az)]["nodes"]
    BY <1>1, ZonesAgree
<1>6. /\ DOMAIN matrix = DOMAIN capacity.by["sku"]
      /\ \A sku \in DOMAIN matrix : matrix[sku].count = capacity.by["sku"][sku]
    BY <1>1, MatrixAgrees
<1>7. /\ UNION { CliRacks(Listed, NotGiven)[r] : r \in DOMAIN racks } = DOMAIN Listed
      /\ \A r \in DOMAIN racks : DOMAIN RackNodes(Listed, r) = racks[r]
      /\ UNION { DOMAIN TenantNodes(Listed, Inventory[n].tenant) : n \in Nodes } = DOMAIN Listed
    BY <1>1, RacksAgree
<1>8. metrics.gpuAvailable <= Lists("certified_ready", NotGiven, NotGiven)
    BY <1>1, GpusAreAmongReady
<1>9. /\ ShownIncidents("true") \cap ShownIncidents("false") = {}
      /\ ShownIncidents("true") \cup ShownIncidents("false") = ShownIncidents(NotGiven)
    BY IncidentsSplit
<1> HIDE DEF Lists
<1>10. \A az \in DOMAIN capacity.by["az"] :
          /\ capacity.by["az"][az] = Lists(NotGiven, az, NotGiven)
          /\ capacity.by["az"][az] = zones[OrUnknown(az)]["nodes"]
    BY <1>4, <1>5
<1> USE DEF Lists
<1> QED BY ONLY <1>2, <1>3, <1>4, <1>6, <1>7, <1>8, <1>9, <1>10, Zenon DEF CountsMatch

\* What a page copies from a row is the same on all pages, and the list of desired states
\* tells the same as the file of each node.
LEMMA ColumnsAlwaysMatch ==
    ASSUME IInv, DesiredSound
    PROVE  ColumnsMatch
<1> DEFINE Says(n) == { d.says : d \in { x \in ListYaml("desired-state") : x.about = n } }
           PathTo(n) == Path("desired-state", n, "", 0)
<1>1. \A q \in DOMAIN file : /\ q \in Paths /\ file[q] \in Contents
                             /\ file[q] # Empty => file[q].about = q.name
                             /\ q.dir = "desired-state" => q.op = "" /\ q.at = 0
    BY DEF IInv, TypeOK, FilesSound, DesiredSound
<1>2. \A q \in DOMAIN file : q.dir = "desired-state" => q = PathTo(q.name)
  <2>1. \A none : \A q \in [dir : Directories, name : Subjects, op : Words \cup { none },
                            at : 0..MaxTime] :
            q = [dir |-> q.dir, name |-> q.name, op |-> q.op, at |-> q.at]
      OBVIOUS
  <2>2. \A q \in DOMAIN file : q = [dir |-> q.dir, name |-> q.name, op |-> q.op, at |-> q.at]
      BY <1>1, <2>1, Zenon DEF Paths
  <2> QED BY <1>1, <2>2, Zenon DEF Path
<1>3. \A c \in Contents : c.says = "" <=> c = Empty
  <2>1. "" \notin Words
      BY Zenon DEF Words, State
  <2>2. ASSUME NEW none, none \notin Words,
               NEW c \in [about : Subjects, says : Words] \cup { [about |-> none, says |-> none] }
        PROVE  c.says = none <=> c = [about |-> none, says |-> none]
      BY <2>2
  <2> QED BY <2>1, <2>2, Zenon DEF Contents, Empty
<1>4. ASSUME NEW n \in Nodes, NEW says \in Says(n)
      PROVE  says \in { DesiredState(n) } \ { "" }
  <2>1. PICK q \in DOMAIN file : /\ q.dir = "desired-state" /\ file[q] # Empty
                                 /\ file[q].about = n /\ says = file[q].says
      BY <1>4 DEF ListYaml
  <2>2. q = PathTo(n)
      BY <1>1, <1>2, <2>1
  <2>3. DesiredState(n) = file[q].says
      BY <2>2 DEF DesiredState, ReadYaml
  <2> QED BY <1>1, <1>3, <2>1, <2>3
<1>5. ASSUME NEW n \in Nodes, DesiredState(n) # ""
      PROVE  DesiredState(n) \in Says(n)
  <2> DEFINE q == PathTo(n)
  <2>1. q \in DOMAIN file /\ DesiredState(n) = file[q].says
      BY <1>5 DEF DesiredState, ReadYaml, Empty
  <2>2. q.dir = "desired-state" /\ q.name = n
      BY DEF Path
  <2> HIDE DEF q
  <2>3. file[q] # Empty /\ file[q].about = n
      BY <1>1, <1>3, <1>5, <2>1, <2>2
  <2>4. file[q] \in ListYaml("desired-state")
      BY <2>1, <2>2, <2>3 DEF ListYaml
  <2> QED BY <2>1, <2>3, <2>4
<1>6. \A n \in Nodes : Says(n) = { DesiredState(n) } \ { "" }
  <2> HIDE DEF Says
  <2> QED BY <1>4, <1>5
<1> QED BY ONLY <1>6, ColumnsAgree, Zenon DEF ColumnsMatch

\* Every part with firmware has a version on the firmware pages, and the other way round.
LEMMA PartsAlwaysMatch ==
    ASSUME IInv
    PROVE  PartsMatch
<1>1. Fleet(Listed)
    BY ListedIsFleet
<1>2. \A sku \in Skus : PartFields(Platform(sku)) = Installed(sku) \ DriverFields
    BY PartsAreInstalled
<1> QED BY <1>1, <1>2, PartsAgree DEF PartsMatch

\* There are as many events at most as there may be requests and visits.
LEMMA EventsAreFinite ==
    ASSUME IInv, NumbersSound
    PROVE  /\ IsFiniteSet(events) /\ \A e \in events : e.no \in Nat
           /\ \A e \in events, d \in events : e.no = d.no => e = d
<1>1. \A e \in events : e.no \in 1..MaxJobs
    BY DEF IInv, TypeOK, EventRecord
<1>2. \A e \in events, d \in events : e.no = d.no => e = d
    BY DEF NumbersSound
<1> DEFINE f == [e \in events |-> e.no]
<1>3. f \in [events -> 1..MaxJobs]
    BY <1>1
<1>4. \A e \in events, d \in events : f[e] = f[d] => e = d
    BY <1>2
<1> HIDE DEF f
<1>5. f \in Injection(events, 1..MaxJobs)
    BY <1>3, <1>4 DEF Injection, IsInjective
<1>6. IsFiniteSet(1..MaxJobs)
    BY FS_Interval
<1> QED BY <1>1, <1>2, <1>5, <1>6, FS_Injection

\* No alert or event that is left out is newer than one that is shown.
LEMMA NewestAlwaysFirst ==
    ASSUME IInv, NumbersSound
    PROVE  NewestFirst
<1>1. ASSUME NEW node \in Nodes \cup { NotGiven }, NEW limit \in 0..MaxJobs
      PROVE  LET shown == RecentEvents(events, node, limit)
                 others == EventsPage(events, node) \ shown
             IN  /\ Cardinality(shown) <= limit
                 /\ others # {} => Cardinality(shown) = limit
                 /\ \A e \in shown, d \in others : e.no > d.no
  <2>1. limit \in Nat
      OBVIOUS
  <2> QED BY <2>1, EventsAreFinite, EventsAreNewest
<1>2. ASSUME NEW limit \in Nat \ { 0 }
      PROVE  AreNewest(RecentAlerts(alerts, limit), limit)
  <2>1. alerts \in Seq([about : Nodes, no : 1..MaxJobs])
      BY DEF IInv, TypeOK
  <2> QED BY <2>1, AlertsAreNewest DEF AreNewest
<1>3. AreNewest(CliAlerts(alerts), 30)
    BY <1>2 DEF CliAlerts
<1>4. \A limit \in 1..(MaxJobs + 1) : AreNewest(RecentAlerts(alerts, limit), limit)
    BY <1>2
<1> QED BY ONLY <1>1, <1>3, <1>4, Zenon DEF NewestFirst

\* All pages tell of the same fleet, whatever is in its rows and whoever is writing;
\* so they do when the server is idle, which is when PagesAgree asks for it.
THEOREM PagesAlwaysAgree ==
    /\ Spec => [](CountsMatch /\ ColumnsMatch /\ PartsMatch /\ NewestFirst)
    /\ Spec => []PagesAgree
<1>1. IInv /\ NumbersSound /\ DesiredSound
        => CountsMatch /\ ColumnsMatch /\ PartsMatch /\ NewestFirst
    BY CountsAlwaysMatch, ColumnsAlwaysMatch, PartsAlwaysMatch, NewestAlwaysFirst
<1>2. CountsMatch /\ ColumnsMatch /\ PartsMatch /\ NewestFirst => PagesAgree
    BY DEF PagesAgree
<1> QED BY <1>1, <1>2, Inductive, PagesInductive, PTL
=============================================================================
