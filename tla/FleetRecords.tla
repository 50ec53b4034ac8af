---------------------------- MODULE FleetRecords ----------------------------
(***************************************************************************)
(* What the controller leaves behind: rows, transition events, GitOps      *)
(* files and alerts.  Everything it does to them is a chain of separate    *)
(* writes, each with a commit or a file of its own; requests, ticks and    *)
(* the setup command interleave between any two of them, each may raise,   *)
(* and the process may die.  FleetStore and its operators say when what is *)
(* done; this module says what is written then, in which order, and what   *)
(* the readers of FleetViews make of it.                                   *)
(*                                                                         *)
(* A file is opened with "w", which empties it, and gets its content when  *)
(* it is closed: in between, and after a crash there, it is empty, and     *)
(* reads as None.                                                          *)
(***************************************************************************)
EXTENDS FleetViews

CONSTANTS
    Seed,           \* Seed[n]: the row that the setup command gives n
    Bmaas,          \* the nodes whose environment is BMaaS
    Workers,        \* API worker threads
    ClientTriggers, \* the triggers that requests use
    Visits,         \* the kinds of visits that ticks make
    SecondsPerDay,  \* how often the clock ticks between two midnights
    IncidentIds,    \* the names that incidents are given, at random in the code
    MaxTime,        \* bound on the clock
    MaxJobs,        \* bound on the number of requests and visits
    NoRow           \* stands for "no row"

ASSUME RecordsAssumption ==
    /\ \A n \in Nodes : Seed[n] \in UNION { SeedRows(s) : s \in SeedStates }
    /\ Bmaas \subseteq Nodes
    /\ ClientTriggers \subseteq Trigger
    /\ Workers \cap { "loop", "setup" } = {}
    /\ IsFiniteSet(IncidentIds)
    /\ SecondsPerDay \in Nat \ { 0 } /\ MaxTime \in Nat /\ MaxJobs \in Nat

VARIABLES
    row,        \* row[n]: the row of n, or NoRow
    events,     \* the events table
    incidents,  \* the names in the incidents table
    file,       \* the GitOps files: a function from paths to contents
    alerts,     \* the lines of alerts.jsonl
    job,        \* job[p]: the writes that process p has still to do
    snap,       \* the rows that the tick in progress has listed
    up,         \* has the API server started?
    now,        \* the clock that names and stamps are taken from
    jobs,       \* the number of requests and visits so far
    saved,      \* the rows saved by requests and visits, with their job's number
    asked,      \* the requests that were written out
    approved    \* the maintenance requests that were approved, until asked again

vars == <<row, events, incidents, file, alerts, job, snap, up, now, jobs, saved, asked, approved>>
written == <<row, events, incidents, file, alerts, saved, asked, approved>>

Processes == Workers \cup { "loop", "setup" }
Policies == { "health-thresholds", "test-schedule", "firmware-baseline" }

-----------------------------------------------------------------------------
(* Files *)

Empty == [about |-> "", says |-> ""]

Directories == { "operation-requests", "desired-state", "cordons", "maintenance",
                 "policies", "incidents" }

Day(t) == t \div SecondsPerDay

Path(dir, name, op, at) == [dir |-> dir, name |-> name, op |-> op, at |-> at]

\* Mutants: operation requests are named without their operation, and maintenance
\* requests without their day
PathWithoutOperation(w, t) ==
    CASE w.dir = "operation-requests" -> Path(w.dir, w.about, "", t)
      [] w.dir = "maintenance"        -> Path(w.dir, w.about, "", Day(t))
      [] OTHER                        -> Path(w.dir, w.about, "", 0)

PathWithoutDay(w, t) ==
    CASE w.dir = "operation-requests" -> Path(w.dir, w.about, w.says, t)
      [] w.dir = "maintenance"        -> Path(w.dir, w.about, "", 0)
      [] OTHER                        -> Path(w.dir, w.about, "", 0)

\* The file that a write of these contents at time t goes to
PathOf(w, t) ==
    CASE w.dir = "operation-requests" -> Path(w.dir, w.about, w.says, t)
      [] w.dir = "maintenance"        -> Path(w.dir, w.about, "", Day(t))
      [] OTHER                        -> Path(w.dir, w.about, "", 0)

\* _read_yaml: None for a file that is not there, or that is empty
ReadYaml(path) == IF path \in DOMAIN file THEN file[path] ELSE Empty

\* _list_yaml: what the files of a directory say, empty files passed over; and so
\* the pages /gitops/desired-states and /gitops/cordons
ListYaml(dir) ==
    { file[p] : p \in { q \in DOMAIN file : q.dir = dir /\ file[q] # Empty } }

\* read_desired_state
DesiredState(n) == ReadYaml(Path("desired-state", n, "", 0)).says

-----------------------------------------------------------------------------
(* The writes that a request or a visit consists of *)

RowOf(n, r) == [kind |-> "row", about |-> n, row |-> r]
EventOf(n, r, e) == [kind |-> "event", about |-> n, from |-> r.state, to |-> e.to]
File(dir, about, says) == [kind |-> "open", dir |-> dir, about |-> about, says |-> says]
Alert(n) == [kind |-> "alert", about |-> n]
Policy(p) == [kind |-> "policy", about |-> p]
IncidentRow(id) == [kind |-> "incident", about |-> id]

Ask(n, operation) == File("operation-requests", n, operation)
Desire(n, state) == File("desired-state", n, state)
CordonFile(n) == File("cordons", n, "P0")

\* Mutant: the event is written before the row
SavedEventFirst(n, r, e) == << EventOf(n, r, e), RowOf(n, After(r, e)) >>

\* db.save_node(node); db.save_event(event)
Saved(n, r, e) == << RowOf(n, After(r, e)), EventOf(n, r, e) >>

\* The transition with this trigger, if the state machine allows it
Allowed(r, triggers) ==
    { e \in Transitions : e.trigger \in triggers /\ Permitted(r, e) }

\* The row that a plan saves
RowIn(plan) == (CHOOSE w \in Range(plan) : w.kind = "row").row

TransitionPlans(n, r) == { Saved(n, r, e) : e \in Allowed(r, ClientTriggers) }

\* db.save_incident of each in turn
IncidentRows(found) ==
    [i \in 1..Cardinality(found) |-> IncidentRow(SetToSeq(found)[i])]

\* What cordons or uncordons saves a row and nothing else; a fault, an alert and
\* the incidents that are found first.
OtherPlans(n, r, found) ==
    (IF CordonPermitted(r, 4) THEN { << RowOf(n, Cordoned(r, "nlm-controller", 4)) >> } ELSE {})
    \cup { << RowOf(n, Uncordoned(r)) >>,
           << Alert(n) >> \o IncidentRows(found) \o << RowOf(n, Injected(r, TRUE)) >> }

TimeoutPlans(n, r) ==
    { Saved(n, r, e) \o << Desire(n, e.to) >>
        \o (IF e.to = "emergency_drain" THEN << Ask(n, "day2_cordon") >> ELSE << >>)
        \o << Alert(n) >> :
      e \in Allowed(r, { "provision_timeout", "burn_in_fail", "l1_fail", "drain_timeout" })
            \cup (IF r.state = "emergency_drain" THEN Allowed(r, { "drain_complete" }) ELSE {}) }

RepairPlans(n, r) ==
    { Saved(n, r, e) \o << Ask(n, "debug_bundle"), Desire(n, "repair") >> :
        e \in Allowed(r, { "repair_start" }) }

SchedulePlans(n, r) ==
    { Saved(n, r, e) \o << Ask(n, "burnin_suite"), Desire(n, "testing") >> :
        e \in IF r.state = "certified_ready" /\ ~r.protected
              THEN Allowed(r, { "testing_scheduled" }) ELSE {} }

PassPlans(n, r) ==
    { Saved(n, r, e) \o << Desire(n, "certified_ready"), Ask(n, "day2_uncordon") >> :
        e \in IF r.health >= 7 THEN Allowed(r, { "l1_pass" }) ELSE {} }

FailPlans(n, r) ==
    { Saved(n, r, e) \o << Ask(n, "day2_cordon"), Ask(n, "debug_bundle"),
                           Desire(n, "repair"), CordonFile(n), Alert(n) >> :
        e \in Allowed(r, { "l1_fail" }) }

\* _handle_critical: the row comes last, and a transition leaves no event.
CriticalPlan(n, r) ==
    LET q == Cordoned(r, "nlm-reconciler", 0)
        exits == IF r.state \in { "certified_ready", "testing", "burn_in" }
                 THEN Allowed(r, { "burn_in_fail", "l1_fail" }) ELSE {}
        kept == IF exits # {} THEN After(q, CHOOSE e \in exits : TRUE) ELSE q
    IN  << Ask(n, "day2_cordon") >>
        \o (IF kept.state = "repair" THEN << Ask(n, "debug_bundle") >> ELSE << >>)
        \o << CordonFile(n), Desire(n, kept.state), Alert(n), RowOf(n, kept) >>

CustomerPlan(n, r) ==
    << File("maintenance", n, "awaiting"), Alert(n), RowOf(n, r) >>

CriticalPlans(n, r) ==
    IF r.health >= 5 \/ r.state \in { "rma", "decommissioned" } THEN {}
    ELSE { IF n \in Bmaas /\ r.health > 2 THEN CustomerPlan(n, r) ELSE CriticalPlan(n, r) }

\* Mutant: the file of an incident is written before its row
IncidentPlanFileFirst(found) ==
    [i \in 1..(2 * Cardinality(found)) |->
        LET id == SetToSeq(found)[(i + 1) \div 2]
        IN  IF i % 2 = 1 THEN File("incidents", id, "open") ELSE IncidentRow(id)]

\* For each incident: db.save_incident(inc); gitops.write_incident(...)
IncidentPlan(found) ==
    [i \in 1..(2 * Cardinality(found)) |->
        LET id == SetToSeq(found)[(i + 1) \div 2]
        IN  IF i % 2 = 1 THEN IncidentRow(id) ELSE File("incidents", id, "open")]

\* The visits of each operator's ticks
VisitsOf(op) ==
    CASE op = "reconciler"  -> { "critical" }
      [] op = "maintenance" -> { "timeout", "repair" }
      [] op = "testing"     -> { "schedule", "pass", "fail" }

VisitPlans(kind, n, r) ==
    CASE kind = "timeout"  -> TimeoutPlans(n, r)
      [] kind = "repair"   -> RepairPlans(n, r)
      [] kind = "schedule" -> SchedulePlans(n, r)
      [] kind = "pass"     -> PassPlans(n, r)
      [] kind = "fail"     -> FailPlans(n, r)
      [] kind = "critical" -> CriticalPlans(n, r)

-----------------------------------------------------------------------------

NoJob == [no |-> 0, rest |-> << >>]
NoTick == [op |-> "none", rows |-> [n \in {} |-> NoRow]]

\* The rows of the table, as db.list_nodes and get_node return them
Listed == [n \in { m \in Nodes : row[m] # NoRow } |-> FromDb(row[n])]

\* What files are about, and what they say
Subjects == Nodes \cup Policies \cup IncidentIds
Words == State \cup { "day2_cordon", "day2_uncordon", "debug_bundle", "burnin_suite",
                      "P0", "awaiting", "approved", "default", "open" }
Paths == [dir : Directories, name : Subjects, op : Words \cup { "" }, at : 0..MaxTime]
Contents == [about : Subjects, says : Words] \cup { Empty }

Write ==
    [kind : { "row" }, about : Nodes, row : Row]
    \cup [kind : { "event" }, about : Nodes, from : State, to : State]
    \cup [kind : { "alert" }, about : Nodes]
    \cup [kind : { "incident" }, about : IncidentIds]
    \cup [kind : { "policy" }, about : Policies]
    \cup [kind : { "open" }, dir : Directories, about : Subjects, says : Words]
    \cup [kind : { "close" }, dir : Directories, about : Subjects, says : Words,
          path : Paths, at : 0..MaxTime]

EventRecord == [about : Nodes, from : State, to : State, no : 1..MaxJobs]

TypeOK ==
    /\ row \in [Nodes -> Row \cup { NoRow }]
    /\ events \subseteq EventRecord
    /\ incidents \subseteq IncidentIds
    /\ file \in [DOMAIN file -> Contents] /\ DOMAIN file \subseteq Paths
    /\ alerts \in Seq([about : Nodes, no : 1..MaxJobs])
    /\ job \in [Processes -> [no : 0..MaxJobs, rest : Seq(Write)]]
    /\ snap = [op |-> snap.op, rows |-> snap.rows]
    /\ snap.op \in { "none", "reconciler", "maintenance", "testing" }
    /\ snap.rows \in [DOMAIN snap.rows -> Row] /\ DOMAIN snap.rows \subseteq Nodes
    /\ up \in { "down", "starting", "up" }
    /\ now \in 0..MaxTime
    /\ jobs \in 0..MaxJobs
    /\ saved \subseteq [about : Nodes, to : State, no : 0..MaxJobs]
    /\ asked \subseteq [dir : Directories, about : Nodes, says : Words, at : 0..MaxTime]
    /\ approved \subseteq Nodes \X (0..MaxTime)

Init ==
    /\ row = [n \in Nodes |-> NoRow]
    /\ events = {} /\ incidents = {}
    /\ file = [p \in {} |-> Empty]
    /\ alerts = << >>
    /\ job = [p \in Processes |-> NoJob]
    /\ snap = NoTick
    /\ up = "down"
    /\ now = 0
    /\ jobs = 0
    /\ saved = {} /\ asked = {} /\ approved = {}

-----------------------------------------------------------------------------
(* The writes, one at a time *)

Next1(p) == Head(job[p].rest)
Doing(p, kind) == job[p].rest # << >> /\ Next1(p).kind = kind

Finishes(p) ==
    job' = [job EXCEPT ![p] = IF Len(@.rest) = 1 THEN NoJob
                                   ELSE [no |-> @.no, rest |-> Tail(@.rest)]]

GoesOnWith(p, write) == job' = [job EXCEPT ![p].rest[1] = write]

\* db.save_node: the whole row
SaveNode(p) ==
    /\ Doing(p, "row")
    /\ row' = [row EXCEPT ![Next1(p).about] = Next1(p).row]
    /\ saved' = saved \cup
          { [about |-> Next1(p).about, to |-> Next1(p).row.state, no |-> job[p].no] }
    /\ Finishes(p)
    /\ UNCHANGED <<events, incidents, file, alerts, snap, up, now, jobs, asked, approved>>

\* db.save_event
SaveEvent(p) ==
    /\ Doing(p, "event")
    /\ events' = events \cup { [about |-> Next1(p).about, from |-> Next1(p).from,
                                to |-> Next1(p).to, no |-> job[p].no] }
    /\ Finishes(p)
    /\ UNCHANGED <<row, incidents, file, alerts, snap, up, now, jobs, saved, asked, approved>>

\* db.save_incident
SaveIncident(p) ==
    /\ Doing(p, "incident")
    /\ incidents' = incidents \cup { Next1(p).about }
    /\ Finishes(p)
    /\ UNCHANGED <<row, events, file, alerts, snap, up, now, jobs, saved, asked, approved>>

\* _write_alert
WriteAlert(p) ==
    /\ Doing(p, "alert")
    /\ alerts' = Append(alerts, [about |-> Next1(p).about, no |-> job[p].no])
    /\ Finishes(p)
    /\ UNCHANGED <<row, events, incidents, file, snap, up, now, jobs, saved, asked, approved>>

\* The files, with this content in one of them
Written(path, content) ==
    [q \in DOMAIN file \cup { path } |-> IF q = path THEN content ELSE file[q]]

\* _write_yaml: open(path, "w"); a maintenance request is asked for once more.
OpenFile(p) ==
    /\ Doing(p, "open")
    /\ LET w == Next1(p)
           path == PathOf(w, now)
       IN  /\ file' = Written(path, Empty)
           /\ GoesOnWith(p, [kind |-> "close", dir |-> w.dir, about |-> w.about,
                              says |-> w.says, path |-> path,
                              at |-> IF w.dir = "maintenance" THEN Day(now) ELSE now])
           /\ approved' = IF w.dir = "maintenance"
                          THEN approved \ { <<w.about, Day(now)>> } ELSE approved
    /\ UNCHANGED <<row, events, incidents, alerts, snap, up, now, jobs, saved, asked>>

\* The content gets to the file when it is closed.
CloseFile(p) ==
    /\ Doing(p, "close")
    /\ LET w == Next1(p)
       IN  /\ file' = Written(w.path, [about |-> w.about, says |-> w.says])
           /\ asked' = IF w.dir \in { "operation-requests", "maintenance" }
                       THEN asked \cup { [dir |-> w.dir, about |-> w.about,
                                          says |-> w.says, at |-> w.at] }
                       ELSE asked
    /\ Finishes(p)
    /\ UNCHANGED <<row, events, incidents, alerts, snap, up, now, jobs, saved, approved>>

PolicyPath(p) == Path("policies", p, "", 0)

\* GET /gitops/policies: those that can be read
ShownPolicies == { p \in Policies : ReadYaml(PolicyPath(p)) # Empty }

\* Mutant: a policy is taken to be there if its file is
SeedPolicyIfMissing(p) ==
    /\ Doing(p, "policy")
    /\ LET name == Next1(p).about
       IN  IF PolicyPath(name) \in DOMAIN file
           THEN Finishes(p) ELSE GoesOnWith(p, File("policies", name, "default"))
    /\ UNCHANGED <<written, snap, up, now, jobs>>

\* seed_default_policies: `if not read_policy(name)'
SeedPolicy(p) ==
    /\ Doing(p, "policy")
    /\ LET name == Next1(p).about
       IN  IF ReadYaml(PolicyPath(name)) # Empty
           THEN Finishes(p) ELSE GoesOnWith(p, File("policies", name, "default"))
    /\ UNCHANGED <<written, snap, up, now, jobs>>

\* An exception: the rest of the request, of the tick or of the startup is not done.
Raise(p) ==
    /\ job[p] # NoJob
    /\ job' = [job EXCEPT ![p] = NoJob]
    /\ snap' = IF p = "loop" THEN NoTick ELSE snap
    /\ up' = IF p = "loop" /\ up = "starting" THEN "down" ELSE up
    /\ UNCHANGED <<written, now, jobs>>

-----------------------------------------------------------------------------
(* Who starts to write *)

Begins(p, no, rest) == job[p] = NoJob /\ job' = [job EXCEPT ![p] = [no |-> no, rest |-> rest]]

\* The setup command: seed_fleet saves one row after the other, over what is there.
Setup ==
    /\ Begins("setup", 0, [i \in 1..Cardinality(Nodes) |->
                              RowOf(SetToSeq(Nodes)[i], Seed[SetToSeq(Nodes)[i]])])
    /\ UNCHANGED <<written, snap, up, now, jobs>>

\* The API server starts, and serves when seed_default_policies has returned.
Startup ==
    /\ up = "down"
    /\ Begins("loop", 0, << Policy("health-thresholds"), Policy("test-schedule"),
                            Policy("firmware-baseline") >>)
    /\ up' = "starting"
    /\ UNCHANGED <<written, snap, now, jobs>>

Started ==
    /\ up = "starting" /\ job["loop"] = NoJob
    /\ up' = "up"
    /\ UNCHANGED <<written, job, snap, now, jobs>>

\* The incidents that may be found: any, and with names of their own. What the
\* correlator finds, and when, is FaultReporting's.
Found ==
    LET writes == UNION { Range(job[p].rest) : p \in Processes }
        named == { w.about : w \in { x \in writes : x.kind = "incident" } }
    IN  SUBSET (IncidentIds \ (incidents \cup named))

\* An endpoint that changes a node reads its row, and decides on it.
Request(w) ==
    /\ up = "up" /\ jobs < MaxJobs
    /\ \E n \in DOMAIN Listed :
          \E plan \in TransitionPlans(n, Listed[n])
                      \cup UNION { OtherPlans(n, Listed[n], found) : found \in Found } :
              Begins(w, jobs + 1, plan)
    /\ jobs' = jobs + 1
    /\ UNCHANGED <<written, snap, up, now>>

BeginTick(op) ==
    /\ up = "up" /\ job["loop"] = NoJob /\ snap = NoTick
    /\ snap' = [op |-> op, rows |-> Listed]
    /\ UNCHANGED <<written, job, up, now, jobs>>

\* The tick acts on its copy of a row; a timeout leaves the new copy to what follows.
Visit(n) ==
    /\ n \in DOMAIN snap.rows /\ jobs < MaxJobs
    /\ \E kind \in Visits \cap VisitsOf(snap.op) :
          \E plan \in VisitPlans(kind, n, snap.rows[n]) :
              /\ Begins("loop", jobs + 1, plan)
              /\ snap' = IF kind = "timeout"
                         THEN [snap EXCEPT !.rows[n] = RowIn(plan)]
                         ELSE [snap EXCEPT !.rows = Restrict(@, DOMAIN @ \ { n })]
    /\ jobs' = jobs + 1
    /\ UNCHANGED <<written, up, now>>

\* check_correlations, after the nodes that the tick has visited
Correlate ==
    /\ snap.op = "reconciler" /\ job["loop"] = NoJob /\ jobs < MaxJobs
    /\ \E found \in Found \ { {} } : Begins("loop", jobs + 1, IncidentPlan(found))
    /\ snap' = [snap EXCEPT !.rows = [m \in {} |-> NoRow]]
    /\ jobs' = jobs + 1
    /\ UNCHANGED <<written, up, now>>

\* The reconciler's second part reads file and row afresh, and saves a row only.
Correct(n) ==
    /\ snap.op = "reconciler" /\ jobs < MaxJobs
    /\ n \in DOMAIN Listed
    /\ \E e \in Transitions :
          /\ Permitted(Listed[n], e) /\ e.to = DesiredState(n)
          /\ Begins("loop", jobs + 1, << RowOf(n, After(Listed[n], e)) >>)
    /\ snap' = [snap EXCEPT !.rows = [m \in {} |-> NoRow]]
    /\ jobs' = jobs + 1
    /\ UNCHANGED <<written, up, now>>

EndTick ==
    /\ snap # NoTick /\ job["loop"] = NoJob
    /\ snap' = NoTick
    /\ UNCHANGED <<written, job, up, now, jobs>>

Crash ==
    /\ up # "down"
    /\ up' = "down"
    /\ job' = [p \in Processes |-> IF p = "setup" THEN job[p] ELSE NoJob]
    /\ snap' = NoTick
    /\ UNCHANGED <<written, now, jobs>>

\* A customer or partner fills in approved_by and moves the status on.
Approve(path) ==
    /\ path.dir = "maintenance" /\ file[path].says = "awaiting"
    /\ file' = [file EXCEPT ![path].says = "approved"]
    /\ approved' = approved \cup { <<path.name, path.at>> }
    /\ UNCHANGED <<row, events, incidents, alerts, job, snap, up, now, jobs, saved, asked>>

TimePasses ==
    /\ now < MaxTime
    /\ now' = now + 1
    /\ UNCHANGED <<written, job, snap, up, jobs>>

Next ==
    \/ \E p \in Processes :
          \/ SaveNode(p) \/ SaveEvent(p) \/ SaveIncident(p) \/ WriteAlert(p)
          \/ OpenFile(p) \/ CloseFile(p) \/ SeedPolicy(p) \/ Raise(p)
    \/ \E w \in Workers : Request(w)
    \/ \E op \in { "reconciler", "maintenance", "testing" } : BeginTick(op)
    \/ \E n \in Nodes : Visit(n) \/ Correct(n)
    \/ \E path \in DOMAIN file : Approve(path)
    \/ Correlate \/ Setup \/ Startup \/ Started \/ EndTick \/ Crash \/ TimePasses

Spec == Init /\ [][Next]_vars

-----------------------------------------------------------------------------
(***************************************************************************)
(* The trail tells no lies, wherever a chain of writes breaks off: an      *)
(* event is only there when the same request or visit has saved the row    *)
(* with the state that it names; an incident is only in a file when it is  *)
(* in its table (reconciler.py:85); and a cordon is only listed when the   *)
(* backend was asked for it before (day2_cordon, reconciler.py:137 and     *)
(* testing.py:195).  The converse does not hold, as what follows may fail. *)
(***************************************************************************)
TrailIsTrue ==
    /\ \A e \in events : [about |-> e.about, to |-> e.to, no |-> e.no] \in saved
    /\ \A i \in ListYaml("incidents") : i.about \in incidents
    /\ \A c \in ListYaml("cordons") :
          \E a \in asked : a.about = c.about /\ a.says = "day2_cordon"

(***************************************************************************)
(* An operation or maintenance request that was written out is displaced   *)
(* by nothing but a repetition of itself: whatever else is asked for in    *)
(* the same second or on the same day gets a file of its own (gitops.py:97 *)
(* and :200).  A crash in the middle of the repetition leaves it empty.    *)
(***************************************************************************)
RequestsAreKept ==
    \A a \in asked : \E p \in DOMAIN file :
        /\ p.dir = a.dir /\ p.at = a.at
        /\ \/ file[p] = Empty
           \/ /\ file[p].about = a.about
              /\ a.dir = "operation-requests" => file[p].says = a.says

(***************************************************************************)
(* An approval is not lost to a request of another day: as long as nobody  *)
(* asks for the same node on the same day again, its file says approved    *)
(* (write_maintenance_request, which the reconciler calls at every tick).  *)
(***************************************************************************)
ApprovalsOutliveTheDay ==
    \A n \in Nodes :
        Cardinality({ p \in DOMAIN file :
                        p.dir = "maintenance" /\ file[p] = [about |-> n, says |-> "approved"] })
        >= Cardinality({ a \in approved : a[1] = n })

(***************************************************************************)
(* A server that serves shows all its default policies, also when an       *)
(* earlier start was cut off while it wrote one (seed_default_policies).   *)
(***************************************************************************)
PoliciesArePresent == up = "up" => ShownPolicies = Policies

-----------------------------------------------------------------------------
(* What the pages must agree on *)

\* Whatever table a page can meet, it can meet at such a moment, as whoever is
\* writing may raise, and a page reads the table in one statement.
Idle == up = "up" /\ \A p \in Processes : job[p] = NoJob

\* Every page counts the same nodes: the capacity groups, the filtered lists, the
\* topology with its nodes of no zone or rack, the power page, which knows racks by
\* name alone, the NetBox racks, the tenants, the firmware matrix and the health page;
\* and a filter and its opposite split the incidents.
CountsMatch ==
    LET fleet == Listed
        size == Cardinality(DOMAIN fleet)
        capacity == Capacity(fleet)
        metrics == Metrics(fleet, capacity)
        summary == HealthSummary(fleet, capacity)
        tables == CliCapacity(fleet)
        racks == NetboxRacks(fleet)
        power == SumOf(PowerRacks(fleet))
        zones == TopologyZones(fleet)
        topology == Topology(fleet)
        matrix == FirmwareMatrix(fleet)
        Listing(state, az, type) ==
            Cardinality(DOMAIN CliStatus(fleet, NotGiven, state, az, type))
    IN  /\ summary = [field \in DOMAIN summary |-> metrics[field]]
        /\ tables.total = size
        /\ \A i \in 1..4 : SumFunction(tables.tables[i]) = size
        /\ metrics.total = size /\ topology["nodes"] = size /\ power["nodes"] = size
        /\ \A s \in DOMAIN capacity.by["state"] :
              capacity.by["state"][s] = Listing(s, NotGiven, NotGiven)
        /\ \A az \in DOMAIN capacity.by["az"] :
              /\ capacity.by["az"][az] = Listing(NotGiven, az, NotGiven)
              /\ capacity.by["az"][az] = zones[OrUnknown(az)]["nodes"]
        /\ \A t \in DOMAIN capacity.by["type"] :
              capacity.by["type"][t] = Listing(NotGiven, NotGiven, t)
        /\ DOMAIN matrix = DOMAIN capacity.by["sku"]
        /\ \A sku \in DOMAIN matrix : matrix[sku].count = capacity.by["sku"][sku]
        /\ topology["power"] = power["power"] /\ topology["gpus"] = power["gpus"]
        /\ UNION { CliRacks(fleet, NotGiven)[r] : r \in DOMAIN racks } = DOMAIN fleet
        /\ \A r \in DOMAIN racks : DOMAIN RackNodes(fleet, r) = racks[r]
        /\ UNION { DOMAIN TenantNodes(fleet, Inventory[n].tenant) : n \in Nodes } = DOMAIN fleet
        /\ metrics.gpuAvailable <= Listing("certified_ready", NotGiven, NotGiven)
        /\ ShownIncidents("true") \cap ShownIncidents("false") = {}
        /\ ShownIncidents("true") \cup ShownIncidents("false") = ShownIncidents(NotGiven)

\* Every part of a node that carries firmware has a version that the firmware pages
\* show, and every version that is not a driver's belongs to a part.
PartsMatch ==
    LET compliance == Compliance(Listed)
        matrix == FirmwareMatrix(Listed)
    IN  /\ \A n \in DOMAIN Listed :
              LET bom == NodeBom(n)
                  installed == { f \in FwFields : compliance[n][f] # "" }
              IN  /\ DOMAIN bom = installed \ DriverFields
                  /\ \A f \in DOMAIN bom : bom[f] \in matrix[Inventory[n].sku].versions[f]
        /\ \A sku \in Skus : PartFields(Platform(sku)) = Installed(sku) \ DriverFields

\* What the pages copy from a row is the same on all of them; and the list of desired
\* states tells the same as the file of each node.
ColumnsMatch ==
    LET devices == NetboxDevices(Listed)
        certified == Certifications(Listed)
        network == NetworkHealth(Listed)
        nodes == NodeList(Listed, NotGiven, NotGiven, NotGiven)
    IN  /\ DOMAIN devices = DOMAIN Listed /\ DOMAIN certified = DOMAIN Listed
        /\ \A n \in DOMAIN Listed :
              /\ NodePage(Listed, n) = [m \in { n } |-> nodes[n]]
              /\ devices[n].state = nodes[n].state /\ devices[n].owner = nodes[n].owner
              /\ { devices[n].health, certified[n].health }
                    \cup { network[m].health : m \in { n } \cap DOMAIN network }
                    = { nodes[n].health }
        /\ \A n \in Nodes : { d.says : d \in { x \in ListYaml("desired-state") : x.about = n } }
                               = { DesiredState(n) } \ { "" }

\* As many of the alerts as there may be, from the last one back
AreNewest(shown, limit) ==
    /\ Len(shown) = IF limit < Len(alerts) THEN limit ELSE Len(alerts)
    /\ \A i \in 1..Len(shown) : shown[i] = alerts[Len(alerts) + 1 - i]

\* No alert or event that is left out is newer than one that is shown.
NewestFirst ==
    /\ \A node \in Nodes \cup { NotGiven }, limit \in 0..MaxJobs :
        LET shown == RecentEvents(events, node, limit)
            others == EventsPage(events, node) \ shown
        IN  /\ Cardinality(shown) <= limit
            /\ others # {} => Cardinality(shown) = limit
            /\ \A e \in shown, d \in others : e.no > d.no
    /\ AreNewest(CliAlerts(alerts), 30)
    /\ \A limit \in 1..(MaxJobs + 1) : AreNewest(RecentAlerts(alerts, limit), limit)

(***************************************************************************)
(* All pages of a server that is idle tell of the same fleet, whatever is   *)
(* in its rows and also when it is seeded in part: what db.py:322 groups   *)
(* in SQL equals what api.py sums up over its lists; the parts list of a   *)
(* node (models.py:129) matches its firmware; and the alerts are shown     *)
(* newest first.                                                           *)
(***************************************************************************)
PagesAgree == Idle => CountsMatch /\ ColumnsMatch /\ PartsMatch /\ NewestFirst
=============================================================================
