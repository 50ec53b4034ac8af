SPECIFICATION Spec
CONSTANTS
  Callers = {}
  Nodes = {"b200", "cpu", "spare"}
  Inventory <- Fleet
  Seed <- Seeded
  Bmaas = {"b200"}
  Workers = {"w1"}
  ClientTriggers = {"repair_start"}
  Visits = {"timeout", "repair", "schedule", "pass", "fail", "critical"}
  SecondsPerDay = 1
  IncidentIds = {"INC-1"}
  MaxTime = 1
  MaxJobs = 2
  NoRow = NoRow
INVARIANT TypeOK
INVARIANT TrailIsTrue
INVARIANT RequestsAreKept
INVARIANT ApprovalsOutliveTheDay
INVARIANT PoliciesArePresent
 
