SPECIFICATION Spec
CONSTANTS
  n1 = n1
  n2 = n2
  n3 = n3
  n4 = n4
  n5 = n5
  Callers = {"ops"}
  Nodes = {n1, n2}
  Bmaas = {n2}
  Rack <- OneRack
  Seeds = {"repair", "certified_ready"}
  Clients = {c1, c2}
  Cli = {c2}
  ClientRequests = {"transition"}
  ClientTriggers = {"customer_assign", "emergency_hw", "repair_complete"}
  ClientPriorities = {3}
  Commits = {"draining"}
  Operators = {"reconciler", "maintenance", "testing"}
  Overlap = FALSE
  Failures = TRUE
  NoRow = NoRow
INVARIANT NoStaleCopies
PROPERTY KeepsPromise
