SPECIFICATION FairSpec
CONSTANTS
  n1 = n1
  n2 = n2
  n3 = n3
  n4 = n4
  n5 = n5
  Callers = {"ops"}
  Nodes = {n1}
  Bmaas = {}
  Rack <- OneRack
  Seeds = {"certified_ready", "provisioning"}
  Clients = {c1}
  Cli = {}
  ClientRequests = {"transition"}
  ClientTriggers <- AllTriggers
  ClientPriorities = {3}
  Commits = {}
  Operators = {"reconciler", "maintenance", "testing"}
  Overlap = TRUE
  Failures = FALSE
  NoRow = NoRow
PROPERTY TimeoutsBite
