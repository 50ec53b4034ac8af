SPECIFICATION FairSpec
CONSTANTS
  n1 = n1
  n2 = n2
  n3 = n3
  n4 = n4
  n5 = n5
  Callers = {"ops"}
  Nodes = {n1, n2}
  Bmaas = {n2}
  Rack <- OneRack
  Seeds = {"repair"}
  Clients = {c1}
  Cli = {}
  ClientRequests = {"transition", "cordon", "uncordon"}
  ClientTriggers = {"repair_complete", "rma_needed"}
  ClientPriorities = {3}
  Commits = {}
  Operators = {"reconciler"}
  Overlap = TRUE
  Failures = FALSE
  NoRow = NoRow
PROPERTY CriticalIsNoticed
