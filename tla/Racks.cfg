SPECIFICATION Spec
CONSTANTS
  n1 = n1
  n2 = n2
  n3 = n3
  n4 = n4
  n5 = n5
  Callers = {"ops"}
  Nodes = {n1, n2, n3, n4, n5}
  Bmaas = {}
  Rack <- TwoRacks
  Seeds = {"scheduled_maintenance", "burn_in"}
  Clients = {c1}
  Cli = {}
  ClientRequests = {"transition"}
  ClientTriggers = {"repair_complete"}
  ClientPriorities = {3}
  Commits = {}
  Operators = {"maintenance"}
  Overlap = FALSE
  Failures = FALSE
  NoRow = NoRow
PROPERTY RackLimit
