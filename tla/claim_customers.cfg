SPECIFICATION Spec
CONSTANTS
  n1 = n1
  n2 = n2
  n3 = n3
  n4 = n4
  n5 = n5
  Callers = {"ops"}
  Nodes = {n1}
  Bmaas = {}
  Rack <- OneRack
  Seeds = {"customer_assigned"}
  Clients = {c1}
  Cli = {}
  ClientRequests = {"transition", "inject"}
  ClientTriggers = {"customer_assign", "emergency_hw", "drain_complete", "repair_complete", "l1_pass"}
  ClientPriorities = {3}
  Commits = {}
  Operators = {"reconciler"}
  Overlap = FALSE
  Failures = FALSE
  NoRow = NoRow
PROPERTY HealthyCustomersLeftAlone
