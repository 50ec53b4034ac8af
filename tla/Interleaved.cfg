SPECIFICATION Spec
CONSTANTS
  n1 = n1
  n2 = n2
  n3 = n3
  n4 = n4
  n5 = n5
  Callers = {"ops"}
  Nodes = {n1}
  Bmaas = {}
  Rack <- OneRack
  Seeds = {"certified_ready"}
  Clients = {c1}
  Cli = {}
  ClientRequests = {"transition", "cordon", "uncordon", "inject"}
  ClientTriggers <- WithoutRma
  ClientPriorities = {1}
  Commits = {}
  Operators = {"reconciler", "maintenance", "testing"}
  Overlap = TRUE
  Failures = TRUE
  NoRow = NoRow
INVARIANT TypeOK
INVARIANT ProtectionMatchesState
 
PROPERTY AssignedLeavesByEmergency
PROPERTY DecommissionedStays
PROPERTY RetiredOnlyByClients
PROPERTY CordonWeakenedOnlyByRepairStart
