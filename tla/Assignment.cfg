SPECIFICATION FairSpec
CONSTANTS
  a1 = a1
  a2 = a2
  n1 = n1
  Assignments = {a1}
  Machines = {n1}
  ReadinessMap = ReadinessMap
  Tenant <- TenantOf
  Uses <- Everything
  MaxRestarts = 1
CHECK_DEADLOCK FALSE
PROPERTY DeletionCompletes
PROPERTY WaitingEnds
PROPERTY EditsAreServed
PROPERTY KeepsAssignments
