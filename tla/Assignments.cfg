SPECIFICATION Spec
CONSTANTS
  a1 = a1
  a2 = a2
  n1 = n1
  Assignments = {a1, a2}
  Machines = {n1}
  ReadinessMap = ReadinessMap
  Tenant <- TenantOf
  Uses <- Swaps
  MaxRestarts = 1
CHECK_DEADLOCK FALSE
INVARIANT TypeOK
 
PROPERTY TouchesOnlyItsOwn
