SPECIFICATION FairSpec
CONSTANTS
  n1 = n1
  c1 = c1
  c2 = c2
  Nodes = {n1}
  Callers = {c1, c2}
  MaxCalls = 3
  Idle = Idle
CHECK_DEADLOCK FALSE
INVARIANT TypeOK
 
INVARIANT PowerIsAccounted
PROPERTY EveryCallReturns
PROPERTY KeepsContract
