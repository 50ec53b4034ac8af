SPECIFICATION FairSpec
CONSTANTS
  n1 = n1
  n2 = n2
  n3 = n3
  w1 = w1
  Nodes = {n1, n2, n3}
  RackOf <- OneRack
  SwitchOf <- OneSwitch
  PduOf <- TwoPdus
  Window = 1
  Bmaas = {}
  Workers = {w1}
  Faults = {"psu_fail"}
  Moved = {n3}
  Seeds = {5}
  MaxFaults = 3
  Idle = Idle
INVARIANT TypeOK
INVARIANT OneLoop
INVARIANT IncidentsAreReal
PROPERTY FaultsAreAlerted
PROPERTY OutageIsReported
