-------------------------- MODULE MCFaultReporting --------------------------
EXTENDS FaultReporting

CONSTANTS n1, n2, n3, w1

OneRack == [n \in Nodes |-> "rack-C01"]
OneSwitch == [n \in Nodes |-> "leaf-sw-C01"]
TwoPdus == [n \in Nodes |-> IF n = n3 THEN "" ELSE "pdu-C01"]
=============================================================================
