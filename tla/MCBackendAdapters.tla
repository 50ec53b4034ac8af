------------------------- MODULE MCBackendAdapters -------------------------
EXTENDS BackendAdapters, TLC

CONSTANTS n1, c1, c2
=============================================================================
