--------------------------- MODULE MCFleetRecords ---------------------------
EXTENDS FleetRecords

GpuRecord == [ az |-> "kr1a", rack |-> "rack-B01", tenant |-> "tenant-A",
               sku |-> "DGX-B200", type |-> "gpu", power |-> 143, gpus |-> 8, ib |-> 8 ]

CpuRecord == [ az |-> "kr1b", rack |-> "rack-B01", tenant |-> "",
               sku |-> "CPU-Server", type |-> "cpu", power |-> 0, gpus |-> 0, ib |-> 0 ]

\* One more of the same kind, that nobody has entered a rack for
SpareRecord == [GpuRecord EXCEPT !.rack = "", !.tenant = ""]

Fleet == "b200" :> GpuRecord @@ "cpu" :> CpuRecord @@ "spare" :> SpareRecord

SeedOf(state, health) == CHOOSE r \in SeedRows(state) : r.health = health

Seeded == "b200" :> SeedOf("repair", 3) @@ "cpu" :> SeedOf("provisioning", 5)
          @@ "spare" :> SeedOf("testing", 10)
=============================================================================
