----------------------------- MODULE FleetViews -----------------------------
(***************************************************************************)
(* What the controller shows of its fleet: the reading endpoints of api.py *)
(* and the reading commands of cli.py, as functions of the node table.     *)
(* `fleet' is the table as one db.list_nodes or one get_fleet_capacity     *)
(* sees it: its domain are the nodes that have a row, and fleet[n] is n's  *)
(* row.  What no code ever changes once a node has been entered is the     *)
(* constant Inventory.  Power is kept in tenths of a kilowatt; formatting, *)
(* sorting and the columns that are merely copied are left out.            *)
(***************************************************************************)
EXTENDS NodeLifecycle, FiniteSetsExt, SequencesExt

CONSTANTS
    Nodes,      \* node ids
    Inventory   \* Inventory[n]: where n is, what it is made of, and for whom

Platforms == { "DGX-H200", "DGX-B200", "DGX-A100", "CPU-Server" }

\* The SKUs of the fleet; the A100 nodes have one that is not their platform's name.
Skus == { "DGX-H200", "DGX-B200", "A100-80G", "CPU-Server" }

InventoryRecord == [
    az     : STRING,    rack : STRING,  tenant : STRING,
    sku    : Skus,      type : { "gpu", "cpu" },
    power  : Nat,       gpus : Nat,     ib : Nat ]

ASSUME ViewsAssumption ==
    /\ Inventory \in [Nodes -> InventoryRecord]
    /\ IsFiniteSet(Nodes)

\* A filter that is not given
NotGiven == "any"

\* What the topology calls the zone and the rack of a node without one
NoZone == "unknown"
NoRack == "unassigned"

\* No zone goes by one of these names; none does in mock_fleet.py.
ASSUME NamesAssumption == \A n \in Nodes : Inventory[n].az \notin { NotGiven, NoZone }

-----------------------------------------------------------------------------
(* Lists of nodes *)

\* db.list_nodes: each given filter is one more condition.
Filtered(fleet, state, az, type) ==
    { n \in DOMAIN fleet :
        /\ state \in { NotGiven, fleet[n].state }
        /\ az \in { NotGiven, Inventory[n].az }
        /\ type \in { NotGiven, Inventory[n].type } }

\* _node_to_dict, as far as it is not inventory
NodeView(fleet, n) ==
    [ state     |-> fleet[n].state,
      cordoned  |-> fleet[n].cordon.on,
      owner     |-> fleet[n].cordon.by,
      protected |-> fleet[n].protected,
      health    |-> fleet[n].health,
      tenant    |-> Inventory[n].tenant ]

\* GET /nodes
NodeList(fleet, state, az, type) ==
    [n \in Filtered(fleet, state, az, type) |-> NodeView(fleet, n)]

\* GET /nodes/{id}, which is empty where the node is not found
NodePage(fleet, node) == [n \in { node } \cap DOMAIN fleet |-> NodeView(fleet, n)]

\* `status' of the CLI: the node that is given, or the list
CliStatus(fleet, node, state, az, type) ==
    IF node = NotGiven THEN NodeList(fleet, state, az, type) ELSE NodePage(fleet, node)

\* GET /certifications, /health/network and /netbox/devices: columns of the rows, for
\* all nodes or for those with InfiniBand ports
Certifications(fleet) ==
    [n \in DOMAIN fleet |-> [type |-> Inventory[n].type, health |-> fleet[n].health]]

NetworkHealth(fleet) ==
    [n \in { m \in DOMAIN fleet : Inventory[m].ib > 0 } |->
        [state |-> fleet[n].state, health |-> fleet[n].health]]

NetboxDevices(fleet) ==
    [n \in DOMAIN fleet |->
        [ rack  |-> Inventory[n].rack,  tenant |-> Inventory[n].tenant,
          state |-> fleet[n].state,     health |-> fleet[n].health,
          owner |-> fleet[n].cordon.by ]]

\* GET /tenants/{id}/nodes
TenantNodes(fleet, tenant) ==
    [n \in { m \in DOMAIN fleet : Inventory[m].tenant = tenant } |-> NodeView(fleet, n)]

\* GET /racks/{id}/nodes
RackNodes(fleet, rack) ==
    [n \in { m \in DOMAIN fleet : Inventory[m].rack = rack } |-> NodeView(fleet, n)]

\* GET /netbox/racks: every node under its rack, if only under "".
NetboxRacks(fleet) ==
    [r \in { Inventory[n].rack : n \in DOMAIN fleet } |->
        { n \in DOMAIN fleet : Inventory[n].rack = r }]

\* `racks' of the CLI: with a filter that is given and not empty, that rack alone
CliRacks(fleet, filter) ==
    LET racks == NetboxRacks(fleet)
    IN  [r \in { q \in DOMAIN racks : filter \in { NotGiven, "", q } } |-> racks[r]]

-----------------------------------------------------------------------------
(* db.get_fleet_capacity: GROUP BY state, node_type, az, sku; then sums *)

GroupOf(fleet, n) ==
    [ state |-> fleet[n].state,     type |-> Inventory[n].type,
      az    |-> Inventory[n].az,    sku  |-> Inventory[n].sku ]

Details(fleet) ==
    { [group |-> g, count |-> Cardinality({ n \in DOMAIN fleet : GroupOf(fleet, n) = g })] :
        g \in { GroupOf(fleet, n) : n \in DOMAIN fleet } }

SumBy(details, column) ==
    [v \in { d.group[column] : d \in details } |->
        SumFunction([d \in { e \in details : e.group[column] = v } |-> d.count])]

\* Mutant: a group counts as one node
CapacityOfGroups(fleet) ==
    LET details == Details(fleet)
    IN  [ total |-> SumFunction([d \in details |-> d.count]),
          by    |-> [column \in { "state", "type", "az", "sku" } |->
                        [v \in { d.group[column] : d \in details } |->
                            Cardinality({ d \in details : d.group[column] = v })]] ]

Capacity(fleet) ==
    LET details == Details(fleet)
    IN  [ total |-> SumFunction([d \in details |-> d.count]),
          by    |-> [column \in { "state", "type", "az", "sku" } |->
                        SumBy(details, column)] ]

\* `capacity' of the CLI: the total, and one table after the other
CliCapacity(fleet) ==
    LET capacity == Capacity(fleet)
    IN  [ total  |-> capacity.total,
          tables |-> << capacity.by["state"], capacity.by["az"],
                        capacity.by["sku"], capacity.by["type"] >> ]

\* GET /health/summary: the scores of the list of nodes, next to a capacity that
\* is read apart
HealthSummary(fleet, capacity) ==
    [ total  |-> capacity.total,
      by     |-> capacity.by,
      health |-> SumFunction([n \in DOMAIN fleet |-> fleet[n].health]) ]

\* GET /metrics: as the health summary, with sums of its own
Metrics(fleet, capacity) ==
    [ total        |-> capacity.total,
      by           |-> capacity.by,
      cordoned     |-> Cardinality({ n \in DOMAIN fleet : fleet[n].cordon.on }),
      gpuAvailable |-> Cardinality(Filtered(fleet, "certified_ready", NotGiven, "gpu")),
      health       |-> SumFunction([n \in DOMAIN fleet |-> fleet[n].health]) ]

-----------------------------------------------------------------------------
(* GET /topology: region, availability zone, rack, nodes *)

Summary(fleet, nodes) ==
    [ nodes   |-> Cardinality(nodes),
      power   |-> SumFunction([n \in nodes |-> Inventory[n].power]),
      gpus    |-> SumFunction([n \in nodes |-> Inventory[n].gpus]),
      healthy |-> Cardinality({ n \in nodes : fleet[n].health >= 8 }) ]

SumOf(parts) ==
    [ field \in { "nodes", "power", "gpus", "healthy" } |->
        SumFunction([p \in DOMAIN parts |-> parts[p][field]]) ]

OrUnknown(az) == IF az = "" THEN NoZone ELSE az
OrUnassigned(rack) == IF rack = "" THEN NoRack ELSE rack

PlaceOf(n) == << OrUnknown(Inventory[n].az), OrUnassigned(Inventory[n].rack) >>

TopologyRacks(fleet) ==
    [p \in { PlaceOf(n) : n \in DOMAIN fleet } |->
        Summary(fleet, { n \in DOMAIN fleet : PlaceOf(n) = p })]

TopologyZones(fleet) ==
    LET racks == TopologyRacks(fleet)
    IN  [az \in { p[1] : p \in DOMAIN racks } |->
            SumOf([p \in { q \in DOMAIN racks : q[1] = az } |-> racks[p]])]

Topology(fleet) == SumOf(TopologyZones(fleet))

\* GET /power/summary: by the name of the rack alone
PowerRacks(fleet) ==
    LET racks == NetboxRacks(fleet)
    IN  [r \in DOMAIN racks |-> Summary(fleet, racks[r])]

-----------------------------------------------------------------------------
(* Firmware and parts *)

DriverFields == { "gpu_driver", "cuda", "ofed" }
GpuFields == { "gpu_vbios", "nvswitch_fw", "transceiver_fw", "hgx_fw" }
BoardFields == { "bios", "bmc", "cx_fw", "nvme_fw", "psu_fw" }
FwFields == DriverFields \cup GpuFields \cup BoardFields \cup { "bf_fw" }

\* FW_CPU, FW_B200, and FW_H200 or FW_A100: the fields that are not empty
Installed(sku) ==
    CASE sku = "CPU-Server" -> BoardFields \cup { "ofed" }
      [] sku = "DGX-B200"   -> FwFields
      [] OTHER              -> FwFields \ { "bf_fw" }

\* get_bom_template: the platform that a SKU contains the name of
Platform(sku) ==
    CASE sku = "DGX-H200" -> "DGX-H200"
      [] sku = "DGX-B200" -> "DGX-B200"
      [] sku = "A100-80G" -> "DGX-A100"
      [] OTHER            -> "CPU-Server"

\* A version is named after the SKU that it was seeded for.
Version(n, f) == IF f \in Installed(Inventory[n].sku) THEN Inventory[n].sku ELSE ""

\* The firmware fields of the components of a platform
PartFields(platform) ==
    CASE platform = "CPU-Server" -> BoardFields
      [] platform = "DGX-B200"   -> BoardFields \cup GpuFields \cup { "bf_fw" }
      [] OTHER                   -> BoardFields \cup GpuFields

\* GET /nodes/{id}/bom: every part that has firmware, with the node's version of it
NodeBom(n) ==
    [f \in PartFields(Platform(Inventory[n].sku)) |-> Version(n, f)]

\* GET /firmware/compliance
Compliance(fleet) == [n \in DOMAIN fleet |-> [f \in FwFields |-> Version(n, f)]]

\* GET /firmware/matrix: for each SKU, how many nodes, and the versions they have
FirmwareMatrix(fleet) ==
    [sku \in { Inventory[n].sku : n \in DOMAIN fleet } |->
        LET these == { n \in DOMAIN fleet : Inventory[n].sku = sku }
        IN  [ count    |-> Cardinality(these),
              versions |-> [f \in FwFields |->
                               { Version(n, f) : n \in these } \ { "" }] ]]

-----------------------------------------------------------------------------
(* Events, alerts and incidents *)

\* db.list_events: ORDER BY timestamp DESC LIMIT; the events of one request or visit
\* have its time, and there is one of them at most.
RecentEvents(events, node, limit) ==
    LET these == { e \in events : node \in { NotGiven, e.about } }
    IN  { e \in these : Cardinality({ d \in these : d.no > e.no }) < limit }

\* GET /events, which shows 50 when it is not told otherwise
EventsPage(events, node) == RecentEvents(events, node, 50)

\* get_recent_alerts: lines[-limit:], the last one first; lines[0:] for 0
RecentAlerts(lines, limit) ==
    LET first == IF limit = 0 \/ limit > Len(lines) THEN 1 ELSE Len(lines) - limit + 1
    IN  Reverse(SubSeq(lines, first, Len(lines)))

\* `alerts' of the CLI
CliAlerts(lines) == RecentAlerts(lines, 30)

\* GET /incidents: five fixed ones, of which one is not resolved; what the
\* controller saves in the incidents table is not among them.
ShownIncidents(resolved) ==
    LET open == { "INC-2026-0312" }
        closed == { "INC-2026-0310", "INC-2026-0308", "INC-2026-0305", "INC-2026-0301" }
    IN  CASE resolved = "true"  -> closed
          [] resolved = "false" -> open
          [] OTHER              -> open \cup closed
=============================================================================
