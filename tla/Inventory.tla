-------------------------------- MODULE Inventory --------------------------------
(***************************************************************************)
(* The tables of assets and of sensors, ui/src/components/                 *)
(* AssetDiscovery.tsx and SensorManagement.tsx.  Each reads once, when it  *)
(* mounts, and shows placeholder rows when nothing usable came.            *)
(***************************************************************************)
EXTENDS Naturals, FiniteSets, FiniteSetsExt

CONSTANTS
  Scanned,  \* what the asset service may know: [id, asset_type, criticality, open_ports]
  Found,    \* the assets whose address or name has the search text
  Agents,   \* what the coordinator may know: [id, status]
  Counts    \* counts its statistics may have

ASSUME InventoryAssumption ==
  /\ Scanned \subseteq [id : STRING, asset_type : STRING, criticality : STRING, open_ports : Nat]
  /\ IsFiniteSet(Scanned)
  /\ Agents \subseteq [id : STRING, status : STRING]
  /\ Counts \subseteq Nat

VARIABLES
  assets,  \* the state of AssetDiscovery
  sensors  \* and of SensorManagement

inventoryVars == <<assets, sensors>>

AssetTypes == {"workstation", "server", "laptop", "mobile", "iot", "printer", "network"}
\* Mutant: a type the page does not know is kept.
mapAssetTypeAsIs(type) == IF type = "endpoint" THEN "workstation" ELSE type

mapAssetType(type) ==
  IF type = "endpoint" \/ type \notin AssetTypes THEN "workstation" ELSE type

calculateRiskScore(asset) ==
  LET weight == [high |-> 40, medium |-> 25, critical |-> 60]
      ports == asset.open_ports IN
  Min({100, (IF asset.criticality \in DOMAIN weight THEN weight[asset.criticality] ELSE 0)
            + (IF ports > 10 THEN 30 ELSE IF ports > 5 THEN 15 ELSE IF ports > 0 THEN 5 ELSE 0)})

Transformed(asset) ==
  [id |-> asset.id, type |-> mapAssetType(asset.asset_type),
   riskScore |-> calculateRiskScore(asset)]

MockAssets ==
  {[id |-> "asset-01", type |-> "workstation", riskScore |-> 15],
   [id |-> "asset-02", type |-> "server", riskScore |-> 5],
   [id |-> "asset-03", type |-> "laptop", riskScore |-> 45],
   [id |-> "asset-04", type |-> "iot", riskScore |-> 85],
   [id |-> "asset-05", type |-> "network", riskScore |-> 0]}

HighRisk(rows) == Cardinality({a \in rows : a.riskScore >= 50})

RiskBadge(score) ==
  IF score >= 75 THEN "Critical" ELSE IF score >= 50 THEN "High"
  ELSE IF score >= 25 THEN "Medium" ELSE "Low"

\* a || b
Or(a, b) == IF a # 0 THEN a ELSE b

NoStats == [total |-> 0, new24h |-> 0, highRisk |-> 0]

AssetsInit ==
  assets = [rows |-> {}, stats |-> NoStats, counted |-> NoStats, loading |-> TRUE,
            selected |-> {}, filter |-> "all", searchTerm |-> ""]

\* Both answers are awaited.  Without statistics, the page's own are taken; and a
\* zero in them is taken for a figure that is missing.
AssetsArrive ==
  /\ assets.loading
  /\ \E raw \in SUBSET Scanned, counted \in {NoStats} \union [total : Counts, new24h : Counts,
                                                             highRisk : Counts] :
       LET rows == {Transformed(a) : a \in raw} IN
       assets' = [assets EXCEPT !.loading = FALSE, !.rows = rows, !.counted = counted,
         !.stats = [total |-> Or(counted.total, Cardinality(rows)), new24h |-> counted.new24h,
                    highRisk |-> Or(counted.highRisk, HighRisk(rows))]]

\* Mutant: the placeholders are shown under the counters of before.
AssetsFailUncounted ==
  /\ assets.loading
  /\ assets' = [assets EXCEPT !.loading = FALSE, !.rows = MockAssets]

\* The fetch fails, or what came has no assets.
AssetsFail ==
  /\ assets.loading
  /\ assets' = [assets EXCEPT !.loading = FALSE, !.rows = MockAssets,
       !.stats = [total |-> Cardinality(MockAssets), new24h |-> 3,
                  highRisk |-> HighRisk(MockAssets)]]

FilteredAssets ==
  {a \in assets.rows : /\ assets.searchTerm = "" \/ a.id \in Found
                       /\ assets.filter \in {"all", a.type}}

SearchAssets(term) ==
  /\ ~assets.loading /\ term # assets.searchTerm
  /\ assets' = [assets EXCEPT !.searchTerm = term]

FilterAssets(filter) ==
  /\ ~assets.loading /\ filter # assets.filter
  /\ assets' = [assets EXCEPT !.filter = filter]

SelectAsset(a) ==
  /\ ~assets.loading /\ a \in FilteredAssets
  /\ assets' = [assets EXCEPT !.selected = {a}]

CloseAsset == assets.selected # {} /\ assets' = [assets EXCEPT !.selected = {}]

-----------------------------------------------------------------------------

MockSensors ==
  {[id |-> "sensor-01", status |-> "online"], [id |-> "sensor-02", status |-> "online"],
   [id |-> "sensor-03", status |-> "warning"], [id |-> "sensor-04", status |-> "offline"],
   [id |-> "sensor-05", status |-> "online"]}

SensorsInit == sensors = [rows |-> {}, loading |-> TRUE, selected |-> {}]

SensorsShown(rows, selected) ==
  sensors' = [rows |-> rows, loading |-> FALSE, selected |-> selected]

\* The coordinator's agents, the first of them selected.
AgentsListed ==
  /\ sensors.loading
  /\ \E rows \in SUBSET Agents :
       \/ rows = {} /\ SensorsShown({}, {})
       \/ \E first \in rows : SensorsShown(rows, {first})

\* The older form of the answer; none is selected.
SensorsListed == sensors.loading /\ \E rows \in SUBSET Agents : SensorsShown(rows, {})

SensorsFail ==
  /\ sensors.loading
  /\ SensorsShown(MockSensors, {[id |-> "sensor-01", status |-> "online"]})

SelectSensor(s) ==
  /\ ~sensors.loading /\ s \in sensors.rows
  /\ sensors' = [sensors EXCEPT !.selected = {s}]

-----------------------------------------------------------------------------

InventoryInit == AssetsInit /\ SensorsInit

AssetsNext ==
  \/ AssetsArrive \/ AssetsFail \/ CloseAsset
  \/ \E term \in {"", "text"} : SearchAssets(term)
  \/ \E filter \in {"all", "server", "workstation", "iot"} : FilterAssets(filter)
  \/ \E a \in assets.rows : SelectAsset(a)

SensorsNext ==
  \/ AgentsListed \/ SensorsListed \/ SensorsFail
  \/ \E s \in sensors.rows : SelectSensor(s)

InventoryNext ==
  \/ AssetsNext /\ UNCHANGED sensors
  \/ SensorsNext /\ UNCHANGED assets

InventorySpec == InventoryInit /\ [][InventoryNext]_inventoryVars

-----------------------------------------------------------------------------
(* Properties.                                                             *)

AssetRows ==
  [id : {a.id : a \in Scanned \union MockAssets}, type : AssetTypes, riskScore : 0..100]

InventoryTypeOK ==
  /\ assets.rows \subseteq AssetRows
  /\ assets.stats \in [total : Nat, new24h : Nat, highRisk : Nat]
  /\ assets.loading \in BOOLEAN
  /\ sensors.rows \subseteq Agents \union MockSensors
  /\ sensors.loading \in BOOLEAN

\* The counters over the table are those of its rows, the high-risk one that of
\* the rows with a High or Critical badge, unless the service counted
\* otherwise; and details are those of a row, were it filtered out.
CountersAreOfTheRows ==
  /\ ~assets.loading =>
       /\ assets.stats.total \in {Cardinality(assets.rows), assets.counted.total}
       /\ assets.stats.highRisk \in
            {Cardinality({a \in assets.rows : RiskBadge(a.riskScore) \in {"High", "Critical"}}),
             assets.counted.highRisk}
       /\ assets.counted.highRisk = 0 =>
            (assets.stats.highRisk > 0 <=>
               \E a \in assets.rows : RiskBadge(a.riskScore) \in {"High", "Critical"})
  /\ assets.selected \subseteq assets.rows
  /\ sensors.selected \subseteq sensors.rows
=============================================================================
