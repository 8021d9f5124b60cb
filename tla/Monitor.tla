-------------------------------- MODULE Monitor --------------------------------
(***************************************************************************)
(* The pages of the web UI that watch: the live feed, the fleet of edge    *)
(* agents, the logs, the inventory, the analysis panels, and the shell     *)
(* around all pages.  As in Console, they share no state, and a behaviour  *)
(* is that of one part.                                                    *)
(***************************************************************************)
EXTENDS LiveFeed, EdgeManagement, LogViewer, Inventory, AnalysisPanels, Shell

VARIABLE page \* the part whose behaviour this is

monitorVars ==
  <<page, liveFeedVars, edgeVars, logViewerVars, inventoryVars, analysisPanelsVars,
    shellVars>>

Pages == {"live feed", "edge management", "log viewer", "inventory", "analysis panels",
          "shell"}

MonitorInit ==
  /\ page \in Pages
  /\ LiveFeedInit /\ EdgeManagementInit /\ LogViewerInit /\ InventoryInit
  /\ AnalysisPanelsInit /\ ShellInit
  /\ page # "edge management" => DOMAIN fleet.agents = {}
  /\ page # "analysis panels" => panel.name = "files"
  /\ page # "shell" => dashboard.activeTab = "dashboard"

Others(vars) == UNCHANGED <<page, vars>>

MonitorNext ==
  \/ page = "live feed" /\ LiveFeedNext
       /\ Others(<<edgeVars, logViewerVars, inventoryVars,
                   analysisPanelsVars, shellVars>>)
  \/ page = "edge management" /\ EdgeManagementNext
       /\ Others(<<liveFeedVars, logViewerVars, inventoryVars,
                   analysisPanelsVars, shellVars>>)
  \/ page = "log viewer" /\ LogViewerNext
       /\ Others(<<liveFeedVars, edgeVars, inventoryVars,
                   analysisPanelsVars, shellVars>>)
  \/ page = "inventory" /\ InventoryNext
       /\ Others(<<liveFeedVars, edgeVars, logViewerVars,
                   analysisPanelsVars, shellVars>>)
  \/ page = "analysis panels" /\ AnalysisPanelsNext
       /\ Others(<<liveFeedVars, edgeVars, logViewerVars,
                   inventoryVars, shellVars>>)
  \/ page = "shell" /\ ShellNext
       /\ Others(<<liveFeedVars, edgeVars, logViewerVars,
                   inventoryVars, analysisPanelsVars>>)

MonitorSpec == MonitorInit /\ [][MonitorNext]_monitorVars

-----------------------------------------------------------------------------
(* Properties.                                                             *)

\* Every variable of the parts has its type.
MonitorTypeOK ==
  /\ LiveFeedTypeOK /\ EdgeManagementTypeOK /\ LogViewerTypeOK /\ InventoryTypeOK
  /\ AnalysisPanelsTypeOK /\ ShellTypeOK
=============================================================================
