\* Two fetches in flight, two messages, two changes of the fleet: what it takes
\* for an answer to be late, a message to be skipped, and a row to be stale.
CONSTANTS
  MaxEvents = 2
  MaxMessages = 2
  MaxIds = 3
  EdgeAgents = {"a1"}
  MaxPolls = 2
  MaxChanges = 2
  Ranges = {"1h", "24h"}
  DefaultRange = "24h"
  ViewerLogs = {"l1", "l2"}
  MatchingLogs = {"l1"}
  MaxReads = 2
  Scanned <- MCScanned
  Found = {"n1", "asset-02"}
  Agents <- MCAgents
  Counts = {0, 2}
  SidebarTabs = {"dashboard", "network"}
  CommandsFor <- MCCommandsFor
  Users = {"u1"}
  ActiveKeys = {"k1"}
  Duration = 1
  MaxClock = 2
  MaxToasts = 2
SPECIFICATION MonitorSpec
INVARIANTS
  MonitorTypeOK
  FeedIsTheStream
  FleetIsShown
  RowsOfTheRange
  CountersAreOfTheRows
  PanelsHaveOneSource
  ToastsHaveTheirTime
\* A panel that has loaded does nothing more.
CHECK_DEADLOCK FALSE
