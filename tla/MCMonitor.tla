-------------------------------- MODULE MCMonitor --------------------------------
(* A small instance of Monitor: assets whose scores meet every branch of their  *)
(* computation, of a type the page knows and of one it does not.               *)
EXTENDS Monitor, TLC

MCScanned ==
  {[id |-> "n1", asset_type |-> "endpoint", criticality |-> "critical", open_ports |-> 11],
   [id |-> "n2", asset_type |-> "server", criticality |-> "high", open_ports |-> 6],
   [id |-> "n3", asset_type |-> "camera", criticality |-> "medium", open_ports |-> 0],
   [id |-> "n4", asset_type |-> "iot", criticality |-> "low", open_ports |-> 1]}

\* Of two commands a query finds both, one, or none.
MCCommandsFor ==
  "" :> <<"overview", "network">> @@ "net" :> <<"network">> @@ "zz" :> << >>

MCAgents == {[id |-> "a1", status |-> "online"], [id |-> "a2", status |-> "degraded"]}
=============================================================================
