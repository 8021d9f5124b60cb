---------------------------- MODULE MCAlertResponse ----------------------------
(***************************************************************************)
(* AlertResponse for TLC: the orchestrator has two actions for the alert   *)
(* of a critical file (a log line and a webhook) and none for others, the  *)
(* exporter one (the webhook it is configured with) for every alert.       *)
(***************************************************************************)
EXTENDS AlertResponse

CONSTANTS soar, siem, f1

ActionsOf ==
  [s \in Services |-> [f \in Files |->
     IF s = siem THEN 1 ELSE IF f = f1 THEN 2 ELSE 0]]
=============================================================================
