---------------------------- MODULE EventDelivery ----------------------------
(***************************************************************************)
(* What the edge agent promises of the events handed to POST /ingest       *)
(* (services/rust-edge-agent): an event answered 202 is held in the local  *)
(* buffer, or is in Kafka, or was dropped from a buffer over its size      *)
(* limit, and what reached Kafka stays there.  There is no promise of      *)
(* exactly one delivery, of order between events, or that an event         *)
(* answered with an error is not delivered.                                *)
(***************************************************************************)
CONSTANT Events

VARIABLES
  status,  \* where each event is
  acked    \* the events answered 202 Accepted

vars == <<status, acked>>

Status == {"new", "held", "delivered", "dropped"}

Init ==
  /\ status = [e \in Events |-> "new"]
  /\ acked = {}

\* The event is stored locally before it is acknowledged; one that an earlier
\* attempt already delivered stays delivered.
AcceptHeld(e) ==
  /\ e \notin acked
  /\ status' = [status EXCEPT ![e] = IF @ = "delivered" THEN @ ELSE "held"]
  /\ acked' = acked \union {e}

AcceptDelivered(e) ==
  /\ e \notin acked
  /\ status' = [status EXCEPT ![e] = "delivered"]
  /\ acked' = acked \union {e}

\* Events reach Kafka: held ones, ones whose answer was lost or an error, and
\* ones dropped from the buffer after the forwarder had read them.
Deliver(D) ==
  /\ status' = [e \in Events |-> IF e \in D THEN "delivered" ELSE status[e]]
  /\ UNCHANGED acked

Drop(S) ==
  /\ status' = [e \in Events |-> IF e \in S /\ status[e] = "held" THEN "dropped" ELSE status[e]]
  /\ UNCHANGED acked

Next ==
  \/ \E e \in Events : AcceptHeld(e) \/ AcceptDelivered(e)
  \/ \E E \in SUBSET Events : Deliver(E) \/ Drop(E)

Spec == Init /\ [][Next]_vars
=============================================================================
