--------------------------- MODULE EdgeAgentProofs ---------------------------
(***************************************************************************)
(* Theorems about EdgeAgent for any finite set of events, any priorities,  *)
(* buffer limit, batch sizes and any number of restarts.                   *)
(***************************************************************************)
EXTENDS EdgeAgent, TLAPS

\* What ties rows, batch and Kafka to the requests they come from.
ProvenanceInv ==
  /\ \A e \in buffered \union batch \union forwarded \union drained : handler[e] = "buffered"
  /\ \A e \in kafka : handler[e] \in Acked \/ e \in uncertain
  /\ forwarded \subseteq kafka

\* a was written in an earlier second than b and does not rank below it.
Earlier(a, b) == priority[a] >= priority[b] /\ created_at[a] < created_at[b]

\* The batch is cut from the front of the buffer, sent from its front, and
\* deleted only when it was sent.
OrderInv ==
  \A a \in buffered, b \in Events : Earlier(a, b) =>
    /\ b \in batch => a \in batch \union forwarded
    /\ b \in forwarded => a \in forwarded
    /\ b \in drained => a \in drained

LEMMA PoppedRows ==
  ASSUME NEW n, NEW Precedes(_, _), NEW S \in FirstRows(n, Precedes)
  PROVE  /\ S \subseteq buffered
         /\ \A a \in S, b \in buffered \ S : ~Precedes(b, a)
BY DEF FirstRows

LEMMA HeadRows == Heads \subseteq batch /\ \A a \in Heads, b \in batch : ~Before(b, a)
BY DEF Heads

\* The type invariant of the agent: among others, the forwarder task holds no
\* batch and no ids while it sleeps.
THEOREM TypeCorrect == Spec => []TypeOK
<1> USE AgentAssumption DEF HandlerStates, Handling, Acked
<1>1. Init => TypeOK
  <2> SUFFICES ASSUME Init PROVE TypeOK
    OBVIOUS
  <2>1. created_at \in [Events -> 0 .. now]
    BY DEF Init
  <2>2. is_online \in BOOLEAN
    BY DEF Init
  <2> QED
    BY <2>1, <2>2 DEF Init, TypeOK
<1>2. TypeOK /\ [Next]_vars => TypeOK'
  <2> SUFFICES ASSUME TypeOK, [Next]_vars PROVE TypeOK'
    OBVIOUS
  <2> USE DEF TypeOK, Answer, request, table, drain, network, history
  <2>1. ASSUME NEW e \in Events, Ingest(e) PROVE TypeOK'
    BY <2>1 DEF Ingest
  <2>2. ASSUME NEW e \in Events, ForwardOk(e) \/ ForwardErr(e) \/ Disconnect(e) PROVE TypeOK'
    BY <2>2 DEF ForwardOk, ForwardErr, Disconnect
  <2>3. ASSUME NEW e \in Events, CheckSize(e) \/ PushFails(e) PROVE TypeOK'
    BY <2>3 DEF CheckSize, PushFails
  <2>4. ASSUME NEW e \in Events, Evict(e) PROVE TypeOK'
    BY <2>4 DEF Evict, FirstRows
  <2>5. ASSUME NEW e \in Events, Insert(e) PROVE TypeOK'
    BY <2>5 DEF Insert
  <2>6. CASE TaskPop
    BY <2>6 DEF TaskPop, FirstRows
  <2>7. CASE TaskPopFails
    BY <2>7 DEF TaskPopFails
  <2>8. CASE TaskRemove
    BY <2>8 DEF TaskRemove
  <2>9. CASE TaskRemoveFails
    BY <2>9 DEF TaskRemoveFails
  <2>10. CASE TaskForwardOk
    BY <2>10, HeadRows DEF TaskForwardOk
  <2>11. CASE TaskForwardFails
    <3>1. task # "idle"
      BY <2>11, HeadRows DEF TaskForwardFails
    <3>2. breaker_open' \in BOOLEAN
      BY <2>11 DEF TaskForwardFails
    <3>3. kafka' \subseteq Events /\ uncertain' \subseteq Events
      BY <2>11, HeadRows DEF TaskForwardFails
    <3> QED
      BY <2>11, <3>1, <3>2, <3>3 DEF TaskForwardFails
  <2>12. ASSUME NEW n \in BatchSizes, UpdatePolicy(n) PROVE TypeOK'
    BY <2>12 DEF UpdatePolicy
  <2>13. CASE Heartbeat \/ BreakerResets \/ Tick \/ Network
    <3>1. CASE Heartbeat
      <4>1. is_online' \in BOOLEAN
        BY <3>1 DEF Heartbeat
      <4> QED
        BY <3>1, <4>1 DEF Heartbeat
    <3>2. CASE BreakerResets
      BY <3>2 DEF BreakerResets
    <3>3. CASE Tick
      <4>1. created_at' \in [Events -> 0 .. now']
        BY <3>3 DEF Tick
      <4> QED
        BY <3>3, <4>1 DEF Tick
    <3>4. CASE Network
      <4>1. kafka_up' \in BOOLEAN /\ coordinator_up' \in BOOLEAN
        BY <3>4 DEF Network
      <4> QED
        BY <3>4, <4>1 DEF Network
    <3> QED
      BY <2>13, <3>1, <3>2, <3>3, <3>4
  <2>14. CASE Restart
    <3>1. is_online' \in BOOLEAN /\ registered' \in BOOLEAN
      BY <2>14 DEF Restart
    <3>2. kafka' \subseteq Events /\ uncertain' \subseteq Events
      BY <2>14, HeadRows DEF Restart
    <3>3. handler' \in [Events -> HandlerStates]
      BY <2>14 DEF Restart
    <3>4. /\ task' = "idle" /\ batch' = {} /\ forwarded' = {}
          /\ batch_size' = DefaultBatch /\ breaker_open' = FALSE
          /\ crashes' = crashes + 1
          /\ UNCHANGED <<priority, created_at, table, now, kafka_up, coordinator_up,
                         evicted, drained>>
      BY <2>14 DEF Restart
    <3>5. kafka_up' \in BOOLEAN /\ coordinator_up' \in BOOLEAN /\ breaker_open' \in BOOLEAN
      BY <3>4
    <3>6. crashes' \in Nat /\ batch_size' \in BatchSizes
      BY <3>4
    <3>7. /\ priority' \in [Events -> Priorities] /\ created_at' \in [Events -> 0 .. now']
          /\ now' \in Nat
      BY <3>4
    <3>8. /\ buffered' \subseteq Events /\ file_rows' \in Nat
          /\ evicted' \subseteq Events /\ drained' \subseteq Events
      BY <3>4
    <3> QED
      BY <3>1, <3>2, <3>3, <3>4, <3>5, <3>6, <3>7, <3>8
  <2>15. CASE UNCHANGED vars
    BY <2>15 DEF vars
  <2> QED
    BY <2>1, <2>2, <2>3, <2>4, <2>5, <2>6, <2>7, <2>8, <2>9, <2>10, <2>11, <2>12, <2>13,
       <2>14, <2>15
       DEF Next, Handle, TaskForward
<1> QED
  BY <1>1, <1>2, PTL DEF Spec

LEMMA Provenance == Spec => []ProvenanceInv
<1> USE DEF Handling, Acked
<1>1. Init => ProvenanceInv
  BY DEF Init, ProvenanceInv
<1>2. TypeOK /\ ProvenanceInv /\ [Next]_vars => ProvenanceInv'
  <2> SUFFICES ASSUME TypeOK, ProvenanceInv, [Next]_vars PROVE ProvenanceInv'
    OBVIOUS
  <2> USE DEF TypeOK, ProvenanceInv, Answer, request, table, drain, network, history
  <2>1. ASSUME NEW e \in Events, Ingest(e) PROVE ProvenanceInv'
    BY <2>1 DEF Ingest
  <2>2. ASSUME NEW e \in Events, ForwardOk(e) \/ ForwardErr(e) \/ Disconnect(e)
        PROVE ProvenanceInv'
    BY <2>2 DEF ForwardOk, ForwardErr, Disconnect
  <2>3. ASSUME NEW e \in Events, CheckSize(e) \/ PushFails(e) PROVE ProvenanceInv'
    BY <2>3 DEF CheckSize, PushFails
  <2>4. ASSUME NEW e \in Events, Evict(e) PROVE ProvenanceInv'
    BY <2>4 DEF Evict
  <2>5. ASSUME NEW e \in Events, Insert(e) PROVE ProvenanceInv'
    BY <2>5 DEF Insert
  <2>6. CASE TaskPop
    BY <2>6 DEF TaskPop, FirstRows
  <2>7. CASE TaskPopFails \/ TaskRemove \/ TaskRemoveFails
    BY <2>7 DEF TaskPopFails, TaskRemove, TaskRemoveFails
  <2>8. CASE TaskForward
    BY <2>8, HeadRows DEF TaskForward, TaskForwardOk, TaskForwardFails
  <2>9. ASSUME NEW n \in BatchSizes, UpdatePolicy(n) PROVE ProvenanceInv'
    BY <2>9 DEF UpdatePolicy
  <2>10. CASE Heartbeat \/ BreakerResets \/ Tick \/ Network
    BY <2>10 DEF Heartbeat, BreakerResets, Tick, Network
  <2>11. CASE Restart
    <3>1. \A e \in Events : handler[e] = "buffered" => handler'[e] = "buffered"
      BY <2>11 DEF Restart
    <3>2. \A e \in Events : handler[e] \in Acked => handler'[e] \in Acked
      BY <2>11 DEF Restart
    <3> QED
      BY <2>11, <3>1, <3>2, HeadRows DEF Restart
  <2>12. CASE UNCHANGED vars
    BY <2>12 DEF vars
  <2> QED
    BY <2>1, <2>2, <2>3, <2>4, <2>5, <2>6, <2>7, <2>8, <2>9, <2>10, <2>11, <2>12
       DEF Next, Handle
<1> QED
  BY <1>1, <1>2, TypeCorrect, PTL DEF Spec

\* No event answered 202 disappears (ingest_event, Buffer, Forwarder): it is in
\* Kafka, in the buffer, or was deleted by cleanup_if_full.  Rows are deleted
\* by the task only after Kafka has them.
THEOREM NothingLostSilently == Spec => []NoSilentLoss
<1> USE DEF Handling, Acked
<1>1. Init => NoSilentLoss
  BY DEF Init, NoSilentLoss
<1>2. TypeOK /\ ProvenanceInv /\ NoSilentLoss /\ [Next]_vars => NoSilentLoss'
  <2> SUFFICES ASSUME TypeOK, ProvenanceInv, NoSilentLoss, [Next]_vars PROVE NoSilentLoss'
    OBVIOUS
  <2> USE DEF TypeOK, NoSilentLoss, Answer, request, table, drain, network, history
  <2>1. ASSUME NEW e \in Events, Ingest(e) PROVE NoSilentLoss'
    BY <2>1 DEF Ingest
  <2>2. ASSUME NEW e \in Events, ForwardOk(e) \/ ForwardErr(e) \/ Disconnect(e)
        PROVE NoSilentLoss'
    BY <2>2 DEF ForwardOk, ForwardErr, Disconnect
  <2>3. ASSUME NEW e \in Events, CheckSize(e) \/ PushFails(e) PROVE NoSilentLoss'
    BY <2>3 DEF CheckSize, PushFails
  <2>4. ASSUME NEW e \in Events, Evict(e) PROVE NoSilentLoss'
    BY <2>4 DEF Evict
  <2>5. ASSUME NEW e \in Events, Insert(e) PROVE NoSilentLoss'
    BY <2>5 DEF Insert
  <2>6. CASE TaskPop \/ TaskPopFails \/ TaskRemoveFails
    BY <2>6 DEF TaskPop, TaskPopFails, TaskRemoveFails
  <2>7. CASE TaskRemove
    BY <2>7 DEF TaskRemove, ProvenanceInv
  <2>8. CASE TaskForward
    BY <2>8 DEF TaskForward, TaskForwardOk, TaskForwardFails
  <2>9. ASSUME NEW n \in BatchSizes, UpdatePolicy(n) PROVE NoSilentLoss'
    BY <2>9 DEF UpdatePolicy
  <2>10. CASE Heartbeat \/ BreakerResets \/ Tick \/ Network
    BY <2>10 DEF Heartbeat, BreakerResets, Tick, Network
  <2>11. CASE Restart
    BY <2>11 DEF Restart
  <2>12. CASE UNCHANGED vars
    BY <2>12 DEF vars
  <2> QED
    BY <2>1, <2>2, <2>3, <2>4, <2>5, <2>6, <2>7, <2>8, <2>9, <2>10, <2>11, <2>12
       DEF Next, Handle
<1> QED
  BY <1>1, <1>2, TypeCorrect, Provenance, PTL DEF Spec

\* A row that will be sent a second time is owed to a lost answer: the early
\* return of ingest_event and the deletion in forward_buffered leave no other.
THEOREM DuplicatesExplained == Spec => []DuplicatesHaveACause
<1> USE DEF Handling, Acked
<1>1. Init => DuplicatesHaveACause
  BY DEF Init, DuplicatesHaveACause
<1>2. TypeOK /\ ProvenanceInv /\ DuplicatesHaveACause /\ [Next]_vars => DuplicatesHaveACause'
  <2> SUFFICES ASSUME TypeOK, ProvenanceInv, DuplicatesHaveACause, [Next]_vars
               PROVE  DuplicatesHaveACause'
    OBVIOUS
  <2> USE DEF TypeOK, ProvenanceInv, DuplicatesHaveACause, Answer, request, table, drain,
              network, history
  <2>1. ASSUME NEW e \in Events, Ingest(e) PROVE DuplicatesHaveACause'
    BY <2>1 DEF Ingest
  <2>2. ASSUME NEW e \in Events, ForwardOk(e) \/ ForwardErr(e) \/ Disconnect(e)
        PROVE DuplicatesHaveACause'
    BY <2>2 DEF ForwardOk, ForwardErr, Disconnect
  <2>3. ASSUME NEW e \in Events, CheckSize(e) \/ PushFails(e) PROVE DuplicatesHaveACause'
    BY <2>3 DEF CheckSize, PushFails
  <2>4. ASSUME NEW e \in Events, Evict(e) PROVE DuplicatesHaveACause'
    BY <2>4 DEF Evict
  <2>5. ASSUME NEW e \in Events, Insert(e) PROVE DuplicatesHaveACause'
    BY <2>5 DEF Insert
  <2>6. CASE TaskPop \/ TaskPopFails \/ TaskRemoveFails
    BY <2>6 DEF TaskPop, TaskPopFails, TaskRemoveFails
  <2>7. CASE TaskRemove
    BY <2>7 DEF TaskRemove
  <2>8. CASE TaskForward
    BY <2>8 DEF TaskForward, TaskForwardOk, TaskForwardFails
  <2>9. ASSUME NEW n \in BatchSizes, UpdatePolicy(n) PROVE DuplicatesHaveACause'
    BY <2>9 DEF UpdatePolicy
  <2>10. CASE Heartbeat \/ BreakerResets \/ Tick \/ Network
    BY <2>10 DEF Heartbeat, BreakerResets, Tick, Network
  <2>11. CASE Restart
    BY <2>11 DEF Restart
  <2>12. CASE UNCHANGED vars
    BY <2>12 DEF vars
  <2> QED
    BY <2>1, <2>2, <2>3, <2>4, <2>5, <2>6, <2>7, <2>8, <2>9, <2>10, <2>11, <2>12
       DEF Next, Handle
<1> QED
  BY <1>1, <1>2, TypeCorrect, Provenance, PTL DEF Spec

LEMMA EarlierIsBefore ==
  ASSUME TypeOK, NEW a \in Events, NEW b \in Events, Earlier(a, b)
  PROVE  Before(a, b)
<1>1. priority[a] \in Int /\ priority[b] \in Int
  BY AgentAssumption DEF TypeOK
<1> QED
  BY <1>1 DEF Earlier, Before

\* A step that leaves the columns of the table alone leaves Earlier alone.
LEMMA EarlierStable ==
  ASSUME UNCHANGED <<priority, created_at>>
  PROVE  \A a, b : Earlier(a, b)' <=> Earlier(a, b)
BY DEF Earlier

\* "Stop on first failure to preserve order" (Forwarder::forward_buffered): the
\* rows the task has deleted were never overtaken by a row that came before.
THEOREM BacklogKeepsOrder == Spec => []BacklogInOrder
<1>1. Init => OrderInv
  BY DEF Init, OrderInv
<1>2. TypeOK /\ ProvenanceInv /\ OrderInv /\ [Next]_vars => OrderInv'
  <2> SUFFICES ASSUME TypeOK, ProvenanceInv, OrderInv, [Next]_vars PROVE OrderInv'
    OBVIOUS
  <2> USE DEF OrderInv
  <2>a. ASSUME UNCHANGED <<priority, created_at, buffered, batch, forwarded, drained>>
        PROVE  OrderInv'
    BY <2>a DEF Earlier
  <2>1. ASSUME NEW e \in Events, Ingest(e) PROVE OrderInv'
    <3>1. handler[e] = "none"
      BY <2>1 DEF Ingest
    <3>2. e \notin buffered \union batch \union forwarded \union drained
      BY <3>1 DEF ProvenanceInv
    <3>3. /\ UNCHANGED <<created_at, buffered, batch, forwarded, drained>>
          /\ \A x \in Events \ {e} : priority'[x] = priority[x]
      BY <2>1 DEF Ingest, TypeOK, table, drain, history
    <3> QED
      BY <3>2, <3>3 DEF Earlier, TypeOK
  <2>2. ASSUME NEW e \in Events, ForwardOk(e) \/ ForwardErr(e) \/ Disconnect(e) PROVE OrderInv'
    BY <2>2, <2>a DEF ForwardOk, ForwardErr, Disconnect, table, drain, history
  <2>3. ASSUME NEW e \in Events, CheckSize(e) \/ PushFails(e) PROVE OrderInv'
    BY <2>3, <2>a DEF CheckSize, PushFails, table, drain, history
  <2>4. ASSUME NEW e \in Events, Evict(e) PROVE OrderInv'
    BY <2>4, EarlierStable DEF Evict, drain
  <2>5. ASSUME NEW e \in Events, Insert(e) PROVE OrderInv'
    <3>1. handler[e] = "inserting"
      BY <2>5 DEF Insert
    <3>2. e \notin batch \union forwarded \union drained
      BY <3>1 DEF ProvenanceInv
    <3>3. /\ UNCHANGED <<priority, batch, forwarded, drained>>
          /\ buffered' = buffered \union {e}
          /\ created_at'[e] = now
          /\ \A x \in Events \ {e} : created_at'[x] = created_at[x]
      BY <2>5 DEF Insert, TypeOK, drain, history
    <3>4. \A b \in Events \ {e} : ~Earlier(e, b)'
      BY <3>3 DEF Earlier, TypeOK
    <3> QED
      BY <3>2, <3>3, <3>4 DEF Earlier, TypeOK
  <2>6. CASE TaskPop
    <3>1. PICK S \in FirstRows(batch_size, Before) : batch' = S
      BY <2>6 DEF TaskPop
    <3>2. \A a \in buffered, b \in S : Earlier(a, b) => a \in S
      BY <3>1, EarlierIsBefore DEF FirstRows, TypeOK
    <3>3. forwarded' = {} /\ UNCHANGED <<priority, created_at, buffered, drained>>
      BY <2>6 DEF TaskPop, request, table, history
    <3> QED
      BY <3>1, <3>2, <3>3, EarlierStable
  <2>7. CASE TaskPopFails
    BY <2>7, <2>a DEF TaskPopFails, request, table, drain, history
  <2>8. CASE TaskForwardOk
    <3>1. PICK e \in Heads : batch' = batch \ {e} /\ forwarded' = forwarded \union {e}
      BY <2>8 DEF TaskForwardOk
    <3>2. \A a \in buffered : Earlier(a, e) => a \in forwarded
      BY <3>1, EarlierIsBefore DEF Heads, TypeOK
    <3>3. UNCHANGED <<priority, created_at, buffered, drained>>
      BY <2>8 DEF TaskForwardOk, request, table, history
    <3> QED
      BY <3>1, <3>2, <3>3, EarlierStable
  <2>9. CASE TaskForwardFails
    BY <2>9, EarlierStable DEF TaskForwardFails, request, table
  <2>10. CASE TaskRemove
    BY <2>10, EarlierStable DEF TaskRemove, request
  <2>11. CASE TaskRemoveFails
    BY <2>11, EarlierStable DEF TaskRemoveFails, request, table
  <2>12. ASSUME NEW n \in BatchSizes, UpdatePolicy(n) PROVE OrderInv'
    BY <2>12, <2>a DEF UpdatePolicy, request, table, drain, history
  <2>13. CASE Heartbeat \/ BreakerResets \/ Tick \/ Network
    BY <2>13, <2>a DEF Heartbeat, BreakerResets, Tick, Network, request, table, drain, history
  <2>14. CASE Restart
    BY <2>14, EarlierStable DEF Restart, table
  <2>15. CASE UNCHANGED vars
    BY <2>15, <2>a DEF vars, request, table, drain, history
  <2> QED
    BY <2>1, <2>2, <2>3, <2>4, <2>5, <2>6, <2>7, <2>8, <2>9, <2>10, <2>11, <2>12, <2>13,
       <2>14, <2>15
       DEF Next, Handle, TaskForward
<1>3. TypeOK /\ OrderInv => BacklogInOrder
  BY DEF TypeOK, OrderInv, BacklogInOrder, Earlier
<1> QED
  BY <1>1, <1>2, <1>3, TypeCorrect, Provenance, PTL DEF Spec

-----------------------------------------------------------------------------
(* The agent implements EventDelivery.                                     *)

\* Where an event is, as EventDelivery sees it.
Place(e) ==
  IF e \in kafka THEN "delivered"
  ELSE IF e \in buffered THEN "held"
  ELSE IF e \in evicted THEN "dropped"
  ELSE "new"

AckedEvents == {e \in Events : handler[e] \in Acked}

\* A step that acknowledges nothing and at most adds D to Kafka.
LEMMA DeliverStep ==
  ASSUME NEW D \in SUBSET Events, kafka' = kafka \union D,
         UNCHANGED <<buffered, evicted>>, AckedEvents' = AckedEvents
  PROVE  Delivery!Next
<1>1. Delivery!Deliver(D)
  BY DEF Delivery!Deliver, AckedEvents
<1> QED
  BY <1>1 DEF Delivery!Next

\* A step of the agent is a step of EventDelivery or none at all.
LEMMA StepSimulation ==
  ASSUME TypeOK, ProvenanceInv, [Next]_vars
  PROVE  [Delivery!Next]_(Delivery!vars)
<1> USE DEF TypeOK, Answer, Handling, Acked
<1>a. ASSUME UNCHANGED <<kafka, buffered, evicted>>, AckedEvents' = AckedEvents
      PROVE  UNCHANGED Delivery!vars
  BY <1>a DEF Delivery!vars, AckedEvents
<1>1. ASSUME NEW e \in Events, Ingest(e) PROVE UNCHANGED Delivery!vars
  BY <1>1, <1>a DEF Ingest, table, history, AckedEvents
<1>2. ASSUME NEW e \in Events, ForwardOk(e) PROVE Delivery!AcceptDelivered(e)
  BY <1>2 DEF ForwardOk, table, history, Delivery!AcceptDelivered
<1>3. ASSUME NEW e \in Events, ForwardErr(e) \/ Disconnect(e) PROVE Delivery!Next
  <2>1. AckedEvents' = AckedEvents
    BY <1>3 DEF ForwardErr, Disconnect, AckedEvents
  <2>2. UNCHANGED <<buffered, evicted>>
    BY <1>3 DEF ForwardErr, Disconnect, table
  <2>3. kafka' = kafka \union {} \/ kafka' = kafka \union {e}
    BY <1>3 DEF ForwardErr, Disconnect
  <2> QED
    BY <2>1, <2>2, <2>3, DeliverStep
<1>4. ASSUME NEW e \in Events, CheckSize(e) \/ PushFails(e) PROVE UNCHANGED Delivery!vars
  BY <1>4, <1>a DEF CheckSize, PushFails, table, history, AckedEvents
<1>5. ASSUME NEW e \in Events, Evict(e) PROVE Delivery!Next
  <2>1. PICK S \in SUBSET buffered : buffered' = buffered \ S /\ evicted' = evicted \union S
    BY <1>5 DEF Evict, FirstRows
  <2>2. kafka' = kafka /\ AckedEvents' = AckedEvents
    BY <1>5 DEF Evict, AckedEvents
  <2>3. Delivery!Drop(S)
    BY <2>1, <2>2 DEF Delivery!Drop, AckedEvents
  <2> QED
    BY <2>1, <2>3 DEF Delivery!Next
<1>6. ASSUME NEW e \in Events, Insert(e) PROVE Delivery!AcceptHeld(e)
  BY <1>6 DEF Insert, history, Delivery!AcceptHeld
<1>7. CASE TaskPop \/ TaskPopFails \/ TaskRemoveFails
  BY <1>7, <1>a DEF TaskPop, TaskPopFails, TaskRemoveFails, request, table, history, AckedEvents
<1>8. CASE TaskForward
  <2>1. /\ UNCHANGED <<buffered, evicted>> /\ AckedEvents' = AckedEvents
        /\ kafka' = kafka \union {} \/ \E e \in Heads : kafka' = kafka \union {e}
    BY <1>8 DEF TaskForward, TaskForwardOk, TaskForwardFails, request, table, history, AckedEvents
  <2> QED
    BY <2>1, DeliverStep, HeadRows
<1>9. CASE TaskRemove
  BY <1>9 DEF TaskRemove, request, ProvenanceInv, Delivery!vars
<1>10. ASSUME NEW n \in BatchSizes, UpdatePolicy(n) PROVE UNCHANGED Delivery!vars
  BY <1>10, <1>a DEF UpdatePolicy, request, table, history, AckedEvents
<1>11. CASE Heartbeat \/ BreakerResets \/ Tick \/ Network
  BY <1>11, <1>a DEF Heartbeat, BreakerResets, Tick, Network, request, table, history, AckedEvents
<1>12. CASE Restart
  <2>1. PICK S \in SUBSET Events, H \in SUBSET Heads : kafka' = kafka \union S \union H
    BY <1>12 DEF Restart
  <2>2. UNCHANGED <<buffered, evicted>> /\ AckedEvents' = AckedEvents
    BY <1>12 DEF Restart, table, AckedEvents
  <2>3. S \union H \in SUBSET Events /\ kafka' = kafka \union (S \union H)
    BY <2>1, HeadRows
  <2> QED
    BY <2>2, <2>3, DeliverStep
<1>13. CASE UNCHANGED vars
  BY <1>13, <1>a DEF vars, request, table, history, AckedEvents
<1> QED
  BY <1>1, <1>2, <1>3, <1>4, <1>5, <1>6, <1>7, <1>8, <1>9, <1>10, <1>11, <1>12, <1>13
     DEF Next, Handle, Delivery!Next

\* The edge agent keeps the promise of EventDelivery.
THEOREM ImplementsDelivery == Spec => Promise
<1>1. Init => Delivery!Init
  BY DEF Init, Delivery!Init, Acked
<1> QED
  BY <1>1, StepSimulation, TypeCorrect, Provenance, PTL DEF Spec, Promise, Delivery!Spec
=============================================================================
