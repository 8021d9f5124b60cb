------------------------------ MODULE EdgeAgent ------------------------------
(***************************************************************************)
(* The store-and-forward core of services/rust-edge-agent: the ingest      *)
(* handler (main.rs), the SQLite buffer (buffer.rs), the Kafka forwarder   *)
(* (forwarder.rs) and the background tasks that flip is_online and drain   *)
(* the buffer.  One handler runs per event; handlers, the forwarder task   *)
(* and the heartbeat interleave at every .await.                           *)
(*                                                                         *)
(* A row of buffered_events is identified with the event it stores (a      *)
(* handler inserts once); the sets and functions below are its columns.    *)
(* SQL statements are atomic; what ORDER BY leaves open is left open.      *)
(***************************************************************************)
EXTENDS Integers, FiniteSets

CONSTANTS
  Events,        \* the events clients send
  Priorities,    \* the priorities the detector assigns: 0, 25, 50, 75, 100
  MaxRows,       \* the rows that fit in max_buffer_size_mb
  EvictDivisor,  \* 10 in cleanup_if_full
  DefaultBatch,  \* batch_size of the configuration read at startup
  BatchSizes,    \* the batch_size values POST /config may set
  MaxSeconds,    \* bound: seconds of wall clock
  MaxCrashes     \* bound: restarts of the process

ASSUME AgentAssumption ==
  /\ IsFiniteSet(Events)
  /\ Priorities \subseteq Int /\ 0 \in Priorities
  /\ MaxRows \in Nat
  /\ EvictDivisor \in Nat \ {0}
  /\ BatchSizes \subseteq Nat
  /\ DefaultBatch \in BatchSizes
  /\ MaxSeconds \in Nat
  /\ MaxCrashes \in Nat

VARIABLES
  is_online,     \* AppState.is_online
  handler,       \* where each event's request is
  priority,      \* column priority
  created_at,    \* column created_at: whole seconds (CURRENT_TIMESTAMP)
  buffered,      \* the rows of buffered_events
  file_rows,     \* the rows the database file has room for: it never shrinks
  task,          \* buffer_forwarder_task: "idle" or "forwarding"
  batch,         \* the popped rows it has still to send
  forwarded,     \* forwarded_ids
  batch_size,    \* policy.batch_size
  breaker_open,  \* the answer of the forwarder's circuit breaker
  now,           \* the wall clock
  kafka,         \* the events in the Kafka topic
  kafka_up, coordinator_up,  \* what is reachable
  registered,    \* the coordinator has a row for this agent
  crashes,
  evicted,       \* history: rows deleted by cleanup_if_full
  drained,       \* history: events the forwarder task sent and removed
  uncertain      \* history: events in Kafka whose sender did not learn it, or
                 \* could not delete the row

request  == <<handler, priority, created_at>>
table    == <<buffered, file_rows>>
drain    == <<task, batch, forwarded>>
network  == <<kafka_up, coordinator_up, registered>>
history  == <<evicted, drained, uncertain>>
vars == <<is_online, request, table, drain, batch_size, breaker_open, now,
          kafka, network, crashes, history>>

Handling  == {"sending", "checking", "evicting", "inserting"}
Acked     == {"forwarded", "buffered"}
HandlerStates == {"none", "error", "gone"} \union Handling \union Acked

-----------------------------------------------------------------------------
(* The order of the buffer's two queries.                                  *)

\* ORDER BY priority DESC, created_at ASC
Before(a, b) ==
  \/ priority[a] > priority[b]
  \/ priority[a] = priority[b] /\ created_at[a] < created_at[b]

\* Mutant: the batch is read newest first.
BeforeNewestFirst(a, b) ==
  \/ priority[a] > priority[b]
  \/ priority[a] = priority[b] /\ created_at[a] > created_at[b]

\* The first n rows of a table in an order, as sets: ties may fall either way.
FirstRows(n, Precedes(_, _)) ==
  {S \in SUBSET buffered :
     /\ Cardinality(S) = IF n < Cardinality(buffered) THEN n ELSE Cardinality(buffered)
     /\ \A a \in S, b \in buffered \ S : ~Precedes(b, a)}

Older(a, b) == created_at[a] < created_at[b]

\* The rows of the batch that may be next.
Heads == {a \in batch : \A b \in batch : ~Before(b, a)}

-----------------------------------------------------------------------------
Init ==
  /\ handler = [e \in Events |-> "none"]
  /\ priority = [e \in Events |-> 0]
  /\ created_at = [e \in Events |-> 0]
  /\ buffered = {} /\ file_rows = 0
  /\ task = "idle" /\ batch = {} /\ forwarded = {}
  /\ batch_size = DefaultBatch
  /\ breaker_open = FALSE
  /\ now = 0
  /\ kafka = {}
  /\ kafka_up \in BOOLEAN
  /\ coordinator_up \in BOOLEAN
  /\ registered \in BOOLEAN
  /\ coordinator_up => registered  \* register_with_coordinator ran before serving
  /\ is_online = coordinator_up
  /\ crashes = 0
  /\ evicted = {} /\ drained = {} /\ uncertain = {}

Answer(e, a) == handler' = [handler EXCEPT ![e] = a]

-----------------------------------------------------------------------------
(* ingest_event.                                                           *)

\* is_online and the breaker are read and the detector grades the event; the
\* Kafka send starts only when both let it.
Ingest(e) ==
  /\ handler[e] = "none"
  /\ Answer(e, IF is_online /\ ~breaker_open THEN "sending" ELSE "checking")
  /\ \E p \in Priorities : priority' = [priority EXCEPT ![e] = p]
  /\ UNCHANGED <<is_online, created_at, table, drain, batch_size, breaker_open,
                 now, kafka, network, crashes, history>>

\* Mutant: the early return after a successful forward is missing.
ForwardOkFallsThrough(e) ==
  /\ handler[e] = "sending"
  /\ kafka_up
  /\ kafka' = kafka \union {e}
  /\ breaker_open' = FALSE
  /\ Answer(e, "checking")
  /\ UNCHANGED <<is_online, priority, created_at, table, drain, batch_size, now,
                 network, crashes, history>>

\* forward returned Ok: record_success, 202 "forwarded".
ForwardOk(e) ==
  /\ handler[e] = "sending"
  /\ kafka_up
  /\ kafka' = kafka \union {e}
  /\ breaker_open' = FALSE
  /\ Answer(e, "forwarded")
  /\ UNCHANGED <<is_online, priority, created_at, table, drain, batch_size, now,
                 network, crashes, history>>

\* forward returned Err: the broker may have stored the event all the same.
\* record_failure may be the one that opens the breaker.
ForwardErr(e) ==
  /\ handler[e] = "sending"
  /\ ~kafka_up
  /\ \/ UNCHANGED <<kafka, uncertain>>
     \/ kafka' = kafka \union {e} /\ uncertain' = uncertain \union {e}
  /\ breaker_open' \in {breaker_open, TRUE}
  /\ Answer(e, "checking")
  /\ UNCHANGED <<is_online, priority, created_at, table, drain, batch_size, now,
                 network, crashes, evicted, drained>>

\* cleanup_if_full: the size of the file, not of the rows, is compared.
CheckSize(e) ==
  /\ handler[e] = "checking"
  /\ Answer(e, IF file_rows > MaxRows THEN "evicting" ELSE "inserting")
  /\ UNCHANGED <<is_online, priority, created_at, table, drain, batch_size,
                 breaker_open, now, kafka, network, crashes, history>>

\* DELETE of the oldest COUNT(*) / 10 rows, whatever their priority.
Evict(e) ==
  /\ handler[e] = "evicting"
  /\ \E S \in FirstRows(Cardinality(buffered) \div EvictDivisor, Older) :
       /\ buffered' = buffered \ S
       /\ evicted' = evicted \union S
  /\ Answer(e, "inserting")
  /\ UNCHANGED <<is_online, priority, created_at, file_rows, drain, batch_size,
                 breaker_open, now, kafka, network, crashes, drained, uncertain>>

\* INSERT, 202 "buffered".
Insert(e) ==
  /\ handler[e] = "inserting"
  /\ buffered' = buffered \union {e}
  /\ file_rows' = IF Cardinality(buffered) < file_rows THEN file_rows ELSE file_rows + 1
  /\ created_at' = [created_at EXCEPT ![e] = now]
  /\ Answer(e, "buffered")
  /\ UNCHANGED <<is_online, priority, drain, batch_size, breaker_open, now,
                 kafka, network, crashes, history>>

\* A statement of push fails: 500.
PushFails(e) ==
  /\ handler[e] \in {"checking", "evicting", "inserting"}
  /\ Answer(e, "error")
  /\ UNCHANGED <<is_online, priority, created_at, table, drain, batch_size,
                 breaker_open, now, kafka, network, crashes, history>>

\* The client disconnects and the handler is dropped at an .await; a message
\* already handed to the producer may still arrive.
Disconnect(e) ==
  /\ handler[e] \in Handling
  /\ \/ UNCHANGED <<kafka, uncertain>>
     \/ /\ handler[e] = "sending"
        /\ kafka' = kafka \union {e} /\ uncertain' = uncertain \union {e}
  /\ Answer(e, "gone")
  /\ UNCHANGED <<is_online, priority, created_at, table, drain, batch_size,
                 breaker_open, now, network, crashes, evicted, drained>>

-----------------------------------------------------------------------------
(* buffer_forwarder_task and Forwarder::forward_buffered.                  *)

\* Mutant: the rows are deleted as they are read.
PopDeletes ==
  /\ task = "idle" /\ is_online /\ buffered # {}
  /\ \E S \in FirstRows(batch_size, Before) :
       /\ batch' = S
       /\ task' = IF S = {} THEN "idle" ELSE "forwarding"
       /\ buffered' = buffered \ S
  /\ forwarded' = {}
  /\ UNCHANGED <<is_online, request, file_rows, batch_size, breaker_open, now,
                 kafka, network, crashes, history>>

\* Online and the buffer not empty: pop_batch, which deletes nothing.
TaskPop ==
  /\ task = "idle" /\ is_online /\ buffered # {}
  /\ \E S \in FirstRows(batch_size, Before) :
       /\ batch' = S
       /\ task' = IF S = {} THEN "idle" ELSE "forwarding"
  /\ forwarded' = {}
  /\ UNCHANGED <<is_online, request, table, batch_size, breaker_open, now,
                 kafka, network, crashes, history>>

\* pop_batch fails: the task takes the agent offline.
TaskPopFails ==
  /\ task = "idle" /\ is_online /\ buffered # {}
  /\ is_online' = FALSE
  /\ UNCHANGED <<request, table, drain, batch_size, breaker_open, now, kafka,
                 network, crashes, history>>

TaskForwardOk ==
  /\ ~breaker_open /\ kafka_up
  /\ \E e \in Heads :
       /\ kafka' = kafka \union {e}
       /\ batch' = batch \ {e}
       /\ forwarded' = forwarded \union {e}
  /\ breaker_open' = FALSE
  /\ UNCHANGED <<is_online, request, table, task, batch_size, now, network,
                 crashes, history>>

\* Mutant: the event that failed is skipped and the loop goes on.
ForwardFailsContinues ==
  /\ breaker_open \/ ~kafka_up
  /\ \E e \in Heads :
       /\ \/ UNCHANGED <<kafka, uncertain>>
          \/ /\ ~breaker_open
             /\ kafka' = kafka \union {e} /\ uncertain' = uncertain \union {e}
       /\ breaker_open' \in {breaker_open, TRUE}
       /\ batch' = batch \ {e}
  /\ UNCHANGED <<is_online, request, table, task, forwarded, batch_size, now,
                 network, crashes, evicted, drained>>

\* Mutant: the id is recorded before the result of the send is known.
ForwardFailsKeepsId ==
  /\ breaker_open \/ ~kafka_up
  /\ \E e \in Heads : forwarded' = forwarded \union {e}
  /\ batch' = {}
  /\ UNCHANGED <<is_online, request, table, task, batch_size, breaker_open, now,
                 kafka, network, crashes, history>>

\* The breaker refuses the send, or it fails: "Stop on first failure to
\* preserve order".
TaskForwardFails ==
  /\ breaker_open \/ ~kafka_up
  /\ \E e \in Heads :
       /\ \/ UNCHANGED <<kafka, uncertain>>
          \/ /\ ~breaker_open
             /\ kafka' = kafka \union {e} /\ uncertain' = uncertain \union {e}
       /\ breaker_open' \in {breaker_open, TRUE}
  /\ batch' = {}
  /\ UNCHANGED <<is_online, request, table, task, forwarded, batch_size, now,
                 network, crashes, evicted, drained>>

\* The loop is over: the rows sent are deleted and the task sleeps.
TaskRemove ==
  /\ task = "forwarding" /\ batch = {}
  /\ buffered' = buffered \ forwarded
  /\ drained' = drained \union forwarded
  /\ task' = "idle" /\ forwarded' = {}
  /\ UNCHANGED <<is_online, request, file_rows, batch, batch_size, breaker_open,
                 now, kafka, network, crashes, evicted, uncertain>>

\* Mutant: forwarded_ids survives the call that failed to delete its rows.
RemoveFailsKeepsIds ==
  /\ task = "forwarding" /\ batch = {} /\ forwarded # {}
  /\ is_online' = FALSE
  /\ uncertain' = uncertain \union forwarded
  /\ task' = "idle"
  /\ UNCHANGED <<request, table, batch, forwarded, batch_size, breaker_open, now,
                 kafka, network, crashes, evicted, drained>>

\* The DELETE fails: the rows stay and will be sent again.
TaskRemoveFails ==
  /\ task = "forwarding" /\ batch = {} /\ forwarded # {}
  /\ is_online' = FALSE
  /\ uncertain' = uncertain \union forwarded
  /\ task' = "idle" /\ forwarded' = {}
  /\ UNCHANGED <<request, table, batch, batch_size, breaker_open, now, kafka,
                 network, crashes, evicted, drained>>

-----------------------------------------------------------------------------
(* Configuration, heartbeat, restart and the environment.                  *)

\* update_config takes the forwarder's write guard: nobody is forwarding.
UpdatePolicy(n) ==
  /\ task = "idle"
  /\ \A e \in Events : handler[e] # "sending"
  /\ batch_size' = n
  /\ UNCHANGED <<is_online, request, table, drain, breaker_open, now, kafka,
                 network, crashes, history>>

\* Mutant: a successful heartbeat leaves is_online alone.
HeartbeatOfflineOnly ==
  /\ is_online' = (is_online /\ coordinator_up /\ registered)
  /\ UNCHANGED <<request, table, drain, batch_size, breaker_open, now, kafka,
                 network, crashes, history>>

\* 2xx: online; 404 for an agent without a row, or no answer: offline.
Heartbeat ==
  /\ is_online' = (coordinator_up /\ registered)
  /\ UNCHANGED <<request, table, drain, batch_size, breaker_open, now, kafka,
                 network, crashes, history>>

\* The process dies and main runs again.  Only the database survives; sends
\* under way may have arrived.  Registration is attempted once.
Restart ==
  /\ crashes < MaxCrashes
  /\ crashes' = crashes + 1
  /\ \E S \in SUBSET {e \in Events : handler[e] = "sending"}, H \in SUBSET Heads :
       /\ ~breaker_open \/ H = {}
       /\ Cardinality(H) <= 1
       /\ kafka' = kafka \union S \union H
       /\ uncertain' = uncertain \union S \union H \union forwarded
  /\ handler' = [e \in Events |-> IF handler[e] \in Handling THEN "gone" ELSE handler[e]]
  /\ task' = "idle" /\ batch' = {} /\ forwarded' = {}
  /\ batch_size' = DefaultBatch
  /\ breaker_open' = FALSE
  /\ is_online' = coordinator_up
  /\ registered' = (registered \/ coordinator_up)
  /\ UNCHANGED <<priority, created_at, table, now, kafka_up, coordinator_up,
                 evicted, drained>>

\* reset_timeout has passed since the last failure: is_open answers false.
BreakerResets ==
  /\ breaker_open
  /\ breaker_open' = FALSE
  /\ UNCHANGED <<is_online, request, table, drain, batch_size, now, kafka,
                 network, crashes, history>>

Tick ==
  /\ now < MaxSeconds
  /\ now' = now + 1
  /\ UNCHANGED <<is_online, request, table, drain, batch_size, breaker_open,
                 kafka, network, crashes, history>>

Network ==
  /\ \/ kafka_up' = ~kafka_up /\ UNCHANGED coordinator_up
     \/ coordinator_up' = ~coordinator_up /\ UNCHANGED kafka_up
  /\ UNCHANGED <<is_online, request, table, drain, batch_size, breaker_open, now,
                 kafka, registered, crashes, history>>

-----------------------------------------------------------------------------
Handle(e) ==
  \/ ForwardOk(e) \/ ForwardErr(e)
  \/ CheckSize(e) \/ Evict(e) \/ Insert(e) \/ PushFails(e)

TaskForward == TaskForwardOk \/ TaskForwardFails

Next ==
  \/ \E e \in Events : Ingest(e) \/ Handle(e) \/ Disconnect(e)
  \/ TaskPop \/ TaskPopFails \/ TaskForward \/ TaskRemove \/ TaskRemoveFails
  \/ \E n \in BatchSizes : UpdatePolicy(n)
  \/ Heartbeat \/ Restart \/ BreakerResets \/ Tick \/ Network

Spec == Init /\ [][Next]_vars

\* Handlers run to their answer.  The forwarder task wakes every five seconds
\* and its sends end within their timeout; a statement of SQLite that is tried
\* again and again succeeds in the end (strong fairness); the heartbeat fires
\* every interval; an open breaker times out.
Fairness ==
  /\ \A e \in Events : WF_vars(Handle(e))
  /\ SF_vars(TaskPop)
  /\ WF_vars(TaskForward)
  /\ SF_vars(TaskRemove)
  /\ WF_vars(Heartbeat)
  /\ WF_vars(BreakerResets)

FairSpec == Spec /\ Fairness

-----------------------------------------------------------------------------
(* Properties.                                                             *)

TypeOK ==
  /\ is_online \in BOOLEAN
  /\ handler \in [Events -> HandlerStates]
  /\ priority \in [Events -> Priorities]
  /\ created_at \in [Events -> 0 .. now]
  /\ buffered \subseteq Events /\ file_rows \in Nat
  /\ task \in {"idle", "forwarding"}
  /\ batch \subseteq Events /\ forwarded \subseteq Events
  /\ task = "idle" => batch = {} /\ forwarded = {}
  /\ batch_size \in BatchSizes
  /\ breaker_open \in BOOLEAN
  /\ now \in Nat
  /\ kafka \subseteq Events
  /\ kafka_up \in BOOLEAN /\ coordinator_up \in BOOLEAN /\ registered \in BOOLEAN
  /\ crashes \in Nat
  /\ evicted \subseteq Events /\ drained \subseteq Events /\ uncertain \subseteq Events

\* No event answered 202 disappears by itself: whatever fails, crashes or
\* interleaves, it is in Kafka, or still a row, or cleanup_if_full deleted it.
NoSilentLoss ==
  \A e \in Events :
    /\ handler[e] = "forwarded" => e \in kafka
    /\ handler[e] = "buffered" => e \in kafka \union buffered \union evicted

\* "Stop on first failure to preserve order" (forwarder.rs): once the task has
\* sent and deleted a row, no row that comes strictly before it, and was
\* written in an earlier second, is still waiting for its first turn.
BacklogInOrder ==
  \A a \in buffered, b \in drained :
    priority[a] >= priority[b] /\ created_at[a] < created_at[b] => a \in drained

\* A row whose event is already in Kafka, and so will be sent twice, is being
\* forwarded at this moment or is owed to an answer that got lost (a send that
\* failed after it arrived, a dropped handler, a failed DELETE, a crash).
DuplicatesHaveACause == kafka \intersect buffered \subseteq forwarded \union uncertain

\* The promise of EventDelivery.
Delivery == INSTANCE EventDelivery WITH
  status <- [e \in Events |->
               IF e \in kafka THEN "delivered"
               ELSE IF e \in buffered THEN "held"
               ELSE IF e \in evicted THEN "dropped"
               ELSE "new"],
  acked <- {e \in Events : handler[e] \in Acked}

Promise == Delivery!Spec

\* The backlog drains: with Kafka and the coordinator reachable for good, and
\* the agent known to the coordinator, every row leaves the buffer, whatever
\* the order in which the breaker, the heartbeat and the task went before.
Reachable == kafka_up /\ coordinator_up
BacklogDrains ==
  <>[](Reachable /\ registered) => \A e \in Events : e \in buffered ~> e \notin buffered
=============================================================================
