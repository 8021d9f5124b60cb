--------------------------- MODULE AlertCorrelator ---------------------------
(***************************************************************************)
(* services/rust-alert-correlator: instances of one Kafka consumer group   *)
(* read alerts and group those with the same key into rows of alert_meta.  *)
(* Redis remembers for the aggregation window which row a key belongs to   *)
(* (cache.rs); Postgres holds the rows (db.rs); CorrelationEngine          *)
(* (engine.rs) goes from one to the other, one call at a time, and the     *)
(* alert is published again on correlated-alerts (kafka.rs).               *)
(*                                                                         *)
(* A step is one call of Redis, Postgres or Kafka.  Any of them may fail, *)
(* and one that writes may fail after it wrote.  An error of process_alert *)
(* is logged and the alert is not tried again.                             *)
(***************************************************************************)
EXTENDS Integers, Sequences, FiniteSets

CONSTANTS
  Alerts,
  Keys,               \* what generate_alert_key distinguishes
  KeyOf,              \* generate_alert_key, as a function
  Instances,          \* the consumers of the group
  NoAlert,            \* an instance has no alert in hand
  ChainQueryAccepted, \* Postgres accepts the query of find_related_alerts
  MaxExpiries,        \* bound: windows that end, per key
  MaxFaults,          \* bound: calls that fail
  MaxMoves             \* bound: crashes and rebalances

ASSUME CorrelatorAssumption ==
  /\ IsFiniteSet(Alerts) /\ IsFiniteSet(Keys) /\ IsFiniteSet(Instances)
  /\ KeyOf \in [Alerts -> Keys]
  /\ NoAlert \notin Alerts
  /\ {"unread", "committed"} \intersect Instances = {}
  /\ ChainQueryAccepted \in BOOLEAN
  /\ MaxExpiries \in Nat /\ MaxFaults \in Nat /\ MaxMoves \in Nat

VARIABLES
  offset,     \* each alert is unread, read by an instance, or, once it
               \* matters, committed
  pc,         \* the call each instance makes next
  work,       \* the alert it has in hand
  meta_id,    \* the row it found or created for that alert
  redis_open, \* the answer of its circuit breaker for Redis
  cache,      \* the value of "alert:<key>" in Redis
  alert_meta, \* per row, how often each alert id is in original_alert_ids
  reads,      \* history: how often each alert was read
  expiries,   \* windows that ended, per key
  causes,     \* history: per key, what may have split its group
  faults, moves

memory  == <<pc, work, meta_id>>
history == <<reads, expiries, causes, moves>>
vars == <<offset, memory, redis_open, cache, alert_meta, history, faults>>

Absent  == 0   \* no entry; row ids count from one
Pending == -1  \* the value "pending"

Creating == {"set_pending", "chain", "create", "set_meta"}
Calls == {"recv", "get", "update", "fetch", "publish"} \union Creating

Rows == 1 .. Len(alert_meta)
Holds(r, a) == alert_meta[r][a] > 0

\* The alert a row was created for is never removed from it.
RowsOf(k) == {r \in Rows : \E a \in Alerts : Holds(r, a) /\ KeyOf[a] = k}
Recorded(a) == \E r \in Rows : Holds(r, a)

Once(a) == [b \in Alerts |-> IF b = a THEN 1 ELSE 0]
Key(i) == KeyOf[work[i]]

Goto(i, s) == pc' = [pc EXCEPT ![i] = s]

\* What the call i is at leaves in Redis and in Postgres.
CacheAfter(i) ==
  CASE pc[i] = "set_pending" -> [cache EXCEPT ![Key(i)] = Pending]
    [] pc[i] = "set_meta" -> [cache EXCEPT ![Key(i)] = meta_id[i]]
    [] OTHER -> cache
RowsAfter(i) ==
  CASE pc[i] = "update" /\ meta_id[i] \in Rows ->
         [alert_meta EXCEPT ![meta_id[i]][work[i]] = @ + 1]
    [] pc[i] = "create" -> Append(alert_meta, Once(work[i]))
    [] OTHER -> alert_meta

Init ==
  /\ offset = [a \in Alerts |-> "unread"]
  /\ pc = [i \in Instances |-> "recv"]
  /\ work = [i \in Instances |-> NoAlert]
  /\ meta_id = [i \in Instances |-> 0]
  /\ redis_open = [i \in Instances |-> FALSE]
  /\ cache = [k \in Keys |-> Absent]
  /\ alert_meta = <<>>
  /\ reads = [a \in Alerts |-> 0]
  /\ expiries = [k \in Keys |-> 0]
  /\ causes = [k \in Keys |-> 0]
  /\ faults = 0 /\ moves = 0

Fault == faults < MaxFaults /\ faults' = faults + 1
Blame(k) == causes' = [causes EXCEPT ![k] = @ + 1]

\* Mutant: the loop goes on with the alert of the last round.
GiveUpKeepsAlert(i) ==
  /\ pc' = [pc EXCEPT ![i] = "recv"]
  /\ meta_id' = [meta_id EXCEPT ![i] = 0]
  /\ UNCHANGED work

\* The loop of start_consumer goes on with the next message.
GiveUp(i) ==
  /\ pc' = [pc EXCEPT ![i] = "recv"]
  /\ work' = [work EXCEPT ![i] = NoAlert]
  /\ meta_id' = [meta_id EXCEPT ![i] = 0]

-----------------------------------------------------------------------------
(* The consumer loop.                                                      *)

Receive(i) ==
  /\ pc[i] = "recv"
  /\ \E a \in Alerts :
       /\ offset[a] = "unread"
       /\ offset' = [offset EXCEPT ![a] = i]
       /\ work' = [work EXCEPT ![i] = a]
       /\ reads' = [reads EXCEPT ![a] = @ + 1]
  /\ Goto(i, "get")
  /\ UNCHANGED <<meta_id, redis_open, cache, alert_meta, expiries,
                 causes, moves, faults>>

\* Somebody else is on the way to a row for this key.
Overlap(i) == \E j \in Instances \ {i} : pc[j] \in Creating /\ Key(j) = Key(i)

\* Mutant: "pending" is taken for "somebody does it", and the alert dropped.
LookupDropsPending(i) ==
  /\ pc[i] = "get"
  /\ \/ /\ ~redis_open[i] /\ cache[Key(i)] = Pending
        /\ GiveUp(i)
        /\ UNCHANGED causes
     \/ /\ redis_open[i] \/ cache[Key(i)] = Absent
        /\ Goto(i, "set_pending")
        /\ IF redis_open[i] \/ Overlap(i) THEN Blame(Key(i)) ELSE UNCHANGED causes
        /\ UNCHANGED <<work, meta_id>>
     \/ /\ ~redis_open[i] /\ cache[Key(i)] \in Nat \ {Absent}
        /\ meta_id' = [meta_id EXCEPT ![i] = cache[Key(i)]]
        /\ Goto(i, "update")
        /\ UNCHANGED <<work, causes>>
  /\ UNCHANGED <<offset, redis_open, cache, alert_meta, reads,
                 expiries, moves, faults>>

\* get_duplicate_alert.  An open breaker answers "no entry"; an entry that is
\* still pending is treated like none.
Lookup(i) ==
  /\ pc[i] = "get"
  /\ \/ /\ redis_open[i] \/ cache[Key(i)] \in {Absent, Pending}
        /\ Goto(i, "set_pending")
        /\ IF redis_open[i] \/ Overlap(i) THEN Blame(Key(i)) ELSE UNCHANGED causes
        /\ UNCHANGED <<work, meta_id>>
     \/ /\ ~redis_open[i] /\ cache[Key(i)] \notin {Absent, Pending}
        /\ meta_id' = [meta_id EXCEPT ![i] = cache[Key(i)]]
        /\ Goto(i, "update")
        /\ UNCHANGED <<work, causes>>
  /\ UNCHANGED <<offset, redis_open, cache, alert_meta, reads,
                 expiries, moves, faults>>

\* update_meta_alert: count + 1 and array_append in one statement; without the
\* row it answers "Meta alert not found".
Update(i) ==
  /\ pc[i] = "update"
  /\ alert_meta' = RowsAfter(i)
  /\ IF meta_id[i] \in Rows
       THEN Goto(i, "fetch") /\ UNCHANGED <<work, meta_id>>
       ELSE GiveUp(i)
  /\ UNCHANGED <<offset, redis_open, cache, history, faults>>

\* create_new_meta_alert, from set_pending_alert to set_meta_alert; an open
\* breaker skips the writes to Redis.
SetPending(i) ==
  /\ pc[i] = "set_pending"
  /\ cache' = IF redis_open[i] THEN cache ELSE CacheAfter(i)
  /\ Goto(i, "chain")
  /\ UNCHANGED <<offset, work, meta_id, redis_open, alert_meta, history, faults>>

\* detect_attack_chain asks Postgres for related rows; its error is passed on.
DetectChain(i) ==
  /\ pc[i] = "chain"
  /\ IF ChainQueryAccepted
       THEN Goto(i, "create") /\ UNCHANGED <<work, meta_id>>
       ELSE GiveUp(i)
  /\ UNCHANGED <<offset, redis_open, cache, alert_meta, history, faults>>

Create(i) ==
  /\ pc[i] = "create"
  /\ alert_meta' = RowsAfter(i)
  /\ meta_id' = [meta_id EXCEPT ![i] = Len(alert_meta) + 1]
  /\ Goto(i, "set_meta")
  /\ UNCHANGED <<offset, work, redis_open, cache, history, faults>>

\* Mutant: the id of the youngest row is remembered.
SetMetaYoungest(i) ==
  /\ pc[i] = "set_meta"
  /\ cache' = IF redis_open[i] THEN cache ELSE [cache EXCEPT ![Key(i)] = Len(alert_meta)]
  /\ IF redis_open[i] THEN Blame(Key(i)) ELSE UNCHANGED causes
  /\ Goto(i, "fetch")
  /\ UNCHANGED <<offset, work, meta_id, redis_open, alert_meta, reads,
                 expiries, moves, faults>>

\* Mutant: the entry stays pending.
SetMetaForgotten(i) ==
  /\ pc[i] = "set_meta"
  /\ Goto(i, "fetch")
  /\ UNCHANGED <<offset, work, meta_id, redis_open, cache, alert_meta, 
                 history, faults>>

SetMeta(i) ==
  /\ pc[i] = "set_meta"
  /\ cache' = IF redis_open[i] THEN cache ELSE CacheAfter(i)
  /\ IF redis_open[i] THEN Blame(Key(i)) ELSE UNCHANGED causes
  /\ Goto(i, "fetch")
  /\ UNCHANGED <<offset, work, meta_id, redis_open, alert_meta, reads,
                 expiries, moves, faults>>

\* get_meta_alert of the row just written.
Fetch(i) ==
  /\ pc[i] = "fetch"
  /\ IF meta_id[i] \in Rows
       THEN Goto(i, "publish") /\ UNCHANGED <<work, meta_id>>
       ELSE GiveUp(i)
  /\ UNCHANGED <<offset, redis_open, cache, alert_meta, history, faults>>

\* The alert goes to correlated-alerts; if the producer's breaker is open or the
\* send fails it does not, and the loop goes on all the same.
Publish(i) ==
  /\ pc[i] = "publish"
  /\ GiveUp(i)
  /\ UNCHANGED <<offset, redis_open, cache, alert_meta, history, faults>>

-----------------------------------------------------------------------------
(* Failures.                                                               *)

\* A call of Redis fails: record_failure, which may open the breaker, and Err.
RedisFails(i) ==
  /\ pc[i] \in {"get", "set_pending", "set_meta"}
  /\ ~redis_open[i]
  /\ Fault
  /\ redis_open' \in {redis_open, [redis_open EXCEPT ![i] = TRUE]}
  /\ cache' \in {cache, CacheAfter(i)}
  /\ IF pc[i] = "set_meta" THEN Blame(Key(i)) ELSE UNCHANGED causes
  /\ GiveUp(i)
  /\ UNCHANGED <<offset, alert_meta, reads, expiries, moves>>

\* Mutant: a failed statement is tried again at once.
DbFailsRetries(i) ==
  /\ pc[i] \in {"update", "chain", "create", "fetch"}
  /\ Fault
  /\ alert_meta' \in {alert_meta, RowsAfter(i)}
  /\ IF pc[i] = "create" THEN Blame(Key(i)) ELSE UNCHANGED causes
  /\ UNCHANGED <<offset, memory, redis_open, cache, reads, expiries,
                 moves>>

\* A call of Postgres fails, perhaps after the statement was carried out.
DbFails(i) ==
  /\ pc[i] \in {"update", "chain", "create", "fetch"}
  /\ Fault
  /\ alert_meta' \in {alert_meta, RowsAfter(i)}
  /\ IF pc[i] = "create" THEN Blame(Key(i)) ELSE UNCHANGED causes
  /\ GiveUp(i)
  /\ UNCHANGED <<offset, redis_open, cache, reads, expiries, moves>>

\* enable.auto.commit: a timer commits the offsets of alerts read, done with or
\* not.  Those it has not committed are read again by whoever gets the partition.
ReadAgain(i) ==
  /\ moves < MaxMoves
  /\ moves' = moves + 1
  /\ \E S \in SUBSET {a \in Alerts : offset[a] = i} :
       offset' = [a \in Alerts |-> IF offset[a] # i THEN offset[a]
                                 ELSE IF a \in S THEN "unread" ELSE "committed"]

\* The partitions move while i is still busy with an alert.
Rebalance(i) ==
  /\ ReadAgain(i)
  /\ UNCHANGED <<memory, redis_open, cache, alert_meta, reads, expiries,
                 causes, faults>>

\* The process dies and starts again; the call under way may be carried out.
Crash(i) ==
  /\ ReadAgain(i)
  /\ cache' \in {cache, CacheAfter(i)}
  /\ alert_meta' \in {alert_meta, RowsAfter(i)}
  /\ IF pc[i] \in {"create", "set_meta"} THEN Blame(Key(i)) ELSE UNCHANGED causes
  /\ GiveUp(i)
  /\ redis_open' = [redis_open EXCEPT ![i] = FALSE]
  /\ UNCHANGED <<reads, expiries, faults>>

-----------------------------------------------------------------------------
(* Time.                                                                   *)

\* The entry has lived for aggregation_window seconds since it was last set.
Expire(k) ==
  /\ cache[k] # Absent
  /\ expiries[k] < MaxExpiries
  /\ cache' = [cache EXCEPT ![k] = Absent]
  /\ expiries' = [expiries EXCEPT ![k] = @ + 1]
  /\ UNCHANGED <<offset, memory, redis_open, alert_meta, reads, causes,
                 moves, faults>>

BreakerResets(i) ==
  /\ redis_open[i]
  /\ redis_open' = [redis_open EXCEPT ![i] = FALSE]
  /\ UNCHANGED <<offset, memory, cache, alert_meta, history, faults>>

-----------------------------------------------------------------------------
\* create_new_meta_alert
CreateNew(i) == SetPending(i) \/ DetectChain(i) \/ Create(i) \/ SetMeta(i)
Process(i) == Lookup(i) \/ Update(i) \/ CreateNew(i) \/ Fetch(i) \/ Publish(i)

Next ==
  \/ \E i \in Instances :
       \/ Receive(i) \/ Process(i)
       \/ RedisFails(i) \/ DbFails(i) \/ Rebalance(i) \/ Crash(i)
       \/ BreakerResets(i)
  \/ \E k \in Keys : Expire(k)

Spec == Init /\ [][Next]_vars

\* recv returns as long as there are messages, and every call returns.
Fairness == \A i \in Instances : WF_vars(Receive(i) \/ Process(i))

FairSpec == Spec /\ Fairness

-----------------------------------------------------------------------------
(* Properties.                                                             *)

TypeOK ==
  /\ offset \in [Alerts -> {"unread", "committed"} \union Instances]
  /\ pc \in [Instances -> Calls]
  /\ work \in [Instances -> Alerts \union {NoAlert}]
  /\ \A i \in Instances : work[i] = NoAlert <=> pc[i] = "recv"
  /\ meta_id \in [Instances -> Nat]
  /\ redis_open \in [Instances -> BOOLEAN]
  /\ cache \in [Keys -> {Pending} \union Nat]
  /\ alert_meta \in Seq([Alerts -> Nat])
  /\ reads \in [Alerts -> Nat]
  /\ expiries \in [Keys -> Nat] /\ causes \in [Keys -> Nat]
  /\ faults \in Nat /\ moves \in Nat

\* Redis and Postgres agree: an id in Redis is the id of a row, every row holds
\* alerts of one key only, and the id is filed under that key.  So no alert is
\* ever aggregated into the group of another key, and "Meta alert not found"
\* never happens, whatever instances, crashes and expiries do.
GroupsAreSound ==
  /\ \A k \in Keys : cache[k] \notin {Absent, Pending} => cache[k] \in RowsOf(k)
  /\ \A r \in Rows, a, b \in Alerts :
       Holds(r, a) /\ Holds(r, b) => KeyOf[a] = KeyOf[b]

\* An alert is published on correlated-alerts only when the database has it.
PublishedAreRecorded == \A i \in Instances : pc[i] = "publish" => Recorded(work[i])

\* An alert is counted at most once each time it is read: an aggregation_count
\* is too high only because Kafka delivered an alert twice.
CountedOncePerRead ==
  \A a \in Alerts :
    Cardinality({r \in Rows : Holds(r, a)}) <= reads[a]
    /\ \A r \in Rows : alert_meta[r][a] <= reads[a]

\* The alerts of one key are spread over more rows than windows only for a
\* cause: another instance was creating the row, an open breaker hid the entry
\* or kept the id from being written, or a call or the process failed between
\* the creation of the row and the entry that names it.  GroupingPromise says it
\* step by step, and PublishedAreRecorded too.
SplitsHaveACause ==
  \A k \in Keys : Cardinality(RowsOf(k)) <= 1 + expiries[k] + causes[k]

\* What an instance has read and not yet written to a row.
Uncounted(i) ==
  IF pc[i] \in {"get", "update", "set_pending", "chain", "create"} THEN work[i] ELSE NoAlert

\* What it has written to one and not yet published.
Unpublished(i) == IF pc[i] \in {"set_meta", "fetch", "publish"} THEN work[i] ELSE NoAlert

Grouping == INSTANCE AlertGrouping WITH
  Readers <- Instances,
  hand    <- [i \in Instances |-> Uncounted(i)],
  counted <- [i \in Instances |-> Unpublished(i)],
  groups  <- alert_meta,
  reasons <- [k \in Keys |-> expiries[k] + causes[k]]

\* The correlator keeps the promise of AlertGrouping: seen from Postgres, every
\* call of process_alert, whatever fails in it, counts the reading once, in a
\* row of its key or one there is a reason to begin, or not at all; what gets as
\* far as the producer was counted.
GroupingPromise == Grouping!Spec

\* Once the failures are over, every alert still unread is recorded, although
\* they may have left "pending" behind in Redis and breakers open.
AlertsGetRecorded ==
  \A a \in Alerts :
    (offset[a] = "unread" /\ faults = MaxFaults /\ moves = MaxMoves) ~> Recorded(a)

\* "Get correlated alerts with deduplication" (docs/API.md): an alert that is
\* read by a consumer none of whose calls fails ends up in a row.
AlertsAreCorrelated == \A a \in Alerts : offset[a] # "unread" ~> Recorded(a)
=============================================================================
