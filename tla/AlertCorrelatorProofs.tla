------------------------ MODULE AlertCorrelatorProofs ------------------------
(***************************************************************************)
(* Theorems about AlertCorrelator for any finite sets of alerts, keys and  *)
(* instances, and any number of failures, crashes and windows.             *)
(***************************************************************************)
EXTENDS AlertCorrelator, SequenceTheorems, FiniteSetTheorems, TLAPS

\* Row r belongs to key k: it holds an alert of k and none of another key.
OfKey(r, k) ==
  /\ r \in Rows
  /\ \E a \in Alerts : Holds(r, a)
  /\ \A a \in Alerts : Holds(r, a) => KeyOf[a] = k

\* The id an instance goes by names a row of its alert's key; past the statement
\* that writes the row, the alert is in it.
InHand(i) ==
  /\ pc[i] \in {"update", "set_meta", "fetch", "publish"} => OfKey(meta_id[i], Key(i))
  /\ pc[i] \in {"set_meta", "fetch", "publish"} => Holds(meta_id[i], work[i])

\* So does every id in Redis, and every row belongs to one key.
IdsInv ==
  /\ \A r \in Rows : \E k \in Keys : OfKey(r, k)
  /\ \A k \in Keys : cache[k] \notin {Absent, Pending} => OfKey(cache[k], k)
  /\ \A i \in Instances : InHand(i)

IInv == TypeOK /\ IdsInv

\* What update_meta_alert does to the rows.
LEMMA UpdatedRows ==
  ASSUME TypeOK, NEW i \in Instances, pc[i] = "update", meta_id[i] \in Rows
  PROVE  /\ RowsAfter(i) \in Seq([Alerts -> Nat])
         /\ Len(RowsAfter(i)) = Len(alert_meta)
         /\ \A r \in Rows : RowsAfter(i)[r] =
              IF r = meta_id[i] THEN [alert_meta[r] EXCEPT ![work[i]] = @ + 1]
                                ELSE alert_meta[r]
<1> DEFINE m == meta_id[i]
           row == [alert_meta[m] EXCEPT ![work[i]] = @ + 1]
<1>1. work[i] \in Alerts /\ alert_meta \in Seq([Alerts -> Nat])
  BY DEF TypeOK
<1>2. alert_meta[m] \in [Alerts -> Nat]
  BY <1>1, ElementOfSeq DEF Rows
<1>3. row \in [Alerts -> Nat]
  BY <1>1, <1>2
<1>4. RowsAfter(i) = [alert_meta EXCEPT ![m] = row]
  BY DEF RowsAfter
<1> HIDE DEF row
<1>5. /\ [alert_meta EXCEPT ![m] = row] \in Seq([Alerts -> Nat])
      /\ Len([alert_meta EXCEPT ![m] = row]) = Len(alert_meta)
      /\ \A r \in Rows : [alert_meta EXCEPT ![m] = row][r] = IF r = m THEN row ELSE alert_meta[r]
  BY <1>1, <1>3, ExceptSeq DEF Rows
<1> QED
  BY <1>4, <1>5 DEF row

LEMMA RowsType ==
  ASSUME TypeOK, NEW i \in Instances, pc[i] # "recv"
  PROVE  RowsAfter(i) \in Seq([Alerts -> Nat])
<1>1. CASE pc[i] = "update" /\ meta_id[i] \in Rows
  BY <1>1, UpdatedRows
<1>2. CASE pc[i] = "create"
  <2>1. Once(work[i]) \in [Alerts -> Nat]
    BY DEF Once
  <2>2. RowsAfter(i) = Append(alert_meta, Once(work[i]))
    BY <1>2 DEF RowsAfter
  <2> QED
    BY <2>1, <2>2 DEF TypeOK
<1>3. CASE ~(pc[i] = "update" /\ meta_id[i] \in Rows) /\ pc[i] # "create"
  BY <1>3 DEF RowsAfter, TypeOK
<1> QED
  BY <1>1, <1>2, <1>3

\* A statement of i leaves every row with its key and its alerts.
LEMMA RowsKeep ==
  ASSUME IInv, NEW i \in Instances, pc[i] # "recv", alert_meta' = RowsAfter(i)
  PROVE  /\ \A r \in Rows : r \in Rows'
         /\ \A r \in Rows, a \in Alerts : Holds(r, a) => Holds(r, a)'
         /\ \A r \in Rows, k \in Keys : OfKey(r, k) => OfKey(r, k)'
<1> USE CorrelatorAssumption DEF IInv, TypeOK, Calls, Creating
<1>1. work[i] \in Alerts /\ Key(i) \in Keys
  BY DEF Key
<1>2. CASE pc[i] = "update" /\ meta_id[i] \in Rows
  <2> DEFINE m == meta_id[i]
  <2>1. OfKey(m, Key(i))
    BY <1>2 DEF IdsInv, InHand
  <2>3. Rows' = Rows
    BY <1>2, UpdatedRows DEF Rows
  <2>4. ASSUME NEW r \in Rows, NEW a \in Alerts
        PROVE  Holds(r, a)' <=> Holds(r, a) \/ (r = m /\ a = work[i])
    <3>1. alert_meta[r] \in [Alerts -> Nat]
      BY ElementOfSeq DEF Rows
    <3>2. (alert_meta')[r] = IF r = m THEN [alert_meta[r] EXCEPT ![work[i]] = @ + 1]
                                      ELSE alert_meta[r]
      BY <1>2, UpdatedRows
    <3> HIDE DEF m
    <3>3. CASE r = m /\ a = work[i]
      BY <3>1, <3>2, <3>3, <1>1 DEF Holds
    <3>4. CASE ~(r = m /\ a = work[i])
      BY <3>1, <3>2, <3>4, <1>1 DEF Holds
    <3> QED
      BY <3>3, <3>4
  <2>5. ASSUME NEW r \in Rows, NEW k \in Keys, OfKey(r, k) PROVE OfKey(r, k)'
    <3>1. r = m => k = Key(i)
      BY <2>1, <2>5 DEF OfKey
    <3> QED
      BY <2>3, <2>4, <2>5, <3>1 DEF OfKey, Key
  <2> QED
    BY <2>3, <2>4, <2>5
<1>3. CASE pc[i] = "create"
  <2>1. alert_meta' = Append(alert_meta, Once(work[i]))
    BY <1>3 DEF RowsAfter
  <2>2. \A r \in Rows : r \in Rows' /\ (alert_meta')[r] = alert_meta[r]
    BY <2>1 DEF Rows
  <2> QED
    BY <2>2 DEF Holds, OfKey
<1>4. CASE ~(pc[i] = "update" /\ meta_id[i] \in Rows) /\ pc[i] # "create"
  <2>1. alert_meta' = alert_meta
    BY <1>4 DEF RowsAfter
  <2> QED
    BY <2>1 DEF Rows, Holds, OfKey
<1> QED
  BY <1>2, <1>3, <1>4

\* The row Create appends belongs to the key of its alert.
LEMMA NewRow ==
  ASSUME TypeOK, NEW i \in Instances, pc[i] = "create", alert_meta' = RowsAfter(i),
         NEW a, a = work[i], NEW n, n = Len(alert_meta) + 1
  PROVE  OfKey(n, KeyOf[a])' /\ Holds(n, a)' /\ Rows' = Rows \union {n}
<1>1. a \in Alerts /\ n \in Nat /\ alert_meta \in Seq([Alerts -> Nat]) /\ Once(a) \in [Alerts -> Nat]
  BY DEF TypeOK, Once
<1>2. alert_meta' = Append(alert_meta, Once(a))
  BY DEF RowsAfter
<1>3. (alert_meta')[n] = Once(a) /\ Rows' = Rows \union {n}
  BY <1>1, <1>2 DEF Rows
<1>4. \A b \in Alerts : Holds(n, b)' <=> b = a
  BY <1>3 DEF Holds, Once
<1> QED
  BY <1>1, <1>3, <1>4 DEF OfKey

\* A step of i that carries out at most i's own call, and leaves i with a sound
\* id, leaves all ids sound.
LEMMA StepOf ==
  ASSUME IInv, NEW i \in Instances, InHand(i)',
         alert_meta' \in {alert_meta, RowsAfter(i)},
         cache' \in {cache, CacheAfter(i)},
         \A j \in Instances \ {i} :
           pc'[j] = pc[j] /\ work'[j] = work[j] /\ meta_id'[j] = meta_id[j]
  PROVE  IdsInv'
<1> USE DEF IInv
<1>1. /\ \A r \in Rows : r \in Rows'
      /\ \A r \in Rows, a \in Alerts : Holds(r, a) => Holds(r, a)'
      /\ \A r \in Rows, k \in Keys : OfKey(r, k) => OfKey(r, k)'
  <2>1. CASE alert_meta' = alert_meta
    BY <2>1 DEF Rows, Holds, OfKey
  <2>2. CASE alert_meta' = RowsAfter(i) /\ pc[i] # "recv"
    BY <2>2, RowsKeep
  <2>3. pc[i] = "recv" => RowsAfter(i) = alert_meta
    BY DEF RowsAfter
  <2> QED
    BY <2>1, <2>2, <2>3
<1>2. \A r \in Rows' : \E k \in Keys : OfKey(r, k)'
  <2>1. CASE Rows' = Rows
    BY <2>1, <1>1 DEF IdsInv
  <2>2. CASE pc[i] = "create" /\ alert_meta' = RowsAfter(i)
    <3> DEFINE n == Len(alert_meta) + 1
               a == work[i]
    <3>1. PICK m : m = n
      OBVIOUS
    <3>2. PICK b : b = a
      OBVIOUS
    <3>3. OfKey(m, KeyOf[b])' /\ Rows' = Rows \union {m}
      BY <2>2, <3>1, <3>2, NewRow
    <3>4. KeyOf[b] \in Keys
      BY <2>2, <3>2, CorrelatorAssumption DEF TypeOK
    <3> QED
      BY <1>1, <3>3, <3>4 DEF IdsInv
  <2>3. CASE pc[i] = "update" /\ meta_id[i] \in Rows /\ alert_meta' = RowsAfter(i)
    <3>1. Rows' = Rows
      BY <2>3, UpdatedRows DEF Rows
    <3> QED
      BY <3>1, <2>1
  <2>4. CASE alert_meta' = alert_meta
    BY <2>4, <2>1 DEF Rows
  <2> QED
    BY <2>2, <2>3, <2>4 DEF RowsAfter
<1>3. ASSUME NEW k \in Keys, (cache[k] \notin {Absent, Pending})'
      PROVE  OfKey(cache[k], k)'
  <2>1. CASE cache'[k] = cache[k]
    <3>1. OfKey(cache[k], k)
      BY <1>3, <2>1 DEF IdsInv
    <3>2. PICK r : r = cache[k]
      OBVIOUS
    <3>3. OfKey(r, k)'
      BY <1>1, <3>1, <3>2 DEF OfKey
    <3> QED
      BY <2>1, <3>2, <3>3 DEF OfKey
  <2>2. CASE cache'[k] # cache[k]
    <3>1. pc[i] = "set_meta" /\ k = Key(i) /\ cache'[k] = meta_id[i]
      BY <1>3, <2>2 DEF CacheAfter, TypeOK
    <3>2. OfKey(meta_id[i], k)
      BY <3>1 DEF IdsInv, InHand
    <3>3. PICK r : r = meta_id[i]
      OBVIOUS
    <3>4. OfKey(r, k)'
      BY <1>1, <3>2, <3>3 DEF OfKey
    <3> QED
      BY <3>1, <3>3, <3>4 DEF OfKey
  <2> QED
    BY <2>1, <2>2
<1>4. ASSUME NEW j \in Instances \ {i} PROVE InHand(j)'
  <2>1. pc'[j] = pc[j] /\ work'[j] = work[j] /\ meta_id'[j] = meta_id[j] /\ InHand(j)
    BY DEF IdsInv
  <2>2. work[j] # NoAlert => work[j] \in Alerts /\ Key(j) \in Keys
    BY CorrelatorAssumption DEF TypeOK, Key
  <2>3. Key(j)' = Key(j)
    BY <2>1 DEF Key
  <2>4. pc[j] \in {"update", "set_meta", "fetch", "publish"} => work[j] # NoAlert
    BY DEF TypeOK
  <2> QED
    BY <1>1, <2>1, <2>2, <2>3, <2>4 DEF InHand, OfKey
<1> QED
  BY <1>2, <1>3, <1>4 DEF IdsInv

-----------------------------------------------------------------------------
(* Type correctness.                                                       *)

\* What a call leaves in Redis is an entry.
LEMMA CacheType ==
  ASSUME TypeOK, NEW i \in Instances, pc[i] # "recv"
  PROVE  CacheAfter(i) \in [Keys -> {Pending} \union Nat]
<1>1. Key(i) \in Keys
  BY CorrelatorAssumption DEF TypeOK, Key
<1> QED
  BY <1>1 DEF TypeOK, CacheAfter

\* What an instance remembers, and the history.
MemoryOK ==
  /\ pc \in [Instances -> Calls]
  /\ work \in [Instances -> Alerts \union {NoAlert}]
  /\ \A i \in Instances : work[i] = NoAlert <=> pc[i] = "recv"
  /\ meta_id \in [Instances -> Nat]
HistoryOK ==
  /\ offset \in [Alerts -> {"unread", "committed"} \union Instances]
  /\ reads \in [Alerts -> Nat]
  /\ expiries \in [Keys -> Nat] /\ causes \in [Keys -> Nat]
  /\ faults \in Nat /\ moves \in Nat
StoresOK ==
  /\ redis_open \in [Instances -> BOOLEAN]
  /\ cache \in [Keys -> {Pending} \union Nat]
  /\ alert_meta \in Seq([Alerts -> Nat])

LEMMA TypeParts == TypeOK <=> MemoryOK /\ HistoryOK /\ StoresOK
  BY DEF TypeOK, MemoryOK, HistoryOK, StoresOK

LEMMA GiveUpType == ASSUME MemoryOK, NEW i \in Instances, GiveUp(i) PROVE MemoryOK'
  BY CorrelatorAssumption DEF MemoryOK, GiveUp, Calls

LEMMA GotoType ==
  ASSUME MemoryOK, NEW i \in Instances, NEW s \in Calls \ {"recv"}, pc[i] # "recv",
         Goto(i, s), work' = work, NEW n \in Nat,
         meta_id' \in {meta_id, [meta_id EXCEPT ![i] = n]}
  PROVE  MemoryOK'
  BY DEF MemoryOK, Goto

\* The alert in hand has a key.
LEMMA KeyType ==
  ASSUME TypeOK, NEW i \in Instances, pc[i] # "recv"
  PROVE  work[i] \in Alerts /\ Key(i) \in Keys
  BY CorrelatorAssumption DEF TypeOK, Key

LEMMA BlameType ==
  ASSUME NEW k \in Keys, causes \in [Keys -> Nat], Blame(k) \/ causes' = causes
  PROVE  causes' \in [Keys -> Nat]
  BY DEF Blame

LEMMA TypeStep == TypeOK /\ [Next]_vars => TypeOK'
<1> SUFFICES ASSUME TypeOK, [Next]_vars PROVE MemoryOK' /\ HistoryOK' /\ StoresOK'
  BY DEF TypeOK, MemoryOK, HistoryOK, StoresOK
<1>t. MemoryOK /\ HistoryOK /\ StoresOK
  BY TypeParts
<1>c. \A s \in {"update", "fetch", "publish", "set_pending", "chain", "create", "set_meta"} :
        s \in Calls \ {"recv"}
  BY DEF Calls, Creating
<1> DEFINE Good == MemoryOK' /\ HistoryOK' /\ StoresOK'
<1>1. ASSUME NEW i \in Instances, Receive(i) PROVE Good
  BY <1>1, <1>t, CorrelatorAssumption
     DEF MemoryOK, HistoryOK, StoresOK, Receive, Goto, Calls, Creating
<1>2. ASSUME NEW i \in Instances, Lookup(i) PROVE Good
  <2>1. Key(i) \in Keys /\ pc[i] # "recv"
    BY <1>2, KeyType DEF Lookup
  <2>2. MemoryOK'
    <3>1. CASE Goto(i, "set_pending") /\ UNCHANGED <<work, meta_id>>
      BY <1>t, <1>c, <2>1, <3>1, GotoType
    <3>2. CASE /\ cache[Key(i)] \notin {Absent, Pending}
               /\ meta_id' = [meta_id EXCEPT ![i] = cache[Key(i)]]
               /\ Goto(i, "update") /\ work' = work
      <4>1. cache[Key(i)] \in Nat
        BY <1>t, <2>1, <3>2 DEF StoresOK
      <4> QED
        BY <1>t, <1>c, <2>1, <3>2, <4>1, GotoType
    <3> QED
      BY <1>2, <3>1, <3>2 DEF Lookup
  <2>3. Blame(Key(i)) \/ causes' = causes
    BY <1>2 DEF Lookup
  <2>4. causes' \in [Keys -> Nat]
    BY <1>t, <2>1, <2>3, BlameType DEF HistoryOK
  <2> QED
    BY <1>2, <1>t, <2>2, <2>4 DEF Lookup, HistoryOK, StoresOK
<1>3. ASSUME NEW i \in Instances, Update(i) PROVE Good
  <2>1. alert_meta' \in Seq([Alerts -> Nat])
    BY <1>3, RowsType DEF Update
  <2>2. MemoryOK'
    BY <1>3, <1>t, <1>c, GotoType, GiveUpType DEF Update
  <2> QED
    BY <1>3, <1>t, <2>1, <2>2 DEF Update, history, HistoryOK, StoresOK
<1>4. ASSUME NEW i \in Instances, SetPending(i) PROVE Good
  <2>1. cache' \in [Keys -> {Pending} \union Nat]
    BY <1>4, <1>t, CacheType DEF SetPending, StoresOK
  <2>2. MemoryOK'
    BY <1>4, <1>t, <1>c, GotoType DEF SetPending
  <2> QED
    BY <1>4, <1>t, <2>1, <2>2 DEF SetPending, history, HistoryOK, StoresOK
<1>5. ASSUME NEW i \in Instances, DetectChain(i) PROVE Good
  <2>1. MemoryOK'
    BY <1>5, <1>t, <1>c, GotoType, GiveUpType DEF DetectChain
  <2> QED
    BY <1>5, <1>t, <2>1 DEF DetectChain, history, HistoryOK, StoresOK
<1>6. ASSUME NEW i \in Instances, Create(i) PROVE Good
  <2>1. alert_meta' \in Seq([Alerts -> Nat])
    BY <1>6, RowsType DEF Create
  <2>2. Len(alert_meta) + 1 \in Nat
    BY <1>t DEF StoresOK
  <2>3. MemoryOK'
    BY <1>6, <1>t, <1>c, <2>2, GotoType DEF Create
  <2> QED
    BY <1>6, <1>t, <2>1, <2>3 DEF Create, history, HistoryOK, StoresOK
<1>7. ASSUME NEW i \in Instances, SetMeta(i) PROVE Good
  <2>1. cache' \in [Keys -> {Pending} \union Nat]
    BY <1>7, <1>t, CacheType DEF SetMeta, StoresOK
  <2>2. MemoryOK'
    BY <1>7, <1>t, <1>c, GotoType DEF SetMeta
  <2>3. causes' \in [Keys -> Nat]
    BY <1>7, <1>t, KeyType, BlameType DEF SetMeta, HistoryOK
  <2> QED
    BY <1>7, <1>t, <2>1, <2>2, <2>3 DEF SetMeta, HistoryOK, StoresOK
<1>8. ASSUME NEW i \in Instances, Fetch(i) \/ Publish(i) PROVE Good
  <2>1. MemoryOK'
    BY <1>8, <1>t, <1>c, GotoType, GiveUpType DEF Fetch, Publish
  <2> QED
    BY <1>8, <1>t, <2>1 DEF Fetch, Publish, history, HistoryOK, StoresOK
<1>9. ASSUME NEW i \in Instances, RedisFails(i) PROVE Good
  <2>1. cache' \in [Keys -> {Pending} \union Nat]
    BY <1>9, <1>t, CacheType DEF RedisFails, StoresOK
  <2>2. MemoryOK'
    BY <1>9, <1>t, GiveUpType DEF RedisFails
  <2>3. causes' \in [Keys -> Nat]
    BY <1>9, <1>t, KeyType, BlameType DEF RedisFails, HistoryOK
  <2>4. redis_open' \in [Instances -> BOOLEAN]
    BY <1>9, <1>t, Zenon DEF RedisFails, StoresOK
  <2>5. faults' \in Nat
    BY <1>9, <1>t DEF RedisFails, Fault, HistoryOK
  <2> QED
    BY <1>9, <1>t, <2>1, <2>2, <2>3, <2>4, <2>5 DEF RedisFails, HistoryOK, StoresOK
<1>10. ASSUME NEW i \in Instances, DbFails(i) PROVE Good
  <2>1. alert_meta' \in Seq([Alerts -> Nat])
    BY <1>10, <1>t, RowsType DEF DbFails, StoresOK
  <2>2. MemoryOK'
    BY <1>10, <1>t, GiveUpType DEF DbFails
  <2>3. causes' \in [Keys -> Nat]
    BY <1>10, <1>t, KeyType, BlameType DEF DbFails, HistoryOK
  <2>4. faults' \in Nat
    BY <1>10, <1>t DEF DbFails, Fault, HistoryOK
  <2> QED
    BY <1>10, <1>t, <2>1, <2>2, <2>3, <2>4 DEF DbFails, HistoryOK, StoresOK
<1>11. ASSUME NEW i \in Instances, Rebalance(i) PROVE Good
  BY <1>11, <1>t DEF MemoryOK, HistoryOK, StoresOK, Rebalance, ReadAgain, memory
<1>12. ASSUME NEW i \in Instances, Crash(i) PROVE Good
  <2>1. alert_meta' \in Seq([Alerts -> Nat]) /\ cache' \in [Keys -> {Pending} \union Nat]
    <3>1. CASE pc[i] = "recv"
      BY <1>12, <1>t, <3>1 DEF Crash, StoresOK, RowsAfter, CacheAfter
    <3>2. CASE pc[i] # "recv"
      BY <1>12, <1>t, <3>2, RowsType, CacheType DEF Crash, StoresOK
    <3> QED
      BY <3>1, <3>2
  <2>2. MemoryOK'
    BY <1>12, <1>t, GiveUpType DEF Crash
  <2>3. causes' \in [Keys -> Nat]
    BY <1>12, <1>t, KeyType, BlameType DEF Crash, HistoryOK
  <2>4. redis_open' \in [Instances -> BOOLEAN]
    BY <1>12, <1>t, Zenon DEF Crash, StoresOK
  <2> QED
    BY <1>12, <1>t, <2>1, <2>2, <2>3, <2>4 DEF Crash, ReadAgain, HistoryOK, StoresOK
<1>13. ASSUME NEW k \in Keys, Expire(k) PROVE Good
  <2>1. cache' \in [Keys -> {Pending} \union Nat] /\ expiries' \in [Keys -> Nat]
    BY <1>13, <1>t DEF Expire, StoresOK, HistoryOK, Absent
  <2> QED
    BY <1>13, <1>t, <2>1 DEF Expire, memory, MemoryOK, HistoryOK, StoresOK
<1>14. ASSUME NEW i \in Instances, BreakerResets(i) PROVE Good
  <2>1. redis_open' \in [Instances -> BOOLEAN]
    BY <1>14, <1>t, Zenon DEF BreakerResets, StoresOK
  <2> QED
    BY <1>14, <1>t, <2>1
       DEF BreakerResets, memory, history, MemoryOK, HistoryOK, StoresOK
<1>15. CASE UNCHANGED vars
  BY <1>15, <1>t DEF vars, memory, history, MemoryOK, HistoryOK, StoresOK
<1> QED
  BY <1>1, <1>2, <1>3, <1>4, <1>5, <1>6, <1>7, <1>8, <1>9, <1>10, <1>11, <1>12,
     <1>13, <1>14, <1>15 DEF Next, Process, CreateNew

\* Type correctness, for any alerts, keys and instances.
THEOREM TypeCorrect == Spec => []TypeOK
<1>1. Init => TypeOK
  BY CorrelatorAssumption DEF Init, TypeOK, Calls, Absent
<1> QED
  BY <1>1, TypeStep, PTL DEF Spec
-----------------------------------------------------------------------------
(* The ids in Redis and in memory are sound.                               *)

\* A step that touches neither rows nor memory, and at most clears an entry.
LEMMA Untouched ==
  ASSUME IdsInv, UNCHANGED <<memory, alert_meta>>,
         \A k \in Keys : cache'[k] \in {cache[k], Absent}
  PROVE  IdsInv'
<1>1. Rows' = Rows
  BY DEF Rows
<1>2. ASSUME NEW k \in Keys, (cache[k] \notin {Absent, Pending})'
      PROVE  OfKey(cache[k], k)'
  <2>1. cache'[k] = cache[k]
    BY <1>2
  <2> QED
    BY <1>1, <1>2, <2>1 DEF IdsInv, OfKey, Holds
<1>3. ASSUME NEW i \in Instances PROVE InHand(i)'
  <2>1. InHand(i)
    BY DEF IdsInv
  <2> QED
    BY <1>1, <2>1 DEF InHand, OfKey, Holds, Key, memory
<1>4. \A r \in Rows' : \E k \in Keys : OfKey(r, k)'
  BY <1>1 DEF IdsInv, OfKey, Holds
<1> QED
  BY <1>2, <1>3, <1>4 DEF IdsInv

\* An instance that goes on with the same id and the same rows.
LEMMA SameId ==
  ASSUME IInv, NEW i \in Instances,
         pc[i] \in {"set_meta", "fetch"}, pc'[i] \in {"fetch", "publish"},
         UNCHANGED <<work, meta_id, alert_meta>>
  PROVE  InHand(i)'
<1>1. OfKey(meta_id[i], Key(i)) /\ Holds(meta_id[i], work[i])
  BY DEF IInv, IdsInv, InHand
<1> QED
  BY <1>1 DEF InHand, OfKey, Holds, Key, Rows

LEMMA Idle ==
  ASSUME NEW i, pc'[i] \notin {"update", "set_meta", "fetch", "publish"}
  PROVE  InHand(i)'
  BY DEF InHand

\* The rest of the instances keep what they remember.
Others(i) == \A j \in Instances \ {i} :
               pc'[j] = pc[j] /\ work'[j] = work[j] /\ meta_id'[j] = meta_id[j]

LEMMA GiveUpIdle ==
  ASSUME TypeOK, NEW i \in Instances, GiveUp(i) PROVE Others(i) /\ InHand(i)'
<1>1. Others(i) /\ pc'[i] = "recv"
  BY DEF TypeOK, GiveUp, Others
<1> QED
  BY <1>1, Idle

LEMMA GotoOthers ==
  ASSUME TypeOK, NEW i \in Instances, NEW s, Goto(i, s), work' = work,
         NEW n, meta_id' \in {meta_id, [meta_id EXCEPT ![i] = n]}
  PROVE  Others(i) /\ pc'[i] = s
  BY DEF TypeOK, Goto, Others

LEMMA IdsStep == IInv /\ [Next]_vars => IdsInv'
<1> SUFFICES ASSUME IInv, [Next]_vars PROVE IdsInv'
  OBVIOUS
<1>t. TypeOK /\ IdsInv
  BY DEF IInv
<1>s. ASSUME NEW i \in Instances, InHand(i)', Others(i),
             alert_meta' \in {alert_meta, RowsAfter(i)}, cache' \in {cache, CacheAfter(i)}
      PROVE  IdsInv'
  BY <1>s, StepOf DEF Others
<1>1. ASSUME NEW i \in Instances, Receive(i) PROVE IdsInv'
  <2>1. Others(i) /\ pc'[i] = "get"
    BY <1>1, <1>t DEF Receive, Goto, TypeOK, Others
  <2> QED
    BY <1>1, <1>s, <2>1, Idle DEF Receive
<1>2. ASSUME NEW i \in Instances, Lookup(i) PROVE IdsInv'
  <2>1. Others(i)
    BY <1>2, <1>t, GotoOthers DEF Lookup
  <2>2. InHand(i)'
    <3>1. CASE pc'[i] = "set_pending"
      BY <3>1, Idle
    <3>2. CASE /\ cache[Key(i)] \notin {Absent, Pending}
               /\ meta_id' = [meta_id EXCEPT ![i] = cache[Key(i)]]
               /\ Goto(i, "update") /\ work' = work
      <4>1. OfKey(cache[Key(i)], Key(i))
        BY <1>2, <1>t, <3>2, KeyType DEF IdsInv, Lookup
      <4>2. pc'[i] = "update" /\ meta_id'[i] = cache[Key(i)]
        BY <1>t, <3>2 DEF TypeOK, Goto
      <4> QED
        BY <1>2, <3>2, <4>1, <4>2 DEF Lookup, InHand, OfKey, Holds, Key, Rows
    <3>3. Goto(i, "set_pending") => pc'[i] = "set_pending"
      BY <1>t DEF Goto, TypeOK
    <3> QED
      BY <1>2, <3>1, <3>2, <3>3 DEF Lookup
  <2> QED
    BY <1>2, <1>s, <2>1, <2>2 DEF Lookup
<1>3. ASSUME NEW i \in Instances, Update(i) PROVE IdsInv'
  <2>1. CASE ~(meta_id[i] \in Rows)
    BY <1>3, <1>t, <1>s, <2>1, GiveUpIdle DEF Update
  <2>2. CASE meta_id[i] \in Rows
    <3>1. Others(i) /\ pc'[i] = "fetch" /\ work' = work /\ meta_id' = meta_id
      BY <1>3, <1>t, <2>2, GotoOthers DEF Update
    <3>2. PICK m : m = meta_id[i]
      OBVIOUS
    <3>3. PICK a : a = work[i]
      OBVIOUS
    <3>4. OfKey(m, KeyOf[a])' /\ m \in Rows /\ a \in Alerts
      BY <1>3, <1>t, <2>2, <3>2, <3>3, RowsKeep, KeyType DEF IdsInv, InHand, Update, Key
    <3>5. (alert_meta')[m] = [alert_meta[m] EXCEPT ![a] = @ + 1]
      BY <1>3, <1>t, <2>2, <3>2, <3>3, UpdatedRows DEF Update
    <3>6. alert_meta[m] \in [Alerts -> Nat]
      BY <1>t, <3>4, ElementOfSeq DEF TypeOK, Rows
    <3>7. Holds(m, a)'
      BY <3>4, <3>5, <3>6 DEF Holds
    <3>8. InHand(i)'
      BY <3>1, <3>2, <3>3, <3>4, <3>7 DEF InHand, OfKey, Holds, Key
    <3> QED
      BY <1>3, <1>s, <3>1, <3>8 DEF Update
  <2> QED
    BY <2>1, <2>2
<1>4. ASSUME NEW i \in Instances, SetPending(i) PROVE IdsInv'
  <2>1. Others(i) /\ pc'[i] = "chain"
    BY <1>4, <1>t, GotoOthers DEF SetPending
  <2> QED
    BY <1>4, <1>s, <2>1, Idle DEF SetPending
<1>5. ASSUME NEW i \in Instances, DetectChain(i) PROVE IdsInv'
  <2>1. CASE GiveUp(i)
    BY <1>5, <1>t, <1>s, <2>1, GiveUpIdle DEF DetectChain
  <2>2. CASE Goto(i, "create") /\ UNCHANGED <<work, meta_id>>
    <3>1. Others(i) /\ pc'[i] = "create"
      BY <1>t, <2>2, GotoOthers
    <3> QED
      BY <1>5, <1>s, <3>1, Idle DEF DetectChain
  <2> QED
    BY <1>5, <2>1, <2>2 DEF DetectChain
<1>6. ASSUME NEW i \in Instances, Create(i) PROVE IdsInv'
  <2>1. PICK n : n = Len(alert_meta) + 1
    OBVIOUS
  <2>2. PICK a : a = work[i]
    OBVIOUS
  <2>m. meta_id' = [meta_id EXCEPT ![i] = n] /\ Goto(i, "set_meta") /\ work' = work
    BY <1>6, <2>1 DEF Create
  <2>o. Others(i) /\ pc'[i] = "set_meta"
    BY <1>t, <2>m DEF TypeOK, Goto, Others
  <2>3. Others(i) /\ pc'[i] = "set_meta" /\ meta_id'[i] = n /\ work' = work
    BY <1>t, <2>m, <2>o DEF TypeOK
  <2>4. OfKey(n, KeyOf[a])' /\ Holds(n, a)'
    <3>1. pc[i] = "create" /\ alert_meta' = RowsAfter(i)
      BY <1>6 DEF Create
    <3> QED
      BY <1>t, <2>1, <2>2, <3>1, NewRow
  <2>5. InHand(i)'
    BY <2>2, <2>3, <2>4 DEF InHand, OfKey, Holds, Key
  <2> QED
    BY <1>6, <1>s, <2>3, <2>5 DEF Create
<1>7. ASSUME NEW i \in Instances, SetMeta(i) PROVE IdsInv'
  <2>1. Others(i) /\ pc'[i] = "fetch"
    BY <1>7, <1>t, GotoOthers DEF SetMeta
  <2>2. InHand(i)'
    BY <1>7, <2>1, SameId DEF SetMeta
  <2> QED
    BY <1>7, <1>s, <2>1, <2>2 DEF SetMeta
<1>8. ASSUME NEW i \in Instances, Fetch(i) PROVE IdsInv'
  <2>1. CASE GiveUp(i)
    BY <1>8, <1>t, <1>s, <2>1, GiveUpIdle DEF Fetch
  <2>2. CASE Goto(i, "publish") /\ UNCHANGED <<work, meta_id>>
    <3>1. Others(i) /\ pc'[i] = "publish"
      BY <1>t, <2>2, GotoOthers
    <3>2. InHand(i)'
      BY <1>8, <2>2, <3>1, SameId DEF Fetch
    <3> QED
      BY <1>8, <1>s, <3>1, <3>2 DEF Fetch
  <2> QED
    BY <1>8, <2>1, <2>2 DEF Fetch
<1>9. ASSUME NEW i \in Instances, Publish(i) \/ RedisFails(i) \/ DbFails(i) \/ Crash(i)
      PROVE  IdsInv'
  BY <1>9, <1>t, <1>s, GiveUpIdle DEF Publish, RedisFails, DbFails, Crash
<1>10. ASSUME NEW i \in Instances, Rebalance(i) \/ BreakerResets(i) PROVE IdsInv'
  BY <1>10, <1>t, Untouched DEF Rebalance, BreakerResets
<1>11. ASSUME NEW k \in Keys, Expire(k) PROVE IdsInv'
  <2>1. \A l \in Keys : cache'[l] \in {cache[l], Absent}
    BY <1>11, <1>t DEF Expire, TypeOK
  <2> QED
    BY <1>11, <1>t, <2>1, Untouched DEF Expire
<1>12. CASE UNCHANGED vars
  BY <1>12, <1>t, Untouched DEF vars
<1> QED
  BY <1>1, <1>2, <1>3, <1>4, <1>5, <1>6, <1>7, <1>8, <1>9, <1>10, <1>11, <1>12
     DEF Next, Process, CreateNew

LEMMA IdsInvariant == Spec => []IInv
<1>1. Init => IInv
  BY CorrelatorAssumption
     DEF Init, IInv, IdsInv, InHand, Rows, TypeOK, Calls, Absent
<1>2. IInv /\ [Next]_vars => IInv'
  BY TypeStep, IdsStep DEF IInv
<1> QED
  BY <1>1, <1>2, PTL DEF Spec

\* No alert is ever counted into the group of another key, and no id in Redis
\* is without its row, however instances, failures, crashes, rebalances and
\* expiries interleave.
THEOREM GroupsSound == Spec => []GroupsAreSound
<1>1. IInv => GroupsAreSound
  <2> SUFFICES ASSUME IInv PROVE GroupsAreSound
    OBVIOUS
  <2>1. ASSUME NEW k \in Keys, cache[k] \notin {Absent, Pending}
        PROVE  cache[k] \in RowsOf(k)
    BY <2>1 DEF IInv, IdsInv, OfKey, RowsOf
  <2>2. ASSUME NEW r \in Rows, NEW a \in Alerts, NEW b \in Alerts, Holds(r, a), Holds(r, b)
        PROVE  KeyOf[a] = KeyOf[b]
    BY <2>2 DEF IInv, IdsInv, OfKey
  <2> QED
    BY <2>1, <2>2 DEF GroupsAreSound
<1> QED
  BY <1>1, IdsInvariant, PTL

\* What the consumers of correlated-alerts see is in the database.
THEOREM PublishedRecorded == Spec => []PublishedAreRecorded
<1>1. IInv => PublishedAreRecorded
  BY DEF IInv, IdsInv, InHand, OfKey, PublishedAreRecorded, Recorded
<1> QED
  BY <1>1, IdsInvariant, PTL

-----------------------------------------------------------------------------
(* Counts.                                                                 *)

\* The calls up to the statement that writes the alert into a row, the instances
\* that are at one of them with alert a, and the rows that hold a.
ToWrite == {"get", "update", "set_pending", "chain", "create"}
Writers(p, w, a) == {j \in Instances : w[j] = a /\ p[j] \in ToWrite}
Holders(rows, a) == {r \in 1 .. Len(rows) : rows[r][a] > 0}

\* Each read of an alert is still to be written, or has been, or never will be.
CountInv ==
  \A a \in Alerts :
    /\ Cardinality(Holders(alert_meta, a)) + Cardinality(Writers(pc, work, a)) <= reads[a]
    /\ \A r \in Rows : alert_meta[r][a] + Cardinality(Writers(pc, work, a)) <= reads[a]

LEMMA WritersFinite ==
  ASSUME NEW p, NEW w, NEW a
  PROVE  IsFiniteSet(Writers(p, w, a)) /\ Cardinality(Writers(p, w, a)) \in Nat
<1>1. Writers(p, w, a) \subseteq Instances /\ IsFiniteSet(Instances)
  BY CorrelatorAssumption DEF Writers
<1>2. IsFiniteSet(Writers(p, w, a))
  BY <1>1, FS_Subset
<1> QED
  BY <1>2, FS_CardinalityType

LEMMA HoldersFinite ==
  ASSUME NEW rows \in Seq([Alerts -> Nat]), NEW a
  PROVE  IsFiniteSet(Holders(rows, a)) /\ Cardinality(Holders(rows, a)) \in Nat
<1>1. Holders(rows, a) \subseteq 1 .. Len(rows) /\ IsFiniteSet(1 .. Len(rows))
  <2>1. Len(rows) \in Nat
    BY LenProperties
  <2>2. IsFiniteSet(1 .. Len(rows))
    BY <2>1, FS_Interval
  <2> QED BY <2>2 DEF Holders
<1>2. IsFiniteSet(Holders(rows, a))
  BY <1>1, FS_Subset
<1> QED
  BY <1>2, FS_CardinalityType

\* What a statement of i adds to the rows: one to the count of its alert in one
\* row n, old or new.
Adds(i, n) ==
  /\ \A a \in Alerts \ {work[i]} : Holders(RowsAfter(i), a) = Holders(alert_meta, a)
  /\ Holders(RowsAfter(i), work[i]) \subseteq Holders(alert_meta, work[i]) \union {n}
  /\ \A r \in 1 .. Len(RowsAfter(i)), a \in Alerts :
       \/ r \in Rows /\ RowsAfter(i)[r][a] = alert_meta[r][a]
       \/ r \in Rows /\ a = work[i] /\ RowsAfter(i)[r][a] = alert_meta[r][a] + 1
       \/ r \notin Rows /\ RowsAfter(i)[r][a] = IF a = work[i] THEN 1 ELSE 0

LEMMA WriteAdds ==
  ASSUME TypeOK, NEW i \in Instances,
         (pc[i] = "update" /\ meta_id[i] \in Rows) \/ pc[i] = "create"
  PROVE  \E n : Adds(i, n)
<1>1. /\ work[i] \in Alerts /\ alert_meta \in Seq([Alerts -> Nat]) /\ Len(alert_meta) \in Nat
      /\ \A r \in Rows : alert_meta[r] \in [Alerts -> Nat]
  BY ElementOfSeq, LenProperties DEF TypeOK, Rows
<1>2. CASE pc[i] = "update" /\ meta_id[i] \in Rows
  <2>1. /\ Len(RowsAfter(i)) = Len(alert_meta)
        /\ \A r \in Rows : RowsAfter(i)[r] =
             IF r = meta_id[i] THEN [alert_meta[r] EXCEPT ![work[i]] = @ + 1] ELSE alert_meta[r]
    BY <1>2, UpdatedRows
  <2>2. \A r \in Rows, a \in Alerts : RowsAfter(i)[r][a] =
          IF r = meta_id[i] /\ a = work[i] THEN alert_meta[r][a] + 1 ELSE alert_meta[r][a]
    BY <1>1, <2>1
  <2>3. \A r \in Rows, a \in Alerts : alert_meta[r][a] \in Nat
    BY <1>1
  <2>4. Adds(i, meta_id[i])
    BY <1>1, <2>1, <2>2, <2>3 DEF Adds, Holders, Rows
  <2> QED BY <2>4
<1>3. CASE pc[i] = "create"
  <2> DEFINE n == Len(alert_meta) + 1
  <2>1. RowsAfter(i) = Append(alert_meta, Once(work[i])) /\ Once(work[i]) \in [Alerts -> Nat]
    BY <1>3 DEF RowsAfter, Once
  <2>2. /\ Len(RowsAfter(i)) = n /\ RowsAfter(i)[n] = Once(work[i])
        /\ \A r \in Rows : RowsAfter(i)[r] = alert_meta[r]
    BY <1>1, <2>1, AppendProperties DEF Rows
  <2>3. n \notin Rows /\ \A r \in 1 .. n : r \in Rows \/ r = n
    BY <1>1 DEF Rows
  <2>4. \A a \in Alerts : RowsAfter(i)[n][a] = IF a = work[i] THEN 1 ELSE 0
    BY <2>2 DEF Once
  <2>5. Rows = 1 .. Len(alert_meta) /\ Rows \subseteq 1 .. n
    BY <1>1 DEF Rows
  <2> HIDE DEF n
  <2>6. Adds(i, n)
    BY <1>1, <2>2, <2>3, <2>4, <2>5 DEF Adds, Holders
  <2> QED BY <2>6
<1> QED
  BY <1>2, <1>3

\* A step after which nobody is to write who was not before; if a statement of i
\* is carried out, i has it behind it.
LEMMA CountStep ==
  ASSUME TypeOK, CountInv, NEW i \in Instances, reads' = reads,
         \A j \in Instances : pc'[j] \in ToWrite => pc[j] \in ToWrite /\ work'[j] = work[j],
         alert_meta' = alert_meta \/ (alert_meta' = RowsAfter(i) /\ pc'[i] \notin ToWrite)
  PROVE  CountInv'
<1>0. alert_meta \in Seq([Alerts -> Nat]) /\ reads \in [Alerts -> Nat]
  BY DEF TypeOK
<1>1. ASSUME NEW a \in Alerts
      PROVE  /\ Writers(pc', work', a) \subseteq Writers(pc, work, a)
             /\ Cardinality(Writers(pc', work', a)) <= Cardinality(Writers(pc, work, a))
             /\ Cardinality(Writers(pc', work', a)) \in Nat
             /\ Cardinality(Writers(pc, work, a)) \in Nat
             /\ Cardinality(Holders(alert_meta, a)) \in Nat
             /\ \A r \in Rows : alert_meta[r][a] \in Nat
  <2>1. Writers(pc', work', a) \subseteq Writers(pc, work, a)
    BY DEF Writers
  <2>2. Cardinality(Writers(pc', work', a)) <= Cardinality(Writers(pc, work, a))
    BY <2>1, WritersFinite, FS_Subset
  <2>3. \A r \in Rows : alert_meta[r] \in [Alerts -> Nat]
    BY <1>0, ElementOfSeq DEF Rows
  <2> QED BY <1>0, <2>1, <2>2, <2>3, WritersFinite, HoldersFinite
<1>2. CASE alert_meta' = alert_meta
  BY <1>0, <1>1, <1>2 DEF CountInv, Rows
<1>3. CASE /\ alert_meta' = RowsAfter(i) /\ pc'[i] \notin ToWrite
           /\ (pc[i] = "update" /\ meta_id[i] \in Rows) \/ pc[i] = "create"
  <2> DEFINE b == work[i]
  <2>1. PICK n : Adds(i, n)
    BY <1>3, WriteAdds
  <2>2. b \in Alerts /\ i \in Writers(pc, work, b)
    BY <1>3 DEF Writers, ToWrite, TypeOK
  <2>3. Cardinality(Writers(pc', work', b)) + 1 <= Cardinality(Writers(pc, work, b))
    <3>1. Writers(pc', work', b) \subseteq Writers(pc, work, b) \ {i}
      BY <1>1, <1>3, <2>2 DEF Writers
    <3>2. IsFiniteSet(Writers(pc, work, b))
      BY WritersFinite
    <3>3. /\ IsFiniteSet(Writers(pc, work, b) \ {i})
          /\ Cardinality(Writers(pc, work, b) \ {i}) = Cardinality(Writers(pc, work, b)) - 1
      BY <2>2, <3>2, FS_RemoveElement
    <3>4. Cardinality(Writers(pc', work', b)) <= Cardinality(Writers(pc, work, b) \ {i})
      BY <3>1, <3>3, FS_Subset
    <3> QED BY <1>1, <2>2, <3>3, <3>4
  <2>4. /\ Cardinality(Holders(alert_meta', b)) \in Nat
        /\ Cardinality(Holders(alert_meta', b)) <= Cardinality(Holders(alert_meta, b)) + 1
    <3>1. IsFiniteSet(Holders(alert_meta, b)) /\ Cardinality(Holders(alert_meta, b)) \in Nat
      BY <1>0, HoldersFinite
    <3>2. /\ IsFiniteSet(Holders(alert_meta, b) \union {n})
          /\ Cardinality(Holders(alert_meta, b) \union {n}) <= Cardinality(Holders(alert_meta, b)) + 1
      <4>1. /\ IsFiniteSet(Holders(alert_meta, b) \union {n})
            /\ Cardinality(Holders(alert_meta, b) \union {n}) =
                 IF n \in Holders(alert_meta, b) THEN Cardinality(Holders(alert_meta, b))
                 ELSE Cardinality(Holders(alert_meta, b)) + 1
        BY <3>1, FS_AddElement
      <4> QED BY <3>1, <4>1
    <3>3. Holders(alert_meta', b) \subseteq Holders(alert_meta, b) \union {n}
      BY <1>3, <2>1 DEF Adds
    <3>4. /\ IsFiniteSet(Holders(alert_meta', b))
          /\ Cardinality(Holders(alert_meta', b)) <= Cardinality(Holders(alert_meta, b) \union {n})
      BY <3>2, <3>3, FS_Subset
    <3>5. /\ Cardinality(Holders(alert_meta', b)) \in Nat
          /\ Cardinality(Holders(alert_meta, b) \union {n}) \in Nat
      BY <3>2, <3>4, FS_CardinalityType
    <3> QED BY <3>1, <3>2, <3>4, <3>5
  <2> HIDE DEF b
  <2>5. ASSUME NEW a \in Alerts
        PROVE  Cardinality(Holders(alert_meta', a)) + Cardinality(Writers(pc', work', a)) <= reads[a]
    <3>1. Cardinality(Holders(alert_meta, a)) + Cardinality(Writers(pc, work, a)) <= reads[a]
      BY DEF CountInv
    <3>2. CASE a = b
      BY <1>0, <1>1, <2>3, <2>4, <3>1, <3>2
    <3>3. CASE a # b
      <4>1. Holders(alert_meta', a) = Holders(alert_meta, a)
        BY <1>3, <2>1, <3>3 DEF Adds, b
      <4> QED BY <1>0, <1>1, <3>1, <4>1
    <3> QED BY <3>2, <3>3
  <2>6. ASSUME NEW a \in Alerts, NEW r \in Rows'
        PROVE  alert_meta'[r][a] + Cardinality(Writers(pc', work', a)) <= reads[a]
    <3>1. Cardinality(Holders(alert_meta, a)) + Cardinality(Writers(pc, work, a)) <= reads[a]
      BY DEF CountInv
    <3>2. r \in Rows => alert_meta[r][a] + Cardinality(Writers(pc, work, a)) <= reads[a]
      BY DEF CountInv
    <3>3. \/ r \in Rows /\ alert_meta'[r][a] = alert_meta[r][a]
          \/ r \in Rows /\ a = b /\ alert_meta'[r][a] = alert_meta[r][a] + 1
          \/ r \notin Rows /\ alert_meta'[r][a] = IF a = b THEN 1 ELSE 0
      BY <1>3, <2>1 DEF Adds, Rows, b
    <3>4. CASE r \in Rows /\ alert_meta'[r][a] = alert_meta[r][a]
      BY <1>0, <1>1, <3>2, <3>4
    <3>5. CASE r \in Rows /\ a = b /\ alert_meta'[r][a] = alert_meta[r][a] + 1
      BY <1>0, <1>1, <2>3, <3>2, <3>5
    <3>6. CASE r \notin Rows /\ alert_meta'[r][a] = IF a = b THEN 1 ELSE 0
      BY <1>0, <1>1, <2>3, <3>1, <3>6
    <3> QED BY <3>3, <3>4, <3>5, <3>6
  <2> QED
    BY <2>5, <2>6 DEF CountInv
<1>4. CASE ~((pc[i] = "update" /\ meta_id[i] \in Rows) \/ pc[i] = "create")
  <2>1. RowsAfter(i) = alert_meta
    BY <1>4 DEF RowsAfter
  <2> QED BY <1>2, <2>1
<1> QED
  BY <1>2, <1>3, <1>4

LEMMA CountReceive ==
  ASSUME TypeOK, CountInv, NEW i \in Instances, Receive(i)
  PROVE  CountInv'
<1>1. PICK b \in Alerts : /\ work' = [work EXCEPT ![i] = b]
                          /\ reads' = [reads EXCEPT ![b] = @ + 1]
  BY DEF Receive
<1>2. /\ pc[i] = "recv" /\ work[i] = NoAlert /\ alert_meta' = alert_meta
      /\ pc' = [pc EXCEPT ![i] = "get"]
      /\ work \in [Instances -> Alerts \union {NoAlert}] /\ pc \in [Instances -> Calls]
      /\ reads \in [Alerts -> Nat] /\ alert_meta \in Seq([Alerts -> Nat])
  BY DEF Receive, Goto, TypeOK
<1>3. \A a \in Alerts \ {b} : Writers(pc', work', a) = Writers(pc, work, a)
  BY <1>1, <1>2, CorrelatorAssumption DEF Writers, ToWrite
<1>4. Writers(pc', work', b) = Writers(pc, work, b) \union {i}
  BY <1>1, <1>2, CorrelatorAssumption DEF Writers, ToWrite
<1>5. /\ Cardinality(Writers(pc, work, b)) \in Nat /\ Cardinality(Writers(pc', work', b)) \in Nat
      /\ Cardinality(Writers(pc', work', b)) <= Cardinality(Writers(pc, work, b)) + 1
  <2>1. IsFiniteSet(Writers(pc, work, b)) /\ Cardinality(Writers(pc, work, b)) \in Nat
    BY WritersFinite
  <2>2. Cardinality(Writers(pc, work, b) \union {i}) =
          IF i \in Writers(pc, work, b) THEN Cardinality(Writers(pc, work, b))
          ELSE Cardinality(Writers(pc, work, b)) + 1
    BY <2>1, FS_AddElement
  <2> QED BY <1>4, <2>1, <2>2
<1>6. ASSUME NEW a \in Alerts
      PROVE  /\ Cardinality(Holders(alert_meta, a)) + Cardinality(Writers(pc', work', a)) <= reads'[a]
             /\ \A r \in Rows : alert_meta[r][a] + Cardinality(Writers(pc', work', a)) <= reads'[a]
  <2>1. /\ Cardinality(Holders(alert_meta, a)) + Cardinality(Writers(pc, work, a)) <= reads[a]
        /\ \A r \in Rows : alert_meta[r][a] + Cardinality(Writers(pc, work, a)) <= reads[a]
    BY DEF CountInv
  <2>2. CASE a = b
    <3>1. reads'[a] = reads[a] + 1 /\ reads[a] \in Nat
      BY <1>1, <1>2, <2>2
    <3>2. Cardinality(Holders(alert_meta, a)) \in Nat
      BY <1>2, HoldersFinite
    <3>3. \A r \in Rows : alert_meta[r][a] \in Nat
      <4>1. \A r \in Rows : alert_meta[r] \in [Alerts -> Nat]
        BY <1>2, ElementOfSeq DEF Rows
      <4> QED BY <4>1
    <3> QED BY <1>5, <2>1, <2>2, <3>1, <3>2, <3>3
  <2>3. CASE a # b
    BY <1>1, <1>2, <1>3, <2>1, <2>3
  <2> QED BY <2>2, <2>3
<1> QED
  BY <1>2, <1>6 DEF CountInv, Rows

LEMMA CountNext == TypeOK /\ CountInv /\ [Next]_vars => CountInv'
<1> SUFFICES ASSUME TypeOK, CountInv, [Next]_vars PROVE CountInv'
  OBVIOUS
<1>0. /\ pc \in [Instances -> Calls] /\ work \in [Instances -> Alerts \union {NoAlert}]
  BY DEF TypeOK
\* i gives up, its statement carried out or not.
<1>g. ASSUME NEW i \in Instances, GiveUp(i), reads' = reads,
             alert_meta' \in {alert_meta, RowsAfter(i)}
      PROVE  CountInv'
  <2>1. \A j \in Instances : pc'[j] \in ToWrite => pc[j] \in ToWrite /\ work'[j] = work[j]
    BY <1>0, <1>g DEF GiveUp, ToWrite
  <2>2. pc'[i] \notin ToWrite
    BY <1>0, <1>g DEF GiveUp, ToWrite
  <2> QED BY <1>g, <2>1, <2>2, CountStep
\* i goes on with its alert.
<1>o. ASSUME NEW i \in Instances, NEW s, Goto(i, s), work' = work, reads' = reads,
             s \in ToWrite => pc[i] \in ToWrite,
             alert_meta' = alert_meta \/ (alert_meta' = RowsAfter(i) /\ s \notin ToWrite)
      PROVE  CountInv'
  <2>1. \A j \in Instances : pc'[j] \in ToWrite => pc[j] \in ToWrite /\ work'[j] = work[j]
    BY <1>0, <1>o DEF Goto
  <2>2. pc'[i] = s
    BY <1>0, <1>o DEF Goto
  <2> QED BY <1>o, <2>1, <2>2, CountStep
\* Nobody's alert moves.
<1>u. ASSUME UNCHANGED <<memory, alert_meta, reads>> PROVE CountInv'
  BY <1>u DEF CountInv, memory, Rows
<1>1. ASSUME NEW i \in Instances, Receive(i) PROVE CountInv'
  BY <1>1, CountReceive
<1>2. ASSUME NEW i \in Instances, Lookup(i) PROVE CountInv'
  <2>1. /\ Goto(i, "set_pending") \/ Goto(i, "update")
        /\ UNCHANGED <<work, reads, alert_meta>> /\ pc[i] = "get"
    BY <1>2 DEF Lookup
  <2> QED BY <1>o, <2>1 DEF ToWrite
<1>3. ASSUME NEW i \in Instances, Update(i) PROVE CountInv'
  <2>1. alert_meta' = RowsAfter(i) /\ reads' = reads
    BY <1>3 DEF Update, history
  <2>2. GiveUp(i) \/ (Goto(i, "fetch") /\ work' = work)
    BY <1>3 DEF Update
  <2> QED BY <1>g, <1>o, <2>1, <2>2 DEF ToWrite
<1>4. ASSUME NEW i \in Instances, SetPending(i) PROVE CountInv'
  <2>1. Goto(i, "chain") /\ UNCHANGED <<work, reads, alert_meta>> /\ pc[i] = "set_pending"
    BY <1>4 DEF SetPending, history
  <2> QED BY <1>o, <2>1 DEF ToWrite
<1>5. ASSUME NEW i \in Instances, DetectChain(i) PROVE CountInv'
  <2>1. UNCHANGED <<reads, alert_meta>> /\ pc[i] = "chain"
    BY <1>5 DEF DetectChain, history
  <2>2. GiveUp(i) \/ (Goto(i, "create") /\ work' = work)
    BY <1>5 DEF DetectChain
  <2> QED BY <1>g, <1>o, <2>1, <2>2 DEF ToWrite
<1>6. ASSUME NEW i \in Instances, Create(i) PROVE CountInv'
  <2>1. Goto(i, "set_meta") /\ alert_meta' = RowsAfter(i) /\ UNCHANGED <<work, reads>>
    BY <1>6 DEF Create, history
  <2> QED BY <1>o, <2>1 DEF ToWrite
<1>7. ASSUME NEW i \in Instances, SetMeta(i) PROVE CountInv'
  <2>1. Goto(i, "fetch") /\ UNCHANGED <<work, reads, alert_meta>>
    BY <1>7 DEF SetMeta
  <2> QED BY <1>o, <2>1 DEF ToWrite
<1>8. ASSUME NEW i \in Instances, Fetch(i) PROVE CountInv'
  <2>1. UNCHANGED <<reads, alert_meta>>
    BY <1>8 DEF Fetch, history
  <2>2. GiveUp(i) \/ (Goto(i, "publish") /\ work' = work)
    BY <1>8 DEF Fetch
  <2> QED BY <1>g, <1>o, <2>1, <2>2 DEF ToWrite
<1>9. ASSUME NEW i \in Instances, Publish(i) PROVE CountInv'
  BY <1>9, <1>g DEF Publish, history
<1>10. ASSUME NEW i \in Instances, RedisFails(i) PROVE CountInv'
  BY <1>10, <1>g DEF RedisFails
<1>11. ASSUME NEW i \in Instances, DbFails(i) PROVE CountInv'
  BY <1>11, <1>g DEF DbFails
<1>12. ASSUME NEW i \in Instances, Crash(i) PROVE CountInv'
  BY <1>12, <1>g DEF Crash
<1>13. ASSUME NEW i \in Instances, Rebalance(i) \/ BreakerResets(i) PROVE CountInv'
  BY <1>13, <1>u DEF Rebalance, BreakerResets, history
<1>14. ASSUME NEW k \in Keys, Expire(k) PROVE CountInv'
  BY <1>14, <1>u DEF Expire
<1>15. CASE UNCHANGED vars
  BY <1>15, <1>u DEF vars, history
<1> QED
  BY <1>1, <1>2, <1>3, <1>4, <1>5, <1>6, <1>7, <1>8, <1>9, <1>10, <1>11, <1>12,
     <1>13, <1>14, <1>15 DEF Next, Process, CreateNew

\* No alert is counted more often than Kafka delivered it, whatever instances
\* read it and whichever calls fail half way.
THEOREM CountedPerRead == Spec => []CountedOncePerRead
<1>1. Init => CountInv
  <2> SUFFICES ASSUME Init, NEW a \in Alerts
               PROVE  /\ Cardinality(Holders(alert_meta, a)) + Cardinality(Writers(pc, work, a)) <= reads[a]
                      /\ Rows = {}
    BY DEF CountInv
  <2>1. Holders(alert_meta, a) = {} /\ Writers(pc, work, a) = {} /\ Rows = {} /\ reads[a] = 0
    BY CorrelatorAssumption DEF Init, Holders, Writers, ToWrite, Rows
  <2> QED BY <2>1, FS_EmptySet
<1>2. TypeOK /\ CountInv => CountedOncePerRead
  <2> SUFFICES ASSUME TypeOK, CountInv, NEW a \in Alerts
               PROVE  /\ Cardinality({r \in Rows : Holds(r, a)}) <= reads[a]
                      /\ \A r \in Rows : alert_meta[r][a] <= reads[a]
    BY DEF CountedOncePerRead
  <2>1. {r \in Rows : Holds(r, a)} = Holders(alert_meta, a)
    BY DEF Rows, Holds, Holders
  <2>2. alert_meta \in Seq([Alerts -> Nat]) /\ reads[a] \in Nat
    BY DEF TypeOK
  <2>3. \A r \in Rows : alert_meta[r][a] \in Nat
    <3>1. \A r \in Rows : alert_meta[r] \in [Alerts -> Nat]
      BY <2>2, ElementOfSeq DEF Rows
    <3> QED BY <3>1
  <2>4. Cardinality(Writers(pc, work, a)) \in Nat /\ Cardinality(Holders(alert_meta, a)) \in Nat
    BY <2>2, WritersFinite, HoldersFinite
  <2>5. /\ Cardinality(Holders(alert_meta, a)) + Cardinality(Writers(pc, work, a)) <= reads[a]
        /\ \A r \in Rows : alert_meta[r][a] + Cardinality(Writers(pc, work, a)) <= reads[a]
    BY DEF CountInv
  <2>6. \A r \in Rows : alert_meta[r][a] <= reads[a]
    BY <2>2, <2>3, <2>4, <2>5
  <2>7. Cardinality(Holders(alert_meta, a)) <= reads[a]
    BY <2>2, <2>4, <2>5
  <2> QED BY <2>1, <2>6, <2>7
<1> QED
  BY <1>1, <1>2, CountNext, TypeCorrect, PTL DEF Spec

-----------------------------------------------------------------------------
(* Splits.                                                                 *)

\* The rows of key k, and the instances on the way to another one.
Before == {"set_pending", "chain", "create"}
KeyRows(rows, k) == {r \in 1 .. Len(rows) : \E a \in Alerts : rows[r][a] > 0 /\ KeyOf[a] = k}
Creators(p, w, k) == {j \in Instances : p[j] \in Before /\ KeyOf[w[j]] = k}
CreatorsBut(i, p, w, k) == {j \in Instances \ {i} : p[j] \in Before /\ KeyOf[w[j]] = k}
Making(k) == \E j \in Instances : pc[j] \in Creating /\ KeyOf[work[j]] = k
MakingBut(i, k) == \E j \in Instances \ {i} : pc[j] \in Creating /\ KeyOf[work[j]] = k

\* Every row but one has an expiry or a cause, those on the way included; while
\* Redis names none and nobody is about to, all of them have.
SplitInv ==
  \A k \in Keys :
    /\ Cardinality(KeyRows(alert_meta, k)) + Cardinality(Creators(pc, work, k))
         <= 1 + expiries[k] + causes[k]
    /\ cache[k] \in {Absent, Pending} /\ ~Making(k)
         => Cardinality(KeyRows(alert_meta, k)) <= expiries[k] + causes[k]

LEMMA KeyRowsFinite ==
  ASSUME NEW rows \in Seq([Alerts -> Nat]), NEW k
  PROVE  IsFiniteSet(KeyRows(rows, k)) /\ Cardinality(KeyRows(rows, k)) \in Nat
<1>1. Len(rows) \in Nat
  BY LenProperties
<1>2. IsFiniteSet(1 .. Len(rows))
  BY <1>1, FS_Interval
<1>3. KeyRows(rows, k) \subseteq 1 .. Len(rows)
  BY DEF KeyRows
<1>4. IsFiniteSet(KeyRows(rows, k))
  BY <1>2, <1>3, FS_Subset
<1> QED
  BY <1>4, FS_CardinalityType

LEMMA OneMore ==
  ASSUME NEW R \in SUBSET Instances, NEW i \in Instances, i \notin R
  PROVE  Cardinality(R) \in Nat /\ Cardinality(R \union {i}) = Cardinality(R) + 1
<1>1. IsFiniteSet(R)
  BY CorrelatorAssumption, FS_Subset
<1> QED
  BY <1>1, FS_CardinalityType, FS_AddElement

\* What the call of i does to the rows of each key.
LEMMA RowsEffect ==
  ASSUME IInv, NEW i \in Instances, pc[i] # "recv", alert_meta' \in {alert_meta, RowsAfter(i)}
  PROVE  /\ \A k \in Keys \ {Key(i)} : KeyRows(alert_meta', k) = KeyRows(alert_meta, k)
         /\ Cardinality(KeyRows(alert_meta', Key(i)))
              <= Cardinality(KeyRows(alert_meta, Key(i))) + (IF pc[i] = "create" THEN 1 ELSE 0)
         /\ Cardinality(KeyRows(alert_meta', Key(i))) \in Nat
<1>0. /\ work[i] \in Alerts /\ Key(i) \in Keys /\ alert_meta \in Seq([Alerts -> Nat])
      /\ \A r \in Rows : alert_meta[r] \in [Alerts -> Nat]
  BY KeyType, ElementOfSeq DEF IInv, TypeOK, Rows
<1>1. Cardinality(KeyRows(alert_meta, Key(i))) \in Nat
  BY <1>0, KeyRowsFinite
<1>2. ASSUME \A k \in Keys : KeyRows(alert_meta', k) = KeyRows(alert_meta, k)
      PROVE  /\ \A k \in Keys \ {Key(i)} : KeyRows(alert_meta', k) = KeyRows(alert_meta, k)
             /\ Cardinality(KeyRows(alert_meta', Key(i)))
                  <= Cardinality(KeyRows(alert_meta, Key(i))) + (IF pc[i] = "create" THEN 1 ELSE 0)
             /\ Cardinality(KeyRows(alert_meta', Key(i))) \in Nat
  BY <1>0, <1>1, <1>2
<1>3. CASE alert_meta' = alert_meta
  BY <1>2, <1>3
<1>4. CASE alert_meta' = RowsAfter(i) /\ pc[i] = "update" /\ meta_id[i] \in Rows
  <2> DEFINE n == meta_id[i]
  <2>1. /\ Len(alert_meta') = Len(alert_meta)
        /\ \A r \in Rows : alert_meta'[r] =
             IF r = n THEN [alert_meta[r] EXCEPT ![work[i]] = @ + 1] ELSE alert_meta[r]
    BY <1>4, UpdatedRows DEF IInv
  <2>2. PICK b \in Alerts : alert_meta[n][b] > 0 /\ KeyOf[b] = Key(i)
    BY <1>4 DEF IInv, IdsInv, InHand, OfKey, Holds
  <2> HIDE DEF n
  <2>3. \A r \in Rows, a \in Alerts : alert_meta'[r][a] =
          IF r = n /\ a = work[i] THEN alert_meta[r][a] + 1 ELSE alert_meta[r][a]
    BY <1>0, <2>1
  <2>4. \A r \in Rows, a \in Alerts : alert_meta[r][a] \in Nat
    BY <1>0
  <2>5. \A r \in Rows, a \in Alerts :
          alert_meta'[r][a] > 0 <=> alert_meta[r][a] > 0 \/ (r = n /\ a = work[i])
    BY <1>0, <2>3, <2>4
  <2>6. ASSUME NEW k \in Keys, NEW r \in Rows
        PROVE  (\E a \in Alerts : alert_meta'[r][a] > 0 /\ KeyOf[a] = k)
                 <=> (\E a \in Alerts : alert_meta[r][a] > 0 /\ KeyOf[a] = k)
    BY <1>0, <2>2, <2>5 DEF Key
  <2>7. \A k \in Keys : KeyRows(alert_meta', k) = KeyRows(alert_meta, k)
    BY <2>1, <2>6 DEF KeyRows, Rows
  <2> QED BY <1>2, <2>7
<1>5. CASE alert_meta' = RowsAfter(i) /\ pc[i] = "create"
  <2> DEFINE n == Len(alert_meta) + 1
  <2>1. alert_meta' = Append(alert_meta, Once(work[i])) /\ Once(work[i]) \in [Alerts -> Nat]
    BY <1>5 DEF RowsAfter, Once
  <2>2. /\ Len(alert_meta') = n /\ alert_meta'[n] = Once(work[i])
        /\ \A r \in Rows : alert_meta'[r] = alert_meta[r]
    BY <1>0, <2>1, AppendProperties DEF Rows
  <2>3. Rows = 1 .. Len(alert_meta) /\ 1 .. n = Rows \union {n} /\ n \notin Rows
    <3>1. Len(alert_meta) \in Nat
      BY <1>0, LenProperties
    <3> QED BY <3>1 DEF Rows
  <2>4. \A a \in Alerts : alert_meta'[n][a] > 0 <=> a = work[i]
    BY <2>2 DEF Once
  <2> HIDE DEF n
  <2>5. \A k \in Keys \ {Key(i)} : KeyRows(alert_meta', k) = KeyRows(alert_meta, k)
    BY <1>0, <2>2, <2>3, <2>4 DEF KeyRows, Key
  <2>6. KeyRows(alert_meta', Key(i)) = KeyRows(alert_meta, Key(i)) \union {n}
    BY <1>0, <2>2, <2>3, <2>4 DEF KeyRows, Key
  <2>7. IsFiniteSet(KeyRows(alert_meta, Key(i)))
    BY <1>0, KeyRowsFinite
  <2>8. Cardinality(KeyRows(alert_meta, Key(i)) \union {n}) =
          IF n \in KeyRows(alert_meta, Key(i)) THEN Cardinality(KeyRows(alert_meta, Key(i)))
          ELSE Cardinality(KeyRows(alert_meta, Key(i))) + 1
    BY <2>7, FS_AddElement
  <2> QED BY <1>1, <1>5, <2>5, <2>6, <2>8
<1>6. CASE alert_meta' = RowsAfter(i) /\ ~(pc[i] = "update" /\ meta_id[i] \in Rows) /\ pc[i] # "create"
  <2>1. alert_meta' = alert_meta
    BY <1>6 DEF RowsAfter
  <2> QED BY <1>3, <2>1
<1> QED
  BY <1>3, <1>4, <1>5, <1>6

\* One for an instance that is on the way to a row.
At(step) == IF step \in Before THEN 1 ELSE 0

\* A step of i, which has an alert of key k, may add n rows of k and blame it m
\* times.  Either what it adds is paid for, or i is the first to set out; and once
\* nobody is about to name a row, nothing changed, or i paid for what it leaves.
LEMMA SplitOf ==
  ASSUME IInv, SplitInv, NEW i \in Instances, pc[i] # "recv", Others(i),
         pc'[i] \in Creating => work'[i] = work[i],
         alert_meta' \in {alert_meta, RowsAfter(i)}, cache' \in {cache, CacheAfter(i)},
         expiries' = expiries, NEW m \in {0, 1},
         IF m = 1 THEN Blame(Key(i)) ELSE causes' = causes,
         NEW n \in {0, 1}, n = (IF pc[i] = "create" /\ alert_meta' # alert_meta THEN 1 ELSE 0),
         \/ At(pc'[i]) + n <= At(pc[i]) + m
         \/ /\ pc[i] \notin Creating /\ n = 0
            /\ cache[Key(i)] \in {Absent, Pending} /\ ~MakingBut(i, Key(i)),
         \/ pc'[i] \in Creating
         \/ cache'[Key(i)] \notin {Absent, Pending}
         \/ pc[i] \notin Creating /\ n = 0 /\ cache'[Key(i)] = cache[Key(i)]
         \/ n + 1 <= At(pc[i]) + m
  PROVE  SplitInv'
<1>k. PICK k0 \in Keys : k0 = Key(i)
  BY KeyType DEF IInv
<1> DEFINE R == Cardinality(KeyRows(alert_meta, k0))
           R1 == Cardinality(KeyRows(alert_meta', k0))
           C == Cardinality(CreatorsBut(i, pc, work, k0))
<1>0. /\ work[i] \in Alerts /\ k0 \in Keys /\ alert_meta \in Seq([Alerts -> Nat])
      /\ expiries \in [Keys -> Nat] /\ causes \in [Keys -> Nat]
  BY <1>k, KeyType DEF IInv, TypeOK
<1>1. /\ \A k \in Keys \ {k0} : KeyRows(alert_meta', k) = KeyRows(alert_meta, k)
      /\ R1 \in Nat /\ R \in Nat /\ R1 <= R + n
  <2>1. /\ \A k \in Keys \ {k0} : KeyRows(alert_meta', k) = KeyRows(alert_meta, k)
        /\ R1 \in Nat /\ R \in Nat /\ R1 <= R + (IF pc[i] = "create" THEN 1 ELSE 0)
    BY <1>0, <1>k, RowsEffect, KeyRowsFinite
  <2>2. alert_meta' = alert_meta => R1 = R
    OBVIOUS
  <2> HIDE DEF R, R1
  <2> QED BY <2>1, <2>2
<1>2. /\ \A k \in Keys \ {k0} : cache'[k] = cache[k] /\ causes'[k] = causes[k]
      /\ causes'[k0] = causes[k0] + m
  <2>1. \A k \in Keys \ {k0} : CacheAfter(i)[k] = cache[k]
    BY <1>k DEF CacheAfter, IInv, TypeOK
  <2> QED BY <1>0, <1>k, <2>1 DEF Blame
<1>3. ASSUME NEW k \in Keys
      PROVE  /\ MakingBut(i, k)' = MakingBut(i, k)
             /\ CreatorsBut(i, pc', work', k) = CreatorsBut(i, pc, work, k)
  BY DEF MakingBut, CreatorsBut, Others
<1>4. /\ \A k \in Keys : Making(k) <=> MakingBut(i, k) \/ (pc[i] \in Creating /\ k = k0)
      /\ \A k \in Keys : Making(k)' <=> MakingBut(i, k)' \/ (pc'[i] \in Creating /\ k = k0)
  BY <1>k DEF Making, MakingBut, Key
<1>5. Before \subseteq Creating
  BY DEF Before, Creating
<1>6. /\ \A k \in Keys \ {k0} : Creators(pc', work', k) = Creators(pc, work, k)
      /\ C \in Nat /\ Cardinality(Creators(pc, work, k0)) = C + At(pc[i])
      /\ Cardinality(Creators(pc', work', k0)) = C + At(pc'[i])
  <2>1. ASSUME NEW k \in Keys, k # k0 PROVE Creators(pc', work', k) = Creators(pc, work, k)
    BY <1>5, <1>k, <2>1 DEF Creators, Others, Key
  <2>2. C \in Nat /\ Cardinality(Creators(pc, work, k0)) = C + At(pc[i])
    <3>1. KeyOf[work[i]] = k0
      BY <1>k DEF Key
    <3>2. C \in Nat /\ Cardinality(CreatorsBut(i, pc, work, k0) \union {i}) = C + 1
      BY OneMore DEF CreatorsBut
    <3>3. pc[i] \in Before => Creators(pc, work, k0) = CreatorsBut(i, pc, work, k0) \union {i}
      BY <3>1 DEF Creators, CreatorsBut
    <3>4. pc[i] \notin Before => Creators(pc, work, k0) = CreatorsBut(i, pc, work, k0)
      BY DEF Creators, CreatorsBut
    <3>5. /\ pc[i] \in Before => At(pc[i]) = 1
          /\ pc[i] \notin Before => At(pc[i]) = 0
      BY DEF At
    <3>6. Cardinality(Creators(pc, work, k0)) = C + At(pc[i])
      <4> HIDE DEF C
      <4>1. CASE pc[i] \in Before
        BY <3>2, <3>3, <3>5, <4>1
      <4>2. CASE pc[i] \notin Before
        BY <3>2, <3>4, <3>5, <4>2 DEF C
      <4> QED BY <4>1, <4>2
    <3> QED BY <3>2, <3>6
  <2>3. Cardinality(Creators(pc', work', k0)) = C + At(pc'[i])
    <3>1. pc'[i] \in Before => KeyOf[work'[i]] = k0
      BY <1>5, <1>k DEF Key
    <3>2. CreatorsBut(i, pc', work', k0) = CreatorsBut(i, pc, work, k0)
      BY <1>3
    <3>3. C \in Nat /\ Cardinality(CreatorsBut(i, pc, work, k0) \union {i}) = C + 1
      BY OneMore DEF CreatorsBut
    <3>4. pc'[i] \in Before
            => Creators(pc', work', k0) = CreatorsBut(i, pc', work', k0) \union {i}
      BY <3>1 DEF Creators, CreatorsBut
    <3>5. pc'[i] \notin Before => Creators(pc', work', k0) = CreatorsBut(i, pc', work', k0)
      BY DEF Creators, CreatorsBut
    <3>6. /\ pc'[i] \in Before => At(pc'[i]) = 1
          /\ pc'[i] \notin Before => At(pc'[i]) = 0
      BY DEF At
    <3>7. CASE pc'[i] \in Before
      <4> HIDE DEF C
      <4> QED BY <3>2, <3>3, <3>4, <3>6, <3>7
    <3>8. CASE pc'[i] \notin Before
      BY <3>2, <3>3, <3>5, <3>6, <3>8
    <3> QED BY <3>7, <3>8
  <2> QED BY <2>1, <2>2, <2>3
<1>7. ~MakingBut(i, k0) => C = 0
  <2>1. ~MakingBut(i, k0) => CreatorsBut(i, pc, work, k0) = {}
    BY <1>5 DEF MakingBut, CreatorsBut
  <2> QED BY <2>1, FS_EmptySet
<1>8. ASSUME NEW k \in Keys, k # k0
      PROVE  /\ Cardinality(KeyRows(alert_meta', k)) + Cardinality(Creators(pc', work', k))
                  <= 1 + expiries'[k] + causes'[k]
             /\ cache'[k] \in {Absent, Pending} /\ ~Making(k)'
                  => Cardinality(KeyRows(alert_meta', k)) <= expiries'[k] + causes'[k]
  <2>1. Making(k)' <=> Making(k)
    BY <1>3, <1>4, <1>8
  <2>2. /\ Cardinality(KeyRows(alert_meta, k)) + Cardinality(Creators(pc, work, k))
             <= 1 + expiries[k] + causes[k]
        /\ cache[k] \in {Absent, Pending} /\ ~Making(k)
             => Cardinality(KeyRows(alert_meta, k)) <= expiries[k] + causes[k]
    BY DEF SplitInv
  <2>3. /\ KeyRows(alert_meta', k) = KeyRows(alert_meta, k)
        /\ Creators(pc', work', k) = Creators(pc, work, k)
        /\ cache'[k] = cache[k] /\ causes'[k] = causes[k]
    BY <1>1, <1>2, <1>6, <1>8
  <2> QED BY <2>1, <2>2, <2>3
<1>9. /\ R1 + (C + At(pc'[i])) <= 1 + expiries'[k0] + causes'[k0]
      /\ cache'[k0] \in {Absent, Pending} /\ ~Making(k0)' => R1 <= expiries'[k0] + causes'[k0]
  <2>1. R + (C + At(pc[i])) <= 1 + expiries[k0] + causes[k0]
    BY <1>0, <1>6 DEF SplitInv
  <2>2. cache[k0] \in {Absent, Pending} /\ ~MakingBut(i, k0) /\ pc[i] \notin Creating
          => R <= expiries[k0] + causes[k0]
    BY <1>0, <1>4 DEF SplitInv
  <2>3. Making(k0)' <=> MakingBut(i, k0) \/ pc'[i] \in Creating
    BY <1>0, <1>3, <1>4
  <2>4. At(pc[i]) \in {0, 1} /\ At(pc'[i]) \in {0, 1}
    BY DEF At
  <2>5. expiries[k0] \in Nat /\ causes[k0] \in Nat /\ causes'[k0] = causes[k0] + m
    BY <1>0, <1>2
  <2> HIDE DEF R, R1, C
  <2>6. R1 + (C + At(pc'[i])) <= 1 + expiries[k0] + causes'[k0]
    BY <1>1, <1>6, <1>7, <2>1, <2>2, <2>4, <2>5, <1>k
  <2>7. ASSUME cache'[k0] \in {Absent, Pending}, ~Making(k0)'
        PROVE  R1 <= expiries[k0] + causes'[k0]
    BY <1>1, <1>6, <2>1, <2>2, <2>3, <2>4, <2>5, <2>7, <1>k
  <2> QED BY <2>6, <2>7
<1> QED
  <2>1. Cardinality(Creators(pc', work', k0)) = C + At(pc'[i])
    BY <1>6
  <2> QED BY <1>8, <1>9, <2>1 DEF SplitInv

\* Giving up pays for a row left behind, or was only on the way to one.
LEMMA SplitGiveUp ==
  ASSUME IInv, SplitInv, NEW i \in Instances, pc[i] # "recv", GiveUp(i),
         alert_meta' \in {alert_meta, RowsAfter(i)}, cache' \in {cache, CacheAfter(i)},
         expiries' = expiries,
         IF pc[i] \in {"create", "set_meta"} THEN Blame(Key(i)) ELSE causes' = causes
  PROVE  SplitInv'
<1> DEFINE m0 == IF pc[i] \in {"create", "set_meta"} THEN 1 ELSE 0
           n0 == IF pc[i] = "create" /\ alert_meta' # alert_meta THEN 1 ELSE 0
<1>1. PICK m \in {0, 1}, n \in {0, 1} : m = m0 /\ n = n0
  OBVIOUS
<1>2. Others(i) /\ pc'[i] = "recv" /\ pc'[i] \notin Creating
  BY GiveUpIdle DEF GiveUp, IInv, TypeOK, Creating
<1>3. pc[i] \in Calls \ {"recv"}
  BY DEF IInv, TypeOK
<1>4. At(pc'[i]) = 0
  BY <1>2 DEF At, Before
<1>5. IF m = 1 THEN Blame(Key(i)) ELSE causes' = causes
  BY <1>1
<1>6. At(pc'[i]) + n <= At(pc[i]) + m
  BY <1>1, <1>4 DEF At, Before
<1>7. \/ pc[i] \notin Creating /\ n = 0 /\ cache'[Key(i)] = cache[Key(i)]
      \/ n + 1 <= At(pc[i]) + m
  <2>1. CASE pc[i] \in Creating
    BY <1>1, <2>1 DEF At, Before, Creating
  <2>2. CASE pc[i] \notin Creating
    <3>1. CacheAfter(i) = cache /\ n = 0
      BY <1>1, <2>2 DEF CacheAfter, Creating
    <3> QED BY <2>2, <3>1
  <2> QED BY <2>1, <2>2
<1> HIDE DEF m0, n0
<1>8. n = (IF pc[i] = "create" /\ alert_meta' # alert_meta THEN 1 ELSE 0)
  BY <1>1 DEF n0
<1> QED
  BY <1>2, <1>5, <1>6, <1>7, <1>8, SplitOf

\* i goes on; only at "create" may there be a row more, and no cause.
LEMMA SplitGoto ==
  ASSUME IInv, SplitInv, NEW i \in Instances, pc[i] # "recv",
         NEW s \in Calls \ {"recv"}, Others(i), pc'[i] = s, work' = work,
         alert_meta' \in {alert_meta, RowsAfter(i)}, cache' \in {cache, CacheAfter(i)},
         expiries' = expiries, NEW m \in {0, 1},
         IF m = 1 THEN Blame(Key(i)) ELSE causes' = causes,
         \/ s \in Before /\ pc[i] \in Before \ {"create"}
         \/ s = "set_pending" /\ pc[i] = "get" /\ m = 1
         \/ /\ s = "set_pending" /\ pc[i] = "get"
            /\ cache[Key(i)] \in {Absent, Pending} /\ ~MakingBut(i, Key(i))
         \/ s = "set_meta" /\ pc[i] = "create"
         \/ s = "fetch" /\ pc[i] = "set_meta" /\ (m = 1 \/ cache'[Key(i)] \notin {Absent, Pending})
         \/ s \notin Creating /\ pc[i] \notin Creating
  PROVE  SplitInv'
<1> DEFINE n0 == IF pc[i] = "create" /\ alert_meta' # alert_meta THEN 1 ELSE 0
<1>1. PICK n \in {0, 1} : n = n0
  OBVIOUS
<1>2. Others(i) /\ pc'[i] = s
  OBVIOUS
<1>3. pc'[i] \in Creating => work'[i] = work[i]
  OBVIOUS
<1>4. \/ At(pc'[i]) + n <= At(pc[i]) + m
      \/ /\ pc[i] \notin Creating /\ n = 0
         /\ cache[Key(i)] \in {Absent, Pending} /\ ~MakingBut(i, Key(i))
  BY <1>1, <1>2 DEF At, Before, Creating, Calls
<1>5. \/ pc'[i] \in Creating
      \/ cache'[Key(i)] \notin {Absent, Pending}
      \/ pc[i] \notin Creating /\ n = 0 /\ cache'[Key(i)] = cache[Key(i)]
      \/ n + 1 <= At(pc[i]) + m
  <2>1. pc[i] \notin Creating => CacheAfter(i) = cache
    BY DEF CacheAfter, Creating
  <2>2. pc[i] # "create" => n = 0
    BY <1>1
  <2>3. At(pc[i]) \in {0, 1}
    BY DEF At
  <2>4. Before \subseteq Creating /\ "set_meta" \in Creating
    BY DEF Before, Creating
  <2> HIDE DEF n0
  <2>5. CASE s \in Before \/ s = "set_pending" \/ s = "set_meta"
    BY <1>2, <2>4, <2>5 DEF Before
  <2>6. CASE s = "fetch" /\ pc[i] = "set_meta" /\ (m = 1 \/ cache'[Key(i)] \notin {Absent, Pending})
    BY <2>2, <2>3, <2>6
  <2>7. CASE s \notin Creating /\ pc[i] \notin Creating
    <3>1. pc[i] # "create"
      BY <2>7 DEF Creating
    <3> QED BY <2>1, <2>2, <2>7, <3>1
  <2> QED BY <2>5, <2>6, <2>7
<1> HIDE DEF n0
<1>6. n = (IF pc[i] = "create" /\ alert_meta' # alert_meta THEN 1 ELSE 0)
  BY <1>1 DEF n0
<1> QED
  BY <1>2, <1>3, <1>4, <1>5, <1>6, SplitOf

\* A step that leaves Redis and the rows alone, and those who are making one.
LEMMA SplitStays ==
  ASSUME SplitInv, UNCHANGED <<alert_meta, cache, expiries, causes>>,
         \A j \in Instances : pc[j] \in Creating \/ pc'[j] \in Creating
                                => pc'[j] = pc[j] /\ work'[j] = work[j]
  PROVE  SplitInv'
<1>1. Before \subseteq Creating
  BY DEF Before, Creating
<1>2. ASSUME NEW k \in Keys
      PROVE  Creators(pc', work', k) = Creators(pc, work, k) /\ (Making(k)' <=> Making(k))
  BY <1>1 DEF Creators, Making
<1> QED
  BY <1>2 DEF SplitInv

\* The end of a window is one of the reasons to begin another row.
LEMMA SplitExpire ==
  ASSUME IInv, SplitInv, NEW k0 \in Keys, Expire(k0)
  PROVE  SplitInv'
<1>1. /\ UNCHANGED <<pc, work, alert_meta, causes>>
      /\ \A k \in Keys \ {k0} : cache'[k] = cache[k] /\ expiries'[k] = expiries[k]
      /\ expiries'[k0] = expiries[k0] + 1
  BY DEF Expire, memory, IInv, TypeOK
<1>2. ASSUME NEW k \in Keys PROVE Making(k)' <=> Making(k)
  BY <1>1 DEF Making
<1>3. ASSUME NEW k \in Keys
      PROVE  /\ Cardinality(KeyRows(alert_meta, k)) \in Nat /\ Cardinality(Creators(pc, work, k)) \in Nat
             /\ expiries[k] \in Nat /\ causes[k] \in Nat
  <2>1. Creators(pc, work, k) \subseteq Instances
    BY DEF Creators
  <2>2. IsFiniteSet(Creators(pc, work, k))
    BY <2>1, CorrelatorAssumption, FS_Subset
  <2>3. Cardinality(Creators(pc, work, k)) \in Nat
    BY <2>2, FS_CardinalityType
  <2> QED BY <2>3, KeyRowsFinite DEF IInv, TypeOK
<1>4. ASSUME NEW k \in Keys
      PROVE  /\ Cardinality(KeyRows(alert_meta, k)) + Cardinality(Creators(pc, work, k))
                  <= 1 + expiries'[k] + causes[k]
             /\ cache'[k] \in {Absent, Pending} /\ ~Making(k)
                  => Cardinality(KeyRows(alert_meta, k)) <= expiries'[k] + causes[k]
  <2>1. /\ Cardinality(KeyRows(alert_meta, k)) + Cardinality(Creators(pc, work, k))
             <= 1 + expiries[k] + causes[k]
        /\ cache[k] \in {Absent, Pending} /\ ~Making(k)
             => Cardinality(KeyRows(alert_meta, k)) <= expiries[k] + causes[k]
    BY DEF SplitInv
  <2>2. CASE k = k0
    BY <1>1, <1>3, <2>1, <2>2
  <2>3. CASE k # k0
    BY <1>1, <2>1, <2>3
  <2> QED BY <2>2, <2>3
<1> QED
  BY <1>1, <1>2, <1>4 DEF SplitInv

LEMMA SplitNext == IInv /\ SplitInv /\ [Next]_vars => SplitInv'
<1> SUFFICES ASSUME IInv, SplitInv, [Next]_vars PROVE SplitInv'
  OBVIOUS
<1>c. {"update", "fetch", "publish", "set_pending", "chain", "create", "set_meta"}
        \subseteq Calls \ {"recv"}
  BY DEF Calls, Creating
<1>t. TypeOK
  BY DEF IInv
<1>g. ASSUME NEW i \in Instances, NEW s, Goto(i, s), UNCHANGED <<work, meta_id>>
      PROVE  Others(i) /\ pc'[i] = s
  BY <1>g, <1>t, GotoOthers
<1>1. ASSUME NEW i \in Instances, Receive(i) PROVE SplitInv'
  <2>1. /\ UNCHANGED <<alert_meta, cache, expiries, causes>>
        /\ pc[i] = "recv" /\ pc' = [pc EXCEPT ![i] = "get"]
        /\ \E a \in Alerts : work' = [work EXCEPT ![i] = a]
    BY <1>1 DEF Receive, Goto
  <2>2. \A j \in Instances : pc[j] \in Creating \/ pc'[j] \in Creating
                               => pc'[j] = pc[j] /\ work'[j] = work[j]
    BY <1>t, <2>1 DEF TypeOK, Creating
  <2> QED BY <2>1, <2>2, SplitStays
<1>2. ASSUME NEW i \in Instances, Lookup(i) PROVE SplitInv'
  <2>1. pc[i] = "get" /\ UNCHANGED <<work, cache, alert_meta, expiries>>
    BY <1>2 DEF Lookup
  <2>2. Overlap(i) <=> MakingBut(i, Key(i))
    BY DEF Overlap, MakingBut, Key
  <2>3. CASE Goto(i, "set_pending") /\ meta_id' = meta_id /\ (redis_open[i] \/ Overlap(i))
    <3>1. Blame(Key(i))
      BY <1>2, <1>t, <2>1, <2>3 DEF Lookup, Goto, TypeOK
    <3> QED BY <1>c, <1>g, <2>1, <2>3, <3>1, SplitGoto
  <2>4. CASE Goto(i, "set_pending") /\ meta_id' = meta_id /\ ~(redis_open[i] \/ Overlap(i))
    <3>1. causes' = causes /\ cache[Key(i)] \in {Absent, Pending}
      BY <1>2, <1>t, <2>1, <2>4 DEF Lookup, Goto, TypeOK
    <3> QED BY <1>c, <1>g, <2>1, <2>2, <2>4, <3>1, SplitGoto
  <2>5. CASE /\ Goto(i, "update") /\ causes' = causes
             /\ meta_id' = [meta_id EXCEPT ![i] = cache[Key(i)]]
    <3>1. Others(i) /\ pc'[i] = "update"
      BY <1>t, <2>1, <2>5 DEF TypeOK, Goto, Others
    <3>2. "update" \notin Creating /\ pc[i] \notin Creating
      BY <2>1 DEF Creating
    <3>3. alert_meta' \in {alert_meta, RowsAfter(i)} /\ cache' \in {cache, CacheAfter(i)}
      BY <2>1
    <3> QED BY <1>c, <1>g, <2>1, <2>5, <3>1, <3>2, <3>3, SplitGoto
  <2> QED BY <1>2, <2>3, <2>4, <2>5 DEF Lookup
<1>3. ASSUME NEW i \in Instances, Update(i) PROVE SplitInv'
  <2>1. /\ pc[i] = "update" /\ alert_meta' = RowsAfter(i)
        /\ UNCHANGED <<cache, expiries, causes>>
    BY <1>3 DEF Update, history
  <2>2. CASE Goto(i, "fetch") /\ UNCHANGED <<work, meta_id>>
    BY <1>c, <1>g, <2>1, <2>2, SplitGoto DEF Creating
  <2>3. CASE GiveUp(i)
    BY <2>1, <2>3, SplitGiveUp
  <2> QED BY <1>3, <2>2, <2>3 DEF Update
<1>4. ASSUME NEW i \in Instances, SetPending(i) PROVE SplitInv'
  <2>1. /\ pc[i] = "set_pending" /\ cache' \in {cache, CacheAfter(i)} /\ Goto(i, "chain")
        /\ UNCHANGED <<work, meta_id, alert_meta, expiries, causes>>
    BY <1>4 DEF SetPending, history
  <2> QED BY <1>c, <1>g, <2>1, SplitGoto DEF Before
<1>5. ASSUME NEW i \in Instances, DetectChain(i) PROVE SplitInv'
  <2>1. pc[i] = "chain" /\ UNCHANGED <<cache, alert_meta, expiries, causes>>
    BY <1>5 DEF DetectChain, history
  <2>2. CASE Goto(i, "create") /\ UNCHANGED <<work, meta_id>>
    BY <1>c, <1>g, <2>1, <2>2, SplitGoto DEF Before
  <2>3. CASE GiveUp(i)
    BY <2>1, <2>3, SplitGiveUp
  <2> QED BY <1>5, <2>2, <2>3 DEF DetectChain
<1>6. ASSUME NEW i \in Instances, Create(i) PROVE SplitInv'
  <2>1. /\ pc[i] = "create" /\ alert_meta' = RowsAfter(i) /\ Goto(i, "set_meta")
        /\ meta_id' = [meta_id EXCEPT ![i] = Len(alert_meta) + 1]
        /\ UNCHANGED <<work, cache, expiries, causes>>
    BY <1>6 DEF Create, history
  <2>2. Others(i) /\ pc'[i] = "set_meta"
    BY <1>t, <2>1 DEF TypeOK, Goto, Others
  <2>3. alert_meta' \in {alert_meta, RowsAfter(i)} /\ cache' \in {cache, CacheAfter(i)}
    BY <2>1
  <2> QED BY <1>c, <1>g, <2>1, <2>2, <2>3, SplitGoto
<1>7. ASSUME NEW i \in Instances, SetMeta(i) PROVE SplitInv'
  <2>1. /\ pc[i] = "set_meta" /\ Goto(i, "fetch")
        /\ UNCHANGED <<work, meta_id, alert_meta, expiries>>
    BY <1>7 DEF SetMeta
  <2>2. CASE redis_open[i]
    <3>1. cache' = cache /\ Blame(Key(i))
      BY <1>7, <2>2 DEF SetMeta
    <3> QED BY <1>c, <1>g, <2>1, <3>1, SplitGoto
  <2>3. CASE ~redis_open[i]
    <3>1. cache' = CacheAfter(i) /\ causes' = causes
      BY <1>7, <2>3 DEF SetMeta
    <3>2. cache'[Key(i)] = meta_id[i]
      BY <1>t, <2>1, <3>1, KeyType DEF CacheAfter, TypeOK
    <3>3. meta_id[i] \in Rows
      BY <2>1 DEF IInv, IdsInv, InHand, OfKey
    <3>4. meta_id[i] \notin {Absent, Pending}
      BY <3>3 DEF Rows, Absent, Pending
    <3> QED BY <1>c, <1>g, <2>1, <3>1, <3>2, <3>4, SplitGoto
  <2> QED BY <2>2, <2>3
<1>8. ASSUME NEW i \in Instances, Fetch(i) PROVE SplitInv'
  <2>1. pc[i] = "fetch" /\ UNCHANGED <<cache, alert_meta, expiries, causes>>
    BY <1>8 DEF Fetch, history
  <2>2. CASE Goto(i, "publish") /\ UNCHANGED <<work, meta_id>>
    BY <1>c, <1>g, <2>1, <2>2, SplitGoto DEF Creating
  <2>3. CASE GiveUp(i)
    BY <2>1, <2>3, SplitGiveUp
  <2> QED BY <1>8, <2>2, <2>3 DEF Fetch
<1>9. ASSUME NEW i \in Instances, Publish(i) PROVE SplitInv'
  BY <1>9, SplitGiveUp DEF Publish, history
<1>10. ASSUME NEW i \in Instances, RedisFails(i) PROVE SplitInv'
  BY <1>10, SplitGiveUp DEF RedisFails
<1>11. ASSUME NEW i \in Instances, DbFails(i) PROVE SplitInv'
  BY <1>11, SplitGiveUp DEF DbFails
<1>12. ASSUME NEW i \in Instances, Crash(i) PROVE SplitInv'
  <2>1. CASE pc[i] # "recv"
    BY <1>12, <2>1, SplitGiveUp DEF Crash
  <2>2. CASE pc[i] = "recv"
    <3>1. UNCHANGED <<alert_meta, cache, expiries, causes>> /\ GiveUp(i)
      BY <1>12, <2>2 DEF Crash, CacheAfter, RowsAfter
    <3>2. \A j \in Instances : pc[j] \in Creating \/ pc'[j] \in Creating
                                 => pc'[j] = pc[j] /\ work'[j] = work[j]
      BY <1>t, <2>2, <3>1 DEF GiveUp, TypeOK, Creating
    <3> QED BY <3>1, <3>2, SplitStays
  <2> QED BY <2>1, <2>2
<1>13. ASSUME UNCHANGED <<memory, alert_meta, cache, expiries, causes>> PROVE SplitInv'
  BY <1>13, SplitStays DEF memory
<1>14. ASSUME NEW i \in Instances, Rebalance(i) \/ BreakerResets(i) PROVE SplitInv'
  BY <1>13, <1>14 DEF Rebalance, BreakerResets, history
<1>15. ASSUME NEW k \in Keys, Expire(k) PROVE SplitInv'
  BY <1>15, SplitExpire
<1>16. CASE UNCHANGED vars
  BY <1>13, <1>16 DEF vars, history
<1> QED
  BY <1>1, <1>2, <1>3, <1>4, <1>5, <1>6, <1>7, <1>8, <1>9, <1>10, <1>11, <1>12,
     <1>14, <1>15, <1>16 DEF Next, Process, CreateNew

LEMMA SplitInit == Init => SplitInv
<1> SUFFICES ASSUME Init, NEW k \in Keys
             PROVE  /\ Cardinality(KeyRows(alert_meta, k)) + Cardinality(Creators(pc, work, k))
                         <= 1 + expiries[k] + causes[k]
                    /\ Cardinality(KeyRows(alert_meta, k)) <= expiries[k] + causes[k]
  BY DEF SplitInv
<1>1. /\ KeyRows(alert_meta, k) = {} /\ Creators(pc, work, k) = {}
      /\ expiries[k] = 0 /\ causes[k] = 0
  BY DEF Init, KeyRows, Creators, Before
<1> QED BY <1>1, FS_EmptySet

\* The rows of a key are one per window and one for each cause: an instance that
\* was creating one, an open breaker, a failure between row and entry.
THEOREM SplitsCaused == Spec => []SplitsHaveACause
<1>2. IInv /\ SplitInv => SplitsHaveACause
  <2> SUFFICES ASSUME IInv, SplitInv, NEW k \in Keys
               PROVE  Cardinality(RowsOf(k)) <= 1 + expiries[k] + causes[k]
    BY DEF SplitsHaveACause
  <2>1. RowsOf(k) = KeyRows(alert_meta, k)
    BY DEF RowsOf, KeyRows, Rows, Holds
  <2>2. Cardinality(KeyRows(alert_meta, k)) + Cardinality(Creators(pc, work, k))
          <= 1 + expiries[k] + causes[k]
    BY DEF SplitInv
  <2>3. Cardinality(KeyRows(alert_meta, k)) \in Nat /\ Cardinality(Creators(pc, work, k)) \in Nat
    <3>1. Creators(pc, work, k) \subseteq Instances
      BY DEF Creators
    <3>2. IsFiniteSet(Creators(pc, work, k))
      BY <3>1, CorrelatorAssumption, FS_Subset
    <3>3. Cardinality(Creators(pc, work, k)) \in Nat
      BY <3>2, FS_CardinalityType
    <3> QED BY <3>3, KeyRowsFinite DEF IInv, TypeOK
  <2>4. expiries[k] \in Nat /\ causes[k] \in Nat
    BY DEF IInv, TypeOK
  <2> QED BY <2>1, <2>2, <2>3, <2>4
<1> QED
  BY <1>2, SplitInit, SplitNext, IdsInvariant, PTL DEF Spec

-----------------------------------------------------------------------------
(* The correlator keeps the promise of AlertGrouping.                      *)

Hands   == [i \in Instances |-> Uncounted(i)]
Counts  == [i \in Instances |-> Unpublished(i)]
Reasons == [k \in Keys |-> expiries[k] + causes[k]]

\* While it makes a call that may write, an instance has a reading to count.
Writing == {"get", "update", "set_pending", "chain", "create"}
\* Once it has, it has what it may publish.
Written == {"set_meta", "fetch", "publish"}

\* One more window or cause of a key is one more reason.
LEMMA OneReason ==
  ASSUME TypeOK, NEW k \in Keys,
         \/ expiries' = [expiries EXCEPT ![k] = @ + 1] /\ causes' = causes
         \/ expiries' = expiries /\ causes' = [causes EXCEPT ![k] = @ + 1]
  PROVE  Reasons' = [Reasons EXCEPT ![k] = @ + 1]
<1>1. expiries \in [Keys -> Nat] /\ causes \in [Keys -> Nat]
  BY DEF TypeOK
<1>2. ASSUME NEW q \in Keys
      PROVE  expiries'[q] + causes'[q] = IF q = k THEN expiries[k] + causes[k] + 1
                                                  ELSE expiries[q] + causes[q]
  BY <1>1
<1>3. ASSUME NEW q \in Keys PROVE Reasons'[q] = IF q = k THEN Reasons[k] + 1 ELSE Reasons[q]
  BY <1>2 DEF Reasons
<1>4. Reasons = [q \in Keys |-> Reasons[q]] /\ Reasons' = [q \in Keys |-> Reasons'[q]]
  BY DEF Reasons
<1> QED
  BY <1>3, <1>4

LEMMA SameCardinality == \A S : Grouping!Cardinality(S) = Cardinality(S)
  BY DEF Grouping!Cardinality, Cardinality, Grouping!IsFiniteSet, IsFiniteSet

\* The call of i writes the reading to a row, or does not, and afterwards the
\* reading is counted or lost.
LEMMA CallStep ==
  ASSUME IInv, SplitInv, NEW i \in Instances, pc[i] # "recv", Others(i),
         alert_meta' \in {alert_meta, RowsAfter(i)}, expiries' = expiries,
         pc'[i] \in Writing \union Written => work'[i] = work[i],
         pc'[i] \in Writing => pc[i] \in Writing /\ alert_meta' = alert_meta,
         pc'[i] \in Written =>
           \/ pc[i] \in Written
           \/ alert_meta' = RowsAfter(i) /\ pc[i] = "create"
           \/ alert_meta' = RowsAfter(i) /\ pc[i] = "update" /\ meta_id[i] \in Rows,
         causes' = causes \/ (Blame(Key(i)) /\ pc[i] # "update")
  PROVE  [Grouping!Next]_(Grouping!vars)
<1>a. PICK a \in Alerts : a = work[i]
  BY KeyType DEF IInv
<1>k. PICK k \in Keys : k = KeyOf[a]
  BY CorrelatorAssumption
<1>0. /\ a # NoAlert /\ pc[i] \in Writing \union Written
      /\ \A q \in Writing : q \notin Written
  BY <1>a, CorrelatorAssumption DEF IInv, TypeOK, Calls, Creating, Writing, Written
<1>1. /\ Uncounted(i) = IF pc[i] \in Writing THEN a ELSE NoAlert
      /\ Uncounted(i)' \in {Uncounted(i), NoAlert}
      /\ pc'[i] \notin Writing => Uncounted(i)' = NoAlert
      /\ pc'[i] \in Writing => Uncounted(i)' = Uncounted(i)
  BY <1>a, <1>0 DEF Uncounted, Writing
<1>2. /\ Unpublished(i) = IF pc[i] \in Written THEN a ELSE NoAlert
      /\ Unpublished(i)' = IF pc'[i] \in Written THEN a ELSE NoAlert
  BY <1>a, <1>0 DEF Unpublished, Written
<1>o. ASSUME NEW j \in Instances \ {i}
      PROVE  Uncounted(j)' = Uncounted(j) /\ Unpublished(j)' = Unpublished(j)
  BY DEF Others, Uncounted, Unpublished
<1>h. /\ Hands[i] = Uncounted(i) /\ Counts[i] = Unpublished(i)
      /\ Hands' = [Hands EXCEPT ![i] = Uncounted(i)']
      /\ Counts' = [Counts EXCEPT ![i] = Unpublished(i)']
  BY <1>o DEF Hands, Counts
<1>3. pc'[i] \in Written /\ pc[i] \notin Written => alert_meta' = RowsAfter(i)
  OBVIOUS
<1>4. Reasons' = Reasons \/ (Reasons' = [Reasons EXCEPT ![k] = @ + 1] /\ pc[i] # "update")
  <2>2. causes' = causes \/ (causes' = [causes EXCEPT ![k] = @ + 1] /\ pc[i] # "update")
    BY <1>a, <1>k DEF Blame, Key
  <2>3. CASE causes' = causes
    BY <2>3 DEF Reasons
  <2>4. CASE causes' = [causes EXCEPT ![k] = @ + 1] /\ pc[i] # "update"
    BY <2>4, OneReason DEF IInv
  <2> QED
    BY <2>2, <2>3, <2>4
<1>5. CASE alert_meta' = alert_meta /\ (pc'[i] \in Written => pc[i] \in Written)
  <2>r. Grouping!MayBeReason
    BY <1>4 DEF Grouping!MayBeReason, Grouping!Reason, Reasons
  <2>1. CASE Hands' = Hands /\ Counts' = Counts
    BY <1>4, <1>5, <2>1 DEF Grouping!Next, Grouping!Reason, Grouping!vars, Hands, Counts, Reasons
  <2>2. CASE pc[i] \in Writing /\ pc'[i] \notin Writing
    <3>1. /\ Hands[i] # NoAlert /\ Hands' = [Hands EXCEPT ![i] = NoAlert]
          /\ Counts[i] = NoAlert /\ Counts' = [Counts EXCEPT ![i] = NoAlert]
      BY <1>0, <1>1, <1>2, <1>5, <1>h, <2>2
    <3>2. Counts' = Counts
      BY <3>1 DEF Counts
    <3>3. Grouping!Lose(i)
      BY <1>5, <3>1, <3>2 DEF Grouping!Lose, Hands, Counts
    <3> QED
      BY <2>r, <3>3 DEF Grouping!Next
  <2>3. CASE pc[i] \in Written /\ pc'[i] \notin Written
    <3>1. /\ Counts[i] # NoAlert /\ Counts' = [Counts EXCEPT ![i] = NoAlert]
          /\ Hands[i] = NoAlert /\ Hands' = [Hands EXCEPT ![i] = NoAlert]
      BY <1>0, <1>1, <1>2, <1>h, <2>3
    <3>2. Hands' = Hands
      BY <3>1 DEF Hands
    <3>3. Grouping!Publish(i)
      BY <1>5, <3>1, <3>2 DEF Grouping!Publish, Hands, Counts
    <3> QED
      BY <2>r, <3>3 DEF Grouping!Next
  <2>4. CASE \/ pc[i] \in Writing /\ pc'[i] \in Writing
             \/ pc[i] \in Written /\ pc'[i] \in Written
    <3>1. Hands' = [Hands EXCEPT ![i] = Hands[i]] /\ Counts' = [Counts EXCEPT ![i] = Counts[i]]
      BY <1>0, <1>1, <1>2, <1>h, <2>4
    <3>2. Hands' = Hands /\ Counts' = Counts
      BY <3>1 DEF Hands, Counts
    <3> QED
      BY <2>1, <3>2
  <2> QED
    BY <1>0, <2>2, <2>3, <2>4
<1>d. ASSUME pc[i] \in Writing, pc'[i] \notin Writing
      PROVE  Hands[i] # NoAlert /\ Hands[i] = a /\ Grouping!Done(i)
  <2>1. Hands[i] = a /\ Hands' = [Hands EXCEPT ![i] = NoAlert] /\ a # NoAlert
    BY <1>0, <1>1, <1>d, <1>h
  <2>2. Counts' = [Counts EXCEPT ![i] = NoAlert] \/ Counts' = [Counts EXCEPT ![i] = a]
    BY <1>2, <1>h
  <2>3. Counts[i] = NoAlert
    BY <1>0, <1>2, <1>d, <1>h
  <2>4. Counts' = Counts \/ Counts' = [Counts EXCEPT ![i] = a]
    BY <2>2, <2>3 DEF Counts
  <2> QED
    BY <2>1, <2>4 DEF Grouping!Done, Hands, Counts
<1>6. CASE /\ alert_meta' = RowsAfter(i) /\ pc'[i] \notin Writing
           /\ pc[i] = "update" /\ meta_id[i] \in Rows
  <2>1. PICK g \in Rows : g = meta_id[i]
    BY <1>6 DEF RowsAfter
  <2>2. OfKey(g, k)
    BY <1>6, <1>a, <1>k, <2>1 DEF IInv, IdsInv, InHand, Key
  <2>3. alert_meta' = [alert_meta EXCEPT ![g][a] = @ + 1]
    BY <1>6, <1>a, <2>1 DEF RowsAfter
  <2>4. Hands[i] # NoAlert /\ Hands[i] = a /\ Grouping!Done(i)
    BY <1>6, <1>d DEF Writing
  <2>5. Reasons' = Reasons
    BY <1>4, <1>6
  <2>6. g \in DOMAIN alert_meta
    BY <2>1 DEF Rows, IInv, TypeOK
  <2>7. Grouping!Count(i, g)
    BY <1>k, <2>2, <2>3, <2>4, <2>5 DEF Grouping!Count, OfKey, Holds, Hands, Reasons
  <2> QED
    BY <2>6, <2>7 DEF Grouping!Next
<1>7. CASE alert_meta' = RowsAfter(i) /\ pc'[i] \notin Writing /\ pc[i] = "create"
  <2>1. alert_meta' = Append(alert_meta, Once(a))
    BY <1>7, <1>a DEF RowsAfter
  <2>2. Hands[i] # NoAlert /\ Hands[i] = a /\ Grouping!Done(i)
    BY <1>7, <1>d DEF Writing
  <2>3. Grouping!Groups(k) = KeyRows(alert_meta, k)
    BY DEF Grouping!Groups, KeyRows, IInv, TypeOK
  <2>4. Cardinality(Creators(pc, work, k)) \in Nat /\ Cardinality(Creators(pc, work, k)) >= 1
    <3>1. i \in Creators(pc, work, k) /\ Creators(pc, work, k) \subseteq Instances
      BY <1>7, <1>a, <1>k DEF Creators, Before
    <3>2. IsFiniteSet(Creators(pc, work, k))
      BY <3>1, CorrelatorAssumption, FS_Subset
    <3> QED
      BY <3>1, <3>2, FS_CardinalityType, FS_EmptySet
  <2>5. Cardinality(KeyRows(alert_meta, k)) <= Reasons[k]
    <3>1. Cardinality(KeyRows(alert_meta, k)) + Cardinality(Creators(pc, work, k))
            <= 1 + expiries[k] + causes[k]
      BY DEF SplitInv
    <3>2. Cardinality(KeyRows(alert_meta, k)) \in Nat
      BY KeyRowsFinite DEF IInv, TypeOK
    <3>3. expiries[k] \in Nat /\ causes[k] \in Nat
      BY DEF IInv, TypeOK
    <3> QED
      BY <2>4, <3>1, <3>2, <3>3 DEF Reasons
  <2>6. Cardinality(KeyRows(alert_meta, k)) <= Reasons'[k]
    <3>1. Reasons[k] \in Nat /\ Reasons'[k] \in {Reasons[k], Reasons[k] + 1}
      BY <1>4 DEF IInv, TypeOK, Reasons
    <3>2. Cardinality(KeyRows(alert_meta, k)) \in Nat
      BY KeyRowsFinite DEF IInv, TypeOK
    <3> QED
      BY <2>5, <3>1, <3>2
  <2>7. Once(a) = [b \in Alerts |-> IF b = Hands[i] THEN 1 ELSE 0]
    BY <2>2 DEF Once
  <2>8. Grouping!Begin(i)
    BY <1>k, <2>1, <2>2, <2>3, <2>6, <2>7, SameCardinality DEF Grouping!Begin, Hands, Reasons
  <2>9. Grouping!MayBeReason
    BY <1>4 DEF Grouping!MayBeReason, Grouping!Reason, Reasons
  <2> QED
    BY <2>8, <2>9 DEF Grouping!Next
<1> QED
  <2>1. CASE pc'[i] \in Written /\ pc[i] \notin Written
    BY <1>0, <1>6, <1>7, <2>1
  <2>2. CASE alert_meta' # alert_meta
    BY <1>6, <1>7, <2>2 DEF RowsAfter
  <2> QED
    BY <1>5, <2>1, <2>2

\* The instance gives the reading up, or goes on to a call that still has to
\* write it.
LEMMA GroupingStep ==
  ASSUME IInv, SplitInv, [Next]_vars
  PROVE  [Grouping!Next]_(Grouping!vars)
<1>t. TypeOK
  BY DEF IInv
<1>w. /\ \A s \in Written : s \notin Writing
      /\ "recv" \notin Writing \union Written
  BY DEF Writing, Written
<1>0. ASSUME UNCHANGED <<memory, alert_meta, expiries, causes>>
      PROVE  UNCHANGED Grouping!vars
  BY <1>0 DEF Grouping!vars, memory, Uncounted, Unpublished
<1>g. ASSUME NEW i \in Instances, GiveUp(i) PROVE Others(i) /\ pc'[i] = "recv"
  BY <1>g, <1>t DEF TypeOK, GiveUp, Others
<1>1. ASSUME NEW i \in Instances, Receive(i) PROVE [Grouping!Next]_(Grouping!vars)
  <2>1. PICK a \in Alerts : work' = [work EXCEPT ![i] = a]
    BY <1>1 DEF Receive
  <2>2. /\ Hands[i] = NoAlert /\ Hands' = [Hands EXCEPT ![i] = a]
        /\ Counts[i] = NoAlert /\ Counts' = Counts
    BY <1>1, <2>1, <1>t DEF Receive, Goto, TypeOK, Hands, Counts, Uncounted, Unpublished
  <2>3. UNCHANGED <<alert_meta, expiries, causes>>
    BY <1>1 DEF Receive
  <2>4. Grouping!Read(i)
    BY <2>2, <2>3 DEF Grouping!Read, Hands, Counts, Reasons
  <2> QED
    BY <2>4 DEF Grouping!Next
<1>2. ASSUME NEW i \in Instances, Lookup(i) PROVE [Grouping!Next]_(Grouping!vars)
  <2>1. /\ pc[i] = "get" /\ UNCHANGED <<work, alert_meta, expiries>>
        /\ causes' = causes \/ Blame(Key(i))
        /\ Goto(i, "set_pending") \/ Goto(i, "update")
        /\ meta_id' \in {meta_id, [meta_id EXCEPT ![i] = cache[Key(i)]]}
    BY <1>2 DEF Lookup
  <2>2. Others(i)
    BY <1>t, <2>1, GotoOthers
  <2>3. pc'[i] \in Writing /\ pc'[i] \notin Written /\ pc[i] \in Writing
    BY <1>t, <2>1 DEF TypeOK, Goto, Writing, Written
  <2> QED
    BY <2>1, <2>2, <2>3, CallStep
<1>3. ASSUME NEW i \in Instances, Update(i) PROVE [Grouping!Next]_(Grouping!vars)
  <2>1. /\ pc[i] = "update" /\ alert_meta' = RowsAfter(i) /\ UNCHANGED <<expiries, causes>>
        /\ \/ Goto(i, "fetch") /\ meta_id[i] \in Rows /\ UNCHANGED <<work, meta_id>>
           \/ GiveUp(i)
    BY <1>3 DEF Update, history
  <2>2. CASE GiveUp(i)
    BY <1>g, <1>w, <2>1, <2>2, CallStep
  <2>3. CASE Goto(i, "fetch") /\ meta_id[i] \in Rows /\ UNCHANGED <<work, meta_id>>
    <3>1. Others(i) /\ pc'[i] = "fetch"
      BY <1>t, <2>3, GotoOthers
    <3>2. pc'[i] \in Written /\ pc'[i] \notin Writing
      BY <3>1 DEF Writing, Written
    <3> QED
      BY <2>1, <2>3, <3>1, <3>2, CallStep
  <2> QED
    BY <2>1, <2>2, <2>3
<1>4. ASSUME NEW i \in Instances, SetPending(i) \/ DetectChain(i)
      PROVE  [Grouping!Next]_(Grouping!vars)
  <2>1. /\ pc[i] \in {"set_pending", "chain"} /\ UNCHANGED <<alert_meta, expiries, causes>>
        /\ \/ (Goto(i, "chain") \/ Goto(i, "create")) /\ UNCHANGED <<work, meta_id>>
           \/ GiveUp(i)
    BY <1>4 DEF SetPending, DetectChain, history
  <2>2. CASE GiveUp(i)
    BY <1>g, <1>w, <2>1, <2>2, CallStep
  <2>3. CASE (Goto(i, "chain") \/ Goto(i, "create")) /\ UNCHANGED <<work, meta_id>>
    <3>1. Others(i) /\ pc'[i] \in Writing /\ pc'[i] \notin Written /\ pc[i] \in Writing
      BY <1>t, <2>1, <2>3, GotoOthers DEF Writing, Written
    <3> QED
      BY <2>1, <2>3, <3>1, CallStep
  <2> QED
    BY <2>1, <2>2, <2>3
<1>5. ASSUME NEW i \in Instances, Create(i) PROVE [Grouping!Next]_(Grouping!vars)
  <2>1. /\ pc[i] = "create" /\ alert_meta' = RowsAfter(i) /\ UNCHANGED <<work, expiries, causes>>
        /\ Goto(i, "set_meta") /\ meta_id' = [meta_id EXCEPT ![i] = Len(alert_meta) + 1]
    BY <1>5 DEF Create, history
  <2>2. Others(i) /\ pc'[i] = "set_meta"
    BY <1>t, <2>1 DEF TypeOK, Goto, Others
  <2>3. pc'[i] \in Written /\ pc'[i] \notin Writing
    BY <2>2 DEF Writing, Written
  <2> QED
    BY <2>1, <2>2, <2>3, CallStep
<1>6. ASSUME NEW i \in Instances, SetMeta(i) \/ Fetch(i) \/ Publish(i)
      PROVE  [Grouping!Next]_(Grouping!vars)
  <2>1. /\ pc[i] \in {"set_meta", "fetch", "publish"} /\ UNCHANGED <<alert_meta, expiries>>
        /\ causes' = causes \/ Blame(Key(i))
        /\ \/ (Goto(i, "fetch") \/ Goto(i, "publish")) /\ UNCHANGED <<work, meta_id>>
           \/ GiveUp(i)
    BY <1>6 DEF SetMeta, Fetch, Publish, history
  <2>2. CASE GiveUp(i)
    BY <1>g, <1>w, <2>1, <2>2, CallStep
  <2>3. CASE (Goto(i, "fetch") \/ Goto(i, "publish")) /\ UNCHANGED <<work, meta_id>>
    <3>1. Others(i) /\ pc'[i] \in Written /\ pc'[i] \notin Writing /\ pc[i] \in Written
      BY <1>t, <2>1, <2>3, GotoOthers DEF Writing, Written
    <3> QED
      BY <2>1, <2>3, <3>1, CallStep
  <2> QED
    BY <2>1, <2>2, <2>3
<1>7. ASSUME NEW i \in Instances, RedisFails(i) PROVE [Grouping!Next]_(Grouping!vars)
  <2>1. /\ pc[i] \in {"get", "set_pending", "set_meta"} /\ UNCHANGED <<alert_meta, expiries>>
        /\ causes' = causes \/ Blame(Key(i))
        /\ GiveUp(i)
    BY <1>7 DEF RedisFails
  <2> QED
    BY <1>g, <1>w, <2>1, CallStep
<1>8. ASSUME NEW i \in Instances, DbFails(i) PROVE [Grouping!Next]_(Grouping!vars)
  <2>1. /\ pc[i] \in {"update", "chain", "create", "fetch"} /\ UNCHANGED expiries
        /\ alert_meta' \in {alert_meta, RowsAfter(i)}
        /\ causes' = causes \/ (Blame(Key(i)) /\ pc[i] # "update")
        /\ GiveUp(i)
    BY <1>8 DEF DbFails
  <2> QED
    BY <1>g, <1>w, <2>1, CallStep
<1>9. ASSUME NEW i \in Instances, Crash(i) PROVE [Grouping!Next]_(Grouping!vars)
  <2>1. /\ UNCHANGED expiries /\ alert_meta' \in {alert_meta, RowsAfter(i)}
        /\ causes' = causes \/ (Blame(Key(i)) /\ pc[i] \in {"create", "set_meta"})
        /\ GiveUp(i)
    BY <1>9 DEF Crash
  <2>2. CASE pc[i] # "recv"
    BY <1>g, <1>w, <2>1, <2>2, CallStep
  <2>3. CASE pc[i] = "recv"
    <3>1. UNCHANGED <<alert_meta, expiries, causes>>
      BY <2>1, <2>3 DEF RowsAfter
    <3>2. /\ Uncounted(i)' = Uncounted(i) /\ Unpublished(i)' = Unpublished(i)
          /\ \A j \in Instances \ {i} : Uncounted(j)' = Uncounted(j)
                                      /\ Unpublished(j)' = Unpublished(j)
      BY <1>g, <2>1, <2>3 DEF Others, Uncounted, Unpublished
    <3>3. \A j \in Instances : Uncounted(j)' = Uncounted(j) /\ Unpublished(j)' = Unpublished(j)
      BY <3>2
    <3> QED
      BY <3>1, <3>3 DEF Grouping!vars
  <2> QED
    BY <2>2, <2>3
<1>10. ASSUME NEW i \in Instances, Rebalance(i) \/ BreakerResets(i)
       PROVE  UNCHANGED Grouping!vars
  BY <1>0, <1>10 DEF Rebalance, BreakerResets, history
<1>11. ASSUME NEW k \in Keys, Expire(k) PROVE [Grouping!Next]_(Grouping!vars)
  <2>1. Reasons' = [Reasons EXCEPT ![k] = @ + 1]
    BY <1>11, <1>t, OneReason DEF Expire
  <2>2. Hands' = Hands /\ Counts' = Counts /\ alert_meta' = alert_meta
    BY <1>11 DEF Expire, memory, Hands, Counts, Uncounted, Unpublished
  <2> QED
    BY <2>1, <2>2 DEF Grouping!Next, Grouping!Reason, Hands, Counts, Reasons
<1>12. CASE UNCHANGED vars
  BY <1>0, <1>12 DEF vars, history
<1> QED
  BY <1>1, <1>2, <1>3, <1>4, <1>5, <1>6, <1>7, <1>8, <1>9, <1>10, <1>11, <1>12
     DEF Next, Process, CreateNew

\* The correlator implements AlertGrouping: whatever fails or interleaves, a
\* reading is counted in one row of its key at most, a key has a further row
\* only for a reason, and the rows keep what they have counted.
THEOREM ImplementsGrouping == Spec => GroupingPromise
<1>1. Init => Grouping!Init
  BY DEF Init, Grouping!Init, Uncounted, Unpublished
<1>2. Spec => []SplitInv
  BY SplitInit, SplitNext, IdsInvariant, PTL DEF Spec
<1> QED
  BY <1>1, <1>2, GroupingStep, IdsInvariant, PTL DEF Spec, GroupingPromise, Grouping!Spec
=============================================================================
