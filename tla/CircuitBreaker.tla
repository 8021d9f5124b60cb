--------------------------- MODULE CircuitBreaker ---------------------------
(***************************************************************************)
(* The circuit breaker of crates/ndr-core/src/circuit_breaker.rs, shared   *)
(* by the concurrent calls of one process.  Every call follows the         *)
(* protocol of its users (the edge agent's Forwarder::forward, the         *)
(* correlator's Redis cache, the sensor controller): ask is_open, perform  *)
(* the operation when it answers false, then record_success or             *)
(* record_failure.                                                         *)
(*                                                                         *)
(* A step goes from one .await to the next.  The guard of failure_count    *)
(* is the only one held across an .await, so it is the only lock with a    *)
(* holder here (writer); the guard of last_failure is taken and released   *)
(* inside a step, always under writer when it is a write guard.            *)
(*                                                                         *)
(* A task whose future the runtime can drop at an .await (an HTTP handler  *)
(* whose client disconnects) is in Cancellable.                            *)
(***************************************************************************)
EXTENDS Integers, FiniteSets

CONSTANTS
  Tasks,         \* the concurrent callers of one breaker
  Cancellable,   \* the callers that may be dropped at an .await
  MaxFailures,   \* max_failures
  ResetTimeout,  \* reset_timeout, in clock ticks
  NoTask         \* nobody holds the write guard of failure_count

ASSUME BreakerAssumption ==
  /\ IsFiniteSet(Tasks)
  /\ Cancellable \subseteq Tasks
  /\ MaxFailures \in Nat \ {0}
  /\ ResetTimeout \in Nat
  /\ NoTask \notin Tasks

VARIABLES
  failure_count,  \* RwLock<u32>
  last_failure,   \* the age of the Option<Instant>, or None
  writer,         \* the task that holds failure_count.write()
  pc,             \* the .await each task is at
  dropped         \* history: increments left without an instant by a dropped
                  \* record_failure since the last reset

vars == <<failure_count, last_failure, writer, pc, dropped>>

None == -1

\* Ages above ResetTimeout are all alike: last_fail.elapsed() > reset_timeout.
Expired == last_failure > ResetTimeout

IsOpenStates  == {"is_open_count", "is_open_last", "reset_lock", "reset_write"}
SuccessStates == {"success_read", "success_lock", "success_write"}
FailureStates == {"failure_lock", "failure_stamp"}
States == {"idle", "sending"} \union IsOpenStates \union SuccessStates \union FailureStates

Goto(t, s) == pc' = [pc EXCEPT ![t] = s]

Init ==
  /\ failure_count = 0
  /\ last_failure = None
  /\ writer = NoTask
  /\ pc = [t \in Tasks |-> "idle"]
  /\ dropped = 0

-----------------------------------------------------------------------------
(* is_open *)

Call(t) ==
  /\ pc[t] = "idle"
  /\ Goto(t, "is_open_count")
  /\ UNCHANGED <<failure_count, last_failure, writer, dropped>>

\* Mutant: the call goes through when the count has just reached the limit.
ReadCountOffByOne(t) ==
  /\ pc[t] = "is_open_count"
  /\ writer = NoTask
  /\ Goto(t, IF failure_count <= MaxFailures THEN "sending" ELSE "is_open_last")
  /\ UNCHANGED <<failure_count, last_failure, writer, dropped>>

\* let count = *self.failure_count.read().await; below the limit: not open.
IsOpenReadCount(t) ==
  /\ pc[t] = "is_open_count"
  /\ writer = NoTask
  /\ Goto(t, IF failure_count < MaxFailures THEN "sending" ELSE "is_open_last")
  /\ UNCHANGED <<failure_count, last_failure, writer, dropped>>

\* Mutant: an open breaker never asks for its reset.
ReadLastNeverResets(t) ==
  /\ pc[t] = "is_open_last"
  /\ Goto(t, "idle")
  /\ UNCHANGED <<failure_count, last_failure, writer, dropped>>

\* let last_fail = *self.last_failure.read().await; the call is refused
\* unless the instant read is older than reset_timeout.
IsOpenReadLast(t) ==
  /\ pc[t] = "is_open_last"
  /\ Goto(t, IF Expired THEN "reset_lock" ELSE "idle")
  /\ UNCHANGED <<failure_count, last_failure, writer, dropped>>

\* failure_count.write().await on the way to a reset.
LockCount(t, from, to) ==
  /\ pc[t] = from
  /\ writer = NoTask
  /\ writer' = t
  /\ Goto(t, to)
  /\ UNCHANGED <<failure_count, last_failure, dropped>>

\* Mutant: the reset leaves the instant behind.
ResetCountOnly(t, from, to) ==
  /\ pc[t] = from
  /\ failure_count' = 0
  /\ dropped' = 0
  /\ writer' = NoTask
  /\ Goto(t, to)
  /\ UNCHANGED last_failure

\* Mutant: a reset takes one failure back instead of all of them.
ResetDecrements(t, from, to) ==
  /\ pc[t] = from
  /\ failure_count' = failure_count - 1
  /\ last_failure' = IF failure_count > 1 THEN last_failure ELSE None
  /\ dropped' = 0
  /\ writer' = NoTask
  /\ Goto(t, to)

\* Mutant: the reset keeps the write guard.
ResetKeepsGuard(t, from, to) ==
  /\ pc[t] = from
  /\ failure_count' = 0
  /\ last_failure' = None
  /\ dropped' = 0
  /\ Goto(t, to)
  /\ UNCHANGED writer

\* last_failure.write().await, both cells cleared, both guards dropped.
ResetBoth(t, from, to) ==
  /\ pc[t] = from
  /\ failure_count' = 0
  /\ last_failure' = None
  /\ dropped' = 0
  /\ writer' = NoTask
  /\ Goto(t, to)

IsOpenLock(t)  == LockCount(t, "reset_lock", "reset_write")
IsOpenReset(t) == ResetBoth(t, "reset_write", "sending")

-----------------------------------------------------------------------------
(* The guarded operation, and record_success / record_failure.             *)

OperationEnds(t) ==
  /\ pc[t] = "sending"
  /\ \E s \in {"success_read", "failure_lock"} : Goto(t, s)
  /\ UNCHANGED <<failure_count, last_failure, writer, dropped>>

\* let should_reset = *self.failure_count.read().await > 0
SuccessRead(t) ==
  /\ pc[t] = "success_read"
  /\ writer = NoTask
  /\ Goto(t, IF failure_count > 0 THEN "success_lock" ELSE "idle")
  /\ UNCHANGED <<failure_count, last_failure, writer, dropped>>

SuccessLock(t)  == LockCount(t, "success_lock", "success_write")
SuccessReset(t) == ResetBoth(t, "success_write", "idle")

\* failure_count.write().await and the increment; the guard stays held.
FailureLock(t) ==
  /\ pc[t] = "failure_lock"
  /\ writer = NoTask
  /\ writer' = t
  /\ failure_count' = failure_count + 1
  /\ Goto(t, "failure_stamp")
  /\ UNCHANGED <<last_failure, dropped>>

\* Mutant: only the failure that opens the breaker is stamped.
StampOpeningOnly(t) ==
  /\ pc[t] = "failure_stamp"
  /\ last_failure' = IF failure_count >= MaxFailures THEN 0 ELSE last_failure
  /\ writer' = NoTask
  /\ Goto(t, "idle")
  /\ UNCHANGED <<failure_count, dropped>>

\* Mutant: a failure is stamped when there is no instant yet.
StampFirstOnly(t) ==
  /\ pc[t] = "failure_stamp"
  /\ last_failure' = IF last_failure = None THEN 0 ELSE last_failure
  /\ writer' = NoTask
  /\ Goto(t, "idle")
  /\ UNCHANGED <<failure_count, dropped>>

\* *self.last_failure.write().await = Some(Instant::now())
FailureStamp(t) ==
  /\ pc[t] = "failure_stamp"
  /\ last_failure' = 0
  /\ writer' = NoTask
  /\ Goto(t, "idle")
  /\ UNCHANGED <<failure_count, dropped>>

-----------------------------------------------------------------------------
(* The environment.                                                        *)

\* The future is dropped: its guard with it, its writes stay.
Drop(t) ==
  /\ t \in Cancellable
  /\ pc[t] # "idle"
  /\ writer' = IF writer = t THEN NoTask ELSE writer
  /\ dropped' = IF pc[t] = "failure_stamp" THEN dropped + 1 ELSE dropped
  /\ Goto(t, "idle")
  /\ UNCHANGED <<failure_count, last_failure>>

\* Time passes; the age saturates just above ResetTimeout.
Tick ==
  /\ last_failure # None
  /\ ~Expired
  /\ last_failure' = last_failure + 1
  /\ UNCHANGED <<failure_count, writer, pc, dropped>>

IsOpen(t) ==
  \/ IsOpenReadCount(t)
  \/ IsOpenReadLast(t)
  \/ IsOpenLock(t)
  \/ IsOpenReset(t)

RecordSuccess(t) == SuccessRead(t) \/ SuccessLock(t) \/ SuccessReset(t)
RecordFailure(t) == FailureLock(t) \/ FailureStamp(t)

Step(t) ==
  Call(t) \/ IsOpen(t) \/ OperationEnds(t) \/ RecordSuccess(t) \/ RecordFailure(t)

Next == (\E t \in Tasks : Step(t) \/ Drop(t)) \/ Tick

Spec == Init /\ [][Next]_vars

\* Callers keep calling (the forwarder task polls every five seconds), an
\* operation ends (its own timeout), the guard of tokio's RwLock is granted
\* in the order it was asked for (hence strong fairness), and time passes.
Fairness == WF_vars(Tick) /\ \A t \in Tasks : SF_vars(Step(t))

FairSpec == Spec /\ Fairness

-----------------------------------------------------------------------------
(* Properties.                                                             *)

TypeOK ==
  /\ failure_count \in Nat
  /\ last_failure \in {None} \union 0 .. (ResetTimeout + 1)
  /\ writer \in Tasks \union {NoTask}
  /\ pc \in [Tasks -> States]
  /\ dropped \in Nat

\* The two cells of the breaker are written under two locks and read one by
\* one, yet whenever no call is in the middle of recording they tell the same
\* story: an instant implies a failure, and failures without an instant are
\* all due to a record_failure dropped between its two writes.  (A breaker
\* whose count reaches max_failures without an instant never resets.)
CountAndInstantAgree ==
  writer = NoTask =>
    /\ last_failure # None => failure_count > 0
    /\ last_failure = None => failure_count <= dropped

\* However the calls interleave, the count overshoots max_failures by fewer
\* than the number of concurrent calls, so record_failure cannot run the u32
\* up for as long as the outage lasts.
CountBounded == failure_count <= MaxFailures - 1 + Cardinality(Tasks)

\* Where a caller is, the awaits of an operation taken together.
Progress(t) ==
  CASE pc[t] = "idle"                          -> "idle"
    [] pc[t] = "is_open_count"                 -> "asking"
    [] pc[t] = "is_open_last"                  -> "found open"
    [] pc[t] \in {"reset_lock", "reset_write"} -> "closing"
    [] pc[t] = "sending"                       -> "admitted"
    [] pc[t] \in SuccessStates                 -> "succeeded"
    [] pc[t] = "failure_lock"                  -> "failed"
    [] pc[t] = "failure_stamp"                 -> "noting"

Atomic == INSTANCE AtomicBreaker WITH
  open   <- failure_count >= MaxFailures,
  cooled <- Expired,
  call   <- [t \in Tasks |-> Progress(t)]

\* Two cells under two locks, read and written one by one by calls that may be
\* dropped in between, are to their callers one flag that is read and set at one
\* moment of each operation.
ActsAtomically == Atomic!Spec

\* No call waits for ever on the breaker's locks: no deadlock between the two
\* guards, and no guard left behind by a reset or by a dropped call.
CallsReturn == \A t \in Tasks : pc[t] = "is_open_count" ~> pc[t] = "idle"

\* An open breaker that has an instant does not stay open: some caller's
\* is_open resets it, also when the calls that came before it were dropped in
\* the middle of a reset or of a record.
BreakerRecovers ==
  failure_count >= MaxFailures /\ last_failure # None ~> failure_count < MaxFailures
=============================================================================
