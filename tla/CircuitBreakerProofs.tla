------------------------ MODULE CircuitBreakerProofs ------------------------
(***************************************************************************)
(* Theorems about CircuitBreaker, for any finite set of callers, any of    *)
(* which may be dropped, and any limit and timeout.                        *)
(***************************************************************************)
EXTENDS CircuitBreaker, FiniteSetTheorems, TLAPS

\* Who holds the write guard of failure_count: exactly the task that is
\* between taking it and giving it back.
Holding == {"reset_write", "success_write", "failure_stamp"}
GuardInv == \A t \in Tasks : writer = t <=> pc[t] \in Holding

\* The calls admitted and not yet recorded as a failure.
InFlight == {t \in Tasks : pc[t] \in {"sending", "failure_lock"}}
InFlightInv == failure_count + Cardinality(InFlight) <= MaxFailures - 1 + Cardinality(Tasks)

\* The agreement of the two cells at every step: the writer in the middle of
\* record_failure has counted a failure it has not stamped yet.
CellsInv ==
  /\ last_failure # None => failure_count > 0
  /\ last_failure = None =>
       failure_count <= dropped
         + (IF \E t \in Tasks : pc[t] = "failure_stamp" THEN 1 ELSE 0)
  /\ \A t \in Tasks : pc[t] = "failure_stamp" => failure_count > 0

\* The breaker's type invariant: u32 count never negative, the age saturates.
THEOREM TypeCorrect == Spec => []TypeOK
<1> USE BreakerAssumption DEF None, States, IsOpenStates, SuccessStates, FailureStates
<1>1. Init => TypeOK
  BY DEF Init, TypeOK
<1>2. TypeOK /\ [Next]_vars => TypeOK'
  <2> SUFFICES ASSUME TypeOK, [Next]_vars PROVE TypeOK'
    OBVIOUS
  <2> USE DEF TypeOK, Goto
  <2>1. ASSUME NEW t \in Tasks, Call(t) PROVE TypeOK'
    BY <2>1 DEF Call
  <2>2. ASSUME NEW t \in Tasks, IsOpen(t) PROVE TypeOK'
    BY <2>2 DEF IsOpen, IsOpenReadCount, IsOpenReadLast, IsOpenLock, IsOpenReset,
                LockCount, ResetBoth
  <2>3. ASSUME NEW t \in Tasks, OperationEnds(t) PROVE TypeOK'
    BY <2>3 DEF OperationEnds
  <2>4. ASSUME NEW t \in Tasks, RecordSuccess(t) PROVE TypeOK'
    BY <2>4 DEF RecordSuccess, SuccessRead, SuccessLock, SuccessReset, LockCount, ResetBoth
  <2>5. ASSUME NEW t \in Tasks, RecordFailure(t) PROVE TypeOK'
    BY <2>5 DEF RecordFailure, FailureLock, FailureStamp
  <2>6. ASSUME NEW t \in Tasks, Drop(t) PROVE TypeOK'
    BY <2>6 DEF Drop
  <2>7. CASE Tick
    BY <2>7 DEF Tick, Expired
  <2>8. CASE UNCHANGED vars
    BY <2>8 DEF vars
  <2> QED
    BY <2>1, <2>2, <2>3, <2>4, <2>5, <2>6, <2>7, <2>8 DEF Next, Step
<1> QED
  BY <1>1, <1>2, PTL DEF Spec

\* Mutual exclusion on the write guard: no two calls are between taking and
\* releasing it, whatever is dropped in between.
THEOREM GuardHeldByWriter == Spec => []GuardInv
<1> USE BreakerAssumption DEF GuardInv, Holding
<1>1. Init => GuardInv
  BY DEF Init
<1>2. TypeOK /\ GuardInv /\ [Next]_vars => GuardInv'
  <2> SUFFICES ASSUME TypeOK, GuardInv, [Next]_vars PROVE GuardInv'
    OBVIOUS
  <2> USE DEF TypeOK, Goto
  <2>1. ASSUME NEW t \in Tasks, Call(t) PROVE GuardInv'
    BY <2>1 DEF Call
  <2>2. ASSUME NEW t \in Tasks, IsOpen(t) PROVE GuardInv'
    BY <2>2 DEF IsOpen, IsOpenReadCount, IsOpenReadLast, IsOpenLock, IsOpenReset,
                LockCount, ResetBoth
  <2>3. ASSUME NEW t \in Tasks, OperationEnds(t) PROVE GuardInv'
    BY <2>3 DEF OperationEnds
  <2>4. ASSUME NEW t \in Tasks, RecordSuccess(t) PROVE GuardInv'
    BY <2>4 DEF RecordSuccess, SuccessRead, SuccessLock, SuccessReset, LockCount, ResetBoth
  <2>5. ASSUME NEW t \in Tasks, RecordFailure(t) PROVE GuardInv'
    BY <2>5 DEF RecordFailure, FailureLock, FailureStamp
  <2>6. ASSUME NEW t \in Tasks, Drop(t) PROVE GuardInv'
    BY <2>6 DEF Drop
  <2>7. CASE Tick
    BY <2>7 DEF Tick
  <2>8. CASE UNCHANGED vars
    BY <2>8 DEF vars
  <2> QED
    BY <2>1, <2>2, <2>3, <2>4, <2>5, <2>6, <2>7, <2>8 DEF Next, Step
<1> QED
  BY <1>1, <1>2, TypeCorrect, PTL DEF Spec

LEMMA CellsInvariant == Spec => []CellsInv
<1> USE BreakerAssumption DEF None
<1>1. Init => CellsInv
  BY DEF Init, CellsInv
<1>2. TypeOK /\ GuardInv /\ CellsInv /\ [Next]_vars => CellsInv'
  <2> SUFFICES ASSUME TypeOK, GuardInv, CellsInv, [Next]_vars PROVE CellsInv'
    OBVIOUS
  <2> DEFINE Stamping == \E t \in Tasks : pc[t] = "failure_stamp"
  <2> USE DEF TypeOK, GuardInv, Holding, CellsInv, Goto
  <2>1. ASSUME NEW t \in Tasks, Call(t) PROVE CellsInv'
    <3>1. Stamping' <=> Stamping
      BY <2>1 DEF Call
    <3> QED
      BY <2>1, <3>1 DEF Call
  <2>2. ASSUME NEW t \in Tasks, IsOpen(t) PROVE CellsInv'
    <3>1. CASE IsOpenReset(t)
      BY <3>1 DEF IsOpenReset, ResetBoth
    <3>2. CASE IsOpenReadCount(t) \/ IsOpenReadLast(t) \/ IsOpenLock(t)
      <4>1. Stamping' <=> Stamping
        BY <3>2 DEF IsOpenReadCount, IsOpenReadLast, IsOpenLock, LockCount
      <4> QED
        BY <3>2, <4>1 DEF IsOpenReadCount, IsOpenReadLast, IsOpenLock, LockCount
    <3> QED
      BY <2>2, <3>1, <3>2 DEF IsOpen
  <2>3. ASSUME NEW t \in Tasks, OperationEnds(t) PROVE CellsInv'
    <3>1. Stamping' <=> Stamping
      BY <2>3 DEF OperationEnds
    <3> QED
      BY <2>3, <3>1 DEF OperationEnds
  <2>4. ASSUME NEW t \in Tasks, RecordSuccess(t) PROVE CellsInv'
    <3>1. CASE SuccessReset(t)
      BY <3>1 DEF SuccessReset, ResetBoth
    <3>2. CASE SuccessRead(t) \/ SuccessLock(t)
      <4>1. Stamping' <=> Stamping
        BY <3>2 DEF SuccessRead, SuccessLock, LockCount
      <4> QED
        BY <3>2, <4>1 DEF SuccessRead, SuccessLock, LockCount
    <3> QED
      BY <2>4, <3>1, <3>2 DEF RecordSuccess
  <2>5. ASSUME NEW t \in Tasks, FailureLock(t) PROVE CellsInv'
    <3>1. ~Stamping
      BY <2>5 DEF FailureLock
    <3>2. pc'[t] = "failure_stamp"
      BY <2>5 DEF FailureLock
    <3> QED
      BY <2>5, <3>1, <3>2 DEF FailureLock
  <2>6. ASSUME NEW t \in Tasks, FailureStamp(t) PROVE CellsInv'
    <3>1. failure_count > 0
      BY <2>6 DEF FailureStamp
    <3> QED
      BY <2>6, <3>1 DEF FailureStamp
  <2>7. ASSUME NEW t \in Tasks, Drop(t) PROVE CellsInv'
    <3>1. CASE pc[t] = "failure_stamp"
      <4>1. dropped' = dropped + 1
        BY <2>7, <3>1 DEF Drop
      <4> QED
        BY <2>7, <4>1 DEF Drop
    <3>2. CASE pc[t] # "failure_stamp"
      <4>1. Stamping' <=> Stamping
        BY <2>7, <3>2 DEF Drop
      <4> QED
        BY <2>7, <3>2, <4>1 DEF Drop
    <3> QED
      BY <3>1, <3>2
  <2>8. CASE Tick
    BY <2>8 DEF Tick
  <2>9. CASE UNCHANGED vars
    BY <2>9 DEF vars
  <2> QED
    BY <2>1, <2>2, <2>3, <2>4, <2>5, <2>6, <2>7, <2>8, <2>9 DEF Next, Step, RecordFailure
<1> QED
  BY <1>1, <1>2, TypeCorrect, GuardHeldByWriter, PTL DEF Spec

\* The two cells agree whenever no call is in the middle of recording
\* (circuit_breaker.rs): only a record_failure dropped between its two writes
\* leaves a failure without an instant.
THEOREM CellsAgree == Spec => []CountAndInstantAgree
<1>1. TypeOK /\ GuardInv /\ CellsInv => CountAndInstantAgree
  BY BreakerAssumption DEF TypeOK, GuardInv, Holding, CellsInv, CountAndInstantAgree, None
<1> QED
  BY <1>1, CellsInvariant, TypeCorrect, GuardHeldByWriter, PTL

-----------------------------------------------------------------------------

LEMMA InFlightIsFinite ==
  /\ IsFiniteSet(InFlight)
  /\ Cardinality(InFlight) \in Nat
  /\ Cardinality(Tasks) \in Nat
  /\ Cardinality(InFlight) <= Cardinality(Tasks)
<1>1. InFlight \subseteq Tasks
  BY DEF InFlight
<1> QED
  BY <1>1, FS_Subset, FS_CardinalityType, BreakerAssumption

\* A call that leaves the set of calls in flight makes room for one failure.
LEMMA InFlightLoses ==
  ASSUME NEW t \in InFlight, InFlight' = InFlight \ {t}
  PROVE  Cardinality(InFlight') = Cardinality(InFlight) - 1
BY InFlightIsFinite, FS_RemoveElement

\* The count overshoots the limit by fewer than the number of callers: every
\* call that may still add a failure was admitted below the limit.
THEOREM CountStaysBounded == Spec => []CountBounded
<1> USE BreakerAssumption
<1>1. Init => InFlightInv
  <2> SUFFICES ASSUME Init PROVE InFlightInv
    OBVIOUS
  <2>1. InFlight = {}
    BY DEF Init, InFlight
  <2> QED
    BY <2>1, FS_EmptySet, InFlightIsFinite DEF Init, InFlightInv
<1>2. TypeOK /\ InFlightInv /\ [Next]_vars => InFlightInv'
  <2> SUFFICES ASSUME TypeOK, InFlightInv, [Next]_vars PROVE InFlightInv'
    OBVIOUS
  <2>a. /\ Cardinality(InFlight) \in Nat
        /\ Cardinality(Tasks) \in Nat
    BY InFlightIsFinite
  <2>b. /\ Cardinality(InFlight') \in Nat
        /\ Cardinality(InFlight') <= Cardinality(Tasks)
    <3>1. InFlight' \subseteq Tasks
      BY DEF InFlight
    <3> QED
      BY <3>1, FS_Subset, FS_CardinalityType
  <2>c. ASSUME InFlight' = InFlight, failure_count' = failure_count PROVE InFlightInv'
    BY <2>c DEF InFlightInv
  <2>d. ASSUME failure_count' < MaxFailures, failure_count' \in Nat PROVE InFlightInv'
    BY <2>a, <2>b, <2>d DEF InFlightInv
  <2> USE DEF TypeOK, Goto, InFlight
  <2>1. ASSUME NEW t \in Tasks, Call(t) PROVE InFlightInv'
    BY <2>1, <2>c DEF Call
  <2>2. ASSUME NEW t \in Tasks, IsOpen(t) PROVE InFlightInv'
    <3>1. CASE IsOpenReset(t)
      BY <3>1, <2>d DEF IsOpenReset, ResetBoth
    <3>2. CASE IsOpenReadCount(t) /\ failure_count < MaxFailures
      BY <3>2, <2>d DEF IsOpenReadCount
    <3>3. CASE IsOpenReadCount(t) /\ ~(failure_count < MaxFailures)
      BY <3>3, <2>c DEF IsOpenReadCount
    <3>4. CASE IsOpenReadLast(t) \/ IsOpenLock(t)
      BY <3>4, <2>c DEF IsOpenReadLast, IsOpenLock, LockCount
    <3> QED
      BY <2>2, <3>1, <3>2, <3>3, <3>4 DEF IsOpen
  <2>3. ASSUME NEW t \in Tasks, OperationEnds(t) PROVE InFlightInv'
    <3>1. CASE pc'[t] = "failure_lock"
      BY <2>3, <3>1, <2>c DEF OperationEnds
    <3>2. CASE pc'[t] = "success_read"
      <4>1. t \in InFlight /\ InFlight' = InFlight \ {t}
        BY <2>3, <3>2 DEF OperationEnds
      <4>2. Cardinality(InFlight') = Cardinality(InFlight) - 1
        BY <4>1, InFlightLoses
      <4> QED
        BY <2>a, <2>3, <4>2 DEF OperationEnds, InFlightInv
    <3> QED
      BY <2>3, <3>1, <3>2 DEF OperationEnds
  <2>4. ASSUME NEW t \in Tasks, RecordSuccess(t) PROVE InFlightInv'
    <3>1. CASE SuccessReset(t)
      BY <3>1, <2>d DEF SuccessReset, ResetBoth
    <3>2. CASE SuccessRead(t) \/ SuccessLock(t)
      BY <3>2, <2>c DEF SuccessRead, SuccessLock, LockCount
    <3> QED
      BY <2>4, <3>1, <3>2 DEF RecordSuccess
  <2>5. ASSUME NEW t \in Tasks, FailureLock(t) PROVE InFlightInv'
    <3>1. t \in InFlight /\ InFlight' = InFlight \ {t}
      BY <2>5 DEF FailureLock
    <3>2. Cardinality(InFlight') = Cardinality(InFlight) - 1
      BY <3>1, InFlightLoses
    <3> QED
      BY <2>a, <2>5, <3>2 DEF FailureLock, InFlightInv
  <2>6. ASSUME NEW t \in Tasks, FailureStamp(t) PROVE InFlightInv'
    BY <2>6, <2>c DEF FailureStamp
  <2>7. ASSUME NEW t \in Tasks, Drop(t) PROVE InFlightInv'
    <3>1. CASE t \notin InFlight
      BY <2>7, <3>1, <2>c DEF Drop
    <3>2. CASE t \in InFlight
      <4>1. InFlight' = InFlight \ {t}
        BY <2>7, <3>2 DEF Drop
      <4>2. Cardinality(InFlight') = Cardinality(InFlight) - 1
        BY <3>2, <4>1, InFlightLoses
      <4> QED
        BY <2>a, <2>7, <4>2 DEF Drop, InFlightInv
    <3> QED
      BY <3>1, <3>2
  <2>8. CASE Tick
    BY <2>8, <2>c DEF Tick
  <2>9. CASE UNCHANGED vars
    BY <2>9, <2>c DEF vars
  <2> QED
    BY <2>1, <2>2, <2>3, <2>4, <2>5, <2>6, <2>7, <2>8, <2>9 DEF Next, Step, RecordFailure
<1>3. TypeOK /\ InFlightInv => CountBounded
  BY InFlightIsFinite DEF TypeOK, InFlightInv, CountBounded
<1> QED
  BY <1>1, <1>2, <1>3, TypeCorrect, PTL DEF Spec
-----------------------------------------------------------------------------
(* The breaker acts as AtomicBreaker.                                      *)

Open  == failure_count >= MaxFailures
Calls == [t \in Tasks |-> Progress(t)]

\* What a caller is doing, await by await.
LEMMA ProgressIs ==
  ASSUME NEW t \in Tasks
  PROVE  /\ pc[t] = "idle" => Progress(t) = "idle"
         /\ pc[t] = "is_open_count" => Progress(t) = "asking"
         /\ pc[t] = "is_open_last" => Progress(t) = "found open"
         /\ pc[t] \in {"reset_lock", "reset_write"} => Progress(t) = "closing"
         /\ pc[t] = "sending" => Progress(t) = "admitted"
         /\ pc[t] \in SuccessStates => Progress(t) = "succeeded"
         /\ pc[t] = "failure_lock" => Progress(t) = "failed"
         /\ pc[t] = "failure_stamp" => Progress(t) = "noting"
  BY DEF Progress, SuccessStates

\* The step of a caller moves it, and nobody else.
LEMMA OneMoves ==
  ASSUME NEW t \in Tasks, NEW s, pc \in [Tasks -> States], Goto(t, s),
         NEW c, c = Progress(t)'
  PROVE  Calls' = [Calls EXCEPT ![t] = c]
<1>1. ASSUME NEW u \in Tasks, u # t PROVE Progress(u)' = Progress(u)
  <2>1. pc'[u] = pc[u]
    BY <1>1 DEF Goto
  <2> QED
    BY <2>1 DEF Progress
<1>2. ASSUME NEW u \in Tasks PROVE Calls'[u] = IF u = t THEN c ELSE Calls[u]
  BY <1>1 DEF Calls
<1>3. Calls = [u \in Tasks |-> Calls[u]] /\ Calls' = [u \in Tasks |-> Calls'[u]]
  BY DEF Calls
<1> QED
  BY <1>2, <1>3

\* A caller that goes from one await to another moves in AtomicBreaker.
LEMMA Moves ==
  ASSUME NEW t \in Tasks, NEW s \in States, pc \in [Tasks -> States], Goto(t, s)
  PROVE  /\ Calls[t] = Progress(t)
         /\ s = "idle" => Calls' = [Calls EXCEPT ![t] = "idle"]
         /\ s = "is_open_count" => Calls' = [Calls EXCEPT ![t] = "asking"]
         /\ s = "is_open_last" => Calls' = [Calls EXCEPT ![t] = "found open"]
         /\ s \in {"reset_lock", "reset_write"} => Calls' = [Calls EXCEPT ![t] = "closing"]
         /\ s = "sending" => Calls' = [Calls EXCEPT ![t] = "admitted"]
         /\ s \in SuccessStates => Calls' = [Calls EXCEPT ![t] = "succeeded"]
         /\ s = "failure_lock" => Calls' = [Calls EXCEPT ![t] = "failed"]
         /\ s = "failure_stamp" => Calls' = [Calls EXCEPT ![t] = "noting"]
<1>1. PICK c : c = Progress(t)'
  OBVIOUS
<1>2. Calls' = [Calls EXCEPT ![t] = c]
  BY <1>1, OneMoves
<1>3. pc'[t] = s /\ Calls[t] = Progress(t)
  BY DEF Goto, Calls
<1>4. /\ s = "idle" => c = "idle"
      /\ s = "is_open_count" => c = "asking"
      /\ s = "is_open_last" => c = "found open"
      /\ s \in {"reset_lock", "reset_write"} => c = "closing"
      /\ s = "sending" => c = "admitted"
      /\ s \in SuccessStates => c = "succeeded"
      /\ s = "failure_lock" => c = "failed"
      /\ s = "failure_stamp" => c = "noting"
  BY <1>1, <1>3 DEF Progress, SuccessStates
<1> QED
  BY <1>2, <1>3, <1>4

\* A call's step is one of AtomicBreaker or none at all: the moment the flag is
\* read is the read of the count, and the moment it is set the increment, or the
\* write that clears both cells.
LEMMA BreakerStep ==
  ASSUME TypeOK, CellsInv, GuardInv, [Next]_vars
  PROVE  [Atomic!Next]_(Atomic!vars)
<1> USE BreakerAssumption DEF None
<1>t. /\ failure_count \in Nat /\ MaxFailures \in Nat \ {0} /\ ResetTimeout \in Nat
      /\ last_failure \in {None} \union 0 .. (ResetTimeout + 1)
      /\ pc \in [Tasks -> States]
  BY DEF TypeOK
<1>s. States = {"idle", "sending", "is_open_count", "is_open_last", "reset_lock", "reset_write",
                "success_read", "success_lock", "success_write", "failure_lock", "failure_stamp"}
  BY DEF States, IsOpenStates, SuccessStates, FailureStates
<1>n. SuccessStates = {"success_read", "success_lock", "success_write"}
  BY DEF SuccessStates
<1> DEFINE Done == [Atomic!Next]_(Atomic!vars)
<1>u. ASSUME UNCHANGED <<Open, Expired, Calls>> PROVE Done
  BY <1>u DEF Atomic!vars, Open, Calls
<1>r. ASSUME NEW t \in Tasks, NEW from, NEW to \in {"idle", "sending"}, ResetBoth(t, from, to)
      PROVE  ~Open' /\ ~Expired' /\ Goto(t, to)
  BY <1>t, <1>r DEF ResetBoth, Open, Expired
<1>1. ASSUME NEW t \in Tasks, Call(t) PROVE Done
  <2>1. Goto(t, "is_open_count") /\ UNCHANGED <<Open, Expired>> /\ pc[t] = "idle"
    BY <1>1 DEF Call, Open, Expired
  <2>2. Calls[t] = "idle" /\ Calls' = [Calls EXCEPT ![t] = "asking"]
    BY <1>t, <1>s, <2>1, Moves, ProgressIs
  <2>3. Atomic!Ask(t)
    BY <2>1, <2>2 DEF Atomic!Ask, Atomic!Goto, Open, Calls
  <2> QED
    BY <2>3 DEF Atomic!Next
<1>2. ASSUME NEW t \in Tasks, IsOpenReadCount(t) PROVE Done
  <2>1. /\ Goto(t, IF ~Open THEN "sending" ELSE "is_open_last")
        /\ UNCHANGED <<Open, Expired>> /\ pc[t] = "is_open_count"
    BY <1>t, <1>2 DEF IsOpenReadCount, Open, Expired
  <2>2. /\ Calls[t] = "asking"
        /\ Calls' = [Calls EXCEPT ![t] = IF ~Open THEN "admitted" ELSE "found open"]
    BY <1>t, <1>s, <2>1, Moves, ProgressIs
  <2>3. Atomic!Admit(t) \/ Atomic!FindOpen(t)
    BY <2>1, <2>2 DEF Atomic!Admit, Atomic!FindOpen, Atomic!Goto, Open, Calls
  <2> QED
    BY <2>3 DEF Atomic!Next
<1>3. ASSUME NEW t \in Tasks, IsOpenReadLast(t) PROVE Done
  <2>1. /\ Goto(t, IF Expired THEN "reset_lock" ELSE "idle")
        /\ UNCHANGED <<Open, Expired>> /\ pc[t] = "is_open_last"
    BY <1>3 DEF IsOpenReadLast, Open, Expired
  <2>2. /\ Calls[t] = "found open"
        /\ Calls' = [Calls EXCEPT ![t] = IF Expired THEN "closing" ELSE "idle"]
    BY <1>t, <1>s, <2>1, Moves, ProgressIs
  <2>3. Atomic!TryAgain(t) \/ Atomic!Refuse(t)
    BY <2>1, <2>2 DEF Atomic!TryAgain, Atomic!Refuse, Atomic!Goto, Open, Calls
  <2> QED
    BY <2>3 DEF Atomic!Next
<1>4. ASSUME NEW t \in Tasks, IsOpenLock(t) \/ SuccessLock(t) PROVE Done
  <2>1. UNCHANGED <<Open, Expired>>
    BY <1>4 DEF IsOpenLock, SuccessLock, LockCount, Open, Expired
  <2>2. \/ Goto(t, "reset_write") /\ pc[t] = "reset_lock"
        \/ Goto(t, "success_write") /\ pc[t] = "success_lock"
    BY <1>4 DEF IsOpenLock, SuccessLock, LockCount
  <2>3. \E c : Calls[t] = c /\ Calls' = [Calls EXCEPT ![t] = c]
    BY <1>t, <1>s, <1>n, <2>2, Moves, ProgressIs
  <2>4. Calls' = Calls
    BY <2>3 DEF Calls
  <2> QED
    BY <1>u, <2>1, <2>4
<1>5. ASSUME NEW t \in Tasks, IsOpenReset(t) PROVE Done
  <2>1. ~Open' /\ ~Expired' /\ Goto(t, "sending") /\ pc[t] = "reset_write"
    BY <1>r, <1>5 DEF IsOpenReset, ResetBoth
  <2>2. Calls[t] = "closing" /\ Calls' = [Calls EXCEPT ![t] = "admitted"]
    BY <1>t, <1>s, <2>1, Moves, ProgressIs
  <2>3. Atomic!Close(t)
    BY <2>1, <2>2 DEF Atomic!Close, Atomic!Goto, Open, Calls
  <2> QED
    BY <2>3 DEF Atomic!Next
<1>6. ASSUME NEW t \in Tasks, OperationEnds(t) PROVE Done
  <2>1. /\ Goto(t, "success_read") \/ Goto(t, "failure_lock")
        /\ UNCHANGED <<Open, Expired>> /\ pc[t] = "sending"
    BY <1>6 DEF OperationEnds, Open, Expired
  <2>2. /\ Calls[t] = "admitted"
        /\ \/ Calls' = [Calls EXCEPT ![t] = "succeeded"]
           \/ Calls' = [Calls EXCEPT ![t] = "failed"]
    BY <1>t, <1>s, <1>n, <2>1, Moves, ProgressIs
  <2>3. Atomic!OperationEnds(t)
    BY <2>1, <2>2 DEF Atomic!OperationEnds, Atomic!Goto, Open, Calls
  <2> QED
    BY <2>3 DEF Atomic!Next
<1>7. ASSUME NEW t \in Tasks, SuccessRead(t) PROVE Done
  <2>1. /\ Goto(t, IF failure_count > 0 THEN "success_lock" ELSE "idle")
        /\ UNCHANGED <<Open, Expired>> /\ pc[t] = "success_read" /\ writer = NoTask
    BY <1>7 DEF SuccessRead, Open, Expired
  <2>2. /\ Calls[t] = "succeeded"
        /\ Calls' = [Calls EXCEPT ![t] = IF failure_count > 0 THEN "succeeded" ELSE "idle"]
    BY <1>t, <1>s, <1>n, <2>1, Moves, ProgressIs
  <2>3. CASE failure_count > 0
    <3>1. Calls' = Calls
      BY <2>2, <2>3 DEF Calls
    <3> QED
      BY <1>u, <2>1, <3>1
  <2>4. CASE failure_count = 0
    <3>1. ~Open /\ ~Expired
      BY <1>t, <2>4 DEF CellsInv, Open, Expired
    <3>2. Atomic!NoteSuccess(t)
      BY <2>1, <2>2, <2>4, <3>1 DEF Atomic!NoteSuccess, Atomic!Goto, Open, Calls
    <3> QED
      BY <3>2 DEF Atomic!Next
  <2> QED
    BY <1>t, <2>3, <2>4
<1>8. ASSUME NEW t \in Tasks, SuccessReset(t) PROVE Done
  <2>1. ~Open' /\ ~Expired' /\ Goto(t, "idle") /\ pc[t] = "success_write"
    BY <1>r, <1>8 DEF SuccessReset, ResetBoth
  <2>2. Calls[t] = "succeeded" /\ Calls' = [Calls EXCEPT ![t] = "idle"]
    BY <1>t, <1>s, <1>n, <2>1, Moves, ProgressIs
  <2>3. Atomic!NoteSuccess(t)
    BY <2>1, <2>2 DEF Atomic!NoteSuccess, Atomic!Goto, Open, Calls
  <2> QED
    BY <2>3 DEF Atomic!Next
<1>9. ASSUME NEW t \in Tasks, FailureLock(t) PROVE Done
  <2>1. /\ Goto(t, "failure_stamp") /\ Expired' = Expired /\ pc[t] = "failure_lock"
        /\ Open => Open'
    BY <1>t, <1>9 DEF FailureLock, Open, Expired
  <2>2. Calls[t] = "failed" /\ Calls' = [Calls EXCEPT ![t] = "noting"]
    BY <1>t, <1>s, <2>1, Moves, ProgressIs
  <2>3. Open' = Open \/ Open' = TRUE
    BY <2>1 DEF Open
  <2>4. Atomic!NoteFailure(t)
    BY <2>1, <2>2, <2>3 DEF Atomic!NoteFailure, Atomic!Goto, Open, Calls
  <2> QED
    BY <2>4 DEF Atomic!Next
<1>10. ASSUME NEW t \in Tasks, FailureStamp(t) PROVE Done
  <2>1. Goto(t, "idle") /\ Open' = Open /\ ~Expired' /\ pc[t] = "failure_stamp"
    BY <1>t, <1>10 DEF FailureStamp, Open, Expired
  <2>2. Calls[t] = "noting" /\ Calls' = [Calls EXCEPT ![t] = "idle"]
    BY <1>t, <1>s, <2>1, Moves, ProgressIs
  <2>3. Atomic!StartTime(t)
    BY <2>1, <2>2 DEF Atomic!StartTime, Atomic!Goto, Open, Calls
  <2> QED
    BY <2>3 DEF Atomic!Next
<1>11. ASSUME NEW t \in Tasks, Drop(t) PROVE Done
  <2>1. Goto(t, "idle") /\ UNCHANGED <<Open, Expired>> /\ t \in Cancellable /\ pc[t] # "idle"
    BY <1>11 DEF Drop, Open, Expired
  <2>2. Calls[t] # "idle" /\ Calls' = [Calls EXCEPT ![t] = "idle"]
    <3>1. pc[t] \in States
      BY <1>t
    <3> QED
      BY <1>t, <1>s, <1>n, <2>1, <3>1, Moves, ProgressIs
  <2>3. Atomic!Leave(t)
    BY <2>1, <2>2 DEF Atomic!Leave, Atomic!Goto, Open, Calls
  <2> QED
    BY <2>3 DEF Atomic!Next
<1>12. CASE Tick
  <2>1. Open' = Open /\ Calls' = Calls /\ (Expired' = Expired \/ Expired')
    BY <1>12 DEF Tick, Open, Calls, Progress, Expired
  <2>2. CASE Expired' = Expired
    BY <1>u, <2>1, <2>2
  <2>3. CASE Expired'
    <3>1. Atomic!Cool
      BY <2>1, <2>3 DEF Atomic!Cool, Open, Calls
    <3> QED
      BY <3>1 DEF Atomic!Next
  <2> QED
    BY <2>1, <2>2, <2>3
<1>13. CASE UNCHANGED vars
  BY <1>u, <1>13 DEF vars, Open, Expired, Calls, Progress
<1> QED
  BY <1>1, <1>2, <1>3, <1>4, <1>5, <1>6, <1>7, <1>8, <1>9, <1>10, <1>11, <1>12, <1>13
     DEF Next, Step, IsOpen, RecordSuccess, RecordFailure

\* The breaker implements AtomicBreaker: calls that interleave at every await, and
\* are dropped there, see one flag that is read and set at one moment each.
THEOREM ImplementsAtomicBreaker == Spec => ActsAtomically
<1> USE BreakerAssumption DEF None
<1>1. Init => Atomic!Init
  <2>1. ASSUME Init PROVE Open = FALSE /\ Expired = FALSE
    BY <2>1 DEF Init, Open, Expired
  <2>2. ASSUME Init PROVE Calls = [t \in Tasks |-> "idle"]
    BY <2>2, ProgressIs DEF Init, Calls
  <2> QED
    BY <2>1, <2>2 DEF Atomic!Init, Open, Calls
<1>2. Spec => []CellsInv
  BY CellsInvariant
<1> QED
  BY <1>1, <1>2, BreakerStep, TypeCorrect, GuardHeldByWriter, PTL
     DEF Spec, ActsAtomically, Atomic!Spec
=============================================================================
