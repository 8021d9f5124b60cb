-------------------------- MODULE AlertResponseProofs --------------------------
(***************************************************************************)
(* Theorems about AlertResponse for any files, services and actions, and   *)
(* any number of starts, kills, faults and crashes.                        *)
(***************************************************************************)
EXTENDS AlertResponse, SequenceTheorems, FiniteSetTheorems, TLAPS

-----------------------------------------------------------------------------
(* Type correctness.                                                       *)

\* What the topic keeps while it grows.
Grows ==
  /\ alerts' \in Seq(Files)
  /\ Len(alerts) <= Len(alerts')
  /\ \A m \in 1 .. Len(alerts) : (alerts')[m] = alerts[m]

LEMMA ProcessFileType ==
  ASSUME ScannerTypeOK, NEW f \in Files, ProcessFile(f)
  PROVE  Grows /\ faults' \in Nat
<1>1. CASE alerts' = alerts
  BY <1>1 DEF ProcessFile, ScannerTypeOK, Grows
<1>2. CASE alerts' = Append(alerts, f)
  BY <1>2 DEF ProcessFile, ScannerTypeOK, Grows
<1> QED
  BY <1>1, <1>2 DEF ProcessFile

LEMMA ScannerStep ==
  ASSUME ScannerTypeOK, ScannerNext
  PROVE  ScannerTypeOK' /\ Grows
<1> USE ScannerAssumption
<1>1. ASSUME UNCHANGED alerts PROVE Grows
  BY <1>1 DEF ScannerTypeOK, Grows
<1>2. ASSUME NEW f \in Files, Write(f) PROVE ScannerTypeOK' /\ Grows
  BY <1>1, <1>2 DEF Write, ScannerTypeOK
<1>3. ASSUME NEW f \in Files, WalkFile(f) \/ ReceivePath(f) PROVE ScannerTypeOK' /\ Grows
  <2>1. Grows /\ faults' \in Nat
    BY <1>3, ProcessFileType DEF WalkFile, ReceivePath
  <2> QED
    BY <1>3, <2>1 DEF WalkFile, ReceivePath, ScannerTypeOK, Grows
<1>4. ASSUME EndWalk \/ DropWatcher \/ Return PROVE ScannerTypeOK' /\ Grows
  <2>1. UNCHANGED alerts
    BY <1>4 DEF EndWalk, DropWatcher, Return
  <2> QED
    BY <1>1, <1>4, <2>1 DEF EndWalk, DropWatcher, Return, ScannerTypeOK
<1>5. ASSUME Kill PROVE ScannerTypeOK' /\ Grows
  <2>1. UNCHANGED alerts /\ kills' \in Nat
    BY <1>5 DEF Kill, ScannerTypeOK
  <2>2. unwalked' \subseteq Files /\ queue' \subseteq Files /\ watching' \in BOOLEAN
    BY <1>5 DEF Kill
  <2> QED
    BY <1>1, <1>5, <2>1, <2>2 DEF Kill, ScannerTypeOK
<1>6. ASSUME Start PROVE ScannerTypeOK' /\ Grows
  BY <1>1, <1>6 DEF Start, ScannerTypeOK
<1> QED
  BY <1>2, <1>3, <1>4, <1>5, <1>6 DEF ScannerNext

\* A step of the scanner leaves the services' types.
LEMMA ServicesWhileScanning ==
  ASSUME ServiceTypeOK, ScannerTypeOK, Grows, UNCHANGED service
  PROVE  ServiceTypeOK'
<1>1. Len(alerts) \in Nat /\ Len(alerts') \in Nat /\ Len(alerts) <= Len(alerts')
  BY DEF ScannerTypeOK, Grows
<1>2. 1 .. Len(alerts) \subseteq 1 .. Len(alerts') /\ 0 .. Len(alerts) \subseteq 0 .. Len(alerts')
  BY <1>1
<1>3. Tasks \subseteq Tasks'
  BY <1>2 DEF Tasks
<1>4. reads' \in [Services -> Seq(Tasks')]
  BY <1>3, SeqMonotonic DEF ServiceTypeOK, service
<1> QED
  BY <1>1, <1>2, <1>4 DEF ServiceTypeOK, service

\* The tasks after a crash.
LEMMA CrashedReads ==
  ASSUME NEW rs \in Seq(Tasks),
         NEW after, after = [r \in DOMAIN rs |->
           IF rs[r].state = "running" THEN [rs[r] EXCEPT !.state = "killed"] ELSE rs[r]]
  PROVE  after \in Seq(Tasks) /\ DOMAIN after = DOMAIN rs
<1>1. Len(rs) \in Nat /\ rs \in [1 .. Len(rs) -> Tasks] /\ DOMAIN rs = 1 .. Len(rs)
  BY LenProperties
<1>2. ASSUME NEW t \in Tasks PROVE [t EXCEPT !.state = "killed"] \in Tasks
  BY DEF Tasks
<1>3. after \in [1 .. Len(rs) -> Tasks]
  BY <1>1, <1>2
<1> QED
  BY <1>1, <1>3, SeqDef

\* A step of a service keeps the topic and the types.
LEMMA ServeStep ==
  ASSUME TypeOK, NEW s \in Services, Serve(s)
  PROVE  ServiceTypeOK' /\ UNCHANGED scanner
<1> USE ResponseAssumption
<1>1. ServiceTypeOK /\ reads[s] \in Seq(Tasks) /\ position[s] \in 0 .. Len(alerts)
  BY DEF TypeOK, ServiceTypeOK
<1>2. Len(alerts) \in Nat
  BY DEF TypeOK, ScannerTypeOK
<1>3. ASSUME UNCHANGED alerts PROVE Tasks' = Tasks
  BY <1>3 DEF Tasks
<1>4. ASSUME Receive(s) PROVE ServiceTypeOK' /\ UNCHANGED scanner
  <2>1. position[s] + 1 \in 1 .. Len(alerts)
    BY <1>1, <1>2, <1>4 DEF Receive
  <2>2. Spawned(s, position[s] + 1) \in Tasks
    BY <2>1 DEF Spawned, Task, Tasks
  <2>3. reads' \in [Services -> Seq(Tasks)]
    BY <1>1, <1>4, <2>2, AppendProperties DEF Receive, ServiceTypeOK
  <2>4. position' \in [Services -> 0 .. Len(alerts)]
    BY <1>1, <1>4, <2>1 DEF Receive, ServiceTypeOK
  <2> QED
    BY <1>1, <1>3, <1>4, <2>3, <2>4 DEF Receive, ServiceTypeOK, scanner
<1>5. ASSUME Commit(s) PROVE ServiceTypeOK' /\ UNCHANGED scanner
  <2>1. committed' \in [Services -> {NoOffset} \union 0 .. Len(alerts)]
    BY <1>1, <1>5 DEF Commit, ServiceTypeOK
  <2> QED
    BY <1>1, <1>3, <1>5, <2>1 DEF Commit, ServiceTypeOK, scanner
<1>6. ASSUME Crash(s) PROVE ServiceTypeOK' /\ UNCHANGED scanner
  <2> DEFINE start == IF committed[s] = NoOffset THEN Len(alerts) ELSE committed[s]
  <2>1. start \in 0 .. Len(alerts)
    BY <1>1, <1>2 DEF ServiceTypeOK
  <2>2. position[s] + 1 .. start \subseteq 1 .. Len(alerts)
    BY <1>1, <1>2, <2>1
  <2>3. passed_over' \in [Services -> SUBSET (1 .. Len(alerts))]
    BY <1>1, <1>6, <2>2 DEF Crash, ServiceTypeOK
  <2>4. reads' \in [Services -> Seq(Tasks)]
    BY <1>1, <1>6, CrashedReads DEF Crash, ServiceTypeOK
  <2>5. position' \in [Services -> 0 .. Len(alerts)]
    BY <1>1, <1>6, <2>1 DEF Crash, ServiceTypeOK
  <2>6. crashes' \in [Services -> Nat]
    BY <1>1, <1>6 DEF Crash, ServiceTypeOK
  <2> QED
    BY <1>1, <1>3, <1>6, <2>3, <2>4, <2>5, <2>6 DEF Crash, ServiceTypeOK, scanner
<1>7. ASSUME NEW r \in DOMAIN reads[s], Act(s, r) PROVE ServiceTypeOK' /\ UNCHANGED scanner
  <2>1. reads[s][r] \in Tasks /\ r \in 1 .. Len(reads[s])
    BY <1>1, <1>7, LenProperties
  <2>2. PICK st \in {"running", "ended"} :
          reads' = [reads EXCEPT ![s][r] = Task(@.msg, reads[s][r].tried + 1, st)]
    BY <1>7 DEF Act
  <2>3. Task(reads[s][r].msg, reads[s][r].tried + 1, st) \in Tasks
    BY <2>1 DEF Task, Tasks
  <2>4. [reads[s] EXCEPT ![r] = Task(reads[s][r].msg, reads[s][r].tried + 1, st)] \in Seq(Tasks)
    BY <1>1, <2>1, <2>3, ExceptSeq
  <2>5. reads' \in [Services -> Seq(Tasks)]
    BY <1>1, <2>2, <2>4 DEF ServiceTypeOK
  <2> QED
    BY <1>1, <1>3, <1>7, <2>5 DEF Act, ServiceTypeOK, scanner
<1> QED
  BY <1>4, <1>5, <1>6, <1>7 DEF Serve

LEMMA TypeStep == TypeOK /\ [Next]_vars => TypeOK'
<1> SUFFICES ASSUME TypeOK, [Next]_vars PROVE TypeOK'
  OBVIOUS
<1>1. CASE ScannerNext /\ UNCHANGED service
  BY <1>1, ScannerStep, ServicesWhileScanning DEF TypeOK
<1>2. ASSUME NEW s \in Services, Serve(s) PROVE TypeOK'
  BY <1>2, ServeStep DEF TypeOK, ScannerTypeOK, scanner, process
<1>3. CASE UNCHANGED vars
  BY <1>3 DEF vars, scanner, process, service, TypeOK, ScannerTypeOK, ServiceTypeOK, Tasks
<1> QED
  BY <1>1, <1>2, <1>3 DEF Next

\* Every state of the scanner and its consumers has its type: offsets and
\* positions stay within the topic, and every task is for a message of it.
THEOREM TypeCorrect == Spec => []TypeOK
<1>1. Init => TypeOK
  BY DEF Init, ScannerInit, TypeOK, ScannerTypeOK, ServiceTypeOK
<1> QED
  BY <1>1, TypeStep, PTL DEF Spec

-----------------------------------------------------------------------------
(* Every alert is answered.                                                *)

\* A task that accounts for message m.
Answers(t, s, m) == t.msg = m /\ (t.state = "ended" => t.tried = Needed(s, m))

\* What a group has committed its service has read, so a crash takes the service
\* back to messages it has tasks for.
CommittedIsRead == \A s \in Services : committed[s] <= position[s]

AnsweredInv == CommittedIsRead /\ EveryAlertIsAnswered

\* A step of service s that keeps the others' tasks and, for each message behind
\* its position, a task that answers it, keeps the invariant.
LEMMA ServiceAnswers ==
  ASSUME TypeOK, AnsweredInv, NEW s \in Services, UNCHANGED alerts,
         \A u \in Services \ {s} :
           /\ position'[u] = position[u] /\ committed'[u] = committed[u]
           /\ reads'[u] = reads[u] /\ passed_over'[u] = passed_over[u],
         committed'[s] <= position'[s],
         \A m \in 1 .. position'[s] \ passed_over'[s] :
           \E r \in DOMAIN reads'[s] : Answers(reads'[s][r], s, m)
  PROVE  AnsweredInv'
<1>1. CommittedIsRead'
  BY DEF AnsweredInv, CommittedIsRead
<1>2. ASSUME NEW u \in Services, u # s, NEW m \in 1 .. position'[u] \ passed_over'[u]
      PROVE  \E r \in DOMAIN reads'[u] :
               /\ reads'[u][r].msg = m
               /\ reads'[u][r].state = "ended" => reads'[u][r].tried = Needed(u, m)'
  BY <1>2 DEF AnsweredInv, EveryAlertIsAnswered, Needed
<1>3. ASSUME NEW m \in 1 .. position'[s] \ passed_over'[s]
      PROVE  \E r \in DOMAIN reads'[s] :
               /\ reads'[s][r].msg = m
               /\ reads'[s][r].state = "ended" => reads'[s][r].tried = Needed(s, m)'
  BY <1>3 DEF Answers, Needed
<1> QED
  BY <1>1, <1>2, <1>3 DEF AnsweredInv, EveryAlertIsAnswered

LEMMA AnsweredStep == TypeOK /\ AnsweredInv /\ [Next]_vars => AnsweredInv'
<1> SUFFICES ASSUME TypeOK, AnsweredInv, [Next]_vars PROVE AnsweredInv'
  OBVIOUS
<1>1. ASSUME Grows, UNCHANGED service PROVE AnsweredInv'
  <2>1. ASSUME NEW s \in Services, NEW m \in 1 .. position[s]
        PROVE  Needed(s, m)' = Needed(s, m)
    BY <1>1 DEF Grows, Needed, TypeOK, ScannerTypeOK, ServiceTypeOK
  <2> QED
    BY <1>1, <2>1 DEF AnsweredInv, CommittedIsRead, EveryAlertIsAnswered, service
<1>2. CASE ScannerNext /\ UNCHANGED service
  BY <1>1, <1>2, ScannerStep DEF TypeOK
<1>3. CASE UNCHANGED vars
  BY <1>1, <1>3 DEF vars, scanner, service, Grows, TypeOK, ScannerTypeOK
<1>4. ASSUME NEW s \in Services, Serve(s) PROVE AnsweredInv'
  <2>0. /\ Len(alerts) \in Nat /\ position[s] \in 0 .. Len(alerts)
        /\ reads[s] \in Seq(Tasks) /\ DOMAIN reads[s] = 1 .. Len(reads[s])
        /\ committed[s] \in {NoOffset} \union 0 .. Len(alerts)
        /\ position \in [Services -> 0 .. Len(alerts)]
        /\ reads \in [Services -> Seq(Tasks)]
        /\ committed \in [Services -> {NoOffset} \union 0 .. Len(alerts)]
        /\ passed_over \in [Services -> SUBSET (1 .. Len(alerts))]
    BY LenProperties DEF TypeOK, ScannerTypeOK, ServiceTypeOK
  <2>00. /\ UNCHANGED alerts /\ committed[s] <= position[s]
         /\ \A m \in 1 .. position[s] \ passed_over[s] :
              \E r \in DOMAIN reads[s] : Answers(reads[s][r], s, m)
    BY <1>4, ServeStep DEF scanner, AnsweredInv, CommittedIsRead,
         EveryAlertIsAnswered, Answers
  <2>1. ASSUME Receive(s) PROVE AnsweredInv'
    <3> DEFINE m0 == position[s] + 1
    <3>1. /\ position'[s] = m0 /\ m0 \in 1 .. Len(alerts)
          /\ reads'[s] = Append(reads[s], Spawned(s, m0))
          /\ committed'[s] = committed[s] /\ passed_over'[s] = passed_over[s]
      BY <2>0, <2>1 DEF Receive
    <3>2. Answers(Spawned(s, m0), s, m0)
      BY DEF Answers, Spawned, Task
    <3>3. Spawned(s, m0) \in Tasks
      BY <3>1 DEF Spawned, Task, Tasks
    <3>4. /\ DOMAIN reads'[s] = 1 .. Len(reads[s]) + 1
          /\ \A r \in DOMAIN reads[s] : reads'[s][r] = reads[s][r]
          /\ reads'[s][Len(reads[s]) + 1] = Spawned(s, m0)
          /\ Len(reads[s]) \in Nat
      BY <2>0, <3>1, <3>3, AppendProperties, LenProperties
    <3>5. \A m \in 1 .. position'[s] \ passed_over'[s] :
            m = m0 \/ m \in 1 .. position[s] \ passed_over[s]
      BY <2>0, <3>1
    <3>6. \E r \in DOMAIN reads'[s] : Answers(reads'[s][r], s, m0)
      <4>1. Len(reads[s]) + 1 \in DOMAIN reads'[s]
        BY <3>4
      <4> QED
        BY <3>2, <3>4, <4>1
    <3>7. DOMAIN reads[s] \subseteq DOMAIN reads'[s]
      BY <2>0, <3>4
    <3>8. \A m \in 1 .. position[s] \ passed_over[s] :
            \E r \in DOMAIN reads'[s] : Answers(reads'[s][r], s, m)
      BY <2>00, <3>4, <3>7
    <3>9. /\ \A u \in Services \ {s} : reads'[u] = reads[u] /\ position'[u] = position[u]
          /\ UNCHANGED <<committed, passed_over>>
          /\ committed'[s] <= position'[s]
      BY <2>0, <2>00, <2>1, <3>1 DEF Receive, NoOffset
    <3> QED
      BY <2>00, <3>5, <3>6, <3>8, <3>9, ServiceAnswers
  <2>2. ASSUME Commit(s) PROVE AnsweredInv'
    <3>1. /\ committed'[s] = position[s] /\ position'[s] <= Len(alerts)
          /\ UNCHANGED <<position, reads, passed_over>>
          /\ \A u \in Services \ {s} : committed'[u] = committed[u]
      BY <2>0, <2>2 DEF Commit
    <3>2. committed'[s] <= position'[s]
      BY <2>0, <3>1
    <3> QED
      BY <2>00, <3>1, <3>2, ServiceAnswers
  <2>3. ASSUME Crash(s) PROVE AnsweredInv'
    <3>1. DOMAIN reads'[s] = DOMAIN reads[s]
      BY <2>0, <2>3, CrashedReads DEF Crash
    <3>2. ASSUME NEW r \in DOMAIN reads[s]
          PROVE  reads'[s][r] \in {reads[s][r], [reads[s][r] EXCEPT !.state = "killed"]}
      BY <2>0, <2>3 DEF Crash
    <3>3. ASSUME NEW r \in DOMAIN reads[s], NEW m, Answers(reads[s][r], s, m)
          PROVE  Answers(reads'[s][r], s, m)
      <4>1. reads[s][r] \in Tasks
        BY <2>0, <3>3, ElementOfSeq
      <4> QED
        BY <3>2, <3>3, <4>1 DEF Answers, Tasks
    <3>4. /\ committed'[s] = committed[s]
          /\ position'[s] = (IF committed[s] = NoOffset THEN Len(alerts) ELSE committed[s])
          /\ passed_over'[s] = passed_over[s] \union (position[s] + 1 .. position'[s])
      BY <2>0, <2>3 DEF Crash
    <3>5. \A m \in 1 .. position'[s] \ passed_over'[s] :
            m \in 1 .. position[s] \ passed_over[s]
      BY <2>0, <3>4 DEF NoOffset
    <3>6. \A m \in 1 .. position'[s] \ passed_over'[s] :
            \E r \in DOMAIN reads'[s] : Answers(reads'[s][r], s, m)
      BY <2>00, <3>1, <3>3, <3>5
    <3>7. committed'[s] <= position'[s]
      BY <2>0, <3>4 DEF NoOffset
    <3> QED
      BY <2>0, <2>00, <2>3, <3>6, <3>7, ServiceAnswers DEF Crash
  <2>4. ASSUME NEW r0 \in DOMAIN reads[s], Act(s, r0) PROVE AnsweredInv'
    <3>1. PICK st \in {"running", "ended"} :
            /\ reads' = [reads EXCEPT ![s][r0] = Task(@.msg, reads[s][r0].tried + 1, st)]
            /\ st = "ended" => reads[s][r0].tried + 1 = Needed(s, reads[s][r0].msg)
      BY <2>4 DEF Act
    <3>2. /\ DOMAIN reads'[s] = DOMAIN reads[s]
          /\ \A r \in DOMAIN reads[s] \ {r0} : reads'[s][r] = reads[s][r]
          /\ reads'[s][r0] = Task(reads[s][r0].msg, reads[s][r0].tried + 1, st)
      BY <2>0, <3>1
    <3>3. ASSUME NEW r \in DOMAIN reads[s], NEW m, Answers(reads[s][r], s, m)
          PROVE  Answers(reads'[s][r], s, m)
      BY <3>1, <3>2, <3>3 DEF Answers, Task
    <3>4. \A m \in 1 .. position[s] \ passed_over[s] :
            \E r \in DOMAIN reads'[s] : Answers(reads'[s][r], s, m)
      BY <2>00, <3>2, <3>3
    <3>5. /\ UNCHANGED <<position, committed, passed_over>>
          /\ \A u \in Services \ {s} : reads'[u] = reads[u]
      BY <2>0, <2>4, <3>1 DEF Act
    <3> QED
      BY <2>00, <3>4, <3>5, ServiceAnswers
  <2> QED
    BY <1>4, <2>1, <2>2, <2>3, <2>4 DEF Serve
<1> QED
  BY <1>2, <1>3, <1>4 DEF Next

\* Spawning a task and committing on a timer lose no alert except those a start
\* without an offset passes over and those whose task a crash killed, and the
\* error of an action does not end the treatment of its alert.
THEOREM AlertsAnswered == Spec => []EveryAlertIsAnswered
<1>1. Init => AnsweredInv
  BY DEF Init, AnsweredInv, CommittedIsRead, EveryAlertIsAnswered, NoOffset
<1>2. AnsweredInv => EveryAlertIsAnswered
  BY DEF AnsweredInv
<1> QED
  BY <1>1, <1>2, AnsweredStep, TypeCorrect, PTL DEF Spec

-----------------------------------------------------------------------------
(* Repeats.                                                                *)

\* The reads of message m, and how many a service may have: one more once it has
\* got past the message, since only a crash takes it back.
ReadsOf(rs, m) == {r \in DOMAIN rs : rs[r].msg = m}
Allowed(s, m) == IF m <= position[s] THEN 1 + crashes[s] ELSE crashes[s]

RepeatInv ==
  \A s \in Services, m \in 1 .. Len(alerts) : Cardinality(ReadsOf(reads[s], m)) <= Allowed(s, m)

LEMMA ReadsFinite ==
  ASSUME NEW rs \in Seq(Tasks), NEW m
  PROVE  IsFiniteSet(ReadsOf(rs, m)) /\ Cardinality(ReadsOf(rs, m)) \in Nat
<1>1. DOMAIN rs = 1 .. Len(rs) /\ Len(rs) \in Nat
  BY LenProperties
<1>2. IsFiniteSet(DOMAIN rs)
  BY <1>1, FS_Interval
<1>3. ReadsOf(rs, m) \subseteq DOMAIN rs
  BY DEF ReadsOf
<1>4. IsFiniteSet(ReadsOf(rs, m))
  BY <1>2, <1>3, FS_Subset
<1> QED
  BY <1>4, FS_CardinalityType

\* A step of service s that leaves the others alone, and s within what it may.
LEMMA ServiceRepeats ==
  ASSUME TypeOK, RepeatInv, NEW s \in Services, UNCHANGED alerts,
         \A u \in Services \ {s} :
           position'[u] = position[u] /\ reads'[u] = reads[u] /\ crashes'[u] = crashes[u],
         \A m \in 1 .. Len(alerts) : Cardinality(ReadsOf(reads'[s], m)) <= Allowed(s, m)'
  PROVE  RepeatInv'
<1>1. ASSUME NEW u \in Services, NEW m \in 1 .. Len(alerts)
      PROVE  Cardinality(ReadsOf(reads'[u], m)) <= Allowed(u, m)'
  <2>1. CASE u = s
    BY <2>1
  <2>2. CASE u # s
    <3>1. reads'[u] = reads[u] /\ Allowed(u, m)' = Allowed(u, m)
      BY <2>2 DEF Allowed
    <3> QED BY <3>1 DEF RepeatInv
  <2> QED BY <2>1, <2>2
<1> QED
  BY <1>1 DEF RepeatInv

LEMMA RepeatStep == TypeOK /\ RepeatInv /\ [Next]_vars => RepeatInv'
<1> SUFFICES ASSUME TypeOK, RepeatInv, [Next]_vars PROVE RepeatInv'
  OBVIOUS
<1>0. /\ Len(alerts) \in Nat
      /\ position \in [Services -> 0 .. Len(alerts)] /\ crashes \in [Services -> Nat]
      /\ reads \in [Services -> Seq(Tasks)]
      /\ committed \in [Services -> {NoOffset} \union 0 .. Len(alerts)]
  BY DEF TypeOK, ScannerTypeOK, ServiceTypeOK
<1>1. ASSUME Grows, UNCHANGED service PROVE RepeatInv'
  <2>1. ASSUME NEW s \in Services, NEW m \in 1 .. Len(alerts')
        PROVE  Cardinality(ReadsOf(reads[s], m)) <= Allowed(s, m)
    <3>1. CASE m \in 1 .. Len(alerts)
      BY <3>1 DEF RepeatInv
    <3>2. CASE m > Len(alerts)
      <4>1. \A r \in DOMAIN reads[s] : reads[s][r].msg \in 1 .. Len(alerts)
        <5>1. ASSUME NEW r \in DOMAIN reads[s] PROVE reads[s][r] \in Tasks
          BY <1>0, <5>1, LenProperties, ElementOfSeq
        <5> QED BY <5>1 DEF Tasks
      <4>2. ReadsOf(reads[s], m) = {}
        BY <1>0, <3>2, <4>1 DEF ReadsOf
      <4>3. Cardinality(ReadsOf(reads[s], m)) = 0
        BY <4>2, FS_EmptySet
      <4> QED BY <1>0, <4>3 DEF Allowed
    <3> QED BY <1>0, <1>1, <3>1, <3>2 DEF Grows
  <2> QED
    BY <1>1, <2>1 DEF RepeatInv, Allowed, service
<1>2. CASE ScannerNext /\ UNCHANGED service
  BY <1>1, <1>2, ScannerStep DEF TypeOK
<1>3. CASE UNCHANGED vars
  BY <1>1, <1>3 DEF vars, scanner, service, Grows, TypeOK, ScannerTypeOK
<1>4. ASSUME NEW s \in Services, Serve(s) PROVE RepeatInv'
  <2>1. /\ UNCHANGED alerts /\ reads[s] \in Seq(Tasks)
        /\ DOMAIN reads[s] = 1 .. Len(reads[s]) /\ Len(reads[s]) \in Nat
        /\ position[s] \in 0 .. Len(alerts) /\ crashes[s] \in Nat
    BY <1>0, <1>4, ServeStep, LenProperties DEF scanner
  <2>2. ASSUME NEW m \in 1 .. Len(alerts)
        PROVE  /\ Cardinality(ReadsOf(reads[s], m)) \in Nat
               /\ Cardinality(ReadsOf(reads[s], m)) <= Allowed(s, m)
    BY <2>1, ReadsFinite DEF RepeatInv
  <2>3. ASSUME Receive(s) PROVE RepeatInv'
    <3> DEFINE m0 == position[s] + 1
               task == Spawned(s, m0)
               last == Len(reads[s]) + 1
    <3>1. /\ m0 \in 1 .. Len(alerts) /\ position'[s] = m0 /\ crashes' = crashes
          /\ reads'[s] = Append(reads[s], task)
          /\ \A u \in Services \ {s} : position'[u] = position[u] /\ reads'[u] = reads[u]
      BY <1>0, <2>1, <2>3 DEF Receive
    <3>2. task \in Tasks /\ task.msg = m0
      BY <3>1 DEF Spawned, Task, Tasks
    <3> HIDE DEF task
    <3>3. /\ DOMAIN reads'[s] = DOMAIN reads[s] \union {last}
          /\ \A r \in DOMAIN reads[s] : reads'[s][r] = reads[s][r]
          /\ reads'[s][last] = task
      BY <2>1, <3>1, <3>2, AppendProperties
    <3>4. ReadsOf(reads'[s], m0) = ReadsOf(reads[s], m0) \union {last}
      BY <3>2, <3>3 DEF ReadsOf
    <3>5. \A m \in 1 .. Len(alerts) \ {m0} : ReadsOf(reads'[s], m) = ReadsOf(reads[s], m)
      BY <3>2, <3>3 DEF ReadsOf
    <3>6. Cardinality(ReadsOf(reads'[s], m0)) <= Cardinality(ReadsOf(reads[s], m0)) + 1
      <4>1. IsFiniteSet(ReadsOf(reads[s], m0))
        BY <2>1, ReadsFinite
      <4>2. Cardinality(ReadsOf(reads[s], m0) \union {last}) =
              IF last \in ReadsOf(reads[s], m0) THEN Cardinality(ReadsOf(reads[s], m0))
              ELSE Cardinality(ReadsOf(reads[s], m0)) + 1
        BY <4>1, FS_AddElement
      <4>3. Cardinality(ReadsOf(reads[s], m0)) \in Nat
        BY <2>2, <3>1
      <4> HIDE DEF m0, last
      <4> QED BY <3>4, <4>2, <4>3
    <3>7. ASSUME NEW m \in 1 .. Len(alerts)
          PROVE  Cardinality(ReadsOf(reads'[s], m)) <= Allowed(s, m)'
      <4>1. Allowed(s, m)' = IF m <= m0 THEN 1 + crashes[s] ELSE crashes[s]
        BY <3>1 DEF Allowed
      <4>2. CASE m = m0
        <5>1. Cardinality(ReadsOf(reads[s], m0)) <= crashes[s]
          BY <2>1, <2>2, <3>1 DEF Allowed
        <5>2. /\ Cardinality(ReadsOf(reads[s], m0)) \in Nat
              /\ Cardinality(ReadsOf(reads'[s], m0)) \in Int
          <6>1. IsFiniteSet(ReadsOf(reads[s], m0))
            BY <2>1, ReadsFinite
          <6>2. IsFiniteSet(ReadsOf(reads[s], m0) \union {last})
            BY <6>1, FS_AddElement
          <6>3. Cardinality(ReadsOf(reads[s], m0) \union {last}) \in Nat
            BY <6>2, FS_CardinalityType
          <6>4. Cardinality(ReadsOf(reads[s], m0)) \in Nat
            BY <6>1, FS_CardinalityType
          <6> HIDE DEF m0, last
          <6> QED BY <3>4, <6>3, <6>4
        <5> QED BY <2>1, <3>6, <4>1, <4>2, <5>1, <5>2
      <4>3. CASE m # m0
        BY <2>1, <2>2, <3>5, <4>1, <4>3 DEF Allowed
      <4> QED BY <4>2, <4>3
    <3> QED
      BY <2>1, <3>1, <3>7, ServiceRepeats
  <2>4. ASSUME \A m \in 1 .. Len(alerts) : ReadsOf(reads'[s], m) = ReadsOf(reads[s], m),
               \A m \in 1 .. Len(alerts) : Allowed(s, m) <= Allowed(s, m)',
               crashes' \in [Services -> Nat],
               \A u \in Services \ {s} :
                 position'[u] = position[u] /\ reads'[u] = reads[u] /\ crashes'[u] = crashes[u]
        PROVE  RepeatInv'
    <3>1. ASSUME NEW m \in 1 .. Len(alerts)
          PROVE  Cardinality(ReadsOf(reads'[s], m)) <= Allowed(s, m)'
      <4>1. Allowed(s, m) \in Nat /\ Allowed(s, m)' \in Nat
        BY <2>1, <2>4 DEF Allowed
      <4> QED BY <2>2, <2>4, <4>1
    <3> QED
      BY <2>1, <2>4, <3>1, ServiceRepeats
  <2>5. ASSUME Commit(s) PROVE RepeatInv'
    <3>1. UNCHANGED <<position, reads, crashes>>
      BY <2>5 DEF Commit
    <3>2. \A m \in 1 .. Len(alerts) : Allowed(s, m)' = Allowed(s, m) /\ Allowed(s, m) \in Nat
      BY <2>1, <3>1 DEF Allowed
    <3> QED BY <1>0, <2>4, <3>1, <3>2
  <2>6. ASSUME Crash(s) PROVE RepeatInv'
    <3>1. /\ crashes'[s] = crashes[s] + 1 /\ crashes' \in [Services -> Nat]
          /\ \A u \in Services \ {s} :
               position'[u] = position[u] /\ reads'[u] = reads[u] /\ crashes'[u] = crashes[u]
      BY <1>0, <2>1, <2>6 DEF Crash
    <3>2. DOMAIN reads'[s] = DOMAIN reads[s]
      BY <1>0, <2>1, <2>6, CrashedReads DEF Crash
    <3>3. ASSUME NEW r \in DOMAIN reads[s] PROVE reads'[s][r].msg = reads[s][r].msg
      <4>1. reads'[s][r] \in {reads[s][r], [reads[s][r] EXCEPT !.state = "killed"]}
        BY <1>0, <2>1, <2>6 DEF Crash
      <4>2. reads[s][r] \in Tasks
        BY <2>1, <3>3, ElementOfSeq
      <4> QED BY <4>1, <4>2 DEF Tasks
    <3>4. \A m \in 1 .. Len(alerts) : ReadsOf(reads'[s], m) = ReadsOf(reads[s], m)
      BY <3>2, <3>3 DEF ReadsOf
    <3>5. \A m \in 1 .. Len(alerts) : Allowed(s, m) <= Allowed(s, m)'
      BY <2>1, <3>1 DEF Allowed
    <3> QED BY <2>4, <3>1, <3>4, <3>5
  <2>7. ASSUME NEW r0 \in DOMAIN reads[s], Act(s, r0) PROVE RepeatInv'
    <3>1. PICK st \in {"running", "ended"} :
            reads' = [reads EXCEPT ![s][r0] = Task(@.msg, reads[s][r0].tried + 1, st)]
      BY <2>7 DEF Act
    <3>2. /\ UNCHANGED <<position, crashes>>
          /\ \A u \in Services \ {s} : reads'[u] = reads[u]
      BY <1>0, <2>7 DEF Act
    <3>3. /\ DOMAIN reads'[s] = DOMAIN reads[s]
          /\ \A r \in DOMAIN reads[s] : reads'[s][r].msg = reads[s][r].msg
      BY <1>0, <2>1, <3>1 DEF Task
    <3>4. \A m \in 1 .. Len(alerts) : ReadsOf(reads'[s], m) = ReadsOf(reads[s], m)
      BY <3>3 DEF ReadsOf
    <3>5. \A m \in 1 .. Len(alerts) : Allowed(s, m)' = Allowed(s, m) /\ Allowed(s, m) \in Nat
      BY <2>1, <3>2 DEF Allowed
    <3> QED BY <1>0, <2>4, <3>2, <3>4, <3>5
  <2> QED
    BY <1>4, <2>3, <2>5, <2>6, <2>7 DEF Serve
<1> QED
  BY <1>2, <1>3, <1>4 DEF Next

\* A service of rust-soar-orchestrator or rust-siem-exporter acts on an alert
\* again only after a crash, and once more for each at most.
THEOREM RepeatsAfterCrashes == Spec => []RepeatsNeedACrash
<1>1. Init => RepeatInv
  BY DEF Init, ScannerInit, RepeatInv
<1>2. TypeOK /\ RepeatInv => RepeatsNeedACrash
  <2> SUFFICES ASSUME TypeOK, RepeatInv, NEW s \in Services, NEW m \in 1 .. Len(alerts)
               PROVE  Cardinality({r \in DOMAIN reads[s] : reads[s][r].msg = m}) <= 1 + crashes[s]
    BY DEF RepeatsNeedACrash
  <2>1. Cardinality(ReadsOf(reads[s], m)) <= Allowed(s, m)
    BY DEF RepeatInv
  <2>2. crashes[s] \in Nat /\ reads[s] \in Seq(Tasks)
    BY DEF TypeOK, ServiceTypeOK
  <2>3. Cardinality(ReadsOf(reads[s], m)) \in Nat
    BY <2>2, ReadsFinite
  <2> QED BY <2>1, <2>2, <2>3 DEF Allowed, ReadsOf
<1> QED
  BY <1>1, <1>2, RepeatStep, TypeCorrect, PTL DEF Spec

-----------------------------------------------------------------------------
(* The services keep the promise of Mailbox.                               *)

Marked == [s \in Services |-> committed[s] # NoOffset]
Views  == [s \in Services |-> [r \in DOMAIN reads[s] |-> Seen(s, reads[s][r])]]

\* Views in the next state, given what a task of each service is seen as.
LEMMA NextViews ==
  ASSUME TypeOK, NEW s \in Services, UNCHANGED alerts,
         \A u \in Services \ {s} : reads'[u] = reads[u],
         NEW seen, seen = [r \in DOMAIN reads'[s] |-> Seen(s, reads'[s][r])]
  PROVE  Views' = [Views EXCEPT ![s] = seen]
<1>1. \A u \in Services : \A t : Seen(u, t)' = Seen(u, t)
  BY DEF Seen, Needed
<1>2. Views'[s] = seen
  <2>1. PICK rs : rs = reads'[s]
    OBVIOUS
  <2>2. \A r \in DOMAIN rs : Seen(s, rs[r])' = Seen(s, rs[r])
    BY <1>1
  <2> QED
    BY <2>1, <2>2 DEF Views
<1>3. ASSUME NEW u \in Services, u # s PROVE Views'[u] = Views[u]
  <2>1. PICK rs : rs = reads[u] /\ rs = reads'[u]
    BY <1>3
  <2>2. \A r \in DOMAIN rs : Seen(u, rs[r])' = Seen(u, rs[r])
    BY <1>1
  <2> QED
    BY <2>1, <2>2 DEF Views
<1>4. Views' = [u \in Services |-> Views'[u]] /\ Views = [u \in Services |-> Views[u]]
  BY DEF Views
<1> QED
  BY <1>2, <1>3, <1>4

\* The topic gets an alert, or is left alone.
LEMMA ScannerMail ==
  ASSUME TypeOK, ScannerNext, UNCHANGED service
  PROVE  [Mail!Next]_(Mail!vars)
<1>1. ScannerTypeOK
  BY DEF TypeOK
<1>2. alerts' = alerts \/ \E f \in Files : alerts' = Append(alerts, f)
  BY DEF ScannerNext, Write, WalkFile, ReceivePath, ProcessFile, EndWalk, DropWatcher,
         Return, Kill, Start
<1>3. Views' = Views
  <2>1. Grows
    BY <1>1, ScannerStep
  <2>2. ASSUME NEW s \in Services, NEW r \in DOMAIN reads[s], NEW t, t = reads[s][r]
        PROVE  Seen(s, t)' = Seen(s, t)
    <3>1. t.msg \in 1 .. Len(alerts)
      <4>1. reads[s] \in Seq(Tasks) /\ r \in 1 .. Len(reads[s])
        BY LenProperties DEF TypeOK, ServiceTypeOK
      <4>2. reads[s][r] \in Tasks
        BY <4>1, ElementOfSeq, Zenon
      <4> QED
        BY <2>2, <4>2 DEF Tasks
    <3> QED
      BY <2>1, <3>1 DEF Grows, Seen, Needed
  <2>3. ASSUME NEW s \in Services, NEW r \in DOMAIN reads[s]
        PROVE  Seen(s, reads[s][r])' = Seen(s, reads[s][r])
    <3>1. PICK t : t = reads[s][r]
      OBVIOUS
    <3> QED
      BY <2>2, <3>1 DEF service, Seen, Needed
  <2> QED
    BY <2>3 DEF Views, service
<1>4. Marked' = Marked /\ UNCHANGED <<position, passed_over>>
  BY DEF service, Marked
<1>5. CASE alerts' = alerts
  BY <1>3, <1>4, <1>5 DEF Mail!vars, Views, Marked
<1>6. ASSUME NEW f \in Files, alerts' = Append(alerts, f) PROVE Mail!Post(f)
  BY <1>3, <1>4, <1>6 DEF Mail!Post, Views, Marked
<1> QED
  BY <1>2, <1>5, <1>6 DEF Mail!Next

LEMMA ServiceMail ==
  ASSUME TypeOK, CommittedIsRead, NEW s \in Services, Serve(s)
  PROVE  [Mail!Next]_(Mail!vars)
<1>0. /\ Len(alerts) \in Nat /\ position[s] \in 0 .. Len(alerts)
      /\ reads[s] \in Seq(Tasks) /\ DOMAIN reads[s] = 1 .. Len(reads[s]) /\ Len(reads[s]) \in Nat
      /\ committed[s] \in {NoOffset} \union 0 .. Len(alerts) /\ committed[s] <= position[s]
      /\ position \in [Services -> 0 .. Len(alerts)]
      /\ reads \in [Services -> Seq(Tasks)]
      /\ committed \in [Services -> {NoOffset} \union 0 .. Len(alerts)]
      /\ passed_over \in [Services -> SUBSET (1 .. Len(alerts))]
  BY LenProperties DEF TypeOK, ScannerTypeOK, ServiceTypeOK, CommittedIsRead
<1>a. UNCHANGED alerts
  BY <1>0, ServeStep DEF scanner
<1>v. Views[s] = [r \in DOMAIN reads[s] |-> Seen(s, reads[s][r])]
  BY DEF Views
<1>1. ASSUME Receive(s) PROVE Mail!Take(s)
  <2>1. PICK m : m = position[s] + 1
    OBVIOUS
  <2>2. PICK t : t = Spawned(s, m)
    OBVIOUS
  <2>3. PICK st \in {"running", "ended"} : Seen(s, t) = [msg |-> m, state |-> st]
    BY <2>2 DEF Spawned, Task, Seen
  <2>4. t \in Tasks
    BY <1>0, <1>1, <2>1, <2>2 DEF Receive, Spawned, Task, Tasks
  <2>5. reads'[s] = Append(reads[s], t) /\ \A u \in Services \ {s} : reads'[u] = reads[u]
    BY <1>0, <1>1, <2>1, <2>2 DEF Receive
  <2>6. PICK x : x = [msg |-> m, state |-> st]
    OBVIOUS
  <2>7. [r \in DOMAIN reads'[s] |-> Seen(s, reads'[s][r])] = Append(Views[s], x)
    <3>1. PICK S : S = {Seen(s, y) : y \in Tasks}
      OBVIOUS
    <3>2. PICK v : v = Views[s]
      OBVIOUS
    <3>3. v \in [1 .. Len(reads[s]) -> S]
      BY <1>0, <1>v, <3>1, <3>2, ElementOfSeq
    <3>n. PICK n \in Nat : n = Len(reads[s])
      BY <1>0
    <3>4. v \in Seq(S) /\ Len(v) = Len(reads[s])
      <4>1. v \in Seq(S) /\ DOMAIN v = 1 .. n
        BY <3>3, <3>n, SeqDef
      <4>2. Len(v) \in Nat /\ DOMAIN v = 1 .. Len(v)
        BY <4>1, LenProperties
      <4> QED
        BY <3>n, <4>1, <4>2
    <3>5. x \in S
      BY <2>3, <2>4, <2>6, <3>1
    <3>6. /\ Append(v, x) \in Seq(S) /\ Len(Append(v, x)) = Len(reads[s]) + 1
          /\ \A r \in 1 .. Len(reads[s]) : Append(v, x)[r] = v[r]
          /\ Append(v, x)[Len(reads[s]) + 1] = x
      BY <3>4, <3>5, AppendProperties
    <3>7. /\ DOMAIN reads'[s] = 1 .. Len(reads[s]) + 1
          /\ \A r \in 1 .. Len(reads[s]) : reads'[s][r] = reads[s][r]
          /\ reads'[s][Len(reads[s]) + 1] = t
      BY <1>0, <2>4, <2>5, AppendProperties, LenProperties
    <3>8. ASSUME NEW r \in 1 .. Len(reads[s]) + 1
          PROVE  Append(v, x)[r] = Seen(s, reads'[s][r])
      <4>1. CASE r \in 1 .. Len(reads[s])
        BY <1>0, <1>v, <3>2, <3>6, <3>7, <4>1
      <4>2. CASE r = Len(reads[s]) + 1
        BY <2>3, <2>6, <3>6, <3>7, <4>2
      <4>3. r \in 1 .. Len(reads[s]) \/ r = Len(reads[s]) + 1
        BY <1>0, <3>8
      <4> QED
        BY <4>1, <4>2, <4>3
    <3>9. Append(v, x) = [r \in 1 .. Len(reads[s]) + 1 |-> Append(v, x)[r]]
      BY <3>6, LenProperties
    <3> QED
      BY <3>2, <3>7, <3>8, <3>9
  <2>8. Views' = [Views EXCEPT ![s] = Append(@, x)]
    BY <1>a, <2>5, <2>7, NextViews
  <2>9. /\ position[s] < Len(alerts) /\ position' = [position EXCEPT ![s] = @ + 1]
        /\ UNCHANGED <<alerts, Marked, passed_over>>
    BY <1>a, <1>1 DEF Receive, Marked
  <2> QED
    BY <2>1, <2>6, <2>8, <2>9 DEF Mail!Take, Views, Marked
<1>2. ASSUME Commit(s) PROVE Mail!Mark(s)
  <2>1. /\ position[s] > 0 /\ committed' = [committed EXCEPT ![s] = position[s]]
        /\ UNCHANGED <<alerts, position, reads, passed_over>>
    BY <1>a, <1>2 DEF Commit
  <2>2. Marked' = [Marked EXCEPT ![s] = TRUE]
    <3>1. position[s] # NoOffset
      BY <1>0, <2>1 DEF NoOffset
    <3>2. \A u \in Services : committed'[u] = IF u = s THEN position[s] ELSE committed[u]
      BY <1>0, <2>1
    <3> QED
      BY <3>1, <3>2 DEF Marked
  <2>3. Views' = Views
    BY <2>1 DEF Views, Seen, Needed
  <2> QED
    BY <2>1, <2>2, <2>3 DEF Mail!Mark, Views, Marked
<1>3. ASSUME Crash(s) PROVE Mail!GoBack(s) \/ Mail!StartAtTheEnd(s)
  <2> DEFINE Killed(t) == IF t.state = "running" THEN [t EXCEPT !.state = "killed"] ELSE t
  <2>1. /\ reads'[s] = [r \in DOMAIN reads[s] |-> Killed(reads[s][r])]
        /\ \A u \in Services \ {s} : reads'[u] = reads[u]
    BY <1>0, <1>3 DEF Crash
  <2>2. ASSUME NEW t \in Tasks PROVE Seen(s, Killed(t)) = Killed(Seen(s, t))
    BY DEF Seen, Tasks
  <2>3. [r \in DOMAIN reads'[s] |-> Seen(s, reads'[s][r])]
          = [r \in DOMAIN Views[s] |-> Killed(Views[s][r])]
    <3>1. DOMAIN reads'[s] = DOMAIN reads[s] /\ DOMAIN Views[s] = DOMAIN reads[s]
      BY <1>v, <2>1
    <3>2. ASSUME NEW r \in DOMAIN reads[s] PROVE Seen(s, reads'[s][r]) = Killed(Views[s][r])
      <4>1. PICK t \in Tasks : t = reads[s][r]
        BY <1>0, ElementOfSeq
      <4>2. reads'[s][r] = Killed(t) /\ Views[s][r] = Seen(s, t)
        BY <1>v, <2>1, <4>1
      <4> QED
        BY <2>2, <4>2
    <3> QED
      BY <3>1, <3>2
  <2>4. Views' = [Views EXCEPT ![s] = [r \in DOMAIN @ |-> Killed(@[r])]]
    BY <1>a, <2>1, <2>3, NextViews
  <2>5. Mail!Die(s)
    BY <2>4 DEF Mail!Die, Views
  <2>6. UNCHANGED <<alerts, Marked>> /\ Marked[s] = (committed[s] # NoOffset)
    BY <1>a, <1>3 DEF Crash, Marked
  <2>7. CASE committed[s] = NoOffset
    <3>1. /\ position' = [position EXCEPT ![s] = Len(alerts)]
          /\ passed_over' = [passed_over EXCEPT ![s] = @ \union (position[s] + 1 .. Len(alerts))]
      BY <1>3, <2>7 DEF Crash
    <3> QED
      BY <2>5, <2>6, <2>7, <3>1 DEF Mail!StartAtTheEnd, Marked
  <2>8. CASE committed[s] # NoOffset
    <3>1. committed[s] \in 0 .. position[s]
      BY <1>0, <2>8
    <3>2. position' = [position EXCEPT ![s] = committed[s]]
      BY <1>3, <2>8 DEF Crash
    <3>3. passed_over' = passed_over
      <4>1. position[s] + 1 .. committed[s] = {}
        BY <1>0, <3>1
      <4> QED
        BY <1>0, <1>3, <2>8, <4>1 DEF Crash
    <3> QED
      BY <2>5, <2>6, <2>8, <3>1, <3>2, <3>3 DEF Mail!GoBack, Marked
  <2> QED
    BY <2>7, <2>8
<1>4. ASSUME NEW r0 \in DOMAIN reads[s], Act(s, r0)
      PROVE  Mail!Finish(s, r0) \/ UNCHANGED Mail!vars
  <2>1. PICK t \in Tasks : t = reads[s][r0]
    BY <1>0, ElementOfSeq
  <2>2. PICK t1 : t1 = Task(t.msg, t.tried + 1, IF t.tried + 1 = Needed(s, t.msg) THEN "ended" ELSE "running")
    OBVIOUS
  <2>3. /\ t.state = "running" /\ reads'[s] = [reads[s] EXCEPT ![r0] = t1]
        /\ \A u \in Services \ {s} : reads'[u] = reads[u]
        /\ UNCHANGED <<alerts, Marked, position, passed_over>>
    BY <1>0, <1>a, <1>4, <2>1, <2>2 DEF Act, Marked
  <2>4. Seen(s, t1).state = (IF t.tried + 1 = Needed(s, t.msg) THEN "ended" ELSE "running")
        /\ Seen(s, t) = [msg |-> t.msg, state |-> "running"]
        /\ Seen(s, t1) = [msg |-> t.msg, state |-> Seen(s, t1).state]
    BY <2>2, <2>3 DEF Seen, Task
  <2>5. [r \in DOMAIN reads'[s] |-> Seen(s, reads'[s][r])] = [Views[s] EXCEPT ![r0] = Seen(s, t1)]
    BY <1>v, <2>3
  <2>6. Views' = [Views EXCEPT ![s] = [Views[s] EXCEPT ![r0] = Seen(s, t1)]]
    BY <1>a, <2>3, <2>5, NextViews
  <2>7. Views[s][r0] = Seen(s, t) /\ r0 \in DOMAIN Views[s]
    BY <1>v, <2>1
  <2>8. CASE Seen(s, t1) = Seen(s, t)
    <3>1. [Views[s] EXCEPT ![r0] = Seen(s, t1)] = Views[s]
      BY <1>v, <2>7, <2>8
    <3>2. Views' = Views
      BY <2>6, <3>1 DEF Views
    <3> QED
      BY <2>3, <3>2 DEF Mail!vars, Views, Marked
  <2>9. CASE Seen(s, t1) = [Seen(s, t) EXCEPT !.state = "ended"]
    <3>1. Views' = [Views EXCEPT ![s][r0].state = "ended"]
      BY <2>6, <2>7, <2>9
    <3>2. Views[s][r0].state = "running"
      BY <2>4, <2>7
    <3> QED
      BY <2>3, <3>1, <3>2 DEF Mail!Finish, Views, Marked
  <2> QED
    BY <2>4, <2>8, <2>9
<1> QED
  <2>1. \A r \in DOMAIN reads[s] : r \in DOMAIN Views[s]
    BY <1>v
  <2> QED
    BY <1>1, <1>2, <1>3, <1>4, <2>1 DEF Serve, Mail!Next, Views

\* The services implement Mailbox: alerts are taken in order, a task ends when it
\* has tried every action or dies in a crash, nothing but a crash takes a service
\* back, and one whose group has an offset passes over nothing.
THEOREM ImplementsMailbox == Spec => MailboxPromise
<1>1. Init => Mail!Init
  <2> SUFFICES ASSUME Init PROVE Mail!Init
    OBVIOUS
  <2>1. \A s \in Services : [r \in DOMAIN reads[s] |-> Seen(s, reads[s][r])] = <<>>
    BY EmptySeq DEF Init
  <2> QED
    BY <2>1 DEF Init, ScannerInit, Mail!Init
<1>2. Init => AnsweredInv
  BY DEF Init, AnsweredInv, CommittedIsRead, EveryAlertIsAnswered, NoOffset
<1>3. TypeOK /\ AnsweredInv /\ [Next]_vars => [Mail!Next]_(Mail!vars)
  <2> SUFFICES ASSUME TypeOK, AnsweredInv, [Next]_vars PROVE [Mail!Next]_(Mail!vars)
    OBVIOUS
  <2>1. CASE UNCHANGED vars
    BY <2>1 DEF vars, scanner, service, Mail!vars, Seen, Needed
  <2> QED
    BY <2>1, ScannerMail, ServiceMail DEF Next, AnsweredInv
<1> QED
  BY <1>1, <1>2, <1>3, AnsweredStep, TypeCorrect, PTL DEF Spec, MailboxPromise, Mail!Spec
=============================================================================
