----------------------------- MODULE AlertResponse -----------------------------
(***************************************************************************)
(* From a file to the response: the scanner of FileScanner reports it on   *)
(* security-alerts, and services/rust-soar-orchestrator and                *)
(* services/rust-siem-exporter, each a consumer group of one process, act  *)
(* on it.  Both have the same loop: recv, parse, spawn a task that tries   *)
(* one action (of a matching playbook; an exporter) after the other.       *)
(*                                                                         *)
(* An action is an HTTP request without a timeout, or a log line: it may   *)
(* never return, and its error is logged.  A timer commits the offsets of  *)
(* what was read, answered or not.                                         *)
(***************************************************************************)
EXTENDS FileScanner

CONSTANTS
  Services,
  Actions,   \* how many actions a service has for the alert of a file
  MaxCrashes \* bound: crashes of each service

ASSUME ResponseAssumption ==
  /\ Actions \in [Services -> [Files -> Nat]]
  /\ MaxCrashes \in Nat

VARIABLES
  position,   \* how far each service has read
  committed,  \* its group's offset, or NoOffset
  reads,      \* each message a service has read, with its task
  passed_over,\* history: messages a start without an offset began after
  crashes

service == <<position, committed, reads, passed_over, crashes>>
vars == <<scanner, service>>

NoOffset == -1

\* The task of a read: the actions it has tried, and whether it goes on.
Task(m, n, s) == [msg |-> m, tried |-> n, state |-> s]
Needed(s, m) == Actions[s][alerts[m]]

Init ==
  /\ ScannerInit
  /\ position = [s \in Services |-> 0]
  /\ committed = [s \in Services |-> NoOffset]
  /\ reads = [s \in Services |-> <<>>]
  /\ passed_over = [s \in Services |-> {}]
  /\ crashes = [s \in Services |-> 0]

\* A task with an action to try; the others end at once.
Spawned(s, m) == Task(m, 0, IF Needed(s, m) = 0 THEN "ended" ELSE "running")

\* recv, parse, tokio::spawn.
Receive(s) ==
  /\ position[s] < Len(alerts)
  /\ position' = [position EXCEPT ![s] = @ + 1]
  /\ reads' = [reads EXCEPT ![s] = Append(@, Spawned(s, position[s] + 1))]
  /\ UNCHANGED <<scanner, committed, passed_over, crashes>>

\* Mutant: the error of an action ends the task.
ActStopsOnError(s, r) ==
  /\ reads[s][r].state = "running"
  /\ \E e \in {TRUE, FALSE} :
       LET n == reads[s][r].tried + 1
           last == e \/ n = Needed(s, reads[s][r].msg)
       IN  reads' = [reads EXCEPT ![s][r] =
                       Task(@.msg, n, IF last THEN "ended" ELSE "running")]
  /\ UNCHANGED <<scanner, position, committed, passed_over, crashes>>

\* Mutant: a failed action makes the task start over with a task of its own.
ActStartsOver(s, r) ==
  /\ reads[s][r].state = "running"
  /\ reads' = [reads EXCEPT ![s] =
                 Append([@ EXCEPT ![r].state = "ended"], Spawned(s, @[r].msg))]
  /\ UNCHANGED <<scanner, position, committed, passed_over, crashes>>

\* An action returns, well or badly; the task goes on with the next one.
Act(s, r) ==
  /\ reads[s][r].state = "running"
  /\ LET n == reads[s][r].tried + 1
         last == n = Needed(s, reads[s][r].msg)
     IN  reads' = [reads EXCEPT ![s][r] =
                     Task(@.msg, n, IF last THEN "ended" ELSE "running")]
  /\ UNCHANGED <<scanner, position, committed, passed_over, crashes>>

\* Mutant: the offset after the next message is committed.
CommitAhead(s) ==
  /\ position[s] > 0
  /\ committed' = [committed EXCEPT ![s] = position[s] + 1]
  /\ UNCHANGED <<scanner, position, reads, passed_over, crashes>>

\* enable.auto.commit
Commit(s) ==
  /\ position[s] > 0
  /\ committed' = [committed EXCEPT ![s] = position[s]]
  /\ UNCHANGED <<scanner, position, reads, passed_over, crashes>>

\* The process dies with its tasks, and starts again from the group's offset;
\* without one, at the end of the topic (auto.offset.reset is not set).
Crash(s) ==
  LET start == IF committed[s] = NoOffset THEN Len(alerts) ELSE committed[s] IN
  /\ crashes[s] < MaxCrashes
  /\ crashes' = [crashes EXCEPT ![s] = @ + 1]
  /\ position' = [position EXCEPT ![s] = start]
  /\ passed_over' = [passed_over EXCEPT ![s] = @ \union (position[s] + 1 .. start)]
  /\ reads' = [reads EXCEPT ![s] =
       [r \in DOMAIN @ |-> IF @[r].state = "running" THEN [@[r] EXCEPT !.state = "killed"]
                                                     ELSE @[r]]]
  /\ UNCHANGED <<scanner, committed>>

Serve(s) ==
  \/ Receive(s) \/ Commit(s) \/ Crash(s)
  \/ \E r \in DOMAIN reads[s] : Act(s, r)

Next ==
  \/ ScannerNext /\ UNCHANGED service
  \/ \E s \in Services : Serve(s)

Spec == Init /\ [][Next]_vars

\* recv returns what there is to read.  No action need ever return.
Fairness == ScannerFairness /\ \A s \in Services : WF_vars(Receive(s))
FairSpec == Spec /\ Fairness

-----------------------------------------------------------------------------
(* Properties.                                                             *)

Tasks == [msg : 1 .. Len(alerts), tried : Nat, state : {"running", "ended", "killed"}]

ServiceTypeOK ==
  /\ position \in [Services -> 0 .. Len(alerts)]
  /\ committed \in [Services -> {NoOffset} \union 0 .. Len(alerts)]
  /\ reads \in [Services -> Seq(Tasks)]
  /\ passed_over \in [Services -> SUBSET (1 .. Len(alerts))]
  /\ crashes \in [Services -> Nat]

TypeOK == ScannerTypeOK /\ ServiceTypeOK

\* An alert behind a service's position was passed over by a start without an
\* offset, or some task has tried every action for it, is under way, or was
\* killed by a crash: committing early and spawning loses no other alert, and
\* no failed action ends the treatment of one.  MailboxPromise says it step by step.
EveryAlertIsAnswered ==
  \A s \in Services : \A m \in 1 .. position[s] \ passed_over[s] :
    \E r \in DOMAIN reads[s] :
      /\ reads[s][r].msg = m
      /\ reads[s][r].state = "ended" => reads[s][r].tried = Needed(s, m)

\* An alert is acted on again only after a crash: the tasks of a service for one
\* message are no more than its crashes and one.
RepeatsNeedACrash ==
  \A s \in Services, m \in 1 .. Len(alerts) :
    Cardinality({r \in DOMAIN reads[s] : reads[s][r].msg = m}) <= 1 + crashes[s]

\* A task as Mailbox sees it: ended when it has tried every action.
Seen(s, t) ==
  [msg |-> t.msg,
   state |-> IF t.state = "ended" /\ t.tried # Needed(s, t.msg) THEN "unfinished" ELSE t.state]

Mail == INSTANCE Mailbox WITH
  Messages <- Files,
  topic    <- alerts,
  place    <- position,
  marked   <- [s \in Services |-> committed[s] # NoOffset],
  tasks    <- [s \in Services |-> [r \in DOMAIN reads[s] |-> Seen(s, reads[s][r])]],
  skipped  <- passed_over

\* The services keep the promise of Mailbox: in whatever state crashes, commits
\* and errors leave them, alerts are taken in order, no task ends before it has
\* tried every action, nothing but a crash takes a service back, and a service
\* with an offset passes over nothing.
MailboxPromise == Mail!Spec

\* A file that matches is reported and read by every service, although the
\* watcher misses it or it is scanned half written, scans and sends fail, and a
\* service without an offset passes over what it had not read: once failures are
\* over, the next start of the scanner finds the file.
FindingsReachServices ==
  \A s \in Services, f \in Files :
    (/\ content[f] = "whole" /\ starts < MaxStarts
     /\ kills = MaxKills /\ faults = MaxFaults /\ crashes[s] = MaxCrashes)
      ~> \E r \in DOMAIN reads[s] : alerts[reads[s][r].msg] = f
=============================================================================
