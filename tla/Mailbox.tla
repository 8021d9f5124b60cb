------------------------------- MODULE Mailbox -------------------------------
(***************************************************************************)
(* What a service that reads a topic with enable.auto.commit and starts a  *)
(* task for each message promises (services/rust-soar-orchestrator,        *)
(* services/rust-siem-exporter): it takes the messages in their order;     *)
(* a task ends by doing all that its message asks for, or with the         *)
(* process; only a crash takes the service back, and only before its group *)
(* has an offset does a start pass over what nobody has read.  There is no *)
(* promise that a task ends, or that a message is taken once.              *)
(***************************************************************************)
EXTENDS Naturals, Sequences

CONSTANTS Messages, Services

VARIABLES
  topic,
  place,   \* how many messages of the topic each service has taken
  marked,  \* whether its group has an offset
  tasks,   \* the tasks it has begun
  skipped  \* the messages it never took, and never will

vars == <<topic, place, marked, tasks, skipped>>

Init ==
  /\ topic = <<>>
  /\ place = [s \in Services |-> 0]
  /\ marked = [s \in Services |-> FALSE]
  /\ tasks = [s \in Services |-> <<>>]
  /\ skipped = [s \in Services |-> {}]

Post(f) ==
  /\ topic' = Append(topic, f)
  /\ UNCHANGED <<place, marked, tasks, skipped>>

\* A message may ask for nothing.
Take(s) ==
  /\ place[s] < Len(topic)
  /\ place' = [place EXCEPT ![s] = @ + 1]
  /\ \E st \in {"running", "ended"} :
       tasks' = [tasks EXCEPT ![s] = Append(@, [msg |-> place[s] + 1, state |-> st])]
  /\ UNCHANGED <<topic, marked, skipped>>

Finish(s, r) ==
  /\ tasks[s][r].state = "running"
  /\ tasks' = [tasks EXCEPT ![s][r].state = "ended"]
  /\ UNCHANGED <<topic, place, marked, skipped>>

Mark(s) ==
  /\ place[s] > 0
  /\ marked' = [marked EXCEPT ![s] = TRUE]
  /\ UNCHANGED <<topic, place, tasks, skipped>>

\* The tasks under way die with the process.
Die(s) ==
  tasks' = [tasks EXCEPT ![s] = [r \in DOMAIN @ |->
    IF @[r].state = "running" THEN [@[r] EXCEPT !.state = "killed"] ELSE @[r]]]

GoBack(s) ==
  /\ marked[s]
  /\ \E p \in 0 .. place[s] : place' = [place EXCEPT ![s] = p]
  /\ Die(s)
  /\ UNCHANGED <<topic, marked, skipped>>

StartAtTheEnd(s) ==
  /\ ~marked[s]
  /\ place' = [place EXCEPT ![s] = Len(topic)]
  /\ skipped' = [skipped EXCEPT ![s] = @ \union (place[s] + 1 .. Len(topic))]
  /\ Die(s)
  /\ UNCHANGED <<topic, marked>>

Next ==
  \/ \E f \in Messages : Post(f)
  \/ \E s \in Services :
       \/ Take(s) \/ Mark(s) \/ GoBack(s) \/ StartAtTheEnd(s)
       \/ \E r \in DOMAIN tasks[s] : Finish(s, r)

Spec == Init /\ [][Next]_vars
=============================================================================
