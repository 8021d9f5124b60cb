---------------------------- MODULE AtomicBreaker ----------------------------
(***************************************************************************)
(* What a circuit breaker (crates/ndr-core/src/circuit_breaker.rs) is to   *)
(* its callers, the two locked cells and the awaits between them taken     *)
(* away: one flag, and whether reset_timeout has passed since the failure  *)
(* last noted.  A call is let through a closed breaker, or closes it       *)
(* because it found the time passed; only the failure of a call that was   *)
(* let through opens the breaker; and a success noted leaves it closed.    *)
(***************************************************************************)
CONSTANTS Tasks, Cancellable

VARIABLES
  open,
  cooled,  \* reset_timeout has passed since the failure last noted
  call     \* how far each caller is

vars == <<open, cooled, call>>

Goto(t, c) == call' = [call EXCEPT ![t] = c]

Init ==
  /\ open = FALSE
  /\ cooled = FALSE
  /\ call = [t \in Tasks |-> "idle"]

Ask(t) ==
  /\ call[t] = "idle" /\ Goto(t, "asking")
  /\ UNCHANGED <<open, cooled>>

Admit(t) ==
  /\ call[t] = "asking" /\ ~open /\ Goto(t, "admitted")
  /\ UNCHANGED <<open, cooled>>

FindOpen(t) ==
  /\ call[t] = "asking" /\ open /\ Goto(t, "found open")
  /\ UNCHANGED <<open, cooled>>

\* The flag was up when the caller asked; it need not be now.
Refuse(t) ==
  /\ call[t] = "found open" /\ ~cooled /\ Goto(t, "idle")
  /\ UNCHANGED <<open, cooled>>

TryAgain(t) ==
  /\ call[t] = "found open" /\ cooled /\ Goto(t, "closing")
  /\ UNCHANGED <<open, cooled>>

Close(t) ==
  /\ call[t] = "closing" /\ Goto(t, "admitted")
  /\ open' = FALSE /\ cooled' = FALSE

OperationEnds(t) ==
  /\ call[t] = "admitted"
  /\ Goto(t, "succeeded") \/ Goto(t, "failed")
  /\ UNCHANGED <<open, cooled>>

NoteSuccess(t) ==
  /\ call[t] = "succeeded" /\ Goto(t, "idle")
  /\ open' = FALSE /\ cooled' = FALSE

\* Other failures may be needed to open the breaker; the time starts anew a
\* moment later.
NoteFailure(t) ==
  /\ call[t] = "failed" /\ Goto(t, "noting")
  /\ open' \in {open, TRUE}
  /\ UNCHANGED cooled

StartTime(t) ==
  /\ call[t] = "noting" /\ Goto(t, "idle")
  /\ cooled' = FALSE
  /\ UNCHANGED open

\* A caller is dropped; what it has done stays done.
Leave(t) ==
  /\ t \in Cancellable
  /\ call[t] # "idle" /\ Goto(t, "idle")
  /\ UNCHANGED <<open, cooled>>

Cool ==
  /\ cooled' = TRUE
  /\ UNCHANGED <<open, call>>

Next ==
  \/ Cool
  \/ \E t \in Tasks :
       \/ Ask(t) \/ Admit(t) \/ FindOpen(t) \/ Refuse(t) \/ TryAgain(t) \/ Close(t)
       \/ OperationEnds(t) \/ NoteSuccess(t) \/ NoteFailure(t) \/ StartTime(t)
       \/ Leave(t)

Spec == Init /\ [][Next]_vars
=============================================================================
