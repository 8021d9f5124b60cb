------------------------------- MODULE ApiClient -------------------------------
(***************************************************************************)
(* The requests of ui/src/utils/api.ts and their retries, utils/retry.ts:  *)
(* whatever the method, a request that fails is sent again after a delay   *)
(* that doubles.  The server applies a request when it is reached; the     *)
(* browser may hear of a failure all the same.  Requests whose body the    *)
(* browser cannot parse, an empty answer among them, count as failures.    *)
(***************************************************************************)
EXTENDS Naturals, FiniteSetsExt

CONSTANTS
  Requests,
  MaxAttempts, InitialDelay, MaxDelay, BackoffFactor \* retryConfig, in seconds

ASSUME ApiClientAssumption ==
  /\ {MaxAttempts, InitialDelay, MaxDelay, BackoffFactor} \subseteq Nat \ {0}
  /\ InitialDelay <= MaxDelay

VARIABLE request \* each request's phase, attempt and next delay, and its history

apiClientVars == <<request>>

\* applied and unheard are history: how often the server has done what is
\* asked, and how often the browser was not told.
NewRequest(phase, attempt) ==
  [phase |-> phase, attempt |-> attempt, delay |-> InitialDelay, applied |-> 0,
   unheard |-> 0, rejected |-> FALSE]

ApiClientInit == request = [r \in Requests |-> NewRequest("new", 0)]

\* A response with a status of 4xx is "client", 429 is "rate", 5xx "server".
Errors == {"network", "server", "rate", "client", "unreadable"}

\* Mutant: a client error is retried.
ShouldRetryAll(error) == TRUE

ShouldRetry(error) == error # "client"

\* What the server may have done with an attempt that ends with an error.
MayApply(error) ==
  CASE error = "unreadable" -> {1}
    [] error \in {"network", "server"} -> {0, 1}
    [] OTHER -> {0}

\* A caller, once its request is settled, may make another.
Call(r) ==
  /\ request[r].phase \in {"new", "done", "failed"}
  /\ request' = [request EXCEPT ![r] = NewRequest("sent", 1)]

Resolves(r) ==
  /\ request[r].phase = "sent"
  /\ request' = [request EXCEPT ![r].phase = "done", ![r].applied = @ + 1]

\* Mutant: no attempt is the last.
FailsAndRetries(r, error) ==
  /\ request[r].phase = "sent"
  /\ \E n \in MayApply(error) :
       request' = [request EXCEPT
         ![r].phase = IF ShouldRetry(error) THEN "waiting" ELSE "failed",
         ![r].applied = @ + n, ![r].unheard = @ + n,
         ![r].rejected = IF error = "client" THEN TRUE ELSE @]

Fails(r, error) ==
  /\ request[r].phase = "sent"
  /\ \E n \in MayApply(error) :
       LET again == request[r].attempt # MaxAttempts /\ ShouldRetry(error) IN
       request' = [request EXCEPT
         ![r].phase = IF again THEN "waiting" ELSE "failed",
         ![r].applied = @ + n, ![r].unheard = @ + n,
         ![r].rejected = IF error = "client" THEN TRUE ELSE @]

\* The delay is over: the next attempt, and the delay after that.
Retry(r) ==
  /\ request[r].phase = "waiting"
  /\ request' = [request EXCEPT ![r].phase = "sent", ![r].attempt = @ + 1,
                   ![r].delay = Min({@ * BackoffFactor, MaxDelay})]

ApiClientNext == \E r \in Requests :
  Call(r) \/ Resolves(r) \/ Retry(r) \/ \E error \in Errors : Fails(r, error)

ApiClientSpec == ApiClientInit /\ [][ApiClientNext]_apiClientVars

\* Timers fire, and the browser resolves or fails a fetch in the end.
Settles(r) == Resolves(r) \/ Retry(r) \/ \E error \in Errors : Fails(r, error)

-----------------------------------------------------------------------------
(* Properties.                                                             *)

ApiClientTypeOK ==
  request \in [Requests -> [phase : {"new", "sent", "waiting", "done", "failed"},
                            attempt : 0 .. MaxAttempts, delay : InitialDelay .. MaxDelay,
                            applied : 0 .. MaxAttempts, unheard : 0 .. MaxAttempts,
                            rejected : BOOLEAN]]

\* What a caller may conclude: after success the server has done what was asked,
\* and more than once only where the answer to an earlier attempt was lost;
\* a request the server has rejected is over, and is never sent again.
OutcomeIsTrue == \A r \in Requests :
  /\ request[r].phase = "done" => request[r].applied = 1 + request[r].unheard
  /\ request[r].rejected => request[r].phase = "failed"
=============================================================================
